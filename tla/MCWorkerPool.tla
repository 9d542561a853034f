---------------------------- MODULE MCWorkerPool ----------------------------
(***************************************************************************)
(* Instances of WorkerPool for TLC.                                        *)
(***************************************************************************)
EXTENDS WorkerPool

CONSTANTS j1, j2, j3, p1, p2, w1, w2

OneJob == {j1}
TwoJobs == {j1, j2}
ThreeJobs == {j1, j2, j3}
OneProc == {p1}
TwoProcs == {p1, p2}
OneWorker == {w1}
TwoWorkers == {w1, w2}

\* j1 carries a limit of its own, the others none.
Limits == [j \in Jobs |-> IF j = j1 THEN 1 ELSE 0]
JustJ2 == {j2}
JustJ3 == {j3}

AllMishaps == [m \in Mishaps |-> 1]
OnlyExpiry == [m \in Mishaps |-> IF m \in {"expiry", "shutdown"} THEN 1 ELSE 0]
TwoCrashes == [m \in Mishaps |-> IF m = "crash" THEN 2 ELSE 1]
Restarts == [m \in Mishaps |-> IF m \in {"crash", "shutdown"} THEN 1 ELSE 0]
=============================================================================
