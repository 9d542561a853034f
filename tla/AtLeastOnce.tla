---------------------------- MODULE AtLeastOnce -----------------------------
(***************************************************************************)
(* What a durable job queue promises its producers and its handlers, with  *)
(* no lists, worker processes, acknowledgements or crashes: a job is       *)
(* pending from the moment it is accepted until it is settled.  Its        *)
(* handler may be run any number of times in between, one run at a time;   *)
(* a run may be cut short or end unheard.  The job is done only after a    *)
(* run that succeeded, given up only when its last permitted run has       *)
(* failed, and settled for good.                                           *)
(***************************************************************************)
EXTENDS Naturals

CONSTANTS
    Jobs,
    Limit,      \* the attempts each job may have, at least one
    Unhandled,  \* jobs nobody can run
    Garbled     \* jobs nobody can read

\* run[j] is none, begun, ok (the handler has succeeded) or err (it has not).
VARIABLES state, run, succeeded

New == [at |-> "new"]
Pending(k) == [at |-> "pending", failures |-> k]
Done == [at |-> "done"]
Dead(k) == [at |-> "dead", failures |-> k]
Discarded == [at |-> "discarded"]

Become(j, s) == state' = [state EXCEPT ![j] = s]
IsPending(j) == state[j].at = "pending"
Moves(j, from, to) == run[j] = from /\ run' = [run EXCEPT ![j] = to]

Init ==
    /\ state = [j \in Jobs |-> New]
    /\ run = [j \in Jobs |-> "none"]
    /\ succeeded = {}

Accept(j) == state[j] = New /\ Become(j, Pending(0)) /\ UNCHANGED << run, succeeded >>

Begin(j) ==
    /\ IsPending(j) /\ j \notin Unhandled \cup Garbled
    /\ Moves(j, "none", "begun")
    /\ UNCHANGED << state, succeeded >>

Succeed(j) ==
    /\ IsPending(j)
    /\ Moves(j, "begun", "ok")
    /\ succeeded' = succeeded \cup {j}
    /\ UNCHANGED state

Err(j) == Moves(j, "begun", "err") /\ UNCHANGED << state, succeeded >>

Finish(j) == IsPending(j) /\ Moves(j, "ok", "none") /\ Become(j, Done) /\ UNCHANGED succeeded

Fail(j) ==
    /\ IsPending(j)
    /\ Moves(j, "err", "none")
    /\ LET k == state[j].failures + 1
       IN  Become(j, IF k >= Limit[j] THEN Dead(k) ELSE Pending(k))
    /\ UNCHANGED succeeded

Refuse(j) ==
    /\ IsPending(j) /\ j \in Unhandled
    /\ Become(j, Dead(state[j].failures))
    /\ UNCHANGED << run, succeeded >>

Discard(j) ==
    /\ IsPending(j) /\ j \in Garbled
    /\ Become(j, Discarded)
    /\ UNCHANGED << run, succeeded >>

\* The runs of some jobs are cut short, or nobody hears how they end.
Forget(S) ==
    /\ run' = [j \in Jobs |-> IF j \in S THEN "none" ELSE run[j]]
    /\ UNCHANGED << state, succeeded >>

Return(j) == Succeed(j) \/ Err(j)
Settle(j) == Finish(j) \/ Fail(j) \/ Refuse(j) \/ Discard(j)

Next ==
    \/ \E j \in Jobs : Accept(j) \/ Begin(j) \/ Return(j) \/ Settle(j)
    \/ \E S \in SUBSET Jobs : Forget(S)

Spec == Init /\ [][Next]_<< state, run, succeeded >>

\* A job is run again and again until a run is heard of.
FairSpec ==
    /\ Spec
    /\ \A j \in Jobs :
          /\ WF_<< state, run, succeeded >>(Begin(j))
          /\ SF_<< state, run, succeeded >>(Return(j))
          /\ SF_<< state, run, succeeded >>(Settle(j))

=============================================================================
