----------------------------- MODULE WorkerPool -----------------------------
(***************************************************************************)
(* The worker processes of cmd/worker: each runs Pool.Run, whose own       *)
(* goroutine recovers the processing list and then dispatches deliveries   *)
(* over an unbuffered channel to a bounded set of worker goroutines.  The  *)
(* processes share the three lists of JobQueue with the producers (the API *)
(* server and cmd/enqueue).                                                *)
(*                                                                         *)
(* pc[p] is the place of the Run goroutine of process p:                   *)
(*   off         the process is not running                                *)
(*   recovering  in queue.Recover                                          *)
(*   claiming    in queue.Claim, a BLMOVE outstanding                      *)
(*   dropping    in queue.Claim, which cannot unmarshal offer[p]           *)
(*   sending     in the select that hands offer[p] to a worker             *)
(*   waiting     the channel is closed, in wg.Wait                         *)
(* worker[p][w].pc is the place of a worker goroutine:                     *)
(*   idle        receiving on the channel                                  *)
(*   running     in invoke, the handler running                            *)
(*   acking      the handler returned nil, Ack comes next                  *)
(*   backoff     the handler failed, the backoff sleep and Retry come next *)
(*   killing     no handler is registered, Kill comes next                 *)
(* worker[p][w].timely says that ackCtx, whose deadline starts when        *)
(* process is entered, has not expired.                                    *)
(***************************************************************************)
EXTENDS JobQueue

CONSTANTS
    Procs,      \* worker processes on the same Redis namespace
    Workers,    \* the goroutines of one pool
    Unknown,    \* jobs whose type has no registered handler
    Poison,     \* jobs whose payload does not unmarshal
    Budget,     \* how often each mishap may happen
    NoEntry

\* A process dies; a Redis command fails or its reply is lost; ackCtx expires;
\* a process is told to stop; Recover takes an entry that is being worked on.
Mishaps == {"crash", "fault", "expiry", "shutdown", "steal"}

ASSUME SortsAssumption == Unknown \subseteq Jobs /\ Poison \subseteq Jobs
ASSUME NoEntryAssumption == NoEntry \notin Entry
ASSUME BudgetAssumption == Budget \in [Mishaps -> Nat]

VARIABLES
    pc, cancelled, offer, worker,
    accepted,   \* jobs whose Enqueue succeeded
    acked,      \* jobs removed by an Ack
    dropped,    \* poison removed by Claim
    succeeded,  \* jobs some handler run of which returned nil
    runs,       \* handler invocations per job
    mishaps     \* what has gone wrong so far

procVars == << pc, cancelled, offer, worker >>
ghostVars == << accepted, acked, dropped, succeeded, runs >>
vars == << queueVars, procVars, ghostVars, mishaps >>

IdleWorker == [pc |-> "idle", job |-> NoEntry, timely |-> TRUE]

WorkerState == { IdleWorker } \cup
    [pc : {"running", "acking", "backoff", "killing"}, job : Entry, timely : BOOLEAN]

TypeOK ==
    /\ QueueTypeOK
    /\ pc \in [Procs -> {"off", "recovering", "claiming", "dropping", "sending", "waiting"}]
    /\ cancelled \in [Procs -> BOOLEAN]
    /\ offer \in [Procs -> Entry \cup {NoEntry}]
    /\ \A p \in Procs : offer[p] \in Entry <=> pc[p] \in {"dropping", "sending"}
    /\ worker \in [Procs -> [Workers -> WorkerState]]
    /\ accepted \in SUBSET Jobs
    /\ acked \in SUBSET Jobs
    /\ dropped \in SUBSET Jobs
    /\ succeeded \in SUBSET Jobs
    /\ runs \in [Jobs -> Nat]
    /\ mishaps \in [Mishaps -> Nat]

Init ==
    /\ QueueInit
    /\ pc = [p \in Procs |-> "off"]
    /\ cancelled = [p \in Procs |-> FALSE]
    /\ offer = [p \in Procs |-> NoEntry]
    /\ worker = [p \in Procs |-> [w \in Workers |-> IdleWorker]]
    /\ accepted = {} /\ acked = {} /\ dropped = {} /\ succeeded = {}
    /\ runs = [j \in Jobs |-> 0]
    /\ mishaps = [m \in Mishaps |-> 0]

\* The bound on each kind of mishap: every use of one counts it.
Suffer(m) == mishaps[m] < Budget[m] /\ mishaps' = [mishaps EXCEPT ![m] = @ + 1]

-----------------------------------------------------------------------------
(* Producers: PlanService.Generate and cmd/enqueue.                        *)

Submit(j) ==
    /\ j \notin accepted
    /\ Enqueue(j)
    /\ accepted' = accepted \cup {j}
    /\ UNCHANGED << procVars, acked, dropped, succeeded, runs, mishaps >>

-----------------------------------------------------------------------------
(* The Run goroutine.                                                      *)

\* Mutant: Run does not call Recover.
StartWithoutRecover(p) ==
    /\ pc[p] = "off"
    /\ pc' = [pc EXCEPT ![p] = "claiming"]
    /\ cancelled' = [cancelled EXCEPT ![p] = FALSE]
    /\ UNCHANGED << queueVars, offer, worker, ghostVars, mishaps >>

Start(p) ==
    /\ pc[p] = "off"
    /\ pc' = [pc EXCEPT ![p] = "recovering"]
    /\ cancelled' = [cancelled EXCEPT ![p] = FALSE]
    /\ UNCHANGED << queueVars, offer, worker, ghostVars, mishaps >>

\* SIGINT or SIGTERM cancels the context given to Run.
Shutdown(p) ==
    /\ pc[p] # "off" /\ ~cancelled[p]
    /\ Suffer("shutdown")
    /\ cancelled' = [cancelled EXCEPT ![p] = TRUE]
    /\ UNCHANGED << queueVars, pc, offer, worker, ghostVars >>

\* Mutant: the loop does not look at the context.
LoopForever(p) == pc' = [pc EXCEPT ![p] = "claiming"]

\* The head of the dispatch loop looks at the context before it claims; once it
\* is cancelled dispatch returns, Run closes the channel and waits.
Loop(p) == pc' = [pc EXCEPT ![p] = IF cancelled[p] THEN "waiting" ELSE "claiming"]

Holds(q, e) == offer[q] = e \/ \E w \in Workers : worker[q][w].job = e

\* The entry Recover moves next is being worked on.  Recover does not look: that
\* it happens is counted with the mishaps.
Stealing == \E q \in Procs : Holds(q, Last(processing))

RecoverStep(p) ==
    /\ pc[p] = "recovering" /\ ~cancelled[p]
    /\ RecoverOne
    /\ IF Stealing THEN Suffer("steal") ELSE UNCHANGED mishaps
    /\ UNCHANGED << procVars, ghostVars >>

\* Mutant: Recover does not go on until nothing is left.
RecoverDoneEarly(p) ==
    /\ pc[p] = "recovering"
    /\ UNCHANGED mishaps
    /\ Loop(p)
    /\ UNCHANGED << queueVars, cancelled, offer, worker, ghostVars >>

\* Recover returns: nothing is left, or a command failed, which is only logged.
RecoverDone(p) ==
    /\ pc[p] = "recovering"
    /\ \/ (processing = << >> \/ cancelled[p]) /\ UNCHANGED mishaps
       \/ Suffer("fault")
    /\ Loop(p)
    /\ UNCHANGED << queueVars, cancelled, offer, worker, ghostVars >>

\* Cancelling the context does not undo a BLMOVE that is already outstanding.
ClaimJob(p) ==
    /\ pc[p] = "claiming"
    /\ Claim
    /\ pc' = [pc EXCEPT ![p] = IF Oldest.id \in Poison THEN "dropping" ELSE "sending"]
    /\ offer' = [offer EXCEPT ![p] = Oldest]
    /\ UNCHANGED << cancelled, worker, ghostVars, mishaps >>

\* An unreadable payload is removed from processing, and Claim reports an error.
DropBad(p) ==
    /\ pc[p] = "dropping"
    /\ DropPoison(offer[p])
    /\ dropped' = dropped \cup {offer[p].id}
    /\ offer' = [offer EXCEPT ![p] = NoEntry]
    /\ Loop(p)
    /\ UNCHANGED << cancelled, worker, accepted, acked, succeeded, runs, mishaps >>

\* The error of that LREM, whose context is the pool's, is ignored.
DropFails(p) ==
    /\ pc[p] = "dropping"
    /\ IF cancelled[p] THEN UNCHANGED mishaps ELSE Suffer("fault")
    /\ offer' = [offer EXCEPT ![p] = NoEntry]
    /\ Loop(p)
    /\ UNCHANGED << queueVars, cancelled, worker, ghostVars >>

\* BLMOVE took effect but its reply was lost: Claim reports an error and the entry
\* stays in processing.
ClaimLost(p) ==
    /\ pc[p] = "claiming"
    /\ Suffer("fault")
    /\ Claim
    /\ Loop(p)
    /\ UNCHANGED << cancelled, offer, worker, ghostVars >>

\* A timeout with main still empty, or an error because the context is done: the
\* dispatcher goes round its loop.
ClaimNothing(p) ==
    /\ pc[p] = "claiming" /\ (main = << >> \/ cancelled[p])
    /\ Loop(p)
    /\ UNCHANGED << queueVars, cancelled, offer, worker, ghostVars, mishaps >>

\* The unbuffered send meets the receive of an idle worker, which enters process.
\* The select picks either ready case, so a done context does not prevent it.
HandOff(p, w) ==
    LET e == offer[p]
        known == e.id \notin Unknown
    IN  /\ pc[p] = "sending" /\ worker[p][w].pc = "idle"
        /\ worker' = [worker EXCEPT ![p][w] =
               [pc |-> IF known THEN "running" ELSE "killing", job |-> e, timely |-> TRUE]]
        /\ runs' = IF known THEN [runs EXCEPT ![e.id] = @ + 1] ELSE runs
        /\ offer' = [offer EXCEPT ![p] = NoEntry]
        /\ Loop(p)
        /\ UNCHANGED << queueVars, cancelled, accepted, acked, dropped, succeeded, mishaps >>

\* Shutting down before the hand-off: the delivery is left in processing.
Abandon(p) ==
    /\ pc[p] = "sending" /\ cancelled[p]
    /\ pc' = [pc EXCEPT ![p] = "waiting"]
    /\ offer' = [offer EXCEPT ![p] = NoEntry]
    /\ UNCHANGED << queueVars, cancelled, worker, ghostVars, mishaps >>

\* Mutant: Run returns without wg.Wait.
StopWithoutWait(p) ==
    /\ pc[p] = "waiting"
    /\ pc' = [pc EXCEPT ![p] = "off"]
    /\ UNCHANGED << queueVars, cancelled, offer, worker, ghostVars, mishaps >>

\* wg.Wait returns once every worker has left its range loop.
Stop(p) ==
    /\ pc[p] = "waiting"
    /\ \A w \in Workers : worker[p][w].pc = "idle"
    /\ pc' = [pc EXCEPT ![p] = "off"]
    /\ UNCHANGED << queueVars, cancelled, offer, worker, ghostVars, mishaps >>

\* The process dies: whatever it held in memory is gone.
Crash(p) ==
    /\ pc[p] # "off"
    /\ Suffer("crash")
    /\ pc' = [pc EXCEPT ![p] = "off"]
    /\ offer' = [offer EXCEPT ![p] = NoEntry]
    /\ worker' = [worker EXCEPT ![p] = [w \in Workers |-> IdleWorker]]
    /\ UNCHANGED << queueVars, cancelled, ghostVars >>

-----------------------------------------------------------------------------
(* The worker goroutines.                                                  *)

HandlerOk(p, w) ==
    /\ worker[p][w].pc = "running"
    /\ worker' = [worker EXCEPT ![p][w].pc = "acking"]
    /\ succeeded' = succeeded \cup {worker[p][w].job.id}
    /\ UNCHANGED << queueVars, pc, cancelled, offer, accepted, acked, dropped, runs, mishaps >>

\* The handler returned an error or panicked.
HandlerFails(p, w) ==
    /\ worker[p][w].pc = "running"
    /\ worker' = [worker EXCEPT ![p][w].pc = "backoff"]
    /\ UNCHANGED << queueVars, pc, cancelled, offer, ghostVars, mishaps >>

\* ackTimeout has passed since process was entered.
Expire(p, w) ==
    /\ worker[p][w].pc # "idle" /\ worker[p][w].timely
    /\ Suffer("expiry")
    /\ worker' = [worker EXCEPT ![p][w].timely = FALSE]
    /\ UNCHANGED << queueVars, pc, cancelled, offer, ghostVars >>

BackToIdle(p, w) == worker' = [worker EXCEPT ![p][w] = IdleWorker]

AckJob(p, w) ==
    /\ worker[p][w].pc = "acking" /\ worker[p][w].timely
    /\ Ack(worker[p][w].job)
    /\ acked' = acked \cup {worker[p][w].job.id}
    /\ BackToIdle(p, w)
    /\ UNCHANGED << pc, cancelled, offer, accepted, dropped, succeeded, runs, mishaps >>

RetryJob(p, w) ==
    /\ worker[p][w].pc = "backoff" /\ worker[p][w].timely
    /\ Retry(worker[p][w].job)
    /\ BackToIdle(p, w)
    /\ UNCHANGED << pc, cancelled, offer, ghostVars, mishaps >>

KillJob(p, w) ==
    /\ worker[p][w].pc = "killing" /\ worker[p][w].timely
    /\ Kill(worker[p][w].job)
    /\ BackToIdle(p, w)
    /\ UNCHANGED << pc, cancelled, offer, ghostVars, mishaps >>

\* Ack, Retry or Kill fails, because ackCtx has expired or Redis does not answer:
\* the error is logged and the worker goes on to the next delivery.
SettleFails(p, w) ==
    /\ worker[p][w].pc \in {"acking", "backoff", "killing"}
    /\ IF worker[p][w].timely THEN Suffer("fault") ELSE UNCHANGED mishaps
    /\ BackToIdle(p, w)
    /\ UNCHANGED << queueVars, pc, cancelled, offer, ghostVars >>

-----------------------------------------------------------------------------
RunGoroutine(p) ==
    \/ RecoverStep(p) \/ RecoverDone(p)
    \/ ClaimJob(p) \/ ClaimLost(p) \/ ClaimNothing(p)
    \/ DropBad(p) \/ DropFails(p)
    \/ Abandon(p) \/ Stop(p)
    \/ \E w \in Workers : HandOff(p, w)

WorkerGoroutine(p, w) ==
    \/ HandlerOk(p, w) \/ HandlerFails(p, w)
    \/ AckJob(p, w) \/ RetryJob(p, w) \/ KillJob(p, w) \/ SettleFails(p, w)

Environment(p) ==
    \/ Start(p) \/ Shutdown(p) \/ Crash(p)
    \/ \E w \in Workers : Expire(p, w)

Next ==
    \/ \E j \in Jobs : Submit(j)
    \/ \E p \in Procs :
          \/ RunGoroutine(p) \/ Environment(p)
          \/ \E w \in Workers : WorkerGoroutine(p, w)

Spec == Init /\ [][Next]_vars

\* The Go scheduler runs every runnable goroutine, a handler returns (the Claude
\* client gives up after 60 s), and a stopped worker is started again.
Fairness ==
    \A p \in Procs :
        /\ WF_vars(RunGoroutine(p))
        /\ WF_vars(Start(p))
        /\ \A w \in Workers : WF_vars(WorkerGoroutine(p, w))

FairSpec == Spec /\ Fairness

-----------------------------------------------------------------------------
(* Safety with any number of worker processes.                             *)

\* Every place where a job is or has ended.
Places(j) ==
    LET In(name, list) == {name} \X { i \in DOMAIN list : list[i].id = j }
    IN  In("main", main) \cup In("processing", processing) \cup In("dead", dead)
        \cup (IF j \in acked \cap succeeded THEN {<< "done", 0 >>} ELSE {})
        \cup (IF j \in dropped \cap Poison THEN {<< "dropped", 0 >>} ELSE {})

\* An accepted job is never lost: whatever crashes, fails or expires, it is in one
\* of the three lists unless a handler run of it succeeded (or it is unreadable).
NoJobLost == \A j \in accepted : Places(j) # {}

\* A job reaches the dead-letter list only because nobody can run it or because
\* its handler was really invoked as often as its attempts allow.
DeadLetterEarned ==
    \A e \in Range(dead) :
        e.id \in Unknown \/ (e.attempt = maxAttempts(e.id) /\ runs[e.id] >= e.attempt)

-----------------------------------------------------------------------------
(* Safety as long as no Recover has taken an entry that is being worked    *)
(* on, as none does with one worker process on the namespace.              *)

Unstolen == mishaps["steal"] = 0

\* A job is never in two places, nor twice in one: Retry's transaction, Recover
\* and the claim never make a second copy of it, and a settled job is gone.
NoDuplicate == Unstolen => \A j \in Jobs : \A a, b \in Places(j) : a = b

\* Every delivery in memory is still in processing, so that the LREM of its Ack,
\* Retry or Kill finds it.
HeldIsProcessing ==
    Unstolen => \A p \in Procs : \A e \in {offer[p]} \cup { worker[p][w].job : w \in Workers } :
        e # NoEntry => e \in Range(processing)

\* Two workers never run the same job at the same time, nor does the dispatcher
\* hold a job that a worker runs.
OneHolder ==
    Unstolen =>
        /\ \A p, q \in Procs : \A v, w \in Workers :
              LET a == worker[p][v].job
                  b == worker[q][w].job
              IN  /\ a # NoEntry /\ b # NoEntry /\ a.id = b.id => p = q /\ v = w
                  /\ a # NoEntry /\ offer[q] # NoEntry => a.id # offer[q].id
        /\ \A p, q \in Procs :
              p # q /\ offer[p] # NoEntry /\ offer[q] # NoEntry => offer[p].id # offer[q].id

\* At-least-once is bounded: beyond its attempts a job is run again only once for
\* every crash, lost command or expired acknowledgement.
RunsBounded ==
    Unstolen => \A j \in Jobs :
        runs[j] <= maxAttempts(j) + mishaps["crash"] + mishaps["fault"] + mishaps["expiry"]

\* No handler is invoked for a job that has been acknowledged or dead-lettered.
SettledNeverRuns ==
    [][\A j \in Jobs : Unstolen /\ runs'[j] # runs[j] => j \notin acked \cup Ids(dead)]_vars

-----------------------------------------------------------------------------
(* Safety with one worker process on the namespace.                        *)

\* Once recovery is over, processing holds nothing but live deliveries: crashes
\* and shutdowns strand no job beyond the next start.
NothingStranded ==
    mishaps["fault"] = 0 /\ mishaps["expiry"] = 0 =>
        \A p \in Procs : pc[p] \in {"claiming", "dropping", "sending"} =>
            \A i \in DOMAIN processing : Holds(p, processing[i])

\* Recover moves back only entries that no running process is working on, the
\* "jobs left in the processing list (e.g. from a crashed worker)".
RecoverOnlyOrphans ==
    [][\A p \in Procs : RecoverStep(p) => ~Stealing]_vars

-----------------------------------------------------------------------------
(* The inductive invariant behind the safety properties.                   *)

Busy(p, w) == worker[p][w].pc # "idle"

\* Why no job is lost: only a job whose handler has succeeded is acknowledged.
JobsKept ==
    /\ accepted \subseteq Ids(main) \cup Ids(processing) \cup Ids(dead)
                              \cup (acked \cap succeeded) \cup (dropped \cap Poison)
    /\ \A p \in Procs, w \in Workers :
          worker[p][w].pc = "acking" => worker[p][w].job.id \in succeeded

\* Why dead letters are earned: every copy of a job that is not settled has
\* attempts left and no more failures than its handler has had runs, and the
\* run a worker is at is not yet among those failures.
Live(e) == e.attempt < maxAttempts(e.id) /\ e.attempt <= runs[e.id]

AttemptsCounted ==
    /\ DeadLetterEarned
    /\ \A e \in Range(main) \cup Range(processing) : Live(e)
    /\ \A p \in Procs : offer[p] # NoEntry => Live(offer[p])
    /\ \A p \in Procs, w \in Workers : Busy(p, w) =>
          LET e == worker[p][w].job
          IN  /\ Live(e)
              /\ IF worker[p][w].pc = "killing" THEN e.id \in Unknown
                                               ELSE e.attempt < runs[e.id]

\* Why there is one copy of a job: the lists and the settled jobs are disjoint.
Apart ==
    /\ Distinct(main) /\ Distinct(processing) /\ Distinct(dead)
    /\ Ids(main) \cap Ids(processing) = {}
    /\ Ids(main) \cap Ids(dead) = {}
    /\ Ids(processing) \cap Ids(dead) = {}
    /\ Ids(main) \cup Ids(processing) \cup Ids(dead) \subseteq accepted \ (acked \cup dropped)
    /\ acked \cap dropped = {}
    /\ acked \cup dropped \subseteq accepted

SoleCopies == (Unstolen => Apart) /\ HeldIsProcessing /\ OneHolder

\* What pays for runs beyond the attempts of a job.
Toll == mishaps["crash"] + mishaps["fault"] + mishaps["expiry"]

\* A worker that can still settle e: the run it is at will be counted or is the last.
Settling(e) ==
    \E p \in Procs, w \in Workers :
        worker[p][w].job = e /\ worker[p][w].timely /\ worker[p][w].pc # "killing"

\* Why runs are bounded: the attempt counter of an open job accounts for all its
\* runs but the one under way and those that the toll has paid for.
RunsPaid ==
    Unstolen =>
        /\ \A j \in Jobs \ accepted : runs[j] = 0
        /\ \A e \in Range(main) : runs[e.id] <= e.attempt + Toll
        /\ \A e \in Range(processing) :
              runs[e.id] <= e.attempt + Toll + (IF Settling(e) THEN 1 ELSE 0)
        /\ RunsBounded

\* No goroutine works in a process that is down or still recovering.
QuietAtStart ==
    \A p \in Procs, w \in Workers :
        pc[p] \in {"off", "recovering"} => worker[p][w] = IdleWorker

\* The dispatcher sends what it could unmarshal and drops what it could not.
Readable ==
    \A p \in Procs :
        /\ pc[p] = "sending" => offer[p].id \notin Poison
        /\ pc[p] = "dropping" => offer[p].id \in Poison

IndInv ==
    /\ TypeOK /\ Readable /\ JobsKept /\ AttemptsCounted
    /\ SoleCopies /\ RunsPaid /\ QuietAtStart

-----------------------------------------------------------------------------
(* The promise kept, with one worker process on the namespace.             *)

\* Where a job stands, in the terms of AtLeastOnce.
Stage(j) ==
    LET At(list) == { e \in Range(list) : e.id = j }
        Attempt(S) == (CHOOSE e \in S : TRUE).attempt
        Open == At(main) \cup At(processing)
    IN  IF j \in acked THEN [at |-> "done"]
        ELSE IF j \in dropped THEN [at |-> "discarded"]
        ELSE IF At(dead) # {} THEN [at |-> "dead", failures |-> Attempt(At(dead))]
        ELSE IF Open # {} THEN [at |-> "pending", failures |-> Attempt(Open)]
        ELSE [at |-> "new"]

\* Where the run of a job is.
Run(j) ==
    LET At(place) == \E p \in Procs, w \in Workers :
                        worker[p][w].pc = place /\ worker[p][w].job.id = j
    IN  IF At("running") THEN "begun"
        ELSE IF At("acking") THEN "ok"
        ELSE IF At("backoff") THEN "err"
        ELSE "none"

Promise == INSTANCE AtLeastOnce WITH
    Limit <- [j \in Jobs |-> maxAttempts(j)],
    Unhandled <- Unknown,
    Garbled <- Poison,
    state <- [j \in Jobs |-> Stage(j)],
    run <- [j \in Jobs |-> Run(j)]

\* The lists, the acknowledgements, the attempt counters and the goroutines together
\* keep the promise of AtLeastOnce, through every crash, fault and expiry.
KeepsPromise == Promise!Spec

\* ... and settle every accepted job, when no command is lost and every handler
\* returns within ackTimeout.
KeepsFairPromise == Promise!FairSpec

\* Every accepted job is eventually acknowledged, dead-lettered or dropped.
EventuallySettled ==
    \A j \in Jobs : (j \in accepted) ~> (j \in acked \cup dropped \cup Ids(dead))

\* A cancelled pool always comes to its end: the dispatcher is not left blocked on
\* the channel, nor wg.Wait on a worker.
ShutdownCompletes == \A p \in Procs : cancelled[p] ~> pc[p] = "off"

-----------------------------------------------------------------------------
(* What the documentation says of the pool.                                *)

\* docs/DECISIONS.md:79-80: "Detaching the ack context ensures a job that finishes
\* during shutdown is still acked/retried instead of leaking back as an orphan."
FinishedIsSettled ==
    [][\A p \in Procs, w \in Workers :
          /\ worker[p][w].pc \in {"acking", "backoff"} /\ worker'[p][w].pc = "idle"
          /\ cancelled[p] /\ mishaps' = mishaps
          => worker[p][w].job \notin Range(processing')]_vars

=============================================================================
