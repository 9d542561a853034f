---------------------------- MODULE PlanPipeline ----------------------------
(***************************************************************************)
(* The asynchronous generation of daily plans: PlanService in the API      *)
(* server upserts the row of a (user, date) and enqueues a job;            *)
(* PlanHandler in the worker process moves the row through running to done *)
(* or failed.  Row and queue are different stores: no step changes both.   *)
(*                                                                         *)
(* The queue is AtLeastOnce, which WorkerPool implements as long as no     *)
(* worker process takes what another one holds: two runs of one job do not *)
(* overlap, so that run has one place per job.                             *)
(*                                                                         *)
(* request[r] is the place of an HTTP request in Generate:                 *)
(*   new, upserted (the row is reset), sent (the job is in the queue),     *)
(*   refused (Enqueue failed or the server died before it)                 *)
(* run[r] is the place of a run of r's job in the worker:                  *)
(*   none, claimed (the dispatcher holds the delivery), started, marked    *)
(*   (the row is running), planned (the agent answered), refused (it did   *)
(*   not), ok / err (the handler returned), stranded (the job is in        *)
(*   processing and nobody holds it: only a restart finds it)              *)
(* pool is the place of the worker's Run:                                  *)
(*   recovering, serving, leaving (its context is cancelled and the        *)
(*   dispatcher has not returned), left (it has: no job is claimed)        *)
(***************************************************************************)
EXTENDS Naturals, FiniteSets, SequencesExt

CONSTANTS
    Plans,          \* the (user_id, plan_date) pairs
    Requests,       \* the POSTs to /plans/generate, each with a job of its own
    PlanOf,         \* the plan each request is for
    MaxAttempts,    \* of a plan job
    Concurrency,    \* WORKER_CONCURRENCY
    Budget,         \* how often each mishap may happen
    None

\* Enqueue fails or the server exits before it; a database call of the handler fails;
\* a Redis command of the worker fails; the worker dies; the worker is told to stop.
Mishaps == {"refusal", "fault", "lost", "crash", "shutdown"}

ASSUME PlanOfAssumption == PlanOf \in [Requests -> Plans]
ASSUME NoneAssumption == None \notin Requests
ASSUME AttemptsAssumption == MaxAttempts \in Nat \ {0}

VARIABLES
    row,        \* the daily_plans table
    request, run,
    job, succeeded,     \* the queue
    configured, \* the worker was started with an Anthropic API key
    pool,
    upserts,    \* the requests in the order of their upserts
    alone,      \* those upserted when no other job for their plan was open
    mishaps

\* Where the run of a job is, for the queue.
Seen(place) ==
    CASE place \in {"none", "claimed", "stranded"} -> "none"
      [] place \in {"started", "marked", "planned", "refused"} -> "begun"
      [] OTHER -> place

workerVars == << run, configured, pool >>
vars == << row, request, job, succeeded, workerVars, upserts, alone, mishaps >>

Queue == INSTANCE AtLeastOnce WITH
    Jobs <- Requests,
    Limit <- [r \in Requests |-> MaxAttempts],
    Unhandled <- {},
    Garbled <- {},
    state <- job,
    run <- [r \in Requests |-> Seen(run[r])]

\* plan_json and error are None or tell which request's job wrote them.
Row == [status : {"queued", "running", "done", "failed"},
        schedule : Requests \cup {None},
        error : Requests \cup {None}]

ASSUME NoRowAssumption == None \notin Row

Place ==
    {"none", "claimed", "started", "marked", "planned", "refused", "ok", "err", "stranded"}

Job == [at : {"new", "done"}] \cup [at : {"pending", "dead"}, failures : Nat]

TypeOK ==
    /\ row \in [Plans -> Row \cup {None}]
    /\ request \in [Requests -> {"new", "upserted", "sent", "refused"}]
    /\ \A r \in Requests : request[r] # "new" => row[PlanOf[r]] # None
    /\ run \in [Requests -> Place]
    /\ job \in [Requests -> Job]
    /\ \A r \in Requests : job[r].at # "new" <=> request[r] = "sent"
    /\ \A r \in Requests : run[r] # "none" => job[r].at = "pending"
    /\ succeeded \in SUBSET Requests
    /\ configured \in BOOLEAN
    /\ pool \in {"recovering", "serving", "leaving", "left"}
    /\ upserts \in Seq(Requests)
    /\ alone \in SUBSET Requests
    /\ mishaps \in [Mishaps -> Nat]

Init ==
    /\ row = [p \in Plans |-> None]
    /\ request = [r \in Requests |-> "new"]
    /\ run = [r \in Requests |-> "none"]
    /\ Queue!Init
    /\ configured \in BOOLEAN
    /\ pool = "recovering"
    /\ upserts = << >>
    /\ alone = {}
    /\ mishaps = [m \in Mishaps |-> 0]

Suffer(m) == mishaps[m] < Budget[m] /\ mishaps' = [mishaps EXCEPT ![m] = @ + 1]

RequestsOf(p) == { r \in Requests : PlanOf[r] = p }

-----------------------------------------------------------------------------
(* PlanService.Generate, in the API server.                                *)

\* A request whose job may still run, or may still get into the queue.
Open(r) == request[r] = "upserted" \/ job[r].at = "pending"

\* What the four statements on daily_plans make of the row of a plan: a run of the
\* handler only changes the columns it names.
Queued == [status |-> "queued", schedule |-> None, error |-> None]

Running(plan) == [plan EXCEPT !.status = "running"]

\* Mutant: the error of an earlier run stays.
DoneKeepsError(plan, r) == [plan EXCEPT !.status = "done", !.schedule = r]

Done(plan, r) == [plan EXCEPT !.status = "done", !.schedule = r, !.error = None]

Failed(plan, r) == [plan EXCEPT !.status = "failed", !.error = r]

UpsertPlanQueued(r) ==
    /\ request[r] = "new"
    /\ row' = [row EXCEPT ![PlanOf[r]] = Queued]
    /\ request' = [request EXCEPT ![r] = "upserted"]
    /\ upserts' = Append(upserts, r)
    /\ alone' = IF \E q \in RequestsOf(PlanOf[r]) : Open(q) THEN alone ELSE alone \cup {r}
    /\ UNCHANGED << job, succeeded, workerVars, mishaps >>

\* When only its reply is lost the client gets a 500, and the job is in the queue.
Enqueue(r) ==
    /\ request[r] = "upserted"
    /\ request' = [request EXCEPT ![r] = "sent"]
    /\ UNCHANGED << row, workerVars, upserts, alone, mishaps >>
    /\ Queue!Accept(r)

\* Enqueue fails or the client goes away: the row stays reset.
EnqueueFails(r) ==
    /\ request[r] = "upserted"
    /\ Suffer("refusal")
    /\ request' = [request EXCEPT ![r] = "refused"]
    /\ UNCHANGED << row, job, succeeded, workerVars, upserts, alone >>

\* The server is killed, or was told to stop and its ten seconds are over: the requests
\* that are under way end where they are.  Until then Shutdown lets them finish.
ServerExits ==
    /\ \E r \in Requests : request[r] = "upserted"
    /\ Suffer("refusal")
    /\ request' = [r \in Requests |-> IF request[r] = "upserted" THEN "refused" ELSE request[r]]
    /\ UNCHANGED << row, job, succeeded, workerVars, upserts, alone >>

-----------------------------------------------------------------------------
(* PlanHandler and PlanUnavailableHandler, in the worker.                  *)

To(r, place) == run' = [run EXCEPT ![r] = place]

\* The context of the pool, and with it that of its handlers, is cancelled.
Cancelled == pool \in {"leaving", "left"}

\* A run of the job is in the memory of the worker.
InHand(r) == run[r] \notin {"none", "stranded"}

\* The dispatcher is in Claim; the call may be waiting when the context is cancelled.
Claiming == pool \in {"serving", "leaving"} /\ \A q \in Requests : run[q] # "claimed"

\* Mutant: a settled job is still found in a list.
ClaimAgain(r) ==
    /\ job[r].at # "new" /\ run[r] = "none" /\ Claiming
    /\ To(r, "claimed")
    /\ UNCHANGED << row, request, job, succeeded, configured, pool, upserts, alone, mishaps >>

Claim(r) ==
    /\ job[r].at = "pending" /\ run[r] = "none" /\ Claiming
    /\ To(r, "claimed")
    /\ UNCHANGED << row, request, job, succeeded, configured, pool, upserts, alone, mishaps >>

\* BLMOVE takes effect and its reply is lost: Claim reports an error.
ClaimLost(r) ==
    /\ job[r].at = "pending" /\ run[r] = "none" /\ Claiming
    /\ Suffer("lost")
    /\ To(r, "stranded")
    /\ pool' = IF Cancelled THEN "left" ELSE pool
    /\ UNCHANGED << row, request, job, succeeded, configured, upserts, alone >>

\* A worker is free: the job is handed to it, even after the cancel if select so chooses.
HandOver(r) ==
    /\ run[r] = "claimed"
    /\ Cardinality({ q \in Requests : InHand(q) /\ run[q] # "claimed" }) < Concurrency
    /\ To(r, "started")
    /\ pool' = IF Cancelled THEN "left" ELSE pool
    /\ UNCHANGED << row, request, job, succeeded, configured, upserts, alone, mishaps >>

\* The context is cancelled first: the job is left in processing.
Abandon(r) ==
    /\ run[r] = "claimed" /\ Cancelled
    /\ To(r, "stranded")
    /\ pool' = "left"
    /\ UNCHANGED << row, request, job, succeeded, configured, upserts, alone, mishaps >>

\* A step of the handler that writes the row: it succeeds, or it fails with or
\* without effect, because the database does or because the context, which is the
\* pool's, is cancelled.
Writes(r, new, next) ==
    /\ \/ /\ ~Cancelled
          /\ row' = [row EXCEPT ![PlanOf[r]] = new]
          /\ To(r, next)
          /\ IF next = "ok" THEN Queue!Succeed(r) ELSE UNCHANGED << job, succeeded >>
          /\ UNCHANGED mishaps
       \/ /\ IF Cancelled THEN UNCHANGED mishaps ELSE Suffer("fault")
          /\ row' \in { row, [row EXCEPT ![PlanOf[r]] = new] }
          /\ To(r, "err")
          /\ UNCHANGED << job, succeeded >>
    /\ UNCHANGED << request, configured, pool, upserts, alone >>

MarkRunning(r) ==
    /\ run[r] = "started" /\ configured
    /\ Writes(r, Running(row[PlanOf[r]]), "marked")

\* No API key: PlanUnavailableHandler goes straight to Fail.
PlanUnavailable(r) ==
    /\ run[r] = "started" /\ ~configured
    /\ To(r, "refused")
    /\ UNCHANGED << row, request, job, succeeded, configured, pool, upserts, alone, mishaps >>

\* TaskService.List fails.
ListFails(r) ==
    /\ run[r] = "marked"
    /\ IF Cancelled THEN UNCHANGED mishaps ELSE Suffer("fault")
    /\ To(r, "err")
    /\ UNCHANGED << row, request, job, succeeded, configured, pool, upserts, alone >>

PlanAnswers(r) ==
    /\ run[r] = "marked"
    /\ To(r, "planned")
    /\ UNCHANGED << row, request, job, succeeded, configured, pool, upserts, alone, mishaps >>

\* agents.Plan returns an error: the call timed out or was cancelled, or no valid
\* schedule came back.
PlanRefused(r) ==
    /\ run[r] = "marked"
    /\ To(r, "refused")
    /\ UNCHANGED << row, request, job, succeeded, configured, pool, upserts, alone, mishaps >>

Complete(r) ==
    /\ run[r] = "planned"
    /\ Writes(r, Done(row[PlanOf[r]], r), "ok")

\* Mutant: the error of plans.Fail is ignored.
FailUnchecked(r) ==
    /\ run[r] = "refused"
    /\ \/ row' = [row EXCEPT ![PlanOf[r]] = Failed(@, r)]
          /\ UNCHANGED mishaps
       \/ Suffer("fault") /\ UNCHANGED row
    /\ To(r, "ok") /\ Queue!Succeed(r)
    /\ UNCHANGED << request, configured, pool, upserts, alone >>

Fail(r) ==
    /\ run[r] = "refused"
    /\ Writes(r, Failed(row[PlanOf[r]], r), "ok")

\* The pool acknowledges a run that returned nil and retries one that did not, both
\* with a context that a shutdown does not cancel.
Ack(r) ==
    /\ run[r] = "ok"
    /\ To(r, "none") /\ Queue!Finish(r)
    /\ UNCHANGED << row, request, configured, pool, upserts, alone, mishaps >>

\* Mutant: an error of the handler is logged and the job acknowledged.
RetryDrops(r) ==
    /\ run[r] = "err"
    /\ job' = [job EXCEPT ![r] = [at |-> "done"]]
    /\ To(r, "none")
    /\ UNCHANGED << row, request, succeeded, configured, pool, upserts, alone, mishaps >>

Retry(r) ==
    /\ run[r] = "err"
    /\ To(r, "none") /\ Queue!Fail(r)
    /\ UNCHANGED << row, request, configured, pool, upserts, alone, mishaps >>

SettleFails(r) ==
    /\ run[r] \in {"ok", "err"}
    /\ Suffer("lost")
    /\ To(r, "stranded")
    /\ UNCHANGED << row, request, job, succeeded, configured, pool, upserts, alone >>

-----------------------------------------------------------------------------
(* The worker process.                                                     *)

\* A Recover that is under way fails, and the dispatcher does not begin.
Shutdown ==
    /\ ~Cancelled
    /\ Suffer("shutdown")
    /\ pool' = IF pool = "serving" THEN "leaving" ELSE "left"
    /\ UNCHANGED << row, request, job, succeeded, run, configured, upserts, alone >>

\* The process starts again, with or without a key, once its runs are over.
Restart ==
    /\ Cancelled /\ \A r \in Requests : ~InHand(r)
    /\ pool' = "recovering" /\ configured' \in BOOLEAN
    /\ UNCHANGED << row, request, job, succeeded, run, upserts, alone, mishaps >>

\* It dies, with its runs in hand, and starts again.
Crash ==
    /\ Suffer("crash")
    /\ run' = [r \in Requests |-> IF InHand(r) THEN "stranded" ELSE run[r]]
    /\ pool' = "recovering" /\ configured' \in BOOLEAN
    /\ UNCHANGED << row, request, job, succeeded, upserts, alone >>

\* Run puts back what is in processing.  When Recover fails some of it stays there, and
\* the pool goes on all the same.
Recover ==
    /\ pool = "recovering"
    /\ \E rest \in SUBSET { r \in Requests : run[r] = "stranded" } :
          /\ IF rest = {} THEN UNCHANGED mishaps ELSE Suffer("lost")
          /\ run' = [r \in Requests |-> IF r \in rest THEN "stranded" ELSE "none"]
    /\ pool' = "serving"
    /\ UNCHANGED << row, request, job, succeeded, configured, upserts, alone >>

-----------------------------------------------------------------------------
Generate(r) == UpsertPlanQueued(r) \/ Enqueue(r) \/ EnqueueFails(r)

Handle(r) ==
    \/ MarkRunning(r) \/ PlanUnavailable(r) \/ ListFails(r) \/ PlanAnswers(r) \/ PlanRefused(r)
    \/ Complete(r) \/ Fail(r)
    \/ Ack(r) \/ Retry(r) \/ SettleFails(r)

Dispatch(r) == Claim(r) \/ ClaimLost(r) \/ HandOver(r) \/ Abandon(r)

Next ==
    \/ \E r \in Requests : Generate(r) \/ Dispatch(r) \/ Handle(r)
    \/ ServerExits \/ Shutdown \/ Restart \/ Crash \/ Recover

Spec == Init /\ [][Next]_vars

\* The server finishes a request it has begun, the dispatcher claims what it finds in the
\* queue and passes it on, a goroutine ends the run it is given, and a worker that was
\* told to stop is started again.  Nobody has to post.
Fairness ==
    /\ \A r \in Requests :
          /\ WF_vars(Enqueue(r) \/ EnqueueFails(r))
          /\ WF_vars(Handle(r))
          /\ WF_vars(Claim(r) \/ ClaimLost(r))
          /\ WF_vars(HandOver(r) \/ Abandon(r))
    /\ WF_vars(Restart)
    /\ WF_vars(Recover)

FairSpec == Spec /\ Fairness

-----------------------------------------------------------------------------
InProgress(p) == row[p] # None /\ row[p].status \in {"queued", "running"}

\* Nobody will look after the request's job, as long as the worker is not restarted: it
\* never got into the queue, it is a dead letter, or it is in processing, where neither
\* the dispatcher nor a goroutine of the pool that serves knows of it.
Forsaken(r) ==
    \/ request[r] = "refused"
    \/ job[r].at = "dead"
    \/ run[r] = "stranded" /\ pool = "serving"

\* A row that says it is in progress has an open job, or a request that failed half
\* way or was dead-lettered: crashes, retries and repeated runs never leave it
\* queued or running behind an acknowledged job.
InProgressHasJob ==
    \A p \in Plans : InProgress(p) => \E r \in RequestsOf(p) : Open(r) \/ Forsaken(r)

\* docs/API.md:96: the schedule is there once the plan is done and the error is there
\* if it failed, through every interleaving of overlapping and repeated runs.
AnswerPresent ==
    \A p \in Plans : row[p] # None =>
        /\ row[p].status = "done" => row[p].schedule # None /\ row[p].error = None
        /\ row[p].status = "failed" => row[p].error # None

IsLatest(r) == \E i \in DOMAIN upserts :
    /\ upserts[i] = r
    /\ \A k \in DOMAIN upserts : k > i => PlanOf[upserts[k]] # PlanOf[r]

AnsweredBy(plan, r) ==
    \/ plan.status = "done" /\ plan.schedule = r
    \/ plan.status = "failed" /\ plan.error = r

\* A plan that is generated again after its earlier jobs are settled ends with the
\* answer to the new request: however often and in whatever pieces jobs are run, the
\* answer to an earlier request does not come back.
AloneIsAnswered ==
    \A r \in alone : IsLatest(r) /\ job[r].at = "done" => AnsweredBy(row[PlanOf[r]], r)

\* Every job that could still write the row is forsaken, and there is such a request.
GivenUp(p) ==
    /\ \E r \in RequestsOf(p) : Forsaken(r)
    /\ \A r \in RequestsOf(p) : Open(r) => Forsaken(r)

\* A plan in progress comes to an answer, unless a failure half way has left none of its
\* jobs with anybody who would run it.
PlanSettles == \A p \in Plans : InProgress(p) ~> (~InProgress(p) \/ GivenUp(p))

\* Why a row in progress has a job: the request has not enqueued it yet, or the job
\* has not returned nil, or the row would have been written.
Answerable(r) ==
    \/ request[r] = "upserted"
    \/ job[r].at = "pending" /\ run[r] # "ok"
    \/ Forsaken(r)

InProgressHasWork == \A p \in Plans : InProgress(p) => \E r \in RequestsOf(p) : Answerable(r)

\* Why an answer to an earlier request does not come back: while a request that was
\* alone is the latest of its plan no other job for the plan is open, and from the
\* moment its handler has returned nil the row is its answer.
OnlyItsOwn(r) ==
    /\ \A q \in RequestsOf(PlanOf[r]) \ {r} : ~Open(q)
    /\ run[r] = "ok" \/ job[r].at = "done" => AnsweredBy(row[PlanOf[r]], r)

AloneUndisturbed == \A r \in alone : request[r] # "new" /\ (IsLatest(r) => OnlyItsOwn(r))

=============================================================================
