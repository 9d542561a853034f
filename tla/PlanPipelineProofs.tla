------------------------- MODULE PlanPipelineProofs -------------------------
(***************************************************************************)
(* Theorems about PlanPipeline, for any sets of plans and requests, any    *)
(* number of attempts, of concurrent handlers and of mishaps.              *)
(***************************************************************************)
EXTENDS PlanPipeline, TLAPS

\* What the queue does to the state of a job.
LEMMA JobSteps ==
    ASSUME TypeOK, NEW r \in Requests
    PROVE  /\ Queue!Accept(r) => /\ job' \in [Requests -> Job]
                                 /\ job[r].at = "new" /\ job'[r].at = "pending"
           /\ Queue!Finish(r) => /\ job' \in [Requests -> Job]
                                 /\ job[r].at = "pending" /\ job'[r].at = "done"
           /\ Queue!Fail(r) => /\ job' \in [Requests -> Job]
                               /\ job[r].at = "pending" /\ job'[r].at \in {"pending", "dead"}
           /\ Queue!Accept(r) \/ Queue!Finish(r) \/ Queue!Fail(r) =>
                 /\ \A q \in Requests \ {r} : job'[q] = job[q]
                 /\ succeeded' = succeeded
           /\ Queue!Succeed(r) => job[r].at = "pending" /\ job' = job /\ succeeded' = succeeded \cup {r}
<1>1. job \in [Requests -> Job]
  BY DEF TypeOK
<1>2. [at |-> "pending", failures |-> 0] \in Job /\ [at |-> "done"] \in Job
  BY DEF Job
<1>3. ASSUME job[r].at = "pending"
      PROVE  job[r].failures \in Nat
  BY <1>1, <1>3 DEF Job
<1>4. ASSUME NEW k \in Nat
      PROVE  [at |-> "pending", failures |-> k] \in Job /\ [at |-> "dead", failures |-> k] \in Job
  BY DEF Job
<1>5. Queue!Accept(r) => /\ job' \in [Requests -> Job]
                         /\ job[r].at = "new" /\ job'[r].at = "pending"
  BY <1>1, <1>2 DEF Queue!Accept, Queue!Become, Queue!New, Queue!Pending
<1>6. Queue!Finish(r) => /\ job' \in [Requests -> Job]
                         /\ job[r].at = "pending" /\ job'[r].at = "done"
  BY <1>1, <1>2 DEF Queue!Finish, Queue!Become, Queue!IsPending, Queue!Done
<1>7. ASSUME Queue!Fail(r)
      PROVE  /\ job' \in [Requests -> Job]
             /\ job[r].at = "pending" /\ job'[r].at \in {"pending", "dead"}
  <2>1. job[r].at = "pending" /\ job[r].failures \in Nat
    BY <1>3, <1>7 DEF Queue!Fail, Queue!IsPending
  <2> DEFINE k == job[r].failures + 1
  <2>2. job' = [job EXCEPT ![r] = [at |-> "pending", failures |-> k]]
        \/ job' = [job EXCEPT ![r] = [at |-> "dead", failures |-> k]]
    BY <1>7 DEF Queue!Fail, Queue!Become, Queue!Pending, Queue!Dead
  <2>3. [at |-> "pending", failures |-> k] \in Job /\ [at |-> "dead", failures |-> k] \in Job
    BY <1>4, <2>1
  <2> HIDE DEF k
  <2> QED
    BY <1>1, <2>1, <2>2, <2>3
<1>8. Queue!Accept(r) \/ Queue!Finish(r) \/ Queue!Fail(r) =>
         /\ \A q \in Requests \ {r} : job'[q] = job[q]
         /\ succeeded' = succeeded
  BY <1>1 DEF Queue!Accept, Queue!Finish, Queue!Fail, Queue!Become
<1>9. Queue!Succeed(r) => job[r].at = "pending" /\ job' = job /\ succeeded' = succeeded \cup {r}
  BY DEF Queue!Succeed, Queue!IsPending
<1> QED
  BY <1>5, <1>6, <1>7, <1>8, <1>9

\* A write of the handler, whether it succeeds, fails or fails with effect.
LEMMA WritesStep ==
    ASSUME TypeOK, NEW r \in Requests, NEW new \in Row, NEW next \in {"marked", "ok"},
           job[r].at = "pending", Writes(r, new, next)
    PROVE  /\ row' \in [Plans -> Row \cup {None}]
           /\ run' \in [Requests -> Place]
           /\ run'[r] \in {next, "err"}
           /\ run'[r] = "ok" => row'[PlanOf[r]] = new
           /\ \A p \in Plans : row'[p] # row[p] => p = PlanOf[r] /\ row'[p] = new
           /\ \A q \in Requests \ {r} : run'[q] = run[q]
           /\ job' = job
           /\ succeeded' \in SUBSET Requests
           /\ mishaps' \in [Mishaps -> Nat]
           /\ UNCHANGED << request, configured, pool, upserts, alone >>
<1>1. PlanOf[r] \in Plans /\ row \in [Plans -> Row \cup {None}] /\ run \in [Requests -> Place]
  BY PlanOfAssumption DEF TypeOK
<1>2. mishaps' \in [Mishaps -> Nat]
  <2>1. mishaps' = mishaps \/ Suffer("fault")
    BY DEF Writes
  <2> QED
    BY <2>1 DEF Suffer, TypeOK
<1>3. row' \in {row, [row EXCEPT ![PlanOf[r]] = new]}
  BY DEF Writes
<1>4. /\ next \in Place /\ "err" \in Place
      /\ run' = [run EXCEPT ![r] = next] \/ run' = [run EXCEPT ![r] = "err"]
  BY DEF Writes, To, Place
<1>5. job' = job /\ succeeded' \in SUBSET Requests
  BY JobSteps DEF Writes, TypeOK
<1>6. run'[r] = "ok" => row'[PlanOf[r]] = new
  BY <1>1 DEF Writes, To
<1>7. run' \in [Requests -> Place] /\ run'[r] \in {next, "err"}
      /\ \A q \in Requests \ {r} : run'[q] = run[q]
  BY <1>1, <1>4
<1>8. UNCHANGED << request, configured, pool, upserts, alone >>
  BY DEF Writes
<1> QED
  BY <1>1, <1>2, <1>3, <1>5, <1>6, <1>7, <1>8

\* The initial state is well typed.
LEMMA TypeInit == Init => TypeOK
<1> SUFFICES ASSUME Init PROVE TypeOK
  OBVIOUS
<1>1. [at |-> "new"] \in Job /\ "none" \in Place
  BY DEF Job, Place
<1>2. job = [r \in Requests |-> [at |-> "new"]] /\ succeeded = {}
  BY DEF Init, Queue!Init, Queue!New
<1>3. job \in [Requests -> Job] /\ run \in [Requests -> Place]
  BY <1>1, <1>2 DEF Init
<1>4. \A r \in Requests : job[r].at = "new" /\ request[r] = "new" /\ run[r] = "none"
  BY <1>2 DEF Init
<1>5. mishaps \in [Mishaps -> Nat] /\ upserts \in Seq(Requests)
  BY DEF Init
<1> QED
  BY <1>2, <1>3, <1>4, <1>5 DEF Init, TypeOK

\* The written rows are rows.
LEMMA RowTypes ==
    ASSUME TypeOK, NEW r \in Requests
    PROVE  /\ Queued \in Row
           /\ \A plan \in Row :
                 /\ Running(plan) \in Row /\ Running(plan).status = "running"
                 /\ Done(plan, r) \in Row /\ Done(plan, r).status = "done"
                 /\ Failed(plan, r) \in Row /\ Failed(plan, r).status = "failed"
  BY DEF Row, Queued, Running, Done, Failed

\* A step of the dispatcher moves a pending job that is in no goroutine's hands.
LEMMA DispatchStep ==
    ASSUME TypeOK, NEW r \in Requests, Dispatch(r)
    PROVE  /\ job[r].at = "pending"
           /\ run[r] \in {"none", "claimed"}
           /\ run'[r] \in {"claimed", "started", "stranded"} /\ run'[r] \in Place
           /\ run' = [run EXCEPT ![r] = run'[r]]
           /\ \A q \in Requests \ {r} : run'[q] = run[q]
           /\ pool' \in {pool, "left"}
           /\ mishaps' = mishaps \/ Suffer("lost")
           /\ UNCHANGED << row, request, job, succeeded, configured, upserts, alone >>
  BY DEF Dispatch, Claim, ClaimLost, HandOver, Abandon, To, TypeOK, Place

\* A worker that dies or recovers is left with no run, or with stranded jobs.
LEMMA RebornStep ==
    ASSUME TypeOK, Crash \/ Recover
    PROVE  /\ run' \in [Requests -> Place]
           /\ \A r \in Requests : run'[r] \in {"none", "stranded"}
           /\ \A r \in Requests : run'[r] # "none" => run[r] # "none"
           /\ mishaps' = mishaps \/ Suffer("lost") \/ Suffer("crash")
           /\ pool' \in {"recovering", "serving"} /\ configured' \in BOOLEAN
           /\ UNCHANGED << row, request, job, succeeded, upserts, alone >>
<1>1. CASE Crash
  BY <1>1 DEF Crash, InHand, TypeOK, Place
<1>2. CASE Recover
  BY <1>2 DEF Recover, TypeOK, Place
<1> QED
  BY <1>1, <1>2

\* Steps that leave the rows and the queue alone.
LEMMA PlaceStep ==
    ASSUME TypeOK, NEW r \in Requests, NEW place \in Place, job[r].at = "pending",
           run' = [run EXCEPT ![r] = place],
           UNCHANGED << row, request, job, succeeded, configured, upserts, alone >>,
           pool' \in {"recovering", "serving", "leaving", "left"},
           mishaps' \in [Mishaps -> Nat]
    PROVE  TypeOK'
<1>1. run' \in [Requests -> Place] /\ \A q \in Requests : run'[q] # "none" => job[q].at = "pending"
  BY DEF TypeOK
<1> QED
  BY <1>1 DEF TypeOK

\* Every step keeps the types.
LEMMA TypeStep == TypeOK /\ [Next]_vars => TypeOK'
<1> SUFFICES ASSUME TypeOK, [Next]_vars PROVE TypeOK'
  OBVIOUS
<1>0. /\ \A m \in Mishaps : Suffer(m) => mishaps' \in [Mishaps -> Nat]
      /\ mishaps \in [Mishaps -> Nat]
  BY DEF Suffer, TypeOK
<1>1. ASSUME NEW r \in Requests, UpsertPlanQueued(r) PROVE TypeOK'
  <2>1. /\ row' = [row EXCEPT ![PlanOf[r]] = Queued]
        /\ request' = [request EXCEPT ![r] = "upserted"]
        /\ request[r] = "new"
        /\ upserts' = Append(upserts, r)
        /\ alone' \in {alone, alone \cup {r}}
        /\ UNCHANGED << job, succeeded, run, configured, pool, mishaps >>
    BY <1>1 DEF UpsertPlanQueued, workerVars
  <2>2. PlanOf \in [Requests -> Plans] /\ Queued \in Row /\ Queued # None
    BY PlanOfAssumption, RowTypes, NoRowAssumption
  <2>3. row' \in [Plans -> Row \cup {None}] /\ \A p \in Plans : row[p] # None => row'[p] # None
    BY <2>1, <2>2 DEF TypeOK
  <2>4. row'[PlanOf[r]] # None
    BY <2>1, <2>2 DEF TypeOK
  <2>5. \A q \in Requests : request'[q] # "new" => row'[PlanOf[q]] # None
    BY <2>1, <2>2, <2>3, <2>4 DEF TypeOK
  <2>6. \A q \in Requests : job'[q].at # "new" <=> request'[q] = "sent"
    BY <2>1 DEF TypeOK
  <2>7. /\ request' \in [Requests -> {"new", "upserted", "sent", "refused"}]
        /\ upserts' \in Seq(Requests) /\ alone' \in SUBSET Requests
    BY <2>1 DEF TypeOK
  <2>8. /\ run' \in [Requests -> Place] /\ job' \in [Requests -> Job]
        /\ \A q \in Requests : run'[q] # "none" => job'[q].at = "pending"
        /\ succeeded' \in SUBSET Requests
        /\ configured' \in BOOLEAN /\ pool' \in {"recovering", "serving", "leaving", "left"}
        /\ mishaps' \in [Mishaps -> Nat]
    BY <2>1 DEF TypeOK
  <2> QED
    BY <2>3, <2>5, <2>6, <2>7, <2>8 DEF TypeOK
<1>2. ASSUME NEW r \in Requests, Enqueue(r) PROVE TypeOK'
  <2>1. /\ request' = [request EXCEPT ![r] = "sent"]
        /\ request[r] = "upserted"
        /\ Queue!Accept(r)
        /\ UNCHANGED << row, run, configured, pool, upserts, alone, mishaps >>
    BY <1>2 DEF Enqueue, workerVars
  <2>2. /\ job' \in [Requests -> Job] /\ job'[r].at = "pending"
        /\ \A q \in Requests \ {r} : job'[q] = job[q]
        /\ succeeded' = succeeded
    BY <2>1, JobSteps
  <2>3. \A q \in Requests : request'[q] # "new" => row'[PlanOf[q]] # None
    BY <2>1 DEF TypeOK
  <2>4. \A q \in Requests : job'[q].at # "new" <=> request'[q] = "sent"
    BY <2>1, <2>2 DEF TypeOK
  <2>5. \A q \in Requests : run'[q] # "none" => job'[q].at = "pending"
    BY <2>1, <2>2 DEF TypeOK
  <2>6. request' \in [Requests -> {"new", "upserted", "sent", "refused"}]
    BY <2>1 DEF TypeOK
  <2> QED
    BY <2>1, <2>2, <2>3, <2>4, <2>5, <2>6 DEF TypeOK
<1>3. ASSUME NEW r \in Requests, EnqueueFails(r) PROVE TypeOK'
  BY <1>0, <1>3 DEF EnqueueFails, workerVars, TypeOK, Mishaps
<1>4. ASSUME NEW r \in Requests, NEW new \in Row, NEW next \in {"marked", "ok"},
             job[r].at = "pending", Writes(r, new, next)
      PROVE  TypeOK'
  <2>1. \A q \in Requests : run'[q] # "none" => job[q].at = "pending"
    BY <1>4, WritesStep DEF TypeOK
  <2>2. \A p \in Plans : row[p] # None => row'[p] # None
    BY <1>4, WritesStep, NoRowAssumption
  <2>3. \A q \in Requests : request[q] # "new" => row'[PlanOf[q]] # None
    BY <2>2, PlanOfAssumption DEF TypeOK
  <2>4. /\ row' \in [Plans -> Row \cup {None}]
        /\ run' \in [Requests -> Place]
        /\ job' = job
        /\ succeeded' \in SUBSET Requests
        /\ mishaps' \in [Mishaps -> Nat]
        /\ UNCHANGED << request, configured, pool, upserts, alone >>
    BY <1>4, WritesStep
  <2> QED
    BY <2>1, <2>3, <2>4 DEF TypeOK
<1>5. ASSUME NEW r \in Requests, run[r] # "none"
      PROVE  job[r].at = "pending" /\ row[PlanOf[r]] \in Row
  BY <1>5, PlanOfAssumption DEF TypeOK
<1>6. ASSUME NEW r \in Requests, MarkRunning(r) \/ Complete(r) \/ Fail(r) PROVE TypeOK'
  <2>1. run[r] # "none"
    BY <1>6 DEF MarkRunning, Complete, Fail, TypeOK, Place
  <2> QED
    BY <1>4, <1>5, <1>6, <2>1, RowTypes DEF MarkRunning, Complete, Fail
<1>7. ASSUME NEW r \in Requests,
             \/ Dispatch(r) \/ PlanUnavailable(r) \/ ListFails(r) \/ PlanAnswers(r)
             \/ PlanRefused(r) \/ SettleFails(r)
      PROVE  TypeOK'
  <2>1. CASE Dispatch(r)
    <3>1. /\ job[r].at = "pending" /\ run'[r] \in Place /\ run' = [run EXCEPT ![r] = run'[r]]
          /\ UNCHANGED << row, request, job, succeeded, configured, upserts, alone >>
      BY <2>1, DispatchStep
    <3>2. pool' \in {pool, "left"} /\ mishaps' \in [Mishaps -> Nat]
      BY <1>0, <2>1, DispatchStep, Zenon DEF Mishaps
    <3>3. pool' \in {"recovering", "serving", "leaving", "left"}
      BY <3>2 DEF TypeOK
    <3> QED
      BY <3>1, <3>2, <3>3, PlaceStep
  <2>2. CASE \/ PlanUnavailable(r) \/ ListFails(r) \/ PlanAnswers(r) \/ PlanRefused(r)
             \/ SettleFails(r)
    <3>1. job[r].at = "pending"
      BY <1>5, <2>2 DEF PlanUnavailable, ListFails, PlanAnswers, PlanRefused, SettleFails
    <3>2. \E place \in Place : run' = [run EXCEPT ![r] = place]
      BY <2>2 DEF PlanUnavailable, ListFails, PlanAnswers, PlanRefused, SettleFails, To, Place
    <3>3. /\ UNCHANGED << row, request, job, succeeded, configured, pool, upserts, alone >>
          /\ mishaps' \in [Mishaps -> Nat]
      BY <1>0, <2>2
      DEF PlanUnavailable, ListFails, PlanAnswers, PlanRefused, SettleFails, Mishaps
    <3>4. pool' \in {"recovering", "serving", "leaving", "left"}
      BY <3>3 DEF TypeOK
    <3> QED
      BY <3>1, <3>2, <3>3, <3>4, PlaceStep
  <2> QED
    BY <1>7, <2>1, <2>2
<1>8. ASSUME NEW r \in Requests, Ack(r) \/ Retry(r) PROVE TypeOK'
  <2>1. /\ Queue!Finish(r) \/ Queue!Fail(r)
        /\ To(r, "none")
        /\ UNCHANGED << row, request, configured, pool, upserts, alone, mishaps >>
    BY <1>8 DEF Ack, Retry
  <2>2. /\ job' \in [Requests -> Job] /\ job[r].at = "pending" /\ job'[r].at # "new"
        /\ \A q \in Requests \ {r} : job'[q] = job[q]
        /\ succeeded' = succeeded
    BY <2>1, JobSteps
  <2>3. /\ run' \in [Requests -> Place] /\ run'[r] = "none"
        /\ \A q \in Requests \ {r} : run'[q] = run[q]
    BY <2>1 DEF To, TypeOK, Place
  <2> QED
    BY <2>1, <2>2, <2>3 DEF TypeOK
<1>9. CASE Shutdown
  BY <1>0, <1>9 DEF Shutdown, TypeOK, Mishaps
<1>10. CASE Crash \/ Recover
  <2>1. mishaps' \in [Mishaps -> Nat]
    BY <1>0, <1>10, RebornStep DEF Mishaps
  <2>2. \A q \in Requests : run'[q] # "none" => job'[q].at = "pending"
    BY <1>10, RebornStep DEF TypeOK
  <2> QED
    BY <1>10, <2>1, <2>2, RebornStep DEF TypeOK
<1>13. CASE Restart
  BY <1>13 DEF Restart, TypeOK
<1>11. CASE ServerExits
  <2>1. /\ \A q \in Requests :
              request'[q] = request[q] \/ (request[q] = "upserted" /\ request'[q] = "refused")
        /\ request' \in [Requests -> {"new", "upserted", "sent", "refused"}]
    BY <1>11 DEF ServerExits, TypeOK
  <2>2. /\ row' = row /\ job' = job
        /\ UNCHANGED << succeeded, run, configured, pool, upserts, alone >>
        /\ mishaps' \in [Mishaps -> Nat]
    BY <1>0, <1>11 DEF ServerExits, workerVars, Mishaps
  <2>3. \A q \in Requests : request'[q] # "new" => row'[PlanOf[q]] # None
    BY <2>1, <2>2 DEF TypeOK
  <2>4. \A q \in Requests : job'[q].at # "new" <=> request'[q] = "sent"
    BY <2>1, <2>2 DEF TypeOK
  <2> QED
    BY <2>1, <2>2, <2>3, <2>4 DEF TypeOK
<1>12. CASE UNCHANGED vars
  BY <1>12 DEF vars, workerVars, TypeOK
<1> QED
  BY <1>1, <1>2, <1>3, <1>6, <1>7, <1>8, <1>9, <1>10, <1>11, <1>12, <1>13
  DEF Next, Generate, Handle

\* Types are correct, no settled job is being run, and every request that was begun
\* has a row.
THEOREM TypeCorrect == Spec => []TypeOK
  BY TypeInit, TypeStep, PTL DEF Spec

-----------------------------------------------------------------------------
(* No row is left in progress behind an acknowledged job.                  *)

\* Initially there is no row.
LEMMA WorkInit == Init => InProgressHasWork
  BY DEF Init, InProgressHasWork, InProgress

\* Every step keeps somebody answerable for a row in progress.
LEMMA WorkStep == TypeOK /\ InProgressHasWork /\ [Next]_vars => InProgressHasWork'
<1> SUFFICES ASSUME TypeOK, InProgressHasWork, [Next]_vars PROVE InProgressHasWork'
  OBVIOUS
\* Most steps start no plan and let go of no job.
<1>1. ASSUME \A p \in Plans : InProgress(p)' => InProgress(p),
             \A q \in Requests : Answerable(q) => Answerable(q)'
      PROVE  InProgressHasWork'
  BY <1>1 DEF InProgressHasWork, RequestsOf
\* A job that is stranded is pending and has not returned nil, so somebody is
\* answerable for it whatever the pool does.
<1>0. \A q \in Requests :
         Answerable(q) <=>
            \/ request[q] \in {"upserted", "refused"}
            \/ job[q].at = "dead"
            \/ (job[q].at = "pending" /\ run[q] # "ok")
  BY DEF Answerable, Forsaken, TypeOK
<1>1a. ASSUME UNCHANGED << row, job, request >>,
              \A q \in Requests : run'[q] = "ok" => run[q] = "ok"
       PROVE  InProgressHasWork'
  <2>1. \A q \in Requests : Answerable(q) => Answerable(q)'
    BY <1>0, <1>1a DEF Answerable, Forsaken
  <2> QED
    BY <1>1, <1>1a, <2>1 DEF InProgress
<1>2. ASSUME NEW r \in Requests, UpsertPlanQueued(r) PROVE InProgressHasWork'
  <2>1. /\ row' = [row EXCEPT ![PlanOf[r]] = Queued]
        /\ request' = [request EXCEPT ![r] = "upserted"]
        /\ request[r] = "new"
        /\ UNCHANGED << job, run >>
    BY <1>2 DEF UpsertPlanQueued, workerVars
  <2>2. Answerable(r)' /\ \A q \in Requests : Answerable(q) => Answerable(q)'
    BY <2>1 DEF Answerable, Forsaken, TypeOK
  <2>3. \A p \in Plans : p # PlanOf[r] /\ InProgress(p)' => InProgress(p)
    BY <2>1 DEF InProgress, TypeOK
  <2> QED
    BY <2>2, <2>3 DEF InProgressHasWork, RequestsOf
<1>3. ASSUME NEW r \in Requests, NEW new \in Row, NEW next \in {"marked", "ok"},
             next = "ok" => new.status \in {"done", "failed"},
             job[r].at = "pending", Writes(r, new, next)
      PROVE  InProgressHasWork'
  <2>1. /\ run'[r] \in {next, "err"}
        /\ run'[r] = "ok" => row'[PlanOf[r]] = new
        /\ \A p \in Plans : row'[p] # row[p] => p = PlanOf[r]
        /\ \A q \in Requests \ {r} : run'[q] = run[q]
        /\ UNCHANGED << job, request >>
    BY <1>3, WritesStep
  <2>2. \A q \in Requests \ {r} : Answerable(q) => Answerable(q)'
    BY <1>0, <2>1 DEF Answerable, Forsaken
  <2>3. \A p \in Plans : p # PlanOf[r] /\ InProgress(p)' => InProgress(p)
    BY <2>1 DEF InProgress
  <2>4. \A p \in Plans : p # PlanOf[r] /\ InProgress(p)' =>
           \E q \in RequestsOf(p) : Answerable(q)'
    BY <2>2, <2>3 DEF InProgressHasWork, RequestsOf
  <2>5. CASE run'[r] = "ok"
    <3>1. ~ InProgress(PlanOf[r])'
      BY <1>3, <2>1, <2>5 DEF InProgress
    <3> QED
      BY <2>4, <3>1 DEF InProgressHasWork, RequestsOf
  <2>6. CASE run'[r] # "ok"
    <3>1. Answerable(r)'
      BY <1>3, <2>1, <2>6 DEF Answerable
    <3> QED
      BY <2>4, <3>1 DEF InProgressHasWork, RequestsOf
  <2> QED
    BY <2>5, <2>6
<1>4. ASSUME NEW r \in Requests, run[r] # "none"
      PROVE  job[r].at = "pending" /\ row[PlanOf[r]] \in Row
  BY <1>4, PlanOfAssumption DEF TypeOK
<1>5. ASSUME NEW r \in Requests, MarkRunning(r) \/ Complete(r) \/ Fail(r) PROVE InProgressHasWork'
  <2>1. run[r] # "none"
    BY <1>5 DEF MarkRunning, Complete, Fail, TypeOK, Place
  <2>2. job[r].at = "pending" /\ row[PlanOf[r]] \in Row
    BY <1>4, <2>1
  <2>3. CASE MarkRunning(r)
    BY <1>3, <2>2, <2>3, RowTypes DEF MarkRunning
  <2>4. CASE Complete(r)
    BY <1>3, <2>2, <2>4, RowTypes DEF Complete
  <2>5. CASE Fail(r)
    BY <1>3, <2>2, <2>5, RowTypes DEF Fail
  <2> QED
    BY <1>5, <2>3, <2>4, <2>5
<1>6. ASSUME NEW r \in Requests, Enqueue(r) PROVE InProgressHasWork'
  <2>1. /\ request[r] = "upserted" /\ request' = [request EXCEPT ![r] = "sent"]
        /\ Queue!Accept(r)
        /\ UNCHANGED << row, run >>
    BY <1>6 DEF Enqueue, workerVars
  <2>2. job[r].at = "new" /\ job'[r].at = "pending" /\ \A q \in Requests \ {r} : job'[q] = job[q]
    BY <2>1, JobSteps
  <2>3. run[r] = "none"
    BY <2>2 DEF TypeOK
  <2>4. Answerable(r)' /\ \A q \in Requests \ {r} : Answerable(q) => Answerable(q)'
    BY <2>1, <2>2, <2>3 DEF Answerable, Forsaken, TypeOK
  <2> QED
    BY <1>1, <2>1, <2>4 DEF InProgress
<1>7. ASSUME NEW r \in Requests, EnqueueFails(r) PROVE InProgressHasWork'
  <2>1. /\ request' = [request EXCEPT ![r] = "refused"]
        /\ UNCHANGED << row, run, job >>
    BY <1>7 DEF EnqueueFails, workerVars
  <2>2. \A q \in Requests : Answerable(q) => Answerable(q)'
    BY <2>1 DEF Answerable, Forsaken, TypeOK
  <2> QED
    BY <1>1, <2>1, <2>2 DEF InProgress
<1>8. ASSUME NEW r \in Requests,
             \/ Dispatch(r) \/ PlanUnavailable(r) \/ ListFails(r) \/ PlanAnswers(r)
             \/ PlanRefused(r)
      PROVE  InProgressHasWork'
  <2>1. CASE Dispatch(r)
    BY <2>1, <1>1a, DispatchStep
  <2>2. CASE PlanUnavailable(r) \/ ListFails(r) \/ PlanAnswers(r) \/ PlanRefused(r)
    <3>1. UNCHANGED << row, job, request >>
      BY <2>2 DEF PlanUnavailable, ListFails, PlanAnswers, PlanRefused
    <3>2. run'[r] # "ok" /\ \A q \in Requests \ {r} : run'[q] = run[q]
      BY <2>2 DEF PlanUnavailable, ListFails, PlanAnswers, PlanRefused, To, TypeOK
    <3> QED
      BY <1>1a, <3>1, <3>2
  <2> QED
    BY <1>8, <2>1, <2>2
<1>9. ASSUME NEW r \in Requests, SettleFails(r) PROVE InProgressHasWork'
  <2>1. /\ run' = [run EXCEPT ![r] = "stranded"]
        /\ UNCHANGED << row, job, request >>
    BY <1>9 DEF SettleFails, To
  <2>2. run'[r] # "ok" /\ \A q \in Requests \ {r} : run'[q] = run[q]
    BY <2>1 DEF TypeOK
  <2> QED
    BY <1>1a, <2>1, <2>2
<1>10. ASSUME NEW r \in Requests, Retry(r) PROVE InProgressHasWork'
  <2>1. /\ run' = [run EXCEPT ![r] = "none"]
        /\ Queue!Fail(r)
        /\ UNCHANGED << row, request >>
    BY <1>10 DEF Retry, To
  <2>2. job'[r].at \in {"pending", "dead"} /\ \A q \in Requests \ {r} : job'[q] = job[q]
    BY <2>1, JobSteps
  <2>3. Answerable(r)' /\ \A q \in Requests \ {r} : Answerable(q) => Answerable(q)'
    BY <2>1, <2>2 DEF Answerable, Forsaken, TypeOK
  <2> QED
    BY <1>1, <2>1, <2>3 DEF InProgress
\* The acknowledged job had returned nil, so nobody relied on it.
<1>11. ASSUME NEW r \in Requests, Ack(r) PROVE InProgressHasWork'
  <2>1. /\ run[r] = "ok" /\ run' = [run EXCEPT ![r] = "none"]
        /\ Queue!Finish(r)
        /\ UNCHANGED << row, request >>
    BY <1>11 DEF Ack, To
  <2>2. job[r].at = "pending" /\ \A q \in Requests \ {r} : job'[q] = job[q]
    BY <2>1, JobSteps
  <2>3. request[r] = "sent" /\ ~ Answerable(r)
    BY <2>1, <2>2 DEF Answerable, Forsaken, TypeOK
  <2>4. \A q \in Requests \ {r} : Answerable(q) => Answerable(q)'
    BY <2>1, <2>2 DEF Answerable, Forsaken, TypeOK
  <2> QED
    BY <1>1, <2>1, <2>3, <2>4 DEF InProgress
<1>12. CASE Crash \/ Recover
  BY <1>12, <1>1a, RebornStep
<1>13. CASE ServerExits
  <2>1. /\ \A q \in Requests : request'[q] = request[q] \/ request'[q] = "refused"
        /\ UNCHANGED << row, job, run >>
    BY <1>13 DEF ServerExits, workerVars
  <2>2. \A q \in Requests : Answerable(q) => Answerable(q)'
    BY <1>0, <2>1 DEF Answerable, Forsaken
  <2> QED
    BY <1>1, <2>1, <2>2 DEF InProgress
<1>14. CASE Shutdown \/ Restart \/ UNCHANGED vars
  <2>1. UNCHANGED << row, job, request, run >>
    BY <1>14 DEF Shutdown, Restart, vars, workerVars
  <2> QED
    BY <1>1a, <2>1
<1> QED
  BY <1>2, <1>5, <1>6, <1>7, <1>8, <1>9, <1>10, <1>11, <1>12, <1>13, <1>14 DEF Next, Generate, Handle

\* A row in progress always has an open job, or a request that failed half way or was
\* dead-lettered, however many requests, runs, retries and crashes there are.
THEOREM SomebodyAnswers == Spec => []InProgressHasJob
<1>1. InProgressHasWork => InProgressHasJob
  BY DEF InProgressHasWork, InProgressHasJob, Answerable, Open
<1> QED
  BY <1>1, TypeCorrect, WorkInit, WorkStep, PTL DEF Spec

-----------------------------------------------------------------------------
(* The answers are those the rows promise.                                 *)

\* Every write of a row sets what its status promises.
LEMMA AnswerStep == TypeOK /\ AnswerPresent /\ [Next]_vars => AnswerPresent'
<1> SUFFICES ASSUME TypeOK, AnswerPresent, [Next]_vars PROVE AnswerPresent'
  OBVIOUS
<1> DEFINE Promised(plan) == /\ plan.status = "done" => plan.schedule # None /\ plan.error = None
                             /\ plan.status = "failed" => plan.error # None
<1>1. ASSUME \A p \in Plans : row'[p] # row[p] => Promised(row'[p])
      PROVE  AnswerPresent'
  BY <1>1 DEF AnswerPresent
<1>2. ASSUME NEW r \in Requests, UpsertPlanQueued(r) PROVE AnswerPresent'
  <2>1. \A p \in Plans : row'[p] # row[p] => row'[p] = Queued
    BY <1>2, PlanOfAssumption DEF UpsertPlanQueued, TypeOK
  <2>2. Promised(Queued)
    BY DEF Queued
  <2> QED
    BY <1>1, <2>1, <2>2
<1>3. ASSUME NEW r \in Requests, MarkRunning(r) \/ Complete(r) \/ Fail(r) PROVE AnswerPresent'
  <2>1. job[r].at = "pending" /\ row[PlanOf[r]] \in Row /\ r # None
    BY <1>3, PlanOfAssumption, NoneAssumption DEF MarkRunning, Complete, Fail, TypeOK
  <2>2. \A plan \in Row : /\ Promised(Running(plan)) /\ Promised(Done(plan, r))
                          /\ Promised(Failed(plan, r))
    BY <2>1 DEF Row, Running, Done, Failed
  <2>3. \E new \in Row : Promised(new) /\ \A p \in Plans : row'[p] # row[p] => row'[p] = new
    <3>1. ASSUME NEW new \in Row, NEW next \in {"marked", "ok"}, Writes(r, new, next)
          PROVE  \A p \in Plans : row'[p] # row[p] => row'[p] = new
      BY <2>1, <3>1, WritesStep
    <3>2. CASE MarkRunning(r)
      BY <2>1, <2>2, <3>1, <3>2, RowTypes DEF MarkRunning
    <3>3. CASE Complete(r)
      BY <2>1, <2>2, <3>1, <3>3, RowTypes DEF Complete
    <3>4. CASE Fail(r)
      BY <2>1, <2>2, <3>1, <3>4, RowTypes DEF Fail
    <3> QED
      BY <1>3, <3>2, <3>3, <3>4
  <2> QED
    BY <1>1, <2>3
<1>4. CASE row' = row
  BY <1>1, <1>4
<1>5. \/ row' = row
      \/ \E r \in Requests : UpsertPlanQueued(r) \/ MarkRunning(r) \/ Complete(r) \/ Fail(r)
  BY DEF Next, Generate, Handle, Enqueue, EnqueueFails, ServerExits, Dispatch, Claim, ClaimLost,
         HandOver, Abandon, PlanUnavailable, ListFails, PlanAnswers, PlanRefused, Ack, Retry,
         SettleFails, Shutdown, Restart, Crash, Recover, vars
<1> QED
  BY <1>2, <1>3, <1>4, <1>5

\* A done plan has its schedule and no error and a failed one has its error, however
\* runs of different requests overlap and repeat.
THEOREM AnswersAreThere == Spec => []AnswerPresent
<1>1. Init => AnswerPresent
  BY DEF Init, AnswerPresent
<1> QED
  BY <1>1, AnswerStep, TypeCorrect, PTL DEF Spec

-----------------------------------------------------------------------------
(* A request that was alone keeps its answer.                              *)

\* An upsert for its plan ends a request's being the latest, and one for another plan
\* does not begin it.
LEMMA LatestAfterUpsert ==
    ASSUME upserts \in Seq(Requests), NEW q \in Requests, upserts' = Append(upserts, q),
           NEW r \in Requests, IsLatest(r)'
    PROVE  r = q \/ (PlanOf[q] # PlanOf[r] /\ IsLatest(r))
<1> DEFINE n == Len(upserts)
<1>1. /\ n \in Nat /\ DOMAIN upserts = 1 .. n /\ DOMAIN upserts' = 1 .. (n + 1)
      /\ upserts'[n + 1] = q
      /\ \A k \in 1 .. n : upserts'[k] = upserts[k]
  OBVIOUS
<1>2. PICK i \in 1 .. (n + 1) :
         /\ upserts'[i] = r
         /\ \A k \in 1 .. (n + 1) : k > i => PlanOf[upserts'[k]] # PlanOf[r]
  BY <1>1 DEF IsLatest
<1> HIDE DEF n
<1>3. CASE i = n + 1
  BY <1>1, <1>2, <1>3
<1>4. CASE i # n + 1
  <2>1. i \in 1 .. n /\ n + 1 > i
    BY <1>1, <1>4
  <2>2. PlanOf[q] # PlanOf[r]
    BY <1>1, <1>2, <2>1
  <2>3. upserts[i] = r /\ \A k \in 1 .. n : k > i => PlanOf[upserts[k]] # PlanOf[r]
    BY <1>1, <1>2, <2>1
  <2> QED
    BY <1>1, <2>1, <2>2, <2>3 DEF IsLatest
<1> QED
  BY <1>3, <1>4

\* Every step leaves a request that was alone undisturbed.
LEMMA AloneStep == TypeOK /\ AloneUndisturbed /\ [Next]_vars => AloneUndisturbed'
<1> SUFFICES ASSUME TypeOK, AloneUndisturbed, [Next]_vars PROVE AloneUndisturbed'
  OBVIOUS
<1> DEFINE Closed(r) == run[r] = "ok" \/ job[r].at = "done"
\* Most steps write no row, open no job, and close none that was not closed.
<1>1. ASSUME row' = row, upserts' = upserts, alone' = alone,
             \A q \in Requests : request[q] # "new" => request'[q] # "new",
             \A q \in Requests : Open(q)' => Open(q),
             \A q \in Requests : Closed(q)' => Closed(q)
      PROVE  AloneUndisturbed'
  <2> SUFFICES ASSUME NEW r \in alone, IsLatest(r)'
               PROVE  OnlyItsOwn(r)'
    BY <1>1 DEF AloneUndisturbed, TypeOK
  <2>1. r \in Requests /\ IsLatest(r)
    BY <1>1 DEF IsLatest, TypeOK
  <2>2. OnlyItsOwn(r)
    BY <2>1 DEF AloneUndisturbed
  <2> QED
    BY <1>1, <2>1, <2>2 DEF OnlyItsOwn, RequestsOf
<1>2. ASSUME NEW q \in Requests, UpsertPlanQueued(q) PROVE AloneUndisturbed'
  <2>1. /\ request[q] = "new" /\ request' = [request EXCEPT ![q] = "upserted"]
        /\ row' = [row EXCEPT ![PlanOf[q]] = Queued]
        /\ upserts' = Append(upserts, q)
        /\ alone' = IF \E p \in RequestsOf(PlanOf[q]) : Open(p) THEN alone ELSE alone \cup {q}
        /\ job' = job /\ run' = run
    BY <1>2 DEF UpsertPlanQueued, workerVars
  <2>2. q \notin alone
    BY <2>1 DEF AloneUndisturbed
  <2>3. \A p \in Requests \ {q} : Open(p)' = Open(p)
    BY <2>1 DEF Open, TypeOK
  <2>4. job[q].at = "new" /\ run[q] = "none"
    BY <2>1 DEF TypeOK
  <2>5. \A r \in alone' : r \in Requests /\ request'[r] # "new"
    BY <2>1 DEF AloneUndisturbed, TypeOK
  <2>6. ASSUME NEW r \in alone', IsLatest(r)'
        PROVE  OnlyItsOwn(r)'
    <3>1. r = q \/ (PlanOf[q] # PlanOf[r] /\ IsLatest(r))
      BY <2>1, <2>5, <2>6, LatestAfterUpsert DEF TypeOK
    <3>2. CASE r = q
      <4>1. \A p \in RequestsOf(PlanOf[q]) : ~Open(p)
        BY <2>1, <2>2, <3>2
      <4>2. \A p \in RequestsOf(PlanOf[r]) \ {r} : ~Open(p)'
        BY <2>3, <3>2, <4>1 DEF RequestsOf
      <4> QED
        BY <2>1, <2>4, <3>2, <4>2 DEF OnlyItsOwn, RequestsOf
    <3>3. CASE r # q
      <4>1. r \in alone /\ PlanOf[q] # PlanOf[r] /\ OnlyItsOwn(r)
        BY <2>1, <3>1, <3>3 DEF AloneUndisturbed
      <4>2. row'[PlanOf[r]] = row[PlanOf[r]]
        BY <2>1, <4>1
      <4>3. \A p \in RequestsOf(PlanOf[r]) \ {r} : p \in Requests \ {q} /\ ~Open(p)
        BY <4>1 DEF OnlyItsOwn, RequestsOf
      <4>4. \A p \in RequestsOf(PlanOf[r]) \ {r} : ~Open(p)'
        BY <2>3, <4>3
      <4> QED
        BY <2>1, <4>1, <4>2, <4>4 DEF OnlyItsOwn, RequestsOf
    <3> QED
      BY <3>2, <3>3
  <2> QED
    BY <2>5, <2>6 DEF AloneUndisturbed
\* An open job is that of the latest request itself, or for another plan.
<1>3. ASSUME NEW q \in Requests, Open(q), NEW r \in alone, IsLatest(r)
      PROVE  r = q \/ PlanOf[r] # PlanOf[q]
  BY <1>3 DEF AloneUndisturbed, OnlyItsOwn, RequestsOf
<1>4. ASSUME NEW q \in Requests, NEW new \in Row, NEW next \in {"marked", "ok"},
             next = "ok" => AnsweredBy(new, q),
             job[q].at = "pending", Writes(q, new, next)
      PROVE  AloneUndisturbed'
  <2>1. /\ run'[q] \in {next, "err"}
        /\ run'[q] = "ok" => row'[PlanOf[q]] = new
        /\ \A p \in Plans : row'[p] # row[p] => p = PlanOf[q]
        /\ \A p \in Requests \ {q} : run'[p] = run[p]
        /\ UNCHANGED << job, request, upserts, alone >>
    BY <1>4, WritesStep
  <2>2. \A p \in Requests : Open(p)' = Open(p)
    BY <2>1 DEF Open
  <2> SUFFICES ASSUME NEW r \in alone, IsLatest(r)
               PROVE  OnlyItsOwn(r)'
    BY <2>1 DEF AloneUndisturbed, IsLatest
  <2>3. r \in Requests /\ PlanOf[r] \in Plans /\ OnlyItsOwn(r)
    BY PlanOfAssumption DEF AloneUndisturbed, TypeOK
  <2>4. \A p \in RequestsOf(PlanOf[r]) \ {r} : ~Open(p)'
    BY <2>2, <2>3 DEF OnlyItsOwn, RequestsOf
  <2>5. r = q \/ PlanOf[r] # PlanOf[q]
    BY <1>3, <1>4 DEF Open
  <2>6. CASE r = q
    BY <1>4, <2>1, <2>4, <2>6 DEF OnlyItsOwn, RequestsOf
  <2>7. CASE r # q
    BY <2>1, <2>3, <2>4, <2>5, <2>7 DEF OnlyItsOwn, RequestsOf
  <2> QED
    BY <2>6, <2>7
<1>5. ASSUME NEW q \in Requests, MarkRunning(q) \/ Complete(q) \/ Fail(q) PROVE AloneUndisturbed'
  <2>1. job[q].at = "pending" /\ row[PlanOf[q]] \in Row
    BY <1>5, PlanOfAssumption DEF MarkRunning, Complete, Fail, TypeOK
  <2>2. \A plan \in Row : AnsweredBy(Done(plan, q), q) /\ AnsweredBy(Failed(plan, q), q)
    BY DEF Row, Done, Failed, AnsweredBy
  <2>3. CASE MarkRunning(q)
    BY <1>4, <2>1, <2>3, RowTypes DEF MarkRunning
  <2>4. CASE Complete(q)
    BY <1>4, <2>1, <2>2, <2>4, RowTypes DEF Complete
  <2>5. CASE Fail(q)
    BY <1>4, <2>1, <2>2, <2>5, RowTypes DEF Fail
  <2> QED
    BY <1>5, <2>3, <2>4, <2>5
<1>6. ASSUME NEW q \in Requests, Enqueue(q) PROVE AloneUndisturbed'
  <2>1. /\ request[q] = "upserted" /\ request' = [request EXCEPT ![q] = "sent"]
        /\ Queue!Accept(q)
        /\ row' = row /\ run' = run /\ upserts' = upserts /\ alone' = alone
    BY <1>6 DEF Enqueue, workerVars
  <2>2. job'[q].at = "pending" /\ \A p \in Requests \ {q} : job'[p] = job[p]
    BY <2>1, JobSteps
  <2>3. Open(q) /\ run[q] = "none"
    BY <2>1 DEF Open, TypeOK
  <2>4. \A p \in Requests : Open(p)' => Open(p)
    BY <2>1, <2>2, <2>3 DEF Open, TypeOK
  <2>5. \A p \in Requests : Closed(p)' => Closed(p)
    BY <2>1, <2>2, <2>3
  <2>6. \A p \in Requests : request[p] # "new" => request'[p] # "new"
    BY <2>1 DEF TypeOK
  <2> QED
    BY <1>1, <2>1, <2>4, <2>5, <2>6
<1>7. CASE ServerExits \/ \E q \in Requests : EnqueueFails(q)
  <2>1. /\ \A p \in Requests : request'[p] = request[p] \/ request'[p] = "refused"
        /\ row' = row /\ job' = job /\ run' = run /\ upserts' = upserts /\ alone' = alone
    BY <1>7 DEF ServerExits, EnqueueFails, workerVars, TypeOK
  <2>2. \A p \in Requests : Open(p)' => Open(p)
    BY <2>1 DEF Open
  <2> QED
    BY <1>1, <2>1, <2>2
<1>8. ASSUME NEW q \in Requests,
             \/ Dispatch(q) \/ PlanUnavailable(q) \/ ListFails(q) \/ PlanAnswers(q)
             \/ PlanRefused(q) \/ SettleFails(q)
      PROVE  AloneUndisturbed'
  <2>1. /\ row' = row /\ job' = job /\ request' = request /\ upserts' = upserts /\ alone' = alone
        /\ run'[q] # "ok" /\ \A p \in Requests \ {q} : run'[p] = run[p]
    BY <1>8, DispatchStep
    DEF PlanUnavailable, ListFails, PlanAnswers, PlanRefused, SettleFails, To, TypeOK
  <2> QED
    BY <1>1, <2>1 DEF Open
\* The acknowledged job had returned nil.
<1>9. ASSUME NEW q \in Requests, Ack(q) \/ Retry(q) PROVE AloneUndisturbed'
  <2>1. /\ run' = [run EXCEPT ![q] = "none"]
        /\ row' = row /\ request' = request /\ upserts' = upserts /\ alone' = alone
        /\ Ack(q) => run[q] = "ok" /\ Queue!Finish(q)
        /\ Retry(q) => Queue!Fail(q)
    BY <1>9 DEF Ack, Retry, To
  <2>2. /\ job[q].at = "pending" /\ \A p \in Requests \ {q} : job'[p] = job[p]
        /\ Retry(q) => job'[q].at \in {"pending", "dead"}
    BY <1>9, <2>1, JobSteps
  <2>3. \A p \in Requests : Open(p)' => Open(p)
    BY <2>1, <2>2 DEF Open
  <2>4. \A p \in Requests : Closed(p)' => Closed(p)
    BY <1>9, <2>1, <2>2 DEF TypeOK
  <2> QED
    BY <1>1, <2>1, <2>3, <2>4
<1>10. CASE Crash \/ Recover
  BY <1>1, <1>10, RebornStep DEF Open
<1>11. CASE Shutdown \/ Restart \/ UNCHANGED vars
  <2>1. /\ row' = row /\ job' = job /\ request' = request /\ run' = run
        /\ upserts' = upserts /\ alone' = alone
    BY <1>11 DEF Shutdown, Restart, vars, workerVars
  <2> QED
    BY <1>1, <2>1 DEF Open
<1> QED
  BY <1>2, <1>5, <1>6, <1>7, <1>8, <1>9, <1>10, <1>11 DEF Next, Generate, Handle

\* A plan that is generated when no other job for it is open ends with that answer, as
\* long as it is not generated again: earlier answers never come back, whatever is
\* redelivered.
THEOREM EarlierAnswersStayAway == Spec => []AloneIsAnswered
<1>1. Init => AloneUndisturbed
  BY DEF Init, AloneUndisturbed
<1>2. AloneUndisturbed => AloneIsAnswered
  BY DEF AloneUndisturbed, AloneIsAnswered, OnlyItsOwn
<1> QED
  BY <1>1, <1>2, AloneStep, TypeCorrect, PTL DEF Spec

=============================================================================
