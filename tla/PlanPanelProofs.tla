-------------------------- MODULE PlanPanelProofs ---------------------------
(***************************************************************************)
(* Theorems about PlanPanel, for any number of dates, changes of the       *)
(* selected one, plans generated and requests lost, as long as the budgets *)
(* allow no haste and no failed poll that leaves nothing to show.          *)
(***************************************************************************)
EXTENDS PlanPanel, TLAPS

Patience == \A budget \in Budgets : budget["hasty"] = 0 /\ budget["deaf"] = 0

\* What the two queries of a date hold is not newer than the row; the job is only asked
\* for when there is one.
Ordered(d) ==
    /\ plan[d].fetch # "part" /\ job[d].fetch # "part"
    /\ \A x \in Held(d) :
          x # Undefined => x.version <= row[d].version
    /\ \A x \in {job[d].data, job[d].reply} : x # Undefined => x.status # "none"
    /\ Busy(plan[d].data) \/ Busy(plan[d].reply) \/ job[d].fetch # "idle" => row[d].status # "none"
    /\ plan[d].fetch \in {"idle", "sent"} => plan[d].reply = Undefined

Requested(d) == generate.at = "sent" /\ generate.of = d
Stored(d) == generate.at = "stored" /\ generate.of = d

\* While the request that makes all answers old is on its way, none is cached as fresh
\* and nothing brings one, or a row in progress.
NothingCached(d) ==
    Requested(d) =>
        /\ job[d].fetch = "idle" /\ ~Busy(plan[d].data)
        /\ ~(Terminal(job[d].data) /\ << "job", d >> \in fresh)
        /\ plan[d].fetch = "idle" \/ (Settled(d) /\ ~Busy(plan[d].reply))

\* So a fresh answer is of the latest request.
FreshIsLatest(d) ==
    /\ Terminal(job[d].data) /\ << "job", d >> \in fresh => job[d].data.version = row[d].version
    /\ job[d].fetch = "read" => job[d].reply # Undefined /\ job[d].reply.version = row[d].version

\* And so is the last one of a poll that is enabled.
PollIsLatest(d) ==
    d = date /\ Busy(plan[d].data) /\ job[d].fetch = "idle" =>
        /\ job[d].data # Undefined
        /\ Terminal(job[d].data) => job[d].data.version = row[d].version

Known(d) == Ordered(d) /\ NothingCached(d) /\ FreshIsLatest(d) /\ PollIsLatest(d)

PanelInv == TypeOK /\ \A d \in Dates : Known(d)

-----------------------------------------------------------------------------
(* Types.                                                                  *)

\* What the operations of the cache make of a query.
LEMMA QueryTypes ==
    ASSUME NEW q \in Query(Row, Row)
    PROVE  /\ Fetch(q) \in Query(Row, Row) /\ Invalidate(q) \in Query(Row, Row)
           /\ Receive(q) \in Query(Row, Row) /\ GiveUp(q) \in Query(Row, Row)
           /\ \A r \in Row : Answer(q, r) \in Query(Row, Row)
  BY DEF Query, Invalidate, Fetch, FirstLoad, Receive, GiveUp, Answer

\* What they make of its fields.
LEMMA QueryFields ==
    ASSUME NEW q \in Query(Row, Row)
    PROVE  /\ Fetch(q).data = q.data /\ Fetch(q).fetch = "sent" /\ Fetch(q).reply = Undefined
           /\ Receive(q).data = q.reply /\ Receive(q).fetch = "idle" /\ Receive(q).reply = Undefined
           /\ GiveUp(q).data = q.data /\ GiveUp(q).fetch = "idle" /\ GiveUp(q).reply = Undefined
           /\ \A r \in Row : /\ Answer(q, r).data = q.data /\ Answer(q, r).fetch = "read"
                             /\ Answer(q, r).reply = r
           /\ q.data \in Row \cup {Undefined} /\ q.reply \in Row \cup {Undefined}
           /\ q.fetch \in {"idle", "sent", "part", "read"}
  BY DEF Query, Fetch, Receive, GiveUp, Answer

\* What a mutation is made of.
LEMMA MutationType ==
    ASSUME NEW m \in Mutation
    PROVE  /\ m.at \in {"sent", "stored", "settling"} => m.of \in Dates
           /\ m.at \in {"idle", "sent", "stored"} => m.by = Undefined
           /\ m.at = "settling" => m.by \in Dates
           /\ m.at = "idle" => m = Idle
           /\ m.at \in {"idle", "sent", "stored", "settling"}
           /\ m.at = "sent" => [m EXCEPT !.at = "stored"] \in Mutation
           /\ \A d \in Dates : m.at = "stored" => [m EXCEPT !.at = "settling", !.by = d] \in Mutation
  BY DEF Mutation, Idle

LEMMA IdleType == Idle \in Mutation
  BY DEF Mutation, Idle

\* Counting keeps the counters natural, and a patient user has counted no haste.
LEMMA CountingType ==
    ASSUME counted \in [Counted -> Nat], NEW S, Counting(S)
    PROVE  /\ counted' \in [Counted -> Nat]
           /\ Patience => "hasty" \notin S /\ "deaf" \notin S
<1>1. counted' = [m \in Counted |-> IF m \in S THEN counted[m] + 1 ELSE counted[m]]
  BY DEF Counting
<1>2. counted' \in [Counted -> Nat]
  BY <1>1
<1>3. ASSUME Patience, NEW m \in {"hasty", "deaf"} PROVE m \notin S
  <2>1. PICK budget \in Budgets : \A k \in Counted : counted'[k] <= budget[k]
    BY DEF Counting
  <2>2. m \in Counted /\ budget[m] = 0
    BY <1>3 DEF Patience, Counted
  <2>3. counted'[m] <= 0
    BY <2>1, <2>2
  <2> QED
    BY <1>1, <2>2, <2>3
<1> QED
  BY <1>2, <1>3

\* Generating a plan moves the row to the next version.
LEMMA QueuedType ==
    ASSUME NEW r \in Row
    PROVE  /\ Queued(r) \in Row /\ Queued(r).status = "queued" /\ Queued(r).version = r.version + 1
           /\ Queued(r) # r /\ Queued(r).version # 0
  BY DEF Queued, Row

\* The panel is mounted in a typed state.
LEMMA TypeInit == Init => TypeOK
<1> SUFFICES ASSUME Init PROVE TypeOK
  OBVIOUS
<1>1. Mounted \in Query(Row, Row) /\ Unused \in Query(Row, Row)
  BY DEF Mounted, Unused, Query
<1>2. \A d \in Dates : row[d] \in Row /\ (row[d].status = "none" <=> row[d].version = 0)
  BY DEF Init, Row
<1>3. row \in [Dates -> Row]
  BY <1>2 DEF Init
<1> QED
  BY <1>1, <1>2, <1>3, TodayAssumption, IdleType DEF Init, TypeOK

\* What is read is a row, and the queries of a typed panel are queries.
LEMMA Typed ==
    ASSUME TypeOK, NEW d \in Dates
    PROVE  /\ row[d] \in Row /\ row[d] # Undefined
           /\ row[d].status \in {"none", "queued", "running", "done", "failed"}
           /\ row[d].version \in Nat /\ (row[d].status = "none" <=> row[d].version = 0)
           /\ plan[d] \in Query(Row, Row) /\ job[d] \in Query(Row, Row)
  BY UndefinedAssumption DEF TypeOK, Row

\* A write of the worker is of a row that has been requested, for one of its jobs.
LEMMA Writes ==
    ASSUME TypeOK, NEW d \in Dates, Work(d) \/ WorkAgain(d)
    PROVE  /\ row[d].version > 0
           /\ \E r \in Row, j \in queue[d], S \in SUBSET Job :
                 /\ r.version = row[d].version /\ r.status # "none"
                 /\ \A i \in S : i.of = j.of
                 /\ Write(d, r) /\ Become(d, j, S)
<1>1. \A j \in queue[d] : j \in Job /\ 0 < j.of /\ j.of <= row[d].version
  BY DEF TypeOK
<1>2. /\ row[d] \in Row /\ row[d].version \in Nat
      /\ row[d].status = "none" <=> row[d].version = 0
  BY Typed
<1>3. ASSUME NEW j \in queue[d] PROVE row[d].version > 0 /\ row[d].status # "none"
  BY <1>1, <1>2 DEF Job
<1>4. ASSUME NEW j \in queue[d], NEW r \in {row[d]} \cup Answers(row[d], j)
      PROVE  r \in Row /\ r.version = row[d].version /\ r.status # "none"
  BY <1>1, <1>2, <1>3, <1>4 DEF Answers, Row, Job
<1>5. ASSUME NEW j \in queue[d]
      PROVE  LET r == [row[d] EXCEPT !.status = "running"] IN
             r \in Row /\ r.version = row[d].version /\ r.status # "none"
  BY <1>2 DEF Row
<1>6. ASSUME NEW j \in queue[d]
      PROVE  /\ {} \in SUBSET Job
             /\ {[j EXCEPT !.at = "open"]} \in SUBSET Job /\ [j EXCEPT !.at = "open"].of = j.of
             /\ {[j EXCEPT !.at = "marked"]} \in SUBSET Job /\ [j EXCEPT !.at = "marked"].of = j.of
  BY <1>1 DEF Job
<1>7. CASE Work(d)
  <2>1. PICK j \in queue[d] :
           \/ /\ Write(d, [row[d] EXCEPT !.status = "running"])
              /\ Become(d, j, {[j EXCEPT !.at = "marked"]})
           \/ (\E r \in Answers(row[d], j) : Write(d, r)) /\ Become(d, j, {})
    BY <1>7 DEF Work
  <2>2. CASE Write(d, [row[d] EXCEPT !.status = "running"]) /\ Become(d, j, {[j EXCEPT !.at = "marked"]})
    BY <1>3, <1>5, <1>6, <2>2
  <2>3. CASE (\E r \in Answers(row[d], j) : Write(d, r)) /\ Become(d, j, {})
    <3>1. PICK r \in Answers(row[d], j) : Write(d, r)
      BY <2>3
    <3> QED
      BY <1>3, <1>4, <1>6, <2>3, <3>1
  <2> QED
    BY <2>1, <2>2, <2>3
<1>8. CASE WorkAgain(d)
  <2>1. PICK j \in queue[d] :
           /\ \E r \in {row[d]} \cup Answers(row[d], j) : Write(d, r)
           /\ \E S \in {{}, {[j EXCEPT !.at = "open"]}} : Become(d, j, S)
    BY <1>8 DEF WorkAgain
  <2>2. PICK r \in {row[d]} \cup Answers(row[d], j) : Write(d, r)
    BY <2>1
  <2>3. PICK S \in {{}, {[j EXCEPT !.at = "open"]}} : Become(d, j, S)
    BY <2>1
  <2>4. S \in SUBSET Job /\ \A i \in S : i.of = j.of
    BY <1>6
  <2> QED
    BY <1>3, <1>4, <2>2, <2>3, <2>4
<1> QED
  BY <1>7, <1>8

\* The server and the worker keep the types.
LEMMA ServerType == TypeOK /\ Server => TypeOK'
<1> SUFFICES ASSUME TypeOK, Server PROVE TypeOK'
  OBVIOUS
<1>1. CASE GeneratePlan
  <2>1. generate.of \in Dates /\ generate' \in Mutation
    BY <1>1, MutationType DEF GeneratePlan, TypeOK
  <2>2. /\ row' = [row EXCEPT ![generate.of] = Queued(row[generate.of])]
        /\ overtaken' = overtaken \ {generate.of}
        /\ queue' = [queue EXCEPT ![generate.of] =
                        queue[generate.of] \cup {[of |-> row[generate.of].version + 1, at |-> "open"]}]
    BY <1>1 DEF GeneratePlan, UpsertPlanQueued
  <2>3. row' \in [Dates -> Row] /\ \A d \in Dates : row'[d].status = "none" <=> row'[d].version = 0
    BY <2>1, <2>2, Typed, QueuedType DEF TypeOK
  <2>4. queue' \in [Dates -> SUBSET Job]
    BY <2>1, <2>2, Typed DEF TypeOK, Job
  <2>5. ASSUME NEW d \in Dates, NEW j \in queue'[d] PROVE 0 < j.of /\ j.of <= row'[d].version
    <3>1. row[d].version \in Nat /\ (row'[d] = row[d] \/ row'[d].version = row[d].version + 1)
      BY <2>1, <2>2, Typed, QueuedType DEF TypeOK
    <3>2. CASE j \in queue[d]
      <4>1. j.of \in Nat /\ 0 < j.of /\ j.of <= row[d].version
        BY <3>2 DEF TypeOK, Job
      <4> QED
        BY <3>1, <4>1
    <3>3. CASE j \notin queue[d]
      <4>1. d = generate.of /\ j = [of |-> row[d].version + 1, at |-> "open"]
        BY <2>1, <2>2, <2>5, <3>3 DEF TypeOK
      <4>2. row'[d].version = row[d].version + 1
        BY <2>1, <2>2, <4>1, Typed, QueuedType DEF TypeOK
      <4> QED
        BY <3>1, <4>1, <4>2
    <3> QED
      BY <3>2, <3>3
  <2> QED
    BY <1>1, <2>1, <2>2, <2>3, <2>4, <2>5 DEF GeneratePlan, TypeOK
<1>2. ASSUME NEW d \in Dates, GetPlanByDate(d) \/ GetPlanJob(d) PROVE TypeOK'
  <2>1. /\ row[d] \in Row
        /\ Answer(plan[d], row[d]) \in Query(Row, Row) /\ Answer(job[d], row[d]) \in Query(Row, Row)
    BY Typed, QueryTypes
  <2> QED
    BY <1>2, <2>1 DEF GetPlanByDate, GetPlanJob, server, TypeOK
<1>3. ASSUME NEW d \in Dates, Work(d) \/ WorkAgain(d) PROVE TypeOK'
  <2>1. PICK r \in Row, j \in queue[d], S \in SUBSET Job :
           /\ r.version = row[d].version /\ r.status # "none"
           /\ \A i \in S : i.of = j.of
           /\ Write(d, r) /\ Become(d, j, S)
    BY <1>3, Writes
  <2>2. row[d].version > 0
    BY <1>3, Writes
  <2>3. /\ row' = [row EXCEPT ![d] = r] /\ overtaken' \subseteq overtaken \cup {d}
        /\ queue' = [queue EXCEPT ![d] = (queue[d] \ {j}) \cup S]
    BY <2>1 DEF Write, Become
  <2>4. row' \in [Dates -> Row] /\ \A e \in Dates : row'[e].status = "none" <=> row'[e].version = 0
    BY <2>1, <2>2, <2>3, Typed DEF TypeOK
  <2>5. queue' \in [Dates -> SUBSET Job]
    BY <2>1, <2>3 DEF TypeOK
  <2>6. ASSUME NEW e \in Dates, NEW i \in queue'[e] PROVE 0 < i.of /\ i.of <= row'[e].version
    <3>1. row'[e].version = row[e].version
      BY <2>1, <2>3 DEF TypeOK
    <3>2. i \in queue[e] \/ (e = d /\ i.of = j.of)
      BY <2>1, <2>3, <2>6 DEF TypeOK
    <3> QED
      BY <3>1, <3>2 DEF TypeOK
  <2>7. counted' \in [Counted -> Nat]
    BY <1>3, CountingType DEF Work, WorkAgain, Count, TypeOK
  <2> QED
    BY <1>3, <2>3, <2>4, <2>5, <2>6, <2>7 DEF Work, WorkAgain, TypeOK
<1> QED
  BY <1>1, <1>2, <1>3 DEF Server

\* The user keeps the types.
LEMMA UserType == TypeOK /\ User => TypeOK'
<1> SUFFICES ASSUME TypeOK, User PROVE TypeOK'
  OBVIOUS
<1>1. CASE ClickGenerate
  <2>1. counted' \in [Counted -> Nat]
    BY <1>1, CountingType DEF ClickGenerate, TypeOK
  <2>2. generate' \in Mutation
    BY <1>1 DEF ClickGenerate, Mutation, TypeOK
  <2> QED
    BY <1>1, <2>1, <2>2 DEF ClickGenerate, server, TypeOK
<1>2. ASSUME NEW d \in Dates, Select(d) PROVE TypeOK'
  <2>1. counted' \in [Counted -> Nat]
    BY <1>2, CountingType DEF Select, TypeOK
  <2>2. Invalidate(Fetch(plan[d])) \in Query(Row, Row) /\ Fetch(job[d]) \in Query(Row, Row)
    BY Typed, QueryTypes
  <2> QED
    BY <1>2, <2>1, <2>2 DEF Select, server, TypeOK
<1> QED
  BY <1>1, <1>2 DEF User

\* The panel keeps the types.
LEMMA PanelType == TypeOK /\ Panel => TypeOK'
<1> SUFFICES ASSUME TypeOK, Panel PROVE TypeOK'
  OBVIOUS
<1>1. \A S : Counting(S) => counted' \in [Counted -> Nat]
  BY CountingType DEF TypeOK
<1>2. date \in Dates /\ generate \in Mutation
  BY DEF TypeOK
<1>3. CASE GenerateSucceeds
  <2>1. generate.of \in Dates /\ generate' \in Mutation
    BY <1>2, <1>3, MutationType DEF GenerateSucceeds
  <2>2. Invalidate(plan[date]) \in Query(Row, Row)
    BY <1>2, Typed, QueryTypes
  <2> QED
    BY <1>2, <1>3, <2>1, <2>2 DEF GenerateSucceeds, server, TypeOK
<1>4. CASE GenerateFails
  <2>1. generate.of \in Dates
    BY <1>2, <1>4, MutationType DEF GenerateFails
  <2>2. /\ row' = row \/ row' = [row EXCEPT ![generate.of] = Queued(row[generate.of])]
        /\ overtaken' \subseteq overtaken /\ queue' = queue
    BY <1>4 DEF GenerateFails, UpsertPlanQueued
  <2>3. row' \in [Dates -> Row] /\ \A d \in Dates : row'[d].status = "none" <=> row'[d].version = 0
    BY <2>1, <2>2, Typed, QueuedType DEF TypeOK
  <2>4. ASSUME NEW d \in Dates, NEW j \in queue[d] PROVE 0 < j.of /\ j.of <= row'[d].version
    <3>1. row[d].version \in Nat /\ (row'[d] = row[d] \/ row'[d].version = row[d].version + 1)
      BY <2>1, <2>2, Typed, QueuedType DEF TypeOK
    <3>2. j.of \in Nat /\ 0 < j.of /\ j.of <= row[d].version
      BY DEF TypeOK, Job
    <3> QED
      BY <3>1, <3>2
  <2> QED
    BY <1>1, <1>4, <2>1, <2>2, <2>3, <2>4, IdleType DEF GenerateFails, Count, TypeOK
<1>5. CASE Poll
  BY <1>2, <1>5, Typed, QueryTypes DEF Poll, server, TypeOK
<1>6. ASSUME NEW d \in Dates, PlanArrives(d) PROVE TypeOK'
  <2>1. Receive(plan[d]) \in Query(Row, Row) /\ Fetch(job[d]) \in Query(Row, Row)
    BY Typed, QueryTypes
  <2> QED
    BY <1>2, <1>6, <2>1, IdleType DEF PlanArrives, server, TypeOK
<1>7. ASSUME NEW d \in Dates, PlanFails(d) PROVE TypeOK'
  BY <1>1, <1>2, <1>7, Typed, QueryTypes, IdleType DEF PlanFails, Count, server, TypeOK
<1>8. ASSUME NEW d \in Dates, PollArrives(d) PROVE TypeOK'
  <2>1. Receive(job[d]) \in Query(Row, Row) /\ Invalidate(plan[date]) \in Query(Row, Row)
    BY <1>2, Typed, QueryTypes
  <2>2. /\ plan' \in [Dates -> Query(Row, Row)] /\ unseen' \subseteq Dates
        /\ fresh' \subseteq {"plan", "job"} \X Dates /\ generate' \in Mutation
    BY <1>2, <1>8, <2>1 DEF PollArrives, RefetchPlan, TypeOK
  <2> QED
    BY <1>8, <2>1, <2>2 DEF PollArrives, server, TypeOK
<1>9. ASSUME NEW d \in Dates, PollFails(d) PROVE TypeOK'
  BY <1>1, <1>9, Typed, QueryTypes DEF PollFails, Count, server, TypeOK
<1> QED
  BY <1>3, <1>4, <1>5, <1>6, <1>7, <1>8, <1>9 DEF Panel

\* Every step keeps the types.
LEMMA TypeStep == TypeOK /\ [Next]_vars => TypeOK'
<1> SUFFICES ASSUME TypeOK, [Next]_vars PROVE TypeOK'
  OBVIOUS
<1>1. CASE Age \/ UNCHANGED vars
  BY <1>1 DEF Age, vars, server, TypeOK
<1> QED
  BY <1>1, UserType, ServerType, PanelType DEF Next

\* Every variable of the panel keeps its type.
THEOREM TypeCorrect == Spec => []TypeOK
  BY TypeInit, TypeStep, PTL DEF Spec

-----------------------------------------------------------------------------
(* The invariant.                                                          *)

\* Nothing is cached when the panel is mounted.
LEMMA InvInit == Init => PanelInv
<1> SUFFICES ASSUME Init PROVE PanelInv
  OBVIOUS
<1>1. TypeOK
  BY TypeInit
<1>2. ASSUME NEW d \in Dates PROVE Known(d)
  <2>1. /\ plan[d].data = Undefined /\ plan[d].reply = Undefined
        /\ plan[d].fetch \in {"idle", "sent"} /\ job[d] = Unused
    BY DEF Init, Mounted, Unused
  <2>2. generate.at = "idle"
    BY DEF Init, Idle
  <2> QED
    BY <2>1, <2>2 DEF Known, Ordered, NothingCached, FreshIsLatest, PollIsLatest,
                      Requested, Held, Busy, Terminal, Unused
<1> QED
  BY <1>1, <1>2 DEF PanelInv

\* A date whose row, jobs and queries a step leaves alone, and which it does not select.
LEMMA Undisturbed ==
    ASSUME TypeOK, NEW e \in Dates, Known(e),
           row'[e] = row[e], queue'[e] = queue[e], plan'[e] = plan[e], job'[e] = job[e],
           << "job", e >> \in fresh' => << "job", e >> \in fresh,
           Requested(e)' => Requested(e),
           date' = e => date = e
    PROVE  Known(e)'
<1>1. Ordered(e)'
  BY DEF Known, Ordered, Held
<1>2. NothingCached(e)'
  BY DEF Known, NothingCached, Settled
<1>3. FreshIsLatest(e)'
  BY DEF Known, FreshIsLatest
<1>4. PollIsLatest(e)'
  BY DEF Known, PollIsLatest
<1> QED
  BY <1>1, <1>2, <1>3, <1>4 DEF Known

\* The request that makes all answers old finds none fresh and nothing that brings one.
LEMMA QueuedKnown ==
    ASSUME PanelInv, NEW e \in Dates, Requested(e), row'[e] = Queued(row[e]),
           UNCHANGED << date, plan, job, fresh >>, ~Requested(e)'
    PROVE  Known(e)'
<1>1. TypeOK /\ Known(e)
  BY DEF PanelInv
<1>2. /\ row'[e].status = "queued" /\ row'[e].version = row[e].version + 1
      /\ row[e].version \in Nat
  BY <1>1, QueuedType, Typed
<1>3. /\ job[e].fetch = "idle" /\ ~Busy(plan[e].data)
      /\ ~(Terminal(job[e].data) /\ << "job", e >> \in fresh)
  BY <1>1 DEF Known, NothingCached
<1>4. Ordered(e)'
  <2>1. ASSUME NEW x \in Held(e), x # Undefined PROVE x.version <= row'[e].version
    <3>1. x \in Row /\ x.version <= row[e].version
      BY <1>1, <2>1, Typed, QueryFields DEF Known, Ordered, Held
    <3> QED
      BY <1>2, <3>1 DEF Row
  <2> QED
    BY <1>1, <1>2, <2>1 DEF Known, Ordered, Held
<1> QED
  BY <1>3, <1>4 DEF Known, NothingCached, FreshIsLatest, PollIsLatest

\* Generate, with a job behind the request.
LEMMA GeneratePlanKnown ==
    ASSUME PanelInv, GeneratePlan, NEW e \in Dates
    PROVE  Known(e)'
<1>1. TypeOK /\ Known(e) /\ generate \in Mutation
  BY DEF PanelInv, TypeOK
<1>2. generate.of \in Dates /\ generate.at = "sent" /\ generate'.at = "stored" /\ generate'.of = generate.of
  BY <1>1, MutationType DEF GeneratePlan, Mutation
<1>3. UNCHANGED << date, plan, job, fresh >> /\ ~Requested(e)'
  BY <1>2 DEF GeneratePlan, Requested
<1>4. CASE e # generate.of
  <2>1. row'[e] = row[e] /\ queue'[e] = queue[e]
    BY <1>1, <1>2, <1>4 DEF GeneratePlan, UpsertPlanQueued, TypeOK
  <2> QED
    BY <1>1, <1>3, <2>1, Undisturbed
<1>5. CASE e = generate.of
  <2>1. row'[e] = Queued(row[e]) /\ Requested(e)
    BY <1>1, <1>2, <1>5 DEF GeneratePlan, UpsertPlanQueued, TypeOK, Requested
  <2> QED
    BY <1>3, <2>1, QueuedKnown
<1> QED
  BY <1>4, <1>5

\* A read is of the latest row.
LEMMA ReadKnown ==
    ASSUME PanelInv, NEW d \in Dates, GetPlanByDate(d) \/ GetPlanJob(d), NEW e \in Dates
    PROVE  Known(e)'
<1>1. TypeOK /\ Known(e)
  BY DEF PanelInv
<1>2. UNCHANGED << row, queue, date, fresh, generate >>
  BY DEF GetPlanByDate, GetPlanJob, server
<1>3. CASE e # d
  BY <1>1, <1>2, <1>3, Undisturbed DEF GetPlanByDate, GetPlanJob, TypeOK, Requested
<1>4. row[d] \in Row /\ row[d] # Undefined /\ row[d].version <= row[d].version
  BY <1>1, Typed
<1>5. CASE e = d /\ GetPlanByDate(d)
  <2>1. /\ plan[e].fetch = "sent" /\ job' = job
        /\ plan'[e].data = plan[e].data /\ plan'[e].fetch = "read" /\ plan'[e].reply = row[e]
    BY <1>1, <1>4, <1>5, Typed, QueryFields DEF GetPlanByDate, TypeOK
  <2>2. Ordered(e)'
    BY <1>1, <1>2, <1>4, <1>5, <2>1 DEF Known, Ordered, Held, Busy
  <2>3. NothingCached(e)'
    BY <1>1, <1>2, <2>1 DEF Known, NothingCached, Requested, Settled
  <2> QED
    BY <1>1, <1>2, <2>1, <2>2, <2>3 DEF Known, FreshIsLatest, PollIsLatest
<1>6. CASE e = d /\ GetPlanJob(d)
  <2>1. /\ job[e].fetch = "sent" /\ plan' = plan
        /\ job'[e].data = job[e].data /\ job'[e].fetch = "read" /\ job'[e].reply = row[e]
    BY <1>1, <1>4, <1>6, Typed, QueryFields DEF GetPlanJob, TypeOK
  <2>2. Ordered(e)'
    BY <1>1, <1>2, <1>4, <1>6, <2>1 DEF Known, Ordered, Held
  <2>3. NothingCached(e)'
    BY <1>1, <1>2, <2>1 DEF Known, NothingCached, Requested, Settled
  <2>4. FreshIsLatest(e)' /\ PollIsLatest(e)'
    BY <1>1, <1>2, <1>4, <1>6, <2>1 DEF Known, FreshIsLatest, PollIsLatest
  <2> QED
    BY <2>2, <2>3, <2>4 DEF Known
<1> QED
  BY <1>3, <1>5, <1>6

\* The worker writes a row that has open jobs, and leaves its version.
LEMMA WorkKnown ==
    ASSUME PanelInv, NEW d \in Dates, Work(d) \/ WorkAgain(d), NEW e \in Dates
    PROVE  Known(e)'
<1>1. TypeOK /\ Known(e)
  BY DEF PanelInv
<1>2. UNCHANGED << date, plan, job, fresh, generate, unseen >>
  BY DEF Work, WorkAgain
<1>3. PICK r \in Row, j \in queue[d], S \in SUBSET Job :
         /\ r.version = row[d].version /\ r.status # "none"
         /\ \A i \in S : i.of = j.of
         /\ Write(d, r) /\ Become(d, j, S)
  BY <1>1, Writes
<1>4. /\ row' = [row EXCEPT ![d] = r]
      /\ queue' = [queue EXCEPT ![d] = (queue[d] \ {j}) \cup S]
  BY <1>3 DEF Write, Become
<1>5. CASE e # d
  BY <1>1, <1>2, <1>4, <1>5, Undisturbed DEF TypeOK, Requested
<1>6. CASE e = d
  <2>1. row'[e] = r /\ row'[e].version = row[e].version
    BY <1>1, <1>3, <1>4, <1>6 DEF TypeOK
  <2>2. Ordered(e)'
    BY <1>1, <1>2, <1>3, <2>1 DEF Known, Ordered, Held
  <2>3. NothingCached(e)'
    BY <1>1, <1>2, <1>3, <1>6 DEF Known, NothingCached, Requested, Settled
  <2>4. FreshIsLatest(e)' /\ PollIsLatest(e)'
    BY <1>1, <1>2, <2>1 DEF Known, FreshIsLatest, PollIsLatest
  <2> QED
    BY <2>2, <2>3, <2>4 DEF Known
<1> QED
  BY <1>5, <1>6

\* A user who is patient asks when no answer is cached or on its way.
LEMMA ClickKnown ==
    ASSUME Patience, PanelInv, ClickGenerate, NEW e \in Dates
    PROVE  Known(e)'
<1>1. TypeOK /\ Known(e)
  BY DEF PanelInv
<1>2. UNCHANGED << row, queue, date, plan, job, fresh >> /\ generate = Idle
      /\ generate'.at = "sent" /\ generate'.of = date
  BY DEF ClickGenerate, isWorking, server
<1>3. ~Hasty
  <2>1. Counting({"generate"} \cup IF Hasty THEN {"hasty"} ELSE {})
    BY DEF ClickGenerate
  <2> QED
    BY <1>1, <2>1, CountingType DEF TypeOK
<1>4. CASE e # date
  BY <1>1, <1>2, <1>4, Undisturbed DEF Requested
<1>5. CASE e = date
  <2>1. /\ job[e].fetch = "idle"
        /\ ~(Terminal(job[e].data) /\ (<< "job", e >> \in fresh \/ inProgress))
        /\ plan[e].fetch # "idle" => Settled(e) /\ ~Busy(plan[e].reply)
    BY <1>3, <1>5 DEF Hasty
  <2>2. ~Busy(plan[e].data)
    <3>1. SUFFICES ASSUME inProgress PROVE FALSE
      BY <1>5 DEF inProgress
    <3>2. job[e].data # Undefined /\ ~Terminal(job[e].data)
      BY <1>1, <1>5, <2>1, <3>1 DEF Known, PollIsLatest, inProgress
    <3>3. Busy(job[e].data)
      BY <1>1, <3>2, Typed, QueryFields DEF Known, Ordered, Busy, Terminal, Row
    <3> QED
      BY <1>5, <3>1, <3>2, <3>3 DEF ClickGenerate, isWorking, Shown
  <2>3. NothingCached(e)'
    BY <1>2, <2>1, <2>2 DEF NothingCached, Settled
  <2>4. Ordered(e)'
    BY <1>1, <1>2 DEF Known, Ordered, Held
  <2> QED
    BY <1>1, <1>2, <2>3, <2>4 DEF Known, FreshIsLatest, PollIsLatest
<1> QED
  BY <1>4, <1>5

\* A date that is selected asks for what is not fresh.
LEMMA SelectKnown ==
    ASSUME Patience, PanelInv, NEW d \in Dates, Select(d), NEW e \in Dates
    PROVE  Known(e)'
<1>1. TypeOK /\ Known(e)
  BY DEF PanelInv, TypeOK
<1>2. UNCHANGED << row, queue, fresh, generate >> /\ date' = d /\ d # date
  BY DEF Select, server
<1>3. ~ReturnsInHaste(d)
  <2>1. Counting({"select"} \cup IF ReturnsInHaste(d) THEN {"hasty"} ELSE {})
    BY DEF Select
  <2> QED
    BY <1>1, <2>1, CountingType DEF TypeOK
<1>4. CASE e # d
  <2>1. plan'[e] = plan[e] /\ job'[e] = job[e]
    BY <1>1, <1>4 DEF Select, TypeOK
  <2> QED
    BY <1>1, <1>2, <1>4, <2>1, Undisturbed DEF Requested
<1>5. CASE e = d
  <2>1. plan[e] \in Query(Row, Row) /\ job[e] \in Query(Row, Row) /\ Fetch(plan[e]) \in Query(Row, Row)
    BY <1>1, Typed, QueryTypes
  <2>2. \/ plan'[e] = plan[e]
        \/ plan'[e].data = plan[e].data /\ plan'[e].fetch = "sent" /\ plan'[e].reply = Undefined
    <3>1. Invalidate(Fetch(plan[e])).data = plan[e].data
          /\ Invalidate(Fetch(plan[e])).fetch = "sent" /\ Invalidate(Fetch(plan[e])).reply = Undefined
      BY <2>1, QueryFields DEF Invalidate
    <3>2. \/ plan' = [plan EXCEPT ![e] = Invalidate(Fetch(plan[e]))]
          \/ plan' = plan
      BY <1>5 DEF Select
    <3> QED
      BY <1>1, <3>1, <3>2 DEF TypeOK
  <2>3. \/ job'[e] = job[e] /\ ~(Busy(plan[e].data) /\ Stale("job", job, e))
        \/ /\ Busy(plan[e].data)
           /\ job'[e].data = job[e].data /\ job'[e].fetch = "sent" /\ job'[e].reply = Undefined
    BY <1>1, <1>5, <2>1, QueryFields DEF Select, TypeOK
  <2>4. plan'[e].data = plan[e].data /\ job'[e].data = job[e].data
    BY <2>2, <2>3
  <2>5. Ordered(e)'
    <3>1. Held(e)' \subseteq Held(e) \cup {Undefined}
      BY <2>2, <2>3 DEF Held
    <3>2. /\ plan'[e].fetch # "part" /\ job'[e].fetch # "part"
          /\ \A x \in {job'[e].data, job'[e].reply} : x # Undefined => x.status # "none"
          /\ plan'[e].fetch \in {"idle", "sent"} => plan'[e].reply = Undefined
      BY <1>1, <2>2, <2>3 DEF Known, Ordered
    <3>3. Busy(plan'[e].data) \/ Busy(plan'[e].reply) \/ job'[e].fetch # "idle" => row[e].status # "none"
      BY <1>1, <2>2, <2>3 DEF Known, Ordered, Busy
    <3> QED
      BY <1>1, <1>2, <3>1, <3>2, <3>3 DEF Known, Ordered
  <2>6. NothingCached(e)'
    <3>1. SUFFICES ASSUME Requested(e)
                   PROVE  /\ job'[e].fetch = "idle" /\ ~Busy(plan'[e].data)
                          /\ ~(Terminal(job'[e].data) /\ << "job", e >> \in fresh)
                          /\ plan'[e].fetch = "idle" \/ (Settled(e) /\ ~Busy(plan'[e].reply))
      BY <1>2 DEF NothingCached, Requested, Settled
    <3>2. Settled(e)
      BY <1>3, <1>5, <3>1 DEF ReturnsInHaste, Requested
    <3>3. /\ job[e].fetch = "idle" /\ ~Busy(plan[e].data)
          /\ ~(Terminal(job[e].data) /\ << "job", e >> \in fresh)
          /\ plan[e].fetch = "idle" \/ ~Busy(plan[e].reply)
      BY <1>1, <3>1 DEF Known, NothingCached
    <3> QED
      BY <2>2, <2>3, <2>4, <3>2, <3>3 DEF Busy
  <2>7. FreshIsLatest(e)'
    BY <1>1, <1>2, <2>3, <2>4 DEF Known, FreshIsLatest
  <2>8. PollIsLatest(e)'
    BY <1>1, <1>2, <2>3, <2>4 DEF Known, PollIsLatest, FreshIsLatest, Stale
  <2> QED
    BY <2>5, <2>6, <2>7, <2>8 DEF Known
<1> QED
  BY <1>4, <1>5

\* onSuccess refetches the plan of the selected date.
LEMMA SucceedsKnown ==
    ASSUME PanelInv, GenerateSucceeds, NEW e \in Dates
    PROVE  Known(e)'
<1>1. TypeOK /\ Known(e) /\ generate \in Mutation /\ date \in Dates
  BY DEF PanelInv, TypeOK
<1>2. generate'.at = "settling"
  BY <1>1 DEF GenerateSucceeds, Mutation
<1>3. /\ UNCHANGED << row, queue, date, job >> /\ (<< "job", e >> \in fresh' => << "job", e >> \in fresh)
      /\ ~Requested(e)'
  BY <1>2 DEF GenerateSucceeds, Requested, server
<1>4. plan' = [plan EXCEPT ![date] = Invalidate(plan[date])]
  BY DEF GenerateSucceeds
<1>5. CASE e # date \/ FirstLoad(plan[e])
  <2>1. plan'[e] = plan[e]
    BY <1>1, <1>4, <1>5 DEF TypeOK, Invalidate
  <2> QED
    BY <1>1, <1>3, <2>1, Undisturbed
<1>6. CASE e = date /\ ~FirstLoad(plan[e])
  <2>1. plan'[e].data = plan[e].data /\ plan'[e].fetch = "sent" /\ plan'[e].reply = Undefined
    BY <1>1, <1>4, <1>6, Typed, QueryFields DEF TypeOK, Invalidate
  <2>2. Ordered(e)'
    BY <1>1, <1>3, <2>1 DEF Known, Ordered, Held, Busy
  <2> QED
    BY <1>1, <1>3, <2>1, <2>2 DEF Known, NothingCached, FreshIsLatest, PollIsLatest
<1> QED
  BY <1>5, <1>6

\* A request that fails may have reset the row.
LEMMA FailsKnown ==
    ASSUME PanelInv, GenerateFails, NEW e \in Dates
    PROVE  Known(e)'
<1>1. TypeOK /\ Known(e) /\ generate \in Mutation
  BY DEF PanelInv, TypeOK
<1>2. generate.at \in {"sent", "stored"} /\ generate.of \in Dates /\ generate' = Idle
  BY <1>1, MutationType DEF GenerateFails
<1>3. UNCHANGED << queue, date, plan, job, fresh >> /\ ~Requested(e)'
  BY <1>2 DEF GenerateFails, Requested, Idle
<1>4. CASE row'[e] = row[e]
  BY <1>1, <1>3, <1>4, Undisturbed
<1>5. CASE row'[e] # row[e]
  <2>1. Requested(e) /\ row'[e] = Queued(row[e])
    BY <1>1, <1>2, <1>5 DEF GenerateFails, UpsertPlanQueued, Requested, TypeOK
  <2> QED
    BY <1>3, <2>1, QueuedKnown
<1> QED
  BY <1>4, <1>5

\* The interval timer asks for a job in progress.
LEMMA PollKnown ==
    ASSUME PanelInv, Poll, NEW e \in Dates
    PROVE  Known(e)'
<1>1. TypeOK /\ Known(e) /\ date \in Dates
  BY DEF PanelInv, TypeOK
<1>2. UNCHANGED << row, queue, date, plan, fresh, generate >> /\ Busy(plan[date].data)
      /\ job[date].fetch = "idle" /\ Busy(job[date].data)
      /\ job' = [job EXCEPT ![date] = Fetch(job[date])]
  BY DEF Poll, inProgress, server
<1>3. CASE e # date
  BY <1>1, <1>2, <1>3, Undisturbed DEF TypeOK, Requested
<1>4. CASE e = date
  <2>1. job'[e].data = job[e].data /\ job'[e].fetch = "sent" /\ job'[e].reply = Undefined
    BY <1>1, <1>2, <1>4, Typed, QueryFields DEF TypeOK
  <2>2. Ordered(e)'
    BY <1>1, <1>2, <1>4, <2>1 DEF Known, Ordered, Held
  <2>3. NothingCached(e)'
    BY <1>1, <1>2, <1>4, <2>1 DEF Known, NothingCached, Requested
  <2> QED
    BY <1>1, <1>2, <2>1, <2>2, <2>3 DEF Known, FreshIsLatest, PollIsLatest
<1> QED
  BY <1>3, <1>4

\* Only one awaiting a refetch is released by it.
LEMMA SettlingIsNotStored ==
    ASSUME TypeOK, NEW d \in Dates, NEW e \in Dates, generate.by = d
    PROVE  ~Stored(e) /\ ~Requested(e)
  BY MutationType, UndefinedAssumption DEF TypeOK, Stored, Requested

\* A stored plan that turns out to be in progress enables its job.
LEMMA PlanArrivesKnown ==
    ASSUME PanelInv, NEW d \in Dates, PlanArrives(d), NEW e \in Dates
    PROVE  Known(e)'
<1>1. TypeOK /\ Known(e)
  BY DEF PanelInv, TypeOK
<1>2. UNCHANGED << row, queue, date >> /\ (<< "job", e >> \in fresh' <=> << "job", e >> \in fresh)
      /\ (Requested(e)' => Requested(e))
  BY DEF PlanArrives, Requested, Idle, server
<1>3. CASE e # d
  BY <1>1, <1>2, <1>3, Undisturbed DEF PlanArrives, TypeOK
<1>4. CASE e = d
  <2>1. /\ plan[e].fetch = "read"
        /\ plan'[e].data = plan[e].reply /\ plan'[e].fetch = "idle" /\ plan'[e].reply = Undefined
    BY <1>1, <1>4, Typed, QueryFields DEF PlanArrives, TypeOK
  <2>2. \/ job'[e] = job[e] /\ ~(e = date /\ ~inProgress /\ Busy(plan[e].reply) /\ Stale("job", job, e))
        \/ /\ Busy(plan[e].reply)
           /\ job'[e].data = job[e].data /\ job'[e].fetch = "sent" /\ job'[e].reply = Undefined
    BY <1>1, <1>4, Typed, QueryFields DEF PlanArrives, TypeOK
  <2>3. Ordered(e)'
    <3>1. Held(e)' \subseteq Held(e) \cup {Undefined}
      BY <2>1, <2>2 DEF Held
    <3>2. /\ plan'[e].fetch # "part" /\ job'[e].fetch # "part"
          /\ \A x \in {job'[e].data, job'[e].reply} : x # Undefined => x.status # "none"
          /\ plan'[e].fetch \in {"idle", "sent"} => plan'[e].reply = Undefined
      BY <1>1, <2>1, <2>2 DEF Known, Ordered
    <3>3. Busy(plan'[e].data) \/ Busy(plan'[e].reply) \/ job'[e].fetch # "idle" => row[e].status # "none"
      BY <1>1, <2>1, <2>2 DEF Known, Ordered, Busy
    <3> QED
      BY <1>1, <1>2, <3>1, <3>2, <3>3 DEF Known, Ordered
  <2>4. NothingCached(e)'
    BY <1>1, <1>2, <2>1, <2>2 DEF Known, NothingCached, Busy
  <2>5. FreshIsLatest(e)'
    BY <1>1, <1>2, <2>2 DEF Known, FreshIsLatest
  <2>6. PollIsLatest(e)'
    BY <1>1, <1>2, <2>1, <2>2 DEF Known, PollIsLatest, FreshIsLatest, Stale, inProgress
  <2> QED
    BY <2>3, <2>4, <2>5, <2>6 DEF Known
<1> QED
  BY <1>3, <1>4

\* A stored plan that could not be read leaves what is held.
LEMMA PlanFailsKnown ==
    ASSUME PanelInv, NEW d \in Dates, PlanFails(d), NEW e \in Dates
    PROVE  Known(e)'
<1>1. TypeOK /\ Known(e)
  BY DEF PanelInv, TypeOK
<1>2. UNCHANGED << row, queue, date, job, fresh >> /\ (Requested(e)' => Requested(e))
  BY DEF PlanFails, Requested, Idle, server
<1>3. CASE e # d
  BY <1>1, <1>2, <1>3, Undisturbed DEF PlanFails, TypeOK
<1>4. CASE e = d
  <2>1. plan'[e].data = plan[e].data /\ plan'[e].fetch = "idle" /\ plan'[e].reply = Undefined
    BY <1>1, <1>4, Typed, QueryFields DEF PlanFails, TypeOK
  <2>2. Ordered(e)'
    BY <1>1, <1>2, <2>1 DEF Known, Ordered, Held, Busy
  <2>3. NothingCached(e)'
    BY <1>1, <1>2, <1>4, <2>1 DEF Known, NothingCached
  <2> QED
    BY <1>1, <1>2, <1>4, <2>1, <2>2, <2>3 DEF Known, FreshIsLatest, PollIsLatest
<1> QED
  BY <1>3, <1>4

\* A poll brings the latest row; the stored plan is refetched when that is an answer.
LEMMA PollArrivesKnown ==
    ASSUME PanelInv, NEW d \in Dates, PollArrives(d), NEW e \in Dates
    PROVE  Known(e)'
<1>1. TypeOK /\ Known(e) /\ date \in Dates
  BY DEF PanelInv, TypeOK
<1>2. UNCHANGED << row, queue, date, generate >>
  BY DEF PollArrives, server
<1>3. \/ plan' = plan
      \/ d = date /\ RefetchPlan
  BY DEF PollArrives
<1>4. CASE e # d
  <2>1. plan'[e] = plan[e] /\ job'[e] = job[e]
    BY <1>1, <1>3, <1>4 DEF RefetchPlan, PollArrives, TypeOK
  <2>2. << "job", e >> \in fresh' => << "job", e >> \in fresh
    BY <1>4 DEF PollArrives
  <2> QED
    BY <1>1, <1>2, <2>1, <2>2, Undisturbed DEF Requested
<1>5. CASE e = d
  <2>1. /\ job[e].fetch = "read"
        /\ job'[e].data = job[e].reply /\ job'[e].fetch = "idle" /\ job'[e].reply = Undefined
    BY <1>1, <1>5, Typed, QueryFields DEF PollArrives, TypeOK
  <2>2. \/ plan'[e] = plan[e]
        \/ plan'[e].data = plan[e].data /\ plan'[e].fetch = "sent" /\ plan'[e].reply = Undefined
    BY <1>1, <1>3, <1>5, Typed, QueryFields DEF RefetchPlan, Invalidate, TypeOK
  <2>3. ~Requested(e)
    BY <1>1, <2>1 DEF Known, NothingCached
  <2>4. Ordered(e)'
    <3>1. Held(e)' \subseteq Held(e) \cup {Undefined}
      BY <2>1, <2>2 DEF Held
    <3>2. /\ plan'[e].fetch # "part" /\ job'[e].fetch # "part"
          /\ \A x \in {job'[e].data, job'[e].reply} : x # Undefined => x.status # "none"
          /\ plan'[e].fetch \in {"idle", "sent"} => plan'[e].reply = Undefined
      BY <1>1, <2>1, <2>2 DEF Known, Ordered
    <3>3. Busy(plan'[e].data) \/ Busy(plan'[e].reply) \/ job'[e].fetch # "idle" => row[e].status # "none"
      BY <1>1, <2>1, <2>2 DEF Known, Ordered, Busy
    <3> QED
      BY <1>1, <1>2, <3>1, <3>2, <3>3 DEF Known, Ordered
  <2>5. FreshIsLatest(e)' /\ PollIsLatest(e)'
    BY <1>1, <1>2, <2>1 DEF Known, FreshIsLatest, PollIsLatest
  <2> QED
    BY <1>2, <2>3, <2>4, <2>5 DEF Known, NothingCached, Requested
<1> QED
  BY <1>4, <1>5

\* A poll that fails leaves a job in progress to poll again, or a date that is not selected.
LEMMA PollFailsKnown ==
    ASSUME Patience, PanelInv, NEW d \in Dates, PollFails(d), NEW e \in Dates
    PROVE  Known(e)'
<1>1. TypeOK /\ Known(e)
  BY DEF PanelInv
<1>2. UNCHANGED << row, queue, date, plan, fresh, generate >>
  BY DEF PollFails, server
<1>3. d # date \/ Busy(job[d].data)
  <2>1. Counting({IF d # date \/ Busy(job[d].data) THEN "lost" ELSE "deaf"})
    BY DEF PollFails, Count
  <2> QED
    BY <1>1, <2>1, CountingType DEF TypeOK
<1>4. CASE e # d
  BY <1>1, <1>2, <1>4, Undisturbed DEF PollFails, TypeOK, Requested
<1>5. CASE e = d
  <2>1. /\ job[e].fetch # "idle"
        /\ job'[e].data = job[e].data /\ job'[e].fetch = "idle" /\ job'[e].reply = Undefined
    BY <1>1, <1>5, Typed, QueryFields DEF PollFails, TypeOK
  <2>2. Ordered(e)'
    BY <1>1, <1>2, <2>1 DEF Known, Ordered, Held
  <2>3. NothingCached(e)' /\ FreshIsLatest(e)'
    BY <1>1, <1>2, <2>1 DEF Known, NothingCached, FreshIsLatest, Requested
  <2>4. PollIsLatest(e)'
    BY <1>2, <1>3, <1>5, <2>1 DEF PollIsLatest, Busy, Terminal
  <2> QED
    BY <2>2, <2>3, <2>4 DEF Known
<1> QED
  BY <1>4, <1>5

\* Every step keeps the invariant.
LEMMA InvStep == Patience /\ PanelInv /\ [Next]_vars => PanelInv'
<1> SUFFICES ASSUME Patience, PanelInv, [Next]_vars PROVE PanelInv'
  OBVIOUS
<1>1. TypeOK'
  BY TypeStep DEF PanelInv
<1>2. ASSUME NEW e \in Dates PROVE Known(e)'
  <2>1. CASE Age \/ UNCHANGED vars
    <3>1. UNCHANGED << row, queue, date, plan, job, generate >> /\ fresh' \subseteq fresh
      BY <2>1 DEF Age, vars, server
    <3> QED
      BY <3>1, Undisturbed DEF PanelInv, Requested
  <2>2. CASE User
    BY <2>2, ClickKnown, SelectKnown DEF User
  <2>3. CASE Server
    BY <2>3, GeneratePlanKnown, ReadKnown, WorkKnown DEF Server
  <2>4. CASE Panel
    BY <2>4, SucceedsKnown, FailsKnown, PollKnown, PlanArrivesKnown, PlanFailsKnown,
       PollArrivesKnown, PollFailsKnown DEF Panel
  <2> QED
    BY <2>1, <2>2, <2>3, <2>4 DEF Next
<1> QED
  BY <1>1, <1>2 DEF PanelInv

-----------------------------------------------------------------------------
(* What is held of the latest request.                                     *)

\* It is the row itself, unless it looks in progress or the row was written again after
\* an answer had been read.
LatestIsRow(d) ==
    \/ d \in overtaken
    \/ \A x \in Held(d) : x # Undefined /\ x.version = row[d].version /\ ~Busy(x) => x = row[d]

\* The stored plan, or the reply that brings it, is of the latest request, unless the
\* panel has missed it.  Only a date that is not selected has nothing loaded.
StoredIsLatest(d) ==
    d \notin unseen /\ ~Stored(d) =>
        /\ plan[d].fetch = "idle" =>
              IF plan[d].data = Undefined THEN d # date
                                          ELSE plan[d].data.version = row[d].version
        /\ plan[d].fetch = "read" =>
              plan[d].reply # Undefined /\ plan[d].reply.version = row[d].version

RestInv == PanelInv /\ \A d \in Dates : LatestIsRow(d) /\ StoredIsLatest(d)

\* What a step does to a row and to what is held of it: it brings nothing but the row, it
\* takes the row to the next request, or it writes the row of one that was requested.
Reads(e) == row'[e] = row[e] /\ Held(e)' \subseteq Held(e) \cup {Undefined, row[e]}
Writing(e) ==
    /\ row[e].version > 0 /\ row'[e].version = row[e].version
    /\ \/ row'[e] = row[e] \/ e \in overtaken'
       \/ \A x \in Held(e) : ~(Terminal(x) /\ x.version = row[e].version)

LEMMA HeldStep ==
    ASSUME TypeOK, [Next]_vars, NEW e \in Dates
    PROVE  \/ Held(e)' = Held(e) /\ row'[e] = Queued(row[e])
           \/ /\ Reads(e) \/ (Held(e)' = Held(e) /\ Writing(e))
              /\ e \in overtaken => e \in overtaken'
<1>1. /\ plan[e] \in Query(Row, Row) /\ job[e] \in Query(Row, Row) /\ date \in Dates
      /\ row[e] \in Row
  BY Typed DEF TypeOK
<1>2. ASSUME \/ plan'[e] = plan[e]
             \/ plan'[e] \in {Fetch(plan[e]), Invalidate(Fetch(plan[e])), Invalidate(plan[e]),
                              Receive(plan[e]), GiveUp(plan[e]), Answer(plan[e], row[e])},
             \/ job'[e] = job[e]
             \/ job'[e] \in {Fetch(job[e]), Receive(job[e]), GiveUp(job[e]), Answer(job[e], row[e])}
      PROVE  Held(e)' \subseteq Held(e) \cup {Undefined, row[e]}
  <2>1. Fetch(plan[e]) \in Query(Row, Row)
    BY <1>1, QueryTypes
  <2>2. \A q \in Query(Row, Row) :
           /\ Invalidate(q).data = q.data /\ Invalidate(q).reply \in {q.reply, Undefined}
           /\ Fetch(q).data = q.data /\ Fetch(q).reply = Undefined
           /\ Receive(q).data = q.reply /\ Receive(q).reply = Undefined
           /\ GiveUp(q).data = q.data /\ GiveUp(q).reply = Undefined
           /\ Answer(q, row[e]).data = q.data /\ Answer(q, row[e]).reply = row[e]
    BY <1>1, QueryFields DEF Invalidate
  <2>3. /\ plan'[e].data \in {plan[e].data, plan[e].reply}
        /\ plan'[e].reply \in {plan[e].reply, Undefined, row[e]}
    BY <1>1, <1>2, <2>1, <2>2
  <2>4. /\ job'[e].data \in {job[e].data, job[e].reply}
        /\ job'[e].reply \in {job[e].reply, Undefined, row[e]}
    BY <1>1, <1>2, <2>2
  <2> QED
    BY <2>3, <2>4 DEF Held
<1>3. CASE GeneratePlan \/ GenerateFails
  <2>1. UNCHANGED << plan, job >> /\ generate.of \in Dates
    BY <1>3, MutationType DEF GeneratePlan, GenerateFails, TypeOK
  <2>2. \/ row' = row /\ overtaken' = overtaken
        \/ /\ row' = [row EXCEPT ![generate.of] = Queued(row[generate.of])]
           /\ overtaken' = overtaken \ {generate.of}
    BY <1>3 DEF GeneratePlan, GenerateFails, UpsertPlanQueued
  <2>3. \/ row'[e] = row[e] /\ (e \in overtaken => e \in overtaken')
        \/ row'[e] = Queued(row[e])
    BY <2>1, <2>2 DEF TypeOK
  <2> QED
    BY <2>1, <2>3 DEF Held, Reads
<1>4. ASSUME NEW d \in Dates, Work(d) \/ WorkAgain(d)
      PROVE  /\ Reads(e) \/ (Held(e)' = Held(e) /\ Writing(e))
             /\ e \in overtaken => e \in overtaken'
  <2>1. UNCHANGED << plan, job >> /\ row[d].version > 0
    BY <1>4, Writes DEF Work, WorkAgain
  <2>2. PICK r \in Row : r.version = row[d].version /\ Write(d, r)
    BY <1>4, Writes
  <2>3. /\ row' = [row EXCEPT ![d] = r]
        /\ overtaken' = IF r # row[d] /\ \E x \in Held(d) : Terminal(x) /\ x.version = row[d].version
                        THEN overtaken \cup {d} ELSE overtaken
    BY <2>2 DEF Write
  <2>4. Held(e)' = Held(e) /\ (e \in overtaken => e \in overtaken')
    BY <2>1, <2>3 DEF Held
  <2>5. CASE e # d
    BY <2>3, <2>4, <2>5 DEF Reads, TypeOK
  <2>6. CASE e = d
    <3>1. row'[e] = r
      BY <2>3, <2>6 DEF TypeOK
    <3> QED
      BY <2>1, <2>2, <2>3, <2>4, <2>6, <3>1 DEF Writing
  <2> QED
    BY <2>4, <2>5, <2>6
<1>5. ASSUME NEW d \in Dates,
             \/ GetPlanByDate(d) \/ GetPlanJob(d) \/ Select(d)
             \/ PlanArrives(d) \/ PlanFails(d) \/ PollFails(d)
      PROVE  Reads(e) /\ overtaken' = overtaken
  BY <1>2, <1>5 DEF GetPlanByDate, GetPlanJob, Select, PlanArrives, PlanFails, PollFails,
                    server, Reads, TypeOK
<1>6. ASSUME NEW d \in Dates, PollArrives(d)
      PROVE  Reads(e) /\ overtaken' = overtaken
  BY <1>1, <1>2, <1>6 DEF PollArrives, RefetchPlan, server, Reads, TypeOK
<1>7. CASE GenerateSucceeds \/ Poll
  BY <1>1, <1>2, <1>7 DEF GenerateSucceeds, Poll, server, Reads, TypeOK
<1>8. CASE ClickGenerate \/ Age \/ UNCHANGED vars
  BY <1>8 DEF ClickGenerate, Age, vars, server, Reads, Held
<1> QED
  BY <1>3, <1>4, <1>5, <1>6, <1>7, <1>8 DEF Next, User, Server, Panel

\* What is held of the latest request stays the row: a row that is written has been
\* overtaken, or no answer to its request was held.
LEMMA LatestStep ==
    ASSUME PanelInv, [Next]_vars, NEW e \in Dates, LatestIsRow(e)
    PROVE  LatestIsRow(e)'
<1>1. TypeOK /\ Ordered(e)
  BY DEF PanelInv, Known
<1>2. /\ row[e] \in Row /\ row[e].version \in Nat
      /\ row[e].status = "none" <=> row[e].version = 0
  BY <1>1, Typed
<1>3. \A x \in Held(e) : x # Undefined => x \in Row /\ x.version \in Nat /\ x.version <= row[e].version
  BY <1>1, Typed, QueryFields DEF Held, Ordered, Row
<1>4. CASE Reads(e) /\ (e \in overtaken => e \in overtaken')
  BY <1>4 DEF LatestIsRow, Reads, Busy
<1>5. CASE Held(e)' = Held(e) /\ row'[e] = Queued(row[e])
  <2>1. row'[e].version = row[e].version + 1
    BY <1>2, <1>5, QueuedType
  <2> QED
    BY <1>2, <1>3, <1>5, <2>1 DEF LatestIsRow
<1>6. CASE Held(e)' = Held(e) /\ Writing(e) /\ (e \in overtaken => e \in overtaken')
  <2>1. CASE row'[e] = row[e] \/ e \in overtaken'
    BY <1>6, <2>1 DEF LatestIsRow
  <2>2. CASE e \notin overtaken /\ \A x \in Held(e) : ~(Terminal(x) /\ x.version = row[e].version)
    <3>1. ASSUME NEW x \in Held(e), x # Undefined, x.version = row[e].version, ~Busy(x) PROVE FALSE
      <4>1. x = row[e] /\ row[e].status # "none"
        BY <1>2, <1>6, <2>2, <3>1 DEF LatestIsRow, Writing
      <4>2. Terminal(x)
        BY <1>2, <3>1, <4>1 DEF Terminal, Busy, Row
      <4> QED
        BY <2>2, <3>1, <4>2
    <3> QED
      BY <1>6, <3>1 DEF LatestIsRow, Writing
  <2> QED
    BY <1>6, <2>1, <2>2 DEF Writing
<1> QED
  BY <1>1, <1>4, <1>5, <1>6, HeldStep

\* A step that leaves the stored plan alone.
LEMMA StoredKept ==
    ASSUME NEW e \in Dates, StoredIsLatest(e), plan'[e] = plan[e],
           e \in unseen => e \in unseen', Stored(e) => Stored(e)' \/ e \in unseen',
           row'[e].version = row[e].version \/ Stored(e)' \/ e \in unseen',
           date' = e => date = e \/ plan[e].fetch # "idle" \/ plan[e].data # Undefined
    PROVE  StoredIsLatest(e)'
  BY DEF StoredIsLatest

\* A step that refetches it.
LEMMA StoredRefetched ==
    ASSUME NEW e \in Dates, plan'[e].fetch = "sent"
    PROVE  StoredIsLatest(e)'
  BY DEF StoredIsLatest

\* What the user does.
LEMMA StoredUser ==
    ASSUME TypeOK, User, NEW e \in Dates, StoredIsLatest(e)
    PROVE  StoredIsLatest(e)'
<1>1. CASE ClickGenerate
  BY <1>1, StoredKept DEF ClickGenerate, server, isWorking, Stored, Idle
<1>2. ASSUME NEW d \in Dates, Select(d) PROVE StoredIsLatest(e)'
  <2>1. UNCHANGED row /\ date' = d /\ unseen \ {d} \subseteq unseen'
    BY <1>2 DEF Select, server
  <2>2. Stored(e) => Stored(e)'
    BY <1>2 DEF Select, Stored
  <2>3. CASE e # d
    <3>1. plan'[e] = plan[e]
      BY <1>2, <2>3 DEF Select, TypeOK
    <3> QED
      BY <2>1, <2>2, <2>3, <3>1, StoredKept
  <2>4. CASE e = d /\ (Stale("plan", plan, d) \/ Terminal(job[d].data))
    <3>1. plan'[e] = Invalidate(Fetch(plan[e])) /\ Fetch(plan[e]) \in Query(Row, Row)
      BY <1>2, <2>4, Typed, QueryTypes DEF Select, TypeOK
    <3>2. plan'[e].fetch = "sent"
      BY <3>1, Typed, QueryFields DEF Invalidate
    <3> QED
      BY <3>2, StoredRefetched
  <2>5. CASE e = d /\ ~(Stale("plan", plan, d) \/ Terminal(job[d].data))
    <3>1. plan' = plan /\ unseen' = unseen
      BY <1>2, <2>5 DEF Select
    <3>2. plan[e].fetch # "idle" \/ plan[e].data # Undefined
      BY <2>5 DEF Stale
    <3> QED
      BY <2>1, <2>2, <3>1, <3>2, StoredKept
  <2> QED
    BY <2>3, <2>4, <2>5
<1> QED
  BY <1>1, <1>2 DEF User

\* What the server and the worker do: a new request is stored, and its answer will be on
\* its way; an answered row is of the same request.
LEMMA StoredServer ==
    ASSUME TypeOK, Server, NEW e \in Dates, StoredIsLatest(e)
    PROVE  StoredIsLatest(e)'
<1>1. CASE GeneratePlan
  <2>1. generate.at = "sent" /\ generate.of \in Dates /\ generate \in Mutation
    BY <1>1, MutationType DEF GeneratePlan, TypeOK
  <2>2. generate'.at = "stored" /\ generate'.of = generate.of
    BY <1>1, <2>1 DEF GeneratePlan, Mutation
  <2>3. row'[e] = row[e] \/ Stored(e)'
    BY <1>1, <2>1, <2>2 DEF GeneratePlan, UpsertPlanQueued, Stored, TypeOK
  <2> QED
    BY <1>1, <2>1, <2>3, StoredKept DEF GeneratePlan, Stored
<1>2. ASSUME NEW d \in Dates, GetPlanByDate(d) PROVE StoredIsLatest(e)'
  <2>1. UNCHANGED << row, date, generate, unseen >>
    BY <1>2 DEF GetPlanByDate, server
  <2>2. CASE e = d
    <3>1. plan'[e].fetch = "read" /\ plan'[e].reply = row[e] /\ row[e] # Undefined
      BY <1>2, <2>2, Typed, QueryFields DEF GetPlanByDate, TypeOK
    <3> QED
      BY <2>1, <3>1 DEF StoredIsLatest
  <2>3. CASE e # d
    BY <1>2, <2>1, <2>3, StoredKept DEF GetPlanByDate, Stored, TypeOK
  <2> QED
    BY <2>2, <2>3
<1>3. ASSUME NEW d \in Dates, GetPlanJob(d) PROVE StoredIsLatest(e)'
  BY <1>3, StoredKept DEF GetPlanJob, server, Stored
<1>4. ASSUME NEW d \in Dates, Work(d) \/ WorkAgain(d) PROVE StoredIsLatest(e)'
  <2>1. UNCHANGED << date, plan, generate, unseen >>
    BY <1>4 DEF Work, WorkAgain
  <2>2. PICK r \in Row : r.version = row[d].version /\ row' = [row EXCEPT ![d] = r]
    BY <1>4, Writes DEF Write
  <2>3. row'[e].version = row[e].version
    BY <2>2 DEF TypeOK
  <2> QED
    BY <2>1, <2>3, StoredKept DEF Stored
<1> QED
  BY <1>1, <1>2, <1>3, <1>4 DEF Server

\* What the panel does: a change that it does not refetch for has been missed.
LEMMA StoredPanel ==
    ASSUME TypeOK, Panel, NEW e \in Dates, StoredIsLatest(e)
    PROVE  StoredIsLatest(e)'
<1>0. date \in Dates /\ generate \in Mutation
  BY DEF TypeOK
<1>1. ASSUME plan'[date] = Invalidate(plan[date]), ~FirstLoad(plan[date]), e = date
      PROVE  StoredIsLatest(e)'
  <2>1. plan'[e].fetch = "sent"
    BY <1>0, <1>1, Typed, QueryFields DEF Invalidate
  <2> QED
    BY <2>1, StoredRefetched
<1>2. CASE GenerateSucceeds
  <2>1. /\ UNCHANGED << row, date >> /\ plan' = [plan EXCEPT ![date] = Invalidate(plan[date])]
        /\ unseen' = (IF FirstLoad(plan[date]) THEN unseen ELSE unseen \ {date})
                     \cup (IF FirstLoad(plan[date]) \/ date # generate.of THEN {generate.of} ELSE {})
    BY <1>2 DEF GenerateSucceeds, server
  <2>2. CASE e # date \/ FirstLoad(plan[date])
    <3>1. plan'[e] = plan[e] /\ (e \in unseen => e \in unseen') /\ (Stored(e) => e \in unseen')
      BY <1>0, <2>1, <2>2 DEF TypeOK, Invalidate, Stored
    <3> QED
      BY <2>1, <3>1, StoredKept
  <2>3. CASE e = date /\ ~FirstLoad(plan[date])
    BY <1>0, <1>1, <2>1, <2>3 DEF TypeOK
  <2> QED
    BY <2>2, <2>3
<1>3. CASE GenerateFails
  <2>1. UNCHANGED << date, plan >> /\ generate.of \in Dates /\ unseen \subseteq unseen'
        /\ (Stored(e) => e \in unseen')
    BY <1>0, <1>3, MutationType DEF GenerateFails, Stored
  <2>2. row'[e] = row[e] \/ e \in unseen'
    BY <1>3, <2>1 DEF GenerateFails, UpsertPlanQueued, TypeOK
  <2> QED
    BY <2>1, <2>2, StoredKept
<1>4. CASE Poll
  BY <1>4, StoredKept DEF Poll, server, Stored
<1>5. ASSUME NEW d \in Dates, PlanArrives(d) PROVE StoredIsLatest(e)'
  <2>1. UNCHANGED << row, date, unseen >> /\ (Stored(e) => Stored(e)')
    BY <1>5, SettlingIsNotStored DEF PlanArrives, server, Stored
  <2>2. CASE e # d
    BY <1>5, <2>1, <2>2, StoredKept DEF PlanArrives, TypeOK
  <2>3. CASE e = d
    <3>1. plan[e].fetch = "read" /\ plan'[e].data = plan[e].reply /\ plan'[e].fetch = "idle"
      BY <1>5, <2>3, Typed, QueryFields DEF PlanArrives, TypeOK
    <3> QED
      BY <2>1, <3>1 DEF StoredIsLatest
  <2> QED
    BY <2>2, <2>3
<1>6. ASSUME NEW d \in Dates, PlanFails(d) PROVE StoredIsLatest(e)'
  <2>1. UNCHANGED << row, date >> /\ unseen' = unseen \cup {d} /\ (Stored(e) => Stored(e)')
    BY <1>6, SettlingIsNotStored DEF PlanFails, server, Stored
  <2>2. CASE e # d
    BY <1>6, <2>1, <2>2, StoredKept DEF PlanFails, TypeOK
  <2>3. CASE e = d
    BY <2>1, <2>3 DEF StoredIsLatest
  <2> QED
    BY <2>2, <2>3
<1>7. ASSUME NEW d \in Dates, PollArrives(d) PROVE StoredIsLatest(e)'
  <2>1. UNCHANGED << row, date >> /\ (Stored(e) => Stored(e)')
    BY <1>7 DEF PollArrives, server, Stored
  <2>2. UNCHANGED << plan, unseen >> \/ RefetchPlan
    BY <1>7 DEF PollArrives
  <2>3. CASE e # date \/ FirstLoad(plan[date])
    <3>1. plan'[e] = plan[e] /\ (e \in unseen => e \in unseen')
      BY <1>0, <2>2, <2>3 DEF RefetchPlan, Invalidate, TypeOK
    <3> QED
      BY <2>1, <3>1, StoredKept
  <2>4. CASE e = date /\ ~FirstLoad(plan[date]) /\ RefetchPlan
    BY <1>0, <1>1, <2>4 DEF RefetchPlan, TypeOK
  <2>5. CASE UNCHANGED << plan, unseen >>
    BY <2>1, <2>5, StoredKept
  <2> QED
    BY <2>2, <2>3, <2>4, <2>5
<1>8. ASSUME NEW d \in Dates, PollFails(d) PROVE StoredIsLatest(e)'
  BY <1>8, StoredKept DEF PollFails, server, Stored
<1> QED
  BY <1>2, <1>3, <1>4, <1>5, <1>6, <1>7, <1>8 DEF Panel

\* Every step keeps the invariant.
LEMMA RestStep == Patience /\ RestInv /\ [Next]_vars => RestInv'
<1> SUFFICES ASSUME Patience, RestInv, [Next]_vars PROVE RestInv'
  OBVIOUS
<1>1. PanelInv' /\ TypeOK
  BY InvStep DEF RestInv, PanelInv
<1>2. ASSUME NEW e \in Dates PROVE LatestIsRow(e)'
  BY LatestStep DEF RestInv
<1>3. ASSUME NEW e \in Dates PROVE StoredIsLatest(e)'
  <2>1. StoredIsLatest(e)
    BY DEF RestInv
  <2>2. CASE Age \/ UNCHANGED vars
    <3>1. UNCHANGED << row, date, plan, generate, unseen >>
      BY <2>2 DEF Age, vars, server
    <3> QED
      BY <2>1, <3>1, StoredKept DEF Stored
  <2>3. CASE User \/ Server \/ Panel
    BY <1>1, <2>1, <2>3, StoredUser, StoredServer, StoredPanel
  <2> QED
    BY <2>2, <2>3 DEF Next
<1> QED
  BY <1>1, <1>2, <1>3 DEF RestInv

\* Nothing is loaded when the panel is mounted.
LEMMA RestInit == Init => RestInv
<1> SUFFICES ASSUME Init, NEW d \in Dates PROVE LatestIsRow(d) /\ StoredIsLatest(d)
  BY InvInit DEF RestInv
<1>1. /\ Held(d) = {Undefined} /\ plan[d].fetch \in {"idle", "sent"}
      /\ plan[d].fetch = "idle" => d # date /\ plan[d].data = Undefined
  BY DEF Init, Held, Mounted, Unused
<1> QED
  BY <1>1 DEF LatestIsRow, StoredIsLatest

\* An enabled poll that is over has brought the answer the row has.
LEMMA PollBrings ==
    ASSUME RestInv, inProgress, job[date].fetch = "idle", ~Busy(job[date].data),
           date \notin overtaken
    PROVE  Terminal(job[date].data) /\ job[date].data = row[date]
<1>1. TypeOK /\ date \in Dates /\ Known(date) /\ LatestIsRow(date)
  BY DEF RestInv, PanelInv, TypeOK
<1>2. /\ job[date].data # Undefined
      /\ Terminal(job[date].data) => job[date].data.version = row[date].version
  BY <1>1 DEF Known, PollIsLatest, inProgress
<1>3. Terminal(job[date].data)
  BY <1>1, <1>2, Typed, QueryFields DEF Known, Ordered, Busy, Terminal, Row
<1> QED
  BY <1>1, <1>2, <1>3 DEF LatestIsRow, Held

\* So the poll goes on until then.
LEMMA RestPolls == RestInv => PollingKicksIn
  BY PollBrings DEF PollingKicksIn

\* At rest the stored plan is of the latest request, and so is the poll if it is shown.
LEMMA RestShows == RestInv => QuietShowsRow
<1> SUFFICES ASSUME RestInv, Quiet, date \notin Missed PROVE Shown = row[date]
  BY DEF QuietShowsRow
<1>1. TypeOK /\ date \in Dates /\ LatestIsRow(date) /\ StoredIsLatest(date)
  BY DEF RestInv, PanelInv, TypeOK
<1>2. ~Stored(date) /\ date \notin unseen /\ date \notin overtaken
  BY DEF Quiet, Stored, Idle, Missed
<1>3. plan[date].data # Undefined /\ plan[date].data.version = row[date].version
  BY <1>1, <1>2 DEF StoredIsLatest, Quiet
<1>4. CASE inProgress
  BY <1>2, <1>4, PollBrings DEF Quiet, Shown, Terminal
<1>5. CASE ~inProgress
  BY <1>1, <1>2, <1>3, <1>5 DEF Shown, LatestIsRow, Held, inProgress
<1> QED
  BY <1>4, <1>5

\* plan-panel.tsx:62, :87: as long as nobody regenerates in haste and no poll fails with
\* nothing to show, a stored plan that looks in progress is polled until the poll has
\* brought the answer the row has, for any number of dates, requests, overlapping and
\* repeated jobs, losses and changes of the date.  Only a row written again after an
\* answer had been read escapes.
THEOREM PollingGoesOn ==
    ASSUME Patience
    PROVE  Spec => []PollingKicksIn
<1>1. RestInv /\ [Next]_vars => RestInv'
  BY RestStep
<1> QED
  BY <1>1, RestInit, RestPolls, PTL DEF Spec

\* plan-panel.tsx:92: on the same terms a panel at rest that has missed no change shows
\* the stored row, whichever job wrote it last.
THEOREM RestingPanelIsRight ==
    ASSUME Patience
    PROVE  Spec => []QuietShowsRow
<1>1. RestInv /\ [Next]_vars => RestInv'
  BY RestStep
<1> QED
  BY <1>1, RestInit, RestShows, PTL DEF Spec

=============================================================================
