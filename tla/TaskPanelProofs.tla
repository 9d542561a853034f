-------------------------- MODULE TaskPanelProofs ---------------------------
(***************************************************************************)
(* Theorems about TaskPanel, for any number of tasks, failures and         *)
(* rankings.                                                               *)
(***************************************************************************)
EXTENDS TaskPanel, TLAPS

Now == [completed |-> Having(tasks, "completed"), pending |-> Having(tasks, "pending"),
        trend |-> Having(tasks, "completed")]

\* The server has changed nothing that the panel has not been told of.
Told == create # "stored" /\ change.at # "stored"

\* Why the list is right: a read under way that was made before a change has been
\* cancelled by the success of the change.
TasksKnown ==
    /\ tasksQuery.fetch # "part"
    /\ Told /\ "tasks" \notin unseen =>
          /\ tasksQuery.fetch = "idle" => tasksQuery.data = tasks
          /\ tasksQuery.fetch = "read" => tasksQuery.reply = tasks

\* The same of the statistics, whose first half may have been read.
StatsKnown ==
    /\ statsQuery.fetch = "part" => statsQuery.reply \in Stats
    /\ Told /\ "stats" \notin unseen =>
          /\ statsQuery.fetch = "idle" => statsQuery.data = Now
          /\ statsQuery.fetch = "read" => statsQuery.reply = Now
          /\ statsQuery.fetch = "part" => /\ statsQuery.reply.completed = Now.completed
                                          /\ statsQuery.reply.pending = Now.pending

\* Why a ranking is right: a change that succeeds drops the one that is shown and marks
\* the one that is being computed.
RankingKnown ==
    Told /\ unseen = {} =>
        /\ ranking # None /\ ~ranking.raced => ranking.of = Having(tasks, "pending")
        /\ prioritize.at = "asked" /\ ~prioritize.raced => prioritize.of = Having(tasks, "pending")

PanelInv == TypeOK /\ TasksKnown /\ StatsKnown /\ RankingKnown

-----------------------------------------------------------------------------
(* Types.                                                                  *)

\* What the operations of the cache make of a query.
LEMMA QueryTypes ==
    ASSUME NEW Data, NEW q \in Query(Data, Data)
    PROVE  /\ Invalidate(q) \in Query(Data, Data)
           /\ Receive(q) \in Query(Data, Data)
           /\ GiveUp(q) \in Query(Data, Data)
           /\ \A d \in Data : Answer(q, d) \in Query(Data, Data) /\ Partly(q, d) \in Query(Data, Data)
  BY DEF Query, Invalidate, Fetch, FirstLoad, Receive, GiveUp, Answer, Partly

\* What a successful change does to the queries and the ranking.
LEMMA RefreshType ==
    ASSUME TypeOK, Refresh
    PROVE  /\ tasksQuery' \in Query(Table, Table)
           /\ statsQuery' \in Query(Stats, Stats)
           /\ ranking' = None
           /\ prioritize' \in [at : {"idle", "sent", "asked"}, of : SUBSET Tasks, raced : BOOLEAN]
           /\ unseen' \in SUBSET {"tasks", "stats"}
<1>1. tasksQuery' \in Query(Table, Table) /\ statsQuery' \in Query(Stats, Stats)
  BY QueryTypes DEF TypeOK, Refresh
<1> QED
  BY <1>1 DEF TypeOK, Refresh

\* The panel is mounted in a typed state.
LEMMA TypeInit == Init => TypeOK
  BY DEF Init, TypeOK, Table, Query, Mounted, NoChange, NotRanking

\* The user's clicks keep the types.
LEMMA UserType == TypeOK /\ User => TypeOK'
<1> SUFFICES ASSUME TypeOK, User PROVE TypeOK'
  OBVIOUS
<1>1. CASE Add
  BY <1>1 DEF Add, TypeOK
<1>2. CASE Prioritize
  BY <1>2 DEF Prioritize, TypeOK, Count
<1>3. ASSUME NEW t \in Tasks, NEW status \in {"pending", "completed", "deleted"}, ChangeTo(t, status)
      PROVE  TypeOK'
  BY <1>3 DEF ChangeTo, TypeOK
<1> QED
  BY <1>1, <1>2, <1>3 DEF User, Toggle, Remove

\* The server's answers keep the types.
LEMMA ServerType == TypeOK /\ StatsKnown /\ Server => TypeOK'
<1> SUFFICES ASSUME TypeOK, StatsKnown, Server PROVE TypeOK'
  OBVIOUS
<1>1. ASSUME NEW t \in Tasks, CreateTask(t) PROVE TypeOK'
  BY <1>1 DEF CreateTask, TypeOK, Table
<1>2. CASE UpdateTask
  <2>1. change \in [at : {"sent"}, task : Tasks, to : {"pending", "completed", "deleted"}]
    BY <1>2 DEF UpdateTask, TypeOK, NoChange
  <2> QED
    BY <1>2, <2>1 DEF UpdateTask, TypeOK, Table, NoChange
<1>3. CASE ListTasks
  BY <1>3, QueryTypes DEF ListTasks, TypeOK
<1>4. CASE TaskStats
  <2>1. [completed |-> Having(tasks, "completed"), pending |-> Having(tasks, "pending"),
         trend |-> {}] \in Stats
    BY DEF Stats, Having
  <2> QED
    BY <1>4, <2>1, QueryTypes DEF TaskStats, TypeOK
<1>5. CASE CompletionTrend
  <2>1. [statsQuery.reply EXCEPT !.trend = Having(tasks, "completed")] \in Stats
    BY <1>5 DEF CompletionTrend, StatsKnown, Stats, Having
  <2> QED
    BY <1>5, <2>1, QueryTypes DEF CompletionTrend, TypeOK
<1>6. CASE ReadPending
  BY <1>6 DEF ReadPending, TypeOK, NotRanking, Having
<1> QED
  BY <1>1, <1>2, <1>3, <1>4, <1>5, <1>6 DEF Server

\* The panels' steps keep the types.
LEMMA PanelsType == TypeOK /\ Panels => TypeOK'
<1> SUFFICES ASSUME TypeOK, Panels PROVE TypeOK'
  OBVIOUS
<1>1. CASE CreateSucceeds
  <2>1. Refresh
    BY <1>1 DEF CreateSucceeds
  <2> QED
    BY <1>1, <2>1, RefreshType DEF CreateSucceeds, TypeOK
<1>2. CASE ChangeSucceeds
  <2>1. Refresh
    BY <1>2 DEF ChangeSucceeds
  <2>2. change' \in [at : {"settling"}, task : Tasks, to : {"pending", "completed", "deleted"}]
    BY <1>2 DEF ChangeSucceeds, TypeOK, NoChange
  <2> QED
    BY <1>2, <2>1, <2>2, RefreshType DEF ChangeSucceeds, TypeOK
<1>3. CASE CreateLost
  BY <1>3 DEF CreateLost, TypeOK, Count
<1>4. CASE ChangeLost
  BY <1>4 DEF ChangeLost, TypeOK, Count
<1>5. CASE TasksArrive
  BY <1>5, QueryTypes DEF TasksArrive, Settled, TypeOK
<1>6. CASE TasksFail
  BY <1>6, QueryTypes DEF TasksFail, Settled, TypeOK, Count
<1>7. CASE StatsArrive
  BY <1>7, QueryTypes DEF StatsArrive, TypeOK
<1>8. CASE StatsFail
  BY <1>8, QueryTypes DEF StatsFail, TypeOK, Count
<1>9. CASE RankingArrives
  BY <1>9 DEF RankingArrives, TypeOK, NotRanking
<1>10. CASE RankingFails
  BY <1>10 DEF RankingFails, TypeOK, NotRanking
<1> QED
  BY <1>1, <1>2, <1>3, <1>4, <1>5, <1>6, <1>7, <1>8, <1>9, <1>10 DEF Panels

-----------------------------------------------------------------------------
(* The invariant.                                                          *)

\* A mounted panel waits for its first load and has no ranking.
LEMMA InvInit == Init => PanelInv
<1> SUFFICES ASSUME Init PROVE PanelInv
  OBVIOUS
<1>1. TypeOK
  BY TypeInit
<1>2. TasksKnown /\ StatsKnown
  BY DEF Init, Mounted, TasksKnown, StatsKnown
<1>3. RankingKnown
  BY DEF Init, NotRanking, RankingKnown
<1> QED
  BY <1>1, <1>2, <1>3 DEF PanelInv

\* A change that succeeds leaves no read that was made before it, except the first load.
LEMMA RefreshKnown ==
    ASSUME PanelInv, Refresh, UNCHANGED tasks
    PROVE  TasksKnown' /\ StatsKnown' /\ RankingKnown'
<1>1. /\ tasksQuery' = Invalidate(tasksQuery) /\ statsQuery' = Invalidate(statsQuery)
      /\ ranking' = None
      /\ prioritize' = [prioritize EXCEPT !.raced = prioritize.at # "idle"]
      /\ FirstLoad(tasksQuery) => "tasks" \in unseen'
      /\ FirstLoad(statsQuery) => "stats" \in unseen'
  BY DEF Refresh
<1>2. TasksKnown'
  <2>1. CASE FirstLoad(tasksQuery)
    BY <1>1, <2>1 DEF TasksKnown, Invalidate, PanelInv
  <2>2. CASE ~FirstLoad(tasksQuery)
    BY <1>1, <2>2 DEF TasksKnown, Invalidate, Fetch, PanelInv, TypeOK, Query
  <2> QED
    BY <2>1, <2>2
<1>3. StatsKnown'
  <2>1. CASE FirstLoad(statsQuery)
    BY <1>1, <2>1 DEF StatsKnown, Invalidate, PanelInv
  <2>2. CASE ~FirstLoad(statsQuery)
    BY <1>1, <2>2 DEF StatsKnown, Invalidate, Fetch, PanelInv, TypeOK, Query
  <2> QED
    BY <2>1, <2>2
<1>4. RankingKnown'
  BY <1>1 DEF RankingKnown, PanelInv, TypeOK
<1> QED
  BY <1>2, <1>3, <1>4

\* Clicks change nothing that is known.
LEMMA UserKnown == PanelInv /\ User => TasksKnown' /\ StatsKnown' /\ RankingKnown'
<1> SUFFICES ASSUME PanelInv, User PROVE TasksKnown' /\ StatsKnown' /\ RankingKnown'
  OBVIOUS
<1>1. UNCHANGED << tasks, tasksQuery, statsQuery, ranking, unseen >>
  BY DEF User, Add, Prioritize, Toggle, Remove, ChangeTo
<1>2. Told' = Told
  BY DEF User, Add, Prioritize, Toggle, Remove, ChangeTo, Told, PanelInv, TypeOK
<1>3. prioritize' = prioritize \/ prioritize'.at = "sent"
  BY DEF User, Add, Prioritize, Toggle, Remove, ChangeTo
<1> QED
  BY <1>1, <1>2, <1>3 DEF PanelInv, TasksKnown, StatsKnown, RankingKnown, Now

\* A change of the tasks is not told yet, and a read is of the tasks there are.
LEMMA ServerKnown == PanelInv /\ Server => TasksKnown' /\ StatsKnown' /\ RankingKnown'
<1> SUFFICES ASSUME PanelInv, Server PROVE TasksKnown' /\ StatsKnown' /\ RankingKnown'
  OBVIOUS
<1>1. ASSUME NEW t \in Tasks, CreateTask(t) PROVE TasksKnown' /\ StatsKnown' /\ RankingKnown'
  BY <1>1 DEF CreateTask, Told, PanelInv, TasksKnown, StatsKnown, RankingKnown
<1>2. CASE UpdateTask
  <2>1. CASE tasks[change.task] \in {"pending", "completed"}
    <3>1. change'.at = "stored"
      BY <1>2, <2>1 DEF UpdateTask, PanelInv, TypeOK, NoChange
    <3> QED
      BY <1>2, <3>1 DEF UpdateTask, Told, PanelInv, TasksKnown, StatsKnown, RankingKnown
  <2>2. CASE tasks[change.task] \notin {"pending", "completed"}
    <3>1. UNCHANGED << tasks, tasksQuery, statsQuery, ranking, prioritize, unseen >> /\ (Told' => Told)
      BY <1>2, <2>2 DEF UpdateTask, Told, NoChange
    <3> QED
      BY <3>1 DEF PanelInv, TasksKnown, StatsKnown, RankingKnown, Now
  <2> QED
    BY <2>1, <2>2
<1>3. CASE ListTasks
  <2>1. tasksQuery'.fetch = "read" /\ tasksQuery'.reply = tasks
    BY <1>3 DEF ListTasks, Answer, PanelInv, TypeOK, Query
  <2> QED
    BY <1>3, <2>1 DEF ListTasks, Told, PanelInv, TasksKnown, StatsKnown, RankingKnown, Now
<1>4. CASE TaskStats
  <2>1. /\ statsQuery'.fetch = "part"
        /\ statsQuery'.reply = [completed |-> Having(tasks, "completed"),
                                pending |-> Having(tasks, "pending"), trend |-> {}]
    BY <1>4 DEF TaskStats, Partly, PanelInv, TypeOK, Query
  <2>2. statsQuery'.reply \in Stats
    BY <2>1 DEF Stats, Having
  <2> QED
    BY <1>4, <2>1, <2>2 DEF TaskStats, Told, PanelInv, TasksKnown, StatsKnown, RankingKnown, Now
<1>5. CASE CompletionTrend
  <2>1. /\ statsQuery'.fetch = "read"
        /\ statsQuery'.reply = [statsQuery.reply EXCEPT !.trend = Having(tasks, "completed")]
    BY <1>5 DEF CompletionTrend, Answer, PanelInv, TypeOK, Query
  <2>2. /\ statsQuery.reply \in Stats
        /\ Told /\ "stats" \notin unseen => /\ statsQuery.reply.completed = Now.completed
                                            /\ statsQuery.reply.pending = Now.pending
    BY <1>5 DEF CompletionTrend, PanelInv, StatsKnown
  <2>3. Told /\ "stats" \notin unseen => statsQuery'.reply = Now
    BY <2>1, <2>2 DEF Stats, Now
  <2> QED
    BY <1>5, <2>1, <2>3 DEF CompletionTrend, Told, PanelInv, TasksKnown, StatsKnown, RankingKnown, Now
<1>6. CASE ReadPending
  <2>1. prioritize'.at = "asked" => prioritize'.of = Having(tasks, "pending")
    BY <1>6 DEF ReadPending, NotRanking, PanelInv, TypeOK
  <2> QED
    BY <1>6, <2>1 DEF ReadPending, Told, PanelInv, TasksKnown, StatsKnown, RankingKnown, Now
<1> QED
  BY <1>1, <1>2, <1>3, <1>4, <1>5, <1>6 DEF Server

\* What arrives is what was read; what fails is marked.
LEMMA PanelsKnown == PanelInv /\ Panels => TasksKnown' /\ StatsKnown' /\ RankingKnown'
<1> SUFFICES ASSUME PanelInv, Panels PROVE TasksKnown' /\ StatsKnown' /\ RankingKnown'
  OBVIOUS
<1>1. CASE CreateSucceeds \/ ChangeSucceeds
  BY <1>1, RefreshKnown DEF CreateSucceeds, ChangeSucceeds
<1>2. CASE CreateLost \/ ChangeLost
  <2>1. /\ UNCHANGED << tasks, tasksQuery, statsQuery, ranking, prioritize >>
        /\ unseen' = unseen \/ unseen' = {"tasks", "stats"}
        /\ Told' /\ unseen' = unseen => Told \/ unseen' = {"tasks", "stats"}
    BY <1>2 DEF CreateLost, ChangeLost, Told, NoChange
  <2> QED
    BY <2>1 DEF PanelInv, TasksKnown, StatsKnown, RankingKnown, Now
<1>3. Settled => (Told' => Told)
  BY DEF Settled, Told, NoChange
<1>4. CASE TasksArrive
  <2>1. tasksQuery'.fetch = "idle" /\ tasksQuery'.data = tasksQuery.reply
    BY <1>4 DEF TasksArrive, Receive
  <2> QED
    BY <1>3, <1>4, <2>1 DEF TasksArrive, PanelInv, TasksKnown, StatsKnown, RankingKnown, Now
<1>5. CASE TasksFail
  <2>1. tasksQuery'.fetch = "idle" /\ "tasks" \in unseen'
    BY <1>5 DEF TasksFail, GiveUp, PanelInv, TypeOK, Query
  <2> QED
    BY <1>3, <1>5, <2>1 DEF TasksFail, PanelInv, TasksKnown, StatsKnown, RankingKnown, Now
<1>6. CASE StatsArrive
  <2>1. statsQuery'.fetch = "idle" /\ statsQuery'.data = statsQuery.reply
    BY <1>6 DEF StatsArrive, Receive
  <2> QED
    BY <1>6, <2>1 DEF StatsArrive, Told, PanelInv, TasksKnown, StatsKnown, RankingKnown, Now
<1>7. CASE StatsFail
  <2>1. statsQuery'.fetch = "idle" /\ "stats" \in unseen'
    BY <1>7 DEF StatsFail, GiveUp, PanelInv, TypeOK, Query
  <2> QED
    BY <1>7, <2>1 DEF StatsFail, Told, PanelInv, TasksKnown, StatsKnown, RankingKnown, Now
<1>8. CASE RankingArrives
  <2>1. /\ ranking'.of = prioritize.of /\ ranking'.raced = prioritize.raced
        /\ prioritize'.at = "idle"
    BY <1>8 DEF RankingArrives, NotRanking
  <2> QED
    BY <1>8, <2>1 DEF RankingArrives, Told, PanelInv, TasksKnown, StatsKnown, RankingKnown, Now
<1>9. CASE RankingFails
  <2>1. prioritize'.at = "idle"
    BY <1>9 DEF RankingFails, NotRanking
  <2> QED
    BY <1>9, <2>1 DEF RankingFails, Told, PanelInv, TasksKnown, StatsKnown, RankingKnown, Now
<1> QED
  BY <1>1, <1>2, <1>4, <1>5, <1>6, <1>7, <1>8, <1>9 DEF Panels

\* Every step keeps the invariant.
LEMMA InvStep == PanelInv /\ [Next]_vars => PanelInv'
<1> SUFFICES ASSUME PanelInv, [Next]_vars PROVE PanelInv'
  OBVIOUS
<1>1. CASE User
  BY <1>1, UserType, UserKnown DEF PanelInv
<1>2. CASE Server
  BY <1>2, ServerType, ServerKnown DEF PanelInv
<1>3. CASE Panels
  BY <1>3, PanelsType, PanelsKnown DEF PanelInv
<1>4. CASE UNCHANGED vars
  BY <1>4 DEF vars, PanelInv, TypeOK, TasksKnown, StatsKnown, RankingKnown, Told, Now
<1> QED
  BY <1>1, <1>2, <1>3, <1>4 DEF Next

\* The invariant holds.
LEMMA InvHolds == Spec => []PanelInv
  BY InvInit, InvStep, PTL DEF Spec

-----------------------------------------------------------------------------
\* Every variable of the panels keeps its type.
THEOREM TypeCorrect == Spec => []TypeOK
<1>1. PanelInv => TypeOK
  BY DEF PanelInv
<1> QED
  BY <1>1, InvHolds, PTL

\* task-panel.tsx: once no change is on its way, the list that is shown is the tasks
\* there are, however requests, replies and refetches overlapped.
THEOREM ListIsTrue == Spec => []ShownIsTrue
<1>1. PanelInv => ShownIsTrue
  BY DEF PanelInv, TasksKnown, Told, ShownIsTrue, Quiet
<1> QED
  BY <1>1, InvHolds, PTL

\* insights-panel.tsx over service/stats.go: the counts and the trend that are shown end
\* up as one picture of the tasks there are.
THEOREM InsightsAreTrue == Spec => []InsightsSettle
<1>1. PanelInv => InsightsSettle
  BY DEF PanelInv, StatsKnown, Told, Now, InsightsSettle, Quiet
<1> QED
  BY <1>1, InvHolds, PTL

\* task-panel.tsx: a ranking on display that no change raced is of the pending tasks.
THEOREM RankingIsOfPending == Spec => []RankingFollows
<1>1. PanelInv => RankingFollows
  BY DEF PanelInv, RankingKnown, Told, RankingFollows, Quiet
<1> QED
  BY <1>1, InvHolds, PTL

=============================================================================
