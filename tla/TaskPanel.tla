------------------------------ MODULE TaskPanel ------------------------------
(***************************************************************************)
(* The task list of one user: the tasks table behind TaskService, the      *)
(* statistics of StatsService, the ranking of AIService.Prioritize, and    *)
(* the dashboard panels that show them, TaskPanel and InsightsPanel.       *)
(* The panels keep what they were last told and refetch it when one of     *)
(* their own requests has changed the tasks.                               *)
(*                                                                         *)
(* create and change are the two mutations that can be under way at once   *)
(* (the rows are locked while a toggle or a delete is pending); each is    *)
(* idle, sent, stored (the server has done it) or settling (it succeeded   *)
(* and waits for the refetch it caused).                                   *)
(***************************************************************************)
EXTENDS QueryCache, Naturals

CONSTANTS
    Tasks,      \* the ids CreateTask can generate
    None,
    Budget      \* how many requests may fail or be rankings

VARIABLES
    tasks,
    tasksQuery, statsQuery,
    create, change,
    ranking, prioritize,
    unseen,     \* queries that have missed a change of the tasks
    counted     \* what Budget bounds: requests that failed or lost their reply, rankings

vars == << tasks, tasksQuery, statsQuery, create, change, ranking, prioritize, unseen, counted >>

Table == [Tasks -> {"new", "pending", "completed", "deleted"}]

Having(table, status) == { t \in Tasks : table[t] = status }

\* What the counts and the trend of a Stats value were computed from.
Stats == [completed : SUBSET Tasks, pending : SUBSET Tasks, trend : SUBSET Tasks]

NoChange == [at |-> "idle", task |-> None, to |-> None]

TypeOK ==
    /\ tasks \in Table
    /\ tasksQuery \in Query(Table, Table)
    /\ statsQuery \in Query(Stats, Stats)
    /\ create \in {"idle", "sent", "stored", "settling"}
    /\ change \in { NoChange } \cup
          [at : {"sent", "stored", "settling"}, task : Tasks,
           to : {"pending", "completed", "deleted"}]
    /\ ranking \in { None } \cup [of : SUBSET Tasks, raced : BOOLEAN]
    /\ prioritize \in [at : {"idle", "sent", "asked"}, of : SUBSET Tasks, raced : BOOLEAN]
    /\ unseen \in SUBSET {"tasks", "stats"}
    /\ counted \in Nat

NotRanking == [at |-> "idle", of |-> {}, raced |-> FALSE]

Init ==
    /\ tasks \in [Tasks -> {"new", "pending"}]
    /\ tasksQuery = Mounted /\ statsQuery = Mounted
    /\ create = "idle" /\ change = NoChange
    /\ ranking = None /\ prioritize = NotRanking
    /\ unseen = {}
    /\ counted = 0

Count == counted < Budget /\ counted' = counted + 1

-----------------------------------------------------------------------------
(* The user.                                                               *)

Add ==
    /\ create = "idle"
    /\ create' = "sent"
    /\ UNCHANGED << tasks, tasksQuery, statsQuery, change, ranking, prioritize, unseen, counted >>

\* A click on a row that is shown, as it is shown.
ChangeTo(t, status) ==
    /\ change.at = "idle"
    /\ change' = [at |-> "sent", task |-> t, to |-> status]
    /\ UNCHANGED << tasks, tasksQuery, statsQuery, create, ranking, prioritize, unseen, counted >>

Toggle(t) ==
    /\ tasksQuery.data # Undefined
    /\ tasksQuery.data[t] \in {"pending", "completed"}
    /\ ChangeTo(t, IF tasksQuery.data[t] = "completed" THEN "pending" ELSE "completed")

Remove(t) ==
    /\ tasksQuery.data # Undefined
    /\ tasksQuery.data[t] \in {"pending", "completed"}
    /\ ChangeTo(t, "deleted")

Prioritize ==
    /\ tasksQuery.data # Undefined /\ Having(tasksQuery.data, "pending") # {}
    /\ prioritize.at = "idle"
    /\ Count
    /\ prioritize' = [at |-> "sent", of |-> {}, raced |-> FALSE]
    /\ UNCHANGED << tasks, tasksQuery, statsQuery, create, change, ranking, unseen >>

-----------------------------------------------------------------------------
(* The server.                                                             *)

CreateTask(t) ==
    /\ create = "sent" /\ tasks[t] = "new"
    /\ tasks' = [tasks EXCEPT ![t] = "pending"]
    /\ create' = "stored"
    /\ UNCHANGED << tasksQuery, statsQuery, change, ranking, prioritize, unseen, counted >>

\* Mutant: the mutation is over but remembers the row that was gone.
UpdateTaskForgets ==
    /\ change.at = "sent"
    /\ IF tasks[change.task] \in {"pending", "completed"}
       THEN /\ tasks' = [tasks EXCEPT ![change.task] = change.to]
            /\ change' = [change EXCEPT !.at = "stored"]
       ELSE change' = [change EXCEPT !.at = "idle"] /\ UNCHANGED tasks
    /\ UNCHANGED << tasksQuery, statsQuery, create, ranking, prioritize, unseen, counted >>

\* UpdateTask and DeleteTask answer 404 when the row is gone.
UpdateTask ==
    /\ change.at = "sent"
    /\ IF tasks[change.task] \in {"pending", "completed"}
       THEN /\ tasks' = [tasks EXCEPT ![change.task] = change.to]
            /\ change' = [change EXCEPT !.at = "stored"]
       ELSE change' = NoChange /\ UNCHANGED tasks
    /\ UNCHANGED << tasksQuery, statsQuery, create, ranking, prioritize, unseen, counted >>

ListTasks ==
    /\ tasksQuery.fetch = "sent"
    /\ tasksQuery' = Answer(tasksQuery, tasks)
    /\ UNCHANGED << tasks, statsQuery, create, change, ranking, prioritize, unseen, counted >>

\* StatsService.Get runs its queries one after the other.
TaskStats ==
    /\ statsQuery.fetch = "sent"
    /\ statsQuery' = Partly(statsQuery,
           [completed |-> Having(tasks, "completed"), pending |-> Having(tasks, "pending"),
            trend |-> {}])
    /\ UNCHANGED << tasks, tasksQuery, create, change, ranking, prioritize, unseen, counted >>

CompletionTrend ==
    /\ statsQuery.fetch = "part"
    /\ statsQuery' = Answer(statsQuery,
           [statsQuery.reply EXCEPT !.trend = Having(tasks, "completed")])
    /\ UNCHANGED << tasks, tasksQuery, create, change, ranking, prioritize, unseen, counted >>

\* AIService.Prioritize reads the pending tasks; without any it answers 400.
ReadPending ==
    /\ prioritize.at = "sent"
    /\ prioritize' = IF Having(tasks, "pending") = {} THEN NotRanking
                     ELSE [prioritize EXCEPT !.at = "asked", !.of = Having(tasks, "pending")]
    /\ UNCHANGED << tasks, tasksQuery, statsQuery, create, change, ranking, unseen, counted >>

-----------------------------------------------------------------------------
(* The panels.                                                             *)

\* Mutant: the statistics are not invalidated.
RefreshTasksOnly ==
    /\ ranking' = None
    /\ prioritize' = [prioritize EXCEPT !.raced = prioritize.at # "idle"]
    /\ tasksQuery' = Invalidate(tasksQuery)
    /\ unseen' = (IF FirstLoad(tasksQuery) THEN {"tasks"} ELSE {})
    /\ UNCHANGED statsQuery

\* Mutant: the task list is not invalidated.
RefreshStatsOnly ==
    /\ ranking' = None
    /\ prioritize' = [prioritize EXCEPT !.raced = prioritize.at # "idle"]
    /\ statsQuery' = Invalidate(statsQuery)
    /\ unseen' = (IF FirstLoad(statsQuery) THEN {"stats"} ELSE {})
    /\ UNCHANGED tasksQuery

\* Mutant: the ranking is not dropped.
RefreshKeepsRanking ==
    /\ prioritize' = [prioritize EXCEPT !.raced = prioritize.at # "idle"]
    /\ statsQuery' = Invalidate(statsQuery)
    /\ tasksQuery' = Invalidate(tasksQuery)
    /\ unseen' = (IF FirstLoad(tasksQuery) THEN {"tasks"} ELSE {})
                 \cup (IF FirstLoad(statsQuery) THEN {"stats"} ELSE {})
    /\ UNCHANGED ranking

\* A request that has changed the tasks drops the ranking and refetches the tasks
\* and the statistics; a ranking that is being computed is not dropped.
Refresh ==
    /\ ranking' = None
    /\ prioritize' = [prioritize EXCEPT !.raced = prioritize.at # "idle"]
    /\ statsQuery' = Invalidate(statsQuery)
    /\ tasksQuery' = Invalidate(tasksQuery)
    /\ unseen' = (IF FirstLoad(tasksQuery) THEN {"tasks"} ELSE {})
                 \cup (IF FirstLoad(statsQuery) THEN {"stats"} ELSE {})

\* A mutation waits for the refetch; one whose refetch is cancelled waits for the next.
CreateSucceeds ==
    /\ create = "stored"
    /\ Refresh
    /\ create' = "settling"
    /\ UNCHANGED << tasks, change, counted >>

ChangeSucceeds ==
    /\ change.at = "stored"
    /\ Refresh
    /\ change' = [change EXCEPT !.at = "settling"]
    /\ UNCHANGED << tasks, create, counted >>

\* An error: nothing is refreshed, whether or not the request took effect.
CreateLost ==
    /\ create \in {"sent", "stored"}
    /\ Count
    /\ unseen' = IF create = "stored" THEN {"tasks", "stats"} ELSE unseen
    /\ create' = "idle"
    /\ UNCHANGED << tasks, tasksQuery, statsQuery, change, ranking, prioritize >>

ChangeLost ==
    /\ change.at \in {"sent", "stored"}
    /\ Count
    /\ unseen' = IF change.at = "stored" THEN {"tasks", "stats"} ELSE unseen
    /\ change' = NoChange
    /\ UNCHANGED << tasks, tasksQuery, statsQuery, create, ranking, prioritize >>

Settled ==
    /\ create' = IF create = "settling" THEN "idle" ELSE create
    /\ change' = IF change.at = "settling" THEN NoChange ELSE change

TasksArrive ==
    /\ tasksQuery.fetch = "read"
    /\ tasksQuery' = Receive(tasksQuery)
    /\ Settled
    /\ UNCHANGED << tasks, statsQuery, ranking, prioritize, unseen, counted >>

TasksFail ==
    /\ tasksQuery.fetch # "idle"
    /\ Count
    /\ tasksQuery' = GiveUp(tasksQuery)
    /\ unseen' = unseen \cup {"tasks"}
    /\ Settled
    /\ UNCHANGED << tasks, statsQuery, ranking, prioritize >>

StatsArrive ==
    /\ statsQuery.fetch = "read"
    /\ statsQuery' = Receive(statsQuery)
    /\ UNCHANGED << tasks, tasksQuery, create, change, ranking, prioritize, unseen, counted >>

StatsFail ==
    /\ statsQuery.fetch # "idle"
    /\ Count
    /\ statsQuery' = GiveUp(statsQuery)
    /\ unseen' = unseen \cup {"stats"}
    /\ UNCHANGED << tasks, tasksQuery, create, change, ranking, prioritize >>

RankingArrives ==
    /\ prioritize.at = "asked"
    /\ ranking' = [of |-> prioritize.of, raced |-> prioritize.raced]
    /\ prioritize' = NotRanking
    /\ UNCHANGED << tasks, tasksQuery, statsQuery, create, change, unseen, counted >>

\* The Claude call fails, or the request does: the ranking that is shown stays.
RankingFails ==
    /\ prioritize.at # "idle"
    /\ prioritize' = NotRanking
    /\ UNCHANGED << tasks, tasksQuery, statsQuery, create, change, ranking, unseen, counted >>

-----------------------------------------------------------------------------
User == Add \/ Prioritize \/ \E t \in Tasks : Toggle(t) \/ Remove(t)

Server ==
    \/ \E t \in Tasks : CreateTask(t)
    \/ UpdateTask \/ ListTasks \/ TaskStats \/ CompletionTrend \/ ReadPending

Panels ==
    \/ CreateSucceeds \/ ChangeSucceeds \/ CreateLost \/ ChangeLost
    \/ TasksArrive \/ TasksFail \/ StatsArrive \/ StatsFail
    \/ RankingArrives \/ RankingFails

Next == User \/ Server \/ Panels

Spec == Init /\ [][Next]_vars

-----------------------------------------------------------------------------
\* No request that changes tasks is on its way.
Quiet == create \in {"idle", "settling"} /\ change.at \in {"idle", "settling"}

\* Once nothing is on its way the list shows the tasks there are: however requests
\* and refetches overlap, the last reply the panel takes is from after the last
\* change.  The exceptions are in unseen: a request that took effect although it
\* failed, a refetch that failed, a change made during the first load.
ShownIsTrue == Quiet /\ tasksQuery.fetch = "idle" /\ "tasks" \notin unseen => tasksQuery.data = tasks

\* The insights, read in two steps while tasks change, end up as one true picture.
InsightsSettle ==
    Quiet /\ statsQuery.fetch = "idle" /\ "stats" \notin unseen =>
        statsQuery.data = [completed |-> Having(tasks, "completed"),
                           pending |-> Having(tasks, "pending"),
                           trend |-> Having(tasks, "completed")]

\* A ranking on display is of the tasks that are pending, unless a change succeeded
\* while it was being computed or took effect unnoticed.
RankingFollows ==
    Quiet /\ ranking # None /\ ~ranking.raced /\ unseen = {} =>
        ranking.of = Having(tasks, "pending")

=============================================================================
