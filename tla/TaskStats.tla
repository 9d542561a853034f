----------------------------- MODULE TaskStats -----------------------------
(***************************************************************************)
(* The tasks of one user as the API changes them, and GET /stats, which    *)
(* reads them in two queries with the clock read in between: TaskStats for *)
(* the counts, CompletionTrend for the completions of the last TrendDays   *)
(* days, which it takes from updated_at.  Sets of tasks stand for the      *)
(* counts.                                                                 *)
(***************************************************************************)
EXTENDS Integers

CONSTANTS
    Tasks,
    TrendDays,
    LastDay     \* the days of a run are 0 .. LastDay

ASSUME DaysAssumption == TrendDays \in Nat \ {0} /\ LastDay \in Nat

VARIABLES
    today,
    tasks,
    stats,          \* the GET /stats under way, or the last one
    completedOn,    \* the day a task was last turned from pending to completed
    edited,         \* completed tasks that were updated since
    touched         \* tasks changed since the first query of stats

vars == << today, tasks, stats, completedOn, edited, touched >>

Day == 0 .. LastDay

Task == [status : {"none", "pending", "completed", "deleted"}, updated_at : Day]

Having(status) == { t \in Tasks : tasks[t].status = status }

\* at tells how far the request is; until then is the day it took for today.
Reply == [at : {"idle", "counted", "timed", "done"}, completed : SUBSET Tasks, until : Day,
          trend : [Day -> SUBSET Tasks]]

TypeOK ==
    /\ today \in Day
    /\ tasks \in [Tasks -> Task]
    /\ stats \in Reply
    /\ completedOn \in [Tasks -> Day]
    /\ edited \subseteq Having("completed")
    /\ touched \in SUBSET Tasks
    /\ \A t \in Tasks : tasks[t].updated_at <= today
    /\ stats.until <= today

Init ==
    /\ today = 0
    /\ tasks = [t \in Tasks |-> [status |-> "none", updated_at |-> 0]]
    /\ stats = [at |-> "idle", completed |-> {}, until |-> 0, trend |-> [d \in Day |-> {}]]
    /\ completedOn = [t \in Tasks |-> 0]
    /\ edited = {} /\ touched = {}

NextDay ==
    /\ today < LastDay
    /\ today' = today + 1
    /\ UNCHANGED << tasks, stats, completedOn, edited, touched >>

-----------------------------------------------------------------------------
(* TaskService.                                                            *)

\* Mutant: updated_at is not set.
WriteUndated(t, status) ==
    /\ tasks' = [tasks EXCEPT ![t].status = status]
    /\ touched' = touched \cup {t}

\* Every write dates the row.
Write(t, status) ==
    /\ tasks' = [tasks EXCEPT ![t] = [status |-> status, updated_at |-> today]]
    /\ touched' = touched \cup {t}

Create(t) ==
    /\ tasks[t].status = "none"
    /\ Write(t, "pending")
    /\ UNCHANGED << today, stats, completedOn, edited >>

\* A PATCH sets the fields it has; the status it sends may be the one there is.
Update(t) ==
    /\ tasks[t].status \in {"pending", "completed"}
    /\ \E status \in {"pending", "completed"} :
          /\ Write(t, status)
          /\ IF status = "completed" /\ tasks[t].status = "pending"
             THEN completedOn' = [completedOn EXCEPT ![t] = today] /\ UNCHANGED edited
             ELSE /\ edited' = IF status = "completed" THEN edited \cup {t} ELSE edited \ {t}
                  /\ UNCHANGED completedOn
    /\ UNCHANGED << today, stats >>

Delete(t) ==
    /\ tasks[t].status \in {"pending", "completed"}
    /\ tasks' = [tasks EXCEPT ![t].status = "deleted"]
    /\ edited' = edited \ {t}
    /\ touched' = touched \cup {t}
    /\ UNCHANGED << today, stats, completedOn >>

-----------------------------------------------------------------------------
(* StatsService.Get.                                                       *)

Count ==
    /\ stats.at \in {"idle", "done"}
    /\ stats' = [at |-> "counted", completed |-> Having("completed"), until |-> 0,
                 trend |-> [d \in Day |-> {}]]
    /\ touched' = {}
    /\ UNCHANGED << today, tasks, completedOn, edited >>

\* Mutant: the local date is taken instead of the UTC date.
ClockLocal ==
    /\ stats.at = "counted"
    /\ \E d \in {today, today + 1} : stats' = [stats EXCEPT !.at = "timed", !.until = d]
    /\ UNCHANGED << today, tasks, completedOn, edited, touched >>

Clock ==
    /\ stats.at = "counted"
    /\ stats' = [stats EXCEPT !.at = "timed", !.until = today]
    /\ UNCHANGED << today, tasks, completedOn, edited, touched >>

since == stats.until - (TrendDays - 1)

WindowDays == { d \in Day : since <= d /\ d <= stats.until }

\* Mutant: tasks are counted whatever their status.
TrendOfAny ==
    /\ stats.at = "timed"
    /\ stats' = [stats EXCEPT !.at = "done",
           !.trend = [d \in Day |-> IF d \in WindowDays
                                    THEN { t \in Tasks : tasks[t].updated_at = d } ELSE {}]]
    /\ UNCHANGED << today, tasks, completedOn, edited, touched >>

\* The rows are grouped by the day of updated_at; those after the window are not
\* filled in.
CompletionTrend ==
    /\ stats.at = "timed"
    /\ stats' = [stats EXCEPT !.at = "done",
           !.trend = [d \in Day |-> IF d \in WindowDays
                                    THEN { t \in Having("completed") : tasks[t].updated_at = d }
                                    ELSE {}]]
    /\ UNCHANGED << today, tasks, completedOn, edited, touched >>

-----------------------------------------------------------------------------
Next ==
    \/ NextDay \/ Count \/ Clock \/ CompletionTrend
    \/ \E t \in Tasks : Create(t) \/ Update(t) \/ Delete(t)

Spec == Init /\ [][Next]_vars

-----------------------------------------------------------------------------
\* The last TrendDays days, the one the request ended its window with included.
LastDays == { d \in Day : stats.until - TrendDays < d /\ d <= stats.until }

\* A task that is not changed while the statistics are read, nor after it was
\* completed, is in the trend on the day it was completed, if that is one of the last
\* TrendDays, and on no other day; a midnight between the reads changes nothing.
TrendIsRight ==
    stats.at = "done" =>
        \A t \in Tasks \ (touched \cup edited), d \in Day :
            t \in stats.trend[d] <=> /\ tasks[t].status = "completed"
                                     /\ completedOn[t] = d /\ d \in LastDays

\* What the trend shows and the count does not was changed between the two reads.
TrendIsCounted ==
    stats.at = "done" =>
        \A d \in Day : stats.trend[d] \subseteq stats.completed \cup touched

=============================================================================
