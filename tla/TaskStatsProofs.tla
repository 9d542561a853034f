-------------------------- MODULE TaskStatsProofs --------------------------
(***************************************************************************)
(* Theorems about TaskStats, for any set of tasks, any number of days and  *)
(* any length of the trend.                                                *)
(***************************************************************************)
EXTENDS TaskStats, TLAPS

\* The row of a task that was not edited is dated on the day it was completed.
Dated == \A t \in Having("completed") \ edited : tasks[t].updated_at = completedOn[t]

\* A task that was not touched is counted as what it still is,
Counted ==
    stats.at # "idle" => \A t \in Tasks \ touched : t \in stats.completed <=> t \in Having("completed")

\* and its place in the trend is where its row puts it.
Placed ==
    stats.at = "done" => \A t \in Tasks \ touched, d \in Day :
        t \in stats.trend[d] <=> /\ t \in Having("completed")
                                 /\ tasks[t].updated_at = d /\ d \in WindowDays

Typed ==
    /\ today \in Day
    /\ tasks \in [Tasks -> Task]
    /\ stats \in Reply
    /\ completedOn \in [Tasks -> Day]
    /\ touched \in SUBSET Tasks

Past == stats.until <= today /\ \A t \in Tasks : tasks[t].updated_at <= today

IInv == Typed /\ Past /\ edited \subseteq Having("completed") /\ Dated /\ Counted /\ Placed

-----------------------------------------------------------------------------
\* What a write of one row does to the others.
LEMMA WriteOne ==
    ASSUME Typed, NEW t \in Tasks, NEW status \in {"pending", "completed", "deleted"},
           NEW day \in Day,
           tasks' = [tasks EXCEPT ![t] = [status |-> status, updated_at |-> day]]
    PROVE  /\ tasks' \in [Tasks -> Task]
           /\ tasks'[t].status = status /\ tasks'[t].updated_at = day
           /\ \A u \in Tasks \ {t} : tasks'[u] = tasks[u]
           /\ \A u \in Tasks \ {t} : u \in Having("completed")' <=> u \in Having("completed")
           /\ t \in Having("completed")' <=> status = "completed"
<1>1. [status |-> status, updated_at |-> day] \in Task
  BY DEF Task
<1>2. /\ tasks' \in [Tasks -> Task]
      /\ tasks'[t] = [status |-> status, updated_at |-> day]
      /\ \A u \in Tasks \ {t} : tasks'[u] = tasks[u]
  BY <1>1 DEF Typed
<1> QED
  BY <1>2 DEF Having

\* A change of one row that is recorded in touched leaves what the statistics say of
\* the others.
LEMMA TouchedKeeps ==
    ASSUME Typed, Counted, Placed, NEW t \in Tasks, stats' = stats, touched' = touched \cup {t},
           \A u \in Tasks \ {t} : tasks'[u] = tasks[u]
    PROVE  Counted' /\ Placed'
<1>1. \A u \in Tasks \ touched' : /\ u \in Tasks \ touched
                                  /\ tasks'[u] = tasks[u]
                                  /\ u \in Having("completed")' <=> u \in Having("completed")
  BY DEF Having
<1>2. WindowDays' = WindowDays
  BY DEF WindowDays, since
<1> QED
  BY <1>1, <1>2 DEF Counted, Placed

LEMMA InitEstablishes == Init => IInv
<1> SUFFICES ASSUME Init PROVE IInv
  OBVIOUS
<1>1. 0 \in Day
  BY DaysAssumption DEF Day
<1>2. Typed
  BY <1>1 DEF Init, Typed, Task, Reply
<1>3. Having("completed") = {}
  BY DEF Init, Having
<1>4. Past
  BY DEF Init, Past
<1> QED
  BY <1>2, <1>3, <1>4 DEF Init, IInv, Dated, Counted, Placed

LEMMA CreateStep == ASSUME IInv, NEW t \in Tasks, Create(t) PROVE IInv'
<1> USE DEF IInv
<1>1. tasks' = [tasks EXCEPT ![t] = [status |-> "pending", updated_at |-> today]]
      /\ touched' = touched \cup {t}
  BY DEF Create, Write
<1>2. /\ tasks' \in [Tasks -> Task]
      /\ tasks'[t].status = "pending" /\ tasks'[t].updated_at = today
      /\ \A u \in Tasks \ {t} : tasks'[u] = tasks[u]
      /\ \A u \in Tasks \ {t} : u \in Having("completed")' <=> u \in Having("completed")
      /\ ~ (t \in Having("completed")')
  BY <1>1, WriteOne DEF Typed
<1>3. /\ today' = today /\ stats' = stats /\ completedOn' = completedOn /\ edited' = edited
  BY DEF Create
<1>4. Typed'
  BY <1>1, <1>2, <1>3 DEF Typed
<1>5. Past'
  BY <1>2, <1>3 DEF Past, Typed, Day
<1>6. edited' \subseteq Having("completed")'
  BY <1>2, <1>3 DEF Create, Having
<1>7. Dated'
  BY <1>2, <1>3 DEF Dated, Having
<1>8. Counted' /\ Placed'
  BY <1>1, <1>2, <1>3, TouchedKeeps
<1> QED
  BY <1>4, <1>5, <1>6, <1>7, <1>8

LEMMA UpdateStep == ASSUME IInv, NEW t \in Tasks, Update(t) PROVE IInv'
<1> USE DEF IInv
<1>1. PICK status \in {"pending", "completed"} :
         /\ Write(t, status)
         /\ IF status = "completed" /\ tasks[t].status = "pending"
            THEN completedOn' = [completedOn EXCEPT ![t] = today] /\ UNCHANGED edited
            ELSE /\ edited' = IF status = "completed" THEN edited \cup {t} ELSE edited \ {t}
                 /\ UNCHANGED completedOn
  BY DEF Update
<1>2. touched' = touched \cup {t} /\ today' = today /\ stats' = stats
  BY <1>1 DEF Update, Write
<1>3. /\ tasks' \in [Tasks -> Task]
      /\ tasks'[t].status = status /\ tasks'[t].updated_at = today
      /\ \A u \in Tasks \ {t} : tasks'[u] = tasks[u]
      /\ \A u \in Tasks \ {t} : u \in Having("completed")' <=> u \in Having("completed")
      /\ t \in Having("completed")' <=> status = "completed"
  BY <1>1, WriteOne DEF Typed, Write
<1>4. completedOn' \in [Tasks -> Day] /\ \A u \in Tasks \ {t} : completedOn'[u] = completedOn[u]
  BY <1>1 DEF Typed
<1>5. Typed'
  BY <1>2, <1>3, <1>4 DEF Typed
<1>6. Past'
  BY <1>2, <1>3 DEF Past, Typed, Day
<1>7. edited' \subseteq Having("completed")' /\ edited \ {t} \subseteq edited'
  <2>1. CASE status = "completed" /\ tasks[t].status = "pending"
    BY <1>1, <1>3, <2>1 DEF Having
  <2>2. CASE ~(status = "completed" /\ tasks[t].status = "pending")
    BY <1>1, <1>3, <2>2 DEF Having
  <2> QED
    BY <2>1, <2>2
<1>8. Dated'
  <2> SUFFICES ASSUME NEW u \in Having("completed")', u \notin edited'
               PROVE  tasks'[u].updated_at = completedOn'[u]
    BY DEF Dated
  <2>1. u \in Tasks
    BY DEF Having
  <2>2. CASE u # t
    BY <1>3, <1>4, <1>7, <2>1, <2>2 DEF Dated
  <2>3. CASE u = t
    BY <1>1, <1>3, <2>1, <2>3 DEF Typed
  <2> QED
    BY <2>2, <2>3
<1>9. Counted' /\ Placed'
  BY <1>2, <1>3, TouchedKeeps
<1> QED
  BY <1>5, <1>6, <1>7, <1>8, <1>9

LEMMA DeleteStep == ASSUME IInv, NEW t \in Tasks, Delete(t) PROVE IInv'
<1> USE DEF IInv
<1>1. tasks' = [tasks EXCEPT ![t] = [status |-> "deleted", updated_at |-> tasks[t].updated_at]]
  <2>1. tasks[t] \in Task
    BY DEF Typed
  <2>2. [tasks[t] EXCEPT !.status = "deleted"]
           = [status |-> "deleted", updated_at |-> tasks[t].updated_at]
    BY <2>1 DEF Task
  <2>3. tasks' = [tasks EXCEPT ![t] = [tasks[t] EXCEPT !.status = "deleted"]]
    BY DEF Delete
  <2> QED
    BY <2>2, <2>3
<1>2. tasks[t].updated_at \in Day /\ tasks[t].updated_at <= today
  BY DEF Typed, Task, Past
<1>3. /\ tasks' \in [Tasks -> Task]
      /\ tasks'[t].updated_at = tasks[t].updated_at
      /\ \A u \in Tasks \ {t} : tasks'[u] = tasks[u]
      /\ \A u \in Tasks \ {t} : u \in Having("completed")' <=> u \in Having("completed")
      /\ ~ (t \in Having("completed")')
  BY <1>1, <1>2, WriteOne
<1>4. /\ touched' = touched \cup {t} /\ edited' = edited \ {t}
      /\ today' = today /\ stats' = stats /\ completedOn' = completedOn
  BY DEF Delete
<1>5. Typed'
  BY <1>3, <1>4 DEF Typed
<1>6. Past'
  BY <1>3, <1>4 DEF Past
<1>7. edited' \subseteq Having("completed")'
  BY <1>3, <1>4 DEF Having
<1>8. Dated'
  BY <1>3, <1>4 DEF Dated, Having
<1>9. Counted' /\ Placed'
  BY <1>3, <1>4, TouchedKeeps
<1> QED
  BY <1>5, <1>6, <1>7, <1>8, <1>9

LEMMA NextDayStep == ASSUME IInv, NextDay PROVE IInv'
<1> USE DEF IInv
<1>1. /\ today' = today + 1 /\ today' \in Day
      /\ tasks' = tasks /\ stats' = stats /\ completedOn' = completedOn
      /\ edited' = edited /\ touched' = touched
  BY DaysAssumption DEF NextDay, Typed, Day
<1>2. Typed'
  BY <1>1 DEF Typed
<1>3. Past'
  BY <1>1 DEF Past, Typed, Day, Task, Reply
<1>4. Having("completed")' = Having("completed") /\ WindowDays' = WindowDays
  BY <1>1 DEF Having, WindowDays, since
<1> QED
  BY <1>1, <1>2, <1>3, <1>4 DEF Dated, Counted, Placed

LEMMA StatsStep == ASSUME IInv, Count \/ Clock \/ CompletionTrend PROVE IInv'
<1> USE DEF IInv
<1>1. /\ today' = today /\ tasks' = tasks /\ completedOn' = completedOn /\ edited' = edited
      /\ Having("completed")' = Having("completed")
  BY DEF Count, Clock, CompletionTrend, Having
<1>2. Having("completed") \subseteq Tasks /\ 0 \in Day
  BY DaysAssumption DEF Having, Day
<1>3. Dated' /\ edited' \subseteq Having("completed")'
  BY <1>1 DEF Dated
<1>4. CASE Count
  <2>1. stats' = [at |-> "counted", completed |-> Having("completed"), until |-> 0,
                  trend |-> [d \in Day |-> {}]] /\ touched' = {}
    BY <1>4 DEF Count
  <2>2. Typed'
    BY <1>1, <1>2, <2>1 DEF Typed, Reply
  <2>3. Past'
    BY <1>1, <2>1 DEF Past, Typed, Day
  <2>4. Counted' /\ Placed'
    BY <1>1, <2>1 DEF Counted, Placed
  <2> QED
    BY <1>3, <2>2, <2>3, <2>4
<1>5. CASE Clock
  <2>1. stats' = [stats EXCEPT !.at = "timed", !.until = today] /\ touched' = touched
        /\ stats.at = "counted"
    BY <1>5 DEF Clock
  <2>2. Typed' /\ stats'.at = "timed" /\ stats'.until = today /\ stats'.completed = stats.completed
    BY <1>1, <2>1 DEF Typed, Reply
  <2>3. Past'
    BY <1>1, <2>2 DEF Past, Typed, Day
  <2>4. Counted' /\ Placed'
    BY <1>1, <2>1, <2>2 DEF Counted, Placed
  <2> QED
    BY <1>3, <2>2, <2>3, <2>4
<1>6. CASE CompletionTrend
  <2> DEFINE rows == [d \in Day |-> IF d \in WindowDays
                                    THEN { t \in Having("completed") : tasks[t].updated_at = d }
                                    ELSE {}]
  <2>1. stats' = [stats EXCEPT !.at = "done", !.trend = rows] /\ touched' = touched
        /\ stats.at = "timed"
    BY <1>6 DEF CompletionTrend
  <2>2. rows \in [Day -> SUBSET Tasks]
    BY <1>2
  <2>3. Typed' /\ stats'.at = "done" /\ stats'.until = stats.until
        /\ stats'.completed = stats.completed /\ stats'.trend = rows
    <3> HIDE DEF rows
    <3> QED
      BY <1>1, <2>1, <2>2 DEF Typed, Reply
  <2>4. Past'
    BY <1>1, <2>3 DEF Past
  <2>5. WindowDays' = WindowDays
    BY <2>3 DEF WindowDays, since
  <2>6. Counted'
    BY <1>1, <2>1, <2>3 DEF Counted
  <2>7. Placed'
    BY <1>1, <2>1, <2>3, <2>5 DEF Placed
  <2> QED
    BY <1>3, <2>3, <2>4, <2>6, <2>7
<1> QED
  BY <1>4, <1>5, <1>6

LEMMA Invariance == Spec => []IInv
<1>1. IInv /\ [Next]_vars => IInv'
  <2> SUFFICES ASSUME IInv, [Next]_vars PROVE IInv'
    OBVIOUS
  <2>1. CASE UNCHANGED vars
    BY <2>1 DEF vars, IInv, Typed, Past, Dated, Counted, Placed, Having, WindowDays, since
  <2> QED
    BY <2>1, NextDayStep, StatsStep, CreateStep, UpdateStep, DeleteStep DEF Next
<1> QED
  BY <1>1, InitEstablishes, PTL DEF Spec

-----------------------------------------------------------------------------
\* The variables keep their types, and neither a row nor a window is dated in the
\* future (tasks.sql UpdateTask, stats.go Get).
THEOREM TypeCorrect == Spec => []TypeOK
<1>1. IInv => TypeOK
  BY DEF IInv, Typed, Past, TypeOK
<1> QED
  BY <1>1, Invariance, PTL

\* A completion that nothing touched afterwards is in the trend on its day and on no
\* other, whatever else is written while the statistics are read (stats.go Get).
THEOREM TrendShowsCompletions == Spec => []TrendIsRight
<1>1. IInv => TrendIsRight
  <2> SUFFICES ASSUME IInv, stats.at = "done", NEW t \in Tasks \ (touched \cup edited), NEW d \in Day
               PROVE  t \in stats.trend[d] <=> /\ tasks[t].status = "completed"
                                               /\ completedOn[t] = d /\ d \in LastDays
    BY DEF TrendIsRight
  <2>1. t \in stats.trend[d] <=> /\ t \in Having("completed")
                                 /\ tasks[t].updated_at = d /\ d \in WindowDays
    BY DEF IInv, Placed
  <2>2. t \in Having("completed") <=> tasks[t].status = "completed"
    BY DEF Having
  <2>3. t \in Having("completed") => tasks[t].updated_at = completedOn[t]
    BY DEF IInv, Dated
  <2>4. d \in WindowDays <=> d \in LastDays
    BY DaysAssumption DEF WindowDays, LastDays, since, Day, IInv, Typed, Reply
  <2> QED
    BY <2>1, <2>2, <2>3, <2>4
<1> QED
  BY <1>1, Invariance, PTL

\* What the trend shows and the count of completed tasks does not was changed between
\* the two reads (stats.go Get).
THEOREM TrendIsOfTheCounted == Spec => []TrendIsCounted
<1>1. IInv => TrendIsCounted
  <2> SUFFICES ASSUME IInv, stats.at = "done", NEW d \in Day, NEW t \in stats.trend[d], t \notin touched
               PROVE  t \in stats.completed
    BY DEF TrendIsCounted
  <2>1. t \in Tasks
    BY DEF IInv, Typed, Reply
  <2>2. t \in Having("completed")
    BY <2>1 DEF IInv, Placed
  <2> QED
    BY <2>1, <2>2 DEF IInv, Counted
<1> QED
  BY <1>1, Invariance, PTL

=============================================================================
