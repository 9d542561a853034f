----------------------------- MODULE HabitPanel -----------------------------
(***************************************************************************)
(* The habits of one user: the habits and habit_checkins tables behind     *)
(* HabitService, and HabitsPanel, which lists them with the check-ins of   *)
(* the last Window days and the current streak.  Only Add is disabled      *)
(* while its own request or the refetch it caused is under way; all others *)
(* overlap in any number: Slots is how many may.                           *)
(***************************************************************************)
EXTENDS QueryCache, Integers, FiniteSets

CONSTANTS
    Habits,     \* the ids CreateHabit can generate
    Slots,
    Window,     \* HabitWindowDays
    LastDay,    \* the days of a run are 0 .. LastDay
    None,
    Budget      \* how often each of Counted may happen

ASSUME WindowAssumption == Window \in Nat \ {0} /\ LastDay \in Nat /\ LastDay >= Window

\* What a run bounds: clicks, requests that fail or whose reply is lost.
Counted == {"click", "lost"}

VARIABLES
    today,
    table, checkins,
    habitsQuery,
    requests,
    unseen,     \* the list has missed a change
    counted

vars == << today, table, checkins, habitsQuery, requests, unseen, counted >>

Day == 0 .. LastDay

Idle == [at |-> "idle", op |-> None, habit |-> None, day |-> None]

\* at is sent, owned (ownedDay has found the habit), stored or settling (it succeeded,
\* and waits for the refetch it caused).
Request ==
    { Idle } \cup [at : {"settling"}, op : {"create"},
                   habit : Habits \cup {None}, day : {None}]
             \cup [at : {"sent", "stored"}, op : {"create", "delete"},
                   habit : Habits \cup {None}, day : {None}]
             \cup [at : {"sent", "owned", "stored"}, op : {"check", "uncheck"},
                   habit : Habits, day : Day]

\* A list as of a day.
Listed == [asof : Day, habits : SUBSET Habits, checkins : [Habits -> SUBSET Day],
           streak : [Habits -> 0 .. Window]]

ASSUME UndefinedAssumption == Undefined \notin Listed

TypeOK ==
    /\ today \in Day
    /\ table \in [Habits -> {"new", "kept", "deleted"}]
    /\ checkins \subseteq Habits \X Day
    /\ \A c \in checkins : table[c[1]] = "kept"
    /\ habitsQuery \in Query(Listed, Listed)
    /\ requests \in [Slots -> Request]
    /\ unseen \in BOOLEAN
    /\ counted \in [Counted -> Nat]

Init ==
    /\ today = Window
    /\ table \in [Habits -> {"new", "kept"}]
    /\ checkins \in SUBSET ({ h \in Habits : table[h] = "kept" } \X (0 .. Window))
    /\ habitsQuery = Mounted
    /\ requests = [s \in Slots |-> Idle]
    /\ unseen = FALSE
    /\ counted = [m \in Counted |-> 0]

Count(m) == counted[m] < Budget[m] /\ counted' = [counted EXCEPT ![m] = @ + 1]

NextDay ==
    /\ today < LastDay
    /\ today' = today + 1
    /\ UNCHANGED << table, checkins, habitsQuery, requests, unseen, counted >>

-----------------------------------------------------------------------------
(* The user.                                                               *)

Send(s, op, h, d) ==
    /\ requests[s] = Idle
    /\ Count("click")
    /\ requests' = [requests EXCEPT ![s] = [at |-> "sent", op |-> op, habit |-> h, day |-> d]]
    /\ UNCHANGED << today, table, checkins, habitsQuery, unseen >>

ShownHabits == IF habitsQuery.data = Undefined THEN {} ELSE habitsQuery.data.habits

ClickAdd(s) ==
    /\ \A q \in Slots : requests[q].op # "create"
    /\ Send(s, "create", None, None)

ClickDelete(s) == \E h \in ShownHabits : Send(s, "delete", h, None)

\* The grid is of today or, until the panel is rendered again, of the day before.
ClickDay(s) ==
    \E h \in ShownHabits, d \in (today - Window) .. today :
        Send(s, IF d \in habitsQuery.data.checkins[h] THEN "uncheck" ELSE "check", h, d)

-----------------------------------------------------------------------------
(* The server.                                                             *)

Become(s, at) == requests' = [requests EXCEPT ![s].at = at]

CreateHabit(s) ==
    /\ requests[s].at = "sent" /\ requests[s].op = "create"
    /\ \E h \in Habits : table[h] = "new" /\ table' = [table EXCEPT ![h] = "kept"]
    /\ Become(s, "stored")
    /\ UNCHANGED << today, checkins, habitsQuery, unseen, counted >>

\* The check-ins go by cascade; a habit that is gone answers 404.
DeleteHabit(s) ==
    /\ requests[s].at = "sent" /\ requests[s].op = "delete"
    /\ IF table[requests[s].habit] = "kept"
       THEN /\ table' = [table EXCEPT ![requests[s].habit] = "deleted"]
            /\ checkins' = { c \in checkins : c[1] # requests[s].habit }
            /\ Become(s, "stored")
       ELSE /\ requests' = [requests EXCEPT ![s] = Idle]
            /\ UNCHANGED << table, checkins >>
    /\ UNCHANGED << today, habitsQuery, unseen, counted >>

ownedDay(s) ==
    /\ requests[s].at = "sent" /\ requests[s].op \in {"check", "uncheck"}
    /\ requests' = [requests EXCEPT ![s] = IF table[@.habit] = "kept" THEN [@ EXCEPT !.at = "owned"]
                                                                      ELSE Idle]
    /\ UNCHANGED << today, table, checkins, habitsQuery, unseen, counted >>

\* Mutant: the check-in does not notice that the habit is gone.
CheckGone(s) ==
    /\ requests[s].at = "owned" /\ requests[s].op = "check"
    /\ checkins' = checkins \cup {<< requests[s].habit, requests[s].day >>}
    /\ Become(s, "stored")
    /\ UNCHANGED << today, table, habitsQuery, unseen, counted >>

\* A check-in of a habit that was deleted in between breaks the foreign key.
Check(s) ==
    /\ requests[s].at = "owned" /\ requests[s].op = "check"
    /\ IF table[requests[s].habit] = "kept"
       THEN /\ checkins' = checkins \cup {<< requests[s].habit, requests[s].day >>}
            /\ Become(s, "stored")
       ELSE /\ requests' = [requests EXCEPT ![s] = Idle]
            /\ UNCHANGED checkins
    /\ UNCHANGED << today, table, habitsQuery, unseen, counted >>

Uncheck(s) ==
    /\ requests[s].at = "owned" /\ requests[s].op = "uncheck"
    /\ checkins' = checkins \ {<< requests[s].habit, requests[s].day >>}
    /\ Become(s, "stored")
    /\ UNCHANGED << today, table, habitsQuery, unseen, counted >>

\* Consecutive days of set back from day.
Back(set, day) ==
    LET back[d \in -1 .. day] == IF d \in set THEN 1 + back[d - 1] ELSE 0
    IN  back[day]

\* Mutant: a streak is over until today is checked.
StreakOfToday(set, day) == Back(set, day)

currentStreak(set, day) ==
    IF day \in set THEN Back(set, day) ELSE Back(set, day - 1)

\* List reads the habits, takes the time, and reads the check-ins since.
ListHabits ==
    /\ habitsQuery.fetch = "sent"
    /\ habitsQuery' = Partly(habitsQuery,
           [asof |-> today, habits |-> { h \in Habits : table[h] = "kept" },
            checkins |-> [h \in Habits |-> {}], streak |-> [h \in Habits |-> 0]])
    /\ UNCHANGED << today, table, checkins, requests, unseen, counted >>

since(asof) == asof - (Window - 1)

ListCheckins ==
    /\ habitsQuery.fetch = "part"
    /\ LET list == habitsQuery.reply
           set == [h \in Habits |-> IF h \in list.habits
                       THEN { d \in Day : d >= since(list.asof) /\ << h, d >> \in checkins }
                       ELSE {}]
       IN  habitsQuery' = Answer(habitsQuery,
               [list EXCEPT !.checkins = set,
                            !.streak = [h \in Habits |-> currentStreak(set[h], list.asof)]])
    /\ UNCHANGED << today, table, checkins, requests, unseen, counted >>

-----------------------------------------------------------------------------
(* The panel.                                                              *)

\* Mutant: the list is not refetched.
SucceedsQuietly(s) ==
    /\ requests[s].at = "stored"
    /\ requests' = [requests EXCEPT ![s] = Idle]
    /\ UNCHANGED << today, table, checkins, habitsQuery, unseen, counted >>

Succeeds(s) ==
    /\ requests[s].at = "stored"
    /\ requests' = [requests EXCEPT ![s] = IF @.op = "create" THEN [@ EXCEPT !.at = "settling"]
                                                             ELSE Idle]
    /\ unseen' = FirstLoad(habitsQuery)
    /\ habitsQuery' = Invalidate(habitsQuery)
    /\ UNCHANGED << today, table, checkins, counted >>

\* An error: nothing is refetched, whether or not the request took effect.
Fails(s) ==
    /\ requests[s].at \in {"sent", "owned", "stored"}
    /\ Count("lost")
    /\ unseen' = (unseen \/ requests[s].at = "stored")
    /\ requests' = [requests EXCEPT ![s] = Idle]
    /\ UNCHANGED << today, table, checkins, habitsQuery >>

Settle == requests' = [s \in Slots |-> IF requests[s].at = "settling" THEN Idle ELSE requests[s]]

HabitsArrive ==
    /\ habitsQuery.fetch = "read"
    /\ habitsQuery' = Receive(habitsQuery)
    /\ Settle
    /\ UNCHANGED << today, table, checkins, unseen, counted >>

HabitsFail ==
    /\ habitsQuery.fetch # "idle"
    /\ Count("lost")
    /\ habitsQuery' = GiveUp(habitsQuery)
    /\ unseen' = TRUE
    /\ Settle
    /\ UNCHANGED << today, table, checkins >>

-----------------------------------------------------------------------------
User(s) == ClickAdd(s) \/ ClickDelete(s) \/ ClickDay(s)

Server(s) == CreateHabit(s) \/ DeleteHabit(s) \/ ownedDay(s) \/ Check(s) \/ Uncheck(s)

Next ==
    \/ NextDay
    \/ \E s \in Slots : User(s) \/ Server(s) \/ Succeeds(s) \/ Fails(s)
    \/ ListHabits \/ ListCheckins \/ HabitsArrive \/ HabitsFail

Spec == Init /\ [][Next]_vars

-----------------------------------------------------------------------------
\* No request that changes habits is on its way, and no list.
Quiet == habitsQuery.fetch = "idle" /\ ~unseen /\ \A s \in Slots : requests[s] = Idle

CheckedDays(h) == { d \in Day : << h, d >> \in checkins }

\* Once nothing is on its way the panel shows the habits there are, each with its
\* check-ins, however clicks, their replies and the refetches overlap.  The list is
\* as of the day it was read.
ShownIsTrue ==
    Quiet =>
        /\ ShownHabits = { h \in Habits : table[h] = "kept" }
        /\ \A h \in ShownHabits :
              habitsQuery.data.checkins[h] =
                  { d \in CheckedDays(h) : d >= since(habitsQuery.data.asof) }

\* The days of the streak that ends on day: those from which on every day is checked.
StreakDays(h, day) == { d \in Day : d <= day /\ d .. day \subseteq CheckedDays(h) }

Streak(h, asof) == IF asof \in CheckedDays(h) THEN StreakDays(h, asof) ELSE StreakDays(h, asof - 1)

\* The streak that is shown is the number of consecutive checked days that end today
\* or yesterday and are in the window.
StreakIsRight ==
    Quiet => \A h \in ShownHabits :
        LET asof == habitsQuery.data.asof
        IN  habitsQuery.data.streak[h] =
                Cardinality({ d \in Streak(h, asof) : d >= since(asof) })

=============================================================================
