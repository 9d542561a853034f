-------------------------- MODULE HabitPanelProofs --------------------------
(***************************************************************************)
(* Theorems about HabitPanel, for any number of habits, overlapping        *)
(* requests, failures and days, and any length of the window; and first    *)
(* what the recursive function behind a streak computes.                   *)
(***************************************************************************)
EXTENDS HabitPanel, FiniteSetTheorems, WellFoundedInduction, TLAPS

-----------------------------------------------------------------------------
(* The streak.                                                             *)

\* A set of natural numbers that is not empty has a least element.
LEMMA LeastOf ==
    ASSUME NEW S \in SUBSET Nat, S # {}
    PROVE  \E n \in S : \A m \in S : n <= m
<1> DEFINE Less == OpToRel(<, Nat)
<1>1. PICK n \in S : \A m \in S : << m, n >> \notin Less
  BY NatLessThanWellFounded, WFMin
<1>2. ASSUME NEW m \in S, ~(n <= m) PROVE FALSE
  <2> DEFINE pair == << m, n >>
  <2>1. pair \in Nat \X Nat /\ pair[1] < pair[2]
    BY <1>2
  <2> HIDE DEF pair
  <2>2. pair \in Less
    BY ONLY <2>1, Zenon DEF OpToRel
  <2> QED
    BY <1>1, <2>2 DEF pair
<1> QED
  BY <1>2

\* The days of set from which on every day up to day is in it.
Run(set, day) == { d \in set : d <= day /\ d .. day \subseteq set }

\* There are finitely many of them.
LEMMA RunFinite ==
    ASSUME NEW set \in SUBSET Nat, NEW day \in Int
    PROVE  IsFiniteSet(Run(set, day)) /\ Cardinality(Run(set, day)) \in Nat
<1>1. IsFiniteSet(0 .. day)
  BY FS_Interval
<1>2. \A d \in Run(set, day) : d \in Nat /\ d <= day
  BY DEF Run
<1>3. Run(set, day) \subseteq 0 .. day
  BY <1>2
<1> QED
  BY <1>1, <1>3, FS_Subset, FS_CardinalityType

\* A day that is not in the set has no run, and a day that is adds one to the run of the
\* day before.
LEMMA RunStep ==
    ASSUME NEW set \in SUBSET Nat, NEW day \in Int
    PROVE  Cardinality(Run(set, day)) = IF day \in set THEN 1 + Cardinality(Run(set, day - 1)) ELSE 0
<1>1. CASE day \notin set
  <2>1. \A d \in Int : d <= day => day \in d .. day
    OBVIOUS
  <2>2. Run(set, day) = {}
    BY <1>1, <2>1 DEF Run
  <2> QED
    BY <1>1, <2>2, FS_EmptySet
<1>2. CASE day \in set
  <2>1. \A d \in Int : d <= day <=> d = day \/ d <= day - 1
    OBVIOUS
  <2>2. \A d \in Int : d <= day - 1 => d .. day = (d .. (day - 1)) \cup {day}
    OBVIOUS
  <2>3. day .. day = {day}
    OBVIOUS
  <2>4. \A d \in set : /\ d <= day /\ d .. day \subseteq set
                       <=> d = day \/ (d <= day - 1 /\ d .. (day - 1) \subseteq set)
    BY <1>2, <2>1, <2>2, <2>3
  <2>5. Run(set, day) = Run(set, day - 1) \cup {day}
    BY <1>2, <2>4 DEF Run
  <2>6. day \notin Run(set, day - 1)
    BY DEF Run
  <2>7. day - 1 \in Int
    OBVIOUS
  <2> HIDE DEF Run
  <2>8. IsFiniteSet(Run(set, day - 1)) /\ Cardinality(Run(set, day - 1)) \in Nat
    BY <2>7, RunFinite
  <2>9. Cardinality(Run(set, day)) = Cardinality(Run(set, day - 1)) + 1
    BY <2>5, <2>6, <2>8, FS_AddElement
  <2> QED
    BY <1>2, <2>8, <2>9
<1> QED
  BY <1>1, <1>2

\* The recursion of Back has a solution, and whatever solves it counts the run: the
\* first day for which it would not is not -1, and no other by the day before it.
LEMMA BackCounts ==
    ASSUME NEW set \in SUBSET Nat, NEW day \in Int, day >= -1
    PROVE  Back(set, day) = Cardinality(Run(set, day))
<1> DEFINE Solves(f) == f = [d \in -1 .. day |-> IF d \in set THEN 1 + f[d - 1] ELSE 0]
<1> DEFINE count == [d \in -1 .. day |-> Cardinality(Run(set, d))]
<1> DEFINE back == CHOOSE f : Solves(f)
<1>1. Solves(count)
  <2>1. ASSUME NEW d \in -1 .. day
        PROVE  count[d] = IF d \in set THEN 1 + count[d - 1] ELSE 0
    <3>1. d \in Int /\ (d \in set => d - 1 \in -1 .. day)
      OBVIOUS
    <3> QED
      BY <3>1, RunStep
  <2> QED
    BY <2>1
<1> HIDE DEF count
<1>2. Solves(back)
  BY <1>1
<1>3. back = [d \in -1 .. day |-> IF d \in set THEN 1 + back[d - 1] ELSE 0]
  BY <1>2
<1>4. Back(set, day) = back[day]
  BY DEF Back
<1> HIDE DEF back
<1>5. \A d \in -1 .. day : back[d] = IF d \in set THEN 1 + back[d - 1] ELSE 0
  BY <1>3
<1> DEFINE Wrong == { n \in Nat : n - 1 <= day /\ back[n - 1] # Cardinality(Run(set, n - 1)) }
<1>6. Wrong = {}
  <2> SUFFICES ASSUME Wrong # {} PROVE FALSE
    OBVIOUS
  <2>1. PICK n \in Wrong : \A m \in Wrong : n <= m
    <3>1. Wrong \in SUBSET Nat
      OBVIOUS
    <3> HIDE DEF Wrong
    <3> QED
      BY <3>1, LeastOf
  <2>2. n \in Nat /\ n - 1 \in -1 .. day /\ back[n - 1] # Cardinality(Run(set, n - 1))
    BY <2>1
  <2>3. CASE n - 1 \notin set
    BY <1>5, <2>2, <2>3, RunStep
  <2>4. CASE n - 1 \in set
    <3>1. n - 1 \in Nat /\ n - 1 \notin Wrong
      BY <2>1, <2>2, <2>4
    <3>2. back[(n - 1) - 1] = Cardinality(Run(set, (n - 1) - 1))
      BY <2>2, <3>1
    <3> QED
      BY <1>5, <2>2, <2>4, <3>2, RunStep
  <2> QED
    BY <2>3, <2>4
<1>7. day + 1 \in Nat /\ (day + 1) - 1 = day
  OBVIOUS
<1>8. day + 1 \notin Wrong
  BY <1>6
<1>9. back[day] = Cardinality(Run(set, day))
  BY <1>7, <1>8
<1> QED
  BY <1>4, <1>9

\* What the panel shows of one set of check-ins is at most the length of the window.
LEMMA StreakCounts ==
    ASSUME NEW asof \in Day, NEW set \in SUBSET Day
    PROVE  currentStreak(set, asof) =
               Cardinality(Run(set, IF asof \in set THEN asof ELSE asof - 1))
<1>1. set \in SUBSET Nat /\ asof \in Int /\ asof >= -1 /\ asof - 1 \in Int /\ asof - 1 >= -1
  BY WindowAssumption DEF Day
<1> QED
  BY <1>1, BackCounts DEF currentStreak

LEMMA StreakInWindow ==
    ASSUME NEW asof \in Day, NEW set \in SUBSET Day, \A d \in set : d >= since(asof)
    PROVE  currentStreak(set, asof) \in 0 .. Window
<1> DEFINE last == IF asof \in set THEN asof ELSE asof - 1
<1>1. /\ asof \in Nat /\ Window \in Nat \ {0} /\ since(asof) = asof - (Window - 1)
      /\ set \in SUBSET Nat /\ last \in Int /\ last <= asof
  BY WindowAssumption DEF Day, since
<1>2. \A d \in Run(set, last) : d \in since(asof) .. asof
  BY <1>1 DEF Run
<1>3. IsFiniteSet(since(asof) .. asof) /\ Cardinality(since(asof) .. asof) = Window
  <2>1. since(asof) \in Int /\ ~(since(asof) > asof) /\ asof - since(asof) + 1 = Window
    BY <1>1
  <2> QED
    BY <1>1, <2>1, FS_Interval
<1>4. Cardinality(Run(set, last)) <= Window
  BY <1>2, <1>3, FS_Subset
<1> QED
  BY <1>1, <1>4, RunFinite, StreakCounts

-----------------------------------------------------------------------------
(* The invariant.                                                          *)

\* The server has changed nothing that the panel has not been told of.
Told == \A s \in Slots : requests[s].at # "stored"

Kept == { h \in Habits : table[h] = "kept" }

Recent(h, asof) == { d \in CheckedDays(h) : d >= since(asof) }

\* A list of the habits there are, with their check-ins since the window as of its day.
Current(list) ==
    /\ list \in Listed
    /\ list.habits = Kept
    /\ \A h \in Kept : /\ list.checkins[h] = Recent(h, list.asof)
                       /\ list.streak[h] = currentStreak(list.checkins[h], list.asof)

\* Why the list is right: a read under way, begun or half done before a change of another
\* request, has been cancelled by the success of the change, or it is the first load,
\* which is then known to have missed it.
ListKnown ==
    /\ habitsQuery.fetch = "part" => habitsQuery.reply \in Listed
    /\ Told /\ ~unseen =>
          /\ habitsQuery.fetch = "idle" => Current(habitsQuery.data)
          /\ habitsQuery.fetch = "read" => Current(habitsQuery.reply)
          /\ habitsQuery.fetch = "part" => habitsQuery.reply.habits = Kept

PanelInv == TypeOK /\ today >= Window /\ ListKnown

-----------------------------------------------------------------------------
(* Types.                                                                  *)

\* What the operations of the cache make of a query.
LEMMA QueryTypes ==
    ASSUME NEW Data, NEW q \in Query(Data, Data)
    PROVE  /\ Invalidate(q) \in Query(Data, Data)
           /\ Receive(q) \in Query(Data, Data)
           /\ GiveUp(q) \in Query(Data, Data)
           /\ \A d \in Data : Answer(q, d) \in Query(Data, Data) /\ Partly(q, d) \in Query(Data, Data)
  BY DEF Query, Invalidate, Fetch, FirstLoad, Receive, GiveUp, Answer, Partly

\* What ListHabits and ListCheckins make of the answer.
LEMMA PartListed ==
    ASSUME TypeOK
    PROVE  [asof |-> today, habits |-> Kept, checkins |-> [h \in Habits |-> {}],
            streak |-> [h \in Habits |-> 0]] \in Listed
<1>1. 0 \in 0 .. Window
  BY WindowAssumption
<1> QED
  BY <1>1 DEF TypeOK, Listed, Kept

\* The check-ins that ListCheckins reads.
ReadCheckins(list) ==
    [h \in Habits |-> IF h \in list.habits
                      THEN { d \in Day : d >= since(list.asof) /\ << h, d >> \in checkins }
                      ELSE {}]

Completed(list) ==
    [list EXCEPT !.checkins = ReadCheckins(list),
                 !.streak = [h \in Habits |-> currentStreak(ReadCheckins(list)[h], list.asof)]]

LEMMA WholeListed ==
    ASSUME NEW list \in Listed
    PROVE  /\ Completed(list) \in Listed
           /\ Completed(list).asof = list.asof /\ Completed(list).habits = list.habits
           /\ Completed(list).checkins = ReadCheckins(list)
           /\ \A h \in Habits : Completed(list).streak[h] =
                                    currentStreak(ReadCheckins(list)[h], list.asof)
<1> DEFINE set == ReadCheckins(list)
<1>1. list.asof \in Day /\ set \in [Habits -> SUBSET Day]
  BY DEF Listed, ReadCheckins
<1>2. ASSUME NEW h \in Habits PROVE currentStreak(set[h], list.asof) \in 0 .. Window
  <2>1. set[h] \in SUBSET Day /\ \A d \in set[h] : d >= since(list.asof)
    BY <1>1 DEF ReadCheckins
  <2> QED
    BY <1>1, <2>1, StreakInWindow
<1> DEFINE streak == [h \in Habits |-> currentStreak(set[h], list.asof)]
<1>3. streak \in [Habits -> 0 .. Window]
  BY <1>2
<1>4. Completed(list) = [list EXCEPT !.checkins = set, !.streak = streak]
  BY DEF Completed
<1>5. \A h \in Habits : streak[h] = currentStreak(set[h], list.asof)
  OBVIOUS
<1> HIDE DEF set, streak
<1>6. /\ Completed(list) \in Listed
      /\ Completed(list).asof = list.asof /\ Completed(list).habits = list.habits
      /\ Completed(list).checkins = set /\ Completed(list).streak = streak
  BY <1>1, <1>3, <1>4 DEF Listed
<1> QED
  BY <1>5, <1>6 DEF set

\* The panel is mounted in a typed state.
LEMMA TypeInit == Init => TypeOK /\ today >= Window
<1> SUFFICES ASSUME Init PROVE TypeOK /\ today >= Window
  OBVIOUS
<1>1. today \in Day /\ today >= Window /\ 0 .. Window \subseteq Day
  BY WindowAssumption DEF Init, Day
<1>2. checkins \subseteq Habits \X Day /\ \A c \in checkins : table[c[1]] = "kept"
  BY <1>1 DEF Init
<1>3. table \in [Habits -> {"new", "kept", "deleted"}]
  BY DEF Init
<1>4. requests \in [Slots -> Request] /\ habitsQuery \in Query(Listed, Listed)
  BY DEF Init, Request, Query, Mounted
<1>5. unseen \in BOOLEAN /\ counted \in [Counted -> Nat]
  BY DEF Init
<1> QED
  BY <1>1, <1>2, <1>3, <1>4, <1>5 DEF TypeOK

\* Only what is counted grows.
LEMMA CountType == ASSUME TypeOK, NEW m \in Counted, Count(m) PROVE counted' \in [Counted -> Nat]
  BY DEF TypeOK, Count

\* The user's clicks keep the types: what is clicked is on the list.
LEMMA UserType == ASSUME TypeOK, today >= Window, NEW s \in Slots, User(s) PROVE TypeOK'
<1>1. ASSUME NEW op, NEW h, NEW d, Send(s, op, h, d),
             [at |-> "sent", op |-> op, habit |-> h, day |-> d] \in Request
      PROVE  TypeOK'
  <2>1. counted' \in [Counted -> Nat]
    BY <1>1, CountType DEF Send, Counted
  <2> QED
    BY <1>1, <2>1 DEF Send, TypeOK
<1>2. ShownHabits \subseteq Habits
  BY DEF ShownHabits, TypeOK, Query, Listed
<1>3. \A d \in (today - Window) .. today : d \in Day
  BY WindowAssumption DEF TypeOK, Day
<1>4. CASE ClickAdd(s)
  <2>1. [at |-> "sent", op |-> "create", habit |-> None, day |-> None] \in Request
    BY DEF Request
  <2> QED
    BY <1>1, <1>4, <2>1 DEF ClickAdd
<1>5. CASE ClickDelete(s)
  <2>1. \A h \in Habits : [at |-> "sent", op |-> "delete", habit |-> h, day |-> None] \in Request
    BY DEF Request
  <2> QED
    BY <1>1, <1>2, <1>5, <2>1 DEF ClickDelete
<1>6. CASE ClickDay(s)
  <2>1. PICK h \in ShownHabits, d \in (today - Window) .. today, op \in {"check", "uncheck"} :
           Send(s, op, h, d)
    BY <1>6 DEF ClickDay
  <2>2. [at |-> "sent", op |-> op, habit |-> h, day |-> d] \in Request
    BY <1>2, <1>3 DEF Request
  <2> QED
    BY <1>1, <2>1, <2>2
<1> QED
  BY <1>4, <1>5, <1>6 DEF User

\* The requests that a step leaves or changes in their own way.
LEMMA BecomeType ==
    ASSUME TypeOK, NEW s \in Slots, NEW at, [requests[s] EXCEPT !.at = at] \in Request, Become(s, at)
    PROVE  requests' \in [Slots -> Request]
  BY DEF Become, TypeOK

\* The server's answers keep the types; the check-ins of a habit go with it.
LEMMA ServerType == ASSUME TypeOK, NEW s \in Slots, Server(s) PROVE TypeOK'
<1>1. requests[s] \in Request /\ Idle \in Request
  BY DEF TypeOK, Request
<1>2. \/ requests[s] = Idle
      \/ requests[s].op \in {"create", "delete"} /\ requests[s].habit \in Habits \cup {None}
      \/ requests[s].op \in {"check", "uncheck"} /\ << requests[s].habit, requests[s].day >> \in Habits \X Day
  BY <1>1 DEF Request
<1>3. ASSUME requests[s].at = "sent", requests[s].op \in {"create", "delete"}
      PROVE  [requests[s] EXCEPT !.at = "stored"] \in Request
  BY <1>1, <1>3 DEF Request, Idle
<1>4. ASSUME requests[s].op \in {"check", "uncheck"}, requests[s].at # "idle"
      PROVE  \A at \in {"owned", "stored"} : [requests[s] EXCEPT !.at = at] \in Request
  BY <1>1, <1>4 DEF Request, Idle
<1>5. CASE CreateHabit(s)
  <2>1. requests' \in [Slots -> Request]
    BY <1>3, <1>5, BecomeType DEF CreateHabit
  <2>2. PICK h \in Habits : table[h] = "new" /\ table' = [table EXCEPT ![h] = "kept"]
    BY <1>5 DEF CreateHabit
  <2>3. table' \in [Habits -> {"new", "kept", "deleted"}] /\ \A c \in checkins : table'[c[1]] = "kept"
    BY <2>2 DEF TypeOK
  <2> QED
    BY <1>5, <2>1, <2>3 DEF CreateHabit, TypeOK
<1>6. CASE DeleteHabit(s)
  <2>1. CASE table[requests[s].habit] = "kept"
    <3>1. requests' \in [Slots -> Request]
      BY <1>3, <1>6, <2>1, BecomeType DEF DeleteHabit
    <3>2. /\ table' = [table EXCEPT ![requests[s].habit] = "deleted"]
          /\ checkins' = { c \in checkins : c[1] # requests[s].habit }
      BY <1>6, <2>1 DEF DeleteHabit
    <3>3. table' \in [Habits -> {"new", "kept", "deleted"}]
      BY <3>2 DEF TypeOK
    <3>4. \A c \in checkins' : c \in Habits \X Day /\ table'[c[1]] = "kept"
      BY <3>2 DEF TypeOK
    <3> QED
      BY <1>6, <3>1, <3>3, <3>4 DEF DeleteHabit, TypeOK
  <2>2. CASE table[requests[s].habit] # "kept"
    BY <1>1, <1>6, <2>2 DEF DeleteHabit, TypeOK
  <2> QED
    BY <2>1, <2>2
<1>7. CASE ownedDay(s)
  <2>1. [requests[s] EXCEPT !.at = "owned"] \in Request
    BY <1>4, <1>7 DEF ownedDay
  <2> QED
    BY <1>1, <1>7, <2>1 DEF ownedDay, TypeOK
<1>8. CASE Check(s)
  <2>1. CASE table[requests[s].habit] = "kept"
    <3>1. requests' \in [Slots -> Request]
      BY <1>4, <1>8, <2>1, BecomeType DEF Check
    <3>2. << requests[s].habit, requests[s].day >> \in Habits \X Day
      BY <1>2, <1>8 DEF Check, Idle
    <3>3. checkins' \subseteq Habits \X Day /\ \A c \in checkins' : table[c[1]] = "kept"
      BY <1>8, <2>1, <3>2 DEF Check, TypeOK
    <3> QED
      BY <1>8, <3>1, <3>3 DEF Check, TypeOK
  <2>2. CASE table[requests[s].habit] # "kept"
    BY <1>1, <1>8, <2>2 DEF Check, TypeOK
  <2> QED
    BY <2>1, <2>2
<1>9. CASE Uncheck(s)
  <2>1. requests' \in [Slots -> Request]
    BY <1>4, <1>9, BecomeType DEF Uncheck
  <2> QED
    BY <1>9, <2>1 DEF Uncheck, TypeOK
<1> QED
  BY <1>5, <1>6, <1>7, <1>8, <1>9 DEF Server

\* The reads and the panel keep the types.
LEMMA ListType == TypeOK /\ ListKnown /\ (ListHabits \/ ListCheckins) => TypeOK'
<1> SUFFICES ASSUME TypeOK, ListKnown, ListHabits \/ ListCheckins PROVE TypeOK'
  OBVIOUS
<1>1. CASE ListHabits
  <2>1. habitsQuery' \in Query(Listed, Listed)
    BY <1>1, QueryTypes, PartListed DEF ListHabits, TypeOK, Kept
  <2> QED
    BY <1>1, <2>1 DEF ListHabits, TypeOK
<1>2. CASE ListCheckins
  <2>1. habitsQuery' = Answer(habitsQuery, Completed(habitsQuery.reply))
    BY <1>2 DEF ListCheckins, Completed, ReadCheckins
  <2>2. Completed(habitsQuery.reply) \in Listed
    BY <1>2, WholeListed DEF ListCheckins, ListKnown
  <2>3. habitsQuery' \in Query(Listed, Listed)
    BY <2>1, <2>2, QueryTypes DEF TypeOK
  <2> QED
    BY <1>2, <2>3 DEF ListCheckins, TypeOK
<1> QED
  BY <1>1, <1>2

LEMMA PanelType ==
    ASSUME TypeOK, \/ \E s \in Slots : Succeeds(s) \/ Fails(s)
                   \/ HabitsArrive \/ HabitsFail \/ NextDay
    PROVE  TypeOK'
<1>1. Idle \in Request
  BY DEF Request
<1>2. /\ Invalidate(habitsQuery) \in Query(Listed, Listed)
      /\ Receive(habitsQuery) \in Query(Listed, Listed)
      /\ GiveUp(habitsQuery) \in Query(Listed, Listed)
  BY QueryTypes DEF TypeOK
<1>3. ASSUME NEW s \in Slots, Succeeds(s) PROVE TypeOK'
  <2>1. requests[s] \in Request /\ requests[s].at = "stored"
    BY <1>3 DEF Succeeds, TypeOK
  <2>2. requests[s].op = "create" => [requests[s] EXCEPT !.at = "settling"] \in Request
    <3>1. SUFFICES ASSUME requests[s].op = "create"
                   PROVE  [requests[s] EXCEPT !.at = "settling"] \in Request
      OBVIOUS
    <3>2. requests[s] \in [at : {"sent", "stored"}, op : {"create", "delete"},
                           habit : Habits \cup {None}, day : {None}]
      BY <2>1, <3>1 DEF Request, Idle
    <3> QED
      BY <3>1, <3>2 DEF Request
  <2>3. requests' \in [Slots -> Request]
    BY <1>1, <1>3, <2>2 DEF Succeeds, TypeOK
  <2> QED
    BY <1>2, <1>3, <2>3 DEF Succeeds, TypeOK, FirstLoad
<1>4. ASSUME NEW s \in Slots, Fails(s) PROVE TypeOK'
  <2>1. counted' \in [Counted -> Nat]
    BY <1>4, CountType DEF Fails, Counted
  <2> QED
    BY <1>1, <1>4, <2>1 DEF Fails, TypeOK
<1>5. CASE HabitsArrive
  BY <1>1, <1>2, <1>5 DEF HabitsArrive, Settle, TypeOK
<1>6. CASE HabitsFail
  <2>1. counted' \in [Counted -> Nat]
    BY <1>6, CountType DEF HabitsFail, Counted
  <2> QED
    BY <1>1, <1>2, <1>6, <2>1 DEF HabitsFail, Settle, TypeOK
<1>7. CASE NextDay
  BY <1>7, WindowAssumption DEF NextDay, TypeOK, Day
<1> QED
  BY <1>3, <1>4, <1>5, <1>6, <1>7

-----------------------------------------------------------------------------
(* What is known of the list.                                              *)

\* Nothing has been shown when the panel is mounted.
LEMMA KnownInit == Init => ListKnown
  BY DEF Init, Mounted, ListKnown

\* A step that changes no table, no list and nothing the panel was told of.
LEMMA Untouched ==
    ASSUME ListKnown, UNCHANGED << table, checkins, habitsQuery, unseen >>, Told' => Told
    PROVE  ListKnown'
  BY DEF ListKnown, Current, Kept, Recent, CheckedDays

\* While a change is stored that the panel has not been told of, nothing is claimed.
LEMMA NotTold ==
    ASSUME TypeOK, ListKnown, UNCHANGED habitsQuery, NEW s \in Slots, requests'[s].at = "stored"
    PROVE  ListKnown'
  BY DEF ListKnown, Told

\* A click stores nothing.
LEMMA UserKnown == ASSUME TypeOK, ListKnown, NEW s \in Slots, User(s) PROVE ListKnown'
<1>1. PICK op \in {"create", "delete", "check", "uncheck"} : \E h, d : Send(s, op, h, d)
  BY DEF User, ClickAdd, ClickDelete, ClickDay
<1>2. Told' => Told
  BY <1>1 DEF Send, Told, TypeOK, Idle
<1> QED
  BY <1>1, <1>2, Untouched DEF Send

\* The server changes the tables and stores that it did, or changes nothing.
LEMMA ServerKnown == ASSUME TypeOK, ListKnown, NEW s \in Slots, Server(s) PROVE ListKnown'
<1>1. \/ requests'[s].at = "stored" /\ UNCHANGED habitsQuery
      \/ /\ UNCHANGED << table, checkins, habitsQuery, unseen >>
         /\ requests[s].at # "stored"
         /\ \A q \in Slots \ {s} : requests'[q] = requests[q]
  <2>1. \A at : Become(s, at) => requests'[s].at = at
    BY DEF Become, TypeOK, Request, Idle
  <2> QED
    BY <2>1 DEF Server, CreateHabit, DeleteHabit, ownedDay, Check, Uncheck, TypeOK
<1>2. CASE requests'[s].at = "stored" /\ UNCHANGED habitsQuery
  BY <1>2, NotTold
<1>3. CASE /\ UNCHANGED << table, checkins, habitsQuery, unseen >>
           /\ requests[s].at # "stored"
           /\ \A q \in Slots \ {s} : requests'[q] = requests[q]
  <2>1. Told' => Told
    BY <1>3 DEF Told
  <2> QED
    BY <1>3, <2>1, Untouched
<1> QED
  BY <1>1, <1>2, <1>3

\* The habits are read first and their check-ins after: of a habit deleted in between
\* there are none, and the deletion is not told yet.
LEMMA ReadKnown == TypeOK /\ ListKnown /\ (ListHabits \/ ListCheckins) => ListKnown'
<1> SUFFICES ASSUME TypeOK, ListKnown, ListHabits \/ ListCheckins PROVE ListKnown'
  OBVIOUS
<1>1. UNCHANGED << table, checkins, unseen, requests >> /\ Told' = Told /\ Kept' = Kept
  BY DEF ListHabits, ListCheckins, Told, Kept
<1>2. CASE ListHabits
  <2>1. /\ habitsQuery'.fetch = "part"
        /\ habitsQuery'.reply = [asof |-> today, habits |-> Kept,
                                 checkins |-> [h \in Habits |-> {}], streak |-> [h \in Habits |-> 0]]
    BY <1>2 DEF ListHabits, Partly, Kept, TypeOK, Query
  <2>2. habitsQuery'.reply \in Listed /\ habitsQuery'.reply.habits = Kept
    BY <2>1, PartListed
  <2> QED
    BY <1>1, <2>1, <2>2 DEF ListKnown
<1>3. CASE ListCheckins
  <2> DEFINE list == habitsQuery.reply
  <2>1. list \in Listed /\ (Told /\ ~unseen => list.habits = Kept)
    BY <1>3 DEF ListCheckins, ListKnown
  <2>2. habitsQuery'.fetch = "read" /\ habitsQuery'.reply = Completed(list)
    BY <1>3 DEF ListCheckins, Answer, Completed, ReadCheckins, TypeOK, Query
  <2>3. list.asof \in Day /\ \A h \in list.habits \cap Habits : ReadCheckins(list)[h] = Recent(h, list.asof)
    BY <2>1 DEF ReadCheckins, Recent, CheckedDays, Listed
  <2>4. ASSUME Told, ~unseen PROVE Current(Completed(list))
    <3>1. list.habits = Kept /\ Kept \subseteq Habits
      BY <2>1, <2>4 DEF Kept
    <3> QED
      BY <2>1, <2>3, <3>1, WholeListed DEF Current
  <2>5. Told' /\ ~unseen' => Current(habitsQuery.reply)'
    BY <1>1, <2>2, <2>4 DEF Current, Kept, Recent, CheckedDays
  <2> QED
    BY <2>2, <2>5 DEF ListKnown
<1> QED
  BY <1>2, <1>3

\* A success refetches, unless it joins the first load; a failure is not told.
LEMMA PanelKnown ==
    ASSUME TypeOK, ListKnown, \/ \E s \in Slots : Succeeds(s) \/ Fails(s)
                              \/ HabitsArrive \/ HabitsFail \/ NextDay
    PROVE  ListKnown'
<1>1. ASSUME NEW s \in Slots, Succeeds(s) PROVE ListKnown'
  <2>1. habitsQuery' = Invalidate(habitsQuery) /\ unseen' = FirstLoad(habitsQuery)
    BY <1>1 DEF Succeeds
  <2>2. CASE FirstLoad(habitsQuery)
    BY <2>1, <2>2 DEF ListKnown, Invalidate
  <2>3. CASE ~FirstLoad(habitsQuery)
    <3>1. habitsQuery'.fetch = "sent"
      BY <2>1, <2>3 DEF Invalidate, Fetch, TypeOK, Query
    <3> QED
      BY <3>1 DEF ListKnown
  <2> QED
    BY <2>2, <2>3
<1>2. ASSUME NEW s \in Slots, Fails(s) PROVE ListKnown'
  <2>1. CASE unseen'
    BY <1>2, <2>1 DEF Fails, ListKnown
  <2>2. CASE ~unseen'
    <3>1. ~unseen /\ requests[s].at # "stored"
      BY <1>2, <2>2 DEF Fails
    <3>2. (Told' => Told) /\ UNCHANGED << table, checkins, habitsQuery >>
      BY <1>2, <3>1 DEF Fails, Told, TypeOK
    <3>3. UNCHANGED unseen
      BY <2>2, <3>1, <1>2 DEF Fails, TypeOK
    <3> QED
      BY <3>2, <3>3, Untouched
  <2> QED
    BY <2>1, <2>2
<1>3. CASE HabitsArrive
  <2>1. habitsQuery'.fetch = "idle" /\ habitsQuery'.data = habitsQuery.reply
    BY <1>3 DEF HabitsArrive, Receive
  <2>2. Told /\ ~unseen => Current(habitsQuery.reply)
    BY <1>3 DEF HabitsArrive, ListKnown
  <2>3. Told' => Told
    BY <1>3 DEF HabitsArrive, Settle, Told
  <2> QED
    BY <1>3, <2>1, <2>2, <2>3 DEF HabitsArrive, ListKnown, Current, Kept, Recent, CheckedDays
<1>4. CASE HabitsFail
  <2>1. habitsQuery'.fetch = "idle" /\ unseen'
    BY <1>4 DEF HabitsFail, GiveUp, TypeOK, Query
  <2> QED
    BY <2>1 DEF ListKnown
<1>5. CASE NextDay
  BY <1>5, Untouched DEF NextDay, Told
<1> QED
  BY <1>1, <1>2, <1>3, <1>4, <1>5

\* Every step keeps the invariant.
LEMMA InvStep == PanelInv /\ [Next]_vars => PanelInv'
<1> SUFFICES ASSUME PanelInv, [Next]_vars PROVE PanelInv'
  OBVIOUS
<1>1. today' >= Window
  <2>1. today' = today \/ today' = today + 1
    BY DEF Next, vars, NextDay, User, ClickAdd, ClickDelete, ClickDay, Send, Server, CreateHabit,
           DeleteHabit, ownedDay, Check, Uncheck, Succeeds, Fails, ListHabits, ListCheckins,
           HabitsArrive, HabitsFail
  <2> QED
    BY <2>1, WindowAssumption DEF PanelInv, TypeOK, Day
<1>2. CASE \E s \in Slots : User(s)
  BY <1>1, <1>2, UserType, UserKnown DEF PanelInv
<1>3. CASE \E s \in Slots : Server(s)
  BY <1>1, <1>3, ServerType, ServerKnown DEF PanelInv
<1>4. CASE ListHabits \/ ListCheckins
  BY <1>1, <1>4, ListType, ReadKnown DEF PanelInv
<1>5. CASE \/ \E s \in Slots : Succeeds(s) \/ Fails(s)
           \/ HabitsArrive \/ HabitsFail \/ NextDay
  BY <1>1, <1>5, PanelType, PanelKnown DEF PanelInv
<1>6. CASE UNCHANGED vars
  <2>1. TypeOK'
    BY <1>6 DEF vars, PanelInv, TypeOK
  <2>2. ListKnown'
    BY <1>6, Untouched DEF vars, PanelInv, Told
  <2> QED
    BY <1>1, <2>1, <2>2 DEF PanelInv
<1> QED
  BY <1>2, <1>3, <1>4, <1>5, <1>6 DEF Next

\* The invariant holds.
LEMMA InvHolds == Spec => []PanelInv
<1>1. Init => PanelInv
  BY TypeInit, KnownInit DEF PanelInv
<1> QED
  BY <1>1, InvStep, PTL DEF Spec

-----------------------------------------------------------------------------
\* Every variable of the habits and their panel keeps its type.
THEOREM TypeCorrect == Spec => []TypeOK
<1>1. PanelInv => TypeOK
  BY DEF PanelInv
<1> QED
  BY <1>1, InvHolds, PTL

\* A settled panel has a list that is current.
LEMMA QuietIsCurrent ==
    ASSUME PanelInv, Quiet
    PROVE  habitsQuery.data # Undefined /\ Current(habitsQuery.data)
<1>1. Told
  BY DEF Quiet, Told, Idle
<1>2. Current(habitsQuery.data)
  BY <1>1 DEF PanelInv, ListKnown, Quiet
<1> QED
  BY <1>2, UndefinedAssumption DEF Current

\* habits-panel.tsx: once no request is on its way, the panel shows the habits there are
\* with their check-ins of the window, however many requests overlapped.
THEOREM ListIsTrue == Spec => []ShownIsTrue
<1>1. PanelInv => ShownIsTrue
  <2> SUFFICES ASSUME PanelInv, Quiet
               PROVE  /\ ShownHabits = Kept
                      /\ \A h \in ShownHabits :
                            habitsQuery.data.checkins[h] = Recent(h, habitsQuery.data.asof)
    BY DEF ShownIsTrue, Kept, Recent
  <2> QED
    BY QuietIsCurrent DEF ShownHabits, Current
<1> QED
  BY <1>1, InvHolds, PTL

\* service/habit.go: the streak that is shown is the number of consecutive checked days
\* that end on the day of the list or the day before, as far as the window goes, for a
\* window of any length and any set of check-ins.
THEOREM StreakIsCounted == Spec => []StreakIsRight
<1>1. PanelInv => StreakIsRight
  <2> SUFFICES ASSUME PanelInv, Quiet, NEW h \in ShownHabits
               PROVE  habitsQuery.data.streak[h] =
                          Cardinality({ d \in Streak(h, habitsQuery.data.asof) :
                                            d >= since(habitsQuery.data.asof) })
    BY DEF StreakIsRight
  <2> DEFINE asof == habitsQuery.data.asof
  <2> DEFINE set == Recent(h, asof)
  <2> DEFINE last == IF asof \in set THEN asof ELSE asof - 1
  <2>1. /\ h \in Habits /\ asof \in Day
        /\ habitsQuery.data.streak[h] = currentStreak(set, asof)
    BY QuietIsCurrent DEF ShownHabits, Current, Listed, Kept
  <2> HIDE DEF asof
  <2>2. set \in SUBSET Day /\ set = { d \in CheckedDays(h) : d >= since(asof) }
    BY DEF Recent, CheckedDays
  <2>3. asof \in set <=> asof \in CheckedDays(h)
    BY <2>1, <2>2, WindowAssumption DEF since, Day
  <2>4. habitsQuery.data.streak[h] = Cardinality(Run(set, last))
    BY <2>1, <2>2, StreakCounts
  <2>5. Streak(h, asof) = StreakDays(h, last)
    BY <2>3 DEF Streak
  <2>6. last \in Int /\ since(asof) \in Int
    BY <2>1, WindowAssumption DEF since, Day
  <2> HIDE DEF set, last
  <2>7. Run(set, last) = { d \in StreakDays(h, last) : d >= since(asof) }
    <3>1. \A d \in Day : d .. last \subseteq Int /\ \A e \in d .. last : e >= d
      BY <2>6 DEF Day
    <3>2. \A d \in Day : d >= since(asof) =>
             (d .. last \subseteq set <=> d .. last \subseteq CheckedDays(h))
      BY <2>2, <2>6, <3>1 DEF Day
    <3>3. \A d \in Day : d <= last => d \in d .. last
      BY <2>6 DEF Day
    <3> QED
      BY <2>2, <3>2, <3>3 DEF Run, StreakDays
  <2> QED
    BY <2>4, <2>5, <2>7 DEF asof
<1> QED
  BY <1>1, InvHolds, PTL

=============================================================================
