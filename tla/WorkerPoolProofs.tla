-------------------------- MODULE WorkerPoolProofs --------------------------
(***************************************************************************)
(* Theorems about WorkerPool, for any set of jobs, processes and workers,  *)
(* any limits on the attempts and any number of mishaps; first what the    *)
(* list operations of JobQueue keep, add and remove, and last what holds   *)
(* when there is one process.                                              *)
(***************************************************************************)
EXTENDS WorkerPool, WellFoundedInduction, SequenceTheorems, TLAPS

-----------------------------------------------------------------------------
(* The Redis commands on a list.                                           *)

\* A non-empty set of natural numbers has a least element.
LEMMA MinOfNats ==
    ASSUME NEW S, S \subseteq Nat, S # {}
    PROVE  Min(S) \in S /\ \A k \in S : Min(S) <= k
<1> DEFINE R == OpToRel(<, Nat)
<1>1. \A k, m \in Nat : k < m => << k, m >> \in R
  <2> SUFFICES ASSUME NEW k \in Nat, NEW m \in Nat, k < m
               PROVE  << k, m >> \in OpToRel(<, Nat)
    OBVIOUS
  <2> DEFINE ss == << k, m >>
  <2>1. ss \in Nat \X Nat /\ ss[1] < ss[2]
    OBVIOUS
  <2> HIDE DEF ss
  <2>2. ss \in { s \in Nat \X Nat : s[1] < s[2] }
    BY <2>1
  <2>3. ss \in OpToRel(<, Nat)
    BY ONLY <2>2, Zenon DEF OpToRel
  <2> QED
    BY <2>3 DEF ss
<1>2. PICK m \in S : \A k \in S : ~ (<< k, m >> \in R)
  BY NatLessThanWellFounded, WFMin
<1> HIDE DEF R
<1>3. \A k \in S : m <= k
  <2> SUFFICES ASSUME NEW k \in S, ~ (m <= k)
               PROVE  FALSE
    OBVIOUS
  <2>1. k \in Nat /\ m \in Nat /\ k < m
    OBVIOUS
  <2>2. << k, m >> \in R
    BY <2>1, <1>1
  <2>3. ~ (<< k, m >> \in R)
    BY <1>2
  <2> QED
    BY <2>2, <2>3
<1> QED
  BY <1>3 DEF Min

\* Ids is the image of Range.
LEMMA IdsOfRange ==
    ASSUME NEW list \in Seq(Entry)
    PROVE  /\ Range(list) \subseteq Entry
           /\ Ids(list) \subseteq Jobs
           /\ \A e \in Range(list) : e.id \in Ids(list)
           /\ \A j \in Ids(list) : \E e \in Range(list) : e.id = j
<1>1. DOMAIN list = 1 .. Len(list) /\ \A i \in 1 .. Len(list) : list[i] \in Entry
  BY LenProperties, ElementOfSeq
<1> QED
  BY <1>1 DEF Range, Ids, Entry

\* LPUSH adds its entry and keeps everything.
LEMMA LPushProperties ==
    ASSUME NEW list \in Seq(Entry), NEW e \in Entry
    PROVE  /\ LPush(list, e) \in Seq(Entry)
           /\ Range(LPush(list, e)) = Range(list) \cup {e}
           /\ Ids(LPush(list, e)) = Ids(list) \cup {e.id}
           /\ Distinct(list) /\ e.id \notin Ids(list) => Distinct(LPush(list, e))
<1> DEFINE new == LPush(list, e)
<1>1. << e >> \in Seq(Entry) /\ Len(<< e >>) = 1 /\ << e >>[1] = e
  OBVIOUS
<1>2. /\ new \in Seq(Entry)
      /\ Len(new) = 1 + Len(list)
      /\ \A i \in 1 .. 1 + Len(list) : new[i] = IF i <= 1 THEN << e >>[i] ELSE list[i - 1]
  BY <1>1, ConcatProperties DEF LPush
<1>3. Len(list) \in Nat /\ DOMAIN list = 1 .. Len(list) /\ DOMAIN new = 1 .. 1 + Len(list)
  BY <1>2, LenProperties
<1>4. new[1] = e /\ \A i \in 1 .. Len(list) : new[i + 1] = list[i]
  BY <1>1, <1>2, <1>3
<1>5. \A i \in DOMAIN new : i = 1 \/ (i - 1 \in DOMAIN list /\ new[i] = list[i - 1])
  BY <1>1, <1>2, <1>3
<1>6. \A i \in DOMAIN list : i + 1 \in DOMAIN new /\ new[i + 1] = list[i]
  BY <1>3, <1>4
<1>7. 1 \in DOMAIN new
  BY <1>3
<1> HIDE DEF new
<1>8. Range(new) = Range(list) \cup {e}
  BY <1>4, <1>5, <1>6, <1>7 DEF Range
<1>9. Ids(new) = Ids(list) \cup {e.id}
  BY <1>4, <1>5, <1>6, <1>7 DEF Ids
<1>10. ASSUME Distinct(list), e.id \notin Ids(list)
       PROVE  Distinct(new)
  <2> SUFFICES ASSUME NEW i \in DOMAIN new, NEW k \in DOMAIN new, new[i].id = new[k].id
               PROVE  i = k
    BY DEF Distinct
  <2>1. i \in Int /\ k \in Int
    BY <1>3
  <2>2. CASE i = 1 /\ k # 1
    BY <2>2, <1>4, <1>5, <1>10 DEF Ids
  <2>3. CASE k = 1 /\ i # 1
    BY <2>3, <1>4, <1>5, <1>10 DEF Ids
  <2>4. CASE i # 1 /\ k # 1
    BY <2>4, <2>1, <1>5, <1>10 DEF Distinct
  <2> QED
    BY <2>2, <2>3, <2>4
<1> QED
  BY <1>2, <1>8, <1>9, <1>10 DEF new

\* Taking the last entry leaves all the others.
LEMMA PopProperties ==
    ASSUME NEW list \in Seq(Entry), list # << >>
    PROVE  /\ Front(list) \in Seq(Entry)
           /\ Last(list) \in Entry
           /\ Range(list) = Range(Front(list)) \cup {Last(list)}
           /\ Ids(list) = Ids(Front(list)) \cup {Last(list).id}
           /\ Distinct(list) => Distinct(Front(list)) /\ Last(list).id \notin Ids(Front(list))
<1> DEFINE n == Len(list)
           new == Front(list)
<1>1. n \in Nat \ {0} /\ DOMAIN list = 1 .. n
  BY LenProperties, EmptySeq
<1>2. \A i \in 1 .. n : list[i] \in Entry
  BY <1>1, ElementOfSeq
<1>3. /\ new \in Seq(Entry)
      /\ Len(new) = IF 1 <= n - 1 THEN n - 1 ELSE 0
      /\ \A i \in 1 .. (n - 1) - 1 + 1 : new[i] = list[1 + i - 1]
  BY <1>1, <1>2, SubSeqProperties DEF Front
<1> HIDE DEF n, new
<1>4. Len(new) = n - 1 /\ \A i \in 1 .. n - 1 : new[i] = list[i]
  <2>1. Len(new) = n - 1
    <3>1. n \in Nat \ {0} /\ Len(new) = IF 1 <= n - 1 THEN n - 1 ELSE 0
      BY <1>1, <1>3
    <3> QED
      BY ONLY <3>1
  <2>2. ASSUME NEW i \in 1 .. n - 1
        PROVE  new[i] = list[i]
    <3>1. i \in 1 .. (n - 1) - 1 + 1 /\ 1 + i - 1 = i
      BY <1>1
    <3>2. new[i] = list[1 + i - 1]
      BY <1>3, <3>1
    <3> QED
      BY <3>1, <3>2
  <2> QED
    BY <2>1, <2>2
<1>5. DOMAIN new = 1 .. n - 1
  BY <1>3, <1>4, LenProperties
<1>6. Last(list) = list[n] /\ n \in DOMAIN list /\ n \notin DOMAIN new
  BY <1>1, <1>5 DEF Last, n
<1>7. \A i \in DOMAIN list : i # n => i \in DOMAIN new
  BY <1>1, <1>5
<1>8. \A i \in DOMAIN new : i \in DOMAIN list /\ new[i] = list[i]
  BY <1>1, <1>4, <1>5
<1>9. Last(list) \in Entry
  BY <1>1, <1>2, <1>6
<1>10. Range(list) = Range(new) \cup {Last(list)}
  BY <1>6, <1>7, <1>8 DEF Range
<1>11. Ids(list) = Ids(new) \cup {Last(list).id}
  BY <1>6, <1>7, <1>8 DEF Ids
<1>12. Distinct(list) => Distinct(new) /\ Last(list).id \notin Ids(new)
  BY <1>6, <1>8 DEF Ids, Distinct
<1> QED
  BY <1>3, <1>9, <1>10, <1>11, <1>12 DEF new

\* LREM 1 removes one occurrence of its entry, if there is one, and nothing else.
LEMMA LRemProperties ==
    ASSUME NEW list \in Seq(Entry), NEW e \in Entry
    PROVE  /\ LRem(list, e) \in Seq(Entry)
           /\ Range(LRem(list, e)) \subseteq Range(list)
           /\ Range(list) \subseteq Range(LRem(list, e)) \cup {e}
           /\ Ids(LRem(list, e)) \subseteq Ids(list)
           /\ Distinct(list) => Distinct(LRem(list, e))
           /\ Distinct(list) /\ e \in Range(list) => e.id \notin Ids(LRem(list, e))
<1> DEFINE n == Len(list)
           new == LRem(list, e)
<1>1. n \in Nat /\ DOMAIN list = 1 .. n
  BY LenProperties
<1>2. \A i \in 1 .. n : list[i] \in Entry
  BY <1>1, ElementOfSeq
<1>3. CASE ~ \E i \in 1 .. n : list[i] = e
  <2>1. new = list
    BY <1>3 DEF LRem, RemoveFirst
  <2>2. e \notin Range(list)
    BY <1>1, <1>3 DEF Range
  <2> QED
    BY <2>1, <2>2
<1>4. CASE \E i \in 1 .. n : list[i] = e
  <2> DEFINE I == { i \in 1 .. n : list[i] = e }
             k == Min(I)
             left == SubSeq(list, 1, k - 1)
             right == SubSeq(list, k + 1, n)
  <2>1. I \subseteq Nat /\ I # {}
    BY <1>4
  <2>2. k \in I
    BY <2>1, MinOfNats
  <2>3. new = left \o right
    BY <1>4, <2>1 DEF LRem, RemoveFirst, RemoveAt, SelectInSeq
  <2>4. k \in 1 .. n /\ list[k] = e
    BY <2>2
  <2> HIDE DEF I, k
  <2>5. /\ left \in Seq(Entry)
        /\ Len(left) = k - 1
        /\ \A i \in 1 .. k - 1 : left[i] = list[i]
    <3>1. k - 1 \in Int /\ \A i \in 1 .. k - 1 : list[i] \in Entry
      BY <1>1, <1>2, <2>4
    <3>2. /\ left \in Seq(Entry)
          /\ Len(left) = IF 1 <= k - 1 THEN k - 1 - 1 + 1 ELSE 0
          /\ \A i \in 1 .. k - 1 - 1 + 1 : left[i] = list[1 + i - 1]
      BY <3>1, SubSeqProperties
    <3> QED
      BY <3>2, <2>4, <1>1
  <2>6. /\ right \in Seq(Entry)
        /\ Len(right) = n - k
        /\ \A i \in 1 .. n - k : right[i] = list[k + i]
    <3>1. k + 1 \in Int /\ n \in Int /\ \A i \in k + 1 .. n : list[i] \in Entry
      BY <1>1, <1>2, <2>4
    <3>2. /\ right \in Seq(Entry)
          /\ Len(right) = IF k + 1 <= n THEN n - (k + 1) + 1 ELSE 0
          /\ \A i \in 1 .. n - (k + 1) + 1 : right[i] = list[(k + 1) + i - 1]
      BY <3>1, SubSeqProperties
    <3>3. Len(right) = n - k
      <4>1. n \in Nat /\ k \in Nat /\ k <= n
        BY <1>1, <2>4
      <4>2. Len(right) = IF k + 1 <= n THEN n - (k + 1) + 1 ELSE 0
        BY <3>2
      <4> HIDE DEF n, right
      <4> QED
        BY <4>1, <4>2
    <3>4. ASSUME NEW i \in 1 .. n - k
          PROVE  right[i] = list[k + i]
      <4>1. i \in 1 .. n - (k + 1) + 1 /\ (k + 1) + i - 1 = k + i
        BY <1>1, <2>4
      <4>2. right[i] = list[(k + 1) + i - 1]
        BY <3>2, <4>1
      <4> QED
        BY <4>1, <4>2
    <3> QED
      BY <3>2, <3>3, <3>4
  <2> HIDE DEF left, right
  <2>7. /\ new \in Seq(Entry)
        /\ Len(new) = (k - 1) + (n - k)
        /\ \A i \in 1 .. (k - 1) + (n - k) :
              new[i] = IF i <= k - 1 THEN left[i] ELSE right[i - (k - 1)]
    <3>1. left \in Seq(Entry) /\ right \in Seq(Entry)
      BY <2>5, <2>6
    <3>2. /\ new \in Seq(Entry)
          /\ Len(new) = Len(left) + Len(right)
          /\ \A i \in 1 .. Len(left) + Len(right) :
                new[i] = IF i <= Len(left) THEN left[i] ELSE right[i - Len(left)]
      BY <2>3, <3>1, ConcatProperties
    <3> QED
      BY <2>5, <2>6, <3>2
  <2> HIDE DEF new
  <2>8. DOMAIN new = 1 .. n - 1
    BY <1>1, <2>4, <2>7, LenProperties
  <2> DEFINE Old(i) == IF i < k THEN i ELSE i + 1
             Pos(i) == IF i < k THEN i ELSE i - 1
  <2>9. \A i \in 1 .. n - 1 : Old(i) \in 1 .. n /\ Old(i) # k /\ new[i] = list[Old(i)]
    <3> SUFFICES ASSUME NEW i \in 1 .. n - 1
                 PROVE  Old(i) \in 1 .. n /\ Old(i) # k /\ new[i] = list[Old(i)]
      OBVIOUS
    <3>1. i \in 1 .. (k - 1) + (n - k)
      BY <1>1, <2>4
    <3>2. CASE i < k
      BY <3>1, <3>2, <1>1, <2>4, <2>5, <2>7
    <3>3. CASE ~ (i < k)
      <4>1. i - (k - 1) \in 1 .. n - k /\ k + (i - (k - 1)) = i + 1 /\ ~ (i <= k - 1)
        BY <3>3, <1>1, <2>4
      <4>2. new[i] = right[i - (k - 1)]
        BY <3>1, <4>1, <2>7
      <4>3. new[i] = list[k + (i - (k - 1))]
        BY <4>1, <4>2, <2>6
      <4>4. new[i] = list[i + 1] /\ i + 1 \in 1 .. n /\ i + 1 # k
        BY <4>1, <4>3, <3>3, <1>1, <2>4
      <4> QED
        BY <4>4, <3>3
    <3> QED
      BY <3>2, <3>3
  <2>10. \A i \in 1 .. n : i # k => Pos(i) \in 1 .. n - 1 /\ Old(Pos(i)) = i
    BY <1>1, <2>4
  <2>11. \A i, m \in 1 .. n - 1 : Old(i) = Old(m) => i = m
    BY <1>1, <2>4
  <2> HIDE DEF Old, Pos, n
  <2>12. Range(new) \subseteq Range(list) /\ Ids(new) \subseteq Ids(list)
    BY <1>1, <2>8, <2>9 DEF Range, Ids
  <2>13. Range(list) \subseteq Range(new) \cup {e}
    <3> SUFFICES ASSUME NEW i \in 1 .. n, list[i] # e
                 PROVE  list[i] \in Range(new)
      BY <1>1 DEF Range
    <3>1. Pos(i) \in DOMAIN new /\ new[Pos(i)] = list[i]
      BY <2>4, <2>8, <2>9, <2>10
    <3> QED
      BY <3>1 DEF Range
  <2>14. ASSUME Distinct(list)
         PROVE  Distinct(new) /\ e.id \notin Ids(new)
    <3>1. Distinct(new)
      BY <1>1, <2>8, <2>9, <2>11, <2>14 DEF Distinct
    <3>2. e.id \notin Ids(new)
      BY <1>1, <2>4, <2>8, <2>9, <2>14 DEF Distinct, Ids
    <3> QED
      BY <3>1, <3>2
  <2> QED
    BY <2>7, <2>12, <2>13, <2>14 DEF new
<1> QED
  BY <1>3, <1>4

-----------------------------------------------------------------------------
(* Types.                                                                  *)

\* What a worker's record is made of.
LEMMA WorkerStateType ==
    ASSUME NEW s \in WorkerState
    PROVE  /\ s.pc # "idle" => s.job \in Entry
           /\ s.pc = "idle" <=> s = IdleWorker
           /\ s.pc # "idle" => [s EXCEPT !.timely = FALSE] \in WorkerState
           /\ s.pc = "running" => [s EXCEPT !.pc = "acking"] \in WorkerState
           /\ s.pc = "running" => [s EXCEPT !.pc = "backoff"] \in WorkerState
<1> DEFINE Occupied == [pc : {"running", "acking", "backoff", "killing"}, job : Entry, timely : BOOLEAN]
<1>1. CASE s = IdleWorker
  BY <1>1 DEF IdleWorker
<1>2. CASE s \in Occupied
  <2>1. s.pc # "idle" /\ s # IdleWorker /\ s.job \in Entry
    BY <1>2 DEF IdleWorker
  <2>2. [s EXCEPT !.timely = FALSE] \in Occupied
    BY <1>2
  <2>3. [s EXCEPT !.pc = "acking"] \in Occupied /\ [s EXCEPT !.pc = "backoff"] \in Occupied
    BY <1>2
  <2>4. Occupied \subseteq WorkerState
    BY DEF WorkerState
  <2> QED
    BY <2>1, <2>2, <2>3, <2>4
<1> QED
  BY <1>1, <1>2 DEF WorkerState

\* A busy worker has a job.
LEMMA BusyJob ==
    ASSUME TypeOK, NEW p \in Procs, NEW w \in Workers, worker[p][w].pc # "idle"
    PROVE  /\ worker[p][w] \in WorkerState
           /\ worker[p][w].job \in Entry
           /\ worker[p][w].job.id \in Jobs
<1>1. worker[p][w] \in WorkerState
  BY DEF TypeOK
<1>2. worker[p][w].job \in Entry
  BY <1>1, WorkerStateType
<1> QED
  BY <1>1, <1>2 DEF Entry

\* A fresh job is an entry.
LEMMA NewJobType == ASSUME NEW j \in Jobs PROVE NewJob(j) \in Entry
  BY DEF NewJob, Entry

\* So is a job with one attempt more.
LEMMA AgainType ==
    ASSUME NEW e \in Entry
    PROVE  /\ [e EXCEPT !.attempt = @ + 1] \in Entry
           /\ [e EXCEPT !.attempt = @ + 1].id = e.id
           /\ [e EXCEPT !.attempt = @ + 1].attempt = e.attempt + 1
  BY DEF Entry

\* Every queue operation keeps the lists lists of entries.
LEMMA QueueTypeStep ==
    ASSUME QueueTypeOK,
           \/ UNCHANGED queueVars
           \/ \E j \in Jobs : Enqueue(j)
           \/ Claim \/ RecoverOne
           \/ \E e \in Entry : Ack(e) \/ Retry(e) \/ Kill(e) \/ DropPoison(e)
    PROVE  QueueTypeOK'
<1> USE DEF QueueTypeOK
<1>1. CASE UNCHANGED queueVars
  BY <1>1 DEF queueVars
<1>2. ASSUME NEW j \in Jobs, Enqueue(j) PROVE QueueTypeOK'
  BY <1>2, NewJobType, LPushProperties DEF Enqueue
<1>3. CASE Claim
  <2>1. Front(main) \in Seq(Entry) /\ Oldest \in Entry
    BY <1>3, PopProperties DEF Claim, Oldest
  <2> QED
    BY <1>3, <2>1, LPushProperties DEF Claim
<1>4. CASE RecoverOne
  <2>1. Front(processing) \in Seq(Entry) /\ Last(processing) \in Entry
    BY <1>4, PopProperties DEF RecoverOne
  <2> QED
    BY <1>4, <2>1, LPushProperties DEF RecoverOne
<1>5. ASSUME NEW e \in Entry, Ack(e) \/ Retry(e) \/ Kill(e) \/ DropPoison(e)
      PROVE  QueueTypeOK'
  <2>1. LRem(processing, e) \in Seq(Entry)
    BY LRemProperties
  <2> DEFINE again == [e EXCEPT !.attempt = @ + 1]
  <2>2. again \in Entry
    BY AgainType
  <2> HIDE DEF again
  <2>3. /\ LPush(main, again) \in Seq(Entry)
        /\ LPush(dead, again) \in Seq(Entry)
        /\ LPush(dead, e) \in Seq(Entry)
    BY <2>2, LPushProperties
  <2> QED
    BY <1>5, <2>1, <2>3 DEF Ack, Retry, Kill, DropPoison, again
<1> QED
  BY <1>1, <1>2, <1>3, <1>4, <1>5

\* The initial state is well typed.
LEMMA TypeInit == Init => TypeOK
  BY EmptySeq, NoEntryAssumption
  DEF Init, QueueInit, TypeOK, QueueTypeOK, WorkerState, IdleWorker, Mishaps

\* Counting a mishap keeps the counters natural and adds one to its own.
LEMMA SufferType ==
    ASSUME mishaps \in [Mishaps -> Nat], NEW m \in Mishaps, Suffer(m)
    PROVE  mishaps' \in [Mishaps -> Nat] /\ mishaps'[m] = mishaps[m] + 1
  BY DEF Suffer

\* Every step keeps the types.
LEMMA TypeStep == TypeOK /\ [Next]_vars => TypeOK'
<1> SUFFICES ASSUME TypeOK, [Next]_vars PROVE TypeOK'
  OBVIOUS
<1> USE DEF TypeOK
<1>1. CASE UNCHANGED vars
  BY <1>1, QueueTypeStep DEF vars, procVars, ghostVars
<1>2. ASSUME NEW j \in Jobs, Submit(j) PROVE TypeOK'
  BY <1>2, QueueTypeStep DEF Submit, procVars
<1>3. ASSUME NEW p \in Procs, Start(p) PROVE TypeOK'
  BY <1>3, QueueTypeStep DEF Start, ghostVars
<1>4. ASSUME NEW p \in Procs, Shutdown(p) PROVE TypeOK'
  BY <1>4, QueueTypeStep, SufferType DEF Shutdown, ghostVars, Mishaps
<1>5. ASSUME NEW p \in Procs, RecoverStep(p) PROVE TypeOK'
  <2>1. mishaps' \in [Mishaps -> Nat]
    BY <1>5, SufferType DEF RecoverStep, Mishaps
  <2> QED
    BY <1>5, <2>1, QueueTypeStep DEF RecoverStep, procVars, ghostVars
<1>6. ASSUME NEW p \in Procs, RecoverDone(p) PROVE TypeOK'
  <2>1. mishaps' \in [Mishaps -> Nat]
    BY <1>6, SufferType DEF RecoverDone, Mishaps
  <2> QED
    BY <1>6, <2>1, QueueTypeStep DEF RecoverDone, Loop, ghostVars
<1>7. ASSUME NEW p \in Procs, ClaimJob(p) PROVE TypeOK'
  <2>1. Oldest \in Entry
    BY <1>7, PopProperties DEF ClaimJob, Claim, Oldest, QueueTypeOK
  <2> QED
    BY <1>7, <2>1, QueueTypeStep DEF ClaimJob, ghostVars
<1>8. ASSUME NEW p \in Procs, DropBad(p) PROVE TypeOK'
  <2>1. offer[p] \in Entry /\ offer[p].id \in Jobs
    BY <1>8 DEF DropBad, Entry
  <2> QED
    BY <1>8, <2>1, QueueTypeStep, NoEntryAssumption DEF DropBad, Loop
<1>24. ASSUME NEW p \in Procs, DropFails(p) PROVE TypeOK'
  <2>1. mishaps' \in [Mishaps -> Nat]
    BY <1>24, SufferType DEF DropFails, Mishaps
  <2> QED
    BY <1>24, <2>1, QueueTypeStep, NoEntryAssumption DEF DropFails, Loop, ghostVars
<1>9. ASSUME NEW p \in Procs, ClaimLost(p) PROVE TypeOK'
  <2>1. mishaps' \in [Mishaps -> Nat]
    BY <1>9, SufferType DEF ClaimLost, Mishaps
  <2> QED
    BY <1>9, <2>1, QueueTypeStep DEF ClaimLost, Loop, ghostVars
<1>10. ASSUME NEW p \in Procs, ClaimNothing(p) PROVE TypeOK'
  BY <1>10, QueueTypeStep DEF ClaimNothing, Loop, ghostVars
<1>11. ASSUME NEW p \in Procs, NEW w \in Workers, HandOff(p, w) PROVE TypeOK'
  <2>1. offer[p] \in Entry /\ offer[p].id \in Jobs
    BY <1>11 DEF HandOff, Entry
  <2>2. \A pc2 \in {"running", "killing"} :
          [pc |-> pc2, job |-> offer[p], timely |-> TRUE] \in WorkerState
    BY <2>1 DEF WorkerState
  <2>3. worker' \in [Procs -> [Workers -> WorkerState]]
    BY <1>11, <2>2 DEF HandOff
  <2>4. runs' \in [Jobs -> Nat]
    BY <1>11, <2>1 DEF HandOff
  <2> QED
    BY <1>11, <2>3, <2>4, QueueTypeStep, NoEntryAssumption DEF HandOff, Loop
<1>12. ASSUME NEW p \in Procs, Abandon(p) PROVE TypeOK'
  BY <1>12, QueueTypeStep, NoEntryAssumption DEF Abandon, ghostVars
<1>13. ASSUME NEW p \in Procs, Stop(p) PROVE TypeOK'
  BY <1>13, QueueTypeStep DEF Stop, ghostVars
<1>14. ASSUME NEW p \in Procs, Crash(p) PROVE TypeOK'
  <2>1. mishaps' \in [Mishaps -> Nat]
    BY <1>14, SufferType DEF Crash, Mishaps
  <2>2. worker' \in [Procs -> [Workers -> WorkerState]]
    BY <1>14 DEF Crash, WorkerState
  <2> QED
    BY <1>14, <2>1, <2>2, QueueTypeStep, NoEntryAssumption DEF Crash, ghostVars
<1>15. ASSUME NEW p \in Procs, NEW w \in Workers, HandlerOk(p, w) PROVE TypeOK'
  <2>1. worker[p][w] \in WorkerState /\ worker[p][w].job.id \in Jobs
    BY <1>15, BusyJob DEF HandlerOk
  <2>2. worker' \in [Procs -> [Workers -> WorkerState]]
    BY <1>15, <2>1, WorkerStateType DEF HandlerOk
  <2> QED
    BY <1>15, <2>1, <2>2, QueueTypeStep DEF HandlerOk
<1>16. ASSUME NEW p \in Procs, NEW w \in Workers, HandlerFails(p, w) PROVE TypeOK'
  <2>1. worker' \in [Procs -> [Workers -> WorkerState]]
    BY <1>16, WorkerStateType DEF HandlerFails
  <2> QED
    BY <1>16, <2>1, QueueTypeStep DEF HandlerFails, ghostVars
<1>17. ASSUME NEW p \in Procs, NEW w \in Workers, Expire(p, w) PROVE TypeOK'
  <2>1. worker' \in [Procs -> [Workers -> WorkerState]]
    BY <1>17, WorkerStateType DEF Expire
  <2>2. mishaps' \in [Mishaps -> Nat]
    BY <1>17, SufferType DEF Expire, Mishaps
  <2> QED
    BY <1>17, <2>1, <2>2, QueueTypeStep DEF Expire, ghostVars
<1>18. ASSUME NEW p \in Procs, NEW w \in Workers, BackToIdle(p, w)
       PROVE  worker' \in [Procs -> [Workers -> WorkerState]]
  BY <1>18 DEF BackToIdle, WorkerState
<1>19. ASSUME NEW p \in Procs, NEW w \in Workers, worker[p][w].pc # "idle"
       PROVE  worker[p][w].job \in Entry /\ worker[p][w].job.id \in Jobs
  BY <1>19, BusyJob
<1>20. ASSUME NEW p \in Procs, NEW w \in Workers, AckJob(p, w) PROVE TypeOK'
  BY <1>20, <1>18, <1>19, QueueTypeStep DEF AckJob
<1>21. ASSUME NEW p \in Procs, NEW w \in Workers, RetryJob(p, w) PROVE TypeOK'
  BY <1>21, <1>18, <1>19, QueueTypeStep DEF RetryJob, ghostVars
<1>22. ASSUME NEW p \in Procs, NEW w \in Workers, KillJob(p, w) PROVE TypeOK'
  BY <1>22, <1>18, <1>19, QueueTypeStep DEF KillJob, ghostVars
<1>23. ASSUME NEW p \in Procs, NEW w \in Workers, SettleFails(p, w) PROVE TypeOK'
  <2>1. mishaps' \in [Mishaps -> Nat]
    BY <1>23, SufferType DEF SettleFails, Mishaps
  <2> QED
    BY <1>23, <1>18, <2>1, QueueTypeStep DEF SettleFails, ghostVars
<1> QED
  BY <1>1, <1>2, <1>3, <1>4, <1>5, <1>6, <1>7, <1>8, <1>9, <1>10, <1>11, <1>12,
     <1>13, <1>14, <1>15, <1>16, <1>17, <1>20, <1>21, <1>22, <1>23, <1>24
  DEF Next, RunGoroutine, WorkerGoroutine, Environment

\* The lists hold entries, the dispatcher has a delivery exactly while it is dropping
\* or sending it, and a worker has a job exactly while it is busy.
THEOREM TypeCorrect == Spec => []TypeOK
  BY TypeInit, TypeStep, PTL DEF Spec

-----------------------------------------------------------------------------
(* What the queue operations do to the sets of entries and of jobs.        *)

\* Enqueue adds one id to main, and no second copy of a new one.
LEMMA EnqueueEffect ==
    ASSUME QueueTypeOK, NEW j \in Jobs, Enqueue(j)
    PROVE  /\ Range(main') = Range(main) \cup {NewJob(j)}
           /\ Ids(main') = Ids(main) \cup {j}
           /\ Distinct(main) /\ j \notin Ids(main) => Distinct(main')
           /\ processing' = processing /\ dead' = dead
<1>1. NewJob(j) \in Entry /\ NewJob(j).id = j
  BY NewJobType DEF NewJob
<1> QED
  BY <1>1, LPushProperties DEF Enqueue, QueueTypeOK

\* Claim moves one id from main to processing.
LEMMA ClaimEffect ==
    ASSUME QueueTypeOK, Claim
    PROVE  /\ Oldest \in Entry
           /\ Range(main) = Range(main') \cup {Oldest}
           /\ Ids(main) = Ids(main') \cup {Oldest.id}
           /\ Range(processing') = Range(processing) \cup {Oldest}
           /\ Ids(processing') = Ids(processing) \cup {Oldest.id}
           /\ Distinct(main) => Distinct(main') /\ Oldest.id \notin Ids(main')
           /\ Distinct(processing) /\ Oldest.id \notin Ids(processing) => Distinct(processing')
           /\ dead' = dead
<1>1. Oldest \in Entry
  BY PopProperties DEF Claim, Oldest, QueueTypeOK
<1>2. /\ Range(main) = Range(main') \cup {Oldest}
      /\ Ids(main) = Ids(main') \cup {Oldest.id}
      /\ Distinct(main) => Distinct(main') /\ Oldest.id \notin Ids(main')
  BY PopProperties DEF Claim, Oldest, QueueTypeOK
<1> QED
  BY <1>1, <1>2, LPushProperties DEF Claim, QueueTypeOK

\* What Ack, Retry, Kill and Claim's own LREM have in common.
LEMMA LRemEffect ==
    ASSUME QueueTypeOK, NEW e \in Entry, processing' = LRem(processing, e)
    PROVE  /\ Range(processing') \subseteq Range(processing)
           /\ Range(processing) \subseteq Range(processing') \cup {e}
           /\ Ids(processing') \subseteq Ids(processing)
           /\ Ids(processing) \subseteq Ids(processing') \cup {e.id}
           /\ Distinct(processing) => Distinct(processing')
           /\ Distinct(processing) /\ e \in Range(processing) => e.id \notin Ids(processing')
<1>1. /\ processing' \in Seq(Entry)
      /\ Range(processing') \subseteq Range(processing)
      /\ Range(processing) \subseteq Range(processing') \cup {e}
      /\ Ids(processing') \subseteq Ids(processing)
      /\ Distinct(processing) => Distinct(processing')
      /\ Distinct(processing) /\ e \in Range(processing) => e.id \notin Ids(processing')
  BY LRemProperties DEF QueueTypeOK
<1>2. Ids(processing) \subseteq Ids(processing') \cup {e.id}
  BY <1>1, IdsOfRange DEF QueueTypeOK
<1> QED
  BY <1>1, <1>2

\* Retry takes one copy out of processing and adds the job to main or to dead.
LEMMA RetryEffect ==
    ASSUME QueueTypeOK, NEW e \in Entry, Retry(e)
    PROVE  \E again \in Entry :
             /\ again.id = e.id /\ again.attempt = e.attempt + 1
             /\ processing' = LRem(processing, e)
             /\ \/ /\ again.attempt >= maxAttempts(e.id)
                   /\ main' = main
                   /\ dead' = LPush(dead, again)
                   /\ Range(dead') = Range(dead) \cup {again}
                   /\ Ids(dead') = Ids(dead) \cup {e.id}
                   /\ Distinct(dead) /\ e.id \notin Ids(dead) => Distinct(dead')
                \/ /\ ~ (again.attempt >= maxAttempts(e.id))
                   /\ dead' = dead
                   /\ Range(main') = Range(main) \cup {again}
                   /\ Ids(main') = Ids(main) \cup {e.id}
                   /\ Distinct(main) /\ e.id \notin Ids(main) => Distinct(main')
<1> DEFINE again == [e EXCEPT !.attempt = @ + 1]
<1>1. again \in Entry /\ again.id = e.id /\ again.attempt = e.attempt + 1
  BY AgainType
<1>2. /\ processing' = LRem(processing, e)
      /\ IF again.attempt >= maxAttempts(e.id)
         THEN dead' = LPush(dead, again) /\ UNCHANGED main
         ELSE main' = LPush(main, again) /\ UNCHANGED dead
  BY DEF Retry
<1> HIDE DEF again
<1>3. CASE again.attempt >= maxAttempts(e.id)
  <2>1. /\ Range(dead') = Range(dead) \cup {again}
        /\ Ids(dead') = Ids(dead) \cup {again.id}
        /\ Distinct(dead) /\ again.id \notin Ids(dead) => Distinct(dead')
    <3>1. dead \in Seq(Entry) /\ again \in Entry
      BY <1>1 DEF QueueTypeOK
    <3>2. dead' = LPush(dead, again)
      BY <1>2, <1>3
    <3> QED
      BY <3>1, <3>2, LPushProperties
  <2> QED
    BY <1>1, <1>2, <1>3, <2>1
<1>4. CASE ~ (again.attempt >= maxAttempts(e.id))
  <2>1. /\ Range(main') = Range(main) \cup {again}
        /\ Ids(main') = Ids(main) \cup {again.id}
        /\ Distinct(main) /\ again.id \notin Ids(main) => Distinct(main')
    <3>1. main \in Seq(Entry) /\ again \in Entry
      BY <1>1 DEF QueueTypeOK
    <3>2. main' = LPush(main, again)
      BY <1>2, <1>4
    <3> QED
      BY <3>1, <3>2, LPushProperties
  <2> QED
    BY <1>1, <1>2, <1>4, <2>1
<1> QED
  BY <1>3, <1>4

\* Kill takes one copy out of processing and adds it to dead.
LEMMA KillEffect ==
    ASSUME QueueTypeOK, NEW e \in Entry, Kill(e)
    PROVE  /\ processing' = LRem(processing, e)
           /\ main' = main
           /\ Range(dead') = Range(dead) \cup {e}
           /\ Ids(dead') = Ids(dead) \cup {e.id}
           /\ Distinct(dead) /\ e.id \notin Ids(dead) => Distinct(dead')
  BY LPushProperties DEF Kill, QueueTypeOK

\* A step of Recover moves one id from processing to main.
LEMMA RecoverEffect ==
    ASSUME QueueTypeOK, RecoverOne
    PROVE  /\ Last(processing) \in Entry
           /\ Range(processing) = Range(processing') \cup {Last(processing)}
           /\ Ids(processing) = Ids(processing') \cup {Last(processing).id}
           /\ Range(main') = Range(main) \cup {Last(processing)}
           /\ Ids(main') = Ids(main) \cup {Last(processing).id}
           /\ Distinct(processing) =>
                 Distinct(processing') /\ Last(processing).id \notin Ids(processing')
           /\ Distinct(main) /\ Last(processing).id \notin Ids(main) => Distinct(main')
           /\ dead' = dead
<1>1. Last(processing) \in Entry
  BY PopProperties DEF RecoverOne, QueueTypeOK
<1>2. /\ Range(processing) = Range(processing') \cup {Last(processing)}
      /\ Ids(processing) = Ids(processing') \cup {Last(processing).id}
      /\ Distinct(processing) =>
            Distinct(processing') /\ Last(processing).id \notin Ids(processing')
  BY PopProperties DEF RecoverOne, QueueTypeOK
<1> QED
  BY <1>1, <1>2, LPushProperties DEF RecoverOne, QueueTypeOK

-----------------------------------------------------------------------------
(* No job is lost.                                                         *)

\* The steps of a worker leave the other workers as they are.
LEMMA WorkerSteps ==
    ASSUME TypeOK, NEW p \in Procs, NEW w \in Workers
    PROVE  /\ HandOff(p, w) => /\ worker'[p][w].job = offer[p]
                               /\ worker'[p][w].pc =
                                     IF offer[p].id \in Unknown THEN "killing" ELSE "running"
           /\ HandlerOk(p, w) => /\ worker'[p][w].pc = "acking"
                                 /\ worker'[p][w].job = worker[p][w].job
           /\ HandlerFails(p, w) => /\ worker'[p][w].pc = "backoff"
                                    /\ worker'[p][w].job = worker[p][w].job
           /\ Expire(p, w) => /\ worker'[p][w].pc = worker[p][w].pc
                              /\ worker'[p][w].job = worker[p][w].job
           /\ BackToIdle(p, w) => worker'[p][w] = IdleWorker
           /\ \/ HandOff(p, w) \/ HandlerOk(p, w) \/ HandlerFails(p, w)
              \/ Expire(p, w) \/ BackToIdle(p, w)
              => \A q \in Procs, v \in Workers :
                     q # p \/ v # w => worker'[q][v] = worker[q][v]
<1>1. worker \in [Procs -> [Workers -> WorkerState]]
  BY DEF TypeOK
<1>3. worker[p][w] \in WorkerState
  BY <1>1
<1>4. ASSUME worker[p][w].pc # "idle", NEW x
      PROVE  /\ [worker[p][w] EXCEPT !.pc = x].pc = x
             /\ [worker[p][w] EXCEPT !.pc = x].job = worker[p][w].job
             /\ [worker[p][w] EXCEPT !.timely = x].pc = worker[p][w].pc
             /\ [worker[p][w] EXCEPT !.timely = x].job = worker[p][w].job
  BY <1>3, <1>4 DEF WorkerState, IdleWorker
<1>5. ASSUME HandlerOk(p, w)
      PROVE  /\ worker'[p][w] = [worker[p][w] EXCEPT !.pc = "acking"]
             /\ \A q \in Procs, v \in Workers : q # p \/ v # w => worker'[q][v] = worker[q][v]
  BY <1>1, <1>5 DEF HandlerOk
<1>6. ASSUME HandlerFails(p, w)
      PROVE  /\ worker'[p][w] = [worker[p][w] EXCEPT !.pc = "backoff"]
             /\ \A q \in Procs, v \in Workers : q # p \/ v # w => worker'[q][v] = worker[q][v]
  BY <1>1, <1>6 DEF HandlerFails
<1>7. ASSUME Expire(p, w)
      PROVE  /\ worker'[p][w] = [worker[p][w] EXCEPT !.timely = FALSE]
             /\ \A q \in Procs, v \in Workers : q # p \/ v # w => worker'[q][v] = worker[q][v]
  BY <1>1, <1>7 DEF Expire
<1>8. ASSUME BackToIdle(p, w)
      PROVE  /\ worker'[p][w] = IdleWorker
             /\ \A q \in Procs, v \in Workers : q # p \/ v # w => worker'[q][v] = worker[q][v]
  BY <1>1, <1>8 DEF BackToIdle
<1>9. HandOff(p, w) => /\ worker'[p][w].job = offer[p]
                       /\ worker'[p][w].pc =
                             IF offer[p].id \in Unknown THEN "killing" ELSE "running"
                       /\ \A q \in Procs, v \in Workers :
                             q # p \/ v # w => worker'[q][v] = worker[q][v]
  BY <1>1 DEF HandOff
<1>10. HandlerOk(p, w) \/ HandlerFails(p, w) \/ Expire(p, w) => worker[p][w].pc # "idle"
  BY DEF HandlerOk, HandlerFails, Expire
<1>11. HandlerOk(p, w) => /\ worker'[p][w].pc = "acking"
                         /\ worker'[p][w].job = worker[p][w].job
  <2> SUFFICES ASSUME HandlerOk(p, w)
               PROVE  /\ worker'[p][w].pc = "acking"
                      /\ worker'[p][w].job = worker[p][w].job
    OBVIOUS
  <2>1. worker[p][w].pc # "idle"
    BY <1>10
  <2>2. worker'[p][w] = [worker[p][w] EXCEPT !.pc = "acking"]
    BY <1>5
  <2> QED
    BY <1>4, <2>1, <2>2
<1>12. HandlerFails(p, w) => /\ worker'[p][w].pc = "backoff"
                            /\ worker'[p][w].job = worker[p][w].job
  <2> SUFFICES ASSUME HandlerFails(p, w)
               PROVE  /\ worker'[p][w].pc = "backoff"
                      /\ worker'[p][w].job = worker[p][w].job
    OBVIOUS
  <2>1. worker[p][w].pc # "idle"
    BY <1>10
  <2>2. worker'[p][w] = [worker[p][w] EXCEPT !.pc = "backoff"]
    BY <1>6
  <2> QED
    BY <1>4, <2>1, <2>2
<1>13. Expire(p, w) => /\ worker'[p][w].pc = worker[p][w].pc
                      /\ worker'[p][w].job = worker[p][w].job
  <2> SUFFICES ASSUME Expire(p, w)
               PROVE  /\ worker'[p][w].pc = worker[p][w].pc
                      /\ worker'[p][w].job = worker[p][w].job
    OBVIOUS
  <2>1. worker[p][w].pc # "idle"
    BY <1>10
  <2>2. worker'[p][w] = [worker[p][w] EXCEPT !.timely = FALSE]
    BY <1>7
  <2> QED
    BY <1>4, <2>1, <2>2
<1>14. BackToIdle(p, w) => worker'[p][w] = IdleWorker
  BY <1>8
<1>15. ASSUME \/ HandOff(p, w) \/ HandlerOk(p, w) \/ HandlerFails(p, w)
              \/ Expire(p, w) \/ BackToIdle(p, w)
       PROVE  \A q \in Procs, v \in Workers : q # p \/ v # w => worker'[q][v] = worker[q][v]
  BY <1>15, <1>5, <1>6, <1>7, <1>8, <1>9
<1> QED
  BY <1>9, <1>11, <1>12, <1>13, <1>14, <1>15

\* A crash empties the workers of its own process and no other.
LEMMA CrashStep ==
    ASSUME TypeOK, NEW p \in Procs, Crash(p)
    PROVE  /\ \A v \in Workers : worker'[p][v] = IdleWorker
           /\ \A q \in Procs \ {p} : \A v \in Workers : worker'[q][v] = worker[q][v]
  BY DEF Crash, TypeOK

\* Initially no dispatcher has a delivery.
LEMMA ReadableInit == Init => Readable
  BY DEF Init, Readable

\* Only the claim gives the dispatcher one, and it looks at the payload.
LEMMA ReadableStep == TypeOK /\ Readable /\ [Next]_vars => Readable'
<1> SUFFICES ASSUME TypeOK, Readable, [Next]_vars PROVE Readable'
  OBVIOUS
<1>1. ASSUME NEW p \in Procs,
             \/ Start(p) \/ RecoverDone(p) \/ ClaimLost(p) \/ ClaimNothing(p) \/ Stop(p)
             \/ DropBad(p) \/ DropFails(p) \/ Abandon(p) \/ Crash(p)
             \/ \E w \in Workers : HandOff(p, w)
      PROVE  Readable'
  <2>1. pc'[p] \notin {"dropping", "sending"}
    BY <1>1 DEF Start, RecoverDone, ClaimLost, ClaimNothing, Stop, DropBad, DropFails, Abandon,
                Crash, HandOff, Loop, TypeOK
  <2>2. \A q \in Procs \ {p} : pc'[q] = pc[q] /\ offer'[q] = offer[q]
    BY <1>1 DEF Start, RecoverDone, ClaimLost, ClaimNothing, Stop, DropBad, DropFails, Abandon,
                Crash, HandOff, Loop, TypeOK
  <2> QED
    BY <2>1, <2>2 DEF Readable
<1>2. ASSUME NEW p \in Procs, ClaimJob(p) PROVE Readable'
  BY <1>2 DEF ClaimJob, Readable, TypeOK
<1>3. CASE UNCHANGED << pc, offer >>
  BY <1>3 DEF Readable
<1> QED
  BY <1>1, <1>2, <1>3
  DEF Next, vars, procVars, RunGoroutine, WorkerGoroutine, Environment, Submit, Shutdown,
      RecoverStep, HandlerOk, HandlerFails, Expire, AckJob, RetryJob, KillJob, SettleFails

\* Readable is an invariant.
LEMMA ReadableCorrect == Spec => []Readable
  BY TypeCorrect, ReadableInit, ReadableStep, PTL DEF Spec

\* Initially no job has been accepted.
LEMMA KeptInit == Init => JobsKept
  BY DEF Init, QueueInit, JobsKept, IdleWorker

\* No step loses a job.
LEMMA KeptStep == TypeOK /\ Readable /\ JobsKept /\ [Next]_vars => JobsKept'
<1> SUFFICES ASSUME TypeOK, Readable, JobsKept, [Next]_vars PROVE JobsKept'
  OBVIOUS
<1>0. QueueTypeOK
  BY DEF TypeOK
<1> USE DEF JobsKept
\* The steps that change neither the lists nor a worker.
<1>1. ASSUME UNCHANGED << queueVars, accepted, acked, dropped, succeeded, worker >>
      PROVE  JobsKept'
  BY <1>1 DEF queueVars
<1>2. ASSUME NEW j \in Jobs, Submit(j) PROVE JobsKept'
  BY <1>0, <1>2, EnqueueEffect DEF Submit, procVars
<1>3. ASSUME NEW p \in Procs, RecoverStep(p) PROVE JobsKept'
  BY <1>0, <1>3, RecoverEffect DEF RecoverStep, procVars, ghostVars
<1>4. ASSUME NEW p \in Procs, ClaimJob(p) \/ ClaimLost(p) PROVE JobsKept'
  BY <1>0, <1>4, ClaimEffect DEF ClaimJob, ClaimLost, ghostVars
<1>5. ASSUME NEW p \in Procs, DropBad(p) PROVE JobsKept'
  <2>1. offer[p] \in Entry /\ offer[p].id \in dropped' \cap Poison
    BY <1>5 DEF DropBad, Readable, TypeOK
  <2>2. Ids(processing) \subseteq Ids(processing') \cup {offer[p].id}
    BY <1>0, <1>5, <2>1, LRemEffect DEF DropBad, DropPoison
  <2> QED
    BY <1>5, <2>1, <2>2 DEF DropBad, DropPoison
<1>6. ASSUME NEW p \in Procs, NEW w \in Workers,
             HandOff(p, w) \/ HandlerFails(p, w) \/ Expire(p, w)
      PROVE  JobsKept'
  <2>1. UNCHANGED << main, processing, dead, accepted, acked, dropped, succeeded >>
    BY <1>6 DEF HandOff, HandlerFails, Expire, queueVars, ghostVars
  <2>2. \A q \in Procs, v \in Workers : worker'[q][v].pc = "acking" =>
            worker[q][v].pc = "acking" /\ worker'[q][v].job = worker[q][v].job
    BY <1>6, WorkerSteps
  <2> QED
    BY <2>1, <2>2
<1>7. ASSUME NEW p \in Procs, Crash(p) PROVE JobsKept'
  BY <1>7, CrashStep DEF Crash, queueVars, ghostVars, IdleWorker
<1>8. ASSUME NEW p \in Procs, NEW w \in Workers, HandlerOk(p, w) PROVE JobsKept'
  <2>1. UNCHANGED << main, processing, dead, accepted, acked, dropped >>
    BY <1>8 DEF HandlerOk, queueVars
  <2>2. succeeded' = succeeded \cup {worker[p][w].job.id}
    BY <1>8 DEF HandlerOk
  <2>3. \A q \in Procs, v \in Workers : worker'[q][v].pc = "acking" =>
            worker'[q][v].job.id \in succeeded'
    BY <1>8, <2>2, WorkerSteps
  <2> QED
    BY <2>1, <2>2, <2>3
<1>9. ASSUME NEW p \in Procs, NEW w \in Workers, BackToIdle(p, w), UNCHANGED succeeded
      PROVE  \A q \in Procs, v \in Workers : worker'[q][v].pc = "acking" =>
                 worker'[q][v].job.id \in succeeded'
  BY <1>9, WorkerSteps DEF IdleWorker
<1>10. ASSUME NEW p \in Procs, NEW w \in Workers, AckJob(p, w) PROVE JobsKept'
  <2>1. worker[p][w].job \in Entry
    BY <1>10, BusyJob DEF AckJob
  <2>2. Ids(processing) \subseteq Ids(processing') \cup {worker[p][w].job.id}
    BY <1>0, <1>10, <2>1, LRemEffect DEF AckJob, Ack
  <2>3. worker[p][w].job.id \in acked' \cap succeeded'
    BY <1>10 DEF AckJob
  <2> QED
    BY <1>9, <1>10, <2>2, <2>3 DEF AckJob, Ack
<1>11. ASSUME NEW p \in Procs, NEW w \in Workers, RetryJob(p, w) PROVE JobsKept'
  <2>1. worker[p][w].job \in Entry
    BY <1>11, BusyJob DEF RetryJob
  <2>2. /\ Ids(processing) \subseteq Ids(processing') \cup {worker[p][w].job.id}
        /\ \/ main' = main /\ Ids(dead') = Ids(dead) \cup {worker[p][w].job.id}
           \/ dead' = dead /\ Ids(main') = Ids(main) \cup {worker[p][w].job.id}
    BY <1>0, <1>11, <2>1, LRemEffect, RetryEffect DEF RetryJob
  <2> QED
    BY <1>9, <1>11, <2>2 DEF RetryJob, ghostVars
<1>12. ASSUME NEW p \in Procs, NEW w \in Workers, KillJob(p, w) PROVE JobsKept'
  <2>1. worker[p][w].job \in Entry
    BY <1>12, BusyJob DEF KillJob
  <2>2. /\ Ids(processing) \subseteq Ids(processing') \cup {worker[p][w].job.id}
        /\ main' = main /\ Ids(dead') = Ids(dead) \cup {worker[p][w].job.id}
    BY <1>0, <1>12, <2>1, LRemEffect, KillEffect DEF KillJob
  <2> QED
    BY <1>9, <1>12, <2>2 DEF KillJob, ghostVars
<1>13. ASSUME NEW p \in Procs, NEW w \in Workers, SettleFails(p, w) PROVE JobsKept'
  BY <1>9, <1>13 DEF SettleFails, queueVars, ghostVars
<1>14. ASSUME NEW p \in Procs,
              \/ Start(p) \/ Shutdown(p) \/ RecoverDone(p)
              \/ ClaimNothing(p) \/ DropFails(p) \/ Abandon(p) \/ Stop(p)
       PROVE  JobsKept'
  BY <1>1, <1>14
  DEF Start, Shutdown, RecoverDone, ClaimNothing, DropFails, Abandon, Stop, ghostVars
<1>15. CASE UNCHANGED vars
  BY <1>1, <1>15 DEF vars, procVars, ghostVars
<1> QED
  BY <1>2, <1>3, <1>4, <1>5, <1>6, <1>7, <1>8, <1>10, <1>11, <1>12, <1>13, <1>14, <1>15
  DEF Next, RunGoroutine, WorkerGoroutine, Environment

\* JobsKept is an invariant.
LEMMA KeptCorrect == Spec => []JobsKept
  BY TypeCorrect, ReadableCorrect, KeptInit, KeptStep, PTL DEF Spec

\* It is why no job is lost.
LEMMA KeptImplies == TypeOK /\ JobsKept => NoJobLost
<1> SUFFICES ASSUME TypeOK, JobsKept, NEW j \in accepted
             PROVE  Places(j) # {}
  BY DEF NoJobLost
<1>1. CASE j \in acked \cap succeeded
  BY <1>1 DEF Places
<1>2. CASE j \in dropped \cap Poison
  BY <1>2 DEF Places
<1>3. CASE j \in Ids(main)
  <2>1. PICK i \in DOMAIN main : main[i].id = j
    BY <1>3 DEF Ids
  <2>2. << "main", i >> \in Places(j)
    BY <2>1 DEF Places
  <2> QED
    BY <2>2
<1>4. CASE j \in Ids(processing)
  <2>1. PICK i \in DOMAIN processing : processing[i].id = j
    BY <1>4 DEF Ids
  <2>2. << "processing", i >> \in Places(j)
    BY <2>1 DEF Places
  <2> QED
    BY <2>2
<1>5. CASE j \in Ids(dead)
  <2>1. PICK i \in DOMAIN dead : dead[i].id = j
    BY <1>5 DEF Ids
  <2>2. << "dead", i >> \in Places(j)
    BY <2>1 DEF Places
  <2> QED
    BY <2>2
<1> QED
  BY <1>1, <1>2, <1>3, <1>4, <1>5 DEF JobsKept

\* Whatever the number of worker processes and of crashes, lost commands, expired
\* acknowledgements, shutdowns and steals, no accepted job is lost.
THEOREM NothingIsLost == Spec => []NoJobLost
  BY TypeCorrect, KeptCorrect, KeptImplies, PTL
-----------------------------------------------------------------------------
(* Dead letters are earned.                                                *)

\* Every job has at least one attempt.
LEMMA MaxAttemptsType == \A j \in Jobs : maxAttempts(j) \in Nat \ {0}
  BY DefaultAssumption, MaxAttemptsAssumption DEF maxAttempts

\* Initially there is no copy of any job.
LEMMA CountedInit == Init => AttemptsCounted
<1> SUFFICES ASSUME Init PROVE AttemptsCounted
  OBVIOUS
<1>1. Range(main) = {} /\ Range(processing) = {} /\ Range(dead) = {}
  BY DEF Init, QueueInit, Range
<1> QED
  BY <1>1 DEF Init, AttemptsCounted, DeadLetterEarned, Busy, IdleWorker

\* No step counts a failure that was not a run.
LEMMA CountedStep == TypeOK /\ AttemptsCounted /\ [Next]_vars => AttemptsCounted'
<1> SUFFICES ASSUME TypeOK, AttemptsCounted, [Next]_vars
             PROVE  AttemptsCounted'
  OBVIOUS
<1>0. /\ QueueTypeOK
      /\ runs \in [Jobs -> Nat]
      /\ Range(main) \subseteq Entry /\ Range(processing) \subseteq Entry /\ Range(dead) \subseteq Entry
  BY IdsOfRange DEF TypeOK, QueueTypeOK
<1> USE DEF AttemptsCounted, DeadLetterEarned, Live, Busy
<1>1. ASSUME UNCHANGED << queueVars, offer, worker, runs >>
      PROVE  AttemptsCounted'
  BY <1>1 DEF queueVars
<1>2. ASSUME NEW j \in Jobs, Submit(j) PROVE AttemptsCounted'
  <2>1. Live(NewJob(j))
    BY <1>0, MaxAttemptsType DEF NewJob
  <2> QED
    BY <1>0, <1>2, <2>1, EnqueueEffect DEF Submit, procVars
<1>3. ASSUME NEW p \in Procs, RecoverStep(p) PROVE AttemptsCounted'
  BY <1>0, <1>3, RecoverEffect DEF RecoverStep, procVars, ghostVars
<1>4. ASSUME NEW p \in Procs, ClaimJob(p) PROVE AttemptsCounted'
  <2>1. /\ Range(main') \cup Range(processing') \subseteq Range(main) \cup Range(processing)
        /\ Oldest \in Range(main)
        /\ dead' = dead
    BY <1>0, <1>4, ClaimEffect DEF ClaimJob
  <2>2. offer' = [offer EXCEPT ![p] = Oldest] /\ UNCHANGED << worker, runs >>
    BY <1>4 DEF ClaimJob, ghostVars
  <2> QED
    BY <2>1, <2>2 DEF TypeOK
<1>5. ASSUME NEW p \in Procs, ClaimLost(p) PROVE AttemptsCounted'
  BY <1>0, <1>5, ClaimEffect DEF ClaimLost, ghostVars
<1>6. ASSUME NEW p \in Procs, DropBad(p) PROVE AttemptsCounted'
  <2>1. offer[p] \in Entry
    BY <1>6 DEF DropBad, TypeOK
  <2>2. Range(processing') \subseteq Range(processing)
    BY <1>0, <1>6, <2>1, LRemEffect DEF DropBad, DropPoison
  <2>3. \A q \in Procs : offer'[q] # NoEntry => offer'[q] = offer[q]
    BY <1>6 DEF DropBad, TypeOK
  <2> QED
    BY <1>6, <2>2, <2>3 DEF DropBad, DropPoison
<1>7. ASSUME NEW p \in Procs, NEW w \in Workers, HandOff(p, w) PROVE AttemptsCounted'
  <2>1. UNCHANGED << main, processing, dead >>
    BY <1>7 DEF HandOff, queueVars
  <2>2. offer[p] \in Entry /\ offer[p].id \in Jobs /\ offer[p].attempt \in Nat
    BY <1>7 DEF HandOff, TypeOK, Entry
  <2>3. \A j \in Jobs : runs'[j] \in Nat /\ runs[j] <= runs'[j]
    BY <1>0, <1>7, <2>2 DEF HandOff
  <2>4. offer[p].id \notin Unknown => runs'[offer[p].id] = runs[offer[p].id] + 1
    BY <1>0, <1>7, <2>2 DEF HandOff
  <2>5. \A e \in Entry : Live(e) => e.attempt < maxAttempts(e.id) /\ e.attempt <= runs'[e.id]
    BY <1>0, <2>3 DEF Entry
  <2>6. Live(offer[p])
    BY <2>2, NoEntryAssumption
  <2>7. \A q \in Procs : offer'[q] # NoEntry => offer'[q] = offer[q] /\ offer[q] \in Entry
    BY <1>7 DEF HandOff, TypeOK
  <2>8. \A e \in Range(main') \cup Range(processing') :
           e.attempt < maxAttempts(e.id) /\ e.attempt <= runs'[e.id]
    BY <1>0, <2>1, <2>5
  <2>9. \A q \in Procs : offer'[q] # NoEntry =>
           offer'[q].attempt < maxAttempts(offer'[q].id) /\ offer'[q].attempt <= runs'[offer'[q].id]
    BY <2>5, <2>7
  <2>10. ASSUME NEW q \in Procs, NEW v \in Workers, worker'[q][v].pc # "idle"
         PROVE  LET e == worker'[q][v].job
                IN  /\ e.attempt < maxAttempts(e.id) /\ e.attempt <= runs'[e.id]
                    /\ IF worker'[q][v].pc = "killing" THEN e.id \in Unknown
                                                      ELSE e.attempt < runs'[e.id]
    <3>1. CASE q = p /\ v = w
      <4>1. /\ worker'[q][v].job = offer[p]
            /\ worker'[q][v].pc = IF offer[p].id \in Unknown THEN "killing" ELSE "running"
        BY <1>7, <3>1, WorkerSteps
      <4>2. offer[p].id \notin Unknown => offer[p].attempt < runs'[offer[p].id]
        BY <1>0, <2>2, <2>4, <2>6
      <4> QED
        BY <2>2, <2>5, <2>6, <4>1, <4>2
    <3>2. CASE q # p \/ v # w
      <4>1. worker'[q][v] = worker[q][v]
        BY <1>7, <3>2, WorkerSteps
      <4>2. worker[q][v].job \in Entry
        BY <2>10, <4>1, BusyJob
      <4>3. /\ worker[q][v].job.id \in Jobs /\ worker[q][v].job.attempt \in Nat
            /\ runs[worker[q][v].job.id] \in Nat
        BY <1>0, <4>2 DEF Entry
      <4> QED
        BY <2>3, <2>10, <4>1, <4>3
    <3> QED
      BY <3>1, <3>2
  <2>11. DeadLetterEarned'
    <3>1. \A e \in Range(dead) : e.id \in Jobs /\ e.attempt \in Nat /\ runs[e.id] \in Nat
      BY <1>0 DEF Entry
    <3> QED
      BY <2>1, <2>3, <3>1
  <2> QED
    BY <2>8, <2>9, <2>10, <2>11
<1>8. ASSUME NEW p \in Procs, Abandon(p) \/ DropFails(p) PROVE AttemptsCounted'
  BY <1>8 DEF Abandon, DropFails, queueVars, ghostVars, TypeOK
<1>9. ASSUME NEW p \in Procs, Crash(p) PROVE AttemptsCounted'
  <2>1. UNCHANGED << main, processing, dead, runs >>
    BY <1>9 DEF Crash, queueVars, ghostVars
  <2>2. \A q \in Procs : offer'[q] # NoEntry => offer'[q] = offer[q]
    BY <1>9 DEF Crash, TypeOK
  <2>3. \A q \in Procs, v \in Workers :
           worker'[q][v].pc # "idle" => worker'[q][v] = worker[q][v]
    BY <1>9, CrashStep DEF IdleWorker
  <2> QED
    BY <2>1, <2>2, <2>3
<1>10. ASSUME NEW p \in Procs, NEW w \in Workers,
              HandlerOk(p, w) \/ HandlerFails(p, w) \/ Expire(p, w)
       PROVE  AttemptsCounted'
  <2>1. UNCHANGED << main, processing, dead, offer, runs >>
    BY <1>10 DEF HandlerOk, HandlerFails, Expire, queueVars, ghostVars
  <2>2. HandlerOk(p, w) \/ HandlerFails(p, w) => worker[p][w].pc = "running"
    BY DEF HandlerOk, HandlerFails
  <2>3. \A q \in Procs, v \in Workers : worker'[q][v].pc # "idle" =>
           /\ worker[q][v].pc # "idle" /\ worker'[q][v].job = worker[q][v].job
           /\ worker'[q][v].pc = "killing" <=> worker[q][v].pc = "killing"
    BY <1>10, <2>2, WorkerSteps
  <2> QED
    BY <2>1, <2>3
<1>11. ASSUME NEW p \in Procs, NEW w \in Workers, BackToIdle(p, w)
       PROVE  \A q \in Procs, v \in Workers :
                 worker'[q][v].pc # "idle" => worker'[q][v] = worker[q][v]
  BY <1>11, WorkerSteps DEF IdleWorker
<1>12. ASSUME NEW p \in Procs, NEW w \in Workers, AckJob(p, w) PROVE AttemptsCounted'
  <2>1. worker[p][w].job \in Entry
    BY <1>12, BusyJob DEF AckJob
  <2>2. Range(processing') \subseteq Range(processing)
    BY <1>0, <1>12, <2>1, LRemEffect DEF AckJob, Ack
  <2> QED
    BY <1>11, <1>12, <2>2 DEF AckJob, Ack
<1>13. ASSUME NEW p \in Procs, NEW w \in Workers, RetryJob(p, w) PROVE AttemptsCounted'
  <2> DEFINE e == worker[p][w].job
  <2>1. e \in Entry /\ e.id \in Jobs /\ e.attempt \in Nat
    BY <1>13, BusyJob DEF RetryJob, Entry
  <2>2. e.attempt < maxAttempts(e.id) /\ e.attempt < runs[e.id]
    BY <1>13 DEF RetryJob
  <2>3. UNCHANGED << offer, runs >> /\ BackToIdle(p, w) /\ Retry(e)
    BY <1>13 DEF RetryJob, ghostVars
  <2> HIDE DEF e
  <2>4. PICK again \in Entry :
          /\ again.id = e.id /\ again.attempt = e.attempt + 1
          /\ processing' = LRem(processing, e)
          /\ \/ /\ again.attempt >= maxAttempts(e.id)
                /\ main' = main
                /\ Range(dead') = Range(dead) \cup {again}
             \/ /\ ~ (again.attempt >= maxAttempts(e.id))
                /\ dead' = dead
                /\ Range(main') = Range(main) \cup {again}
    BY <1>0, <2>1, <2>3, RetryEffect
  <2>5. Range(processing') \subseteq Range(processing)
    BY <1>0, <2>1, <2>4, LRemEffect
  <2>6. again.attempt <= runs[again.id] /\ runs[e.id] \in Nat /\ maxAttempts(e.id) \in Nat
    BY <1>0, <2>1, <2>2, <2>4, MaxAttemptsType
  <2>7. CASE again.attempt >= maxAttempts(e.id)
    <3>1. main' = main /\ Range(dead') = Range(dead) \cup {again}
      BY <2>4, <2>7
    <3>2. again.attempt = maxAttempts(again.id) /\ runs[again.id] >= again.attempt
      BY <2>1, <2>2, <2>4, <2>6, <2>7
    <3> QED
      BY <1>11, <2>3, <2>5, <3>1, <3>2
  <2>8. CASE ~ (again.attempt >= maxAttempts(e.id))
    <3>1. dead' = dead /\ Range(main') = Range(main) \cup {again}
      BY <2>4, <2>8
    <3>2. Live(again)
      BY <2>1, <2>4, <2>6, <2>8
    <3> QED
      BY <1>11, <2>3, <2>5, <3>1, <3>2
  <2> QED
    BY <2>7, <2>8
<1>14. ASSUME NEW p \in Procs, NEW w \in Workers, KillJob(p, w) PROVE AttemptsCounted'
  <2> DEFINE e == worker[p][w].job
  <2>1. e \in Entry
    BY <1>14, BusyJob DEF KillJob
  <2>2. e.id \in Unknown
    BY <1>14 DEF KillJob
  <2>3. /\ Range(processing') \subseteq Range(processing)
        /\ main' = main
        /\ Range(dead') = Range(dead) \cup {e}
    BY <1>0, <1>14, <2>1, LRemEffect, KillEffect DEF KillJob
  <2> QED
    BY <1>11, <1>14, <2>2, <2>3 DEF KillJob, ghostVars
<1>15. ASSUME NEW p \in Procs, NEW w \in Workers, SettleFails(p, w) PROVE AttemptsCounted'
  BY <1>11, <1>15 DEF SettleFails, queueVars, ghostVars
<1>16. ASSUME NEW p \in Procs,
              \/ Start(p) \/ Shutdown(p) \/ RecoverDone(p) \/ ClaimNothing(p) \/ Stop(p)
       PROVE  AttemptsCounted'
  BY <1>1, <1>16 DEF Start, Shutdown, RecoverDone, ClaimNothing, Stop, ghostVars
<1>17. CASE UNCHANGED vars
  BY <1>1, <1>17 DEF vars, procVars, ghostVars
<1> QED
  BY <1>2, <1>3, <1>4, <1>5, <1>6, <1>7, <1>8, <1>9, <1>10, <1>12, <1>13, <1>14, <1>15, <1>16, <1>17
  DEF Next, RunGoroutine, WorkerGoroutine, Environment

\* AttemptsCounted is an invariant.
LEMMA CountedCorrect == Spec => []AttemptsCounted
  BY TypeCorrect, CountedInit, CountedStep, PTL DEF Spec

\* Whatever goes wrong, a job in the dead-letter list has no handler, or its
\* handler has been invoked at least as often as its limit says, and its
\* counter stands exactly at the limit.
THEOREM DeadLettersAreEarned == Spec => []DeadLetterEarned
<1>1. AttemptsCounted => DeadLetterEarned
  BY DEF AttemptsCounted
<1> QED
  BY <1>1, CountedCorrect, PTL

-----------------------------------------------------------------------------
(* One copy of a job, as long as nothing is stolen.                        *)

\* HeldIsProcessing and OneHolder, a holder at a time.
LEMMA HoldersUnfolded ==
    ASSUME Unstolen
    PROVE  /\ HeldIsProcessing <=>
                 /\ \A p \in Procs : offer[p] # NoEntry => offer[p] \in Range(processing)
                 /\ \A p \in Procs, w \in Workers :
                       worker[p][w].job # NoEntry => worker[p][w].job \in Range(processing)
           /\ OneHolder <=>
                 /\ \A p, q \in Procs : \A v, w \in Workers :
                       worker[p][v].job # NoEntry /\ worker[q][w].job # NoEntry
                       /\ worker[p][v].job.id = worker[q][w].job.id => p = q /\ v = w
                 /\ \A p, q \in Procs : \A v \in Workers :
                       worker[p][v].job # NoEntry /\ offer[q] # NoEntry
                       => worker[p][v].job.id # offer[q].id
                 /\ \A p, q \in Procs :
                       p # q /\ offer[p] # NoEntry /\ offer[q] # NoEntry
                       => offer[p].id # offer[q].id
<1>1. HeldIsProcessing <=>
         /\ \A p \in Procs : offer[p] # NoEntry => offer[p] \in Range(processing)
         /\ \A p \in Procs, w \in Workers :
               worker[p][w].job # NoEntry => worker[p][w].job \in Range(processing)
  BY DEF HeldIsProcessing
<1>2. OneHolder <=>
         /\ \A p, q \in Procs : \A v, w \in Workers :
               worker[p][v].job # NoEntry /\ worker[q][w].job # NoEntry
               /\ worker[p][v].job.id = worker[q][w].job.id => p = q /\ v = w
         /\ \A p, q \in Procs : \A v \in Workers :
               worker[p][v].job # NoEntry /\ offer[q] # NoEntry
               => worker[p][v].job.id # offer[q].id
         /\ \A p, q \in Procs :
               p # q /\ offer[p] # NoEntry /\ offer[q] # NoEntry
               => offer[p].id # offer[q].id
  BY DEF OneHolder
<1> QED
  BY <1>1, <1>2

\* Nothing is ever taken back from the count of steals.
LEMMA UnstolenBefore ==
    ASSUME TypeOK, [Next]_vars, Unstolen'
    PROVE  Unstolen
<1>1. mishaps \in [Mishaps -> Nat]
  BY DEF TypeOK
<1>2. mishaps' = mishaps \/ \E m \in Mishaps : Suffer(m)
  BY DEF Next, vars, RunGoroutine, WorkerGoroutine, Environment, Submit, Start, Shutdown,
         RecoverStep, RecoverDone, ClaimJob, ClaimLost, ClaimNothing, DropBad, DropFails, HandOff, Abandon,
         Stop, Crash, HandlerOk, HandlerFails, Expire, AckJob, RetryJob, KillJob, SettleFails,
         Mishaps
<1>3. ASSUME NEW m \in Mishaps, Suffer(m)
      PROVE  mishaps["steal"] <= mishaps'["steal"]
  BY <1>1, <1>3 DEF Suffer, Mishaps
<1>4. mishaps["steal"] \in Nat /\ mishaps["steal"] <= mishaps'["steal"]
  BY <1>1, <1>2, <1>3 DEF Mishaps
<1> QED
  BY <1>4 DEF Unstolen

\* Initially the lists are empty.
LEMMA SoleInit == Init => SoleCopies
<1> SUFFICES ASSUME Init PROVE SoleCopies
  OBVIOUS
<1>1. Ids(main) = {} /\ Ids(processing) = {} /\ Ids(dead) = {}
  BY DEF Init, QueueInit, Ids
<1>2. Distinct(main) /\ Distinct(processing) /\ Distinct(dead)
  BY DEF Init, QueueInit, Distinct
<1> QED
  BY <1>1, <1>2 DEF Init, SoleCopies, Apart, HeldIsProcessing, OneHolder, IdleWorker

\* No step makes a second copy of a job, as long as nothing is stolen.
LEMMA SoleStep == TypeOK /\ SoleCopies /\ [Next]_vars => SoleCopies'
<1> SUFFICES ASSUME TypeOK, SoleCopies, [Next]_vars, Unstolen'
             PROVE  SoleCopies'
  BY DEF SoleCopies, HeldIsProcessing, OneHolder
<1>0. Unstolen /\ QueueTypeOK /\ Apart
  BY UnstolenBefore DEF TypeOK, SoleCopies
<1>1. /\ \A p \in Procs : offer[p] # NoEntry => offer[p] \in Range(processing)
      /\ \A p \in Procs, w \in Workers :
            worker[p][w].job # NoEntry => worker[p][w].job \in Range(processing)
      /\ \A p, q \in Procs : \A v, w \in Workers :
            worker[p][v].job # NoEntry /\ worker[q][w].job # NoEntry
            /\ worker[p][v].job.id = worker[q][w].job.id => p = q /\ v = w
      /\ \A p, q \in Procs : \A v \in Workers :
            worker[p][v].job # NoEntry /\ offer[q] # NoEntry
            => worker[p][v].job.id # offer[q].id
      /\ \A p, q \in Procs :
            p # q /\ offer[p] # NoEntry /\ offer[q] # NoEntry
            => offer[p].id # offer[q].id
  BY <1>0, HoldersUnfolded DEF SoleCopies
<1>2. \A e \in Range(processing) : e \in Entry /\ e.id \in Ids(processing)
  BY <1>0, IdsOfRange DEF QueueTypeOK
<1>3. /\ \A p \in Procs : offer[p] # NoEntry => offer[p].id \in Ids(processing)
      /\ \A p \in Procs, w \in Workers :
            worker[p][w].job # NoEntry => worker[p][w].job.id \in Ids(processing)
  BY <1>1, <1>2
\* It is enough to show the three parts.
<1>4. ASSUME Apart',
             \A p \in Procs : offer'[p] # NoEntry => offer'[p] \in Range(processing'),
             \A p \in Procs, w \in Workers :
                worker'[p][w].job # NoEntry => worker'[p][w].job \in Range(processing'),
             \A p, q \in Procs : \A v, w \in Workers :
                worker'[p][v].job # NoEntry /\ worker'[q][w].job # NoEntry
                /\ worker'[p][v].job.id = worker'[q][w].job.id => p = q /\ v = w,
             \A p, q \in Procs : \A v \in Workers :
                worker'[p][v].job # NoEntry /\ offer'[q] # NoEntry
                => worker'[p][v].job.id # offer'[q].id,
             \A p, q \in Procs :
                p # q /\ offer'[p] # NoEntry /\ offer'[q] # NoEntry
                => offer'[p].id # offer'[q].id
      PROVE  SoleCopies'
  BY <1>4 DEF SoleCopies, HeldIsProcessing, OneHolder
\* Steps that only let go of deliveries.
<1>5. ASSUME UNCHANGED << main, processing, dead, accepted, acked, dropped >>,
             \A p \in Procs : offer'[p] \in {offer[p], NoEntry},
             \A p \in Procs, w \in Workers : worker'[p][w].job \in {worker[p][w].job, NoEntry}
      PROVE  SoleCopies'
  <2>1. Apart'
    BY <1>0, <1>5 DEF Apart
  <2>11. \A q \in Procs : offer'[q] # NoEntry => offer'[q] \in Range(processing')
    BY <1>1, <1>5
  <2>12. \A q \in Procs, v \in Workers :
            worker'[q][v].job # NoEntry => worker'[q][v].job \in Range(processing')
    BY <1>1, <1>5
  <2>13. \A q, r \in Procs : \A v, u \in Workers :
            worker'[q][v].job # NoEntry /\ worker'[r][u].job # NoEntry
            /\ worker'[q][v].job.id = worker'[r][u].job.id => q = r /\ v = u
    <3> SUFFICES ASSUME NEW q \in Procs, NEW r \in Procs, NEW v \in Workers, NEW u \in Workers,
                        worker'[q][v].job # NoEntry, worker'[r][u].job # NoEntry,
                        worker'[q][v].job.id = worker'[r][u].job.id
                 PROVE  q = r /\ v = u
      OBVIOUS
    <3>1. worker'[q][v].job = worker[q][v].job /\ worker'[r][u].job = worker[r][u].job
      BY <1>5
    <3> QED
      BY <1>1, <3>1
  <2>14. \A q, r \in Procs : \A v \in Workers :
            worker'[q][v].job # NoEntry /\ offer'[r] # NoEntry
            => worker'[q][v].job.id # offer'[r].id
    BY <1>1, <1>5
  <2>15. \A q, r \in Procs :
            q # r /\ offer'[q] # NoEntry /\ offer'[r] # NoEntry
            => offer'[q].id # offer'[r].id
    BY <1>1, <1>5
  <2> QED
    BY <1>4, <2>1, <2>11, <2>12, <2>13, <2>14, <2>15
<1>6. ASSUME NEW p \in Procs, NEW w \in Workers, HandOff(p, w) PROVE SoleCopies'
  <2>1. UNCHANGED << main, processing, dead, accepted, acked, dropped >>
    BY <1>6 DEF HandOff, queueVars
  <2>2. offer[p] \in Entry /\ offer[p] # NoEntry
    BY <1>6, NoEntryAssumption DEF HandOff, TypeOK
  <2>3. offer'[p] = NoEntry /\ \A q \in Procs \ {p} : offer'[q] = offer[q]
    BY <1>6 DEF HandOff, TypeOK
  <2>4. /\ worker'[p][w].job = offer[p]
        /\ \A q \in Procs, v \in Workers : q # p \/ v # w => worker'[q][v] = worker[q][v]
    BY <1>6, WorkerSteps
  <2>5. Apart'
    BY <1>0, <2>1 DEF Apart
  <2>6. \A q \in Procs : offer'[q] # NoEntry => q # p /\ offer'[q] = offer[q]
    BY <2>3
  <2>7. \A q \in Procs, v \in Workers :
           \/ q = p /\ v = w /\ worker'[q][v].job = offer[p]
           \/ ~ (q = p /\ v = w) /\ worker'[q][v].job = worker[q][v].job
    BY <2>4
  <2>11. \A q \in Procs : offer'[q] # NoEntry => offer'[q] \in Range(processing')
    BY <1>1, <2>1, <2>2, <2>6, <2>7
  <2>12. \A q \in Procs, v \in Workers :
            worker'[q][v].job # NoEntry => worker'[q][v].job \in Range(processing')
    BY <1>1, <2>1, <2>2, <2>6, <2>7
  <2>13. \A q, r \in Procs : \A v, u \in Workers :
            worker'[q][v].job # NoEntry /\ worker'[r][u].job # NoEntry
            /\ worker'[q][v].job.id = worker'[r][u].job.id => q = r /\ v = u
    <3> SUFFICES ASSUME NEW q \in Procs, NEW r \in Procs, NEW v \in Workers, NEW u \in Workers,
                        worker'[q][v].job # NoEntry, worker'[r][u].job # NoEntry,
                        worker'[q][v].job.id = worker'[r][u].job.id
                 PROVE  q = r /\ v = u
      OBVIOUS
    <3>1. CASE q = p /\ v = w /\ ~ (r = p /\ u = w)
      <4>1. worker[r][u].job # NoEntry /\ worker[r][u].job.id = offer[p].id
        BY <2>7, <3>1
      <4> QED
        BY <1>1, <2>2, <4>1
    <3>2. CASE r = p /\ u = w /\ ~ (q = p /\ v = w)
      <4>1. worker[q][v].job # NoEntry /\ worker[q][v].job.id = offer[p].id
        BY <2>7, <3>2
      <4> QED
        BY <1>1, <2>2, <4>1
    <3>3. CASE ~ (q = p /\ v = w) /\ ~ (r = p /\ u = w)
      <4>1. worker'[q][v].job = worker[q][v].job /\ worker'[r][u].job = worker[r][u].job
        BY <2>7, <3>3
      <4> QED
        BY <1>1, <4>1
    <3> QED
      BY <3>1, <3>2, <3>3
  <2>14. \A q, r \in Procs : \A v \in Workers :
            worker'[q][v].job # NoEntry /\ offer'[r] # NoEntry
            => worker'[q][v].job.id # offer'[r].id
    BY <1>1, <2>1, <2>2, <2>6, <2>7
  <2>15. \A q, r \in Procs :
            q # r /\ offer'[q] # NoEntry /\ offer'[r] # NoEntry
            => offer'[q].id # offer'[r].id
    BY <1>1, <2>1, <2>2, <2>6, <2>7
  <2> QED
    BY <1>4, <2>5, <2>11, <2>12, <2>13, <2>14, <2>15
<1>7. ASSUME NEW j \in Jobs, Submit(j) PROVE SoleCopies'
  <2>1. /\ Ids(main') = Ids(main) \cup {j}
        /\ Distinct(main) /\ j \notin Ids(main) => Distinct(main')
        /\ processing' = processing /\ dead' = dead
    BY <1>0, <1>7, EnqueueEffect DEF Submit
  <2>2. j \notin accepted /\ accepted' = accepted \cup {j}
        /\ UNCHANGED << offer, worker, acked, dropped >>
    BY <1>7 DEF Submit, procVars
  <2>3. Apart'
    BY <1>0, <2>1, <2>2 DEF Apart
  <2> QED
    BY <1>1, <1>4, <2>1, <2>2, <2>3
<1>8. ASSUME NEW p \in Procs, RecoverStep(p) PROVE SoleCopies'
  <2> DEFINE e == Last(processing)
  <2>1. /\ e \in Entry
        /\ Range(processing) = Range(processing') \cup {e}
        /\ Ids(processing) = Ids(processing') \cup {e.id}
        /\ Ids(main') = Ids(main) \cup {e.id}
        /\ Distinct(processing) => Distinct(processing') /\ e.id \notin Ids(processing')
        /\ Distinct(main) /\ e.id \notin Ids(main) => Distinct(main')
        /\ dead' = dead
    BY <1>0, <1>8, RecoverEffect DEF RecoverStep
  <2>2. UNCHANGED << offer, worker, accepted, acked, dropped >>
    BY <1>8 DEF RecoverStep, procVars, ghostVars
  <2>3. ~ Stealing
    <3> SUFFICES ASSUME Stealing PROVE FALSE
      OBVIOUS
    <3>1. mishaps'["steal"] = mishaps["steal"] + 1
      BY <1>8, SufferType DEF RecoverStep, TypeOK, Mishaps
    <3> QED
      BY <1>0, <3>1 DEF Unstolen
  <2>4. \A q \in Procs : offer[q] # e /\ \A w \in Workers : worker[q][w].job # e
    BY <2>3 DEF Stealing, Holds
  <2> HIDE DEF e
  <2>5. Apart'
    BY <1>0, <2>1, <2>2 DEF Apart
  <2> QED
    BY <1>1, <1>4, <2>1, <2>2, <2>4, <2>5
<1>9. ASSUME NEW p \in Procs, ClaimJob(p) PROVE SoleCopies'
  <2>1. /\ Oldest \in Entry
        /\ Ids(main) = Ids(main') \cup {Oldest.id}
        /\ Range(processing') = Range(processing) \cup {Oldest}
        /\ Ids(processing') = Ids(processing) \cup {Oldest.id}
        /\ Distinct(main) => Distinct(main') /\ Oldest.id \notin Ids(main')
        /\ Distinct(processing) /\ Oldest.id \notin Ids(processing) => Distinct(processing')
        /\ dead' = dead
    BY <1>0, <1>9, ClaimEffect DEF ClaimJob
  <2>2. UNCHANGED << worker, accepted, acked, dropped >>
    BY <1>9 DEF ClaimJob, ghostVars
  <2>3. offer'[p] = Oldest /\ \A q \in Procs \ {p} : offer'[q] = offer[q]
    BY <1>9 DEF ClaimJob, TypeOK
  <2>4. Apart'
    BY <1>0, <2>1, <2>2 DEF Apart
  <2>5. Oldest.id \notin Ids(processing)
    BY <1>0, <2>1 DEF Apart
  <2>6. \A q \in Procs : \/ q = p /\ offer'[q] = Oldest
                         \/ q # p /\ offer'[q] = offer[q]
    BY <2>3
  <2> QED
    BY <1>1, <1>3, <1>4, <2>1, <2>2, <2>4, <2>5, <2>6
<1>10. ASSUME NEW p \in Procs, ClaimLost(p) PROVE SoleCopies'
  <2>1. /\ Oldest \in Entry
        /\ Ids(main) = Ids(main') \cup {Oldest.id}
        /\ Range(processing') = Range(processing) \cup {Oldest}
        /\ Ids(processing') = Ids(processing) \cup {Oldest.id}
        /\ Distinct(main) => Distinct(main') /\ Oldest.id \notin Ids(main')
        /\ Distinct(processing) /\ Oldest.id \notin Ids(processing) => Distinct(processing')
        /\ dead' = dead
    BY <1>0, <1>10, ClaimEffect DEF ClaimLost
  <2>2. UNCHANGED << offer, worker, accepted, acked, dropped >>
    BY <1>10 DEF ClaimLost, ghostVars
  <2>3. Apart'
    BY <1>0, <2>1, <2>2 DEF Apart
  <2> QED
    BY <1>1, <1>4, <2>1, <2>2, <2>3
\* The dispatcher lets go of what it removes from processing.
<1>11. ASSUME NEW p \in Procs, DropBad(p) PROVE SoleCopies'
  <2> DEFINE e == offer[p]
  <2>1. /\ e \in Entry /\ e # NoEntry
        /\ processing' = LRem(processing, e)
        /\ dropped' = dropped \cup {e.id}
        /\ UNCHANGED << main, dead, worker, accepted, acked >>
    BY <1>11, NoEntryAssumption DEF DropBad, DropPoison, TypeOK
  <2>2. offer'[p] = NoEntry /\ \A q \in Procs \ {p} : offer'[q] = offer[q]
    BY <1>11 DEF DropBad, TypeOK
  <2>3. e \in Range(processing) /\ e.id \in Ids(processing)
    BY <1>1, <1>2, <2>1
  <2>4. /\ Range(processing) \subseteq Range(processing') \cup {e}
        /\ Ids(processing') \subseteq Ids(processing)
        /\ Distinct(processing') /\ e.id \notin Ids(processing')
    BY <1>0, <2>1, <2>3, LRemEffect DEF Apart
  <2>5. \A q \in Procs : offer'[q] # NoEntry => offer'[q] = offer[q] /\ offer[q] # e
    BY <1>1, <2>1, <2>2
  <2>6. \A q \in Procs, v \in Workers : worker[q][v].job # NoEntry => worker[q][v].job # e
    BY <1>1, <2>1
  <2> HIDE DEF e
  <2>7. Apart'
    BY <1>0, <2>1, <2>3, <2>4 DEF Apart
  <2>11. \A q \in Procs : offer'[q] # NoEntry => offer'[q] \in Range(processing')
    BY <1>1, <2>4, <2>5
  <2>12. \A q \in Procs, v \in Workers :
            worker'[q][v].job # NoEntry => worker'[q][v].job \in Range(processing')
    BY <1>1, <2>1, <2>4, <2>6
  <2>13. \A q, r \in Procs : \A v \in Workers :
            worker'[q][v].job # NoEntry /\ offer'[r] # NoEntry
            => worker'[q][v].job.id # offer'[r].id
    BY <1>1, <2>1, <2>5
  <2>14. \A q, r \in Procs :
            q # r /\ offer'[q] # NoEntry /\ offer'[r] # NoEntry
            => offer'[q].id # offer'[r].id
    BY <1>1, <2>5
  <2> QED
    BY <1>1, <1>4, <2>1, <2>7, <2>11, <2>12, <2>13, <2>14
\* Ack, Retry and Kill: the worker lets go of what it removes from processing.
<1>12. ASSUME NEW p \in Procs, NEW w \in Workers, worker[p][w].pc # "idle",
              BackToIdle(p, w), UNCHANGED offer, Apart',
              processing' = LRem(processing, worker[p][w].job)
       PROVE  SoleCopies'
  <2> DEFINE e == worker[p][w].job
  <2>1. e \in Entry /\ e # NoEntry
    BY <1>12, BusyJob, NoEntryAssumption
  <2>2. Range(processing) \subseteq Range(processing') \cup {e}
    BY <1>0, <1>12, <2>1, LRemEffect
  <2>3. /\ worker'[p][w].job = NoEntry
        /\ \A q \in Procs, v \in Workers : q # p \/ v # w => worker'[q][v] = worker[q][v]
    BY <1>12, WorkerSteps DEF IdleWorker
  <2>4. \A q \in Procs, v \in Workers :
           worker'[q][v].job # NoEntry => /\ worker'[q][v].job = worker[q][v].job
                                          /\ worker[q][v].job # e
    BY <1>1, <2>1, <2>3
  <2>5. \A q \in Procs : offer[q] # NoEntry => offer[q] # e
    BY <1>1, <2>1
  <2> HIDE DEF e
  <2>11. \A q \in Procs : offer'[q] # NoEntry => offer'[q] \in Range(processing')
    BY <1>1, <1>12, <2>2, <2>4, <2>5
  <2>12. \A q \in Procs, v \in Workers :
            worker'[q][v].job # NoEntry => worker'[q][v].job \in Range(processing')
    BY <1>1, <1>12, <2>2, <2>4, <2>5
  <2>13. \A q, r \in Procs : \A v, u \in Workers :
            worker'[q][v].job # NoEntry /\ worker'[r][u].job # NoEntry
            /\ worker'[q][v].job.id = worker'[r][u].job.id => q = r /\ v = u
    <3>1. \A q \in Procs, v \in Workers : worker'[q][v].job # NoEntry =>
             worker'[q][v].job = worker[q][v].job /\ worker[q][v].job # NoEntry
      BY <2>4
    <3>2. \A q, r \in Procs : \A v, u \in Workers :
             worker[q][v].job # NoEntry /\ worker[r][u].job # NoEntry
             /\ worker[q][v].job.id = worker[r][u].job.id => q = r /\ v = u
      BY <1>1
    <3> SUFFICES ASSUME NEW q \in Procs, NEW r \in Procs, NEW v \in Workers, NEW u \in Workers,
                        worker'[q][v].job # NoEntry, worker'[r][u].job # NoEntry,
                        worker'[q][v].job.id = worker'[r][u].job.id
                 PROVE  q = r /\ v = u
      OBVIOUS
    <3>3. /\ worker'[q][v].job = worker[q][v].job /\ worker[q][v].job # NoEntry
          /\ worker'[r][u].job = worker[r][u].job /\ worker[r][u].job # NoEntry
      BY <3>1
    <3>4. worker[q][v].job.id = worker[r][u].job.id
      BY <3>3
    <3> QED
      BY <3>2, <3>3, <3>4
  <2>14. \A q, r \in Procs : \A v \in Workers :
            worker'[q][v].job # NoEntry /\ offer'[r] # NoEntry
            => worker'[q][v].job.id # offer'[r].id
    BY <1>1, <1>12, <2>2, <2>4, <2>5
  <2>15. \A q, r \in Procs :
            q # r /\ offer'[q] # NoEntry /\ offer'[r] # NoEntry
            => offer'[q].id # offer'[r].id
    BY <1>1, <1>12, <2>2, <2>4, <2>5
  <2> QED
    BY <1>4, <1>12, <2>11, <2>12, <2>13, <2>14, <2>15
<1>13. ASSUME NEW p \in Procs, NEW w \in Workers, worker[p][w].pc # "idle",
              processing' = LRem(processing, worker[p][w].job)
       PROVE  /\ Ids(processing') \subseteq Ids(processing)
              /\ Distinct(processing')
              /\ worker[p][w].job \in Entry
              /\ worker[p][w].job.id \in Ids(processing) \ Ids(processing')
  <2>1. worker[p][w].job \in Entry /\ worker[p][w].job # NoEntry
    BY <1>13, BusyJob, NoEntryAssumption
  <2>2. worker[p][w].job \in Range(processing) /\ worker[p][w].job.id \in Ids(processing)
    BY <1>1, <1>3, <2>1
  <2> QED
    BY <1>0, <1>13, <2>1, <2>2, LRemEffect DEF Apart
<1>14. ASSUME NEW p \in Procs, NEW w \in Workers, AckJob(p, w) PROVE SoleCopies'
  <2>1. /\ worker[p][w].pc # "idle" /\ BackToIdle(p, w) /\ UNCHANGED offer
        /\ processing' = LRem(processing, worker[p][w].job)
        /\ acked' = acked \cup {worker[p][w].job.id}
        /\ UNCHANGED << main, dead, accepted, dropped >>
    BY <1>14 DEF AckJob, Ack
  <2>2. Apart'
    BY <1>0, <1>13, <2>1 DEF Apart
  <2> QED
    BY <1>12, <2>1, <2>2
<1>15. ASSUME NEW p \in Procs, NEW w \in Workers, RetryJob(p, w) PROVE SoleCopies'
  <2> DEFINE e == worker[p][w].job
  <2>1. /\ worker[p][w].pc # "idle" /\ BackToIdle(p, w) /\ UNCHANGED offer
        /\ Retry(e)
        /\ UNCHANGED << accepted, acked, dropped >>
    BY <1>15 DEF RetryJob, ghostVars
  <2>2. e \in Entry
    BY <2>1, BusyJob
  <2>3. /\ processing' = LRem(processing, e)
        /\ \/ /\ main' = main
              /\ Ids(dead') = Ids(dead) \cup {e.id}
              /\ Distinct(dead) /\ e.id \notin Ids(dead) => Distinct(dead')
           \/ /\ dead' = dead
              /\ Ids(main') = Ids(main) \cup {e.id}
              /\ Distinct(main) /\ e.id \notin Ids(main) => Distinct(main')
    BY <1>0, <2>1, <2>2, RetryEffect
  <2>4. /\ Ids(processing') \subseteq Ids(processing)
        /\ Distinct(processing')
        /\ e.id \in Ids(processing) \ Ids(processing')
    BY <1>13, <2>1, <2>3
  <2>5. Apart'
    BY <1>0, <2>1, <2>3, <2>4 DEF Apart
  <2> QED
    BY <1>12, <2>1, <2>3, <2>5
<1>16. ASSUME NEW p \in Procs, NEW w \in Workers, KillJob(p, w) PROVE SoleCopies'
  <2> DEFINE e == worker[p][w].job
  <2>1. /\ worker[p][w].pc # "idle" /\ BackToIdle(p, w) /\ UNCHANGED offer
        /\ Kill(e)
        /\ UNCHANGED << accepted, acked, dropped >>
    BY <1>16 DEF KillJob, ghostVars
  <2>2. e \in Entry
    BY <2>1, BusyJob
  <2>3. /\ processing' = LRem(processing, e)
        /\ main' = main
        /\ Ids(dead') = Ids(dead) \cup {e.id}
        /\ Distinct(dead) /\ e.id \notin Ids(dead) => Distinct(dead')
    BY <1>0, <2>1, <2>2, KillEffect
  <2>4. /\ Ids(processing') \subseteq Ids(processing)
        /\ Distinct(processing')
        /\ e.id \in Ids(processing) \ Ids(processing')
    BY <1>13, <2>1, <2>3
  <2>5. Apart'
    BY <1>0, <2>1, <2>3, <2>4 DEF Apart
  <2> QED
    BY <1>12, <2>1, <2>3, <2>5
<1>17. ASSUME NEW p \in Procs, NEW w \in Workers,
              HandlerOk(p, w) \/ HandlerFails(p, w) \/ Expire(p, w) \/ SettleFails(p, w)
       PROVE  SoleCopies'
  <2>1. UNCHANGED << main, processing, dead, accepted, acked, dropped, offer >>
    BY <1>17 DEF HandlerOk, HandlerFails, Expire, SettleFails, queueVars, ghostVars
  <2>2. SettleFails(p, w) => BackToIdle(p, w)
    BY DEF SettleFails
  <2>3. \A q \in Procs, v \in Workers : worker'[q][v].job \in {worker[q][v].job, NoEntry}
    BY <1>17, <2>2, WorkerSteps DEF IdleWorker
  <2> QED
    BY <1>5, <2>1, <2>3
<1>18. ASSUME NEW p \in Procs, Abandon(p) \/ DropFails(p) \/ Crash(p) PROVE SoleCopies'
  <2>1. UNCHANGED << main, processing, dead, accepted, acked, dropped >>
    BY <1>18 DEF Abandon, DropFails, Crash, queueVars, ghostVars
  <2>2. \A q \in Procs : offer'[q] \in {offer[q], NoEntry}
    BY <1>18 DEF Abandon, DropFails, Crash, TypeOK
  <2>3. \A q \in Procs, v \in Workers : worker'[q][v].job \in {worker[q][v].job, NoEntry}
    BY <1>18, CrashStep DEF Abandon, DropFails, IdleWorker
  <2> QED
    BY <1>5, <2>1, <2>2, <2>3
<1>19. ASSUME NEW p \in Procs,
              \/ Start(p) \/ Shutdown(p) \/ RecoverDone(p) \/ ClaimNothing(p) \/ Stop(p)
       PROVE  SoleCopies'
  BY <1>5, <1>19 DEF Start, Shutdown, RecoverDone, ClaimNothing, Stop, queueVars, ghostVars
<1>20. CASE UNCHANGED vars
  BY <1>5, <1>20 DEF vars, queueVars, procVars, ghostVars
<1> QED
  BY <1>6, <1>7, <1>8, <1>9, <1>10, <1>11, <1>14, <1>15, <1>16, <1>17, <1>18, <1>19, <1>20
  DEF Next, RunGoroutine, WorkerGoroutine, Environment

\* SoleCopies is an invariant.
LEMMA SoleCorrect == Spec => []SoleCopies
  BY TypeCorrect, SoleInit, SoleStep, PTL DEF Spec

\* As long as no Recover takes an entry that is being worked on, a delivery in the
\* memory of a process is still in processing.
THEOREM DeliveriesAreProcessing == Spec => []HeldIsProcessing
<1>1. SoleCopies => HeldIsProcessing
  BY DEF SoleCopies
<1> QED
  BY <1>1, SoleCorrect, PTL

\* As long as no Recover takes an entry that is being worked on, no two holders,
\* in whatever processes, have the same job.
THEOREM HoldersAreSingle == Spec => []OneHolder
<1>1. SoleCopies => OneHolder
  BY DEF SoleCopies
<1> QED
  BY <1>1, SoleCorrect, PTL

\* It is why a job is in one place.
LEMMA SoleImplies == TypeOK /\ SoleCopies => NoDuplicate
<1> SUFFICES ASSUME TypeOK, Apart, NEW j \in Jobs, NEW a \in Places(j), NEW b \in Places(j)
             PROVE  a = b
  BY DEF NoDuplicate, SoleCopies
<1> DEFINE In(name, list) == {name} \X { i \in DOMAIN list : list[i].id = j }
<1>1. ASSUME NEW name, NEW list, NEW x \in In(name, list)
      PROVE  j \in Ids(list) /\ \E i \in DOMAIN list : list[i].id = j /\ x = << name, i >>
  BY <1>1 DEF Ids
<1>2. ASSUME NEW name, NEW list, Distinct(list), NEW x \in In(name, list), NEW y \in In(name, list)
      PROVE  x = y
  BY <1>1, <1>2 DEF Distinct
<1>3. Places(j) = In("main", main) \cup In("processing", processing) \cup In("dead", dead)
                  \cup (IF j \in acked \cap succeeded THEN {<< "done", 0 >>} ELSE {})
                  \cup (IF j \in dropped \cap Poison THEN {<< "dropped", 0 >>} ELSE {})
  BY DEF Places
<1> HIDE DEF In
<1>4. ASSUME NEW x \in Places(j)
      PROVE  \/ x \in In("main", main) /\ j \in Ids(main)
             \/ x \in In("processing", processing) /\ j \in Ids(processing)
             \/ x \in In("dead", dead) /\ j \in Ids(dead)
             \/ x = << "done", 0 >> /\ j \in acked
             \/ x = << "dropped", 0 >> /\ j \in dropped
  BY <1>1, <1>3
<1> QED
  BY <1>2, <1>4 DEF Apart

\* As long as no Recover takes an entry that is being worked on, there is never a
\* second copy of a job, and an acknowledged one is in no list.
THEOREM NothingIsDuplicated == Spec => []NoDuplicate
  BY TypeCorrect, SoleCorrect, SoleImplies, PTL

\* Only the hand-off of a delivery invokes a handler, and a delivery is still in processing.
LEMMA SettledStep == TypeOK /\ SoleCopies /\ [Next]_vars =>
                     \A j \in Jobs : Unstolen /\ runs'[j] # runs[j] => j \notin acked \cup Ids(dead)
<1> SUFFICES ASSUME TypeOK, SoleCopies, Unstolen, [Next]_vars, NEW j \in Jobs, runs'[j] # runs[j]
             PROVE  j \notin acked \cup Ids(dead)
  OBVIOUS
<1>1. PICK p \in Procs, w \in Workers : HandOff(p, w)
  BY DEF Next, vars, ghostVars, RunGoroutine, WorkerGoroutine, Environment, Submit, Start, Shutdown,
         RecoverStep, RecoverDone, ClaimJob, ClaimLost, ClaimNothing, DropBad, DropFails, Abandon, Stop,
         Crash, HandlerOk, HandlerFails, Expire, AckJob, RetryJob, KillJob, SettleFails
<1>2. offer[p] \in Entry /\ offer[p] # NoEntry /\ runs \in [Jobs -> Nat]
  BY <1>1, NoEntryAssumption DEF HandOff, TypeOK
<1>3. offer[p].id = j
  BY <1>1, <1>2 DEF HandOff
<1>4. offer[p] \in Range(processing)
  BY <1>2, HoldersUnfolded DEF SoleCopies
<1>5. j \in Ids(processing)
  BY <1>3, <1>4, IdsOfRange DEF TypeOK, QueueTypeOK
<1> QED
  BY <1>5 DEF SoleCopies, Apart

\* As long as no Recover takes an entry that is being worked on, no handler is
\* invoked for a job that has been acknowledged or dead-lettered.
THEOREM SettledStaysSettled == Spec => SettledNeverRuns
  BY TypeCorrect, SoleCorrect, SettledStep, PTL DEF Spec, SettledNeverRuns

-----------------------------------------------------------------------------
(* No goroutine works in a process that is down or recovering.             *)

\* Initially every goroutine is idle.
LEMMA QuietInit == Init => QuietAtStart
  BY DEF Init, QuietAtStart

\* A process starts where it stopped, with every worker idle, and none gets a
\* delivery before the dispatcher has one to offer.
LEMMA QuietStep == TypeOK /\ QuietAtStart /\ [Next]_vars => QuietAtStart'
<1> SUFFICES ASSUME TypeOK, QuietAtStart, [Next]_vars,
                    NEW q \in Procs, NEW v \in Workers, pc'[q] \in {"off", "recovering"}
             PROVE  worker'[q][v] = IdleWorker
  BY DEF QuietAtStart
<1>9. worker[q][v] \in WorkerState
  BY DEF TypeOK
<1>0. /\ pc[q] \in {"off", "recovering"} => worker[q][v] = IdleWorker
      /\ worker[q][v].pc = "idle" => worker[q][v] = IdleWorker
  BY <1>9, WorkerStateType DEF QuietAtStart
<1>1. ASSUME UNCHANGED worker, pc'[q] = pc[q] PROVE worker'[q][v] = IdleWorker
  BY <1>0, <1>1
<1>2. ASSUME NEW p \in Procs,
             \/ Start(p) \/ RecoverDone(p) \/ ClaimJob(p) \/ ClaimLost(p)
             \/ ClaimNothing(p) \/ DropBad(p) \/ DropFails(p) \/ Abandon(p)
      PROVE  worker'[q][v] = IdleWorker
  BY <1>0, <1>1, <1>2
  DEF Start, RecoverDone, ClaimJob, ClaimLost, ClaimNothing, DropBad, DropFails, Abandon, Loop,
      TypeOK
<1>3. ASSUME NEW p \in Procs, Stop(p) PROVE worker'[q][v] = IdleWorker
  BY <1>0, <1>1, <1>3 DEF Stop, TypeOK
<1>4. ASSUME NEW p \in Procs, Crash(p) PROVE worker'[q][v] = IdleWorker
  BY <1>0, <1>4, CrashStep DEF Crash, TypeOK
<1>5. ASSUME NEW p \in Procs, NEW w \in Workers, HandOff(p, w) PROVE worker'[q][v] = IdleWorker
  <2>1. q # p /\ pc[q] = pc'[q]
    BY <1>5 DEF HandOff, Loop, TypeOK
  <2> QED
    BY <1>0, <1>5, <2>1, WorkerSteps
<1>6. ASSUME NEW p \in Procs, NEW w \in Workers,
             \/ HandlerOk(p, w) \/ HandlerFails(p, w) \/ Expire(p, w)
             \/ AckJob(p, w) \/ RetryJob(p, w) \/ KillJob(p, w) \/ SettleFails(p, w)
      PROVE  worker'[q][v] = IdleWorker
  <2>1. UNCHANGED pc /\ worker[p][w].pc # "idle"
    BY <1>6 DEF HandlerOk, HandlerFails, Expire, AckJob, RetryJob, KillJob, SettleFails
  <2>2. q # p \/ v # w
    BY <1>0, <2>1 DEF IdleWorker
  <2>3. HandlerOk(p, w) \/ HandlerFails(p, w) \/ Expire(p, w) \/ BackToIdle(p, w)
    BY <1>6 DEF AckJob, RetryJob, KillJob, SettleFails
  <2> QED
    BY <1>0, <2>1, <2>2, <2>3, WorkerSteps
<1>7. ASSUME UNCHANGED vars \/ (\E j \in Jobs : Submit(j))
             \/ (\E p \in Procs : Shutdown(p) \/ RecoverStep(p))
      PROVE  worker'[q][v] = IdleWorker
  BY <1>1, <1>7 DEF vars, procVars, Submit, Shutdown, RecoverStep
<1> QED
  BY <1>2, <1>3, <1>4, <1>5, <1>6, <1>7 DEF Next, RunGoroutine, WorkerGoroutine, Environment

\* QuietAtStart is an invariant.
LEMMA QuietCorrect == Spec => []QuietAtStart
  BY TypeCorrect, QuietInit, QuietStep, PTL DEF Spec

-----------------------------------------------------------------------------
(* Runs are bounded.                                                       *)

\* A mishap is never taken back from the count.
LEMMA MishapsGrow ==
    ASSUME TypeOK, [Next]_vars, NEW m \in Mishaps
    PROVE  mishaps[m] \in Nat /\ mishaps'[m] \in Nat /\ mishaps[m] <= mishaps'[m]
<1>1. mishaps \in [Mishaps -> Nat] /\ mishaps' \in [Mishaps -> Nat]
  BY TypeStep DEF TypeOK
<1>2. mishaps' = mishaps \/ \E n \in Mishaps : Suffer(n)
  BY DEF Next, vars, RunGoroutine, WorkerGoroutine, Environment, Submit, Start, Shutdown,
         RecoverStep, RecoverDone, ClaimJob, ClaimLost, ClaimNothing, DropBad, DropFails, HandOff, Abandon,
         Stop, Crash, HandlerOk, HandlerFails, Expire, AckJob, RetryJob, KillJob, SettleFails,
         Mishaps
<1>3. ASSUME NEW n \in Mishaps, Suffer(n) PROVE mishaps[m] <= mishaps'[m]
  BY <1>1, <1>3 DEF Suffer
<1> QED
  BY <1>1, <1>2, <1>3

\* Nor from the toll, which a crash, a fault or an expiry raises by one.
LEMMA TollGrows ==
    ASSUME TypeOK, [Next]_vars
    PROVE  /\ Toll \in Nat /\ Toll' \in Nat /\ Toll <= Toll'
           /\ \A m \in {"crash", "fault", "expiry"} : Suffer(m) => Toll + 1 <= Toll'
<1>1. \A m \in {"crash", "fault", "expiry"} :
         mishaps[m] \in Nat /\ mishaps'[m] \in Nat /\ mishaps[m] <= mishaps'[m]
  BY MishapsGrow DEF Mishaps
<1>2. ASSUME NEW m \in {"crash", "fault", "expiry"}, Suffer(m)
      PROVE  mishaps'[m] = mishaps[m] + 1
  BY <1>2, SufferType DEF TypeOK, Mishaps
<1> QED
  BY <1>1, <1>2 DEF Toll

\* What the steps of a worker do to its deadline.
LEMMA TimelySteps ==
    ASSUME TypeOK, NEW p \in Procs, NEW w \in Workers
    PROVE  /\ HandOff(p, w) => worker'[p][w].timely
           /\ HandlerOk(p, w) \/ HandlerFails(p, w) =>
                 (worker[p][w].timely => worker'[p][w].timely)
<1>1. worker \in [Procs -> [Workers -> WorkerState]] /\ worker[p][w] \in WorkerState
  BY DEF TypeOK
<1>2. ASSUME HandOff(p, w) PROVE worker'[p][w].timely
  BY <1>1, <1>2 DEF HandOff
<1>3. ASSUME HandlerOk(p, w), worker[p][w].timely PROVE worker'[p][w].timely
  <2>1. worker'[p][w] = [worker[p][w] EXCEPT !.pc = "acking"]
    BY <1>1, <1>3 DEF HandlerOk
  <2> QED
    BY <1>1, <1>3, <2>1 DEF WorkerState, IdleWorker
<1>4. ASSUME HandlerFails(p, w), worker[p][w].timely PROVE worker'[p][w].timely
  <2>1. worker'[p][w] = [worker[p][w] EXCEPT !.pc = "backoff"]
    BY <1>1, <1>4 DEF HandlerFails
  <2> QED
    BY <1>1, <1>4, <2>1 DEF WorkerState, IdleWorker
<1> QED
  BY <1>2, <1>3, <1>4

\* Two entries of one job in a list without duplicates are the same.
LEMMA DistinctEntries ==
    ASSUME NEW list, Distinct(list), NEW e \in Range(list), NEW f \in Range(list), e.id = f.id
    PROVE  e = f
  BY DEF Distinct, Range

\* Nothing has run yet.
LEMMA PaidInit == Init => RunsPaid
<1> SUFFICES ASSUME Init PROVE RunsPaid
  OBVIOUS
<1>1. Range(main) = {} /\ Range(processing) = {}
  BY DEF Init, QueueInit, Range
<1>2. Toll = 0 /\ \A j \in Jobs : runs[j] = 0
  BY DEF Init, Toll, Mishaps
<1>3. RunsBounded
  <2>1. \A m \in Mishaps : mishaps[m] = 0
    BY DEF Init
  <2>2. mishaps["crash"] = 0 /\ mishaps["fault"] = 0 /\ mishaps["expiry"] = 0
    BY <2>1 DEF Mishaps
  <2> QED
    BY <1>2, <2>2, MaxAttemptsType DEF RunsBounded
<1> QED
  BY <1>1, <1>2, <1>3 DEF RunsPaid

\* Every step of the program pays for the runs it adds.
LEMMA PaidStep ==
    TypeOK /\ AttemptsCounted /\ SoleCopies /\ RunsPaid /\ [Next]_vars => RunsPaid'
<1> SUFFICES ASSUME TypeOK, AttemptsCounted, SoleCopies, RunsPaid, [Next]_vars, Unstolen'
             PROVE  RunsPaid'
  BY DEF RunsPaid
<1>0. /\ Unstolen /\ QueueTypeOK /\ QueueTypeOK' /\ Apart
      /\ runs \in [Jobs -> Nat]
      /\ worker \in [Procs -> [Workers -> WorkerState]]
  BY UnstolenBefore, TypeStep DEF TypeOK, SoleCopies
<1>1. /\ \A p \in Procs : offer[p] # NoEntry => offer[p] \in Range(processing)
      /\ \A p \in Procs, w \in Workers :
            worker[p][w].job # NoEntry => worker[p][w].job \in Range(processing)
      /\ \A p, q \in Procs : \A v, w \in Workers :
            worker[p][v].job # NoEntry /\ worker[q][w].job # NoEntry
            /\ worker[p][v].job.id = worker[q][w].job.id => p = q /\ v = w
      /\ \A p, q \in Procs : \A v \in Workers :
            worker[p][v].job # NoEntry /\ offer[q] # NoEntry
            => worker[p][v].job.id # offer[q].id
  BY <1>0, HoldersUnfolded DEF SoleCopies
<1>2. /\ \A e \in Range(processing) : e \in Entry /\ e.id \in Ids(processing)
      /\ \A e \in Range(main) : e \in Entry /\ e.id \in Ids(main)
      /\ Range(main') \subseteq Entry /\ Range(processing') \subseteq Entry
  BY <1>0, IdsOfRange DEF QueueTypeOK
<1>3. /\ Toll \in Nat /\ Toll' \in Nat /\ Toll <= Toll'
      /\ \A m \in {"crash", "fault", "expiry"} : Suffer(m) => Toll + 1 <= Toll'
  BY TollGrows
<1>4. \A e \in Entry : e.id \in Jobs /\ e.attempt \in Nat /\ runs[e.id] \in Nat
  BY <1>0 DEF Entry
<1>5. /\ \A j \in Jobs \ accepted : runs[j] = 0
      /\ \A e \in Range(main) : runs[e.id] <= e.attempt + Toll
      /\ \A e \in Range(processing) :
            /\ runs[e.id] <= e.attempt + Toll + 1
            /\ Settling(e) \/ runs[e.id] <= e.attempt + Toll
      /\ \A j \in Jobs : runs[j] <= maxAttempts(j) + Toll
  <2>1. \A e \in Range(processing) :
            runs[e.id] <= e.attempt + Toll + (IF Settling(e) THEN 1 ELSE 0)
    BY <1>0 DEF RunsPaid
  <2>2. \A e \in Range(processing) :
            /\ runs[e.id] <= e.attempt + Toll + 1
            /\ Settling(e) \/ runs[e.id] <= e.attempt + Toll
    BY <1>2, <1>3, <1>4, <2>1
  <2>3. \A m \in Mishaps : mishaps[m] \in Nat
    BY DEF TypeOK
  <2>4. \A j \in Jobs : runs[j] <= maxAttempts(j) + Toll
    BY <1>0, <2>3, MaxAttemptsType DEF RunsPaid, RunsBounded, Toll, Mishaps
  <2> QED
    BY <1>0, <2>2, <2>4 DEF RunsPaid
\* It is enough to account for each entry.
<1>6. ASSUME \A j \in Jobs \ accepted' : runs'[j] = 0,
             \A f \in Range(main') : runs'[f.id] <= f.attempt + Toll',
             \A f \in Range(processing') :
                \/ runs'[f.id] <= f.attempt + Toll'
                \/ Settling(f)' /\ runs'[f.id] <= f.attempt + Toll' + 1,
             \A j \in Jobs : runs'[j] <= maxAttempts(j) + Toll'
      PROVE  RunsPaid'
  <2>1. runs' \in [Jobs -> Nat] /\ \A m \in Mishaps : mishaps'[m] \in Nat
    BY TypeStep DEF TypeOK
  <2>2. \A f \in Entry : runs'[f.id] \in Nat /\ f.attempt \in Nat
    BY <2>1 DEF Entry
  <2>3. \A f \in Range(processing') :
           runs'[f.id] <= f.attempt + Toll' + (IF Settling(f)' THEN 1 ELSE 0)
    BY <1>2, <1>3, <1>6, <2>2
  <2>4. RunsBounded'
    BY <1>6, <2>1, MaxAttemptsType DEF RunsBounded, Toll, Mishaps
  <2> QED
    BY <1>6, <2>3, <2>4 DEF RunsPaid
\* Steps that invoke no handler.
<1>7. ASSUME UNCHANGED runs, accepted \subseteq accepted',
             \A f \in Range(main') : f \in Range(main) \/ runs[f.id] <= f.attempt + Toll',
             \A f \in Range(processing') :
                \/ runs[f.id] <= f.attempt + Toll'
                \/ f \in Range(processing) /\ (Settling(f) => Settling(f)' \/ Toll + 1 <= Toll')
      PROVE  RunsPaid'
  <2>1. \A j \in Jobs \ accepted' : runs'[j] = 0
    BY <1>5, <1>7
  <2>2. \A f \in Range(main') : runs'[f.id] <= f.attempt + Toll'
    BY <1>2, <1>3, <1>4, <1>5, <1>7
  <2>3. ASSUME NEW f \in Range(processing')
        PROVE  \/ runs'[f.id] <= f.attempt + Toll'
               \/ Settling(f)' /\ runs'[f.id] <= f.attempt + Toll' + 1
    <3>1. CASE f \in Range(processing) /\ (Settling(f) => Settling(f)' \/ Toll + 1 <= Toll')
      <4>1. /\ runs[f.id] <= f.attempt + Toll + 1
            /\ Settling(f) \/ runs[f.id] <= f.attempt + Toll
            /\ f.attempt \in Nat /\ runs[f.id] \in Nat /\ runs' = runs
        BY <1>2, <1>4, <1>5, <1>7, <3>1
      <4>2. /\ runs[f.id] <= f.attempt + Toll => runs'[f.id] <= f.attempt + Toll'
            /\ Toll + 1 <= Toll' => runs'[f.id] <= f.attempt + Toll'
            /\ runs'[f.id] <= f.attempt + Toll' + 1
        BY <1>3, <4>1
      <4> QED
        BY <3>1, <4>1, <4>2
    <3> QED
      BY <1>7, <3>1
  <2>4. \A j \in Jobs : runs'[j] <= maxAttempts(j) + Toll'
    BY <1>0, <1>3, <1>5, <1>7, MaxAttemptsType
  <2> QED
    BY <1>6, <2>1, <2>2, <2>3, <2>4

<1>8. ASSUME NEW p \in Procs, NEW w \in Workers, NEW f,
             Settling(f), worker[p][w].job # f,
             \A q \in Procs, v \in Workers : q # p \/ v # w => worker'[q][v] = worker[q][v]
      PROVE  Settling(f)'
  BY <1>8 DEF Settling
<1>9. ASSUME UNCHANGED worker, NEW f, Settling(f) PROVE Settling(f)'
  BY <1>9 DEF Settling
<1>10. ASSUME NEW j \in Jobs, Submit(j) PROVE RunsPaid'
  <2>1. /\ Range(main') = Range(main) \cup {NewJob(j)} /\ processing' = processing
        /\ j \notin accepted /\ accepted' = accepted \cup {j} /\ UNCHANGED << runs, worker >>
    BY <1>0, <1>10, EnqueueEffect DEF Submit, procVars
  <2>2. runs[NewJob(j).id] <= NewJob(j).attempt + Toll'
    BY <1>3, <1>5, <2>1 DEF NewJob
  <2> QED
    BY <1>7, <1>9, <2>1, <2>2
<1>11. ASSUME NEW p \in Procs, RecoverStep(p) PROVE RunsPaid'
  <2> DEFINE e == Last(processing)
  <2>1. /\ e \in Entry /\ e \in Range(processing)
        /\ Range(processing') \subseteq Range(processing)
        /\ Range(main') = Range(main) \cup {e}
    BY <1>0, <1>11, RecoverEffect DEF RecoverStep
  <2>2. UNCHANGED << worker, accepted, runs >>
    BY <1>11 DEF RecoverStep, procVars, ghostVars
  <2>3. ~ Stealing
    <3> SUFFICES ASSUME Stealing PROVE FALSE
      OBVIOUS
    <3>1. mishaps'["steal"] = mishaps["steal"] + 1
      BY <1>11, SufferType DEF RecoverStep, TypeOK, Mishaps
    <3> QED
      BY <1>0, <3>1 DEF Unstolen
  <2>4. ~ Settling(e)
    BY <2>3 DEF Stealing, Holds, Settling
  <2> HIDE DEF e
  <2>5. runs[e.id] <= e.attempt + Toll'
    BY <1>3, <1>4, <1>5, <2>1, <2>4
  <2> QED
    BY <1>7, <1>9, <2>1, <2>2, <2>5
<1>12. ASSUME NEW p \in Procs, ClaimJob(p) \/ ClaimLost(p) PROVE RunsPaid'
  <2>1. UNCHANGED << worker, accepted, runs >>
    BY <1>12 DEF ClaimJob, ClaimLost, ghostVars
  <2>2. /\ Oldest \in Entry
        /\ Range(main) = Range(main') \cup {Oldest}
        /\ Range(processing') \subseteq Range(processing) \cup {Oldest}
    BY <1>0, <1>12, ClaimEffect DEF ClaimJob, ClaimLost
  <2>3. runs[Oldest.id] <= Oldest.attempt + Toll'
    BY <1>3, <1>4, <1>5, <2>2
  <2> QED
    BY <1>7, <1>9, <2>1, <2>2, <2>3
\* A worker moves on with the job it has.
<1>13. ASSUME NEW p \in Procs, NEW w \in Workers, HandlerOk(p, w) \/ HandlerFails(p, w)
       PROVE  RunsPaid'
  <2>1. UNCHANGED << main, processing, accepted, runs >>
    BY <1>13 DEF HandlerOk, HandlerFails, queueVars, ghostVars
  <2>2. /\ worker'[p][w].job = worker[p][w].job
        /\ worker'[p][w].pc # "killing"
        /\ worker[p][w].timely => worker'[p][w].timely
        /\ \A q \in Procs, v \in Workers : q # p \/ v # w => worker'[q][v] = worker[q][v]
    BY <1>13, WorkerSteps, TimelySteps
  <2>3. ASSUME NEW f, Settling(f) PROVE Settling(f)'
    <3>1. PICK q \in Procs, v \in Workers :
             worker[q][v].job = f /\ worker[q][v].timely /\ worker[q][v].pc # "killing"
      BY <2>3 DEF Settling
    <3>2. CASE q = p /\ v = w
      BY <2>2, <3>1, <3>2 DEF Settling
    <3>3. CASE q # p \/ v # w
      BY <2>2, <3>1, <3>3 DEF Settling
    <3> QED
      BY <3>2, <3>3
  <2> QED
    BY <1>7, <2>1, <2>3
\* A mishap pays.
<1>14. ASSUME UNCHANGED << main, processing, accepted, runs >>, Toll + 1 <= Toll' PROVE RunsPaid'
  BY <1>7, <1>14
<1>15. ASSUME NEW p \in Procs, Crash(p) \/ \E w \in Workers : Expire(p, w) PROVE RunsPaid'
  <2>1. Suffer("crash") \/ Suffer("expiry")
    BY <1>15 DEF Crash, Expire
  <2> QED
    BY <1>3, <1>14, <1>15, <2>1 DEF Crash, Expire, queueVars, ghostVars
<1>16. ASSUME NEW p \in Procs, NEW w \in Workers, SettleFails(p, w) PROVE RunsPaid'
  <2>1. CASE worker[p][w].timely
    <3>1. Suffer("fault")
      BY <1>16, <2>1 DEF SettleFails
    <3> QED
      BY <1>3, <1>14, <1>16, <3>1 DEF SettleFails, queueVars, ghostVars
  <2>2. CASE ~ worker[p][w].timely
    <3>1. \A q \in Procs, v \in Workers : q # p \/ v # w => worker'[q][v] = worker[q][v]
      BY <1>16, WorkerSteps DEF SettleFails
    <3>2. ASSUME NEW f, Settling(f) PROVE Settling(f)'
      BY <2>2, <3>1, <3>2 DEF Settling
    <3> QED
      BY <1>7, <1>16, <3>2 DEF SettleFails, queueVars, ghostVars
  <2> QED
    BY <2>1, <2>2
<1>17. ASSUME NEW p \in Procs, NEW w \in Workers,
              AckJob(p, w) \/ RetryJob(p, w) \/ KillJob(p, w)
       PROVE  RunsPaid'
  <2> DEFINE e == worker[p][w].job
  <2>1. /\ worker[p][w].pc # "idle" /\ worker[p][w].timely
        /\ BackToIdle(p, w) /\ UNCHANGED << accepted, runs >>
    BY <1>17 DEF AckJob, RetryJob, KillJob, ghostVars
  <2>2. e \in Entry /\ e \in Range(processing)
    BY <1>1, <2>1, BusyJob, NoEntryAssumption
  <2>3. processing' = LRem(processing, e)
    BY <1>0, <1>17, <2>2, RetryEffect, KillEffect DEF AckJob, Ack, RetryJob, KillJob
  <2>4. Range(processing') \subseteq Range(processing) /\ e.id \notin Ids(processing')
    BY <1>0, <2>2, <2>3, LRemEffect DEF Apart
  <2>5. e \notin Range(processing')
    BY <1>0, <2>4, IdsOfRange DEF QueueTypeOK
  <2>6. \A q \in Procs, v \in Workers : q # p \/ v # w => worker'[q][v] = worker[q][v]
    BY <2>1, WorkerSteps
  <2>7. \A f \in Range(processing') : f \in Range(processing) /\ (Settling(f) => Settling(f)')
    BY <1>8, <2>4, <2>5, <2>6
  <2>8. \A f \in Range(main') : f \in Range(main) \/ runs[f.id] <= f.attempt + Toll'
    <3>1. CASE AckJob(p, w) \/ KillJob(p, w)
      BY <1>0, <2>2, <3>1, KillEffect DEF AckJob, Ack, KillJob
    <3>2. CASE RetryJob(p, w)
      <4>1. PICK again \in Entry :
               /\ again.id = e.id /\ again.attempt = e.attempt + 1
               /\ Range(main') \subseteq Range(main) \cup {again}
        BY <1>0, <2>2, <3>2, RetryEffect DEF RetryJob
      <4>2. runs[e.id] <= e.attempt + Toll + 1 /\ runs[e.id] \in Nat /\ e.attempt \in Nat
        BY <1>4, <1>5, <2>2
      <4>3. runs[again.id] <= again.attempt + Toll'
        BY <1>3, <4>1, <4>2
      <4> QED
        BY <4>1, <4>3
    <3> QED
      BY <1>17, <3>1, <3>2
  <2> QED
    BY <1>7, <2>1, <2>7, <2>8
<1>18. ASSUME NEW p \in Procs, NEW w \in Workers, HandOff(p, w) PROVE RunsPaid'
  <2>0. offer[p] \in Entry
    BY <1>18 DEF HandOff, TypeOK
  <2>9. PICK e \in Entry : e = offer[p]
    BY <2>0
  <2>1. /\ UNCHANGED << main, processing, accepted >> /\ e # NoEntry
        /\ worker[p][w].pc = "idle"
    BY <1>18, NoEntryAssumption DEF HandOff, queueVars
  <2>2. /\ e \in Range(processing) /\ e.id \in Ids(processing) /\ e.id \in accepted
        /\ e.id \notin Ids(main)
    BY <1>0, <1>1, <1>2, <2>1, <2>9 DEF Apart
  <2>3. worker[p][w].job = NoEntry
    <3>1. worker[p][w] \in WorkerState
      BY <1>0
    <3>2. worker[p][w] = IdleWorker
      BY <2>1, <3>1, WorkerStateType
    <3> QED
      BY <3>2 DEF IdleWorker
  <2>4. \A f \in Entry : worker[p][w].job # f
    BY <2>3, NoEntryAssumption
  <2>5. \A q \in Procs, v \in Workers : q # p \/ v # w => worker'[q][v] = worker[q][v]
    BY <1>18, WorkerSteps
  <2>6. \A f \in Entry : Settling(f) => Settling(f)'
    BY <1>8, <2>4, <2>5
  <2>7. CASE e.id \in Unknown
    <3>1. UNCHANGED runs
      BY <1>18, <2>7, <2>9 DEF HandOff
    <3> QED
      BY <1>2, <1>7, <2>1, <2>6, <3>1
  <2>8. CASE e.id \notin Unknown
    <3>1. runs' = [runs EXCEPT ![e.id] = @ + 1]
      BY <1>18, <2>8, <2>9 DEF HandOff
    <3>2. /\ runs'[e.id] = runs[e.id] + 1
          /\ \A j \in Jobs : j # e.id => runs'[j] = runs[j]
      BY <1>0, <1>4, <2>1, <3>1
    <3>3. Settling(e)'
      <4>1. worker'[p][w].job = e /\ worker'[p][w].timely /\ worker'[p][w].pc # "killing"
        BY <1>18, <2>8, <2>9, WorkerSteps, TimelySteps
      <4> QED
        BY <4>1 DEF Settling
    <3>4. ~ Settling(e)
      BY <1>1, <2>1, <2>9 DEF Settling
    <3>5. runs[e.id] <= e.attempt + Toll /\ e.attempt < maxAttempts(e.id)
          /\ e.id \in Jobs /\ e.attempt \in Nat /\ runs[e.id] \in Nat
          /\ maxAttempts(e.id) \in Nat
      BY <1>4, <1>5, <2>1, <2>2, <2>9, <3>4, MaxAttemptsType DEF AttemptsCounted, Live
    <3>6. runs'[e.id] <= e.attempt + Toll' + 1 /\ runs'[e.id] <= maxAttempts(e.id) + Toll'
      BY <1>3, <3>2, <3>5
    <3>7. \A j \in Jobs \ accepted' : runs'[j] = 0
      BY <1>5, <2>1, <2>2, <3>2
    <3>8. \A f \in Range(main') : runs'[f.id] <= f.attempt + Toll'
      <4> SUFFICES ASSUME NEW f \in Range(main) PROVE runs'[f.id] <= f.attempt + Toll'
        BY <2>1
      <4>1. f.id # e.id /\ f \in Entry /\ f.id \in Jobs /\ f.attempt \in Nat
        BY <1>2, <1>4, <2>2
      <4> QED
        BY <1>3, <1>4, <1>5, <3>2, <4>1
    <3>9. ASSUME NEW f \in Range(processing')
          PROVE  \/ runs'[f.id] <= f.attempt + Toll'
                 \/ Settling(f)' /\ runs'[f.id] <= f.attempt + Toll' + 1
      <4>1. CASE f = e
        <5>1. Settling(f)'
          BY <3>3, <4>1
        <5> QED
          BY <3>6, <4>1, <5>1
      <4>2. CASE f # e
        <5>1. f \in Range(processing) /\ f \in Entry /\ f.id \in Jobs /\ f.attempt \in Nat
          BY <1>2, <1>4, <2>1, <3>9
        <5>2. f.id # e.id
          BY <1>0, <2>2, <4>2, <5>1, DistinctEntries DEF Apart
        <5>3. runs'[f.id] = runs[f.id] /\ runs[f.id] \in Nat
          BY <1>4, <3>2, <5>1, <5>2
        <5>4. /\ runs[f.id] <= f.attempt + Toll + 1
              /\ Settling(f)' \/ runs[f.id] <= f.attempt + Toll
          BY <1>5, <2>6, <5>1
        <5> QED
          BY <1>3, <5>1, <5>3, <5>4
      <4> QED
        BY <4>1, <4>2
    <3>10. ASSUME NEW j \in Jobs PROVE runs'[j] <= maxAttempts(j) + Toll'
      <4>1. CASE j = e.id
        BY <3>6, <4>1
      <4>2. CASE j # e.id
        BY <1>0, <1>3, <1>5, <3>2, <4>2, MaxAttemptsType
      <4> QED
        BY <4>1, <4>2
    <3> QED
      BY <1>6, <3>7, <3>8, <3>9, <3>10
  <2> QED
    BY <2>7, <2>8
<1>19. ASSUME UNCHANGED << main, processing, accepted, runs, worker >> PROVE RunsPaid'
  BY <1>7, <1>9, <1>19
<1>20. ASSUME UNCHANGED vars \/ \E p \in Procs :
                 \/ Start(p) \/ Shutdown(p) \/ RecoverDone(p) \/ ClaimNothing(p)
                 \/ DropFails(p) \/ Abandon(p) \/ Stop(p)
       PROVE  RunsPaid'
  BY <1>19, <1>20 DEF vars, procVars, queueVars, ghostVars, Start, Shutdown, RecoverDone,
                      ClaimNothing, DropFails, Abandon, Stop
<1>21. ASSUME NEW p \in Procs, DropBad(p) PROVE RunsPaid'
  <2>1. /\ offer[p] \in Entry /\ processing' = LRem(processing, offer[p])
        /\ UNCHANGED << main, worker, accepted, runs >>
    BY <1>21 DEF DropBad, DropPoison, TypeOK
  <2>2. Range(processing') \subseteq Range(processing)
    BY <1>0, <2>1, LRemEffect
  <2> QED
    BY <1>7, <1>9, <2>1, <2>2
<1> QED
  BY <1>10, <1>11, <1>12, <1>13, <1>15, <1>16, <1>17, <1>18, <1>20, <1>21
  DEF Next, RunGoroutine, WorkerGoroutine, Environment

\* RunsPaid is an invariant.
LEMMA PaidCorrect == Spec => []RunsPaid
  BY TypeCorrect, CountedCorrect, SoleCorrect, PaidInit, PaidStep, PTL DEF Spec

\* As long as no Recover takes an entry that is being worked on, a job runs at most
\* as often as its attempts allow and once more for each crash, lost command and
\* expired deadline, whatever the number of processes.
THEOREM RunsAreBounded == Spec => []RunsBounded
<1>1. RunsPaid => RunsBounded
  BY DEF RunsPaid, RunsBounded
<1> QED
  BY <1>1, PaidCorrect, PTL

\* The invariant behind the safety properties, in one piece.
THEOREM InductiveInvariant == Spec => []IndInv
  BY TypeCorrect, ReadableCorrect, KeptCorrect, CountedCorrect, SoleCorrect, PaidCorrect,
     QuietCorrect, PTL
  DEF IndInv

-----------------------------------------------------------------------------
(* What holds when there is one worker process on the namespace, as `make  *)
(* worker` starts one: recovery takes only orphans, so that nothing is     *)
(* ever stolen, it strands nothing, and what the lists, the                *)
(* acknowledgements and the attempt counters say of a job moves as         *)
(* AtLeastOnce allows, through every crash, fault and expiry.              *)

OneProcess == \A p, q \in Procs : p = q

-----------------------------------------------------------------------------
(* Nothing is stolen.                                                      *)

\* While a process recovers, none of its goroutines has a delivery.
LEMMA NobodyHolds ==
    ASSUME OneProcess, TypeOK, QuietAtStart, NEW p \in Procs, RecoverStep(p)
    PROVE  ~ Stealing
<1> SUFFICES ASSUME NEW q \in Procs, Holds(q, Last(processing)) PROVE FALSE
  BY DEF Stealing
<1>1. q = p /\ pc[p] = "recovering" /\ Last(processing) \in Entry
  BY RecoverEffect DEF OneProcess, RecoverStep, TypeOK
<1>2. offer[q] = NoEntry \/ offer[q] \in Entry
  BY DEF TypeOK
<1>3. offer[q] = NoEntry
  BY <1>1, <1>2 DEF TypeOK
<1>4. \A w \in Workers : worker[q][w].job = NoEntry
  BY <1>1 DEF QuietAtStart, IdleWorker
<1> QED
  BY <1>1, <1>3, <1>4, NoEntryAssumption DEF Holds

\* With one process, Recover moves back only entries that nobody is working on.
THEOREM OnlyOrphansAreRecovered == ASSUME OneProcess PROVE Spec => RecoverOnlyOrphans
<1>1. TypeOK /\ QuietAtStart => \A p \in Procs : RecoverStep(p) => ~ Stealing
  BY NobodyHolds
<1> QED
  BY <1>1, TypeCorrect, QuietCorrect, PTL DEF RecoverOnlyOrphans

\* A step that counts a steal is a step of Recover that takes a live delivery.
LEMMA StealStep == TypeOK /\ Unstolen /\ [Next]_vars
                   /\ (\A p \in Procs : RecoverStep(p) => ~ Stealing) => Unstolen'
<1> SUFFICES ASSUME TypeOK, Unstolen, [Next]_vars,
                    \A p \in Procs : RecoverStep(p) => ~ Stealing
             PROVE  Unstolen'
  OBVIOUS
<1>1. mishaps' = mishaps \/ \E m \in Mishaps \ {"steal"} : Suffer(m)
  BY DEF Next, vars, RunGoroutine, WorkerGoroutine, Environment, Submit, Start, Shutdown,
         RecoverStep, RecoverDone, ClaimJob, ClaimLost, ClaimNothing, DropBad, DropFails, HandOff, Abandon,
         Stop, Crash, HandlerOk, HandlerFails, Expire, AckJob, RetryJob, KillJob, SettleFails,
         Mishaps
<1>2. mishaps \in [Mishaps -> Nat] /\ mishaps["steal"] = 0
  BY DEF TypeOK, Unstolen
<1>3. ASSUME NEW m \in Mishaps \ {"steal"}, Suffer(m) PROVE mishaps'["steal"] = 0
  BY <1>2, <1>3 DEF Suffer, Mishaps
<1> QED
  BY <1>1, <1>2, <1>3 DEF Unstolen

\* With one process nothing is ever stolen, so that the theorems that say so hold
\* without the exception.
THEOREM NothingIsStolen == ASSUME OneProcess PROVE Spec => []Unstolen
<1>1. Init => Unstolen
  BY DEF Init, Unstolen, Mishaps
<1>2. TypeOK /\ QuietAtStart => \A p \in Procs : RecoverStep(p) => ~ Stealing
  BY NobodyHolds
<1>3. TypeOK /\ QuietAtStart /\ Unstolen /\ [Next]_vars => Unstolen'
  BY <1>2, StealStep
<1> QED
  BY <1>1, <1>3, TypeCorrect, QuietCorrect, PTL DEF Spec

-----------------------------------------------------------------------------
(* Nothing is stranded.                                                    *)

Faultless == mishaps["fault"] = 0 /\ mishaps["expiry"] = 0

\* The invariant: every goroutine can still settle what it has, and whatever is in
\* processing after the recovery is in somebody's hands.
InHands ==
    Faultless =>
        /\ \A p \in Procs, w \in Workers : worker[p][w].timely
        /\ \A p \in Procs : pc[p] \in {"claiming", "dropping", "sending"} =>
              \A e \in Range(processing) : Holds(p, e)

\* A fault or an expired deadline is never forgotten.
LEMMA FaultlessBefore ==
    ASSUME TypeOK, [Next]_vars, Faultless'
    PROVE  Faultless /\ ~ Suffer("fault") /\ ~ Suffer("expiry")
<1>1. \A m \in {"fault", "expiry"} :
         mishaps[m] \in Nat /\ mishaps'[m] \in Nat /\ mishaps[m] <= mishaps'[m]
  BY MishapsGrow DEF Mishaps
<1>2. ASSUME NEW m \in {"fault", "expiry"}, Suffer(m) PROVE mishaps'[m] = mishaps[m] + 1
  BY <1>2, SufferType DEF TypeOK, Mishaps
<1> QED
  BY <1>1, <1>2 DEF Faultless

\* With one process, every step keeps what is in processing in somebody's hands.
LEMMA InHandsStep ==
    ASSUME OneProcess, TypeOK, SoleCopies, Unstolen, InHands, [Next]_vars
    PROVE  InHands'
<1> SUFFICES ASSUME Faultless' PROVE InHands'
  BY DEF InHands
<1>0. /\ Faultless /\ ~ Suffer("fault") /\ ~ Suffer("expiry")
      /\ QueueTypeOK /\ QueueTypeOK' /\ Apart
      /\ worker \in [Procs -> [Workers -> WorkerState]]
  BY FaultlessBefore, TypeStep DEF TypeOK, SoleCopies
<1>1. /\ \A p \in Procs, w \in Workers : worker[p][w].timely
      /\ \A p \in Procs : pc[p] \in {"claiming", "dropping", "sending"} =>
            \A e \in Range(processing) : Holds(p, e)
  BY <1>0 DEF InHands
<1>2. /\ Range(processing) \subseteq Entry /\ Range(processing') \subseteq Entry
      /\ \A e \in Range(processing') : e.id \in Ids(processing')
  BY <1>0, IdsOfRange DEF QueueTypeOK
<1>3. \A p \in Procs, w \in Workers :
         worker[p][w].job # NoEntry => worker[p][w].job \in Range(processing)
  BY HoldersUnfolded DEF SoleCopies
\* It is enough to look at one process and one entry.
<1>4. ASSUME \A p \in Procs, w \in Workers : worker'[p][w].timely,
             \A p \in Procs, e \in Entry : pc'[p] \in {"claiming", "dropping", "sending"}
                /\ e \in Range(processing') => Holds(p, e)'
      PROVE  InHands'
  BY <1>2, <1>4 DEF InHands
<1>5. ASSUME UNCHANGED worker PROVE \A p \in Procs, w \in Workers : worker'[p][w].timely
  BY <1>1, <1>5
\* Steps that take nothing out of anybody's hands.
<1>6. ASSUME UNCHANGED << offer, worker >>, Range(processing') \subseteq Range(processing),
             \A p \in Procs : pc'[p] \in {"claiming", "dropping", "sending"} =>
                pc[p] \in {"claiming", "dropping", "sending"} \/ Range(processing') = {}
      PROVE  InHands'
  <2>1. \A p \in Procs, e \in Entry : Holds(p, e) => Holds(p, e)'
    BY <1>6 DEF Holds
  <2> QED
    BY <1>1, <1>4, <1>5, <1>6, <2>1
<1>7. CASE UNCHANGED vars \/ \E j \in Jobs : Submit(j)
  BY <1>6, <1>7 DEF vars, queueVars, procVars, Submit, Enqueue
<1>8. ASSUME NEW p \in Procs, Start(p) \/ Shutdown(p) \/ ClaimNothing(p) \/ Stop(p)
      PROVE  InHands'
  BY <1>6, <1>8 DEF Start, Shutdown, ClaimNothing, Stop, Loop, queueVars, TypeOK
<1>9. ASSUME NEW p \in Procs, RecoverDone(p) PROVE InHands'
  <2>1. processing = << >> \/ cancelled[p]
    BY <1>0, <1>9 DEF RecoverDone
  <2>2. processing = << >> => Range(processing) = {}
    BY DEF Range
  <2>3. pc'[p] = IF cancelled[p] THEN "waiting" ELSE "claiming"
    BY <1>9 DEF RecoverDone, Loop, TypeOK
  <2>4. \A q \in Procs : q = p
    BY DEF OneProcess
  <2> QED
    BY <1>6, <1>9, <2>1, <2>2, <2>3, <2>4 DEF RecoverDone, queueVars
<1>10. ASSUME NEW p \in Procs, RecoverStep(p) PROVE InHands'
  <2>1. Range(processing') \subseteq Range(processing) /\ UNCHANGED << pc, offer, worker >>
    BY <1>0, <1>10, RecoverEffect DEF RecoverStep, procVars
  <2> QED
    BY <1>6, <2>1
<1>11. ASSUME NEW p \in Procs, ClaimLost(p) \/ \E w \in Workers : Expire(p, w) PROVE InHands'
  BY <1>0, <1>11 DEF ClaimLost, Expire
<1>12. ASSUME NEW p \in Procs, DropBad(p) PROVE InHands'
  <2> DEFINE bad == offer[p]
  <2>1. /\ bad \in Entry /\ bad # NoEntry /\ pc[p] = "dropping" /\ UNCHANGED worker
        /\ processing' = LRem(processing, bad)
    BY <1>12, NoEntryAssumption DEF DropBad, DropPoison, TypeOK
  <2>2. bad \in Range(processing)
    BY <2>1, HoldersUnfolded DEF SoleCopies
  <2>3. Range(processing') \subseteq Range(processing) /\ bad.id \notin Ids(processing')
    BY <1>0, <2>1, <2>2, LRemEffect DEF Apart
  <2>4. bad \notin Range(processing')
    BY <1>2, <2>3
  <2>5. \A e \in Range(processing') : Holds(p, e) => Holds(p, e)'
    BY <2>1, <2>4 DEF Holds
  <2> QED
    BY <1>1, <1>4, <1>5, <2>1, <2>3, <2>5 DEF OneProcess
<1>20. ASSUME NEW p \in Procs, DropFails(p) PROVE InHands'
  <2>1. cancelled[p] /\ UNCHANGED worker
    BY <1>0, <1>20 DEF DropFails
  <2>2. pc'[p] = "waiting"
    BY <1>20, <2>1 DEF DropFails, Loop, TypeOK
  <2> QED
    BY <1>4, <1>5, <2>1, <2>2 DEF OneProcess
<1>13. ASSUME NEW p \in Procs, ClaimJob(p) PROVE InHands'
  <2>1. /\ Range(processing') = Range(processing) \cup {Oldest}
        /\ UNCHANGED worker /\ offer'[p] = Oldest /\ pc[p] = "claiming"
        /\ offer[p] \notin Entry
    BY <1>0, <1>13, ClaimEffect DEF ClaimJob, TypeOK
  <2>2. \A e \in Range(processing') : Holds(p, e)'
    BY <1>1, <1>2, <2>1 DEF Holds
  <2> QED
    BY <1>4, <1>5, <2>1, <2>2 DEF OneProcess
<1>14. ASSUME NEW p \in Procs, NEW w \in Workers, HandOff(p, w) PROVE InHands'
  <2>1. /\ UNCHANGED processing /\ pc[p] = "sending" /\ worker[p][w].pc = "idle"
    BY <1>14 DEF HandOff, queueVars
  <2>2. worker[p][w].job = NoEntry
    <3>1. worker[p][w] \in WorkerState
      BY <1>0
    <3>2. worker[p][w] = IdleWorker
      BY <2>1, <3>1, WorkerStateType
    <3> QED
      BY <3>2 DEF IdleWorker
  <2>3. /\ worker'[p][w].job = offer[p] /\ worker'[p][w].timely
        /\ \A q \in Procs, v \in Workers : q # p \/ v # w => worker'[q][v] = worker[q][v]
    BY <1>14, WorkerSteps, TimelySteps
  <2>4. ASSUME NEW e \in Range(processing) PROVE Holds(p, e)'
    <3>1. e # NoEntry /\ Holds(p, e)
      BY <1>1, <1>2, <2>1, NoEntryAssumption
    <3>2. CASE offer[p] = e
      BY <2>3, <3>2 DEF Holds
    <3>3. CASE offer[p] # e
      <4>1. PICK v \in Workers : worker[p][v].job = e
        BY <3>1, <3>3 DEF Holds
      <4>2. v # w
        BY <2>2, <3>1, <4>1
      <4> QED
        BY <2>3, <4>1, <4>2 DEF Holds
    <3> QED
      BY <3>2, <3>3
  <2>5. \A q \in Procs, v \in Workers : worker'[q][v].timely
    BY <1>1, <2>3
  <2> QED
    BY <1>4, <2>1, <2>4, <2>5 DEF OneProcess
<1>15. ASSUME NEW p \in Procs, Abandon(p) PROVE InHands'
  <2>1. pc'[p] = "waiting" /\ UNCHANGED worker
    BY <1>15 DEF Abandon, TypeOK
  <2> QED
    BY <1>4, <1>5, <2>1 DEF OneProcess
<1>16. ASSUME NEW p \in Procs, Crash(p) PROVE InHands'
  <2>1. pc'[p] = "off"
    BY <1>16 DEF Crash, TypeOK
  <2>2. \A q \in Procs, v \in Workers : worker'[q][v].timely
    BY <1>1, <1>16, CrashStep DEF IdleWorker
  <2> QED
    BY <1>4, <2>1, <2>2 DEF OneProcess
<1>17. ASSUME NEW p \in Procs, NEW w \in Workers, HandlerOk(p, w) \/ HandlerFails(p, w)
       PROVE  InHands'
  <2>1. UNCHANGED << processing, pc, offer >>
    BY <1>17 DEF HandlerOk, HandlerFails, queueVars
  <2>2. /\ worker'[p][w].job = worker[p][w].job
        /\ worker[p][w].timely => worker'[p][w].timely
        /\ \A q \in Procs, v \in Workers : q # p \/ v # w => worker'[q][v] = worker[q][v]
    BY <1>17, WorkerSteps, TimelySteps
  <2>3. \A q \in Procs, v \in Workers : worker'[q][v].job = worker[q][v].job
    BY <2>2
  <2>4. \A q \in Procs, e \in Entry : Holds(q, e) => Holds(q, e)'
    BY <2>1, <2>3 DEF Holds
  <2>5. \A q \in Procs, v \in Workers : worker'[q][v].timely
    BY <1>1, <2>2
  <2> QED
    BY <1>1, <1>4, <2>1, <2>4, <2>5
<1>18. ASSUME NEW p \in Procs, NEW w \in Workers, SettleFails(p, w) PROVE InHands'
  BY <1>0, <1>1, <1>18 DEF SettleFails
<1>19. ASSUME NEW p \in Procs, NEW w \in Workers,
              AckJob(p, w) \/ RetryJob(p, w) \/ KillJob(p, w)
       PROVE  InHands'
  <2> DEFINE done == worker[p][w].job
  <2>1. /\ worker[p][w].pc # "idle" /\ BackToIdle(p, w) /\ UNCHANGED << pc, offer >>
    BY <1>19 DEF AckJob, RetryJob, KillJob
  <2>2. done \in Entry /\ done \in Range(processing)
    BY <1>3, <2>1, BusyJob, NoEntryAssumption
  <2>3. processing' = LRem(processing, done)
    BY <1>0, <1>19, <2>2, RetryEffect, KillEffect DEF AckJob, Ack, RetryJob, KillJob
  <2>4. Range(processing') \subseteq Range(processing) /\ done.id \notin Ids(processing')
    BY <1>0, <2>2, <2>3, LRemEffect DEF Apart
  <2>5. done \notin Range(processing')
    BY <1>2, <2>4
  <2>6. /\ worker'[p][w] = IdleWorker
        /\ \A q \in Procs, v \in Workers : q # p \/ v # w => worker'[q][v] = worker[q][v]
    BY <2>1, WorkerSteps
  <2>7. ASSUME NEW q \in Procs, NEW e \in Range(processing'), Holds(q, e) PROVE Holds(q, e)'
    BY <2>1, <2>5, <2>6, <2>7 DEF Holds
  <2>8. \A q \in Procs, v \in Workers : worker'[q][v].timely
    BY <1>1, <2>6 DEF IdleWorker
  <2> QED
    BY <1>1, <1>4, <2>1, <2>4, <2>7, <2>8
<1> QED
  BY <1>7, <1>8, <1>9, <1>10, <1>11, <1>12, <1>13, <1>14, <1>15, <1>16, <1>17, <1>18, <1>19,
     <1>20
  DEF Next, RunGoroutine, WorkerGoroutine, Environment

\* With one process, crashes and shutdowns strand no job beyond the next start:
\* after the recovery processing holds nothing but live deliveries.
THEOREM NothingIsStranded == ASSUME OneProcess PROVE Spec => []NothingStranded
<1>1. Init => InHands
  <2>1. ASSUME Init
        PROVE  /\ \A p \in Procs, w \in Workers : worker[p][w].timely
               /\ \A p \in Procs : pc[p] = "off"
    BY <2>1 DEF Init, IdleWorker
  <2> QED
    BY <2>1 DEF InHands
<1>2. TypeOK /\ SoleCopies /\ Unstolen /\ InHands /\ [Next]_vars => InHands'
  BY InHandsStep
<1>3. InHands => NothingStranded
  BY DEF InHands, Faultless, NothingStranded, Range
<1> QED
  BY <1>1, <1>2, <1>3, TypeCorrect, SoleCorrect, NothingIsStolen, PTL DEF Spec

-----------------------------------------------------------------------------
(* Where a job stands, from its open entries and its dead ones.            *)

Of(j, S) == { e \in S : e.id = j }
AttemptIn(S) == (CHOOSE e \in S : TRUE).attempt

Pend(k) == [at |-> "pending", failures |-> k]
Bury(k) == [at |-> "dead", failures |-> k]

StageOf(j, open, buried, a, d) ==
    IF j \in a THEN [at |-> "done"]
    ELSE IF j \in d THEN [at |-> "discarded"]
    ELSE IF buried # {} THEN Bury(AttemptIn(buried))
    ELSE IF open # {} THEN Pend(AttemptIn(open))
    ELSE [at |-> "new"]

\* Stage reads no more than that.
LEMMA StageUnfolded ==
    ASSUME NEW j \in Jobs
    PROVE  /\ Stage(j) = StageOf(j, Of(j, Range(main)) \cup Of(j, Range(processing)),
                                 Of(j, Range(dead)), acked, dropped)
           /\ Stage(j)' = StageOf(j, Of(j, Range(main')) \cup Of(j, Range(processing')),
                                  Of(j, Range(dead')), acked', dropped')
  BY DEF Stage, StageOf, Of, AttemptIn, Pend, Bury

\* The attempt of a job that has one entry.
LEMMA AttemptOfOne == ASSUME NEW e PROVE AttemptIn({e}) = e.attempt
  BY DEF AttemptIn

\* The entries of a job in a list without duplicates are one or none.
LEMMA OneOf ==
    ASSUME NEW list \in Seq(Entry), Distinct(list)
    PROVE  /\ \A e \in Range(list) : Of(e.id, Range(list)) = {e}
           /\ \A j : j \notin Ids(list) => Of(j, Range(list)) = {}
<1>1. ASSUME NEW e \in Range(list) PROVE Of(e.id, Range(list)) = {e}
  BY DistinctEntries DEF Of
<1>2. ASSUME NEW j, j \notin Ids(list) PROVE Of(j, Range(list)) = {}
  BY <1>2, IdsOfRange DEF Of
<1> QED
  BY <1>1, <1>2

\* The lists m, q and d are free of duplicates and disjoint from each other, from
\* the acknowledged jobs a and from the dropped ones x.
Sound(m, q, d, a, x) ==
    /\ m \in Seq(Entry) /\ q \in Seq(Entry) /\ d \in Seq(Entry)
    /\ Distinct(m) /\ Distinct(q) /\ Distinct(d)
    /\ Ids(m) \cap Ids(q) = {} /\ Ids(m) \cap Ids(d) = {} /\ Ids(q) \cap Ids(d) = {}
    /\ (Ids(m) \cup Ids(q) \cup Ids(d)) \cap (a \cup x) = {}

\* What StageOf then says of their entries, and of a job that has none.
Staged(m, q, d, a, x) ==
    LET At(j) == StageOf(j, Of(j, Range(m)) \cup Of(j, Range(q)), Of(j, Range(d)), a, x)
    IN  /\ \A e \in Range(m) \cup Range(q) : At(e.id) = Pend(e.attempt)
        /\ \A e \in Range(d) : At(e.id) = Bury(e.attempt)
        /\ \A j : j \notin Ids(m) \cup Ids(q) \cup Ids(d) \cup a \cup x => At(j) = [at |-> "new"]

\* So they are, whatever the lists.
LEMMA StageCases ==
    ASSUME NEW m, NEW q, NEW d, NEW a, NEW x, Sound(m, q, d, a, x)
    PROVE  Staged(m, q, d, a, x)
<1> USE DEF Sound
<1>1. /\ \A e \in Range(m) : e.id \in Ids(m)
      /\ \A e \in Range(q) : e.id \in Ids(q)
      /\ \A e \in Range(d) : e.id \in Ids(d)
  BY IdsOfRange
<1>2. ASSUME NEW e \in Range(m) \cup Range(q)
      PROVE  /\ Of(e.id, Range(m)) \cup Of(e.id, Range(q)) = {e}
             /\ Of(e.id, Range(d)) = {}
             /\ e.id \notin a /\ e.id \notin x
  <2>1. CASE e \in Range(m)
    <3>1. Of(e.id, Range(m)) = {e} /\ Of(e.id, Range(q)) = {} /\ Of(e.id, Range(d)) = {}
      BY <1>1, <2>1, OneOf
    <3> QED
      BY <1>1, <2>1, <3>1
  <2>2. CASE e \in Range(q)
    <3>1. Of(e.id, Range(m)) = {} /\ Of(e.id, Range(q)) = {e} /\ Of(e.id, Range(d)) = {}
      BY <1>1, <2>2, OneOf
    <3> QED
      BY <1>1, <2>2, <3>1
  <2> QED
    BY <2>1, <2>2
<1>3. ASSUME NEW e \in Range(d)
      PROVE  Of(e.id, Range(d)) = {e} /\ e.id \notin a /\ e.id \notin x
  BY <1>1, OneOf
<1>4. ASSUME NEW j, j \notin Ids(m) \cup Ids(q) \cup Ids(d)
      PROVE  Of(j, Range(m)) \cup Of(j, Range(q)) = {} /\ Of(j, Range(d)) = {}
  BY <1>4, OneOf
<1>5. \A e : AttemptIn({e}) = e.attempt
  BY AttemptOfOne
<1>6. ASSUME NEW e \in Range(m) \cup Range(q)
      PROVE  StageOf(e.id, Of(e.id, Range(m)) \cup Of(e.id, Range(q)),
                     Of(e.id, Range(d)), a, x) = Pend(e.attempt)
  BY <1>2, <1>5 DEF StageOf
<1>7. ASSUME NEW e \in Range(d)
      PROVE  StageOf(e.id, Of(e.id, Range(m)) \cup Of(e.id, Range(q)),
                     Of(e.id, Range(d)), a, x) = Bury(e.attempt)
  BY <1>3, <1>5 DEF StageOf
<1>8. ASSUME NEW j, j \notin Ids(m) \cup Ids(q) \cup Ids(d) \cup a \cup x
      PROVE  StageOf(j, Of(j, Range(m)) \cup Of(j, Range(q)),
                     Of(j, Range(d)), a, x) = [at |-> "new"]
  BY <1>4, <1>8 DEF StageOf
<1> QED
  BY <1>6, <1>7, <1>8 DEF Staged

\* The stage of a job, before and after a step that makes no second copy.
LEMMA StagesOf ==
    ASSUME QueueTypeOK, QueueTypeOK', Apart, Apart', accepted \subseteq Jobs, accepted' \subseteq Jobs
    PROVE  /\ \A e \in Range(main) \cup Range(processing) : Stage(e.id) = Pend(e.attempt)
           /\ \A e \in Range(main') \cup Range(processing') : Stage(e.id)' = Pend(e.attempt)
           /\ \A e \in Range(dead') : Stage(e.id)' = Bury(e.attempt)
           /\ \A j \in Jobs \ accepted : Stage(j) = [at |-> "new"]
           /\ \A j \in acked' : Stage(j)' = [at |-> "done"]
           /\ \A j \in dropped' : Stage(j)' = [at |-> "discarded"]
<1>1. /\ Range(main) \cup Range(processing) \cup Range(dead) \subseteq Entry
      /\ Range(main') \cup Range(processing') \cup Range(dead') \subseteq Entry
      /\ \A e \in Entry : e.id \in Jobs
  BY IdsOfRange DEF QueueTypeOK, Entry
<1>8. Staged(main, processing, dead, acked, dropped)
  <2>1. Sound(main, processing, dead, acked, dropped)
    BY DEF Apart, QueueTypeOK, Sound
  <2> QED
    BY <2>1, StageCases
<1>9. Staged(main', processing', dead', acked', dropped')
  <2>1. Sound(main', processing', dead', acked', dropped')
    BY DEF Apart, QueueTypeOK, Sound
  <2> QED
    BY <2>1, StageCases
<1>2. ASSUME NEW e \in Range(main) \cup Range(processing) PROVE Stage(e.id) = Pend(e.attempt)
  BY <1>1, <1>8, StageUnfolded DEF Staged
<1>3. ASSUME NEW e \in Range(main') \cup Range(processing') PROVE Stage(e.id)' = Pend(e.attempt)
  BY <1>1, <1>9, StageUnfolded DEF Staged
<1>4. ASSUME NEW e \in Range(dead') PROVE Stage(e.id)' = Bury(e.attempt)
  BY <1>1, <1>9, StageUnfolded DEF Staged
<1>5. ASSUME NEW j \in Jobs \ accepted PROVE Stage(j) = [at |-> "new"]
  <2>1. j \notin Ids(main) \cup Ids(processing) \cup Ids(dead) \cup acked \cup dropped
    BY DEF Apart
  <2> QED
    BY <1>8, <2>1, StageUnfolded DEF Staged
<1>6. \A j \in acked' : Stage(j)' = [at |-> "done"]
  BY StageUnfolded DEF Apart, StageOf
<1>7. \A j \in dropped' : Stage(j)' = [at |-> "discarded"]
  BY StageUnfolded DEF Apart, StageOf
<1> QED
  BY <1>2, <1>3, <1>4, <1>5, <1>6, <1>7

\* A job whose entries do not change stays where it stands.
LEMMA StageKept ==
    ASSUME NEW j \in Jobs,
           \A e : e.id = j => (e \in Range(main') \cup Range(processing')
                               <=> e \in Range(main) \cup Range(processing)),
           \A e : e.id = j => (e \in Range(dead') <=> e \in Range(dead)),
           j \in acked' <=> j \in acked, j \in dropped' <=> j \in dropped
    PROVE  Stage(j)' = Stage(j)
<1>1. /\ Of(j, Range(main')) \cup Of(j, Range(processing'))
            = Of(j, Range(main)) \cup Of(j, Range(processing))
      /\ Of(j, Range(dead')) = Of(j, Range(dead))
  BY DEF Of
<1> QED
  BY <1>1, StageUnfolded DEF StageOf

-----------------------------------------------------------------------------
(* Where the run of a job is, from the workers.                            *)

\* Run, of any table of workers.
RunIn(j, table) ==
    LET At(place) == \E p \in Procs, w \in Workers :
                        table[p][w].pc = place /\ table[p][w].job.id = j
    IN  IF At("running") THEN "begun"
        ELSE IF At("acking") THEN "ok"
        ELSE IF At("backoff") THEN "err"
        ELSE "none"

\* A handler runs, or its outcome is still to be settled.
Handling == {"running", "acking", "backoff"}

\* What the place of a worker says of the run of its job.
Phase(place) ==
    CASE place = "running" -> "begun"
      [] place = "acking" -> "ok"
      [] place = "backoff" -> "err"
      [] OTHER -> "none"

\* Run reads no more than the workers.
LEMMA RunUnfolded ==
    ASSUME NEW j \in Jobs
    PROVE  Run(j) = RunIn(j, worker) /\ Run(j)' = RunIn(j, worker')
  BY DEF Run, RunIn

\* A job that no worker has.
LEMMA RunOfNobody ==
    ASSUME NEW j, NEW table,
           \A p \in Procs, w \in Workers :
              table[p][w].pc \in Handling => table[p][w].job.id # j
    PROVE  RunIn(j, table) = "none"
  BY DEF RunIn, Handling

\* A job that one worker has.
LEMMA RunOfWorker ==
    ASSUME NEW j, NEW table, NEW p \in Procs, NEW w \in Workers,
           table[p][w].pc \in Handling => table[p][w].job.id = j,
           \A q \in Procs, v \in Workers :
              (q # p \/ v # w) /\ table[q][v].pc \in Handling => table[q][v].job.id # j
    PROVE  RunIn(j, table) = Phase(table[p][w].pc)
<1>1. ASSUME NEW place \in Handling
      PROVE  (\E q \in Procs, v \in Workers : table[q][v].pc = place /\ table[q][v].job.id = j)
             <=> table[p][w].pc = place
  BY <1>1
<1> QED
  BY <1>1 DEF RunIn, Phase, Handling

\* A job whose workers stay where they are.
LEMMA RunOfOthers ==
    ASSUME NEW j, NEW table, NEW other,
           \A p \in Procs, w \in Workers :
              \/ table[p][w] = other[p][w]
              \/ /\ table[p][w].pc \in Handling => table[p][w].job.id # j
                 /\ other[p][w].pc \in Handling => other[p][w].job.id # j
    PROVE  RunIn(j, table) = RunIn(j, other)
<1>1. ASSUME NEW place \in Handling
      PROVE  (\E p \in Procs, w \in Workers : table[p][w].pc = place /\ table[p][w].job.id = j)
             <=> (\E p \in Procs, w \in Workers : other[p][w].pc = place /\ other[p][w].job.id = j)
  BY <1>1
<1> QED
  BY <1>1 DEF RunIn, Handling

Runs == [j \in Jobs |-> Run(j)]

\* The run of job j, and no other, gets from one place to another.
Gets(j, from, to) == j \in Jobs /\ Runs[j] = from /\ Runs' = [Runs EXCEPT ![j] = to]

\* A worker that has j, or takes it when nobody has it, or leaves it.
LEMMA RunMoves ==
    ASSUME NEW j \in Jobs, NEW p \in Procs, NEW w \in Workers,
           \A q \in Procs, v \in Workers : q # p \/ v # w => worker'[q][v] = worker[q][v],
           worker[p][w].pc # "idle" => worker[p][w].job.id = j,
           worker'[p][w].pc # "idle" => worker'[p][w].job.id = j,
           \A q \in Procs, v \in Workers :
              (q # p \/ v # w) /\ worker[q][v].pc # "idle" => worker[q][v].job.id # j
    PROVE  Gets(j, Phase(worker[p][w].pc), Phase(worker'[p][w].pc))
<1>0. \A place \in Handling : place # "idle"
  BY DEF Handling
<1>1. RunIn(j, worker) = Phase(worker[p][w].pc)
  BY <1>0, RunOfWorker
<1>2. RunIn(j, worker') = Phase(worker'[p][w].pc)
  BY <1>0, RunOfWorker
<1>3. ASSUME NEW k \in Jobs \ {j} PROVE RunIn(k, worker') = RunIn(k, worker)
  BY <1>0, RunOfOthers
<1>4. /\ \A k \in Jobs : Runs[k] = RunIn(k, worker)
      /\ Runs' = [k \in Jobs |-> RunIn(k, worker')] /\ Runs = [k \in Jobs |-> RunIn(k, worker)]
  BY RunUnfolded DEF Runs
<1> QED
  BY <1>1, <1>2, <1>3, <1>4 DEF Gets

\* No two workers have the same job, nor the dispatcher one that a worker has.
LEMMA OneHolderOf ==
    ASSUME TypeOK, SoleCopies, Unstolen, NEW p \in Procs, NEW w \in Workers
    PROVE  /\ worker[p][w].pc # "idle" =>
                 /\ worker[p][w].job.id \in Jobs
                 /\ \A q \in Procs, v \in Workers :
                       (q # p \/ v # w) /\ worker[q][v].pc # "idle"
                       => worker[q][v].job.id # worker[p][w].job.id
           /\ offer[p] # NoEntry =>
                 /\ offer[p].id \in Jobs
                 /\ \A q \in Procs, v \in Workers :
                       worker[q][v].pc # "idle" => worker[q][v].job.id # offer[p].id
<1>1. \A q \in Procs, v \in Workers : worker[q][v].pc # "idle" =>
         worker[q][v].job \in Entry /\ worker[q][v].job # NoEntry
  BY BusyJob, NoEntryAssumption
<1>2. offer[p] # NoEntry => offer[p] \in Entry
  BY DEF TypeOK
<1>3. \A e \in Entry : e.id \in Jobs
  BY DEF Entry
<1> QED
  BY <1>1, <1>2, <1>3, HoldersUnfolded DEF SoleCopies

\* What the steps of a worker do to the runs.
LEMMA RunSteps ==
    ASSUME TypeOK, SoleCopies, Unstolen, NEW p \in Procs, NEW w \in Workers,
           worker[p][w].pc # "idle",
           HandlerOk(p, w) \/ HandlerFails(p, w) \/ Expire(p, w) \/ BackToIdle(p, w)
    PROVE  Gets(worker[p][w].job.id, Phase(worker[p][w].pc), Phase(worker'[p][w].pc))
<1>1. /\ worker'[p][w].pc # "idle" => worker'[p][w].job = worker[p][w].job
      /\ \A q \in Procs, v \in Workers : q # p \/ v # w => worker'[q][v] = worker[q][v]
  BY WorkerSteps DEF IdleWorker
<1>2. /\ worker[p][w].job.id \in Jobs
      /\ \A q \in Procs, v \in Workers :
            (q # p \/ v # w) /\ worker[q][v].pc # "idle"
            => worker[q][v].job.id # worker[p][w].job.id
  BY OneHolderOf
<1> QED
  BY <1>1, <1>2, RunMoves

\* ... and the hand-off: nobody ran the job before.
LEMMA HandOffRuns ==
    ASSUME TypeOK, SoleCopies, Unstolen, NEW p \in Procs, NEW w \in Workers, HandOff(p, w)
    PROVE  Gets(offer[p].id, "none", IF offer[p].id \in Unknown THEN "none" ELSE "begun")
<1>1. /\ Phase("running") = "begun" /\ Phase("idle") = "none" /\ Phase("killing") = "none"
  BY DEF Phase
<1>2. offer[p] # NoEntry /\ worker[p][w].pc = "idle"
  BY NoEntryAssumption DEF HandOff, TypeOK
<1>3. /\ worker'[p][w].job = offer[p]
      /\ worker'[p][w].pc = IF offer[p].id \in Unknown THEN "killing" ELSE "running"
      /\ \A q \in Procs, v \in Workers : q # p \/ v # w => worker'[q][v] = worker[q][v]
  BY WorkerSteps
<1>4. /\ offer[p].id \in Jobs
      /\ \A q \in Procs, v \in Workers :
            worker[q][v].pc # "idle" => worker[q][v].job.id # offer[p].id
  BY <1>2, OneHolderOf
<1>5. Gets(offer[p].id, Phase(worker[p][w].pc), Phase(worker'[p][w].pc))
  BY <1>2, <1>3, <1>4, RunMoves
<1> QED
  BY <1>1, <1>2, <1>3, <1>5

\* A crash cuts the runs of its process short.
LEMMA CrashRuns ==
    ASSUME TypeOK, SoleCopies, Unstolen, NEW p \in Procs, Crash(p)
    PROVE  \E S \in SUBSET Jobs : Runs' = [j \in Jobs |-> IF j \in S THEN "none" ELSE Runs[j]]
<1> DEFINE S == { j \in Jobs : \E w \in Workers :
                     worker[p][w].pc # "idle" /\ worker[p][w].job.id = j }
<1>1. /\ \A w \in Workers : worker'[p][w].pc = "idle"
      /\ \A q \in Procs \ {p} : \A w \in Workers : worker'[q][w] = worker[q][w]
      /\ "idle" \notin Handling
  BY CrashStep DEF IdleWorker, Handling
<1>2. ASSUME NEW j \in S PROVE RunIn(j, worker') = "none"
  <2>1. PICK w \in Workers : worker[p][w].pc # "idle" /\ worker[p][w].job.id = j
    OBVIOUS
  <2>2. \A q \in Procs \ {p}, v \in Workers : worker[q][v].pc # "idle" => worker[q][v].job.id # j
    BY <2>1, OneHolderOf
  <2>3. \A q \in Procs, v \in Workers :
           worker'[q][v].pc \in Handling => worker'[q][v].job.id # j
    BY <1>1, <2>2
  <2> QED
    BY <2>3, RunOfNobody
<1>3. ASSUME NEW j \in Jobs \ S PROVE RunIn(j, worker') = RunIn(j, worker)
  <2>1. \A w \in Workers : worker[p][w].pc \in Handling => worker[p][w].job.id # j
    BY <1>1
  <2> QED
    BY <1>1, <2>1, RunOfOthers
<1>4. /\ \A k \in Jobs : Runs[k] = RunIn(k, worker)
      /\ Runs' = [k \in Jobs |-> RunIn(k, worker')]
  BY RunUnfolded DEF Runs
<1> HIDE DEF S
<1>5. S \in SUBSET Jobs
  BY DEF S
<1> QED
  BY <1>2, <1>3, <1>4, <1>5

-----------------------------------------------------------------------------
(* The refinement.                                                         *)

\* Initially every job is new, and no handler runs.
LEMMA PromiseInit == Init => Promise!Init
<1> SUFFICES ASSUME Init PROVE Promise!Init
  OBVIOUS
<1>1. main = << >> /\ processing = << >> /\ dead = << >> /\ acked = {} /\ dropped = {}
  BY DEF Init, QueueInit
<1>2. ASSUME NEW j \in Jobs PROVE Stage(j) = [at |-> "new"]
  <2>1. Of(j, Range(main)) \cup Of(j, Range(processing)) = {} /\ Of(j, Range(dead)) = {}
    BY <1>1 DEF Of, Range
  <2> QED
    BY <1>1, <2>1, StageUnfolded DEF StageOf
<1>3. ASSUME NEW j \in Jobs PROVE Run(j) = "none"
  <2>1. \A p \in Procs, w \in Workers : worker[p][w].pc = "idle"
    BY DEF Init, IdleWorker
  <2> QED
    BY <2>1 DEF Run
<1> QED
  BY <1>2, <1>3 DEF Init, Promise!Init, Promise!New

Stages == [j \in Jobs |-> Stage(j)]

\* Every step is a step of the promise for one job, or none.
LEMMA PromiseStep ==
    ASSUME TypeOK, JobsKept, AttemptsCounted, SoleCopies, Readable,
           Unstolen, Unstolen', [Next]_vars
    PROVE  [Promise!Next]_<< Stages, Runs, succeeded >>
<1>0. /\ QueueTypeOK /\ QueueTypeOK' /\ Apart /\ Apart'
      /\ accepted \subseteq Jobs /\ accepted' \subseteq Jobs
  BY TypeStep, SoleStep DEF TypeOK, SoleCopies
<1>1. /\ \A e \in Range(main) \cup Range(processing) : Stage(e.id) = Pend(e.attempt)
      /\ \A e \in Range(main') \cup Range(processing') : Stage(e.id)' = Pend(e.attempt)
      /\ \A e \in Range(dead') : Stage(e.id)' = Bury(e.attempt)
      /\ \A j \in Jobs \ accepted : Stage(j) = [at |-> "new"]
      /\ \A j \in acked' : Stage(j)' = [at |-> "done"]
      /\ \A j \in dropped' : Stage(j)' = [at |-> "discarded"]
  BY <1>0, StagesOf
<1>2. /\ Range(main) \cup Range(processing) \subseteq Entry
      /\ \A e \in Entry : e.id \in Jobs /\ e.attempt \in Nat
  BY <1>0, IdsOfRange DEF QueueTypeOK, Entry
\* The job a step is about, and the others.
<1>3. ASSUME NEW j \in Jobs, NEW s, Stage(j)' = s, \A k \in Jobs \ {j} : Stage(k)' = Stage(k)
      PROVE  Stages' = [Stages EXCEPT ![j] = s]
  BY <1>3 DEF Stages
<1>4. ASSUME \A k \in Jobs : Stage(k)' = Stage(k) PROVE Stages' = Stages
  BY <1>4 DEF Stages
<1>5. \A j \in Jobs : Stages[j] = Stage(j)
  BY DEF Stages
<1>6. ASSUME Range(main') \cup Range(processing') = Range(main) \cup Range(processing),
             UNCHANGED << dead, acked, dropped >>
      PROVE  Stages' = Stages
  BY <1>4, <1>6, StageKept
<1>7. \A k : Pend(k).at = "pending" /\ Pend(k).failures = k
  BY DEF Pend
<1>8. ASSUME worker' = worker PROVE Runs' = Runs
  BY <1>8, RunUnfolded DEF Runs
<1>9. /\ Phase("running") = "begun" /\ Phase("acking") = "ok" /\ Phase("backoff") = "err"
       /\ Phase("idle") = "none" /\ Phase("killing") = "none"
  BY DEF Phase
<1>10. \A j, from : Gets(j, from, from) => Runs' = Runs
  BY DEF Gets, Runs
<1>11. ASSUME NEW j \in Jobs, Submit(j) PROVE Promise!Accept(j)
  <2>1. /\ Range(main') = Range(main) \cup {NewJob(j)} /\ processing' = processing /\ dead' = dead
        /\ j \notin accepted /\ UNCHANGED << acked, dropped, succeeded, worker >>
    BY <1>0, <1>11, EnqueueEffect DEF Submit, procVars
  <2>2. NewJob(j).id = j /\ NewJob(j).attempt = 0
    BY DEF NewJob
  <2>3. Stage(j)' = Pend(0)
    BY <1>1, <2>1, <2>2
  <2>4. ASSUME NEW k \in Jobs \ {j} PROVE Stage(k)' = Stage(k)
    BY <2>1, <2>2, StageKept
  <2>5. Stages[j] = [at |-> "new"]
    BY <1>1, <1>5, <2>1
  <2> QED
    BY <1>3, <1>8, <2>1, <2>3, <2>4, <2>5
    DEF Promise!Accept, Promise!Become, Promise!New, Promise!Pending, Pend, Stages, Runs
<1>12. ASSUME NEW p \in Procs, NEW w \in Workers, HandlerOk(p, w)
      PROVE  \E j \in Jobs : Promise!Succeed(j)
  <2> DEFINE e == worker[p][w].job
  <2>1. /\ worker[p][w].pc # "idle" /\ succeeded' = succeeded \cup {e.id}
        /\ UNCHANGED << main, processing, dead, acked, dropped >>
    BY <1>12 DEF HandlerOk, queueVars
  <2>2. e \in Entry /\ e \in Range(processing)
    BY <2>1, BusyJob, HoldersUnfolded, NoEntryAssumption DEF SoleCopies
  <2>3. Stages' = Stages /\ e.id \in Jobs /\ Stages[e.id] = Pend(e.attempt)
    BY <1>1, <1>2, <1>5, <1>6, <2>1, <2>2
  <2>4. worker[p][w].pc = "running" /\ worker'[p][w].pc = "acking"
    BY <1>12, WorkerSteps DEF HandlerOk
  <2>5. Gets(e.id, Phase(worker[p][w].pc), Phase(worker'[p][w].pc))
    BY <1>12, <2>1, RunSteps
  <2>6. Gets(e.id, "begun", "ok") /\ Stages[e.id].at = "pending"
    BY <1>7, <1>9, <2>3, <2>4, <2>5
  <2> HIDE DEF e
  <2> QED
    BY <2>1, <2>3, <2>6 DEF Gets, Promise!Succeed, Promise!Moves, Promise!IsPending, Stages, Runs
\* The hand-off begins a run, unless nobody can run the job.
<1>13. ASSUME NEW p \in Procs, NEW w \in Workers, HandOff(p, w)
       PROVE  (\E j \in Jobs : Promise!Begin(j)) \/ UNCHANGED << Stages, Runs, succeeded >>
  <2>1. UNCHANGED << main, processing, dead, acked, dropped, succeeded >>
        /\ offer[p] # NoEntry /\ pc[p] = "sending"
    BY <1>13, NoEntryAssumption DEF HandOff, queueVars, TypeOK
  <2>2. PICK e \in Entry : e = offer[p]
    BY <2>1 DEF TypeOK
  <2>3. e \in Range(processing) /\ e.id \notin Poison
    BY <2>1, <2>2, HoldersUnfolded DEF SoleCopies, Readable
  <2>4. Stages' = Stages
    BY <1>6, <2>1
  <2>5. e.id \in Jobs /\ Stages[e.id] = Pend(e.attempt)
    BY <1>1, <1>2, <1>5, <2>3
  <2>6. Stages' = Stages /\ Stages[e.id].at = "pending"
    BY <1>7, <2>4, <2>5
  <2>7. Gets(e.id, "none", IF e.id \in Unknown THEN "none" ELSE "begun")
    BY <1>13, <2>2, HandOffRuns
  <2>8. CASE e.id \in Unknown
    BY <1>10, <2>1, <2>6, <2>7, <2>8
  <2>9. CASE e.id \notin Unknown
    BY <2>1, <2>3, <2>6, <2>7, <2>9
    DEF Gets, Promise!Begin, Promise!Moves, Promise!IsPending, Stages, Runs
  <2> QED
    BY <2>8, <2>9
<1>14. ASSUME NEW p \in Procs, NEW w \in Workers, HandlerFails(p, w)
       PROVE  \E j \in Jobs : Promise!Err(j)
  <2>1. UNCHANGED << main, processing, dead, acked, dropped, succeeded >>
    BY <1>14 DEF HandlerFails, queueVars, ghostVars
  <2>2. worker[p][w].pc = "running" /\ worker'[p][w].pc = "backoff"
    BY <1>14, WorkerSteps DEF HandlerFails
  <2>3. Gets(worker[p][w].job.id, Phase(worker[p][w].pc), Phase(worker'[p][w].pc))
    BY <1>14, <2>2, RunSteps
  <2>4. Gets(worker[p][w].job.id, "begun", "err")
    BY <1>9, <2>2, <2>3
  <2>5. Stages' = Stages
    BY <1>6, <2>1
  <2> QED
    BY <2>1, <2>4, <2>5 DEF Gets, Promise!Err, Promise!Moves, Stages, Runs
\* What the three ways to settle a delivery have in common.
<1>15. ASSUME NEW p \in Procs, NEW w \in Workers, NEW e \in Entry, e = worker[p][w].job,
             AckJob(p, w) \/ RetryJob(p, w) \/ KillJob(p, w)
      PROVE  /\ e \in Range(processing) /\ e.id \in Jobs /\ e.attempt \in Nat
             /\ Stages[e.id] = Pend(e.attempt)
             /\ processing' = LRem(processing, e)
             /\ UNCHANGED << dropped, succeeded >>
             /\ Gets(e.id, Phase(worker[p][w].pc), "none")
             /\ \A f : f.id # e.id => (f \in Range(processing') <=> f \in Range(processing))
  <2>1. worker[p][w].pc # "idle" /\ UNCHANGED << dropped, succeeded >>
    BY <1>15 DEF AckJob, RetryJob, KillJob, ghostVars
  <2>2. e \in Range(processing)
    BY <1>15, <2>1, HoldersUnfolded, NoEntryAssumption DEF SoleCopies
  <2>3. processing' = LRem(processing, e)
    BY <1>0, <1>15, RetryEffect, KillEffect DEF AckJob, Ack, RetryJob, KillJob
  <2>4. /\ Range(processing') \subseteq Range(processing)
        /\ Range(processing) \subseteq Range(processing') \cup {e}
    BY <1>0, <2>3, LRemEffect
  <2>5. BackToIdle(p, w) /\ worker'[p][w].pc = "idle"
    BY <1>15, WorkerSteps DEF AckJob, RetryJob, KillJob, IdleWorker
  <2>6. Gets(e.id, Phase(worker[p][w].pc), "none")
    BY <1>15, <1>9, <2>1, <2>5, RunSteps
  <2> QED
    BY <1>1, <1>2, <1>5, <2>1, <2>2, <2>3, <2>4, <2>6
<1>16. ASSUME NEW p \in Procs, NEW w \in Workers, AckJob(p, w)
       PROVE  \E j \in Jobs : Promise!Finish(j)
  <2>1. PICK e \in Entry : e = worker[p][w].job
    BY <1>16, BusyJob DEF AckJob
  <2>2. /\ main' = main /\ dead' = dead /\ acked' = acked \cup {e.id} /\ e.id \in succeeded
    BY <1>16, <2>1 DEF AckJob, Ack, JobsKept
  <2>3. Stage(e.id)' = [at |-> "done"]
    BY <1>1, <2>2
  <2>4. ASSUME NEW k \in Jobs \ {e.id} PROVE Stage(k)' = Stage(k)
    BY <1>15, <1>16, <2>1, <2>2, StageKept
  <2>5. e.id \in Jobs /\ Stages[e.id].at = "pending" /\ UNCHANGED succeeded
    BY <1>15, <1>16, <1>7, <2>1
  <2>6. Stages' = [Stages EXCEPT ![e.id] = [at |-> "done"]]
    BY <1>3, <2>3, <2>4, <2>5
  <2>7. Gets(e.id, "ok", "none")
    BY <1>15, <1>16, <1>9, <2>1 DEF AckJob
  <2> QED
    BY <2>2, <2>5, <2>6, <2>7
    DEF Gets, Promise!Finish, Promise!Moves, Promise!IsPending, Promise!Become, Promise!Done,
        Stages, Runs
<1>17. ASSUME NEW p \in Procs, NEW w \in Workers, RetryJob(p, w)
       PROVE  \E j \in Jobs : Promise!Fail(j)
  <2>1. PICK e \in Entry : e = worker[p][w].job
    BY <1>17, BusyJob DEF RetryJob
  <2>2. UNCHANGED << acked, dropped, succeeded >> /\ Retry(e)
    BY <1>17, <2>1 DEF RetryJob, ghostVars
  <2>3. PICK again \in Entry :
           /\ again.id = e.id /\ again.attempt = e.attempt + 1
           /\ \/ /\ again.attempt >= maxAttempts(e.id)
                 /\ main' = main /\ Range(dead') = Range(dead) \cup {again}
              \/ /\ ~ (again.attempt >= maxAttempts(e.id))
                 /\ dead' = dead /\ Range(main') = Range(main) \cup {again}
    BY <1>0, <2>2, RetryEffect
  <2>4. Stage(e.id)' = IF e.attempt + 1 >= maxAttempts(e.id)
                       THEN Bury(e.attempt + 1) ELSE Pend(e.attempt + 1)
    BY <1>1, <2>3
  <2>5. ASSUME NEW k \in Jobs \ {e.id} PROVE Stage(k)' = Stage(k)
    BY <1>15, <1>17, <2>1, <2>2, <2>3, StageKept
  <2>6. /\ e.id \in Jobs /\ Stages[e.id].at = "pending" /\ Stages[e.id].failures = e.attempt
    BY <1>15, <1>17, <1>7, <2>1
  <2>7. Stages' = [Stages EXCEPT ![e.id] =
                     IF Stages[e.id].failures + 1 >= maxAttempts(e.id)
                     THEN Bury(Stages[e.id].failures + 1) ELSE Pend(Stages[e.id].failures + 1)]
    BY <1>3, <2>4, <2>5, <2>6
  <2>8. [j \in Jobs |-> maxAttempts(j)][e.id] = maxAttempts(e.id)
    BY <2>6
  <2>9. Gets(e.id, "err", "none")
    BY <1>15, <1>17, <1>9, <2>1 DEF RetryJob
  <2>10. Promise!Fail(e.id)
    BY <2>2, <2>6, <2>7, <2>8, <2>9
    DEF Gets, Promise!Fail, Promise!Moves, Promise!IsPending, Promise!Become, Promise!Dead,
        Promise!Pending, Bury, Pend, Stages, Runs
  <2> QED
    BY <2>6, <2>10
<1>18. ASSUME NEW p \in Procs, NEW w \in Workers, KillJob(p, w)
       PROVE  \E j \in Jobs : Promise!Refuse(j)
  <2>1. PICK e \in Entry : e = worker[p][w].job
    BY <1>18, BusyJob DEF KillJob
  <2>2. /\ UNCHANGED << acked, dropped, succeeded >> /\ main' = main
        /\ Range(dead') = Range(dead) \cup {e} /\ e.id \in Unknown
    BY <1>0, <1>18, <2>1, KillEffect DEF KillJob, ghostVars, AttemptsCounted, Busy
  <2>3. Stage(e.id)' = Bury(e.attempt)
    BY <1>1, <2>2
  <2>4. ASSUME NEW k \in Jobs \ {e.id} PROVE Stage(k)' = Stage(k)
    BY <1>15, <1>18, <2>1, <2>2, StageKept
  <2>5. /\ e.id \in Jobs /\ Stages[e.id].at = "pending" /\ Stages[e.id].failures = e.attempt
    BY <1>15, <1>18, <1>7, <2>1
  <2>6. Stages' = [Stages EXCEPT ![e.id] = Bury(Stages[e.id].failures)]
    BY <1>3, <2>3, <2>4, <2>5
  <2>7. Runs' = Runs
    BY <1>15, <1>18, <1>9, <1>10, <2>1 DEF KillJob
  <2> QED
    BY <2>2, <2>5, <2>6, <2>7
    DEF Promise!Refuse, Promise!IsPending, Promise!Become, Promise!Dead, Bury, Stages, Runs
<1>19. ASSUME NEW p \in Procs, DropBad(p) PROVE \E j \in Jobs : Promise!Discard(j)
  <2>1. /\ offer[p] \in Entry /\ offer[p] # NoEntry /\ offer[p].id \in Poison
        /\ DropPoison(offer[p]) /\ dropped' = dropped \cup {offer[p].id}
        /\ UNCHANGED << acked, succeeded, worker >>
    BY <1>19, NoEntryAssumption DEF DropBad, Readable, TypeOK
  <2>2. PICK e \in Entry : e = offer[p]
    BY <2>1
  <2>3. /\ e \in Range(processing) /\ UNCHANGED << main, dead >>
        /\ Range(processing) \subseteq Range(processing') \cup {e}
        /\ Range(processing') \subseteq Range(processing)
    BY <1>0, <2>1, <2>2, HoldersUnfolded, LRemEffect DEF SoleCopies, DropPoison
  <2>4. e.id \in Jobs /\ Stages[e.id].at = "pending"
    BY <1>1, <1>2, <1>5, <1>7, <2>3
  <2>5. Stage(e.id)' = [at |-> "discarded"]
    BY <1>1, <2>1, <2>2
  <2>6. ASSUME NEW k \in Jobs \ {e.id} PROVE Stage(k)' = Stage(k)
    BY <2>1, <2>2, <2>3, StageKept
  <2>7. Stages' = [Stages EXCEPT ![e.id] = [at |-> "discarded"]]
    BY <1>3, <2>4, <2>5, <2>6
  <2> QED
    BY <1>8, <2>1, <2>2, <2>4, <2>7
    DEF Promise!Discard, Promise!IsPending, Promise!Become, Promise!Discarded, Stages, Runs
\* Recover and the claim move a job between the lists it is pending in.
<1>20. ASSUME NEW p \in Procs, RecoverStep(p) \/ ClaimJob(p) \/ ClaimLost(p)
       PROVE  UNCHANGED << Stages, Runs, succeeded >>
  <2>1. /\ Range(main') \cup Range(processing') = Range(main) \cup Range(processing)
        /\ UNCHANGED << dead, acked, dropped, succeeded, worker >>
    BY <1>0, <1>20, RecoverEffect, ClaimEffect
    DEF RecoverStep, ClaimJob, ClaimLost, ghostVars, procVars
  <2> QED
    BY <1>6, <1>8, <2>1
<1>21. ASSUME UNCHANGED << main, processing, dead, acked, dropped, succeeded >>
       PROVE  UNCHANGED << Stages, succeeded >>
  BY <1>6, <1>21
<1>22. ASSUME UNCHANGED vars \/ \E p \in Procs :
                 \/ Start(p) \/ Shutdown(p) \/ RecoverDone(p) \/ ClaimNothing(p)
                 \/ DropFails(p) \/ Abandon(p) \/ Stop(p)
       PROVE  UNCHANGED << Stages, Runs, succeeded >>
  BY <1>21, <1>22, <1>8
  DEF vars, queueVars, procVars, ghostVars, Start, Shutdown, RecoverDone, ClaimNothing,
      DropFails, Abandon, Stop
\* The acknowledgement's deadline is no concern of the queue.
<1>23. ASSUME NEW p \in Procs, NEW w \in Workers, Expire(p, w)
       PROVE  UNCHANGED << Stages, Runs, succeeded >>
  <2>1. /\ UNCHANGED << main, processing, dead, acked, dropped, succeeded >>
        /\ worker[p][w].pc # "idle" /\ worker'[p][w].pc = worker[p][w].pc
    BY <1>23, WorkerSteps DEF Expire, queueVars, ghostVars
  <2>2. Runs' = Runs
    BY <1>10, <1>23, <2>1, RunSteps
  <2> QED
    BY <1>21, <2>1, <2>2
\* Crashes and lost answers: nobody hears how the runs end.
<1>24. ASSUME NEW p \in Procs, Crash(p) PROVE \E S \in SUBSET Jobs : Promise!Forget(S)
  <2>1. UNCHANGED << Stages, succeeded >>
    BY <1>21, <1>24 DEF Crash, queueVars, ghostVars
  <2> QED
    BY <1>24, <2>1, CrashRuns DEF Promise!Forget, Stages, Runs
<1>25. ASSUME NEW p \in Procs, NEW w \in Workers, SettleFails(p, w)
       PROVE  \E S \in SUBSET Jobs : Promise!Forget(S)
  <2>1. UNCHANGED << Stages, succeeded >> /\ worker[p][w].pc # "idle"
        /\ BackToIdle(p, w) /\ worker'[p][w].pc = "idle"
    BY <1>21, <1>25, WorkerSteps DEF SettleFails, queueVars, ghostVars, IdleWorker
  <2>2. PICK j \in Jobs : Gets(j, Phase(worker[p][w].pc), "none")
    BY <1>9, <2>1, RunSteps DEF Gets
  <2>3. Runs' = [k \in Jobs |-> IF k \in {j} THEN "none" ELSE Runs[k]]
    BY <2>2 DEF Gets, Runs
  <2> QED
    BY <2>1, <2>3 DEF Promise!Forget, Stages, Runs
<1> QED
  BY <1>11, <1>12, <1>16, <1>17, <1>18, <1>19, <1>20, <1>22, <1>13, <1>14, <1>23, <1>24, <1>25
  DEF Next, RunGoroutine, WorkerGoroutine, Environment,
      Promise!Next, Promise!Return, Promise!Settle

\* However many worker processes share the namespace, the program implements
\* AtLeastOnce in every behaviour in which no recovery takes what another process holds:
\* a job is run while it is pending, one run at a time, and settled once and for good,
\* done only by a run that succeeded, dead only when its last permitted run has failed
\* or nobody can run it.
THEOREM PromiseWhileUnstolen == Spec => ([]Unstolen => KeepsPromise)
<1>1. TypeOK /\ JobsKept /\ AttemptsCounted /\ SoleCopies /\ Readable
      /\ Unstolen /\ Unstolen' /\ [Next]_vars
      => [Promise!Next]_<< Stages, Runs, succeeded >>
  BY PromiseStep
<1> QED
  BY <1>1, PromiseInit, TypeCorrect, KeptCorrect, CountedCorrect, SoleCorrect, ReadableCorrect, PTL
  DEF Spec, KeepsPromise, Promise!Spec, Stages, Runs

\* A job stands where it will stand forever.
Settled(j) == Stage(j).at \in {"done", "discarded", "dead"}

\* What is settled is settled for good: no step of the promise moves such a job.
LEMMA SettledKept ==
    ASSUME [Promise!Next]_<< Stages, Runs, succeeded >>, NEW j \in Jobs, Settled(j)
    PROVE  Stage(j)' = Stage(j)
<1>1. /\ Stages \in [Jobs -> { Stage(k) : k \in Jobs }]
      /\ \A k \in Jobs : Stages[k] = Stage(k) /\ Stages'[k] = Stage(k)'
  BY DEF Stages
<1>2. Stages[j].at \notin {"new", "pending"} /\ Stages[j] # [at |-> "new"]
  BY <1>1 DEF Settled
<1>3. ASSUME NEW k \in Jobs, Promise!Accept(k) \/ Promise!Settle(k)
      PROVE  \E s : Stages' = [Stages EXCEPT ![k] = s] /\ k # j
  BY <1>2, <1>3
  DEF Promise!Accept, Promise!Settle, Promise!Finish, Promise!Fail, Promise!Refuse, Promise!Discard,
      Promise!Become, Promise!IsPending, Promise!New, Stages
<1>4. ASSUME NEW k \in Jobs, Promise!Begin(k) \/ Promise!Return(k) PROVE Stages' = Stages
  BY <1>4 DEF Promise!Begin, Promise!Return, Promise!Succeed, Promise!Err, Stages
<1>5. ASSUME NEW S \in SUBSET Jobs, Promise!Forget(S) PROVE Stages' = Stages
  BY <1>5 DEF Promise!Forget, Stages
<1>6. Stages' = Stages \/ \E k \in Jobs : Promise!Accept(k) \/ Promise!Settle(k)
  BY <1>4, <1>5 DEF Promise!Next
<1> QED
  BY <1>1, <1>3, <1>6

\* queue.go: an acknowledged job is never pending again, a dead letter keeps its failures and
\* is never acknowledged, whatever crashes, fails or expires, as long as no recovery takes
\* what another process holds.
THEOREM SettledForGood ==
    Spec => ([]Unstolen => [][\A j \in Jobs : Settled(j) => Stage(j)' = Stage(j)]_vars)
<1>1. TypeOK /\ JobsKept /\ AttemptsCounted /\ SoleCopies /\ Readable
      /\ Unstolen /\ Unstolen' /\ [Next]_vars
      => [\A j \in Jobs : Settled(j) => Stage(j)' = Stage(j)]_vars
  BY PromiseStep, SettledKept
<1> QED
  BY <1>1, TypeCorrect, KeptCorrect, CountedCorrect, SoleCorrect, ReadableCorrect, PTL DEF Spec

\* With one worker process nothing is ever stolen, and the promise is unconditional.
THEOREM PromiseIsKept == ASSUME OneProcess PROVE Spec => KeepsPromise
  BY PromiseWhileUnstolen, NothingIsStolen, PTL

=============================================================================
