------------------------------ MODULE JobQueue ------------------------------
(***************************************************************************)
(* The durable queue of internal/queue: three Redis lists and the          *)
(* operations of the Go type Queue on them, each a Redis command or one    *)
(* MULTI/EXEC transaction and therefore atomic.                            *)
(*                                                                         *)
(* The head (LEFT) of a list is its first element.  A list element stands  *)
(* for the raw JSON payload of a job: what distinguishes two payloads is   *)
(* the job's id and its attempt counter, every other field being written   *)
(* once by NewJob.                                                         *)
(***************************************************************************)
EXTENDS Integers, SequencesExt

CONSTANTS
    Jobs,               \* the ids NewJob can generate
    DefaultMaxAttempts,
    MaxAttempts         \* the max_attempts field of each job

VARIABLES main, processing, dead

queueVars == << main, processing, dead >>

ASSUME DefaultAssumption == DefaultMaxAttempts \in Nat \ {0}
ASSUME MaxAttemptsAssumption == MaxAttempts \in [Jobs -> Int]

Entry == [id : Jobs, attempt : Nat]

\* Mutant: the counter starts one too low.
NewJobTooLow(j) == [id |-> j, attempt |-> -1]

NewJob(j) == [id |-> j, attempt |-> 0]

\* A job without a positive limit of its own gets the default.
maxAttempts(j) == IF MaxAttempts[j] <= 0 THEN DefaultMaxAttempts ELSE MaxAttempts[j]

LPush(list, e) == << e >> \o list
\* LREM key 1 e: the first occurrence, nothing when there is none.
LRem(list, e) == RemoveFirst(list, e)

QueueTypeOK ==
    /\ main \in Seq(Entry)
    /\ processing \in Seq(Entry)
    /\ dead \in Seq(Entry)

QueueInit == main = << >> /\ processing = << >> /\ dead = << >>

Enqueue(j) ==
    /\ main' = LPush(main, NewJob(j))
    /\ UNCHANGED << processing, dead >>

\* What BLMOVE main RIGHT -> processing LEFT takes next.
Oldest == Last(main)

\* Mutant: a plain BRPOP.
ClaimByPop ==
    /\ main # << >>
    /\ main' = Front(main)
    /\ UNCHANGED << processing, dead >>

\* Mutant: the entry is copied to processing, not moved.
ClaimByCopy ==
    /\ main # << >>
    /\ processing' = LPush(processing, Oldest)
    /\ UNCHANGED << main, dead >>

Claim ==
    /\ main # << >>
    /\ main' = Front(main)
    /\ processing' = LPush(processing, Oldest)
    /\ UNCHANGED dead

\* Claim's LREM of an entry it has moved and could not unmarshal.
DropPoison(e) ==
    /\ processing' = LRem(processing, e)
    /\ UNCHANGED << main, dead >>

\* Mutant: the entry is removed from the wrong list.
AckFromMain(e) ==
    /\ main' = LRem(main, e)
    /\ UNCHANGED << processing, dead >>

Ack(e) ==
    /\ processing' = LRem(processing, e)
    /\ UNCHANGED << main, dead >>

\* Mutant: the entry to remove is looked up with its new attempt counter.
RetryRemovesNew(e) ==
    LET again == [e EXCEPT !.attempt = @ + 1]
    IN  /\ processing' = LRem(processing, again)
        /\ IF again.attempt >= maxAttempts(e.id)
           THEN dead' = LPush(dead, again) /\ UNCHANGED main
           ELSE main' = LPush(main, again) /\ UNCHANGED dead

\* Mutant: one attempt too many.
RetryOnceMore(e) ==
    LET again == [e EXCEPT !.attempt = @ + 1]
    IN  /\ processing' = LRem(processing, e)
        /\ IF again.attempt > maxAttempts(e.id)
           THEN dead' = LPush(dead, again) /\ UNCHANGED main
           ELSE main' = LPush(main, again) /\ UNCHANGED dead

\* Mutant: one attempt too few.
RetryOnceLess(e) ==
    LET again == [e EXCEPT !.attempt = @ + 1]
    IN  /\ processing' = LRem(processing, e)
        /\ IF again.attempt + 1 >= maxAttempts(e.id)
           THEN dead' = LPush(dead, again) /\ UNCHANGED main
           ELSE main' = LPush(main, again) /\ UNCHANGED dead

\* The LPUSH of the transaction happens whether or not its LREM found e.
Retry(e) ==
    LET again == [e EXCEPT !.attempt = @ + 1]
    IN  /\ processing' = LRem(processing, e)
        /\ IF again.attempt >= maxAttempts(e.id)
           THEN dead' = LPush(dead, again) /\ UNCHANGED main
           ELSE main' = LPush(main, again) /\ UNCHANGED dead

Kill(e) ==
    /\ processing' = LRem(processing, e)
    /\ dead' = LPush(dead, e)
    /\ UNCHANGED main

\* One iteration of Recover's loop: LMOVE processing RIGHT -> main LEFT.
RecoverOne ==
    /\ processing # << >>
    /\ main' = LPush(main, Last(processing))
    /\ processing' = Front(processing)
    /\ UNCHANGED dead

-----------------------------------------------------------------------------
Ids(list) == { list[i].id : i \in DOMAIN list }

\* No two entries of a list belong to the same job.
Distinct(list) == \A i, k \in DOMAIN list : list[i].id = list[k].id => i = k

=============================================================================
