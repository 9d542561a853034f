------------------------------ MODULE PlanPanel ------------------------------
(***************************************************************************)
(* The plan panel of the dashboard: it shows the stored plan of the        *)
(* selected date, polls its job while the stored plan is in progress, and  *)
(* regenerates it.                                                         *)
(*                                                                         *)
(* queue[d] has the open jobs for row[d], several when a request whose     *)
(* answer was lost is repeated.  Each writes the row whatever it says by   *)
(* then, as in PlanPipeline: an answered row may be in progress again, or  *)
(* get another answer, without a new request.                              *)
(*                                                                         *)
(* plan[d] is the query ["plan", d], job[d] is ["plan-job", id of d]; both *)
(* read row[d].  Only those of the selected date are observed, the others  *)
(* keep their data and end the fetch that is under way.  fresh has the     *)
(* queries whose data is within staleTime and not invalidated.             *)
(* generate is the mutation, of the date it was clicked on: idle, sent,    *)
(* stored (202 is on its way) or settling (it waits for a refetch).        *)
(***************************************************************************)
EXTENDS QueryCache, Naturals

CONSTANTS
    Dates,
    Today,
    Budgets     \* how often each of Counted may happen: one of these at a time

\* Another date is selected; a plan is generated; one of the two is done in haste (Hasty,
\* ReturnsInHaste); a poll of the selected date fails with nothing in progress to show;
\* another request fails; a run of a job ends otherwise than with its answer.
Counted == {"select", "generate", "hasty", "deaf", "lost", "again"}

ASSUME TodayAssumption == Today \in Dates

VARIABLES
    row, queue,
    date, plan, job, fresh, generate,
    unseen,     \* dates whose plan was requested and not refetched since
    overtaken,  \* dates whose row was written again after the panel had read an answer
    counted

server == << row, queue, overtaken >>
vars == << server, date, plan, job, fresh, generate, unseen, counted >>

\* version counts the upserts, the last of which is the latest request; answer is the
\* request whose job wrote the schedule or the error, if one has.
Row == [status : {"none", "queued", "running", "done", "failed"}, version : Nat, answer : Nat]

\* marked: the run has written that the row is running.
Job == [of : Nat, at : {"open", "marked"}]

\* of is the date the plan is generated for, by the one whose refetch is awaited.
Mutation == [at : {"idle"}, of : {Undefined}, by : {Undefined}]
            \cup [at : {"sent", "stored"}, of : Dates, by : {Undefined}]
            \cup [at : {"settling"}, of : Dates, by : Dates]

Idle == [at |-> "idle", of |-> Undefined, by |-> Undefined]

ASSUME UndefinedAssumption == Undefined \notin Row \cup Dates

TypeOK ==
    /\ row \in [Dates -> Row]
    /\ queue \in [Dates -> SUBSET Job]
    /\ \A d \in Dates : \A j \in queue[d] : 0 < j.of /\ j.of <= row[d].version
    /\ \A d \in Dates : row[d].status = "none" <=> row[d].version = 0
    /\ date \in Dates
    /\ plan \in [Dates -> Query(Row, Row)]
    /\ job \in [Dates -> Query(Row, Row)]
    /\ fresh \subseteq {"plan", "job"} \X Dates
    /\ generate \in Mutation
    /\ unseen \subseteq Dates /\ overtaken \subseteq Dates
    /\ counted \in [Counted -> Nat]

Init ==
    /\ row \in [Dates -> {[status |-> "none", version |-> 0, answer |-> 0],
                          [status |-> "done", version |-> 1, answer |-> 1]}]
    /\ queue = [d \in Dates |-> {}]
    /\ date = Today
    /\ plan = [d \in Dates |-> IF d = date THEN Mounted ELSE Unused]
    /\ job = [d \in Dates |-> Unused]
    /\ fresh = {}
    /\ generate = Idle
    /\ unseen = {} /\ overtaken = {}
    /\ counted = [m \in Counted |-> 0]

Counting(S) ==
    /\ counted' = [m \in Counted |-> IF m \in S THEN counted[m] + 1 ELSE counted[m]]
    /\ \E budget \in Budgets : \A m \in Counted : counted'[m] <= budget[m]

Count(m) == Counting({m})

Busy(data) == data # Undefined /\ data.status \in {"queued", "running"}
Terminal(data) == data # Undefined /\ data.status \in {"done", "failed"}

\* job[date] is enabled.
inProgress == Busy(plan[date].data)

\* Mutant: the poll is shown whenever there is one.
ShownPoll == IF job[date].data # Undefined THEN job[date].data ELSE plan[date].data

\* The live poll while in progress, otherwise the stored plan.
Shown == IF inProgress /\ job[date].data # Undefined THEN job[date].data ELSE plan[date].data

isWorking == Busy(Shown) \/ generate # Idle

\* A query that becomes observed, or enabled, fetches unless its data is fresh; it
\* joins a fetch that is under way.
Stale(name, q, d) == q[d].fetch = "idle" /\ (q[d].data = Undefined \/ << name, d >> \notin fresh)

\* The stored plan of the selected date is refetched.
RefetchPlan ==
    /\ plan' = [plan EXCEPT ![date] = Invalidate(@)]
    /\ unseen' = IF FirstLoad(plan[date]) THEN unseen ELSE unseen \ {date}

-----------------------------------------------------------------------------
(* The server and the worker.                                              *)

Queued(r) == [status |-> "queued", version |-> r.version + 1, answer |-> 0]

UpsertPlanQueued(d) ==
    /\ row' = [row EXCEPT ![d] = Queued(@)]
    /\ overtaken' = overtaken \ {d}

GeneratePlan ==
    /\ generate.at = "sent"
    /\ UpsertPlanQueued(generate.of)
    /\ queue' = [queue EXCEPT ![generate.of] =
                    @ \cup {[of |-> row[generate.of].version + 1, at |-> "open"]}]
    /\ generate' = [generate EXCEPT !.at = "stored"]
    /\ UNCHANGED << date, plan, job, fresh, unseen, counted >>

\* All that the two queries of a date hold, in the cache or on its way.
Held(d) == {plan[d].data, plan[d].reply, job[d].data, job[d].reply}

\* The worker writes the row by its id, whatever it says.
Write(d, r) ==
    /\ row' = [row EXCEPT ![d] = r]
    /\ overtaken' = IF r # row[d] /\ \E x \in Held(d) : Terminal(x) /\ x.version = row[d].version
                    THEN overtaken \cup {d} ELSE overtaken

\* Mutant: a job that is refused clears the status.
AnswersClear(r, j) ==
    { [r EXCEPT !.status = status, !.answer = j.of] :
         status \in IF j.at = "open" THEN {"none"} ELSE {"done", "failed"} }

\* What a run leaves in the row: without an API key it fails it straight away.
Answers(r, j) ==
    { [r EXCEPT !.status = status, !.answer = j.of] :
         status \in IF j.at = "open" THEN {"failed"} ELSE {"done", "failed"} }

Become(d, j, S) == queue' = [queue EXCEPT ![d] = (@ \ {j}) \cup S]

\* A run marks the row running, and answers it.
Work(d) ==
    /\ \E j \in queue[d] :
          \/ /\ j.at = "open"
             /\ Write(d, [row[d] EXCEPT !.status = "running"])
             /\ Become(d, j, {[j EXCEPT !.at = "marked"]})
          \/ /\ \E r \in Answers(row[d], j) : Write(d, r)
             /\ Become(d, j, {})
    /\ UNCHANGED << date, plan, job, fresh, generate, unseen, counted >>

\* The run fails, the worker dies or the acknowledgement is lost: whether or not the
\* row was answered, the job is delivered again, or it was its last attempt.
WorkAgain(d) ==
    /\ Count("again")
    /\ \E j \in queue[d] :
          /\ \E r \in {row[d]} \cup Answers(row[d], j) : Write(d, r)
          /\ \E S \in {{}, {[j EXCEPT !.at = "open"]}} : Become(d, j, S)
    /\ UNCHANGED << date, plan, job, fresh, generate, unseen >>

GetPlanByDate(d) ==
    /\ plan[d].fetch = "sent"
    /\ plan' = [plan EXCEPT ![d] = Answer(@, row[d])]
    /\ UNCHANGED << server, date, job, fresh, generate, unseen, counted >>

GetPlanJob(d) ==
    /\ job[d].fetch = "sent"
    /\ job' = [job EXCEPT ![d] = Answer(@, row[d])]
    /\ UNCHANGED << server, date, plan, fresh, generate, unseen, counted >>

-----------------------------------------------------------------------------
(* The panel.                                                              *)

\* Nothing more will be written to the row before the next request.
Settled(d) == ~Busy(row[d]) /\ queue[d] = {}

\* The user returns to a date whose request is on its way while an earlier one is open.
ReturnsInHaste(d) == generate.at = "sent" /\ generate.of = d /\ ~Settled(d)

\* Another date: its queries are observed from now on.  The effect depends on the date
\* too, and refetches the stored plan when the last poll brought an answer.
Select(d) ==
    /\ d # date
    /\ Counting({"select"} \cup IF ReturnsInHaste(d) THEN {"hasty"} ELSE {})
    /\ date' = d
    /\ plan' = IF Stale("plan", plan, d) \/ Terminal(job[d].data)
               THEN [plan EXCEPT ![d] = Invalidate(Fetch(@))] ELSE plan
    /\ job' = IF Busy(plan[d].data) /\ Stale("job", job, d) THEN [job EXCEPT ![d] = Fetch(@)] ELSE job
    /\ unseen' = IF plan' = plan THEN unseen ELSE unseen \ {d}
    /\ UNCHANGED << server, fresh, generate >>

\* A recent answer to an earlier request is cached or is on its way, or the stored
\* plan looks in progress when it is not, or is being loaded while it may be.
Hasty == \/ Terminal(job[date].data) /\ (<< "job", date >> \in fresh \/ inProgress)
         \/ job[date].fetch # "idle"
         \/ plan[date].fetch # "idle" /\ (~Settled(date) \/ Busy(plan[date].reply))

ClickGenerate ==
    /\ ~isWorking
    /\ Counting({"generate"} \cup IF Hasty THEN {"hasty"} ELSE {})
    /\ generate' = [at |-> "sent", of |-> date, by |-> Undefined]
    /\ UNCHANGED << server, date, plan, job, fresh, unseen >>

\* onSuccess is the one of the last render: it refetches the plan of the date that is
\* selected by now, and that of another date misses the change.
GenerateSucceeds ==
    /\ generate.at = "stored"
    /\ generate' = [generate EXCEPT !.at = "settling", !.by = date]
    /\ plan' = [plan EXCEPT ![date] = Invalidate(@)]
    /\ fresh' = fresh \ {<< "plan", date >>}
    /\ unseen' = (IF FirstLoad(plan[date]) THEN unseen ELSE unseen \ {date})
                 \cup (IF FirstLoad(plan[date]) \/ date # generate.of THEN {generate.of} ELSE {})
    /\ UNCHANGED << server, date, job, counted >>

\* An error, of Generate before or after the row was reset, then there is no job for
\* it, or of the reply: nothing is refetched.
GenerateFails ==
    /\ generate.at \in {"sent", "stored"}
    /\ Count("lost")
    /\ \/ generate.at = "sent" /\ UpsertPlanQueued(generate.of)
       \/ UNCHANGED << row, overtaken >>
    /\ unseen' = IF generate.at = "stored" \/ row' # row THEN unseen \cup {generate.of} ELSE unseen
    /\ generate' = Idle
    /\ UNCHANGED << queue, date, plan, job, fresh >>

\* Mutant: the job's data never gets stale.
PlanArrivesOnce(d) ==
    /\ plan[d].fetch = "read"
    /\ plan' = [plan EXCEPT ![d] = Receive(@)]
    /\ fresh' = fresh \cup {<< "plan", d >>}
    /\ generate' = IF generate.by = d THEN Idle ELSE generate
    /\ job' = IF d = date /\ ~inProgress /\ Busy(plan[d].reply)
                 /\ job[d].fetch = "idle" /\ job[d].data = Undefined
              THEN [job EXCEPT ![d] = Fetch(@)] ELSE job
    /\ UNCHANGED << server, date, unseen, counted >>

\* When the stored plan of the selected date turns out to be in progress its job query
\* becomes enabled.
PlanArrives(d) ==
    /\ plan[d].fetch = "read"
    /\ plan' = [plan EXCEPT ![d] = Receive(@)]
    /\ fresh' = fresh \cup {<< "plan", d >>}
    /\ generate' = IF generate.by = d THEN Idle ELSE generate
    /\ job' = IF d = date /\ ~inProgress /\ Busy(plan[d].reply) /\ Stale("job", job, d)
              THEN [job EXCEPT ![d] = Fetch(@)] ELSE job
    /\ UNCHANGED << server, date, unseen, counted >>

PlanFails(d) ==
    /\ plan[d].fetch # "idle"
    /\ Count("lost")
    /\ plan' = [plan EXCEPT ![d] = GiveUp(@)]
    /\ generate' = IF generate.by = d THEN Idle ELSE generate
    /\ unseen' = unseen \cup {d}
    /\ UNCHANGED << server, date, job, fresh >>

\* Mutant: polling stops once the job is running.
PollWhileQueued ==
    /\ inProgress /\ job[date].fetch = "idle"
    /\ job[date].data # Undefined /\ job[date].data.status = "queued"
    /\ job' = [job EXCEPT ![date] = Fetch(@)]
    /\ UNCHANGED << server, date, plan, fresh, generate, unseen, counted >>

\* refetchInterval, every 1.5 s.
Poll ==
    /\ inProgress /\ job[date].fetch = "idle" /\ Busy(job[date].data)
    /\ job' = [job EXCEPT ![date] = Fetch(@)]
    /\ UNCHANGED << server, date, plan, fresh, generate, unseen, counted >>

\* The effect depends on the status: it runs when the status that is observed has
\* changed, and refetches the stored plan when it has changed to a terminal one.
PollArrives(d) ==
    /\ job[d].fetch = "read"
    /\ job' = [job EXCEPT ![d] = Receive(@)]
    /\ IF /\ d = date /\ Terminal(job[d].reply)
          /\ job[d].data = Undefined \/ job[d].data.status # job[d].reply.status
       THEN /\ RefetchPlan
            /\ fresh' = (fresh \cup {<< "job", d >>}) \ {<< "plan", d >>}
       ELSE /\ fresh' = fresh \cup {<< "job", d >>}
            /\ UNCHANGED << plan, unseen >>
    /\ UNCHANGED << server, date, generate, counted >>

PollFails(d) ==
    /\ job[d].fetch # "idle"
    /\ Count(IF d # date \/ Busy(job[d].data) THEN "lost" ELSE "deaf")
    /\ job' = [job EXCEPT ![d] = GiveUp(@)]
    /\ UNCHANGED << server, date, plan, fresh, generate, unseen >>

\* staleTime passes.
Age ==
    /\ \E q \in fresh : fresh' = fresh \ {q}
    /\ UNCHANGED << server, date, plan, job, generate, unseen, counted >>

-----------------------------------------------------------------------------
User == ClickGenerate \/ \E d \in Dates : Select(d)

Server ==
    \/ GeneratePlan
    \/ \E d \in Dates : GetPlanByDate(d) \/ GetPlanJob(d) \/ Work(d) \/ WorkAgain(d)

Panel ==
    \/ GenerateSucceeds \/ GenerateFails \/ Poll
    \/ \E d \in Dates : PlanArrives(d) \/ PlanFails(d) \/ PollArrives(d) \/ PollFails(d)

Next == User \/ Server \/ Panel \/ Age

Spec == Init /\ [][Next]_vars

\* Requests are answered or fail, the worker runs every job, the interval timer fires.
\* Nobody has to click.
Fairness ==
    /\ WF_vars(GeneratePlan) /\ WF_vars(GenerateSucceeds) /\ WF_vars(Poll)
    /\ \A d \in Dates :
          /\ WF_vars(GetPlanByDate(d)) /\ WF_vars(PlanArrives(d))
          /\ WF_vars(GetPlanJob(d)) /\ WF_vars(PollArrives(d))
          /\ WF_vars(Work(d))

FairSpec == Spec /\ Fairness

-----------------------------------------------------------------------------
\* docs/LEARNING.md:173: "while status is queued|running -> keep polling", and
\* plan-panel.tsx:87: "Refetch the stored plan so it flips to "queued" and polling
\* kicks in": while the stored plan looks in progress a fetch is under way, the timer
\* is set, or the poll has brought the answer the row has, unless the row was written
\* again after an answer had been read.
PollingKicksIn ==
    inProgress /\ date \notin overtaken =>
        \/ plan[date].fetch # "idle" \/ job[date].fetch # "idle"
        \/ Busy(job[date].data)
        \/ Terminal(job[date].data) /\ job[date].data = row[date]

\* Nothing more will come: no fetch, no timer, no mutation.
Quiet ==
    /\ plan[date].fetch = "idle" /\ job[date].fetch = "idle" /\ generate = Idle
    /\ ~(inProgress /\ Busy(job[date].data))

\* A change the panel cannot know of: it did not refetch after a request, or had read an
\* answer to the latest one when another run wrote the row.
Missed == unseen \cup overtaken

\* However polls, refetches, overlapping and repeated jobs and changes of the date have
\* followed on each other, a panel that has come to rest shows the row: an answer that is
\* no longer in the row, or a row still in progress, only stays if the change was missed.
QuietShowsRow == Quiet /\ date \notin Missed => Shown = row[date]

Answered == Terminal(row[date]) /\ generate = Idle /\ date \notin Missed

\* The panel comes to show the answer the row of the selected date has, through lost
\* requests, jobs that overlap or are repeated before it has read an answer, changes of
\* the date and every overlap of polls and refetches.
ShownSettles == Answered ~> (Shown = row[date] \/ ~Answered)

=============================================================================
