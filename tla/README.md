# AI Chief of Staff: a verification development

TLA+ models of the parts of this program whose correctness depends on what happens
between steps: the durable job queue and its worker pool, the asynchronous planning
pipeline, the repair of agent answers, the statistics, the session that the tabs of a
browser share, and the dashboard panels that show data which changes under them. TLC
checks the models on small instances; TLAPS proves the most important safety properties
for every value of the constants.

`PROJECT.json` is the index: components, runs, the source lines of every definition,
hazards, findings, theorems.

## 1. The system

Three processes and a browser. The Go API server (`backend/cmd/server`) and the Go
worker (`backend/cmd/worker`) share Postgres and Redis; the Next.js dashboard
(`frontend/`) talks to the API only.

```
 browser: panels + TanStack Query cache
    | HTTP
 API server: auth, tasks, habits, stats, interactive AI --- Claude
    | daily_plans row          | job (LPUSH)
 Postgres                    Redis: main, processing, dead
    | row                      | BLMOVE, LREM, MULTI
 worker process: Pool.Run -> N goroutines -> plan handler --- Claude
```

### Inventory

| Component (source) | State | Operations | What is hard, and what makes it correct | Modules |
|---|---|---|---|---|
| Durable queue (`internal/queue`) | the Redis lists main, processing, dead; the attempt in each payload | Enqueue, Claim, Ack, Retry, Kill, Recover | crashes between the move and the acknowledgement, lost replies, an LREM that looks a payload up by its old text. No job lost, duplicated, or run after it is settled; attempts counted right | `JobQueue`, `AtLeastOnce` |
| Worker pool (`internal/worker/pool.go`) | the dispatcher, its select, N goroutines, two contexts | Run, dispatch, process, invoke | an unbuffered channel against a cancelled context, `ackCtx`'s deadline, several processes on one namespace, panics. Shutdown completes; dead letters are earned | `WorkerPool` |
| Planning pipeline (`service/plan.go`, `worker/planjob.go`, `plans.sql`) | one `daily_plans` row per (user, date) | Generate; the handler's running, done, failed writes | row and queue are two stores, jobs are redelivered, requests overlap. A plan in progress is answered; a later answer is not undone by an earlier request | `PlanPipeline` |
| Agents (`internal/ai/agents.go`, `schema.go`) | the struct an answer is decoded into | runWithRepair, parse functions, Validate | a repair decodes into the variable the refused answer was decoded into. A success is the last answer alone | `AgentRepair` |
| Claude client, prompts (`ai/client.go`, `prompts.go`) | none | Complete | a completion fails or takes up to 60 s | in `AgentRepair` |
| Task service (`service/task.go`, `tasks.sql`) | `tasks` | Create, List, Update, Delete | status against `updated_at` | in `TaskPanel`, `TaskStats` |
| Task panel (`task-panel.tsx`) | two mutations, the list, the ranking | add, toggle, delete, prioritize, refresh | replies and refetches in any order, a slow ranking. What is shown is what there is | `TaskPanel` |
| Interactive AI (`service/ai.go`) | none | Prioritize, Breakdown, WeeklyReport | seconds pass between the read and the answer | in `TaskPanel`, `AgentRepair` |
| Statistics (`service/stats.go`, `domain/stats.go`, `stats.sql`) | none | Get | several queries, no transaction, midnight, `updated_at` as the day of completion | `TaskStats`, in `TaskPanel` |
| Insights panel (`insights-panel.tsx`) | the stats query | refetch | reads while tasks change | in `TaskPanel` |
| Habits (`service/habit.go`, `habits.sql`, `habits-panel.tsx`) | `habits`, `habit_checkins` | Create, Delete, Check, Uncheck, List | only Add is disabled while its request is under way; two queries with the clock in between; the window cuts streaks | `HabitPanel` |
| Plan panel (`plan-panel.tsx`) | the selected date, two queries on each date's row, one effect | select, generate, poll, refresh | a cached answer of an earlier request under an id that stays the same; several jobs that write one row; an answer that comes when another date is selected. Polling goes on to the row's answer, and what is shown at rest is the row | `PlanPanel` |
| Query cache (`app/providers.tsx`) | TanStack Query | fetch, invalidate, staleTime | a refetch cancels the fetch under way, except the first load | `QueryCache` (external) |
| Authentication (`service/auth.go`, `auth/token.go`, `middleware/auth.go`) | `users`; tokens that expire | Register, Login, Auth | two registrations race for an e-mail, an account is stored and its answer lost | in `Session` |
| Session store and pages (`lib/auth.tsx`, `app/**/page.tsx`) | the session in localStorage, per tab its rendered copy and its page | sign in, sign out, follow storage events, guard, reload | a form answered after its page is gone, another tab signing in or out between a guard and the page it sends to, a cache that outlives the session. Every tab settles on the stored session | `Session` |
| API server command (`cmd/server/main.go`) | the requests under way | exit after 10 s of grace | a Generate cut off between its row and its job | in `PlanPipeline` |
| Worker and enqueue commands, demo handler | process life cycle | start, signals | restarts with or without an API key | in `WorkerPool`, `PlanPipeline` |
| API client, router, configuration, UI components, repository (generated), migrations | see `PROJECT.json` | | stateless, generated or I/O | |

Calls and shared state: Generate writes the row, then pushes the job (two stores, no
transaction); the worker reads the job and writes the row; PlanPanel polls the row. The
task panel and the insights panel are coupled by `invalidateQueries`. Everything else
is one request and one reply.

The hazards this design is exposed to are in `PROJECT.json`, each at its line with the
properties that would catch it going wrong, or the reason why none does yet.

## 2. The modules

| Module | Models | State and actions |
|---|---|---|
| `JobQueue` | `queue/queue.go` on Redis lists | `main`, `processing`, `dead`: sequences of `[id, attempt]`, newest first as LPUSH leaves them. One action per operation; a MULTI is one action, `Recover` one action per LMOVE. `RemoveFirst` is LREM with a count of 1 |
| `WorkerPool` | `worker/pool.go`, `cmd/worker` | extends `JobQueue`. `pc[p]` is the place of the Run goroutine, `worker[p][w]` that of each goroutine and its delivery, `offer[p]` the delivery the dispatcher has, to hand over or, when it does not unmarshal, to remove (BLMOVE and that LREM are two actions); `cancelled[p]` is the context. `timely` says that `ackCtx`, created when `process` is entered, is not expired. `accepted`, `acked`, `dropped`, `succeeded`, `runs` are history; `mishaps` counts what went wrong against `Budget` |
| `AtLeastOnce` | what `queue.go` and `docs/DECISIONS.md` promise of the jobs, and ask of whoever runs them | abstract: per job its state (new, pending with its failures, done, dead, discarded) and its run (none, begun, ok, err); a run may be forgotten at any time |
| `PlanPipeline` | `service/plan.go`, `worker/planjob.go`, `plans.sql`, the exit of `cmd/server` | one action per statement on `daily_plans` and per place of a handler run. The jobs in it are those of `AtLeastOnce`, which `WorkerPool` implements; `Seen` maps the places of a run to what the queue sees of it. Of the pool it has what decides whether a job is run: `pool` (recovering, serving, leaving, left), a claim whose reply may be lost, a hand-over that a cancelled context may or may not prevent, a `Recover` that may leave some of processing where it is |
| `AgentRepair` | `ai/agents.go`, `ai/schema.go` | a completion, its parse, one repair. `out` is the struct; an answer is, per field, absent, blank or good, and readable, mistyped or no JSON |
| `QueryCache` | one TanStack query with a mounted observer | operators; external, modelled from its use |
| `TaskPanel` | `task-panel.tsx`, `insights-panel.tsx`, `service/task.go`, `service/ai.go`, `service/stats.go` | the table, two queries, two mutations, a ranking |
| `TaskStats` | `service/stats.go`, `domain/stats.go`, `stats.sql` | the table with `updated_at`, and one GET /stats in its three steps |
| `HabitPanel` | `service/habit.go`, `habits.sql`, `habits-panel.tsx` | two tables, a query, any number of overlapping requests |
| `PlanPanel` | `plan-panel.tsx` | the selected date; per date its row, the open jobs for it and two queries; the mutation and the effect |
| `Session` | `lib/auth.tsx`, the pages, `service/auth.go`, `auth/token.go`, and one query of the panels | the accounts; the session in localStorage; per tab the session it has rendered, its page, the one it is on its way to, its form and its cache; forms under way |
| `*Proofs` | theorems of the module they extend | |
| `MC*` | instances for TLC | values of constants only |

How they compose: `WorkerPool` extends `JobQueue` and refines `AtLeastOnce`
(`KeepsPromise`, `KeepsFairPromise`: `Promise == INSTANCE AtLeastOnce WITH ...`, where
`Stage` maps lists, acknowledgements and counters to the state of a job, and `Run` the
places of the goroutines to its run). `PlanPipeline` is built on it: `job` changes only by
the actions of its instance `Queue`, so that attempts, dead letters and settlements follow
the rules `WorkerPool` is shown to keep, as does that two runs of one job do not overlap.
What `AtLeastOnce` leaves out, when a pending job is in a list the dispatcher reads, the
pipeline models itself (`Dispatch`, `Shutdown`, `Restart`, `Crash`, `Recover`), coarsely: the
order of the list is free, `Recover` is one step that may leave any part of processing, and
the backoff is no time. `PlanPanel` has its own, coarser worker (`Work`, `WorkAgain`):
each open job writes its row whatever the row says by then, in any order, and may be
delivered again after it has answered. The panels and `Session` share `QueryCache`; `Session`
has the part of it that the panels leave out, that the cache stays when the session goes.

A definition whose comment begins with "Mutant:" is not part of the model: it is a
plausible bug (a dropped guard, a missing reset) that the property listed with it in
`PROJECT.json` must detect when it replaces the operation defined after it.

### Conventions

- A Redis command or SQL statement takes effect in one step. It may fail without
  effect, or take effect and lose its reply; which of the two matters at Enqueue,
  Claim, and the requests of the panels, and there both are modelled.
- `Budget` bounds how often each mishap happens. It is a guard of the mishap only, and
  the theorems hold for every `Budget`. `Budgets` (`PlanPanel`, `Session`) is a set of
  such bounds, any of which a behaviour may keep to: what happens together is bounded,
  and each kind of mishap still gets its turn.
- History variables (`accepted`, `acked`, `dropped`, `succeeded`, `runs`, `upserts`,
  `alone`, `raced`, `unseen`, `overtaken`, `own`, `touched`, `edited`, `completedOn`) record what the
  properties speak of. No guard of the code reads them, with one exception that stands
  for the environment: a job is submitted once (`accepted`).
- "Unstolen": no `Recover` has taken an entry that a process was working on. With one
  worker process on the namespace it always holds (proved, `NothingIsStolen`); with more it
  does not, and the properties that need it say so. `NoJobLost` and `DeadLetterEarned`
  do not need it.

## 3. The runs

Time is with two TLC workers.

| Run | Instance | Checks | Size |
|---|---|---|---|
| `pool_safety` | 1 process, 2 goroutines, 2 jobs (limits 1 and the default 2), two crashes and one lost command, expired deadline and shutdown | types; `NoDuplicate`, `HeldIsProcessing`, `OneHolder`, `NothingStranded`, `RunsBounded`, `RecoverOnlyOrphans`, `SettledNeverRuns`; lists and goroutines implement `AtLeastOnce` (`KeepsPromise`); a cancelled pool ends (`ShutdownCompletes`) | 220 k states, 1 min |
| `pool_processes` | 2 processes with a goroutine each, 1 job, every mishap once, stealing included | `NoJobLost`, `DeadLetterEarned`, and `IndInv`, the inductive invariant of the proofs | 156 k |
| `pool_live` | 1 process, 1 goroutine, 3 jobs: one with a handler, one of an unknown type, one unreadable; a crash and a shutdown, also between the BLMOVE and the LREM of the unreadable one | `EventuallySettled`; the fair `AtLeastOnce` (`KeepsFairPromise`) | 3.5 k |
| `plan_pipeline` | 2 requests for one plan, 2 concurrent handlers, 2 attempts, every mishap once, a key that comes and goes with restarts, an API server that exits | `InProgressHasJob`, `AnswerPresent`, `AloneIsAnswered`, `PlanSettles` | 514 k, 1 min |
| `agent_repair` | the weekly report: two required fields, one that is not; every pair of answers | `SuccessIsLastAnswer`, `RepairIsOfRefused` | 3 k |
| `tasks` | 2 tasks, both mutations, one failure or one ranking | `ShownIsTrue`, `InsightsSettle`, `RankingFollows` | 1.2 M (with symmetry) |
| `planpanel` | 2 dates; away and back around one request, two requests for one date whose jobs overlap, or away around one whose job is run again; a lost request; nobody acts in haste | `PollingKicksIn`, `QuietShowsRow`, `ShownSettles` | 637 k, 2 min |
| `session` | 2 tabs, 2 people, three mixes of forms, links, sign-outs, writes, reloads, lost requests and expired tokens | `ShownIsOwn`, `PagesSettle` | 552 k, 1 min |
| `habits` | 2 habits, 2 overlapping requests, a window of 3 days and a midnight, two clicks, one failure, every initial set of check-ins | `ShownIsTrue`, `StreakIsRight` | 942 k (with symmetry) |
| `stats` | 2 tasks, a trend of 2 of 4 days | `TrendIsRight`, `TrendIsCounted` | 105 k (with symmetry) |
| `pool_ackdeadline`, `planpanel_hasty` | the smallest that shows it | one sentence of the repository each, violated (section 6) | |

Every passing run checks the type invariant of its module, except the two pool runs that
would repeat it. `CHECK_DEADLOCK FALSE` stands where the system may rightly stop: all
requests are made, the budget is spent, the last day is reached. The pool runs check
for deadlock: a worker that is up can always go round its loop.

### Why these bounds are enough

- Two jobs and two goroutines are the least with which one delivery can be lost, doubled
  or handed over while another is being worked on; no step involves a third. A limit of
  1 makes a first failure fatal, a limit of 2 gives a retry. Two crashes let a recovery
  itself be interrupted, and let a job exceed its attempts, which `RunsBounded` is about.
- Stealing needs a second process; one job in it suffices, since jobs meet only in the
  order of the lists, which no property speaks of. What several processes and several
  jobs may do together is covered by the proofs, which have no bounds.
- Two requests for one plan give every overlap of two: the upsert of the second before,
  during and after the run of the first. Plans do not share anything.
- A habit's streak is about the edge of the window: with a window of 3 there are the
  full streak, the one cut off, the one that ends yesterday and the gap.
- In the plan panel one request around a change of the date, two requests for one date,
  the first of which may have lost its answer, and a job that is run again are what lets
  an answer be taken for another one. Two at once, and more of any, are beyond TLC's reach
  here and are what `PlanPanelProofs` covers, for any number of dates, requests, losses and
  repeated jobs.
- Two tabs let one sign in or out under the other, two people let what one has loaded be
  shown to the other, and two forms let the one that is answered last be the one that was
  submitted first. Tabs are opened at "/"; a reload brings them to any other page.
- A pair of answers is all that `runWithRepair` asks for; fields do not interact.
- Where two panels' requests overlap, two mutations are what the panel's own disabled
  states allow at once (`TaskPanel`), and two slots are the least for an overlap
  (`HabitPanel`).
- Symmetry is used in runs that check invariants only.

## 4. Fairness

Liveness is checked under weak fairness only, of what the code schedules:

- `WorkerPool`: of each Run goroutine and each worker goroutine, which the Go scheduler
  runs when they are runnable. A handler returns because a completion has a 60 s
  timeout, so `HandlerOk` and `HandlerFails` are part of it. `Start` is fair as well: an
  operator or a supervisor starts a worker that went down. Without that a job simply
  waits. Nothing is assumed of producers, crashes or signals, and `ShutdownCompletes`
  needs no restart. `EventuallySettled` is checked with crashes and shutdowns but
  without lost commands and expired deadlines: after such a failure the job waits in
  processing until the worker restarts, and nothing in the program makes it restart.
- `PlanPipeline`: of the rest of a request the server has begun (it enqueues or fails), of
  the dispatcher (it claims a job it finds, or loses the reply, and passes on or abandons
  what it has claimed), of `Recover`, of a run that has begun, and of the restart of a
  stopped worker. Nobody has to post. No fairness makes a worker that serves take what is in
  processing: such a job is `Forsaken` until a restart.
- `PlanPanel`: requests are answered or fail, the interval timer fires, the worker runs
  every open job. A request whose Enqueue failed has none, and its row stays queued. Nobody
  has to click.
- `Session`: of storage events and hydration (`Notice`) and of pages that were asked for
  (`Arrive`), which the browser and the router deliver. No form has to be answered.
- `AtLeastOnce` has a fair specification of its own (`FairSpec`), which `KeepsFairPromise`
  says `WorkerPool` implements: there it is a conclusion. It is strong fairness of a run's
  return and of its settlement, since a crash may disable either again and again: a job is
  run until a run is heard of.
- Conclusions name the exceptions they need, for instance a request whose Enqueue
  failed (`Forsaken`).

## 5. What is proved

`tlapm` checks every theorem; nothing is left without a proof. The proofs hold for every
number of processes, goroutines, jobs, plans, dates, tabs, tasks, habits, days, attempts and
mishaps. Every invariant and every action property that a passing run checks is a theorem,
and so are the safety cores of two liveness properties (`RestIsInPlace`, `RestingPanelIsRight`).

### The queue and the pool (`WorkerPoolProofs`)

The first part has what the Redis commands do to a list: what LPUSH adds, what a pop at
the other end takes, what LREM removes and preserves, and that entries stay distinct.
From these come one lemma per queue operation (`ClaimEffect`, `RetryEffect`, ...), and the
steps of the pool are reasoned about only through them.

`NoJobLost` and the others are not inductive. The invariant is

    IndInv == TypeOK /\ Readable /\ JobsKept /\ AttemptsCounted
              /\ SoleCopies /\ RunsPaid /\ QuietAtStart

- `Readable`: the dispatcher sends what it could unmarshal and removes what it could not.
- `JobsKept` gives `NothingIsLost`. The job of a goroutine that is about to acknowledge
  has succeeded: without that, an Ack could remove a job with no success on record.
- `AttemptsCounted` gives `DeadLettersAreEarned`. Every copy of a job, in a list or in
  memory, has attempts left and no more failures than invocations; in memory of a worker
  strictly fewer, since the run under way is not yet a failure. That strictness is what
  pays for the next Retry. It holds even when entries are stolen, because every copy
  carries its own count.
- `SoleCopies` gives `NothingIsDuplicated`, `DeliveriesAreProcessing`, `HoldersAreSingle`
  and `SettledStaysSettled`. While no live delivery has been stolen, the lists are distinct
  and disjoint from each other and from the settled jobs, every delivery in memory is in
  processing, and each has one holder. The three depend on each other: Retry's LREM
  finds the entry because it is in processing, and leaves no second copy because there
  was only one.
- `RunsPaid` gives `RunsAreBounded`. The attempt counter of a job accounts for its runs,
  but for the one under way (`Settling`) and those that a crash, a fault or an expired
  deadline has paid for (`Toll`): such a mishap is the only way in which a run ends
  without the counter being written back.
- `QuietAtStart`: no goroutine works in a process that is down or still recovering.

`Readable`, `AttemptsCounted` and `QuietAtStart` are inductive relative to `TypeOK` alone and
`JobsKept` relative to `Readable`, with any number of processes; `SoleCopies` and `RunsPaid` under `Unstolen`, which no step
re-establishes once it is false. `InductiveInvariant` states the whole.

### The promise of the queue (`WorkerPoolProofs`)

`PromiseWhileUnstolen`: with any number of processes, every behaviour in which no recovery
takes what a process holds is one of `AtLeastOnce`: `Spec => ([]Unstolen => KeepsPromise)`.
Every step of `WorkerPool` is one of `AtLeastOnce`, or stutters (`PromiseStep`).

- The lists. A job has at most one entry in them (`SoleCopies`), so that `Stage` can be read
  off that entry (`StagesOf`), and one lemma for each list operation says how the stage moves.
- The goroutines. At most one has a given job, so that `Run` can be read off its place
  (`RunOfWorker`): a hand-off begins the run, which nobody was at, since the dispatcher holds
  no job that a worker has (`HandOffRuns`); a crash forgets all the runs of its process and no
  others (`CrashRuns`); so does a settlement that fails, of one run.
- A run begins only of a job that somebody can run and read (`Readable`), and only what
  nobody can read is discarded.

`SettledForGood` follows: a job that is acknowledged, dropped or dead never stands anywhere
else again, and a dead letter keeps its count of failures.

### One worker process (`WorkerPoolProofs`)

Under `OneProcess`, which is how `make worker` runs it, the exceptions go:

- `OnlyOrphansAreRecovered`: by `QuietAtStart` nobody works while the process recovers.
  Hence `NothingIsStolen`, `Spec => []Unstolen`, which makes the theorems above
  unconditional.
- `NothingIsStranded`: without faults and expiries, all that is in processing after the
  recovery is in somebody's hands, who can still settle it (`InHands`).
- `PromiseIsKept`: so the program implements `AtLeastOnce`, unconditionally.

### The pipeline (`PlanPipelineProofs`)

- `SomebodyAnswers`: a row that is queued or running always has an open job or a failure
  that is known. The strengthening is `InProgressHasWork`, in which a run that has returned
  nil does not count: `PlanHandler` returns nil only after it has written done or failed,
  and Acks afterwards, so that a row still in progress then has another job behind it.
- `AnswersAreThere`: a done plan has a schedule and no error, a failed one an error, by
  what each of the four statements writes.
- `EarlierAnswersStayAway`: the invariant `AloneUndisturbed` says that as long as a request
  made with no earlier job open is the latest of its plan, no other job for the plan is
  open, and that from its handler's return on the row is its own answer (`OnlyItsOwn`).

They hold with any number of plans, requests, workers and mishaps, whatever the claim, the
hand-over and the recovery do (`DispatchStep`, `RebornStep`: a step of these changes neither
a row nor a job). What they do to the progress of a plan is `PlanSettles`, which TLC checks.

### The agents (`AgentRepairProofs`)

For every set of fields and every set of required ones: a success is the last answer
alone (`SuccessIsTheLastAnswer`), only a refused answer is repaired
(`OnlyRefusedIsRepaired`). The invariant adds which answers there are at each place.
The key lemma is `ParsedIsSaid`: since the parse functions start from a new struct, what
Validate sees is what the answer says.

### The statistics (`TaskStatsProofs`)

For any number of tasks and days and any length of the trend: `TrendShowsCompletions` and
`TrendIsOfTheCounted`. The invariant says that nothing is dated in the future, that the
`updated_at` of a completed task nobody edited is the day it was completed (`Dated`), that
what was counted and is not touched is still so (`Counted`), and that each trend bucket
holds untouched tasks of its own day (`Placed`).

### The task panel (`TaskPanelProofs`)

`ListIsTrue`, `InsightsAreTrue` and `RankingIsOfPending`, for any number of tasks, changes,
rankings and failures. The three parts of the invariant have one form: when no change is
stored that the panel has not been told of (`Told`), and none was stored whose request
failed (`unseen`), then what is shown, and also every read under way, is of the table as
it is. A read that was made before a change is no exception, because the success of the
change cancels it (`TasksKnown`, `StatsKnown`), and a ranking that is asked for before a
change is marked by it (`RankingKnown`).

### The plan panel (`PlanPanelProofs`)

Two theorems, for any number of dates, requests, open jobs, repeated runs and losses:

- `PollingGoesOn`: while the stored plan looks in progress a fetch is under way, the timer
  is set, or the poll has brought the answer the row has.
- `RestingPanelIsRight`: a panel at rest, with no fetch, no timer and no mutation, shows the
  row, whichever job wrote it last; the safety part of `ShownSettles`.

Both assume `Patience`: nobody regenerates in haste (section 6), and no first poll fails with
nothing to show. Both have exceptions that stand for what the panel cannot know. `unseen`:
it did not refetch after the last request. `overtaken`, until the next request: the row was
written again after the panel had read an answer to the latest request. The row is
written by plan id, so this happens when two jobs for it overlap or one is delivered again;
section 6 says what the panel does then. The argument:

1. `Ordered`: what the queries of a date hold is not of a later request than its row.
2. `NothingCached`: while the request that makes all answers old is on its way, none is
   cached as fresh and nothing brings one. That is what haste would break.
3. `FreshIsLatest` and `PollIsLatest`: so an answer that is fresh, and the last one of an
   enabled poll that is over, was read after the latest request.
4. `LatestIsRow`: what was read after the latest request is the row itself, unless it looks in
   progress or the row was overtaken (`LatestStep`). So the answer of 3 is the one the row has,
   and not only one that some job once gave.
5. `StoredIsLatest`: the stored plan, or the reply under way, was read after the latest
   request as long as the panel has missed nothing.

`planpanel` can only check these for two dates and two requests in all. The theorems have no
such bound, and the proof found the exception `ReturnsInHaste`, which needs more steps than
the run allows: see section 6.

### The session (`SessionProofs`)

`OwnDataIsShown`: once a fetch that was begun under the session a tab shows has succeeded,
the tab shows no other user's data. The invariant `OwnIsAsked` says that in such a tab the
data, or the answer to come, is of that session: a fetch it joins would be another's, but a
joined fetch does not count as begun, and a refetch cancels the one under way.

`RestIsInPlace`: a tab that has read the stored session and is not on its way anywhere is on a
page that session belongs on; the safety part of `PagesSettle`. It is not inductive: a tab may
be sent to the page it is on, or to none, only where its guard is content, which is `Guarded`.
The lemma behind it is that no guard sends to the page it guards.

### The habits (`HabitPanelProofs`)

For any number of habits, days, overlapping requests and failures, and a window of any
length:

- `TypeCorrect`, in which no check-in is without its habit. A check that was found to be of
  a habit that is deleted before the insert is refused by the foreign key.
- `ListIsTrue`: once nothing is on its way the panel shows what there is. The invariant
  `ListKnown` is of the form of `TasksKnown`, with a third case: a list of which only the
  habits are read has the habits there are.
- `StreakIsCounted`: the loop of `currentStreak`, which the model has as a recursive function,
  counts the consecutive checked days that end today or yesterday. `BackCounts` shows by the
  least-number principle that a recursion over days has a solution, and that any solution
  counts the run: there is no first day for which it would not.

### Assumptions

Typing and the distinctness of dummies: `SortsAssumption`, `NoEntryAssumption`,
`BudgetAssumption`, `PlanOfAssumption`, `NoneAssumption`, `NoRowAssumption`,
`NoReplyAssumption`, `TodayAssumption`, `EntriesAssumption`, `UndefinedAssumption` (of the data
of each query) and, of the pages and sessions, the `NoneAssumption` of `Session`.
Of the code: `DefaultAssumption` (the default limit is positive, `queue.go`'s constant 3),
`MaxAttemptsAssumption` (a job's own limit is an integer; 0 and less mean the default; a
positive one, the same for every plan job, in `PlanPipeline`: `AttemptsAssumption`),
`RequiredAssumption` (what is required is a field), `DaysAssumption` and `WindowAssumption`
(the lengths of the windows are positive). TLC evaluates each on the runs of its module.

### Only model-checked

Liveness (`ShutdownCompletes`, `EventuallySettled`, `KeepsFairPromise`, `PlanSettles`,
`ShownSettles`, `PagesSettle`): fairness and ENABLED are out of the prover's reach. What
could go wrong with them without any scheduler's help is proved: nothing is stranded
(`NothingIsStranded`), a row in progress has work behind it (`SomebodyAnswers`), a panel at rest
is right (`RestingPanelIsRight`), a tab at rest is in place (`RestIsInPlace`). What is left to
TLC is that they come to rest.

No module declares a recursive operator.

## 6. Findings

Two sentences of the repository that the code does not keep, each with a run whose
counterexample shows it:

1. **`pool_ackdeadline`** (`pool.go:141`). `docs/DECISIONS.md:79-80`: detaching the ack
   context "ensures a job that finishes during shutdown is still acked/retried instead of
   leaking back as an orphan". `ackCtx` gets its 5 s before the handler runs, and a Claude
   call may take 60 s: a slow handler's Ack fails and the job runs again after the next
   start.
2. **`planpanel_hasty`** (`plan-panel.tsx:62`). `plan-panel.tsx:87`: "... and polling kicks
   in". Regenerating within 10 s of the last poll enables a query whose cached answer is
   fresh and terminal: it neither fetches nor polls.

Other divergences met while modelling, seen in the code, as guards of the models or as
exceptions of the properties, with no run of their own:

- Two jobs for one row can leave the plan panel stuck or wrong without any haste. The 202
  of a request is lost and the user asks again, so that two jobs write the row. The poll
  reads the answer of the first, and the effect refetches the stored plan. Either that still
  reads `done`, the panel rests, and the second job's answer is never shown
  (`plan-panel.tsx:67-72`, `planjob.go:57`); or the second job has marked the row running by
  then, and a stored plan in progress meets a poll whose last answer is fresh and
  terminal, so that no timer is set (`plan-panel.tsx:61-65`), against the comments at `:59`
  and `:87`. A job delivered again after its answer does the same. That is the exception
  `overtaken` of `PollingKicksIn`, `QuietShowsRow` and `ShownSettles`: without it TLC finds
  each of the three violated on the instance of `planpanel`. Reloading the page shows the row.
- A redelivered job of an earlier request replaces the answer to a later one, since the row
  is written by plan id (`planjob.go:57`); `docs/LEARNING.md:275` calls it "harmless".
  `AloneIsAnswered` says when it cannot happen: when the later request was made with no
  earlier job open.
- A second way to the stuck poll of `planpanel_hasty`, found by the proof: a request whose
  answer was lost is repeated, and the user leaves the date and comes back before the
  repetition is stored, so that the first one's answer is fetched and is fresh when the
  repetition makes it old (`ReturnsInHaste`).
- `onSuccess` refetches the plan of the date that is selected when the answer arrives, not
  of the one it was asked for (`plan-panel.tsx:88`).
- The dispatcher claims before a goroutine is free: with N busy it holds an N+1st job,
  while `docs/DECISIONS.md:78-79` says at most N.
- Recover takes every entry of processing, a live delivery of a second process included
  (`queue.go:124-125` speaks of a crashed worker). `pool_processes` shows what survives it.
- A timed-out Claude call is a failed plan, acknowledged and not re-enqueued;
  `docs/AI_DESIGN.md:95` says it is.
- A first poll that fails while nothing is in progress to show ends the polling
  (`plan-panel.tsx:64`, `docs/LEARNING.md:173`); counted as `deaf` in `PlanPanel`.
- A ranking asked for before a change and answered after it is shown as current
  (`task-panel.tsx:46`); the exception `raced` of `RankingFollows`.
- A streak is capped by the window of 28 days (`docs/API.md:158`).
- A completion moves in the trend when the task is edited later (`stats.sql:21`); the
  exception `edited` of `TrendIsRight`. Counts and trend are not one snapshot; the
  exception `touched`.
- The keys of the query cache do not name the user (`providers.tsx:8`): after another user
  signs in, in this tab or in another one, the panels show what they have cached, or what
  a fetch they join brings, until a fetch of their own succeeds. `ShownIsOwn` says that
  this is all there is to it.
- A form that is answered late stores its session whatever the tab shows by then: it
  replaces another one, or signs in again after a sign-out.
- A token that expires makes every request fail with 401; nothing signs the user out.
- `docs/DECISIONS.md:66` speaks of an `AuthProvider`; `lib/auth.tsx` has an external store.
- The backoff doubles from 100 ms to 5 s: from a seventh attempt on it is all of
  `ackTimeout` (`pool.go:194`). No producer asks for that many attempts.

## 7. What is not modelled

- Redis and Postgres are taken as durable: a server that loses acknowledged writes is not
  modelled. Nor are the client's own retries of a Redis command whose connection broke
  (an LPUSH may be repeated), nor malformed plan payloads, which no producer writes.
- Times are abstracted to "expired or not", "stale or not" and days.
- Wording, prompts, validation of request bodies, filters, priorities and minutes.
- In the panels: other clients changing the same data, the breakdown of a row, form
  fields, focus and reconnect, and the cache's own removal of what was unused for 5
  minutes, which only turns an old answer into none.
- Hashes and signatures: a password is right or the request is refused, a token names its
  user until it expires. `GET /me` is not used by the front end.
- `Lengths` and the health probes only read.
- The router, middleware other than authentication, configuration, start-up, UI components
  and generated code; reasons in `PROJECT.json`.

## 8. Plan

Written in this order, most important first, all of it done: the queue and the pool with
their proofs; the pipeline over the queue's promise; the agents; the panels over the
query cache; the statistics; the session and the cache that outlives it; the exit of the
API server; several dates in the plan panel. Proved after the types and the first safety
invariants: the bound on runs, the refinement of `AtLeastOnce` by the queue and
the pool, the answers of the pipeline, the habits with their
streak, and the task, plan and session panels.

Left: the breakdown of a task row.
