# Verification of the adaptive exam-preparation platform

This directory holds a TLA+ development of the TypeScript monorepo under `src/`:
a web API (`apps/api`) over PostgreSQL (`packages/db`, Prisma) that serves
practice, training, simulations, an AI tutor and subscriptions to students who
prepare for an exam, and the tools with which its staff make questions.  Modules are
checked by TLC on small instances and the core results are proved by TLAPS for every
value of the constants.

Sections: 1 the system, 2 the modules and how they correspond to the code, 3 the runs,
4 the proofs, 5 what the checks found, 6 what is not modelled and what is left.

## 1. The system

Every server process is stateless between requests, so the state that matters is
in the database, at the payment and AI providers, and, while a request is served,
in the local variables of its handler between two `await`s.  Several processes may
run, and nothing but the database orders them; in one process the promise chains of
practice and training, the rate limiter and the gate on tutor calls do.

| Component | State | Operations | Hard behaviour | Correct when |
|---|---|---|---|---|
| Subscription lifecycle (`domain/billing/subscription.ts`) | one row: status, end of the paid period, time of the last event | `applyBillingEvent` | events late, out of order, after the end | payments buy exactly their time, refunds are final |
| Checkout and webhook (`billing-api`, `prismaBilling.ts`) | `billing_subscriptions`, `billing_events`; provider sessions | `startCheckout`, `processEvent` | statements of concurrent requests interleave; crash between session and attach; redelivery | no payment is orphaned, charged at another price or applied twice |
| Entitlements and metering (`guard.ts`, `usage.ts`, `entitlement.ts`) | `usage_events`, advisory lock | `metered`: decide, reserve, work, settle | concurrent reserves, crash with a unit or a lock in hand, plan change half-way | limits are never exceeded, delivered units always count |
| Attempts (`domain/attempt`, `practice-loop`, `practice-api`) | attempt rows and their event logs | start, answer, submit, skip | load outside the transaction, save inside it; two-transaction submit | one open attempt per question; a final attempt keeps its outcome |
| Training sessions and blocks (`training-session`, `practice-block`, `trainingService.ts`) | session and block rows | start, next question, finish | finish checked in one transaction and written in another | one active session; a finished one takes no attempt |
| Exam simulation (`exam-simulation`, `prismaSimulation.ts`) | simulation row, paper, answer events | start or recover, read, answer, submit, expire | the clock and the need for keys read before the row lock; lazy expiry; a catalog that changes | no answer after the deadline; the result is that of the answers |
| Autopsy, repair, recommendation (`domain/autopsy`, `training-recommendation`, `training-orchestration`, `training-systems` and its seven members, `adaptive-selection`) | decision and repair-plan rows | offer an explanation, answer it, recommend a question | statuses written from logs read before; two answers to one offer; seven selections in a row | the first answer stands and is told; a repair is marked no further than the student is |
| Content authoring and generation (`content-authoring`, `question-generation`, `validation`) | questions, reviews, derivations | author, edit, validate, review, publish, generate a batch | gates judged by a list read before the transaction; reviews of a text that has changed; a budget looked at between calls | what is published was judged as it is; one identity per published question |
| Content intelligence (`content-intelligence`) | source versions, chunks, candidates with their citations | ingest, run, review, release | runs that stop at any statement and are asked for again; a copied state; a document cut anew | what is called enriched and reviewed is; citations stay |
| HTTP server, accounts, limits, tutor (`apps/api`, `auth-api`, `enrollment-api`, `observability`, `assistant-api`, `ai-orchestration`, `ai`) | accounts, sessions, enrollments; in-process windows and slots | sign up, log in, log out, onboard, enroll, ask the tutor | sessions ending while a request waits; a deadline that answers while the run goes on; a limiter that is full | an ended session never comes back, slots are given back once, the student pays for what was told |
| Curriculum, preparation phases, revision, personalization, concept graph, exam packs and exam intelligence | derived from other rows | read models | none of their own | not modelled, section 6 |
| Web client (`apps/web`), playground | browser state | repeats API calls | double submission | (no authority) |

Components call each other inside one process; processes meet only in the
database.  The provider's webhook is the one inbound channel that changes a
subscription, and the entitlement of a request is derived from the subscriptions
on every read.

## 2. Modules

Abstract specifications, each implemented by the module named after it:

| Module | Promises | Implemented by |
|---|---|---|
| `Agreement` | the documented lives of a subscription | `Billing` |
| `Quota` | units taken within limits and settled once | `Metering` |
| `AttemptTable` | attempts open once, close once, one open per question | `Practice`, `Training` |
| `ExamLife` | one simulation at a time, answers only while it runs, an end that stands | `Simulation` |
| `ContentLife` | a question moves one state at a time, a change sends it back, the end is final | `Authoring`, `Generation` |
| `AccountLife` | one account an email, dates that do not move, ended sessions stay ended | `Server` |
| `Diagnosis` | one explanation an answer, the first reply stands, a plan only moves forward | `Study` |
| `Corpus` | no version lost, a claim beside its passage, decided once | `Ingestion` |

Modules of the code:

| Module | Models | Code |
|---|---|---|
| `Commerce` | what `Billing` and `Metering` share: null, the requests, the clock | |
| `Subscription` | the pure transition of a row by an event | `domain/billing/src/subscription.ts` |
| `Billing` | checkout requests, the provider, the webhook and the tables | `billing-api/src/service.ts`, `webhook.ts`, `prismaBilling.ts`, migration 0018 |
| `Metering` | metered requests on any number of processes | `guard.ts`, `entitlement.ts`, `usage.ts`, `prismaBilling.ts` |
| `Attempt` | the pure lifecycle of one attempt | `domain/attempt/src/lifecycle.ts` |
| `Practice` | the handlers that start, submit and skip, and the attempts table | `practice-api/src/service.ts`, `practiceLoopService.ts`, `prismaAttemptRepository.ts`, migration 0010 |
| `Training` | the handlers of training sessions over `AttemptTable` | `practice-api/src/trainingService.ts`, `domain/training-session`, `prismaTrainingSessionRepository.ts`, migration 0012 |
| `ExamPaper`, `Simulation` | the paper and the result; the handlers of simulations | `domain/exam-simulation`, `prismaSimulation.ts`, `assistant-api/src/simulation.ts`, migration 0016 |
| `Authoring`, `Generation` | the gates, the questions table and its writers; the generator | `domain/content-authoring`, `domain/question-generation`, `domain/question-engine`, the question repositories |
| `RateLimit`, `Accounts`, `Tutor`, `Server` | the limiter; the account tables; one tutor run; the requests that use them | `observability`, `auth-api`, `enrollment-api`, `ai-orchestration`, `ai`, `assistant-api/src/tutor.ts`, `apps/api/src` |
| `Evidence`, `Adaptive`, `Repair`, `Systems`, `Study` | the evidence of a log; adaptive choice; repair; the other kinds of training and the recommendation; the requests | `domain/mastery`, `adaptive-selection`, `repair-selection`, the training systems, `training-orchestration`, `training-recommendation`, `practice-api/src/service.ts` |
| `Ingestion` | the pipeline from a content to reviewed candidates | `domain/content-intelligence`, `prismaContentIntelligenceRepository.ts`, migration 0015 |
| `CommerceProofs`, `PracticeProofs`, `TrainingProofs`, `SimulationProofs`, `ServerProofs`, `StudyProofs`, `IngestionProofs`, `GenerationProofs` | the proofs | |
| `MCBilling`, `MCMetering`, `MCPractice`, `MCTraining`, `MCSimulation`, `MCContent`, `MCServer`, `MCStudy`, `MCIngestion` | instances for TLC | |

Throughout, a request's `pc` stands before its next statement, and an action is one
statement or one transaction.  An operator with the comment "Mutant of X" is X as a
plausible bug would make it; no specification uses it, and each property is checked to
fail with one of them in the place of X.

**Billing.**  A checkout request's `pc` stands before its next statement:
`insert` (the `INSERT ... ON CONFLICT`), `find` (reading the open row back, three
attempts in all), `create` (the provider call), `attach` (the compare-and-set of
`provider_ref`).  `Abandon` ends a request between any two of them: a database
error, a provider error and a dead process leave the same thing behind.  `done`
means that the page's URL was returned, and only then can a payment be made
(`Pays`): a page nobody was given cannot be paid.  `ProcessEvent` is a whole
transaction, because it locks the row it maps to; an event that maps to no row is
recorded with its outcome.  The digest of the payload is not modelled (the
provider does not use one event id for two events), and neither are providers
beyond one.  `Redeploy` changes the catalog at any time: prices, plans not for
sale, plans no longer listed.

**Metering.**  One student and one meter: lock, key and queries are scoped to the
pair.  `Regrant` changes the set of sources (baseline, subscriptions) that grant
the feature between any two reads.  `Decide` and `ReadLimit` take separate
snapshots, as `decide` and `getUsageLimit` do.  The idempotency key is an id the
server makes for the request, so the lookup of an earlier reservation under it
finds nothing and is left out.  `Check` and `Insert` are separate steps of the
transaction under the lock.  `Settle` may fail without effect, because its error is
swallowed.  `quantity` is 1 in every call of the code.

**Practice.**  One student and one enrollment: every query and lock is scoped to the
pair.  A start waits for the earlier start of the same question in its own process
(`Enter`), looks for an open attempt (`Find`), and inserts one (`Create`), which the
partial unique index or a serialization failure may refuse; then it looks again
(`Refind`).  Submitting is two rounds of `LoadRow`, `LoadEvents`, `Save`: the first
records the answer, the second grades it; skipping is one.  `LoadRow` and `LoadEvents`
are separate because `findById` includes the events with a second query and no
transaction, so a row can be read before, and its events after, the commit of another
request.  `Save` is one action: it is a serializable transaction that reads nothing but
the row it replaces.  `Fail` ends a request before any of its statements.  The claim a
client sends with a request (student and question) is right; a wrong one is refused
before anything is written.  Clocks of processes agree.

**Training.**  One student and one enrollment.  A request is a start, a next question
or a finish; `ahead` is the promise chain of `serialized`: the operations of the same
process on the same key (the enrollment for a start, the session otherwise) that joined
the chain earlier and have not settled.  Starting looks for an active session, consults
the training systems (`Select`, which may find nothing to train), and creates the
session and its block in one serializable transaction, which looks again; the loser of a
conflict reads the winner (`Refind`).  Asking for a question reads the session, reads its
attempts, and serves an open question, completes the session, or serves a question it has
not asked; serving is `FindAttempt`, `Precheck`, `Allocate` and `Retry`, the statements
of `startAttempt` in a block.  Time against a session's plan is the request's arrival.
The attempts are the table of `AttemptTable`, not `Practice`'s rows: `PracticeKeepsTable`
(section 4) is what lets `Practise` stand for every other handler that opens or closes
an attempt.  A session and its block have one status here, because every transaction
that creates or completes the one does so with the other.  Which question is picked
is left open (any unasked one); the block's sequence number, `endedAt`, the views and
the start lock of a question (an order that the table's index makes unnecessary) are
not modelled.  Abandoning a session is in the domain but no handler calls it.

**Simulation.**  One enrollment: its index admits one simulation in progress.  The
instance begins without a simulation or with one just started.  A request reads the
clock once, reads the row without a lock, loads the content or the answer keys that it
thinks it needs, and decides on the locked row; an expiry is written by whoever finds
it.  Getting a simulation and its result is one operation here, since both settle and
read.  Ownership is checked, and refused, before anything is written.  A metered start
that finds a simulation in progress has its unit released, by the rule of `Metering`.
`Revise` is an edit of the bank from outside the application, once, between any two
statements: nothing in the code edits a published question, but the paper pins versions
and the grading compares them.

**Content.**  A question is what the gates tell apart in it (`Authoring`), so texts are
model values.  Every write is a transaction on the current row; the gates of a request
to validate, review or publish are asked of the content the transaction holds and of
the list of the exam's questions read before it.  `Generation` runs one batch: for each
specification the pipeline of model calls, with its second derivation and the budget
looked at between calls, then the candidate's draft and its rejection or validation,
each a transaction.  Which specifications come back with which question is open.  The
trace sink and the reads of gate reports are left out.  `via` and `seed` are history.

**Server.**  A request's steps are its awaits: the body, the session's lookup, the
enrollment, the meter, the handler.  The limiter is counted before and after the
session is known, and the gate on a student's tutor calls is taken when the handler
begins and given back in its `finally`.  A tutor request races its run with a deadline;
the run goes on after the deadline has answered and its calls are not cancelled, so a
slot of the model is reused only when its run has ended.  What a request was told is
kept only where a unit hangs on it.  One address; counts saturate past their limit.
Personalization fails for a tutor request of kind "help", as in the code, and that
stops the run.  Commerce is taken to be enforced.  CORS and origin, health and
readiness, and unmatched routes change nothing and are left out; the routes of billing
are `Billing`'s.

**Study.**  A student with one of several pasts, who may make one more attempt while
requests run.  `AskWhy` offers an explanation for a wrong answer; `Respond` records the
reply, with the plan made of a confirmed one; a recommendation reads the log, the plans
and the pool one after the other, chooses (repair, then the five systems, then
adaptive practice), and advances the statuses of the plans it found behind.  A finding
of the clock, the load of the attempt and the first lookup are one action (nothing that
changes between them is used); an insert that loses and the lookup that follows are one.
Statuses are advanced in any order and after the choice.  A signed token that is stale
is refused by a guard.  Ratios are exact.  Abstracted: pressure evidence to the concept
it names or none; prerequisites left out; ties of identical plans broken by the attempt.
Unreachable in the code and so absent: a guided hint first (hints are never recorded),
priority "low", abandoned attempts.

**Ingestion.**  One registered source.  A run reads the version once and then follows
its own copy (`reqs[r].state`), while `updateVersionState` writes the row whatever it
holds: that is the control the model keeps.  Ids of chunks and candidates are made of
what they stand for, so two runs that cut and match alike meet in the same rows, and
`Layouts` are the configurations a process may have been deployed with.  `Fault` is a
content that does not pass, a provider or a database that fails inside a stage; `Die` is
an error thrown to the caller, or the end of the process.  A candidate's review is the
compare-and-set that writes it.  `overlap` is history: whether operations on a version
ever overlapped, and which configurations met since it last had none.  The counter of attempts is never
read and is left out; content that is not the version's is refused before any write.
Providers are the deterministic kind, the only one that exists: their proposals are a
function of the chunk.

## 3. Runs

| Run | Instance | States, time | Shows |
|---|---|---|---|
| `Checkout` | 2 requests, 1 student, 1 plan, 2 rows, 3 sessions, 2 prices, 2 events, 2 times | 286,887, 33 s | `NoOrphanPayment`, `ChargedAsRecorded`: interleaved checkouts share a row; every payment finds it, at its price |
| `Webhook` | 1 row, 3 events, 3 times, the echoed reference right, absent or wrong | 1,152,150, 85 s | `PaidInFull`, `NothingUnpaid`, `RefundRevokes`, `ChecksHold`, and `KeepsAgreements` (refinement): time bought and time granted agree under every order and repetition |
| `Metering` | 2 requests, 2 sources, 3 times, a day of 1 and a month of 2 | 30,768, 10 s | `DeliveredCounts`, `KeepsQuota` (refinement), `Answered` (liveness): the quota is kept and the lock handed over |
| `Practice` | 3 requests, 2 processes, 1 question, 2 attempts, 3 answers (one not an option), 2 times | 111,556, 42 s | `RowsCoherent`, `AcknowledgedStands`, `KeepsTable` (refinement), `Answered`: rows written from stale reads stay coherent |
| `GradeOverwritten` | as `Practice` | | counterexample: a second submit rewrites a grade |
| `Training` | 2 requests, 2 processes, 2 timed sessions, 1 system, 1 question, 2 attempts, 2 times | 504,859, 47 s | `OneActive`, `AllocatedWhileActive`, `KeepsTable` (refinement) |
| `TrainingTurns` | 2 requests, 1 process, 1 session of two questions, 2 systems, 2 questions, 2 attempts | 265,860, 83 s | `InTurn`, `Answered`: questions one at a time and none left open; every operation gets its turn |
| `Simulation` | 3 requests, 2 simulations, 1 question in 2 versions, 3 times, one edit | 595,868, 122 s | `DeadlineHolds`, `ResultFaithful`, `KeepsLife` (refinement) |
| `Content` | 2 questions, 2 texts, 1 request, 2 reviews, a batch of 3 specifications with a budget of 2 calls, 4 pieces of other work | 408,405, 46 s | `Judged`, `OneIdentity`, `BatchAccounted`, `KeepsLife` (refinement) |
| `Server` | 2 requests, a student with a session and one to sign up, room for 2 windows, a limits of 1 and 2, 1 retry, 1 regeneration, 2 times | 278,982, 195 s | `EndedStaysEnded`, `GateHeld`, `KeepsAccounts` (refinement), `ChargedIfTold`, `OldestForgotten`, `Answered` |
| `Study` | 2 requests, 5 questions, 2 concepts, 7 pasts, 1 more attempt | 223,504, 118 s | `ToldAsStored`, `StatusEarned`, `RepairEnds`, `NoRepeat`, `KeepsDiagnosis` (refinement) |
| `Ingestion` | 2 requests, 1 content, 2 configurations, 3 chunks, one without a name and one with a name that is no concept | 358,173, 25 s | `Converged`, `ReviewStands`, `KeepsCorpus` (refinement) |

Bounds.  Two requests are enough to interleave every pair of statements, and two
rows and three sessions for each to have its own and one to spare.  Three events
are what it takes to have a payment before, at and after another event, and three
times to order them strictly.  In `Metering` one unit and two requests reach the
limit, and three ticks cross both a day and a month boundary.  In `Practice` three
requests are what a race on one attempt takes: a start and two that close it, or three
starts of which two share a process and its lock.  In `Training` two processes and
two sessions race on the one active session, a session whose time is up is ended by one
request behind another's back, and two attempts on one question race on the table;
`TrainingTurns` has the two systems that let a start find a session in its way, and the
two questions of which a session serves one while the other is left.  In `Simulation`
three times let a clock read before a deadline be used after it, two
simulations let a start follow an end, and three requests let one end behind the backs of
two others.  In `Content` two questions are what becoming the same takes; every call
costs 1, so the budget is reached by the batch between pipelines and not by a pipeline
between its calls, and no text fails the gates that `sound` sums up.  In `Server` the
limiter has room for fewer windows than there are keys, so a window that still counts is
forgotten, and the tick ends the sessions issued before it.  In `Study`
the pasts have a wrong answer not yet explained, two plans of which one is a round short of
its end or past it, or give the systems their evidence; the one more attempt crosses
each of these thresholds.  In `Ingestion`
versions of different contents never meet, so one content is enough; its two cuts share
no chunk, one finds a name that cannot be accepted and the other finds nothing, so that a
version without candidates can be called reviewed.  Model values that are only
compared for equality are symmetric in the safety runs.

Deadlock checking is off in `Metering`, `Practice`, `GradeOverwritten`, `Training`,
`TrainingTurns`, `Simulation`, `Content`, `Server` and `Study`: when the requests have
ended, the clock or the work has reached its bound and nothing else is to come, the model
may stop.

Fairness.  `Answered`, in its four modules, assumes weak fairness of each request
once it has started.  Its statements return or fail, the work is bounded by its own
deadline, and PostgreSQL gives an advisory lock to a waiter once it is released.
In `Practice` the lock is a promise chain, which settles when the operation before does,
and so it is in `Training`, where a request waits for every earlier operation on its key.
In `Server` it is assumed of the request only (the runtime resumes what a request awaits,
and the deadline's timer fires), not of the run of the model behind it, which may hang
for ever: that a tutor request ends is what the deadline is for.
Nothing is assumed about requests arriving, about crashes or about the clock.

## 4. Proofs

Assumptions on the constants: durations and period lengths are positive, limits are
naturals or unlimited, and null is not a value of any other kind (`None`); the histories
and questions of `Study` are finite and well-formed (`HistoryAssumption`,
`DnaAssumption`: the tier of a question is one of the five, its load and time are numbers); the places of chunks are naturals (`IngestionAssumption`); the layout of
a definition's paper is a sequence of questions with their sections (`LayoutAssumption`: the
library's `FlattenSeq`, which makes it, recurses over data); the accounts that `Server`
starts from obey the unique index on emails (`KnownAssumption`), and each of the server's limits
has its rule (`BucketsAssumption`); a model call may cost
something or nothing, so that the set of costs is not empty (`GenerationAssumption`).

* `CommerceProofs` proves two components.  Of `Billing` it proves one inductive
  invariant, `Inv`: the safety properties are not inductive: that no payment is orphaned
  needs, for every statement of every request, who owns the row and the session it holds (a session belongs to the row
  whose id was its idempotency key; a request past `attach` has its reference in its
  row; a reference never leaves a row), and that refunds are final needs that an
  event recorded as applied is reflected in its row.  The same invariant gives the type
  invariant and the one open row per student and plan.  `PeriodInv`, added to it, relates the paid period to the finite set of
  payments recorded, and the lower and upper bounds on it; the refinement of
  `Agreement` follows from the two invariants, one step at a time.
  Of `Metering` it proves `MInv`: a request between check and insert holds the lock,
  and has seen room that nobody else can take; what has been delivered has a row that
  counts.  `QuotaKept` maps the insert to `Take` (the rows counting after it are the
  rows its check counted and its own) and a settlement to `Settle` or a stutter.
* `PracticeProofs` proves `PInv`.  A save writes a whole row computed from stale reads,
  so the invariant is about the copies in flight: a copy belongs to the question of the
  row it will replace, and its status is the one its step gives.  With the regression
  check, the only change a save can make to a row's status is to close it, which is
  what `AcknowledgedStands` and the refinement of `AttemptTable` need.
  `RInv`, added to it, is about the log and the fields that are made of it: the row and its
  log agree, and a copy in flight that has come to disagree with the row's log is of a row
  that has closed otherwise in the meantime, so that the regression check refuses it
  (`RowsStayCoherent`).  Each field is an end of the log or has one event, so
  no induction along the log is needed.
* `TrainingProofs` proves three invariants.  `TInv` (types, one active session, what a
  request in flight knows of its session) gives the safety properties and, step by
  step, the refinement of `AttemptTable`.  `QInv` is about the lines: they are kept in
  order, and two operations on one key of one process are never both past the queue.
  `KInv` is about what a request past the queue has read: from `QInv` nobody else has
  opened an attempt in its session since.  `InTurn` follows for one process
  (`TurnsKept` assumes `OneServer`).  Assumed beyond the above: there are finitely many
  attempts at a time, which a table's are.  That their numbers have a maximum is proved
  from it, by least counterexample, since induction schemas are out of reach.
* `StudyProofs` proves first that the lexicographic order of the rankings is total on
  candidates whose keys differ, and so that among finitely many one comes first whatever
  order they were listed in (again by least counterexample).
  Then it proves `SInv`: what a request holds of a decision, a plan or the log
  stays true, because nothing it read goes back.  That a status is earned needs that the
  stage a log gives a plan only grows with the log (`LifecycleMonotone`: the rounds that
  count are the same whatever came later, and the three of `MaxRounds` are more than the
  two correct ones in a row that end a repair).  `RepairIsOver` needs that the plans of a
  recommendation are made from the log it read, not from the rows; the refinement of
  `Diagnosis` maps each write to a step of the abstract machine.
  `JustAttemptedIsSpared` goes through every kind of selection: what each serves is the
  first of a ranking of questions it was offered, so it is one of these, provided that the
  ranking's keys are numbers that end in the id.  For adaptive practice that takes what a
  need says of the log it was found in: who has a recent need has a recent attempt, who
  has a trend has graded ones (`NeedReads`), and the tiers compared are tiers.
* `SimulationProofs` proves an invariant also called `SInv`.  A request decides on the
  locked row by things it read before the lock: the time, the definition, the answer keys.
  They cannot mislead it because a row only grows: its paper and its deadline are fixed, its
  log is appended to, its end stands, and whether an expiry or a submission will need
  the keys was settled when they were loaded.  So what a copy in flight says of a row is still
  true of the row (`DeadlineKept`), the result written with the end is the one of the
  log, which nothing extends afterwards (`ResultsFaithful`), and each step is a step of
  `ExamLife` (`LifeKept`).
* `ServerProofs` proves `VInv`: what each request knows of its session, its student and its
  run.  Rows of students and sessions stay, a session that has ended stays ended and time
  goes on, so that a request whose session had ended when it came never passes the lookup
  (`SessionsStayEnded`).  A student's slots are as many as the requests that hold one, a
  number that needs the holders to be a finite set, which the invariant carries
  (`SlotsCounted`).  A unit is settled by the end of its request's run, and only the
  deadline's reply comes without one (`UnitsCharged`).  That one email has one account,
  and that a date never moves, makes each step one of `AccountLife` (`AccountsKept`).
  The limiter has an invariant of its own, `WindowsOK`: its windows stand in the order of
  their starts and are never more than `MaxKeys` (`WindowsHold`).  Two lemmas about one `Hit`
  carry `OldestForgotten`: a window that counts and is lost leaves the limiter crowded, full of
  windows that count and are no older; and a crowded limiter stays so under the next hit,
  which is needed because a step may count a request against two limits (`TheOldestGo`).
  What makes room picks windows by their places, and the lemma `PickedInOrder` says that a
  pick by places keeps the order; the place of a window in a pick is a count, not a recursion.
* `IngestionProofs` proves `IInv`: what is cited is stored, and a request that is alone on
  its version has in its copy the state of the row, wherever its predecessors stopped.
  The second is why a lone run on a reviewed version has no stage before it
  (`ReviewIsKept`); the first, with the condition under which chunks make way, is the
  refinement of `Corpus` (`CorpusKept`), under every overlap.  For runs that do overlap
  it proves `CInv`: as long as the configurations met while a version had operations are one,
  either none of these has got as far as the chunks, or all of them found the chunks
  there, or the first that came laid what any other would.  So chunks do not move
  under a run that lists them, what it has yet to save and what is saved are together all
  the claims, and no new candidate can appear after a reviewer saw none undecided
  (`RunsConverge`).
* `GenerationProofs` proves an invariant also called `IInv`.  Many transactions write
  the questions, and each writes one row.  So what is proved of the rows is proved of one
  write (`Writes`): the row is good by itself (its fingerprint is that of its content, it
  was reviewed if its state says so, it was judged if the gates published it), nobody
  else that is alive has its fingerprint, and it may become what it becomes.  Then each
  action is shown to be such a write, whatever list it judged by: the gates that
  count for `Judged` do not look at the list, and where the list misleads the identity
  gate the index refuses (`PublishedIsJudged`, `IdentityIsOne`); the third part is the
  refinement of `ContentLife` (`LifeIsKept`).  The batch needs of the rows that they stay and
  that a rejected one stays as it is, and of the budget that a pipeline begun within it
  overruns it by one call (`BatchIsAccounted`).  That the order of a batch keeps its
  length is a lemma by the pigeonhole theorem (`OrderedSpecs`): the place of a
  specification is a count, not a recursion.

The type invariants of `Billing`, `Metering`, `Practice`, `Training`, `Simulation`, `Ingestion` and
`Generation`, the one open row of a checkout and the owner of the advisory lock are theorems and not
properties of the runs.

Only model-checked: the liveness properties `Answered` of `Metering`, `Practice`, `Training`
and `Server`, which are out of the prover's reach.

## 5. What the checks found

One disagreement is a run of its own:

* Of two submits of one attempt that both loaded it open, the later overwrites the answer
  and the grade of the first, which the student has been told (run `GradeOverwritten`).
  What does hold is that the outcome, submitted or skipped, never changes, and that
  the row stays coherent with its events.

The others were met while modelling, and are described here so that a reader does not
take the properties for more than they say.

* Billing.  A checkout checks for a held plan and opens the row in separate statements
  (`service.ts:130`, `:135`), so a plan that is paid for in between is sold again, although
  `docs/PHASE_9_UNIT_4_REVIEW.md:124` says that it is refused.  A payment for an expired
  or failed subscription is logged as an ordinary outcome (`webhook.ts:31`), although the
  review says that it is flagged.
* Training.  `nextQuestion` excludes the session's earlier questions when it selects a new
  one, but an open question that is submitted between two of its reads
  (`trainingService.ts:150`, `:168`) is started again.  `InTurn` is claimed for one process
  only: with two, a finish can find no question open and complete the session while the
  other allocates one, so the rule of D-075, that completion never drops an open question,
  rests on running one process or routing a session's requests to one.
* Simulation.  `engine.ts:263` calls the server's clock the only arbiter.  It is read
  before the row's lock: an answer whose clock was read in time is taken after a wait that
  ends past the deadline, while a submission that read a time before the deadline is told
  `already_expired` when another request has expired the simulation meanwhile.
* Content.  `lifecycle.ts:75` says that an edit invalidates every earlier result; an edit
  keeps the record of the independent derivation.  `generateBatch` says that every input
  produces exactly one outcome; when the rejection of a blocked candidate throws, because
  somebody has edited or rejected the draft, the batch ends there.  Until that rejection a
  blocked candidate is a draft like any other, which others may validate and publish.
  `lifecycle.ts:145` calls its function the only path to `published`; the older `decide`
  publishes without the gates, which is why `Judged` names the path.
* Tutor.  A preference step that fails is said to set only the presentation
  (`workflows.ts:95`), but `tutor.ts:176` answers only from a run that is `completed`, so
  the student is told nothing when the optional step fails.  A request for help without a
  preference is charged a unit although no model was called.  The deadline frees the gate
  while the run, and the provider's call, go on (`hardening.ts:46`).
* Accounts.  A sign-up that stops between its statements leaves an account without a
  session; an enrollment whose preparation phase fails stays.
* Study.  `attemptEvidence.ts` says that later practice never changes what an old result
  says; a submission whose clock was read early and which commits after an offer was
  composed does.  `readMasteryEvidence` is documented as read-only, yet the composition it
  uses advances plans.  One plan is tried a call, so a plan that matches no question keeps
  the others from being served.  A taxonomy code that is missing makes the offer fail with
  500, where the service's documentation says `unavailable`.  A repair round whose
  question has left the pool is forgotten.  The calculation gym compares 1 - 0.8 with 0.2
  in floating point; the model's ratios are exact.
* Curriculum (not modelled).  The chain of next actions is built on the whole pool, while
  the orchestrator withholds the question just attempted (`orchestrate.ts:303`), so the next
  action may be none of the steps, although `docs/PHASE_7_UNIT_3_REVIEW.md:24` says that
  exactly the orchestrator's pick is flagged.
* Ingestion.  `pipeline.ts` says that nothing already validated is touched.  The state of a
  version is written unconditionally, so a run that overlaps a review can take a reviewed
  version back to an earlier state, and a review that overlaps a failing run can call
  reviewed what has just failed; this is why `ReviewStands` is about operations one after
  another.  Operations that overlap while configurations differ can leave chunks without claims
  under a version called enriched, and it need not be two runs at once: a review that found
  nothing to decide in one cut, and is still under way when runs of the next configuration
  fail and cut anew, calls reviewed what has chunks no claim was saved for.  Hence the
  restriction in `Converged`.  `makeAvailable` says
  that only then accepted candidates may be used; the knowledge graph uses them whatever
  the state of their version.  The rights of a source are looked at again only at the stage
  `accepted`.

## 6. What is not modelled, and what is left

Not modelled:

* Curriculum, preparation phases, revision intelligence, personalization, the concept graph,
  exam packs, exam, examiner and simulation intelligence: pure derivations from rows that
  the modelled components write, with no state and no ordering of their own.  They would be
  operators like those of `Evidence` and `Systems`, checked against a reference definition.
* Retrieval, the knowledge graph and the drafts made of accepted candidates: reads.
* The parsing and chunking of texts, the rules of prompts and groundings, the text rules of
  validators: what they decide is a value of the model, how they decide is text.
* Numbering of the versions of a source, the rights of a source, the numbers of a block's
  attempts: single transactions or pure conditions.
* Workflows of staff in the AI orchestration (no route reaches them), abandoning a session,
  a block or an attempt, hints, retries of an attempt (no caller).
* The web clients (no authority: the modules let every request be repeated and
  interleaved instead), the formats of requests and replies, metrics and logs, the parsing of
  configuration.

Left to do, in order: the read models named above as pure operators over `Study`'s log, with
the property that a recommendation and the curriculum agree.
