----------------------------- MODULE Simulation -----------------------------
(***************************************************************************)
(* Exam simulations of one enrollment: any number of requests (start, get, *)
(* read a question, answer, submit, read the result) over the tables of    *)
(* migration 0016.  Each request reads the clock once, reads the row       *)
(* without a lock, perhaps the catalog, and only then decides on the       *)
(* locked row.  `pc` stands before the request's next statement.           *)
(***************************************************************************)
EXTENDS ExamPaper

CONSTANTS
  Sims,          \* ids of simulations
  Definitions,   \* what the configuration source may supply: [config, selection]
  Entry,         \* the question rows at the start
  Requests,
  MaxEdits,      \* how often one question is edited
  MaxTime

Ended == {"submitted", "expired"}

Positions == 1 .. Max({0} \cup {Len(Layout(d.config, d.selection)) : d \in Definitions})

Places == [section : STRING, question : Questions, version : Versions]

Events == [position : Positions, answer : Answers, at : Nat]

Verdicts ==
  [chosen : Answers \cup {None}, grading : {"unanswered", "graded", "question_content_changed"},
   correct : {"none", "correct", "incorrect"}, changes : Nat, first : Nat \cup {None},
   last : Nat \cup {None}]

Rows ==
  [status : Ended \cup {"in_progress"}, startedAt : Nat, deadline : Nat,
   finalizedAt : Nat \cup {None}, paper : Seq(Places), events : Seq(Events),
   result : Seq(Verdicts) \cup {None}]

\* What a reading of the keys finds of every question there is, and of the content of one.
Readings == [Questions -> AnswerKeys \cup {None}]

Contents == [version : Versions, options : Offers]

ASSUME SimulationAssumption ==
  /\ MaxTime \in Nat /\ MaxEdits \in Nat
  /\ \A d \in Definitions : d.config.duration \in Nat
  /\ Entry \in [Questions -> Entries \cup {None}]

\* What a definition lays out are questions in sections.
ASSUME LayoutAssumption ==
  \A d \in Definitions :
    Layout(d.config, d.selection) \in Seq([section : STRING, question : Questions])

ASSUME NoneAssumption ==
  None \notin Sims \cup Nat \cup Entries \cup Rows \cup Readings \cup AnswerKeys

VARIABLES
  sims,      \* rows of exam_simulations with their questions and events, None when free
  catalog,   \* rows of questions
  replaced,  \* history: what each question was before an edit, and until when
  reqs,      \* requests in flight
  now        \* the server clock

vars == <<sims, catalog, replaced, reqs, now>>

\* A request before its first statement.
Idle ==
  [pc |-> "idle", op |-> "none", sim |-> None, at |-> 0, position |-> 0, answer |-> None,
   draft |-> None, then |-> "lock", keys |-> None, content |-> None, told |-> "nothing"]

\* A new simulation, at the time its request read.
StartSimulation(config, paper, at) ==
  [status |-> "in_progress", startedAt |-> at, deadline |-> at + config.duration,
   finalizedAt |-> None, paper |-> paper, events |-> <<>>, result |-> None]

\* No simulation yet, or one that has just started.
Init ==
  /\ \/ sims = [s \in Sims |-> None]
     \/ \E s \in Sims, d \in Definitions :
          /\ ValidConfig(d.config)
          /\ Assembles(d.config, d.selection, Entry)
          /\ sims = [t \in Sims |->
               IF t = s THEN StartSimulation(d.config, Paper(d.config, d.selection, Entry), 0)
               ELSE None]
  /\ catalog = Entry
  /\ replaced = [q \in Questions |-> {}]
  /\ reqs = [r \in Requests |-> Idle]
  /\ now = 0

Running == {s \in Sims : sims[s] # None /\ sims[s].status = "in_progress"}

\* Mutant of PastDeadline: the deadline itself is in time.
PastInclusive(row, at) == row.status = "in_progress" /\ at > row.deadline

\* The deadline is exclusive.
PastDeadline(row, at) == row.status = "in_progress" /\ at >= row.deadline

-----------------------------------------------------------------------------
(* Requests *)

To(r, pc) == reqs' = [reqs EXCEPT ![r] = [@ EXCEPT !.pc = pc]]

\* Replies that take the simulation to be running.
InTime == {"in_progress", "recorded", "served"}

\* The request q once it has been told the outcome; what it was about is kept for as long
\* as the reply says something of it.
Replied(q, outcome) ==
  IF outcome \in InTime
  THEN [q EXCEPT !.pc = "done", !.told = outcome,
                 !.draft = None, !.then = "lock", !.keys = None, !.content = None]
  ELSE [Idle EXCEPT !.pc = "done", !.told = outcome]

Tell(r, outcome) == reqs' = [reqs EXCEPT ![r] = Replied(@, outcome)]

\* Decided on the row as it was read, before the lock.
KeysNeeded(row, op, at) ==
  row.status = "in_progress" /\ (op = "submit" \/ PastDeadline(row, at))

BeforeLock(row, op, at) == IF KeysNeeded(row, op, at) THEN "keys" ELSE "lock"

\* A start asks for the enrollment's simulation in progress.
AskStart(r) ==
  /\ reqs[r].pc = "idle"
  /\ reqs' = [reqs EXCEPT ![r] = [@ EXCEPT !.pc = "find", !.op = "start", !.at = now]]
  /\ UNCHANGED <<sims, catalog, replaced, now>>

Find(r) ==
  /\ reqs[r].pc = "find"
  /\ \/ /\ Running = {}
        /\ IF reqs[r].op = "start" THEN To(r, "assemble") ELSE Tell(r, "simulation_not_found")
     \/ \E s \in Running :
          reqs' = [reqs EXCEPT ![r] = [@ EXCEPT !.pc = "row", !.sim = s]]
  /\ UNCHANGED <<sims, catalog, replaced, now>>

\* The row found, read by its id: by now it may have ended.
Row(r) ==
  LET row == sims[reqs[r].sim] IN
  /\ reqs[r].pc = "row"
  /\ IF row.status = "in_progress"
     THEN To(r, BeforeLock(row, reqs[r].op, reqs[r].at))
     ELSE IF reqs[r].op = "start" THEN To(r, "assemble") ELSE Tell(r, row.status)
  /\ UNCHANGED <<sims, catalog, replaced, now>>

Assemble(r) ==
  /\ reqs[r].pc = "assemble"
  /\ \/ Tell(r, "no_simulation_configured")
     \/ \E d \in Definitions :
          IF ValidConfig(d.config) /\ Assembles(d.config, d.selection, catalog)
          THEN reqs' = [reqs EXCEPT ![r] = [@ EXCEPT !.pc = "insert", !.sim = None, !.keys = None,
                 !.draft = StartSimulation(d.config, Paper(d.config, d.selection, catalog),
                                           reqs[r].at)]]
          ELSE Tell(r, "invalid")
  /\ UNCHANGED <<sims, catalog, replaced, now>>

\* The partial unique index admits one row in progress.
Insert(r) ==
  /\ reqs[r].pc = "insert"
  /\ \/ /\ Running = {}
        /\ \E s \in Sims :
             /\ sims[s] = None
             /\ sims' = [sims EXCEPT ![s] = reqs[r].draft]
        /\ Tell(r, "created")
     \/ /\ Running # {}
        /\ To(r, "conflict")
        /\ UNCHANGED sims
  /\ UNCHANGED <<catalog, replaced, now>>

\* The insert was refused: is there one in progress still?
Conflict(r) ==
  /\ reqs[r].pc = "conflict"
  /\ IF Running # {}
     THEN reqs' = [reqs EXCEPT ![r] = [@ EXCEPT !.pc = "find", !.op = "recover"]]
     ELSE Tell(r, "error")
  /\ UNCHANGED <<sims, catalog, replaced, now>>

\* A result is read as the view is: what differs is the reply.
Reads == {"get", "question"}

\* Every other operation reads its simulation first, then the clock.  A read of an ended
\* one needs no more.
Ask(r, op, s, position, answer) ==
  LET row == sims[s]
      then == BeforeLock(row, op, now)
      asked == [reqs[r] EXCEPT !.op = op, !.sim = s, !.at = now, !.position = position,
                               !.answer = answer, !.then = then] IN
  /\ reqs[r].pc = "idle"
  /\ row # None
  /\ reqs' = [reqs EXCEPT ![r] =
       IF op \in Reads /\ row.status \in Ended
       THEN Replied(asked, row.status)
       ELSE IF op = "answer" /\ position \in DOMAIN row.paper
       THEN [asked EXCEPT !.pc = "content"]
       ELSE [asked EXCEPT !.pc = then]]
  /\ UNCHANGED <<sims, catalog, replaced, now>>

AskRead(r) ==
  \E op \in Reads, s \in Sims, position \in Positions : Ask(r, op, s, position, None)

AskSubmit(r) == \E s \in Sims : Ask(r, "submit", s, 0, None)

AskAnswer(r) ==
  \E s \in Sims, position \in Positions, answer \in Answers : Ask(r, "answer", s, position, answer)

\* The content of the question at the position, if it is published.
Published(r) ==
  LET entry == catalog[sims[reqs[r].sim].paper[reqs[r].position].question] IN
  IF entry # None /\ entry.published
  THEN [version |-> entry.version, options |-> entry.options] ELSE None

Content(r) ==
  /\ reqs[r].pc = "content"
  /\ reqs' = [reqs EXCEPT ![r] = [@ EXCEPT !.content = Published(r), !.pc = reqs[r].then]]
  /\ UNCHANGED <<sims, catalog, replaced, now>>

\* What is read of the key of a question.
Reading(entry) ==
  IF entry = None THEN None ELSE [version |-> entry.version, correct |-> entry.key]

\* The keys, read outside the transaction that will use them.
Keys(r) ==
  /\ reqs[r].pc = "keys"
  /\ reqs' = [reqs EXCEPT ![r] =
       [@ EXCEPT !.keys = [q \in Questions |-> Reading(catalog[q])], !.pc = "lock"]]
  /\ UNCHANGED <<sims, catalog, replaced, now>>

-----------------------------------------------------------------------------
(* The transaction on the locked row *)

\* What a request that settles its simulation does once it knows the status.
Settled(r, status) ==
  IF reqs[r].op = "start" /\ status \in Ended THEN To(r, "assemble")
  ELSE IF reqs[r].op = "question" /\ status = "in_progress"
  THEN IF reqs[r].position \in DOMAIN sims[reqs[r].sim].paper THEN To(r, "serve")
       ELSE Tell(r, "invalid_position")
  ELSE Tell(r, status)

Finalized(row, status, at, keys) ==
  [row EXCEPT !.status = status, !.finalizedAt = at,
              !.result = Result(row.paper, row.events, keys)]

\* A request that finalizes without the keys fails, and its transaction with it.
Finalize(r, status, at) ==
  IF reqs[r].keys = None THEN UNCHANGED sims
  ELSE sims' = [sims EXCEPT ![reqs[r].sim] = Finalized(@, status, at, reqs[r].keys)]

\* The deadline has passed: whatever was asked, the simulation ends at its deadline.
Expire(r) ==
  LET row == sims[reqs[r].sim] IN
  /\ reqs[r].pc = "lock"
  /\ PastDeadline(row, reqs[r].at)
  /\ Finalize(r, "expired", row.deadline)
  /\ IF reqs[r].keys = None THEN Tell(r, "keys_not_preloaded")
     ELSE IF reqs[r].op = "answer" THEN Tell(r, "rejected_expired")
     ELSE IF reqs[r].op = "submit" THEN Tell(r, "expired_before_submit")
     ELSE Settled(r, "expired")
  /\ UNCHANGED <<catalog, replaced, now>>

Open(r) ==
  LET row == sims[reqs[r].sim] IN
  /\ reqs[r].pc = "lock"
  /\ row.status = "in_progress"
  /\ ~PastDeadline(row, reqs[r].at)

Submit(r) ==
  /\ Open(r)
  /\ reqs[r].op = "submit"
  /\ Finalize(r, "submitted", reqs[r].at)
  /\ Tell(r, IF reqs[r].keys = None THEN "keys_not_preloaded" ELSE "submitted")
  /\ UNCHANGED <<catalog, replaced, now>>

\* The content read is of the version that the position has on the paper.
Unchanged(r, content) ==
  content # None /\ content.version = sims[reqs[r].sim].paper[reqs[r].position].version

\* The position exists, the answer is one of its options, and the content has not changed.
Acceptable(r) ==
  /\ reqs[r].position \in DOMAIN sims[reqs[r].sim].paper
  /\ Unchanged(r, reqs[r].content)
  /\ reqs[r].answer \in reqs[r].content.options

\* What is logged of an answer, with the time its request read.
Event(q) == [position |-> q.position, answer |-> q.answer, at |-> q.at]

Logging(row, event) == [row EXCEPT !.events = Append(@, event)]

\* Mutant of Record: whether the simulation runs is not asked again.
RecordUnchecked(r) ==
  /\ reqs[r].pc = "lock"
  /\ reqs[r].op = "answer"
  /\ ~PastDeadline(sims[reqs[r].sim], reqs[r].at)
  /\ Acceptable(r)
  /\ sims' = [sims EXCEPT ![reqs[r].sim] = Logging(@, Event(reqs[r]))]
  /\ Tell(r, "recorded")
  /\ UNCHANGED <<catalog, replaced, now>>

Record(r) ==
  /\ Open(r)
  /\ reqs[r].op = "answer"
  /\ Acceptable(r)
  /\ sims' = [sims EXCEPT ![reqs[r].sim] = Logging(@, Event(reqs[r]))]
  /\ Tell(r, "recorded")
  /\ UNCHANGED <<catalog, replaced, now>>

Refuse(r) ==
  /\ Open(r)
  /\ reqs[r].op = "answer"
  /\ ~Acceptable(r)
  /\ Tell(r, "refused")
  /\ UNCHANGED <<sims, catalog, replaced, now>>

\* Another request has ended it: an answer or a submission changes nothing.
TooLate(r) ==
  /\ reqs[r].pc = "lock"
  /\ reqs[r].op \in {"answer", "submit"}
  /\ sims[reqs[r].sim].status \in Ended
  /\ Tell(r, sims[reqs[r].sim].status)
  /\ UNCHANGED <<sims, catalog, replaced, now>>

\* Nothing to settle.
Settle(r) ==
  /\ reqs[r].pc = "lock"
  /\ reqs[r].op \notin {"answer", "submit"}
  /\ ~PastDeadline(sims[reqs[r].sim], reqs[r].at)
  /\ Settled(r, sims[reqs[r].sim].status)
  /\ UNCHANGED <<sims, catalog, replaced, now>>

Serve(r) ==
  /\ reqs[r].pc = "serve"
  /\ Tell(r, IF Unchanged(r, Published(r)) THEN "served" ELSE "question_content_changed")
  /\ UNCHANGED <<sims, catalog, replaced, now>>

\* An error at the database, or the end of the process; a transaction is rolled back.
Fail(r) ==
  /\ reqs[r].pc \notin {"idle", "done"}
  /\ Tell(r, "error")
  /\ UNCHANGED <<sims, catalog, replaced, now>>

\* What an edit can make of a question: another version, or another key at the version it
\* had; other options that normalize to the same; or a question withdrawn.
Edits(entry) ==
  {[entry EXCEPT !.version = v] : v \in Versions}
    \cup {[entry EXCEPT !.key = k] : k \in Answers}
    \cup {[entry EXCEPT !.options = o] : o \in Offers}
    \cup {[entry EXCEPT !.published = FALSE]}

\* A question is edited or withdrawn behind the application's back.
Revise(q) ==
  /\ catalog[q] # None
  /\ Cardinality(replaced[q]) < MaxEdits
  /\ \E entry \in Edits(catalog[q]) \ {catalog[q]} : catalog' = [catalog EXCEPT ![q] = entry]
  /\ replaced' = [replaced EXCEPT ![q] = @ \cup {[entry |-> catalog[q], until |-> now]}]
  /\ UNCHANGED <<sims, reqs, now>>

Tick ==
  /\ now < MaxTime
  /\ now' = now + 1
  /\ UNCHANGED <<sims, catalog, replaced, reqs>>

Work(r) ==
  \/ Find(r) \/ Row(r) \/ Assemble(r) \/ Insert(r) \/ Conflict(r)
  \/ Content(r) \/ Keys(r)
  \/ Expire(r) \/ Submit(r) \/ Record(r) \/ Refuse(r) \/ TooLate(r) \/ Settle(r) \/ Serve(r)

Next ==
  \/ \E r \in Requests :
       \/ AskStart(r) \/ AskRead(r) \/ AskSubmit(r) \/ AskAnswer(r)
       \/ Work(r) \/ Fail(r)
  \/ \E q \in Questions : Revise(q)
  \/ Tick

Spec == Init /\ [][Next]_vars

-----------------------------------------------------------------------------
(* Properties *)

Steps ==
  {"idle", "find", "row", "assemble", "insert", "conflict", "content", "keys", "lock", "serve",
   "done"}

\* Rows, questions, requests and the clock have their types.
TypeOK ==
  /\ \A s \in Sims : sims[s] # None => sims[s] \in Rows
  /\ catalog \in [Questions -> Entries \cup {None}]
  /\ replaced \in [Questions -> SUBSET [entry : Entries, until : Nat]]
  /\ \A r \in Requests :
       /\ reqs[r].pc \in Steps
       /\ reqs[r].pc \in {"row", "content", "keys", "lock", "serve"} =>
            reqs[r].sim \in Sims /\ sims[reqs[r].sim] # None
       /\ reqs[r].keys # None => reqs[r].keys \in Readings
  /\ now \in 0 .. MaxTime

\* The deadline holds although every request decides with a time it read before it waited
\* for the row: no answer is dated outside the sitting, a simulation ends at its deadline or
\* by a submission before it, and none is acknowledged as open or submitted to a
\* request that came at the deadline or later.
DeadlineHolds ==
  /\ \A s \in Sims : sims[s] # None =>
       /\ \A i \in DOMAIN sims[s].events :
            sims[s].startedAt <= sims[s].events[i].at /\ sims[s].events[i].at < sims[s].deadline
       /\ sims[s].status = "in_progress" <=> sims[s].finalizedAt = None
       /\ sims[s].status = "expired" => sims[s].finalizedAt = sims[s].deadline
       /\ sims[s].status = "submitted" =>
            sims[s].startedAt <= sims[s].finalizedAt /\ sims[s].finalizedAt < sims[s].deadline
  /\ \A r \in Requests :
       reqs[r].sim # None /\ reqs[r].told \in InTime => reqs[r].at < sims[reqs[r].sim].deadline

\* What question q has been since the time t.
BeenSince(q, t) ==
  {catalog[q]} \cup {past.entry : past \in {p \in replaced[q] : p.until >= t}}

\* The outcome has the grade that the entry gives it.
GradedBy(outcome, place, entry) ==
  IF entry # None /\ entry.version = place.version
  THEN outcome.correct = IF outcome.chosen = entry.key THEN "correct" ELSE "incorrect"
  ELSE outcome.correct = "none" /\ outcome.grading = "question_content_changed"

\* An outcome shows the last answer of its position in the log, and the grade that one of
\* the entries gives it.
Shows(outcome, place, log, p, entries) ==
  /\ outcome.chosen = None <=> \A i \in DOMAIN log : log[i].position # p
  /\ outcome.chosen # None =>
       /\ \E i \in At(log, p) :
            /\ log[i].answer = outcome.chosen
            /\ \A j \in At(log, p) : j <= i
       /\ \E entry \in entries : GradedBy(outcome, place, entry)

\* The stored result is that of the answers: every position shows the answer last
\* acknowledged, graded by a key that its question had at the version on the paper, or not
\* at all if it had another version.  The key may be edited at the same version, and the
\* result is then that of the key as it was when the sitting ended or later, never that of
\* a key replaced before.  Every answer acknowledged is among the events; and although the
\* need for keys is judged on a stale row, before the lock, no request is ever found
\* without the keys it needs.
ResultFaithful ==
  /\ \A r \in Requests : reqs[r].told # "keys_not_preloaded"
  /\ \A s \in Sims : sims[s] # None /\ sims[s].status \in Ended =>
       /\ DOMAIN sims[s].result = DOMAIN sims[s].paper
       /\ \A p \in DOMAIN sims[s].paper :
            Shows(sims[s].result[p], sims[s].paper[p], sims[s].events, p,
                  BeenSince(sims[s].paper[p].question, sims[s].finalizedAt))
  /\ \A r \in Requests : reqs[r].told = "recorded" =>
       \E i \in DOMAIN sims[reqs[r].sim].events :
         sims[reqs[r].sim].events[i] = Event(reqs[r])

\* The answers of a simulation, as the student sees them.
Life(s) ==
  IF sims[s] = None THEN None
  ELSE [status |-> sims[s].status,
        answers |-> [p \in Positions |-> Current(sims[s].events, p)]]

lives == [s \in Sims |-> Life(s)]

L == INSTANCE ExamLife WITH life <- lives

ASSUME LifeAssumption == None \notin L!Lives

\* One simulation at a time, answers only while it runs, and an end that stands.
KeepsLife == L!Spec

=============================================================================
