------------------------------ MODULE Practice ------------------------------
(***************************************************************************)
(* Practice attempts of one student and enrollment: the API handlers that  *)
(* start, submit and skip an attempt, over the practice loop service and   *)
(* the attempts table.                                                     *)
(*                                                                         *)
(* Several server processes serve requests concurrently.  A handler loads  *)
(* an attempt outside any transaction, its row and then its events, and    *)
(* computes the next one, which it saves in a serializable transaction,    *)
(* one action here; submit does this twice.  Starting is serialized per question, but only inside one   *)
(* process.  A request's pc stands before its next statement.              *)
(***************************************************************************)
EXTENDS Attempt

CONSTANTS Attempts, Requests, Servers, MaxTime

VARIABLES
  now,        \* the clock
  attempts,   \* tables attempts and attempt_events
  locks,      \* startLocks: per process and question, the start that runs
  reqs        \* the requests being served

vars == <<now, attempts, locks, reqs>>

ASSUME NoneAssumption == None \notin Requests \cup Attempts \cup AttemptStates

Idle ==
  [pc |-> "idle", step |-> "none", server |-> None, question |-> None, attempt |-> None,
   answer |-> None, at |-> 0, copy |-> None]

Starting == {"queued", "find", "create", "refind"}

InFlight == Starting \cup {"load", "events", "save", "reread"}

Ended == {"done", "failed"}

RequestStates ==
  [pc : {"idle"} \cup InFlight \cup Ended, step : {"none", "start", "answer", "submit", "skip"},
   server : Servers \cup {None}, question : Questions \cup {None},
   attempt : Attempts \cup {None}, answer : Answers \cup {None}, at : Nat,
   copy : AttemptStates \cup {None}]

TypeOK ==
  /\ now \in Nat
  /\ attempts \in [Attempts -> AttemptStates \cup {None}]
  /\ locks \in [Servers \X Questions -> Requests \cup {None}]
  /\ reqs \in [Requests -> RequestStates]

Init ==
  /\ now = 0
  /\ attempts = [a \in Attempts |-> None]
  /\ locks = [k \in Servers \X Questions |-> None]
  /\ reqs = [r \in Requests |-> Idle]

\* The open attempts on question q (findInProgressByStudentQuestion).
OpenOn(q) ==
  {a \in Attempts : /\ attempts[a] # None
                    /\ attempts[a].status = "in_progress"
                    /\ attempts[a].question = q}

Key(r) == <<reqs[r].server, reqs[r].question>>

Unlocked(r) == [k \in DOMAIN locks |-> IF locks[k] = r THEN None ELSE locks[k]]

\* Request r ends; of what it held, only what it answers with remains.
End(r, pc, attempt) ==
  reqs' = [reqs EXCEPT ![r] = [Idle EXCEPT !.pc = pc, !.step = reqs[r].step, !.attempt = attempt]]

-----------------------------------------------------------------------------
(* Starting an attempt.                                                    *)

AskStart(r, s, q) ==
  /\ reqs[r].pc = "idle"
  /\ reqs' = [reqs EXCEPT ![r] =
       [@ EXCEPT !.pc = "queued", !.step = "start", !.server = s, !.question = q, !.at = now]]
  /\ UNCHANGED <<now, attempts, locks>>

\* withStartLock: earlier starts of the process on the same question have settled.
Enter(r) ==
  /\ reqs[r].pc = "queued"
  /\ locks[Key(r)] = None
  /\ locks' = [locks EXCEPT ![Key(r)] = r]
  /\ reqs' = [reqs EXCEPT ![r].pc = "find"]
  /\ UNCHANGED <<now, attempts>>

\* findResumableAttempt: an open attempt is resumed.
Find(r) ==
  /\ reqs[r].pc = "find"
  /\ \/ /\ OpenOn(reqs[r].question) = {}
        /\ reqs' = [reqs EXCEPT ![r].pc = "create"]
        /\ UNCHANGED locks
     \/ \E a \in OpenOn(reqs[r].question) : End(r, "done", a) /\ locks' = Unlocked(r)
  /\ UNCHANGED <<now, attempts>>

\* Mutant of Create: nothing but the process's own lock keeps a second attempt out.
CreateAnyway(r) ==
  /\ reqs[r].pc = "create"
  /\ \E a \in Attempts :
       /\ attempts[a] = None
       /\ attempts' = [attempts EXCEPT ![a] = Started(reqs[r].question, reqs[r].at)]
       /\ End(r, "done", a)
  /\ locks' = Unlocked(r)
  /\ UNCHANGED now

\* The insert, under a fresh id, commits only if the unique index finds no open
\* attempt on the question; a conflict or a serialization failure leads to a re-read.
Create(r) ==
  /\ reqs[r].pc = "create"
  /\ \/ /\ OpenOn(reqs[r].question) = {}
        /\ \E a \in Attempts :
             /\ attempts[a] = None
             /\ attempts' = [attempts EXCEPT ![a] = Started(reqs[r].question, reqs[r].at)]
             /\ End(r, "done", a)
        /\ locks' = Unlocked(r)
     \/ /\ reqs' = [reqs EXCEPT ![r].pc = "refind"]
        /\ UNCHANGED <<attempts, locks>>
  /\ UNCHANGED now

\* The attempt of the process that won, if it is still open, is resumed.
Refind(r) ==
  /\ reqs[r].pc = "refind"
  /\ \/ OpenOn(reqs[r].question) = {} /\ End(r, "failed", None)
     \/ \E a \in OpenOn(reqs[r].question) : End(r, "done", a)
  /\ locks' = Unlocked(r)
  /\ UNCHANGED <<now, attempts>>

-----------------------------------------------------------------------------
(* Submitting and skipping.                                                *)

\* The client knows an attempt from the answer to a start.
Known == {reqs[r].attempt : r \in {x \in Requests : reqs[x].step = "start" /\ reqs[x].pc = "done"}}

AskSubmit(r, a, answer) ==
  /\ reqs[r].pc = "idle"
  /\ a \in Known
  /\ reqs' = [reqs EXCEPT ![r] =
       [@ EXCEPT !.pc = "load", !.step = "answer", !.attempt = a, !.answer = answer, !.at = now]]
  /\ UNCHANGED <<now, attempts, locks>>

AskSkip(r, a) ==
  /\ reqs[r].pc = "idle"
  /\ a \in Known
  /\ reqs' = [reqs EXCEPT ![r] =
       [@ EXCEPT !.pc = "load", !.step = "skip", !.attempt = a, !.at = now]]
  /\ UNCHANGED <<now, attempts, locks>>

\* The lifecycle function of the step accepts attempt t.
Allowed(q, t) ==
  IF q.step = "submit" THEN Submittable(t, q.at) ELSE Takes(t, q.at)

Transformed(q, t) ==
  CASE q.step = "answer" -> AnswerSelected(t, q.answer, q.at)
    [] q.step = "submit" -> Submitted(t, q.at)
    [] q.step = "skip" -> Skipped(t, q.at)

\* findById is a query for the row and another for its events: neither locks anything.
LoadRow(r) ==
  /\ reqs[r].pc = "load"
  /\ reqs' = [reqs EXCEPT ![r] =
       [@ EXCEPT !.pc = "events", !.copy = [attempts[reqs[r].attempt] EXCEPT !.events = <<>>]]]
  /\ UNCHANGED <<now, attempts, locks>>

\* The attempt as request r has read it, and its next state.
LoadEvents(r) ==
  LET q == reqs[r]  t == [q.copy EXCEPT !.events = attempts[q.attempt].events] IN
  /\ q.pc = "events"
  /\ \/ /\ Allowed(q, t)
        /\ reqs' = [reqs EXCEPT ![r] = [@ EXCEPT !.pc = "save", !.copy = Transformed(q, t)]]
     \/ ~Allowed(q, t) /\ End(r, "failed", None)
  /\ UNCHANGED <<now, attempts, locks>>

\* Mutant of Regresses: the status of the row is not looked at.
NeverRegresses(existing, incoming) == FALSE

\* assertAttemptNotRegressingFromFinalized: the same terminal status may be saved again.
Regresses(existing, incoming) ==
  existing.status \in Final /\ existing.status # incoming.status

\* The transaction replaces the row and all its events by the copy.
Save(r) ==
  LET q == reqs[r] IN
  /\ q.pc = "save"
  /\ \/ /\ ~Regresses(attempts[q.attempt], q.copy)
        /\ attempts' = [attempts EXCEPT ![q.attempt] = q.copy]
        /\ reqs' = [reqs EXCEPT ![r] =
             IF q.step = "answer" THEN [@ EXCEPT !.pc = "load", !.step = "submit", !.copy = None]
             ELSE [@ EXCEPT !.pc = "reread", !.copy = None]]
     \/ /\ Regresses(attempts[q.attempt], q.copy)
        /\ End(r, "failed", None)
        /\ UNCHANGED attempts
  /\ UNCHANGED <<now, locks>>

\* save() reads the row back before it answers, so the answer may come late.
Reread(r) ==
  /\ reqs[r].pc = "reread"
  /\ End(r, "done", reqs[r].attempt)
  /\ UNCHANGED <<now, attempts, locks>>

-----------------------------------------------------------------------------
\* Mutant of Fail: the lock is not released when the operation throws.
FailHoldingLock(r) ==
  /\ reqs[r].pc \in InFlight
  /\ End(r, "failed", None)
  /\ UNCHANGED <<now, attempts, locks>>

\* A statement fails, a transaction cannot be serialized, or the process stops: what
\* has been committed stays.  A start lets the next one of its process in.
Fail(r) ==
  /\ reqs[r].pc \in InFlight
  /\ End(r, "failed", None)
  /\ locks' = Unlocked(r)
  /\ UNCHANGED <<now, attempts>>

Tick ==
  /\ now < MaxTime
  /\ now' = now + 1
  /\ UNCHANGED <<attempts, locks, reqs>>

Ask(r) ==
  \/ \E s \in Servers, q \in Questions : AskStart(r, s, q)
  \/ \E a \in Attempts : AskSkip(r, a) \/ \E answer \in Answers : AskSubmit(r, a, answer)

Serve(r) ==
  \/ Enter(r) \/ Find(r) \/ Create(r) \/ Refind(r)
  \/ LoadRow(r) \/ LoadEvents(r) \/ Save(r) \/ Reread(r)

Next ==
  \/ \E r \in Requests : Ask(r) \/ Serve(r) \/ Fail(r)
  \/ Tick

Spec == Init /\ [][Next]_vars

\* A request being served goes on: its statements return or fail, and the promise it
\* waits for settles.  Nothing says that a request arrives.
FairSpec == Spec /\ \A r \in Requests : WF_vars(Serve(r))

-----------------------------------------------------------------------------
(* Properties.                                                             *)

\* What each attempt is to the table's promise: attempts outside practice blocks.
Entry(a) ==
  IF attempts[a] = None THEN None
  ELSE [question |-> attempts[a].question, status |-> attempts[a].status, block |-> None,
        place |-> 0]

T == INSTANCE AttemptTable WITH Blocks <- {}, table <- [a \in Attempts |-> Entry(a)]

ASSUME TableAssumption == None \notin T!Rows

\* However requests of several processes interleave, and whichever fail, every attempt
\* opens once, with no other open on its question, and closes at most once.
KeepsTable == T!Spec

\* Every row, with its events, is coherent, although handlers write whole rows computed
\* from reads that may be stale.
RowsCoherent == \A a \in Attempts : attempts[a] # None => Coherent(attempts[a])

\* What the student was told stands: an attempt acknowledged as submitted is never
\* skipped by a late request, nor the other way round.
AcknowledgedStands ==
  \A r \in Requests :
    reqs[r].pc = "done" =>
      /\ attempts[reqs[r].attempt] # None
      /\ reqs[r].step = "submit" => attempts[reqs[r].attempt].status = "submitted"
      /\ reqs[r].step = "skip" => attempts[reqs[r].attempt].status = "skipped"

\* No start waits for ever, although the starts before it may fail.
Answered == \A r \in Requests : reqs[r].pc \in InFlight ~> reqs[r].pc \in Ended

\* The claim made for the save: of two concurrent submits of one attempt, the later does
\* not write its answer and grade over those the first one finalized.
GradeNotOverwritten ==
  [][\A a \in Attempts :
       attempts[a] # None /\ attempts[a].status \in Final =>
         /\ attempts'[a].chosen = attempts[a].chosen
         /\ attempts'[a].isCorrect = attempts[a].isCorrect]_attempts

=============================================================================
