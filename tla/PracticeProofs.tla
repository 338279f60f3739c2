--------------------------- MODULE PracticeProofs ---------------------------
(***************************************************************************)
(* For any number of attempts, questions, requests and processes: the      *)
(* practice handlers keep the promise of the attempts table, and what a    *)
(* student was told stands.                                                *)
(*                                                                         *)
(* A handler writes a whole row computed from stale reads, so the argument *)
(* is about the copies in flight: a copy belongs to the question of its    *)
(* row, and once computed has the status its step gives, so the only thing *)
(* the save can change about the row's status is to close it.              *)
(***************************************************************************)
EXTENDS Practice, WellFoundedInduction, TLAPS

\* The status an attempt has after the step.
StatusAfter(step) ==
  CASE step = "answer" -> "in_progress"
    [] step = "submit" -> "submitted"
    [] step = "skip" -> "skipped"

Exists(a) == a \in Attempts /\ attempts[a] # None

\* What holds of a request with record q, by where it stands, when the table is rows.
SoundIn(rows, q) ==
  /\ q.pc \in Starting => q.question \in Questions /\ q.server \in Servers /\ q.step = "start"
  /\ q.pc \in {"load", "events", "save", "reread", "done"} =>
       q.attempt \in Attempts /\ rows[q.attempt] # None
  /\ q.pc \in {"load", "events", "save"} => q.step \in {"answer", "submit", "skip"}
  /\ q.pc \in {"events", "save"} =>
       /\ q.copy \in AttemptStates
       /\ q.copy.question = rows[q.attempt].question
  /\ q.pc = "save" => q.copy.status = StatusAfter(q.step)
  /\ q.pc = "reread" =>
       /\ q.step \in {"submit", "skip"}
       /\ rows[q.attempt].status = StatusAfter(q.step)
  /\ q.pc = "done" =>
       /\ q.step \in {"start", "submit", "skip"}
       /\ q.step # "start" => rows[q.attempt].status = StatusAfter(q.step)

ReqOK(q) == SoundIn(attempts, q)

OneOpen ==
  \A a, b \in Attempts :
    /\ Exists(a) /\ Exists(b)
    /\ attempts[a].status = "in_progress" /\ attempts[b].status = "in_progress"
    /\ attempts[a].question = attempts[b].question
    => a = b

PInv == TypeOK /\ OneOpen /\ \A r \in Requests : ReqOK(reqs[r])

-----------------------------------------------------------------------------
LEMMA StartedState ==
  ASSUME NEW q \in Questions, NEW at \in Nat
  PROVE  Started(q, at) \in AttemptStates
BY DEF Started, AttemptStates, Verdicts

\* The lifecycle functions give an attempt of the same question with the step's status.
LEMMA TransformedState ==
  ASSUME NEW q \in RequestStates, NEW t \in AttemptStates,
         q.step \in {"answer", "submit", "skip"}, Allowed(q, t)
  PROVE  /\ Transformed(q, t) \in AttemptStates
         /\ Transformed(q, t).question = t.question
         /\ Transformed(q, t).status = StatusAfter(q.step)
<1>0. /\ q.at \in Nat
      /\ q.answer \in Answers \cup {None}
      /\ t.events \in Seq(Events)
      /\ t.question \in Questions
  BY DEF RequestStates, AttemptStates
<1>1. \A e \in Events :
        /\ Recorded(t, e) \in AttemptStates
        /\ Recorded(t, e).question = t.question
        /\ Recorded(t, e).status = t.status
  <2> TAKE e \in Events
  <2>1. Append(t.events, e) \in Seq(Events)
    BY <1>0
  <2>2. Recorded(t, e) = [t EXCEPT !.events = Append(t.events, e)]
    BY DEF Recorded
  <2> QED BY <2>1, <2>2 DEF AttemptStates
<1>2. \A u \in AttemptStates, status \in Final, chosen \in Answers \cup {None}, c \in Verdicts :
        /\ Finalized(u, status, q.at, chosen, c) \in AttemptStates
        /\ Finalized(u, status, q.at, chosen, c).question = u.question
        /\ Finalized(u, status, q.at, chosen, c).status = status
  <2> TAKE u \in AttemptStates, status \in Final, chosen \in Answers \cup {None}, c \in Verdicts
  <2> QED BY <1>0 DEF Finalized, AttemptStates
<1>3. CASE q.step = "answer"
  <2>1. t.status = "in_progress"
    BY <1>3 DEF Allowed, Takes
  <2>2. [type |-> "answer_selected", at |-> q.at, answer |-> q.answer] \in Events
    BY <1>0 DEF Events
  <2>3. Transformed(q, t) = AnswerSelected(t, q.answer, q.at)
    BY <1>3 DEF Transformed
  <2>4. StatusAfter(q.step) = "in_progress"
    BY <1>3 DEF StatusAfter
  <2> QED BY <1>1, <2>1, <2>2, <2>3, <2>4 DEF AnswerSelected
<1>4. CASE q.step = "submit"
  <2> DEFINE answer == FinalAnswer(t)
             e == [type |-> "answer_submitted", at |-> q.at, answer |-> answer]
             c == IF answer = Correct[t.question] THEN "correct" ELSE "incorrect"
  <2>1. answer \in Answers
    BY <1>0, <1>4, QuestionsAssumption DEF Allowed, Submittable
  <2>2. e \in Events
    BY <1>0, <2>1 DEF Events
  <2>3. Transformed(q, t) = Finalized(Recorded(t, e), "submitted", q.at, answer, c)
    BY <1>4 DEF Transformed, Submitted
  <2>4. StatusAfter(q.step) = "submitted"
    BY <1>4 DEF StatusAfter
  <2>5. c \in Verdicts
    BY DEF Verdicts
  <2> DEFINE u == Recorded(t, e)
  <2>6. u \in AttemptStates /\ u.question = t.question
    BY <1>1, <2>2
  <2>7. "submitted" \in Final /\ answer \in Answers \cup {None}
    BY <2>1 DEF Final
  <2> HIDE DEF answer, e, c, u
  <2>8. Transformed(q, t) = Finalized(u, "submitted", q.at, answer, c)
    BY <2>3 DEF u
  <2> QED BY <1>2, <2>4, <2>5, <2>6, <2>7, <2>8
<1>5. CASE q.step = "skip"
  <2> DEFINE e == [type |-> "question_skipped", at |-> q.at, answer |-> None]
  <2>1. e \in Events
    BY <1>0 DEF Events
  <2>2. Transformed(q, t) = Finalized(Recorded(t, e), "skipped", q.at, None, "none")
    BY <1>5 DEF Transformed, Skipped
  <2>3. StatusAfter(q.step) = "skipped"
    BY <1>5 DEF StatusAfter
  <2> DEFINE u == Recorded(t, e)
  <2>4. u \in AttemptStates /\ u.question = t.question
    BY <1>1, <2>1
  <2>5. "skipped" \in Final /\ None \in Answers \cup {None} /\ "none" \in Verdicts
    BY DEF Final, Verdicts
  <2> HIDE DEF e, u
  <2>6. Transformed(q, t) = Finalized(u, "skipped", q.at, None, "none")
    BY <2>2 DEF u
  <2> QED BY <1>2, <2>3, <2>4, <2>5, <2>6
<1> QED BY <1>3, <1>4, <1>5

\* An attempt whose events are replaced is an attempt of the same question.
LEMMA EventsReplaced ==
  ASSUME NEW t \in AttemptStates, NEW events \in Seq(Events)
  PROVE  /\ [t EXCEPT !.events = events] \in AttemptStates
         /\ [t EXCEPT !.events = events].question = t.question
BY DEF AttemptStates

-----------------------------------------------------------------------------
LEMMA InitPInv ==
  ASSUME Init
  PROVE  PInv
<1>1. TypeOK
  BY DEF Init, TypeOK, Idle, RequestStates
<1>2. OneOpen
  BY DEF Init, OneOpen, Exists
<1>3. \A r \in Requests : ReqOK(reqs[r])
  BY DEF Init, Idle, ReqOK, SoundIn, Starting
<1> QED BY <1>1, <1>2, <1>3 DEF PInv

\* A step that moves one request, leaves the attempts alone and at most hands a lock
\* over keeps the invariant when the request's new record is sound.
LEMMA MovePInv ==
  ASSUME PInv, NEW r \in Requests, NEW q \in RequestStates, ReqOK(q),
         reqs' = [reqs EXCEPT ![r] = q], UNCHANGED <<now, attempts>>,
         locks' \in [Servers \X Questions -> Requests \cup {None}]
  PROVE  PInv'
<1>1. TypeOK'
  BY DEF PInv, TypeOK
<1>2. OneOpen'
  BY DEF PInv, OneOpen, Exists
<1>3. ASSUME NEW p \in Requests
      PROVE  ReqOK(reqs[p])'
  <2>1. ReqOK(reqs'[p])
    BY DEF PInv, TypeOK
  <2> QED BY <2>1 DEF ReqOK, SoundIn, Exists
<1> QED BY <1>1, <1>2, <1>3 DEF PInv

LEMMA UnlockedType ==
  ASSUME TypeOK, NEW r \in Requests
  PROVE  Unlocked(r) \in [Servers \X Questions -> Requests \cup {None}]
BY DEF TypeOK, Unlocked

\* The record a request ends with.
EndRecord(r, pc, attempt) == [Idle EXCEPT !.pc = pc, !.step = reqs[r].step, !.attempt = attempt]

LEMMA EndFacts ==
  ASSUME TypeOK, NEW r \in Requests, NEW pc \in Ended, NEW a \in Attempts \cup {None}
  PROVE  LET q == EndRecord(r, pc, a) IN
         /\ q \in RequestStates /\ q.pc = pc /\ q.attempt = a /\ q.step = reqs[r].step
         /\ End(r, pc, a) => reqs' = [reqs EXCEPT ![r] = q]
<1>1. reqs[r] \in RequestStates
  BY DEF TypeOK
<1> QED BY <1>1 DEF EndRecord, End, Idle, RequestStates, TypeOK

\* A failed request keeps the invariant, whatever becomes of the lock.
LEMMA FailPInv ==
  ASSUME PInv, NEW r \in Requests, NEW a \in Attempts \cup {None}, End(r, "failed", a),
         UNCHANGED <<now, attempts>>,
         locks' \in [Servers \X Questions -> Requests \cup {None}]
  PROVE  PInv'
<1> DEFINE q == EndRecord(r, "failed", a)
<1>1. q \in RequestStates /\ q.pc = "failed" /\ reqs' = [reqs EXCEPT ![r] = q]
  BY EndFacts DEF PInv, Ended
<1> HIDE DEF q
<1>2. ReqOK(q)
  BY <1>1 DEF ReqOK, SoundIn, Starting
<1> QED BY <1>1, <1>2, MovePInv

\* A start that ends with an attempt that exists keeps the invariant.
LEMMA ResumePInv ==
  ASSUME PInv, NEW r \in Requests, NEW a \in Attempts, attempts[a] # None,
         reqs[r].pc \in Starting, End(r, "done", a), UNCHANGED <<now, attempts>>,
         locks' \in [Servers \X Questions -> Requests \cup {None}]
  PROVE  PInv'
<1> DEFINE q == EndRecord(r, "done", a)
<1>1. /\ q \in RequestStates /\ q.pc = "done" /\ q.attempt = a /\ q.step = reqs[r].step
      /\ reqs' = [reqs EXCEPT ![r] = q]
  BY EndFacts DEF PInv, Ended
<1>2. q.step = "start"
  BY <1>1 DEF PInv, ReqOK, SoundIn
<1> HIDE DEF q
<1>3. ReqOK(q)
  BY <1>1, <1>2 DEF ReqOK, SoundIn, Starting, Exists
<1> QED BY <1>1, <1>3, MovePInv

\* The steps that leave the attempts alone.
LEMMA QueryPInv ==
  ASSUME PInv, NEW r \in Requests,
         Ask(r) \/ Enter(r) \/ Find(r) \/ Refind(r) \/ LoadRow(r) \/ LoadEvents(r)
         \/ Reread(r) \/ Fail(r)
  PROVE  PInv'
<1> DEFINE q == reqs[r]
<1>0. /\ q \in RequestStates /\ ReqOK(q) /\ TypeOK
      /\ locks \in [Servers \X Questions -> Requests \cup {None}]
      /\ attempts \in [Attempts -> AttemptStates \cup {None}] /\ now \in Nat
      /\ Unlocked(r) \in [Servers \X Questions -> Requests \cup {None}]
      /\ q.attempt \in Attempts \cup {None}
      /\ OpenOn(q.question) \subseteq {a \in Attempts : attempts[a] # None}
  BY UnlockedType DEF PInv, TypeOK, RequestStates, OpenOn
<1>1. CASE Ask(r)
  <2>1. ASSUME NEW s \in Servers, NEW x \in Questions, AskStart(r, s, x)
        PROVE  PInv'
    <3> DEFINE next == [q EXCEPT !.pc = "queued", !.step = "start", !.server = s, !.question = x,
                                 !.at = now]
    <3>1. /\ next \in RequestStates /\ next.pc = "queued" /\ next.step = "start"
          /\ next.server = s /\ next.question = x
      BY <1>0 DEF RequestStates, InFlight, Starting
    <3>2. reqs' = [reqs EXCEPT ![r] = next] /\ UNCHANGED <<now, attempts, locks>>
      BY <2>1 DEF AskStart
    <3> HIDE DEF next
    <3>3. ReqOK(next)
      BY <3>1 DEF ReqOK, SoundIn
    <3> QED BY <1>0, <3>1, <3>2, <3>3, MovePInv
  <2>2. ASSUME NEW a \in Known
        PROVE  Exists(a)
    BY DEF Known, PInv, ReqOK, SoundIn, Exists
  <2>3. ASSUME NEW a \in Attempts, NEW answer \in Answers, AskSubmit(r, a, answer)
        PROVE  PInv'
    <3> DEFINE next == [q EXCEPT !.pc = "load", !.step = "answer", !.attempt = a,
                                 !.answer = answer, !.at = now]
    <3>1. /\ next \in RequestStates /\ next.pc = "load" /\ next.step = "answer"
          /\ next.attempt = a
      BY <1>0 DEF RequestStates, InFlight
    <3>2. reqs' = [reqs EXCEPT ![r] = next] /\ UNCHANGED <<now, attempts, locks>> /\ Exists(a)
      BY <2>2, <2>3 DEF AskSubmit
    <3> HIDE DEF next
    <3>3. ReqOK(next)
      BY <3>1, <3>2 DEF ReqOK, SoundIn, Exists, Starting
    <3> QED BY <1>0, <3>1, <3>2, <3>3, MovePInv
  <2>4. ASSUME NEW a \in Attempts, AskSkip(r, a)
        PROVE  PInv'
    <3> DEFINE next == [q EXCEPT !.pc = "load", !.step = "skip", !.attempt = a, !.at = now]
    <3>1. /\ next \in RequestStates /\ next.pc = "load" /\ next.step = "skip"
          /\ next.attempt = a
      BY <1>0 DEF RequestStates, InFlight
    <3>2. reqs' = [reqs EXCEPT ![r] = next] /\ UNCHANGED <<now, attempts, locks>> /\ Exists(a)
      BY <2>2, <2>4 DEF AskSkip
    <3> HIDE DEF next
    <3>3. ReqOK(next)
      BY <3>1, <3>2 DEF ReqOK, SoundIn, Exists, Starting
    <3> QED BY <1>0, <3>1, <3>2, <3>3, MovePInv
  <2> QED BY <1>1, <2>1, <2>3, <2>4 DEF Ask
<1>2. CASE Enter(r)
  <2> DEFINE next == [q EXCEPT !.pc = "find"]
  <2>1. /\ next \in RequestStates /\ next.pc = "find" /\ next.step = "start"
        /\ next.server = q.server /\ next.question = q.question
        /\ q.server \in Servers /\ q.question \in Questions
    BY <1>0, <1>2 DEF RequestStates, InFlight, Starting, Enter, ReqOK, SoundIn
  <2>2. /\ reqs' = [reqs EXCEPT ![r] = next] /\ UNCHANGED <<now, attempts>>
        /\ locks' = [locks EXCEPT ![Key(r)] = r]
    BY <1>2 DEF Enter
  <2> HIDE DEF next
  <2>3. ReqOK(next)
    BY <2>1 DEF ReqOK, SoundIn
  <2> QED BY <1>0, <2>1, <2>2, <2>3, MovePInv
<1>3. CASE Find(r)
  <2>1. CASE reqs' = [reqs EXCEPT ![r].pc = "create"] /\ UNCHANGED locks
    <3> DEFINE next == [q EXCEPT !.pc = "create"]
    <3>1. /\ next \in RequestStates /\ next.pc = "create" /\ next.step = "start"
          /\ next.server = q.server /\ next.question = q.question
          /\ q.server \in Servers /\ q.question \in Questions
      BY <1>0, <1>3 DEF RequestStates, InFlight, Starting, Find, ReqOK, SoundIn
    <3>2. reqs' = [reqs EXCEPT ![r] = next] /\ UNCHANGED <<now, attempts, locks>>
      BY <1>3, <2>1 DEF Find
    <3> HIDE DEF next
    <3>3. ReqOK(next)
      BY <3>1 DEF ReqOK, SoundIn
    <3> QED BY <1>0, <3>1, <3>2, <3>3, MovePInv
  <2>2. CASE \E a \in OpenOn(q.question) : End(r, "done", a) /\ locks' = Unlocked(r)
    <3>1. PICK a \in OpenOn(q.question) : End(r, "done", a) /\ locks' = Unlocked(r)
      BY <2>2
    <3>2. q.pc \in Starting /\ UNCHANGED <<now, attempts>>
      BY <1>3 DEF Find, Starting
    <3> QED BY <1>0, <3>1, <3>2, ResumePInv
  <2> QED BY <1>3, <2>1, <2>2 DEF Find
<1>4. CASE Refind(r)
  <2>1. q.pc \in Starting /\ UNCHANGED <<now, attempts>> /\ locks' = Unlocked(r)
    BY <1>4 DEF Refind, Starting
  <2>2. CASE End(r, "failed", None)
    BY <1>0, <2>1, <2>2, FailPInv
  <2>3. CASE \E a \in OpenOn(q.question) : End(r, "done", a)
    BY <1>0, <2>1, <2>3, ResumePInv
  <2> QED BY <1>4, <2>2, <2>3 DEF Refind
<1>5. CASE LoadRow(r)
  <2> DEFINE t == [attempts[q.attempt] EXCEPT !.events = <<>>]
             next == [q EXCEPT !.pc = "events", !.copy = t]
  <2>0. /\ q.pc = "load" /\ UNCHANGED <<now, attempts, locks>>
        /\ Exists(q.attempt) /\ q.step \in {"answer", "submit", "skip"}
        /\ attempts[q.attempt] \in AttemptStates /\ <<>> \in Seq(Events)
        /\ reqs' = [reqs EXCEPT ![r] = next]
    BY <1>0, <1>5 DEF LoadRow, ReqOK, SoundIn, Exists
  <2>1. t \in AttemptStates /\ t.question = attempts[q.attempt].question
    BY <2>0, EventsReplaced
  <2> HIDE DEF t
  <2>2. /\ next \in RequestStates /\ next.pc = "events" /\ next.copy = t
        /\ next.step = q.step /\ next.attempt = q.attempt
    BY <1>0, <2>1 DEF RequestStates, InFlight
  <2>3. reqs' = [reqs EXCEPT ![r] = next]
    BY <2>0 DEF t
  <2> HIDE DEF next
  <2>4. ReqOK(next)
    BY <2>0, <2>1, <2>2 DEF ReqOK, SoundIn, Exists, Starting
  <2> QED BY <1>0, <2>0, <2>2, <2>3, <2>4, MovePInv
<1>6. CASE LoadEvents(r)
  <2> DEFINE t == [q.copy EXCEPT !.events = attempts[q.attempt].events]
  <2>0. /\ q.pc = "events" /\ UNCHANGED <<now, attempts, locks>>
        /\ Exists(q.attempt) /\ q.step \in {"answer", "submit", "skip"}
        /\ q.copy \in AttemptStates /\ q.copy.question = attempts[q.attempt].question
        /\ attempts[q.attempt] \in AttemptStates
    BY <1>0, <1>6 DEF LoadEvents, ReqOK, SoundIn, Exists
  <2>1. /\ q.pc = "events" /\ UNCHANGED <<now, attempts, locks>>
        /\ Exists(q.attempt) /\ q.step \in {"answer", "submit", "skip"}
        /\ t \in AttemptStates /\ t.question = attempts[q.attempt].question
    <3>1. attempts[q.attempt].events \in Seq(Events)
      BY <2>0 DEF AttemptStates
    <3> QED BY <2>0, <3>1, EventsReplaced
  <2>2. CASE Allowed(q, t) /\ reqs' = [reqs EXCEPT ![r] =
                [@ EXCEPT !.pc = "save", !.copy = Transformed(q, t)]]
    <3> DEFINE u == Transformed(q, t)
               next == [q EXCEPT !.pc = "save", !.copy = u]
    <3> HIDE DEF t
    <3>1. u \in AttemptStates /\ u.question = t.question /\ u.status = StatusAfter(q.step)
      BY <1>0, <2>1, <2>2, TransformedState
    <3>2. reqs' = [reqs EXCEPT ![r] = next]
      BY <2>2
    <3> HIDE DEF u
    <3>3. /\ next \in RequestStates /\ next.pc = "save" /\ next.copy = u
          /\ next.step = q.step /\ next.attempt = q.attempt
      BY <1>0, <3>1 DEF RequestStates, InFlight
    <3> HIDE DEF next
    <3>4. ReqOK(next)
      BY <2>1, <3>1, <3>3 DEF ReqOK, SoundIn, Exists, Starting
    <3> QED BY <1>0, <2>1, <3>2, <3>3, <3>4, MovePInv
  <2>3. CASE End(r, "failed", None)
    BY <1>0, <2>1, <2>3, FailPInv
  <2> QED BY <1>6, <2>2, <2>3 DEF LoadEvents
<1>7. CASE Reread(r)
  <2> DEFINE next == EndRecord(r, "done", q.attempt)
  <2>1. /\ q.pc = "reread" /\ UNCHANGED <<now, attempts, locks>>
        /\ Exists(q.attempt) /\ q.step \in {"submit", "skip"}
        /\ attempts[q.attempt].status = StatusAfter(q.step)
        /\ End(r, "done", q.attempt)
    BY <1>0, <1>7 DEF Reread, ReqOK, SoundIn, Exists
  <2>2. /\ next \in RequestStates /\ next.pc = "done" /\ next.step = q.step
        /\ next.attempt = q.attempt /\ reqs' = [reqs EXCEPT ![r] = next]
    BY <1>0, <2>1, EndFacts DEF Ended
  <2> HIDE DEF next
  <2>3. ReqOK(next)
    BY <2>1, <2>2 DEF ReqOK, SoundIn, Exists, Starting
  <2> QED BY <1>0, <2>1, <2>2, <2>3, MovePInv
<1>8. CASE Fail(r)
  BY <1>0, <1>8, FailPInv DEF Fail
<1> QED BY <1>1, <1>2, <1>3, <1>4, <1>5, <1>6, <1>7, <1>8

\* Replacing the row of attempt a keeps every request sound that finds there the question
\* it has, and a status it acknowledged or is about to.
LEMMA RowPInv ==
  ASSUME PInv, NEW r \in Requests, NEW q \in RequestStates,
         NEW a \in Attempts, NEW t \in AttemptStates,
         reqs' = [reqs EXCEPT ![r] = q], attempts' = [attempts EXCEPT ![a] = t],
         UNCHANGED now, SoundIn(attempts', q),
         locks' \in [Servers \X Questions -> Requests \cup {None}],
         attempts[a] # None =>
           /\ t.question = attempts[a].question
           /\ attempts[a].status \in Final => t.status = attempts[a].status,
         t.status = "in_progress" =>
           \A b \in OpenOn(t.question) : b = a
  PROVE  PInv'
<1>0. /\ attempts \in [Attempts -> AttemptStates \cup {None}] /\ t # None
      /\ \A b \in Attempts : attempts'[b] = IF b = a THEN t ELSE attempts[b]
      /\ \A p \in Requests : reqs'[p] = IF p = r THEN q ELSE reqs[p]
  BY NoneAssumption DEF PInv, TypeOK
<1>1. TypeOK'
  BY DEF PInv, TypeOK
<1>2. OneOpen'
  BY <1>0 DEF PInv, OneOpen, Exists, OpenOn
<1>3. ASSUME NEW p \in Requests
      PROVE  ReqOK(reqs[p])'
  <2>1. CASE p = r
    BY <1>0, <2>1 DEF ReqOK, SoundIn, Exists
  <2>2. CASE p # r
    <3>1. reqs'[p] = reqs[p] /\ ReqOK(reqs[p])
      BY <1>0, <2>2 DEF PInv
    <3>2. \A b \in Attempts : attempts[b] # None =>
            /\ attempts'[b] # None /\ attempts'[b].question = attempts[b].question
            /\ attempts[b].status \in Final => attempts'[b].status = attempts[b].status
      BY <1>0
    <3>3. \A step \in {"submit", "skip"} : StatusAfter(step) \in Final
      BY DEF StatusAfter, Final
    <3> QED BY <3>1, <3>2, <3>3 DEF ReqOK, SoundIn, Exists
  <2> QED BY <2>1, <2>2
<1> QED BY <1>1, <1>2, <1>3 DEF PInv

LEMMA CreatePInv ==
  ASSUME PInv, NEW r \in Requests, Create(r)
  PROVE  PInv'
<1> DEFINE q == reqs[r]
<1>0. /\ q \in RequestStates /\ q.question \in Questions /\ q.step = "start" /\ q.at \in Nat
      /\ q.server \in Servers
      /\ TypeOK /\ locks \in [Servers \X Questions -> Requests \cup {None}]
      /\ q.pc = "create" /\ UNCHANGED now
  BY DEF PInv, TypeOK, RequestStates, ReqOK, SoundIn, Create, Starting
<1>1. CASE reqs' = [reqs EXCEPT ![r].pc = "refind"] /\ UNCHANGED <<attempts, locks>>
  <2> DEFINE next == [q EXCEPT !.pc = "refind"]
  <2>1. /\ next \in RequestStates /\ next.pc = "refind" /\ next.step = "start"
        /\ next.server = q.server /\ next.question = q.question
    BY <1>0 DEF RequestStates, InFlight, Starting
  <2>2. reqs' = [reqs EXCEPT ![r] = next] /\ UNCHANGED <<now, attempts, locks>>
    BY <1>0, <1>1
  <2> HIDE DEF next
  <2>3. ReqOK(next)
    BY <1>0, <2>1 DEF ReqOK, SoundIn
  <2> QED BY <1>0, <2>1, <2>2, <2>3, MovePInv
<1>2. ASSUME NEW a \in Attempts, attempts[a] = None, OpenOn(q.question) = {},
             attempts' = [attempts EXCEPT ![a] = Started(q.question, q.at)],
             End(r, "done", a), locks' = Unlocked(r)
      PROVE  PInv'
  <2> DEFINE t == Started(q.question, q.at)
             next == EndRecord(r, "done", a)
  <2>1. t \in AttemptStates /\ t.question = q.question
    BY <1>0, StartedState DEF Started
  <2>2. /\ next \in RequestStates /\ next.pc = "done" /\ next.attempt = a /\ next.step = "start"
        /\ reqs' = [reqs EXCEPT ![r] = next]
    BY <1>0, <1>2, EndFacts DEF Ended
  <2>3. attempts'[a] # None
    BY <1>2, <2>1, NoneAssumption DEF PInv, TypeOK
  <2> HIDE DEF t, next
  <2>4. SoundIn(attempts', next)
    BY <2>2, <2>3 DEF ReqOK, SoundIn, Starting, Exists
  <2>5. locks' \in [Servers \X Questions -> Requests \cup {None}]
    BY <1>0, <1>2, UnlockedType
  <2>6. attempts' = [attempts EXCEPT ![a] = t] /\ OpenOn(t.question) = {}
    BY <1>2, <2>1 DEF t
  <2> QED BY <1>0, <1>2, <2>1, <2>2, <2>4, <2>5, <2>6, RowPInv
<1> QED BY <1>1, <1>2 DEF Create

\* What a save that commits finds and leaves.
LEMMA SaveEffect ==
  ASSUME PInv, NEW r \in Requests, Save(r), ~Regresses(attempts[reqs[r].attempt], reqs[r].copy)
  PROVE  LET q == reqs[r]  a == q.attempt  t == q.copy IN
         /\ a \in Attempts /\ attempts[a] # None /\ t \in AttemptStates
         /\ attempts' = [attempts EXCEPT ![a] = t]
         /\ t.question = attempts[a].question
         /\ t.status = StatusAfter(q.step)
         /\ q.step \in {"answer", "submit", "skip"}
         /\ attempts[a].status \in Final => t.status = attempts[a].status
<1>1. reqs[r].pc = "save" /\ ReqOK(reqs[r])
  BY DEF Save, PInv
<1> QED BY <1>1 DEF Save, ReqOK, SoundIn, Exists, Regresses

LEMMA SavePInv ==
  ASSUME PInv, NEW r \in Requests, Save(r)
  PROVE  PInv'
<1> DEFINE q == reqs[r]
           a == q.attempt
           t == q.copy
<1>0. /\ q \in RequestStates /\ q.pc = "save" /\ UNCHANGED <<now, locks>>
      /\ locks \in [Servers \X Questions -> Requests \cup {None}] /\ a \in Attempts \cup {None}
      /\ attempts \in [Attempts -> AttemptStates \cup {None}] /\ OneOpen
  BY DEF Save, PInv, TypeOK, RequestStates
<1>1. CASE Regresses(attempts[a], t)
  BY <1>0, <1>1, FailPInv DEF Save
<1>2. CASE ~Regresses(attempts[a], t)
  <2> DEFINE step == IF q.step = "answer" THEN "submit" ELSE q.step
             pc == IF q.step = "answer" THEN "load" ELSE "reread"
             next == [q EXCEPT !.pc = pc, !.step = step, !.copy = None]
  <2>1. /\ a \in Attempts /\ attempts[a] # None /\ t \in AttemptStates
        /\ attempts' = [attempts EXCEPT ![a] = t] /\ t.question = attempts[a].question
        /\ t.status = StatusAfter(q.step) /\ q.step \in {"answer", "submit", "skip"}
        /\ attempts[a].status \in Final => t.status = attempts[a].status
    BY <1>2, SaveEffect
  <2>2. reqs' = [reqs EXCEPT ![r] =
          IF q.step = "answer" THEN [q EXCEPT !.pc = "load", !.step = "submit", !.copy = None]
          ELSE [q EXCEPT !.pc = "reread", !.copy = None]]
    BY <1>2 DEF Save
  <2>3. next = IF q.step = "answer" THEN [q EXCEPT !.pc = "load", !.step = "submit", !.copy = None]
               ELSE [q EXCEPT !.pc = "reread", !.copy = None]
    BY <1>0 DEF RequestStates
  <2>4. /\ pc \in InFlight /\ pc \in {"load", "reread"} /\ step \in {"submit", "skip"}
        /\ pc = "reread" => step = q.step
    BY <2>1 DEF InFlight
  <2>5. reqs' = [reqs EXCEPT ![r] = next]
    BY <2>2, <2>3
  <2> HIDE DEF pc, step
  <2>6. next \in RequestStates /\ next.pc = pc /\ next.step = step /\ next.attempt = a
    BY <1>0, <2>4 DEF RequestStates
  <2>7. attempts'[a] = t /\ t # None
    BY <1>0, <2>1, NoneAssumption
  <2> HIDE DEF next, a, t
  <2>8. SoundIn(attempts', next)
    BY <2>1, <2>4, <2>6, <2>7 DEF ReqOK, SoundIn, Starting, Exists
  <2>9. t.status = "in_progress" => \A b \in OpenOn(t.question) : b = a
    <3> SUFFICES ASSUME t.status = "in_progress", NEW b \in OpenOn(t.question) PROVE b = a
      OBVIOUS
    <3>1. attempts[a].status = "in_progress"
      BY <1>0, <2>1 DEF Final, AttemptStates
    <3> QED BY <1>0, <2>1, <3>1 DEF OneOpen, OpenOn, Exists
  <2> QED BY <1>0, <2>1, <2>5, <2>6, <2>8, <2>9, RowPInv
<1> QED BY <1>1, <1>2

\* Practice keeps its types, never opens a question twice, and knows of every request in
\* flight which attempt it is about, whatever its copy of it.
THEOREM PInvHolds == Spec => []PInv
<1>1. Init => PInv
  BY InitPInv
<1>2. PInv /\ [Next]_vars => PInv'
  <2> SUFFICES ASSUME PInv, [Next]_vars PROVE PInv'
    OBVIOUS
  <2>1. ASSUME NEW r \in Requests, Ask(r) \/ Serve(r) \/ Fail(r)
        PROVE  PInv'
    BY <2>1, QueryPInv, CreatePInv, SavePInv DEF Serve
  <2>2. CASE Tick \/ UNCHANGED vars
    <3>1. UNCHANGED <<attempts, locks, reqs>> /\ now' \in Nat
      BY <2>2 DEF Tick, vars, PInv, TypeOK
    <3>2. TypeOK' /\ OneOpen'
      BY <3>1 DEF PInv, TypeOK, OneOpen, Exists
    <3> QED BY <3>1, <3>2 DEF PInv, ReqOK, SoundIn, Exists
  <2> QED BY <2>1, <2>2 DEF Next
<1> QED BY <1>1, <1>2, PTL DEF Spec

\* Every variable keeps its type.
THEOREM PracticeTypeCorrect == Spec => []TypeOK
BY PInvHolds, PTL DEF PInv

\* An attempt acknowledged as submitted or skipped stays so.
THEOREM AcknowledgedAttemptsStand == Spec => []AcknowledgedStands
<1>1. PInv => AcknowledgedStands
  BY DEF PInv, ReqOK, SoundIn, Exists, StatusAfter, AcknowledgedStands
<1> QED BY <1>1, PInvHolds, PTL

-----------------------------------------------------------------------------
(* The handlers implement the table's promise.                             *)

\* The promised table.
Table == [a \in Attempts |-> Entry(a)]

\* The row the promise speaks of.
Promised(t) == [question |-> t.question, status |-> t.status, block |-> None, place |-> 0]

LEMMA TableChange ==
  ASSUME PInv, NEW a \in Attempts, NEW t \in AttemptStates,
         attempts' = [attempts EXCEPT ![a] = t]
  PROVE  Table' = [Table EXCEPT ![a] = Promised(t)]
<1>1. t # None /\ \A b \in Attempts : attempts'[b] = IF b = a THEN t ELSE attempts[b]
  BY NoneAssumption DEF PInv, TypeOK
<1>2. \A b \in Attempts : Entry(b)' = IF b = a THEN Promised(t) ELSE Entry(b)
  BY <1>1 DEF Entry, Promised
<1> QED BY <1>2 DEF Table

LEMMA CreateOpens ==
  ASSUME PInv, NEW r \in Requests, Create(r), attempts' # attempts
  PROVE  T!Next
<1> DEFINE x == reqs[r].question
<1>1. x \in Questions /\ reqs[r].at \in Nat
  BY DEF Create, PInv, TypeOK, RequestStates, ReqOK, SoundIn, Starting
<1>2. PICK a \in Attempts : /\ attempts[a] = None /\ OpenOn(x) = {}
                            /\ attempts' = [attempts EXCEPT ![a] = Started(x, reqs[r].at)]
  BY DEF Create
<1>3. Started(x, reqs[r].at) \in AttemptStates
  BY <1>1, StartedState
<1>4. Promised(Started(x, reqs[r].at)) =
        [question |-> x, status |-> "in_progress", block |-> None, place |-> T!NextPlace(None)]
  BY DEF Promised, Started, T!NextPlace
<1>5. Table' = [Table EXCEPT ![a] =
        [question |-> x, status |-> "in_progress", block |-> None, place |-> T!NextPlace(None)]]
  BY <1>2, <1>3, <1>4, TableChange
<1>6. Table[a] = None
  BY <1>2 DEF Table, Entry
<1>7. T!OpenOn(x) = {}
  BY <1>2 DEF T!OpenOn, T!IsOpen, OpenOn, Entry
<1>8. T!Open(a, x, None)
  BY <1>5, <1>6, <1>7 DEF T!Open, Table
<1> QED BY <1>1, <1>8 DEF T!Next

LEMMA SaveCloses ==
  ASSUME PInv, NEW r \in Requests, Save(r), attempts' # attempts
  PROVE  T!Next \/ UNCHANGED Table
<1> DEFINE a == reqs[r].attempt
           t == reqs[r].copy
<1>1. ~Regresses(attempts[a], t)
  BY DEF Save
<1>2. /\ a \in Attempts /\ attempts[a] # None /\ t \in AttemptStates
      /\ attempts' = [attempts EXCEPT ![a] = t] /\ t.question = attempts[a].question
      /\ attempts[a].status \in Final => t.status = attempts[a].status
  BY <1>1, SaveEffect
<1>3. attempts[a].status \in Final \cup {"in_progress"} /\ t.status \in Final \cup {"in_progress"}
  BY <1>2 DEF PInv, TypeOK, AttemptStates
<1> HIDE DEF a, t
<1>4. Table' = [Table EXCEPT ![a] = Promised(t)]
  BY <1>2, TableChange
<1>5. Table[a] = Promised(attempts[a])
  BY <1>2 DEF Table, Entry, Promised
<1>6. CASE t.status = attempts[a].status
  <2>1. Promised(t) = Table[a]
    BY <1>2, <1>5, <1>6 DEF Promised
  <2> QED BY <1>2, <1>4, <2>1 DEF Table
<1>7. CASE t.status # attempts[a].status
  <2>1. attempts[a].status = "in_progress" /\ t.status \in Final
    BY <1>2, <1>3, <1>7
  <2>2. Promised(t) = [Table[a] EXCEPT !.status = t.status]
    BY <1>2, <1>5 DEF Promised
  <2>6. Promised(attempts[a]) # None
    BY <1>2, <1>3, TableAssumption DEF Promised, T!Rows, PInv, TypeOK, AttemptStates, Final, T!Final
  <2>3. T!IsOpen(a)
    BY <1>2, <1>5, <2>1, <2>6 DEF T!IsOpen, Table, Promised
  <2>4. T!Close(a, t.status)
    BY <1>4, <2>2, <2>3 DEF T!Close, Table
  <2>5. t.status \in T!Final
    BY <2>1 DEF Final, T!Final
  <2> QED BY <1>2, <2>4, <2>5 DEF T!Next
<1> QED BY <1>6, <1>7

\* Every step of Practice opens an attempt on a question that has no open one, closes one
\* that is open, or leaves the promised table as it is.
THEOREM PracticeKeepsTable == Spec => KeepsTable
<1>1. Init => T!Init
  BY DEF Init, T!Init, Entry
<1>2. PInv /\ [Next]_vars => [T!Next]_Table
  <2> SUFFICES ASSUME PInv, [Next]_vars PROVE T!Next \/ UNCHANGED Table
    OBVIOUS
  <2>1. CASE UNCHANGED attempts
    BY <2>1 DEF Table, Entry
  <2>2. ASSUME attempts' # attempts
        PROVE  \E r \in Requests : Create(r) \/ Save(r)
    BY <2>2 DEF Next, vars, Tick, Ask, AskStart, AskSubmit, AskSkip, Serve, Enter, Find, Refind,
                LoadRow, LoadEvents, Reread, Fail
  <2> QED BY <2>1, <2>2, CreateOpens, SaveCloses
<1>3. Spec => T!Init /\ [][T!Next]_Table
  BY <1>1, <1>2, PInvHolds, PTL DEF Spec
<1> QED BY <1>3, PTL DEF KeepsTable, T!Spec, Table

-----------------------------------------------------------------------------
(* Every row is coherent.                                                  *)

\* The events that close an attempt are those of its status.
ClosedAs(t) ==
  \A i \in DOMAIN t.events : t.events[i].type # "answer_selected" =>
    /\ t.status = "submitted" =>
         t.events[i].type = "answer_submitted" /\ t.events[i].answer = t.chosen
    /\ t.status = "skipped" =>
         t.events[i].type = "question_skipped" /\ t.events[i].answer = None

Told(t) == Coherent(t) /\ ClosedAs(t)

\* A copy whose row has closed meanwhile may tell anything, since it will not be saved.
CopyIn(rows, q) ==
  /\ q.pc \in {"events", "save"} => q.copy.startedAt = rows[q.attempt].startedAt
  /\ q.pc = "events" /\ q.copy.status = "in_progress" =>
       q.copy.chosen = None /\ q.copy.isCorrect = "none"
  /\ q.pc = "save" => Regresses(rows[q.attempt], q.copy) \/ Told(q.copy)

RInv ==
  /\ PInv
  /\ \A a \in Attempts : attempts[a] # None => Told(attempts[a])
  /\ \A r \in Requests : CopyIn(attempts, reqs[r])

\* Time runs forward in a log of events from a start.
Forward(start, log) ==
  /\ \A i \in DOMAIN log : start <= log[i].at
  /\ \A i, j \in DOMAIN log : i < j => log[i].at <= log[j].at

Closes(log, i) == log[i].type # "answer_selected"

\* Nothing but a repetition follows an event that closes.
Repeats(log) ==
  \A i \in DOMAIN log : Closes(log, i) =>
    \A j \in i + 1 .. Len(log) : log[j].type = log[i].type /\ log[j].answer = log[i].answer

Graded(t) ==
  /\ t.status = "submitted" =>
       /\ \E i \in Selections(t) :
            t.events[i].answer = t.chosen /\ \A j \in Selections(t) : j <= i
       /\ t.chosen \in Options[t.question]
       /\ t.isCorrect = "correct" <=> t.chosen = Correct[t.question]
       /\ t.events[Len(t.events)].type = "answer_submitted"
       /\ t.events[Len(t.events)].answer = t.chosen
  /\ t.status # "submitted" => t.chosen = None /\ t.isCorrect = "none"

LEMMA ToldParts ==
  ASSUME NEW t
  PROVE  Told(t) <=>
    /\ Forward(t.startedAt, t.events)
    /\ Repeats(t.events)
    /\ \A i \in DOMAIN t.events : Closes(t.events, i) => t.status \in Final
    /\ ClosedAs(t)
    /\ Graded(t)
BY DEF Told, Coherent, Forward, Repeats, Closes, Graded

LEMMA Appended ==
  ASSUME NEW log \in Seq(Events), NEW e \in Events
  PROVE  /\ Append(log, e) \in Seq(Events)
         /\ Len(log) \in Nat /\ Len(Append(log, e)) = Len(log) + 1
         /\ DOMAIN log = 1 .. Len(log) /\ DOMAIN Append(log, e) = 1 .. Len(log) + 1
         /\ \A i \in 1 .. Len(log) : Append(log, e)[i] = log[i] /\ log[i] \in Events
         /\ Append(log, e)[Len(log) + 1] = e
OBVIOUS

LEMMA ForwardAppended ==
  ASSUME NEW start \in Nat, NEW log \in Seq(Events), NEW e \in Events, Forward(start, log),
         start <= e.at, log # <<>> => log[Len(log)].at <= e.at
  PROVE  Forward(start, Append(log, e))
<1> DEFINE more == Append(log, e)
           n == Len(log)
<1>1. /\ n \in Nat /\ DOMAIN log = 1 .. n /\ DOMAIN more = 1 .. n + 1 /\ more[n + 1] = e
      /\ \A i \in 1 .. n : more[i] = log[i] /\ log[i].at \in Nat
      /\ e.at \in Nat
  <2>1. \A x \in Events : x.at \in Nat
    BY DEF Events
  <2> QED BY <2>1, Appended
<1>2. \A i \in 1 .. n : log[i].at <= e.at
  <2> SUFFICES ASSUME NEW i \in 1 .. n PROVE log[i].at <= e.at
    OBVIOUS
  <2>1. log # <<>> /\ n \in 1 .. n
    BY <1>1
  <2>2. log[i].at <= log[n].at
    BY <1>1, <2>1 DEF Forward
  <2>3. log[i].at \in Nat /\ log[n].at \in Nat
    BY <1>1, <2>1
  <2>4. log[n].at <= e.at
    BY <2>1
  <2> QED BY <1>1, <2>2, <2>3, <2>4
<1>3. /\ \A i \in 1 .. n : start <= log[i].at
      /\ \A i, j \in 1 .. n : i < j => log[i].at <= log[j].at
  BY <1>1 DEF Forward
<1> HIDE DEF more, n
<1>4. \A i \in 1 .. n + 1 : start <= more[i].at
  BY <1>1, <1>3
<1>5. \A i, j \in 1 .. n + 1 : i < j => more[i].at <= more[j].at
  <2> SUFFICES ASSUME NEW i \in 1 .. n + 1, NEW j \in 1 .. n + 1, i < j
               PROVE  more[i].at <= more[j].at
    OBVIOUS
  <2>1. i \in 1 .. n
    BY <1>1
  <2>2. CASE j = n + 1
    BY <1>1, <1>2, <2>1, <2>2
  <2>3. CASE j # n + 1
    <3>1. j \in 1 .. n
      BY <1>1, <2>3
    <3> QED BY <1>1, <1>3, <2>1, <3>1
  <2> QED BY <2>2, <2>3
<1>6. Forward(start, more)
  BY <1>1, <1>4, <1>5 DEF Forward
<1> QED BY <1>6 DEF more

LEMMA RepeatsAppended ==
  ASSUME NEW log \in Seq(Events), NEW e \in Events, Repeats(log),
         \A i \in DOMAIN log : Closes(log, i) => log[i].type = e.type /\ log[i].answer = e.answer
  PROVE  Repeats(Append(log, e))
<1> DEFINE more == Append(log, e)
           n == Len(log)
<1>1. /\ n \in Nat /\ DOMAIN log = 1 .. n /\ DOMAIN more = 1 .. n + 1 /\ more[n + 1] = e
      /\ Len(more) = n + 1
      /\ \A i \in 1 .. n : more[i] = log[i]
  BY Appended
<1>2. \A i \in 1 .. n : Closes(log, i) =>
        \A j \in i + 1 .. n : log[j].type = log[i].type /\ log[j].answer = log[i].answer
  BY <1>1 DEF Repeats
<1> HIDE DEF more, n
<1>3. ASSUME NEW i \in 1 .. n + 1, Closes(more, i), NEW j \in i + 1 .. n + 1
      PROVE  more[j].type = more[i].type /\ more[j].answer = more[i].answer
  <2>1. i \in 1 .. n /\ j \in Int
    BY <1>1
  <2>2. Closes(log, i) /\ more[i] = log[i]
    BY <1>1, <1>3, <2>1 DEF Closes
  <2>3. CASE j = n + 1
    BY <1>1, <2>1, <2>2, <2>3
  <2>4. CASE j # n + 1
    <3>1. j \in i + 1 .. n /\ j \in 1 .. n
      BY <1>1, <2>1, <2>4
    <3> QED BY <1>1, <1>2, <2>1, <2>2, <3>1
  <2> QED BY <2>3, <2>4
<1>4. Repeats(more)
  BY <1>1, <1>3 DEF Repeats
<1> QED BY <1>4 DEF more

-----------------------------------------------------------------------------
(* The last of a log's selections.                                         *)

\* The order of the naturals, as a relation that has no infinite descent.
LEMMA NaturalOrder ==
  \E R : IsWellFoundedOn(R, Nat) /\ \A m, n \in Nat : n < m => <<n, m>> \in R
<1> DEFINE R == OpToRel(<, Nat)
<1>1. IsWellFoundedOn(R, Nat)
  BY NatLessThanWellFounded
<1>2. \A m, n \in Nat : n < m => <<n, m>> \in R
  BY DEF OpToRel
<1> HIDE DEF R
<1> WITNESS R
<1> QED BY <1>1, <1>2

\* A bounded set of numbers has a greatest, found as the least of its bounds.
LEMMA Greatest ==
  ASSUME NEW n \in Nat, NEW S \in SUBSET (1 .. n), S # {}
  PROVE  Max(S) \in S /\ \A x \in S : x <= Max(S)
<1> DEFINE Bounds == {m \in Nat : \A x \in S : x <= m}
<1>1. Bounds \subseteq Nat /\ Bounds # {}
  BY n \in Bounds
<1>2. PICK R : IsWellFoundedOn(R, Nat) /\ \A m, k \in Nat : k < m => <<k, m>> \in R
  BY NaturalOrder
<1>3. PICK m \in Bounds : \A k \in Bounds : <<k, m>> \notin R
  BY <1>1, <1>2, WFMin
<1>4. m \in S
  <2> SUFFICES ASSUME m \notin S PROVE FALSE
    OBVIOUS
  <2>1. m \in Nat /\ m # 0
    <3>1. PICK x \in S : x \in 1 .. n
      OBVIOUS
    <3>2. m \in Nat /\ x <= m
      BY <1>3, <3>1
    <3> QED BY <3>1, <3>2
  <2>2. m - 1 \in Nat /\ \A x \in S : x <= m - 1
    BY <1>3, <2>1
  <2>3. m - 1 \in Bounds
    BY <2>2
  <2>4. m - 1 < m
    BY <2>1
  <2>5. <<m - 1, m>> \notin R
    BY <1>3, <2>3
  <2> QED BY <1>2, <2>1, <2>2, <2>4, <2>5
<1>5. \A x \in S : m >= x
  BY <1>3
<1>6. Max(S) \in S /\ \A x \in S : Max(S) >= x
  BY <1>4, <1>5 DEF Max
<1> QED BY <1>6

LEMMA LastSelected ==
  ASSUME NEW t \in AttemptStates, Selections(t) # {}
  PROVE  \E i \in Selections(t) :
           t.events[i].answer = FinalAnswer(t) /\ \A j \in Selections(t) : j <= i
<1>1. t.events \in Seq(Events)
  BY DEF AttemptStates
<1>2. Len(t.events) \in Nat /\ Selections(t) \in SUBSET (1 .. Len(t.events))
  BY <1>1 DEF Selections
<1>3. Max(Selections(t)) \in Selections(t) /\ \A j \in Selections(t) : j <= Max(Selections(t))
  BY <1>2, Greatest
<1>4. FinalAnswer(t) = t.events[Max(Selections(t))].answer
  BY DEF FinalAnswer
<1> QED BY <1>3, <1>4

-----------------------------------------------------------------------------
(* What a handler computes from a row and a log read at different times.   *)

\* A copy that has the log of its row and its own, older, fields.
Follows(t, row) ==
  /\ t \in AttemptStates /\ row \in AttemptStates /\ Told(row)
  /\ t.events = row.events /\ t.startedAt = row.startedAt
  /\ t.status = "in_progress" /\ t.chosen = None /\ t.isCorrect = "none"

LEMMA LogFacts ==
  ASSUME NEW t, NEW row, Follows(t, row), NEW at \in Nat, Takes(t, at),
         NEW e \in Events, e.at = at
  PROVE  /\ t.events \in Seq(Events) /\ t.startedAt \in Nat
         /\ Forward(t.startedAt, Append(t.events, e))
         /\ Repeats(t.events)
         /\ row.status \notin Final => \A i \in DOMAIN t.events : ~Closes(t.events, i)
         /\ \A i \in DOMAIN t.events : Closes(t.events, i) =>
              /\ row.status = "submitted" =>
                   t.events[i].type = "answer_submitted" /\ t.events[i].answer = row.chosen
              /\ row.status = "skipped" =>
                   t.events[i].type = "question_skipped" /\ t.events[i].answer = None
<1>1. /\ t.events \in Seq(Events) /\ t.startedAt \in Nat
      /\ Forward(t.startedAt, t.events) /\ Repeats(t.events)
      /\ \A i \in DOMAIN t.events : Closes(t.events, i) => row.status \in Final
      /\ ClosedAs(row) /\ t.events = row.events
  <2>1. t.events \in Seq(Events) /\ t.startedAt \in Nat
    BY DEF Follows, AttemptStates
  <2>2. Told(row) /\ t.events = row.events /\ t.startedAt = row.startedAt
    BY DEF Follows
  <2> QED BY <2>1, <2>2, ToldParts
<1>2. t.startedAt <= e.at /\ (t.events # <<>> => t.events[Len(t.events)].at <= e.at)
  BY DEF Takes, LatestAt
<1>3. Forward(t.startedAt, Append(t.events, e))
  BY <1>1, <1>2, ForwardAppended
<1> QED BY <1>1, <1>3 DEF ClosedAs, Closes

LEMMA AnswerTold ==
  ASSUME NEW t, NEW row, Follows(t, row), NEW at \in Nat, Takes(t, at),
         NEW answer \in Answers \cup {None}
  PROVE  LET u == AnswerSelected(t, answer, at) IN
         u.startedAt = row.startedAt /\ (Regresses(row, u) \/ Told(u))
<1> DEFINE e == [type |-> "answer_selected", at |-> at, answer |-> answer]
           log == Append(t.events, e)
           u == AnswerSelected(t, answer, at)
<1>1. e \in Events /\ e.at = at /\ e.type = "answer_selected"
  BY DEF Events
<1>2. /\ t \in AttemptStates /\ t.status = "in_progress" /\ t.startedAt = row.startedAt
      /\ t.chosen = None /\ t.isCorrect = "none"
  BY DEF Follows
<1> HIDE DEF e
<1>3. /\ u.startedAt = row.startedAt /\ u.status = "in_progress" /\ u.events = log
      /\ u.chosen = None /\ u.isCorrect = "none"
  BY <1>2 DEF AnswerSelected, Recorded, AttemptStates, e
<1>4. CASE row.status \in Final
  <2>1. Regresses(row, u)
    BY <1>3, <1>4 DEF Regresses, Final
  <2> QED BY <1>3, <2>1
<1>5. CASE row.status \notin Final
  <2>1. /\ t.events \in Seq(Events) /\ t.startedAt \in Nat /\ Forward(t.startedAt, log)
        /\ Repeats(t.events) /\ \A i \in DOMAIN t.events : ~Closes(t.events, i)
    BY <1>1, <1>5, LogFacts
  <2>2. Repeats(log)
    BY <1>1, <2>1, RepeatsAppended
  <2>3. \A i \in DOMAIN log : ~Closes(log, i)
    BY <1>1, <2>1, Appended DEF Closes
  <2> HIDE DEF u, log
  <2>4. Forward(u.startedAt, u.events)
    BY <1>2, <1>3, <2>1
  <2>5. ClosedAs(u) /\ Graded(u) /\ Repeats(u.events)
    BY <1>3, <2>2, <2>3 DEF ClosedAs, Graded, Closes
  <2>6. Told(u)
    BY <1>3, <2>3, <2>4, <2>5, ToldParts
  <2> QED BY <1>3, <2>6 DEF u
<1> QED BY <1>4, <1>5

LEMMA SkipTold ==
  ASSUME NEW t, NEW row, Follows(t, row), NEW at \in Nat, Takes(t, at)
  PROVE  LET u == Skipped(t, at) IN
         u.startedAt = row.startedAt /\ (Regresses(row, u) \/ Told(u))
<1> DEFINE e == [type |-> "question_skipped", at |-> at, answer |-> None]
           log == Append(t.events, e)
           u == Skipped(t, at)
<1>1. e \in Events /\ e.at = at /\ e.type = "question_skipped" /\ e.answer = None
  BY DEF Events
<1>2. /\ t \in AttemptStates /\ t.startedAt = row.startedAt
  BY DEF Follows
<1> HIDE DEF e
<1>3. /\ u.startedAt = row.startedAt /\ u.status = "skipped" /\ u.events = log
      /\ u.chosen = None /\ u.isCorrect = "none"
  BY <1>2 DEF Skipped, Finalized, Recorded, AttemptStates, e
<1>4. CASE row.status \in Final \ {"skipped"}
  <2>1. Regresses(row, u)
    BY <1>3, <1>4 DEF Regresses
  <2> QED BY <1>3, <2>1
<1>5. CASE row.status \notin Final \ {"skipped"}
  <2>1. /\ t.events \in Seq(Events) /\ t.startedAt \in Nat /\ Forward(t.startedAt, log)
        /\ Repeats(t.events)
        /\ \A i \in DOMAIN t.events : Closes(t.events, i) =>
             t.events[i].type = "question_skipped" /\ t.events[i].answer = None
    BY <1>1, <1>5, LogFacts
  <2>2. Repeats(log)
    BY <1>1, <2>1, RepeatsAppended
  <2>3. \A i \in DOMAIN log : Closes(log, i) =>
          log[i].type = "question_skipped" /\ log[i].answer = None
    BY <1>1, <2>1, Appended DEF Closes
  <2> HIDE DEF u, log
  <2>4. Forward(u.startedAt, u.events)
    BY <1>2, <1>3, <2>1
  <2>5. ClosedAs(u) /\ Graded(u) /\ Repeats(u.events) /\ u.status \in Final
    BY <1>3, <2>2, <2>3 DEF ClosedAs, Graded, Closes, Final
  <2>6. Told(u)
    BY <2>4, <2>5, ToldParts
  <2> QED BY <1>3, <2>6 DEF u
<1> QED BY <1>4, <1>5

\* A submission repeated finds the answer it was made with.
LEMMA SubmitTold ==
  ASSUME NEW t, NEW row, Follows(t, row), NEW at \in Nat, Submittable(t, at)
  PROVE  LET u == Submitted(t, at) IN
         u.startedAt = row.startedAt /\ (Regresses(row, u) \/ Told(u))
<1> DEFINE answer == FinalAnswer(t)
           e == [type |-> "answer_submitted", at |-> at, answer |-> answer]
           log == Append(t.events, e)
           u == Submitted(t, at)
<1>0. /\ t \in AttemptStates /\ t.startedAt = row.startedAt /\ Takes(t, at)
      /\ t.question \in Questions /\ t.events \in Seq(Events) /\ t.events = row.events
  BY DEF Follows, Submittable, AttemptStates
<1>1. answer \in Options[t.question] /\ answer \in Answers /\ answer # None
  BY <1>0, QuestionsAssumption DEF Submittable
<1>2. e \in Events /\ e.at = at /\ e.type = "answer_submitted" /\ e.answer = answer
  BY <1>1 DEF Events
<1>3. PICK last \in Selections(t) :
        t.events[last].answer = answer /\ \A j \in Selections(t) : j <= last
  <2>1. Selections(t) # {}
    BY <1>1 DEF FinalAnswer
  <2> QED BY <1>0, <2>1, LastSelected
<1> HIDE DEF e, answer
<1>4. /\ u.startedAt = row.startedAt /\ u.status = "submitted" /\ u.events = log
      /\ u.chosen = answer /\ u.question = t.question
      /\ u.isCorrect = IF answer = Correct[t.question] THEN "correct" ELSE "incorrect"
  BY <1>0 DEF Submitted, Finalized, Recorded, AttemptStates, e, answer
<1>5. CASE row.status \in Final \ {"submitted"}
  <2>1. Regresses(row, u)
    BY <1>4, <1>5 DEF Regresses
  <2> QED BY <1>4, <2>1
<1>6. CASE row.status \notin Final \ {"submitted"}
  <2>1. /\ t.startedAt \in Nat /\ Forward(t.startedAt, log) /\ Repeats(t.events)
        /\ \A i \in DOMAIN t.events : Closes(t.events, i) =>
             t.events[i].type = "answer_submitted" /\ t.events[i].answer = answer
    <3>1. row.status = "submitted" => row.chosen = answer
      <4> SUFFICES ASSUME row.status = "submitted" PROVE row.chosen = answer
        OBVIOUS
      <4>1. PICK i \in Selections(row) :
              row.events[i].answer = row.chosen /\ \A j \in Selections(row) : j <= i
        BY ToldParts DEF Follows, Graded
      <4>2. Selections(row) = Selections(t) /\ Selections(t) \subseteq Int
        BY <1>0 DEF Selections
      <4> QED BY <1>0, <1>3, <4>1, <4>2
    <3> QED BY <1>0, <1>2, <1>6, <3>1, LogFacts
  <2>2. Repeats(log)
    BY <1>0, <1>2, <2>1, RepeatsAppended
  <2>3. /\ \A i \in DOMAIN log : Closes(log, i) =>
             log[i].type = "answer_submitted" /\ log[i].answer = answer
        /\ log[Len(log)] = e
    BY <1>0, <1>2, <2>1, Appended DEF Closes
  <2>4. Selections(u) = Selections(t) /\ \A i \in Selections(t) : log[i] = t.events[i]
    BY <1>0, <1>2, <1>4, Appended DEF Selections
  <2> HIDE DEF u, log
  <2>5. Forward(u.startedAt, u.events)
    BY <1>0, <1>4, <2>1
  <2>6. Graded(u)
    <3>1. last \in Selections(u) /\ u.events[last].answer = u.chosen
          /\ \A j \in Selections(u) : j <= last
      BY <1>3, <1>4, <2>4
    <3>2. u.isCorrect = "correct" <=> u.chosen = Correct[u.question]
      BY <1>4
    <3> QED BY <1>1, <1>2, <1>4, <2>3, <3>1, <3>2 DEF Graded
  <2>7. ClosedAs(u) /\ Repeats(u.events) /\ u.status \in Final
    BY <1>4, <2>2, <2>3 DEF ClosedAs, Closes, Final
  <2>8. Told(u)
    BY <2>5, <2>6, <2>7, ToldParts
  <2> QED BY <1>4, <2>8 DEF u
<1> QED BY <1>5, <1>6

LEMMA TransformedTold ==
  ASSUME NEW t, NEW row, Follows(t, row), NEW q \in RequestStates,
         q.step \in {"answer", "submit", "skip"}, Allowed(q, t)
  PROVE  LET u == Transformed(q, t) IN
         u.startedAt = row.startedAt /\ (Regresses(row, u) \/ Told(u))
<1>1. q.at \in Nat /\ q.answer \in Answers \cup {None}
  BY DEF RequestStates
<1>2. CASE q.step = "answer"
  BY <1>1, <1>2, AnswerTold DEF Allowed, Transformed
<1>3. CASE q.step = "submit"
  BY <1>1, <1>3, SubmitTold DEF Allowed, Transformed
<1>4. CASE q.step = "skip"
  BY <1>1, <1>4, SkipTold DEF Allowed, Transformed
<1> QED BY <1>2, <1>3, <1>4

-----------------------------------------------------------------------------
Reading == {"events", "save"}

\* A step that writes no row, and after which no other request holds a copy.
LEMMA QuietRInv ==
  ASSUME RInv, PInv', UNCHANGED attempts,
         \A r \in Requests : reqs'[r] = reqs[r] \/ reqs'[r].pc \notin Reading
  PROVE  RInv'
<1>1. \A r \in Requests : CopyIn(attempts, reqs'[r])
  BY DEF RInv, CopyIn, Reading
<1> QED BY <1>1 DEF RInv

\* A step that writes no row and gives request r a copy.
LEMMA CopyRInv ==
  ASSUME RInv, PInv', UNCHANGED attempts, NEW r \in Requests, NEW q,
         reqs' = [reqs EXCEPT ![r] = q], CopyIn(attempts, q)
  PROVE  RInv'
<1>1. \A p \in Requests : reqs'[p] = IF p = r THEN q ELSE reqs[p]
  BY DEF RInv, PInv, TypeOK
<1>2. \A p \in Requests : CopyIn(attempts, reqs'[p])
  BY <1>1 DEF RInv
<1> QED BY <1>2 DEF RInv

\* A row replaced by a coherent one with the same start, which stays closed if it was:
\* the copies that were not to be saved are not to be saved still.
LEMMA RowRInv ==
  ASSUME RInv, PInv', NEW a \in Attempts, NEW t \in AttemptStates, Told(t),
         attempts' = [attempts EXCEPT ![a] = t],
         attempts[a] # None =>
           /\ t.startedAt = attempts[a].startedAt
           /\ attempts[a].status \in Final => t.status = attempts[a].status,
         \A r \in Requests : reqs'[r] = reqs[r] \/ reqs'[r].pc \notin Reading
  PROVE  RInv'
<1>1. \A b \in Attempts : attempts'[b] = IF b = a THEN t ELSE attempts[b]
  BY DEF RInv, PInv, TypeOK
<1>2. \A b \in Attempts : attempts'[b] # None => Told(attempts'[b])
  BY <1>1 DEF RInv
<1>3. ASSUME NEW r \in Requests
      PROVE  CopyIn(attempts', reqs'[r])
  <2>1. CASE reqs'[r].pc \notin Reading
    BY <2>1 DEF CopyIn, Reading
  <2>2. CASE reqs'[r] = reqs[r] /\ reqs[r].pc \in Reading
    <3> DEFINE q == reqs[r]
    <3>1. q.attempt \in Attempts /\ attempts[q.attempt] # None /\ CopyIn(attempts, q)
      BY <2>2 DEF RInv, PInv, ReqOK, SoundIn, Reading
    <3>2. attempts'[q.attempt].startedAt = attempts[q.attempt].startedAt
      BY <1>1, <3>1
    <3>3. Regresses(attempts[q.attempt], q.copy) => Regresses(attempts'[q.attempt], q.copy)
      BY <1>1, <3>1 DEF Regresses
    <3> HIDE DEF q
    <3>4. CopyIn(attempts', q)
      BY <3>1, <3>2, <3>3 DEF CopyIn
    <3> QED BY <2>2, <3>4 DEF q
  <2> QED BY <2>1, <2>2
<1> QED BY <1>2, <1>3 DEF RInv

LEMMA LoadRowRInv ==
  ASSUME RInv, PInv', NEW r \in Requests, LoadRow(r)
  PROVE  RInv'
<1> DEFINE q == reqs[r]
           row == attempts[q.attempt]
           t == [row EXCEPT !.events = <<>>]
           next == [q EXCEPT !.pc = "events", !.copy = t]
<1>1. /\ reqs' = [reqs EXCEPT ![r] = next] /\ UNCHANGED attempts /\ q \in RequestStates
      /\ row \in AttemptStates /\ Told(row)
  BY DEF LoadRow, RInv, PInv, TypeOK, ReqOK, SoundIn
<1>2. Graded(row)
  BY <1>1, ToldParts
<1>3. /\ t.startedAt = row.startedAt /\ t.status = row.status /\ t.chosen = row.chosen
      /\ t.isCorrect = row.isCorrect
  BY <1>1 DEF AttemptStates
<1>4. next.pc = "events" /\ next.copy = t /\ next.attempt = q.attempt
  BY <1>1 DEF RequestStates
<1> HIDE DEF next, t
<1>5. CopyIn(attempts, next)
  BY <1>2, <1>3, <1>4 DEF CopyIn, Graded
<1> QED BY <1>1, <1>5, CopyRInv

LEMMA LoadEventsRInv ==
  ASSUME RInv, PInv', NEW r \in Requests, LoadEvents(r)
  PROVE  RInv'
<1> DEFINE q == reqs[r]
           row == attempts[q.attempt]
           t == [q.copy EXCEPT !.events = row.events]
           u == Transformed(q, t)
           next == [q EXCEPT !.pc = "save", !.copy = u]
<1>1. /\ UNCHANGED attempts /\ q \in RequestStates /\ q.pc = "events" /\ TypeOK
      /\ row \in AttemptStates /\ Told(row) /\ q.copy \in AttemptStates /\ CopyIn(attempts, q)
      /\ q.step \in {"answer", "submit", "skip"}
  BY DEF LoadEvents, RInv, PInv, TypeOK, ReqOK, SoundIn
<1>2. CASE End(r, "failed", None)
  <2>1. reqs' = [reqs EXCEPT ![r] = EndRecord(r, "failed", None)]
        /\ EndRecord(r, "failed", None).pc = "failed"
    BY <1>1, <1>2, EndFacts DEF Ended
  <2>2. \A p \in Requests : reqs'[p] = reqs[p] \/ reqs'[p].pc \notin Reading
    BY <1>1, <2>1 DEF TypeOK, Reading
  <2> QED BY <1>1, <2>2, QuietRInv
<1>3. CASE Allowed(q, t) /\ reqs' = [reqs EXCEPT ![r] =
              [@ EXCEPT !.pc = "save", !.copy = Transformed(q, t)]]
  <2>1. /\ t \in AttemptStates /\ t.events = row.events /\ t.status = q.copy.status
        /\ t.startedAt = row.startedAt /\ t.chosen = q.copy.chosen
        /\ t.isCorrect = q.copy.isCorrect
    BY <1>1 DEF AttemptStates, CopyIn
  <2>2. reqs' = [reqs EXCEPT ![r] = next]
    BY <1>3
  <2> HIDE DEF t
  <2>3. t.status = "in_progress"
    BY <1>3 DEF Allowed, Submittable, Takes
  <2>4. Follows(t, row)
    BY <1>1, <2>1, <2>3 DEF Follows, CopyIn
  <2>5. u.startedAt = row.startedAt /\ (Regresses(row, u) \/ Told(u))
    BY <1>1, <1>3, <2>4, TransformedTold
  <2> HIDE DEF u
  <2>6. next.pc = "save" /\ next.copy = u /\ next.attempt = q.attempt
    BY <1>1 DEF RequestStates
  <2> HIDE DEF next
  <2>7. CopyIn(attempts, next)
    BY <2>5, <2>6 DEF CopyIn
  <2> QED BY <1>1, <2>2, <2>7, CopyRInv
<1> QED BY <1>2, <1>3 DEF LoadEvents

LEMMA SaveRInv ==
  ASSUME RInv, PInv', NEW r \in Requests, Save(r)
  PROVE  RInv'
<1> DEFINE q == reqs[r]
           a == q.attempt
           t == q.copy
<1>0. q \in RequestStates /\ q.pc = "save" /\ TypeOK /\ PInv /\ CopyIn(attempts, q)
  BY DEF Save, RInv, PInv, TypeOK
<1>1. CASE Regresses(attempts[a], t)
  <2>1. End(r, "failed", None) /\ UNCHANGED attempts
    BY <1>1 DEF Save
  <2>2. reqs' = [reqs EXCEPT ![r] = EndRecord(r, "failed", None)]
        /\ EndRecord(r, "failed", None).pc = "failed"
    BY <1>0, <2>1, EndFacts DEF Ended
  <2>3. \A p \in Requests : reqs'[p] = reqs[p] \/ reqs'[p].pc \notin Reading
    BY <1>0, <2>2 DEF TypeOK, Reading
  <2> QED BY <2>1, <2>3, QuietRInv
<1>2. CASE ~Regresses(attempts[a], t)
  <2>1. /\ a \in Attempts /\ attempts[a] # None /\ t \in AttemptStates
        /\ attempts' = [attempts EXCEPT ![a] = t]
        /\ attempts[a].status \in Final => t.status = attempts[a].status
    BY <1>0, <1>2, SaveEffect
  <2>2. Told(t) /\ t.startedAt = attempts[a].startedAt
    BY <1>0, <1>2 DEF CopyIn
  <2>3. \A p \in Requests : reqs'[p] = reqs[p] \/ reqs'[p].pc \notin Reading
    <3>1. reqs' = [reqs EXCEPT ![r] =
            IF q.step = "answer" THEN [q EXCEPT !.pc = "load", !.step = "submit", !.copy = None]
            ELSE [q EXCEPT !.pc = "reread", !.copy = None]]
      BY <1>2 DEF Save
    <3>2. /\ [q EXCEPT !.pc = "load", !.step = "submit", !.copy = None].pc = "load"
          /\ [q EXCEPT !.pc = "reread", !.copy = None].pc = "reread"
      BY <1>0 DEF RequestStates
    <3> QED BY <1>0, <3>1, <3>2 DEF TypeOK, Reading
  <2> QED BY <2>1, <2>2, <2>3, RowRInv
<1> QED BY <1>1, <1>2

LEMMA CreateRInv ==
  ASSUME RInv, PInv', NEW r \in Requests, Create(r)
  PROVE  RInv'
<1> DEFINE q == reqs[r]
<1>0. q \in RequestStates /\ TypeOK /\ q.question \in Questions /\ q.at \in Nat
  BY DEF RInv, PInv, TypeOK, RequestStates, ReqOK, SoundIn, Create, Starting
<1>1. CASE reqs' = [reqs EXCEPT ![r].pc = "refind"] /\ UNCHANGED <<attempts, locks>>
  <2>1. \A p \in Requests : reqs'[p] = reqs[p] \/ reqs'[p].pc \notin Reading
    BY <1>0, <1>1 DEF TypeOK, RequestStates, Reading
  <2> QED BY <1>1, <2>1, QuietRInv
<1>2. ASSUME NEW a \in Attempts, attempts[a] = None,
             attempts' = [attempts EXCEPT ![a] = Started(q.question, q.at)], End(r, "done", a)
      PROVE  RInv'
  <2> DEFINE t == Started(q.question, q.at)
  <2>1. t \in AttemptStates
    BY <1>0, StartedState
  <2>2. Told(t)
    BY DEF Told, Coherent, ClosedAs, Started
  <2>3. reqs' = [reqs EXCEPT ![r] = EndRecord(r, "done", a)] /\ EndRecord(r, "done", a).pc = "done"
    BY <1>0, <1>2, EndFacts DEF Ended
  <2>4. \A p \in Requests : reqs'[p] = reqs[p] \/ reqs'[p].pc \notin Reading
    BY <1>0, <2>3 DEF TypeOK, Reading
  <2> HIDE DEF t
  <2>5. attempts' = [attempts EXCEPT ![a] = t]
    BY <1>2 DEF t
  <2> QED BY <1>2, <2>1, <2>2, <2>4, <2>5, RowRInv
<1> QED BY <1>1, <1>2 DEF Create

\* The other steps of a request leave it without a copy.
LEMMA OtherRInv ==
  ASSUME RInv, PInv', NEW r \in Requests,
         Ask(r) \/ Enter(r) \/ Find(r) \/ Refind(r) \/ Reread(r) \/ Fail(r)
  PROVE  RInv'
<1>1. TypeOK /\ reqs[r] \in RequestStates
  BY DEF RInv, PInv, TypeOK
<1>2. UNCHANGED attempts
  BY DEF Ask, AskStart, AskSubmit, AskSkip, Enter, Find, Refind, Reread, Fail
<1>3. \E q : reqs' = [reqs EXCEPT ![r] = q] /\ q.pc \notin Reading
  <2>1. ASSUME NEW pc \in {"done", "failed"}, NEW a, End(r, pc, a)
        PROVE  reqs' = [reqs EXCEPT ![r] = EndRecord(r, pc, a)] /\ EndRecord(r, pc, a).pc = pc
    BY <2>1 DEF End, EndRecord, Idle
  <2>2. CASE Ask(r)
    <3>1. ASSUME NEW s, NEW x, AskStart(r, s, x)
          PROVE  \E q : reqs' = [reqs EXCEPT ![r] = q] /\ q.pc \notin Reading
      <4> DEFINE q == [reqs[r] EXCEPT !.pc = "queued", !.step = "start", !.server = s,
                                      !.question = x, !.at = now]
      <4>1. reqs' = [reqs EXCEPT ![r] = q] /\ q.pc = "queued"
        BY <1>1, <3>1 DEF AskStart, RequestStates
      <4> QED BY <4>1 DEF Reading
    <3>2. ASSUME NEW a, NEW answer, AskSubmit(r, a, answer)
          PROVE  \E q : reqs' = [reqs EXCEPT ![r] = q] /\ q.pc \notin Reading
      <4> DEFINE q == [reqs[r] EXCEPT !.pc = "load", !.step = "answer", !.attempt = a,
                                      !.answer = answer, !.at = now]
      <4>1. reqs' = [reqs EXCEPT ![r] = q] /\ q.pc = "load"
        BY <1>1, <3>2 DEF AskSubmit, RequestStates
      <4> QED BY <4>1 DEF Reading
    <3>3. ASSUME NEW a, AskSkip(r, a)
          PROVE  \E q : reqs' = [reqs EXCEPT ![r] = q] /\ q.pc \notin Reading
      <4> DEFINE q == [reqs[r] EXCEPT !.pc = "load", !.step = "skip", !.attempt = a, !.at = now]
      <4>1. reqs' = [reqs EXCEPT ![r] = q] /\ q.pc = "load"
        BY <1>1, <3>3 DEF AskSkip, RequestStates
      <4> QED BY <4>1 DEF Reading
    <3> QED BY <2>2, <3>1, <3>2, <3>3 DEF Ask
  <2>3. CASE Enter(r)
    <3>1. reqs' = [reqs EXCEPT ![r] = [reqs[r] EXCEPT !.pc = "find"]]
      BY <2>3 DEF Enter
    <3>2. [reqs[r] EXCEPT !.pc = "find"].pc = "find"
      BY <1>1 DEF RequestStates
    <3> QED BY <3>1, <3>2 DEF Reading
  <2>4. CASE Find(r)
    <3>1. CASE reqs' = [reqs EXCEPT ![r].pc = "create"]
      <4>1. reqs' = [reqs EXCEPT ![r] = [reqs[r] EXCEPT !.pc = "create"]]
        BY <3>1
      <4>2. [reqs[r] EXCEPT !.pc = "create"].pc = "create"
        BY <1>1 DEF RequestStates
      <4> QED BY <4>1, <4>2 DEF Reading
    <3>2. ASSUME NEW a, End(r, "done", a)
          PROVE  \E q : reqs' = [reqs EXCEPT ![r] = q] /\ q.pc \notin Reading
      BY <2>1, <3>2 DEF Reading
    <3> QED BY <2>4, <3>1, <3>2 DEF Find
  <2>5. CASE Refind(r) \/ Reread(r) \/ Fail(r)
    <3>1. \E pc \in {"done", "failed"}, a \in Attempts \cup {None, reqs[r].attempt} : End(r, pc, a)
      BY <2>5 DEF Refind, Reread, Fail, OpenOn
    <3> QED BY <2>1, <3>1 DEF Reading
  <2> QED BY <2>2, <2>3, <2>4, <2>5
<1>4. \A p \in Requests : reqs'[p] = reqs[p] \/ reqs'[p].pc \notin Reading
  BY <1>1, <1>3 DEF TypeOK
<1> QED BY <1>2, <1>4, QuietRInv

\* Every row is coherent, and a copy that is not will not be saved, since its row has
\* closed otherwise in the meantime.
THEOREM RInvHolds == Spec => []RInv
<1>1. Init => RInv
  <2> SUFFICES ASSUME Init PROVE RInv
    OBVIOUS
  <2>1. PInv
    BY InitPInv
  <2> QED BY <2>1 DEF RInv, Init, CopyIn, Idle
<1>2. RInv /\ PInv' /\ [Next]_vars => RInv'
  <2> SUFFICES ASSUME RInv, PInv', [Next]_vars PROVE RInv'
    OBVIOUS
  <2>1. ASSUME NEW r \in Requests, Ask(r) \/ Serve(r) \/ Fail(r)
        PROVE  RInv'
    BY <2>1, OtherRInv, LoadRowRInv, LoadEventsRInv, SaveRInv, CreateRInv DEF Serve
  <2>2. CASE Tick \/ UNCHANGED vars
    BY <2>2, QuietRInv DEF Tick, vars
  <2> QED BY <2>1, <2>2 DEF Next
<1> QED BY <1>1, <1>2, PInvHolds, PTL DEF Spec

\* Handlers write whole rows computed from a row and a log that were read at different
\* times, and every row tells one story all the same.
THEOREM RowsStayCoherent == Spec => []RowsCoherent
<1>1. RInv => RowsCoherent
  BY DEF RInv, Told, RowsCoherent
<1> QED BY <1>1, RInvHolds, PTL

=============================================================================
