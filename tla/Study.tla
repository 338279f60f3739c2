------------------------------- MODULE Study --------------------------------
(***************************************************************************)
(* One student's practice between attempts: an explanation is offered for  *)
(* a wrong answer and answered, a confirmed one becomes a repair plan, and *)
(* recommendations, which read the log, the plans and the pool one after   *)
(* the other, choose the next question and bring the plans forward.        *)
(* Requests run on any number of processes; each action is one statement.  *)
(***************************************************************************)
EXTENDS Systems

CONSTANTS
  AttemptIds,   \* ids of attempts
  NewIds,       \* those of the attempts still to come
  Moves,        \* what an attempt may be: [question, out, pace]
  Histories,    \* what may have happened before: [now, log, diagnoses, tokens]
  Pool,         \* the questions published at the start
  Requests,
  Lifetime,     \* how long the token of an explanation is good for
  MaxTime,
  MaxResaves    \* how many times an attempt is saved again

ASSUME StudyAssumption ==
  /\ MaxTime \in Nat /\ Lifetime \in Nat /\ MaxResaves \in Nat
  /\ AttemptIds \subseteq Nat /\ NewIds \subseteq AttemptIds
  /\ Pool \subseteq Questions
  /\ Moves \subseteq [question : Questions, out : Outcomes, pace : Nat]
  /\ None \notin Plans

\* A diagnosis with an answer, the plan of a confirmed one carried as far as the log goes.
Diagnosed(a, d, log, now) ==
  /\ d \in [answer : {"confirmed", "rejected", "corrected"}, at : 0..now,
             plan : {None} \cup Plans]
  /\ d.plan # None => /\ d.answer = "confirmed" /\ d.plan.attempt = a
                      /\ Rank(d.plan.status) <= Rank(Lifecycle(d.plan, log))

\* What a student may have done by now.
ASSUME HistoryAssumption ==
  \A h \in Histories :
    /\ h.now \in 0..MaxTime
    /\ h.log \subseteq Attempts(AttemptIds \ NewIds, Nat, 0..h.now) /\ IsFiniteSet(h.log)
    /\ \A a, b \in h.log : a.id = b.id => a = b
    /\ \A a \in DOMAIN h.diagnoses :
         /\ a \in {b.id : b \in Missed(h.log)}
         /\ \/ h.diagnoses[a] = [answer |-> "open", at |-> None, plan |-> None]
            \/ Diagnosed(a, h.diagnoses[a], {b \in h.log : b.question \in Pool}, h.now)
    /\ \A token \in h.tokens : token.attempt \in DOMAIN h.diagnoses /\ token.expires \in Nat

VARIABLES
  clock,
  pool,        \* the published questions of the exam
  attempts,    \* finalized attempts
  late,        \* [id, by]: other submits of an attempt loaded it open, by that moment
  overwritten, \* the attempts as they were before they were saved again
  diagnoses,   \* attempt -> its row of autopsies with the plan made of it
  tokens,      \* sealed tokens handed out
  requests

\* The attempts with what is still to come of them and what they were.
history == <<attempts, late, overwritten>>

vars == <<clock, pool, history, diagnoses, tokens, requests>>

NoOffer == [answer |-> "none", at |-> None, plan |-> None]

Open == [answer |-> "open", at |-> None, plan |-> None]

Idle == [phase |-> "idle"]

Init ==
  /\ pool = Pool
  /\ \E h \in Histories :
       /\ clock = h.now /\ attempts = h.log /\ late = {} /\ overwritten = {}
       /\ tokens = h.tokens
       /\ diagnoses = [a \in AttemptIds |->
                         IF a \in DOMAIN h.diagnoses THEN h.diagnoses[a] ELSE NoOffer]
  /\ requests = [r \in Requests |-> Idle]

Attempt(id) == CHOOSE a \in attempts : a.id = id

\* A recommendation is told once there is no row left to bring forward.
Free(r) ==
  \/ requests[r].phase \in {"idle", "done"}
  \/ requests[r].phase = "advance" /\ requests[r].todo = {}

At(r, phase) == requests[r].phase = phase

Set(r, request) == requests' = [requests EXCEPT ![r] = request]

\* The attempts whose question is in the pool.
Records(log, published) == {a \in log : a.question \in published}

----------------------------------------------------------------------------
(* Around the requests.                                                   *)

\* An attempt as it is saved, submitted or skipped.
Finalized(id, m, at) ==
  [id |-> id, question |-> m.question, out |-> m.out, pace |-> m.pace, at |-> at]

\* An attempt is committed; its time was read before, perhaps a moment ago.
Practise ==
  /\ \E id \in NewIds \ {a.id : a \in attempts}, m \in Moves, at \in {clock - 1, clock} :
       /\ m.question \in pool
       /\ attempts' = attempts \cup {Finalized(id, m, at)}
       /\ late' = late \cup {[id |-> id, by |-> clock]}
  /\ UNCHANGED <<clock, pool, overwritten, diagnoses, tokens, requests>>

\* Another submit, or another skip, that had found the attempt open saves its own row over
\* the committed one: the answer, its grade and its time are those of the last to save.
Resave ==
  /\ Cardinality(overwritten) < MaxResaves
  /\ \E l \in late, m \in Moves :
       \E a \in attempts, at \in {l.by - 1, l.by} :
         /\ a.id = l.id /\ m.question = a.question
         /\ m.out = "skipped" <=> a.out = "skipped"
         /\ attempts' = (attempts \ {a}) \cup {Finalized(a.id, m, at)}
         /\ overwritten' = overwritten \cup {a}
  /\ UNCHANGED <<clock, pool, late, diagnoses, tokens, requests>>

\* Nothing in the application takes a published question back.
Publish ==
  /\ \E q \in Questions \ pool : pool' = pool \cup {q}
  /\ UNCHANGED <<clock, history, diagnoses, tokens, requests>>

Tick ==
  /\ clock < MaxTime
  /\ clock' = clock + 1
  /\ UNCHANGED <<pool, history, diagnoses, tokens, requests>>

----------------------------------------------------------------------------
(* generateHypothesis.                                                    *)

Told(a, answer, already) ==
  [phase |-> "done", told |-> "answered", attempt |-> a, answer |-> answer,
   already |-> already]

\* The stored offer with a token for it, or the answer it already has.
Issue(r, a, stored, now) ==
  IF stored.answer # "open"
  THEN /\ Set(r, Told(a, stored.answer, TRUE))
       /\ UNCHANGED tokens
  ELSE /\ Set(r, [phase |-> "done", told |-> "ready", attempt |-> a])
       /\ tokens' = tokens \cup {[attempt |-> a, expires |-> now + Lifetime]}

AskWhy(r) ==
  /\ Free(r)
  /\ \E a \in {b.id : b \in Missed(attempts)} :
       IF diagnoses[a] # NoOffer THEN Issue(r, a, diagnoses[a], clock)
       ELSE /\ Set(r, [phase |-> "explain", attempt |-> a, now |-> clock])
            /\ UNCHANGED tokens
  /\ UNCHANGED <<clock, pool, history, diagnoses>>

\* The model proposed; one row for each attempt.
StoreOffer(r) ==
  /\ At(r, "explain")
  /\ LET a      == requests[r].attempt
         stored == IF diagnoses[a] = NoOffer THEN Open ELSE diagnoses[a]
     IN  /\ diagnoses' = [diagnoses EXCEPT ![a] = stored]
         /\ Issue(r, a, stored, requests[r].now)
  /\ UNCHANGED <<clock, pool, history>>

----------------------------------------------------------------------------
(* respondToHypothesis.                                                   *)

Answers == {"confirmed", "rejected", "corrected"}

Respond(r) ==
  /\ Free(r)
  /\ \E token \in tokens, answer \in Answers :
       /\ clock <= token.expires
       /\ IF diagnoses[token.attempt].answer # "open"
          THEN Set(r, Told(token.attempt, diagnoses[token.attempt].answer, TRUE))
          ELSE Set(r, [phase |-> IF answer = "confirmed" THEN "plan" ELSE "write",
                       attempt |-> token.attempt, now |-> clock, answer |-> answer,
                       plan |-> None])
  /\ UNCHANGED <<clock, pool, history, diagnoses, tokens>>

\* What an attempt is and was.
Versions(id) == {a \in attempts \cup overwritten : a.id = id}

\* The plan is composed from the history as it is now. An explanation that was made while
\* the answer stood as a right one names no category, and nothing is planned for it.
ComposePlan(r) ==
  /\ At(r, "plan")
  /\ LET q == requests[r]
         plan == PlanFor(Attempt(q.attempt), Records(attempts, pool), q.now)
     IN  \E p \in {plan} \cup IF Right(Versions(q.attempt)) = {} THEN {} ELSE {None} :
           Set(r, [q EXCEPT !.phase = "write", !.plan = p])
  /\ UNCHANGED <<clock, pool, history, diagnoses, tokens>>

\* Mutant of Unanswered: the last answer stands.
Whatever(stored) == TRUE

Unanswered(stored) == stored.answer = "open"

\* The answer and its plan, if nobody answered before.
RecordAnswer(r) ==
  /\ At(r, "write")
  /\ LET q   == requests[r]
         won == Unanswered(diagnoses[q.attempt])
     IN  /\ IF won
            THEN diagnoses' = [diagnoses EXCEPT ![q.attempt] =
                                 [answer |-> q.answer, at |-> q.now, plan |-> q.plan]]
            ELSE UNCHANGED diagnoses
         /\ Set(r, [phase |-> "reread", attempt |-> q.attempt, already |-> ~won,
                    answer |-> q.answer])
  /\ UNCHANGED <<clock, pool, history, tokens>>

\* Mutant of Stands: the answer the request came with.
Brought(q) == q.answer

Stands(q) == diagnoses[q.attempt].answer

Reread(r) ==
  /\ At(r, "reread")
  /\ LET q == requests[r] IN Set(r, Told(q.attempt, Stands(q), q.already))
  /\ UNCHANGED <<clock, pool, history, diagnoses, tokens>>

----------------------------------------------------------------------------
(* The recommendation.                                                    *)

\* The attempts whose confirmed plan is not completed in its row.
Confirmed == {a \in AttemptIds : diagnoses[a].answer = "confirmed" /\ diagnoses[a].plan # None}

Over(log) == {a \in Confirmed : Lifecycle(diagnoses[a].plan, log) = "completed"}

\* `over` is what was over when the request came: nobody tells the request.
ReadLog(r) ==
  /\ Free(r)
  /\ Set(r, [phase |-> "log", seen |-> attempts, over |-> Over(Records(attempts, pool))])
  /\ UNCHANGED <<clock, pool, history, diagnoses, tokens>>

ReadPlans(r) ==
  /\ At(r, "log")
  /\ LET rows == {a \in Confirmed : diagnoses[a].plan.status # "completed"}
     IN  Set(r, [phase |-> "plans", seen |-> requests[r].seen, over |-> requests[r].over,
                 plans |-> {diagnoses[a].plan : a \in rows}])
  /\ UNCHANGED <<clock, pool, history, diagnoses, tokens>>

\* Mutant of Active: the rows are believed.
AsStored(plans, log) == {p \in plans : p.status # "completed"}

\* The plans that are still active, whatever their rows say.
Active(plans, log) == {p \in plans : Lifecycle(p, log) # "completed"}

\* The rows to bring forward.
Behind(plans, log) ==
  {[attempt |-> p.attempt, to |-> Lifecycle(p, log)] :
     p \in {o \in plans : Lifecycle(o, log) \notin {"pending", o.status}}}

Choose(r) ==
  /\ At(r, "plans")
  /\ LET q   == requests[r]
         log == Records(q.seen, pool)
     IN  \E pressed \in {None} \cup Pressed(log) :
           \E told \in Recommendation(pool, log, Active(q.plans, log), pressed) :
             Set(r, [phase |-> "advance", todo |-> Behind(q.plans, log), over |-> q.over,
                     via |-> told.via, question |-> told.question, plan |-> told.plan,
                     last |-> JustAttempted(log), only |-> Cardinality(pool) = 1])
  /\ UNCHANGED <<clock, pool, history, diagnoses, tokens>>

\* Forward only, and best effort: a write that fails is forgotten.
Advance(r) ==
  /\ At(r, "advance")
  /\ \E t \in requests[r].todo :
       /\ \/ /\ Rank(diagnoses[t.attempt].plan.status) < Rank(t.to)
             /\ diagnoses' = [diagnoses EXCEPT ![t.attempt].plan.status = t.to]
          \/ UNCHANGED diagnoses
       /\ Set(r, [requests[r] EXCEPT !.todo = @ \ {t}])
  /\ UNCHANGED <<clock, pool, history, tokens>>

\* A failure, of the model too, ends a request wherever it stands.
Fail(r) ==
  /\ ~Free(r)
  /\ Set(r, Idle)
  /\ UNCHANGED <<clock, pool, history, diagnoses, tokens>>

Next ==
  \/ Practise \/ Resave \/ Publish \/ Tick
  \/ \E r \in Requests :
       \/ AskWhy(r) \/ StoreOffer(r)
       \/ Respond(r) \/ ComposePlan(r) \/ RecordAnswer(r) \/ Reread(r)
       \/ ReadLog(r) \/ ReadPlans(r) \/ Choose(r) \/ Advance(r)
       \/ Fail(r)

Spec == Init /\ [][Next]_vars

----------------------------------------------------------------------------
(* Properties.                                                             *)

\* A stored answer and the request that carries it are never at odds, whoever else answers,
\* asks or is recommended to meanwhile: one explanation per wrong answer, the first response
\* stands, a plan comes with a confirmation alone and its row never goes back (the WHERE
\* clauses of offer, respond and advanceStatus).
D == INSTANCE Diagnosis WITH life <- diagnoses, Moments <- 0..MaxTime

KeepsDiagnosis == D!Spec

\* A student is told the answer that is stored, even when another request of theirs answered
\* first, and at most one request is told that its own answer was the one recorded.
ToldAsStored ==
  LET told == {r \in Requests : /\ requests[r].phase = "done"
                                /\ requests[r].told = "answered"}
  IN  /\ \A r \in told : requests[r].answer = diagnoses[requests[r].attempt].answer
      /\ \A r, s \in told : /\ requests[r].attempt = requests[s].attempt
                            /\ ~requests[r].already
                            /\ ~requests[s].already
                            => r = s

\* The attempts, those of S as they were before they were saved again.
With(S) == {a \in attempts : a.id \notin {b.id : b \in S}} \cup S

OneEach(S) == \A a, b \in S : a.id = b.id => a = b

\* What may have been read of the attempts: each as it is, or as it was.
Readings ==
  {Records(With(S), pool) : S \in {T \in SUBSET overwritten : OneEach(T)}}

\* The status in the row of a plan is one the attempts have reached, however old the log it
\* was computed from: a recommendation that writes late never marks a repair as further than
\* the student is, and what was reached once is not lost by more practice. An attempt that
\* was saved again may have been counted as it was before, once: the row is not taken back.
StatusEarned ==
  \A a \in Confirmed :
    \E log \in Readings :
      Rank(diagnoses[a].plan.status) <= Rank(Lifecycle(diagnoses[a].plan, log))

\* A plan that was over when a recommendation was asked for is not recommended any more,
\* although its row may still call it pending.
RepairEnds ==
  \A r \in Requests :
    requests[r].phase = "advance" /\ requests[r].via = "targeted_repair"
      => requests[r].plan \notin requests[r].over

\* No recommendation, of any of the seven kinds, is the question just attempted, unless it
\* was the only one there was.
NoRepeat ==
  \A r \in Requests :
    requests[r].phase = "advance" /\ requests[r].via # "no_action" /\ ~requests[r].only
      => requests[r].question # requests[r].last

=============================================================================
