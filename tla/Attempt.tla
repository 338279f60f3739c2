------------------------------- MODULE Attempt -------------------------------
(***************************************************************************)
(* The attempt lifecycle: pure functions from an attempt and a time to the *)
(* attempt that follows, each with the condition under which it does not   *)
(* throw.  Events carry the observable behaviour; the answer that is       *)
(* graded is derived from them.                                            *)
(***************************************************************************)
EXTENDS Integers, Sequences, FiniteSetsExt

CONSTANTS
  None,
  Questions,
  Answers,     \* what a student can send
  Options,     \* Options[q]: the answers question q accepts
  Correct      \* Correct[q]: the authoritative answer of q

ASSUME QuestionsAssumption ==
  /\ Options \in [Questions -> SUBSET Answers]
  /\ Correct \in [Questions -> Answers]
  /\ None \notin Answers

Final == {"submitted", "skipped", "abandoned"}

Events ==
  [type : {"answer_selected", "answer_submitted", "question_skipped"}, at : Nat,
   answer : Answers \cup {None}]

\* null, true and false.
Verdicts == {"none", "correct", "incorrect"}

AttemptStates ==
  [question : Questions, status : Final \cup {"in_progress"}, startedAt : Nat,
   finalizedAt : Nat, chosen : Answers \cup {None}, isCorrect : Verdicts,
   events : Seq(Events)]

Started(q, now) ==
  [question |-> q, status |-> "in_progress", startedAt |-> now, finalizedAt |-> 0,
   chosen |-> None, isCorrect |-> "none", events |-> <<>>]

\* The latest time the attempt knows of.
LatestAt(t) == IF t.events = <<>> THEN t.startedAt ELSE t.events[Len(t.events)].at

\* Open, and now is not before anything already recorded.
Takes(t, now) ==
  /\ t.status = "in_progress"
  /\ t.startedAt <= now
  /\ LatestAt(t) <= now

Selections(t) == {i \in DOMAIN t.events : t.events[i].type = "answer_selected"}

\* Mutant of FinalAnswer: the first answer recorded.
FirstAnswer(t) == IF Selections(t) = {} THEN None ELSE t.events[Min(Selections(t))].answer

\* The last answer recorded, or None.
FinalAnswer(t) == IF Selections(t) = {} THEN None ELSE t.events[Max(Selections(t))].answer

Recorded(t, event) == [t EXCEPT !.events = Append(@, event)]

AnswerSelected(t, answer, now) ==
  Recorded(t, [type |-> "answer_selected", at |-> now, answer |-> answer])

\* The one place every terminal transition goes through.
Finalized(t, status, now, chosen, verdict) ==
  [t EXCEPT !.status = status, !.finalizedAt = now, !.chosen = chosen, !.isCorrect = verdict]

Submittable(t, now) ==
  /\ Takes(t, now)
  /\ FinalAnswer(t) \in Options[t.question]

Submitted(t, now) ==
  LET answer == FinalAnswer(t) IN
  Finalized(Recorded(t, [type |-> "answer_submitted", at |-> now, answer |-> answer]),
            "submitted", now, answer,
            IF answer = Correct[t.question] THEN "correct" ELSE "incorrect")

Skipped(t, now) ==
  Finalized(Recorded(t, [type |-> "question_skipped", at |-> now, answer |-> None]),
            "skipped", now, None, "none")

Abandoned(t, now) == Finalized(t, "abandoned", now, None, "none")

-----------------------------------------------------------------------------
\* The attempt tells one story: its timeline runs forward from its start, nothing but a
\* repetition follows the event that closed it, and a submitted attempt is graded on the
\* last answer of that timeline against the authoritative one.
Coherent(t) ==
  /\ \A i \in DOMAIN t.events : t.startedAt <= t.events[i].at
  /\ \A i, j \in DOMAIN t.events : i < j => t.events[i].at <= t.events[j].at
  /\ \A i \in DOMAIN t.events :
       t.events[i].type # "answer_selected" =>
         /\ t.status \in Final
         /\ \A j \in i + 1 .. Len(t.events) :
              t.events[j].type = t.events[i].type /\ t.events[j].answer = t.events[i].answer
  /\ t.status = "submitted" =>
       /\ \E i \in Selections(t) :
            /\ t.events[i].answer = t.chosen
            /\ \A j \in Selections(t) : j <= i
       /\ t.chosen \in Options[t.question]
       /\ t.isCorrect = "correct" <=> t.chosen = Correct[t.question]
       /\ t.events[Len(t.events)].type = "answer_submitted"
       /\ t.events[Len(t.events)].answer = t.chosen
  /\ t.status # "submitted" => t.chosen = None /\ t.isCorrect = "none"

=============================================================================
