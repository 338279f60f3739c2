----------------------------- MODULE Diagnosis ------------------------------
(***************************************************************************)
(* What is promised of the diagnosis of a wrong answer: one explanation is *)
(* offered for it at most, the first answer of the student stands, only a  *)
(* confirmed explanation has a plan, and a plan only moves forward.        *)
(***************************************************************************)
EXTENDS Integers

CONSTANTS None, AttemptIds, Moments

VARIABLE life   \* attempt -> its diagnosis: the answer, its moment, the plan made of it

Answers == {"confirmed", "rejected", "corrected"}

Statuses == <<"pending", "in_progress", "completed">>

NoOffer == [answer |-> "none", at |-> None, plan |-> None]

Open == [answer |-> "open", at |-> None, plan |-> None]

Answered(d) ==
  /\ d.answer \in Answers /\ d.at \in Moments
  /\ d.plan # None => /\ d.answer = "confirmed"
                      /\ \E i \in 1..3 : d.plan.status = Statuses[i]

Init ==
  /\ DOMAIN life = AttemptIds
  /\ \A a \in AttemptIds : life[a] \in {NoOffer, Open} \/ Answered(life[a])

\* The stages of one diagnosis, from d to e.
Offer(d, e) == d = NoOffer /\ e = Open

Answer(d, e) ==
  /\ d = Open
  /\ Answered(e)
  /\ e.plan # None => e.plan.status = "pending"

Forward(d, e) ==
  /\ d.plan # None
  /\ e = [d EXCEPT !.plan.status = e.plan.status]
  /\ \E i, j \in 1..3 : i < j /\ d.plan.status = Statuses[i] /\ e.plan.status = Statuses[j]

Next ==
  \E a \in AttemptIds :
    /\ Offer(life[a], life'[a]) \/ Answer(life[a], life'[a]) \/ Forward(life[a], life'[a])
    /\ life' = [life EXCEPT ![a] = life'[a]]

Spec == Init /\ [][Next]_life

=============================================================================
