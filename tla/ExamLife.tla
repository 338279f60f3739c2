------------------------------ MODULE ExamLife ------------------------------
(***************************************************************************)
(* What the exam simulations of one enrollment promise: one at a time; an  *)
(* answer is taken only while its simulation runs; once a simulation has   *)
(* ended neither its answers nor the way it ended change.                  *)
(***************************************************************************)
EXTENDS Integers

CONSTANTS None, Sims, Positions, Answers

VARIABLE life

Ended == {"submitted", "expired"}

Lives ==
  [status : Ended \cup {"in_progress"}, answers : [Positions -> Answers \cup {None}]]

TypeOK == life \in [Sims -> Lives \cup {None}]

Fresh == [status |-> "in_progress", answers |-> [p \in Positions |-> None]]

\* Nothing yet, or one simulation that has just started.
Init == \E running \in Sims \cup {None} :
          life = [s \in Sims |-> IF s = running THEN Fresh ELSE None]

Runs(s) == life[s] # None /\ life[s].status = "in_progress"

Open(s) ==
  /\ life[s] = None
  /\ \A t \in Sims : ~Runs(t)
  /\ life' = [life EXCEPT ![s] = Fresh]

Answer(s, p, a) ==
  /\ Runs(s)
  /\ life' = [life EXCEPT ![s].answers[p] = a]

End(s, how) ==
  /\ Runs(s)
  /\ life' = [life EXCEPT ![s].status = how]

Next ==
  \E s \in Sims :
    \/ Open(s)
    \/ \E p \in Positions, a \in Answers : Answer(s, p, a)
    \/ \E how \in Ended : End(s, how)

Spec == Init /\ [][Next]_life

=============================================================================
