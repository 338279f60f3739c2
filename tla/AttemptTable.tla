---------------------------- MODULE AttemptTable ----------------------------
(***************************************************************************)
(* What the attempts table promises, one student's view: an attempt is     *)
(* opened once, on one question and possibly in one practice block, and    *)
(* closed once; a question has at most one open attempt; a block numbers   *)
(* its attempts in the order it admits them.                               *)
(***************************************************************************)
EXTENDS Integers, FiniteSetsExt

CONSTANTS None, Attempts, Questions, Blocks

VARIABLE table

Final == {"submitted", "skipped", "abandoned"}

Rows ==
  [question : Questions, status : Final \cup {"in_progress"}, block : Blocks \cup {None},
   place : Nat]

TypeOK == table \in [Attempts -> Rows \cup {None}]

Init == table = [a \in Attempts |-> None]

IsOpen(a) == table[a] # None /\ table[a].status = "in_progress"

OpenOn(q) == {a \in Attempts : IsOpen(a) /\ table[a].question = q}

In(b) == {a \in Attempts : table[a] # None /\ table[a].block = b}

\* The number the next attempt of block b gets; an attempt outside any block has none.
NextPlace(b) == IF b = None THEN 0 ELSE 1 + Max({table[a].place : a \in In(b)} \cup {0})

Open(a, q, b) ==
  /\ table[a] = None
  /\ OpenOn(q) = {}
  /\ table' = [table EXCEPT ![a] =
       [question |-> q, status |-> "in_progress", block |-> b, place |-> NextPlace(b)]]

Close(a, status) ==
  /\ IsOpen(a)
  /\ table' = [table EXCEPT ![a].status = status]

Next ==
  \E a \in Attempts :
    \/ \E q \in Questions, b \in Blocks \cup {None} : Open(a, q, b)
    \/ \E status \in Final : Close(a, status)

Spec == Init /\ [][Next]_table

=============================================================================
