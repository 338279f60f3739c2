----------------------------- MODULE MCPractice -----------------------------
(* A small instance of Practice: questions with two options, and answers outside them. *)
EXTENDS Practice, TLC

CONSTANTS q1, right, wrong, other

TwoOptions == [q \in Questions |-> {right, wrong}]

TheRight == [q \in Questions |-> right]

=============================================================================
