----------------------------- MODULE MCTraining -----------------------------
(* A small instance of Training: sessions of two questions, and sessions by time.*)
EXTENDS Training, TLC

TwoQuestions == {[questions |-> 2, time |-> None]}

ByTime == {[questions |-> None, time |-> 1]}

Symmetric ==
  Permutations(Attempts) \cup Permutations(Questions) \cup Permutations(Sessions)
    \cup Permutations(Servers) \cup Permutations(Requests) \cup Permutations(Systems)

=============================================================================
