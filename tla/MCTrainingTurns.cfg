CONSTANTS
  None = None
  Attempts = {a1, a2}
  Questions = {q1, q2}
  Sessions = {b1}
  Systems = {calculation, speed}
  Plans <- TwoQuestions
  Servers = {s1}
  Requests = {r1, r2}
  MaxTime = 0
SPECIFICATION FairSpec
CHECK_DEADLOCK FALSE
INVARIANTS InTurn
PROPERTIES Answered
