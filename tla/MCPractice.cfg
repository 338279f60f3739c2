CONSTANTS
  None = None
  q1 = q1
  right = right
  wrong = wrong
  other = other
  Questions = {q1}
  Answers = {right, wrong, other}
  Options <- TwoOptions
  Correct <- TheRight
  Attempts = {a1, a2}
  Requests = {r1, r2, r3}
  Servers = {s1, s2}
  MaxTime = 1
SPECIFICATION FairSpec
CHECK_DEADLOCK FALSE
INVARIANTS RowsCoherent AcknowledgedStands
PROPERTIES KeepsTable Answered
