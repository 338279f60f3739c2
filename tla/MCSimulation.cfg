CONSTANTS
  None = None
  q1 = q1
  right = right
  wrong = wrong
  Questions = {q1}
  Versions <- Two
  Answers = {right, wrong}
  Offers <- Both
  Sims = {s1, s2}
  Definitions <- Offered
  Entry <- Rows0
  Requests = {r1, r2, r3}
  MaxEdits = 1
  MaxTime = 2
SPECIFICATION Spec
CHECK_DEADLOCK FALSE
SYMMETRY Symmetric
INVARIANTS DeadlineHolds ResultFaithful
PROPERTIES KeepsLife
