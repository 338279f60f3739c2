CONSTANTS
  None = None
  s1 = s1
  s2 = s2
  e1 = e1
  e2 = e2
  t1 = t1
  t2 = t2
  address = address
  MaxKeys = 2
  Rules <- Few
  Students = {s1, s2}
  Emails = {e1, e2}
  Tokens = {t1, t2}
  Lifetime = 1
  MaxRetries = 1
  Regenerations = 1
  Requests = {r1, r2}
  Ip = address
  Known <- One
  MaxInFlight = 1
  MaxArrivals = 2
  MaxTime = 1
SPECIFICATION Spec
CHECK_DEADLOCK FALSE
INVARIANTS EndedStaysEnded GateHeld
PROPERTIES ChargedIfTold KeepsAccounts OldestForgotten Answered
