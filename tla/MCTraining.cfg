CONSTANTS
  None = None
  Attempts = {a1, a2}
  Questions = {q1}
  Sessions = {b1, b2}
  Systems = {speed}
  Plans <- ByTime
  Servers = {s1, s2}
  Requests = {r1, r2}
  MaxTime = 1
SPECIFICATION Spec
CHECK_DEADLOCK FALSE
SYMMETRY Symmetric
INVARIANTS OneActive
PROPERTIES AllocatedWhileActive KeepsTable
