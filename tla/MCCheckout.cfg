CONSTANTS
  r3 = r3
  e4 = e4
  e3 = e3
  None = None
  a1 = a1
  a2 = a2
  e1 = e1
  e2 = e2
  f1 = f1
  f2 = f2
  f3 = f3
  p1 = p1
  r1 = r1
  r2 = r2
  s1 = s1
  s2 = s2
  st1 = st1
  Students = {st1}
  Plans = {p1}
  SubIds = {s1, s2}
  Refs = {f1, f2}
  EventIds = {e1, e2}
  Requests = {r1, r2}
  Amounts = {a1, a2}
  Days <- OneUnit
  Echoed = {None}
  MaxTime = 1
  MaxUnlocked = 1
SPECIFICATION Spec
SYMMETRY CheckoutSymmetry
INVARIANTS NoOrphanPayment ChargedAsRecorded
