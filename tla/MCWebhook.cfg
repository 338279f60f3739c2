CONSTANTS
  a2 = a2
  r3 = r3
  r2 = r2
  e4 = e4
  f3 = f3
  f2 = f2
  s2 = s2
  None = None
  a1 = a1
  e1 = e1
  e2 = e2
  e3 = e3
  f1 = f1
  p1 = p1
  r1 = r1
  s1 = s1
  st1 = st1
  Students = {st1}
  Plans = {p1}
  SubIds = {s1}
  Refs = {f1}
  EventIds = {e1, e2, e3}
  Requests = {r1}
  Amounts = {a1}
  Days <- OneUnit
  Echoed = {None}
  MaxTime = 2
  MaxUnlocked = 1
SPECIFICATION Spec
SYMMETRY EventSymmetry
INVARIANTS PaidInFull NothingUnpaid RefundRevokes ChecksHold
PROPERTIES KeepsAgreements
