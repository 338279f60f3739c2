CONSTANTS
  None = None
  Ids = {q1, q2}
  Items <- SmallItems
  Alike <- SmallAlike
  Requests = {r1}
  Reviews <- SmallReviews
  Rederivations <- SmallRederivations
  MaxWork = 4
  Batches <- SmallBatches
  Budget = 2
  Costs <- SmallCosts
SYMMETRY Symmetry
SPECIFICATION Spec
CHECK_DEADLOCK FALSE
INVARIANTS Judged OneIdentity BatchAccounted
PROPERTY KeepsLife
