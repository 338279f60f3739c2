CONSTANTS
  None = None
  r1 = r1
  r2 = r2
  Dna <- Five
  AttemptIds <- Ids
  NewIds <- Fresh
  Moves <- SmallMoves
  Histories <- Pasts
  Pool = {1, 2, 3, 5}
  Requests = {r1, r2}
  Lifetime = 1
  MaxTime = 3
  MaxResaves = 1
SYMMETRY Symmetry
SPECIFICATION Spec
CHECK_DEADLOCK FALSE
INVARIANTS ToldAsStored StatusEarned RepairEnds NoRepeat
PROPERTY KeepsDiagnosis
