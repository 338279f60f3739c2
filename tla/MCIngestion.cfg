CONSTANTS
  None = None
  r1 = r1
  r2 = r2
  Contents = {"book"}
  Layouts = {"fine", "coarse"}
  Text <- TwoCuts
  Foreign = {"novel"}
  Requests = {r1, r2}
SYMMETRY Symmetry
SPECIFICATION Spec
INVARIANTS Converged
PROPERTIES ReviewStands KeepsCorpus
