CONSTANTS
  c1 = c1
  c2 = c2
  Coordinators = {c1, c2}
  MaxPos = 2
  Initial = 0
SPECIFICATION Spec
SYMMETRY CoordinatorSymmetry
INVARIANTS
  LastIsPersisted
