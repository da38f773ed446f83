SPECIFICATION Spec
CONSTANTS
  Sessions = {s1}
  MAX_OWNERS = 2
  MAX_RETAINED_LAYOUTS = 2
  MaxTexts = 1
  MaxLayout = 2
SYMMETRY SessionSymmetry
INVARIANT LocksOrdered
CHECK_DEADLOCK FALSE
