CONSTANTS
  Proc = {p1, p2}
  MaxEdits = 1
  MaxKills = 1
SPECIFICATION Spec
SYMMETRY ProcSymmetry
INVARIANTS NothingLeaks PassIsProven ClaimsHold
PROPERTIES PacketsOnlyGrow
CHECK_DEADLOCK FALSE
