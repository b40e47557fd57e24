SPECIFICATION Spec
CONSTANTS
  w1 = w1  w2 = w2
  Work = {w1, w2}
  Grace = 1
  HTTPTime = 4
  AcceptTime = 3
  RecordTime = 3
  WriteTime = 1
  HealthTime = 1
  CloseTime = 1
  FlushTime = 1
  Resources = 3
SYMMETRY WorkSymmetry
INVARIANTS ExitsInTime WorkKeepsResources LeavesNothingOpen
