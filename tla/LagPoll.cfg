SPECIFICATION Spec
CONSTANTS
  p1 = p1  p2 = p2  None = None
  Partition = {p1, p2}
  First <- Firsts
  MaxLast = 2
  MaxAdverse = 1
INVARIANTS LagNeverUnderstates TotalNeverUnderstates
