SPECIFICATION HistorySpec
CONSTANTS
  r1 = r1  r2 = r2  c1 = c1  c2 = c2  a = a  k = k
  NoKey = NoKey  Malformed = Malformed  NoOwner = NoOwner
  Req = {r1, r2}
  Read = {}
  Pod = {p1}
  KeyOf <- TwoKeys
  BodyOf <- OneBody
  Impatient = {}
  MaxConns = 3
  Recorder = {c1, c2}
  MaxRows = 3
  MaxAdverse = 2
INVARIANTS GapFree NoOrphans
PROPERTIES AttemptsEnd
