SPECIFICATION Spec
CONSTANTS
  r1 = r1  r2 = r2  r3 = r3  r4 = r4  q1 = q1  q2 = q2  a = a  b = b  k = k
  NoKey = NoKey  Malformed = Malformed  NoOwner = NoOwner
  Req = {r1, r2, r3}
  Read = {}
  Pod = {p1, p2}
  KeyOf <- RetryKeys
  BodyOf <- RetryBodies
  Impatient = {}
  MaxConns = 2
  MaxAdverse = 3
INVARIANTS AcceptedIsDurable SameKeySameEvent AcceptedOnce
PROPERTIES KeepsIngestContract
