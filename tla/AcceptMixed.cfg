SPECIFICATION FairSpec
CONSTANTS
  r1 = r1  r2 = r2  r3 = r3  r4 = r4  q1 = q1  q2 = q2  a = a  b = b  k = k
  NoKey = NoKey  Malformed = Malformed  NoOwner = NoOwner
  Req = {r1, r2, r3, r4}
  Read = {q1}
  Pod = {p1}
  KeyOf <- MixedKeys
  BodyOf <- MixedBodies
  Impatient = {r1, r2}
  MaxConns = 2
  MaxAdverse = 1
INVARIANTS ReadsKeepAConnection
PROPERTIES EveryRequestAnswered
