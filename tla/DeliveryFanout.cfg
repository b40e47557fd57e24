SPECIFICATION Spec
CONSTANTS
  m1 = m1  m2 = m2  p1 = p1  p2 = p2
  Member = {m1}
  Partition = {p1}
  Sub = {1, 2}
  Log <- FanoutLog
  MaxAttempts = 2
  MaxAdverse = 2
INVARIANTS CommittedIsAudited
PROPERTIES DeadLetterComesLast KeepsContract
