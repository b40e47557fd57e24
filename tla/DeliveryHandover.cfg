SPECIFICATION FairSpec
CONSTANTS
  m1 = m1  m2 = m2  p1 = p1  p2 = p2
  Member = {m1, m2}
  Partition = {p1, p2}
  Sub = {1}
  Log <- SpreadLog
  MaxAttempts = 1
  MaxAdverse = 1
INVARIANTS CommittedIsDone NoOvertaking
PROPERTIES DrainsOneRecord EveryRecordCommitted
