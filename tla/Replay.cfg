SPECIFICATION FairSpec
CONSTANTS
  p1 = p1  p2 = p2  None = None
  Partition = {p1, p2}
  Log0 <- BacklogLog
  Processed <- BacklogProcessed
  Since = {"earliest", "timestamp"}
  MaxLen = 2
  MaxAdverse = 2
INVARIANTS NothingSkipped
PROPERTIES WindowDeliveredAgain
