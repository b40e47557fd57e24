SPECIFICATION Spec
CONSTANTS
  Dated = {"identity", "prices"}
  MaxAge = 1
  Margin = 1
  MaxTime = 2
  MaxPlans = 2
  MaxAdverse = 1
  MaxCommands = 3
INVARIANTS AppliesReviewedPlan InputsHold NoExpiryWithinReserve ImagesAreApproved
CHECK_DEADLOCK FALSE
