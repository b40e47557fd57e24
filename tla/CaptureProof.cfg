SPECIFICATION CaptureSpec
CONSTANTS
  i1 = i1
  Ingest = {i1}
  Cohort = 1
  MaxRebalance = 1
INVARIANTS CountedOnce CleanupRestores
PROPERTIES DrainedMeansConsumed ReplayMeansConsumed
CHECK_DEADLOCK FALSE
