SPECIFICATION FairSpec
CONSTANTS
  r1 = r1
  r2 = r2
  c1 = c1
  Res = {r1, r2}
  Capture = {c1}
  MaxAttempts = 2
  MaxSignals = 1
  MaxInterrupts = 1
INVARIANTS OneTerraform DestroyUndisturbed CompleteMeansEmpty FailedCaptureAsks
PROPERTIES SessionEnds
CHECK_DEADLOCK FALSE
