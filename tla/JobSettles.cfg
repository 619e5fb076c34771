\* Lost locks and timeouts: every answered submission settles.
SPECIFICATION FairSpec
CONSTANTS
  j1 = j1
  w1 = w1
  w2 = w2
  Jobs = {j1}
  InvalidJobs = {}
  Workers = {w1, w2}
  MaxAttempts = 2
  MaxStalled = 1
  Faults = {"lock", "timeout"}
INVARIANT GuardForgetsFailures
PROPERTIES
  EventuallySettled
CHECK_DEADLOCK FALSE
