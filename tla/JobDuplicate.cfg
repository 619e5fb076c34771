\* A lost lock on the only worker: the duplicate fails a completed job.
SPECIFICATION Spec
CONSTANTS
  j1 = j1
  w1 = w1
  Jobs = {j1}
  InvalidJobs = {}
  Workers = {w1}
  MaxAttempts = 2
  MaxStalled = 1
  Faults = {"lock"}
PROPERTIES
  DuplicateIsSkipped
CHECK_DEADLOCK FALSE
