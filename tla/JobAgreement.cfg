\* A failing database and a failing queue, three attempts.
SPECIFICATION Spec
CONSTANTS
  j1 = j1
  j2 = j2
  w1 = w1
  w2 = w2
  Jobs = {j1, j2}
  InvalidJobs = {j2}
  Workers = {w1, w2}
  MaxAttempts = 3
  MaxStalled = 1
  Faults = {"redis", "db"}
SYMMETRY WorkerSymmetry
INVARIANTS
  CompletedWasEarned
  RecordsAgree
  OneHandlerPerJob
PROPERTIES
  CompletedIsFinal
  ImplementsLifecycle
CHECK_DEADLOCK FALSE
