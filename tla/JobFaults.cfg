\* Every fault, one worker, safety and the liveness of the queue.
SPECIFICATION FairSpec
CONSTANTS
  j1 = j1
  w1 = w1
  Jobs = {j1}
  InvalidJobs = {}
  Workers = {w1}
  MaxAttempts = 2
  MaxStalled = 1
  Faults = {"redis", "crash", "lock", "timeout", "db", "ack"}
INVARIANTS
  TypeOK
  NoWorkWhilePending
  BullCompletesResolvedWork
PROPERTIES
  QueueDrains
CHECK_DEADLOCK FALSE
