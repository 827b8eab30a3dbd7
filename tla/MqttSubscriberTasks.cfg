CONSTANTS
  t1 = t1
  t2 = t2
  NoTask = NoTask
  Tasks <- TwoTasks
  MaxRetries = 3
  MaxMessages = 2
  MaxFaults = 2
SPECIFICATION FairSpec
INVARIANTS
  EndsForAReason
PROPERTIES
  ImplementsContract
  SomeoneListens
CHECK_DEADLOCK FALSE
