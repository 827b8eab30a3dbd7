CONSTANTS
  Tables = {"end_device_definitions", "users"}
  Configured = {"end_device_definitions"}
  MaxBatch = 2
  MaxChanges = 3
  MaxFaults = 2
SPECIFICATION FairSpec
INVARIANTS
  NothingVanishes
  MissedForCause
PROPERTY ImplementsFeed
CHECK_DEADLOCK FALSE
