CONSTANTS
  reading = reading
  heartbeat = heartbeat
  Payloads <- TwoPayloads
  Definitions <- OneDefinition
  RawBatch = 1
  ProcessedBatch = 1
  MaxRaw = 1
  MaxProcessed = 2
  MaxFaults = 1
  Faults = {"shutdown"}
SPECIFICATION Spec
PROPERTY FlushedAtExit
CHECK_DEADLOCK FALSE
