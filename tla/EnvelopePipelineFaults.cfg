CONSTANTS
  reading = reading
  heartbeat = heartbeat
  Payloads <- TwoPayloads
  Definitions <- ChangingDefinitions
  RawBatch = 2
  ProcessedBatch = 2
  MaxRaw = 2
  MaxProcessed = 3
  MaxFaults = 1
  Faults = {"deliveryLost", "ackLost", "queryFails", "publishFails", "bufferFails", "flushFails", "shutdown", "crash"}
SPECIFICATION Spec
INVARIANTS
  NothingVanishes
  RowsAccountedFor
  NoneAfterDeletion
CHECK_DEADLOCK FALSE
