CONSTANTS
  reading = reading
  heartbeat = heartbeat
  Payloads <- TwoPayloads
  Definitions <- OneDefinition
  RawBatch = 2
  ProcessedBatch = 1
  MaxRaw = 3
  MaxProcessed = 4
  MaxFaults = 1
  Faults = {"deliveryLost", "ackLost", "queryFails", "publishFails", "bufferFails", "flushFails"}
SPECIFICATION SupposedSpec
PROPERTY EventuallyStored
CHECK_DEADLOCK FALSE
