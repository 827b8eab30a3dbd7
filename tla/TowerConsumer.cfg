CONSTANTS
  m1 = m1
  Messages <- OneMessage
  BatchSize = 2
  MaxMessages = 4
  MaxFaults = 2
  Faults = {"deliveryLost", "ackLost", "restart"}
SPECIFICATION FairSpec
INVARIANTS
  SettledIsAccepted
  BatchOutstanding
PROPERTY ImplementsQueue
CHECK_DEADLOCK FALSE
