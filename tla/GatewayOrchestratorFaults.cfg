CONSTANTS
  g1 = g1
  g2 = g2
  c1 = c1
  c2 = c2
  t1 = t1
  t2 = t2
  t3 = t3
  Absent = Absent
  Deleted = Deleted
  NoTask = NoTask
  NoJob = NoJob
  Gateways <- TwoGateways
  Configs <- TwoConfigs
  Tasks <- ThreeTasks
  BatchSize = 2
  MaxChanges = 3
  MaxFaults = 2
  Faults = {"crash", "shutdown", "ackLost", "deliveryLost", "publishFails", "giveUp"}
SPECIFICATION Spec
SYMMETRY TaskSymmetry
INVARIANTS
  NoOrphan
  OneSubscriber
  OneToOneWithoutFaults
  NoForgottenGateway
PROPERTIES
  AckedAfterEffect
  ServesGateways
CHECK_DEADLOCK FALSE
