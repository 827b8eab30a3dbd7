CONSTANTS
  Users = {u1, u2}
  Organizations = {o1, o2}
  Gateways = {g1}
  Definitions = {d1}
  Devices = {e1}
  Requests = {r1, r2}
  None = None
  MaxFaults = 1
SPECIFICATION Spec
SYMMETRY Symmetry
INVARIANTS
  SameOrganization
  ListedIsUsable
  OrphanIsInert
  AnswersToMembers
  DevicesResolve
PROPERTIES
  DeletedIsClosed
  RolesStay
CHECK_DEADLOCK FALSE
