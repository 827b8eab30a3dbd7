CONSTANTS
  c1 = c1
  c2 = c2
  NoProcess = NoProcess
  NoCode = NoCode
  Processes <- ThreeProcesses
  Heeding <- OneProcess
  Closers <- TwoClosers
  Streams <- DefaultStreams
  Entities <- DefaultEntities
  BasePolicies <- TwoPolicies
  MaxFaults = 2
SPECIFICATION ProgramSpec
INVARIANTS ClosersLast ExitCodeTellsCause UsesWhatExists PoliciesWhole
PROPERTIES Stops ComesUp
