CONSTANTS
  MaxContracts = 3
  Channels = {0, 255}
SPECIFICATION Spec
INVARIANTS
  FirstMatchWins
  DecodesWhatWasEncoded
  FollowersAgree
CHECK_DEADLOCK FALSE
