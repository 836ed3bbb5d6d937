SPECIFICATION Spec
CONSTANTS
  Messages <- MCMessages
  Offsets  <- MCOffsets
INVARIANTS
  PickIsExact
  WrongCodecRefuses
  ProbeDetects
  RoundTrip
CHECK_DEADLOCK FALSE
