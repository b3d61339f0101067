SPECIFICATION LibSpec
CHECK_DEADLOCK FALSE
CONSTANTS
  Requests <- ByShift
  Contents <- Bytes600
  CodeWord = 1234
INVARIANT ShiftsRight
