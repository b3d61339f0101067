SPECIFICATION LibSpec
CONSTANTS
  Requests <- Everything
  Contents <- Bytes600
  CodeWord = 1234
INVARIANTS  OrderRight  RegistersKept
PROPERTY Returns
