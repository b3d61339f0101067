SPECIFICATION Spec
CHECK_DEADLOCK FALSE
CONSTANTS
  Programs <- ShortPrograms
  Files <- TheFile
  Ops = {"mw"}
  Numbers = {"1"}
  Others = {"X"}
  MaxInputs = 10
  MaxIfs = 4
INVARIANTS IgnoredNotAssembled
