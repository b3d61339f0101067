SPECIFICATION Spec
CHECK_DEADLOCK FALSE
CONSTANTS
  BYTE = 4
  READY = 2
  chunk_size = 2
  verify_size = 3
  CLEAR_BLOCK = 3
  RxSize = 10
  BufferSize = 3
  Contents <- Used
  Floating = {2, 3}
  Commands <- Session
  MaxCommands = 2
  MaxRestarts = 1
INVARIANTS NothingLost InStep
CONSTRAINT ClearUndisturbed
PROPERTIES   CommandsEnd
