SPECIFICATION BootSpec
CONSTANTS
  Images <- AllPrograms
  LoadAddrs <- AllOrigins
  Banks = {1}
  Fills = {0}
  Attached = {2, 64}
  NoSend = {}
  NoReceive = {2}
  Inputs = {30}
  UserBytes = {8}
  UserWords = {1, 256, 32768}
  UserPorts = {0, 2, 64, 127}
PROPERTY RomStable
PROPERTY StorageSelected
PROPERTY ImplementsLifo
CONSTRAINT NearProgram
CHECK_DEADLOCK FALSE
