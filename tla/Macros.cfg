SPECIFICATION Spec
CHECK_DEADLOCK FALSE
CONSTANTS
  Work = {0, 1}
  Values <- FlowBytes
  Flags = {0}
  Words = {258}
  Targets <- FarTargets
  Cells <- PageEdge
  Sites <- PageSites
  MaxMacros = 3
INVARIANTS WordArithmetic ByteResults JumpsRight FlagJumpsRight FramesOnStack
PROPERTIES MemoryWords CallsReturn
