SPECIFICATION Spec
CHECK_DEADLOCK FALSE
CONSTANTS
  Names = {"x", "y"}
  Sizes = {2}
  Origins <- Edges
  MaxSize = 40
  MaxStatements = 6
INVARIANTS PatchSlots ReferencesRight
 
