SPECIFICATION Spec
CHECK_DEADLOCK FALSE
CONSTANTS
  I_NAMES <- TwoInstructions
  Steps = 2
  MacroNames <- TwoMacros
  Bodies <- MacroBodies
  Lines <- SomeLines
  MaxLines = 5
INVARIANT RomRunsLists
