SPECIFICATION FairSpec
CONSTANTS
  Keys = {30, 158}
  EventBudget = 3
INVARIANT NoRenderAfterFree
INVARIANT ScreenWhole
INVARIANT OneTicker
PROPERTY CloseCompletes
PROPERTY SimulationEnds
PROPERTY CloseServed
CHECK_DEADLOCK FALSE
