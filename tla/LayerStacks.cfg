SPECIFICATION LayersSpec
CONSTANTS
  Components <- MCComponents
  Scenarios <- NoScenarios
  ForeignStacks <- MCForeignStacks
CHECK_DEADLOCK FALSE
INVARIANT
  StackIsKernelView
