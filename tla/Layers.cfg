SPECIFICATION LayersSpec
CONSTANTS
  Components <- MCComponents
  Scenarios <- MCScenarios
  ForeignStacks <- MCForeignStacks
CHECK_DEADLOCK FALSE
INVARIANTS
  GroupsOrderless
  TarLayers
  RenderSame
  ErofsLayers
  StackLikeOverlay
