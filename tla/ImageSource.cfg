SPECIFICATION ViewSpec
CONSTANTS
  Scenarios <- MCScenarios
  MaxTurns = 2
  Paths <- MCPaths
  Tells <- MCTells
  Elsewhere <- MCElsewhere
  RootNames = {"cfg.json"}
  MaxArchiveEntries = 5
  MaxLayerBlobSize = 8
INVARIANTS
  ServesAsked
  CausesTold
  LayersListed
  EndpointNamed
  ViewsListed
CHECK_DEADLOCK FALSE
