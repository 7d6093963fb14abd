SPECIFICATION Spec
CONSTANTS
  ArchOrder <- MCArchOrder
  Packages <- MCPackages
  Requires <- MCRequires
  BuildTime <- MCBuildTime
  Noarch <- MCNoarch
  Scenarios <- MCScenarios
  Releases <- MCReleases
  CacheSize = 1
  Tags = {"v1", "latest"}
  GOARCH = "arm64"
CHECK_DEADLOCK FALSE
INVARIANTS
  ResolvedTogether
  IndexAsResolved
  PublishedWhole
PROPERTIES
  CommandEnds
