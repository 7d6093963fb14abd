SPECIFICATION Spec
CONSTANTS
  MaxLinks = 3
  DirPaths <- SomePaths
  DirTargets <- SomeTargets
  TarPaths <- PackagePaths
  TarTargets <- PackageTargets
  TarBlocks <- PackageBlocks
  DirBlocks <- SomeBlocks
  Lower <- LowerNames
  Foldings = {TRUE, FALSE}
  MaxOps = 3
  MaxTarOps = 3
  DirSeeds <- SomeDirs
  TarSeeds <- SomeImages
  Packages <- Second
  Replaces <- NoReplaces
  Origins <- SameOrigin
  WalkOrder <- ByName
CHECK_DEADLOCK FALSE
INVARIANTS
  ReadBack
  LayersFaithful
PROPERTIES
  OneTree
