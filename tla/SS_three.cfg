SPECIFICATION SelectSpec
CONSTANTS
  Segments = {1, 2, 3}
  Here = Here
  Up = Up
  Declarable <- Roots
  MaxSources = 3
  Cwd <- W
  Workspace <- W
  RealPaths <- Below
  Missing = Missing
INVARIANTS Contained OneSchemaOwner OverlapReal OrderIrrelevant
