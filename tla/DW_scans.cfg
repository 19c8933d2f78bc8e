SPECIFICATION FairWalkSpec
CONSTANTS
  Paths <- AllPaths
  Cwd <- W
  ManifestNames <- Manifest
  OutputDirectory <- Output
  Scans <- AllScans
INVARIANTS
  OncePerFile WithinLimit NothingMissed ExclusionKept FoundInside NoCycle
PROPERTY WalkEnds
