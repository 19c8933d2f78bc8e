SPECIFICATION FairCompileSpec
CONSTANTS
  Requested = 2
  NotFinite = NotFinite
  MaxItems = 3
  Outcomes <- ParseOutcomes
  Unset = Unset
  Paths = {1, 2, 3}
  Contents <- Few
  Gone = Gone
  Nowhere = Nowhere
  MaxManifestBytes = 4
  MaxTotalManifestBytes = 5
  MaxObjectDepth = 2
  MaxCollectionEntries = 4
  MaxExtensionBytes = 4
  MinimumServiceCount = 2
  AllowUnknownDependencies = FALSE
  CloseFails = TRUE
  MaxEdits = 1
INVARIANTS AccountedFor BudgetsHold GraphAgrees Determined
PROPERTIES MapsConcurrently CompileEnds
