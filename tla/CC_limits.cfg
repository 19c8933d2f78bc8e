SPECIFICATION CompileSpec
CONSTANTS
  Requested = 2
  NotFinite = NotFinite
  MaxItems = 2
  Outcomes <- ParseOutcomes
  Unset = Unset
  Paths = {1, 2, 3}
  Contents <- Budgets
  Gone = Gone
  Nowhere = Nowhere
  MaxManifestBytes = 4
  MaxTotalManifestBytes = 5
  MaxObjectDepth = 2
  MaxCollectionEntries = 4
  MaxExtensionBytes = 4
  MinimumServiceCount = 1
  AllowUnknownDependencies = FALSE
  CloseFails = FALSE
  MaxEdits = 0
INVARIANT ResourceFailureDiscards
