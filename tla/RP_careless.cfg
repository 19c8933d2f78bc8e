SPECIFICATION Spec
CONSTANTS
  w1 = w1
  json = json
  html = html
  Names = {json, html}
  Marker = Marker
  Foreign = Foreign
  Formats <- MCFormats
  Old = Old
  User = User
  TornFile = TornFile
  Absent = Absent
  NoLock = NoLock
  Unclaimed = Unclaimed
  TornLock = TornLock
  w2 = w2
  w3 = w3
  Writers = {w1, w2}
  StartOutputs <- AllStarts
  Faulty <- Calls
  Crashable = {w1}
  Operator = "careless"
  UserActs = TRUE
INVARIANTS WholeGeneration LatestRecoverable HonestResult NoOrphanLock
PROPERTY ForeignKept
