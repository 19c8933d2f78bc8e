SPECIFICATION InvocationSpec
CONSTANTS
  Shell = Shell
  Scenarios <- AllScenarios
  Edits <- Changed
  MaxEdits = 2
INVARIANTS ZeroIsClean OneAnswer OutputsTruthful RefusesFaulty
PROPERTY PublishedAsAsked
