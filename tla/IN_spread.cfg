SPECIFICATION InvocationSpec
CONSTANTS
  Shell = Shell
  Scenarios <- SpreadScenarios
  Edits <- Changed
  MaxEdits = 1
INVARIANT StrictConfig
