SPECIFICATION FairReadSpec
CONSTANTS
  MaxBytes = 4
  ChunkBytes = 2
  MaxSize = 7
  Refused <- Calls
INVARIANTS HeldBounded AnswerExplained
PROPERTIES ReadIsAtomic ReadEnds
