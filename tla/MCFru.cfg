SPECIFICATION UbootSpec
CONSTANTS
  Boards <- MCBoards
  Creates <- MCCreates
  AddData <- MCAddData
  Indexes <- MCIndexes
  Supplied <- MCSupplied
  MaxCustom = 2
  TornAt <- MCTornAt
  Blanks <- MCBlanks
INVARIANTS FileValid FileSays BoardValid ReadBack SuccessIsTrue WpRestored
