SPECIFICATION UbootSpec
CONSTANTS
  Boards <- MCBoards
  Creates <- MCDefault
  AddData <- MCLongData
  Indexes <- MCLast
  Supplied <- MCNone
  MaxCustom = 7
  TornAt <- MCNone
  Blanks <- MCBlanks
INVARIANT ReadsWhatWasWritten
