SPECIFICATION TwiceSpec
CONSTANTS
  None = None
  Files <- MCFiles
  MaxLines = 3
  MaxFewLines = 6
INVARIANT LinesAccountedFor
INVARIANT Resynchronises
INVARIANT TriviaOnlyAdds
INVARIANT TriviaInPlace
PROPERTY BothReturn
CHECK_DEADLOCK FALSE
