SPECIFICATION StreamSpec
CONSTANTS
  Inputs <- MCInputs
  MaxLength = 3
INVARIANT TokensTile
INVARIANT CursorLocated
INVARIANT TokenStandsAlone
INVARIANT WordsRead
INVARIANT DequoteInverts
INVARIANT SeparatorsVanish
INVARIANT IllegalHintHolds
INVARIANT CaretsUnderToken
CHECK_DEADLOCK FALSE
