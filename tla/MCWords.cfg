CONSTANTS
  NickLen = 9
  Chars <- NameChars
  LineChars <- WireChars
  MaxLen = 2
  MaxLine = 6
SPECIFICATION Spec
INVARIANTS
  StrictlyOrdered
  KeysAreNames
  ParsesTheGrammar
  FormattedIsReadBack
CHECK_DEADLOCK FALSE
