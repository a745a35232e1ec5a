CONSTANTS
  a = a
  b = b
  c = c
  upper = upper
  zws = zws
  dot = dot
  comma = comma
  Letters <- MCLetters
  Marks <- MCMarks
  Lexicon <- MCLexicon
  Puncts <- MCPuncts
  Patterns <- MCPatterns
  Affix <- MCAffix
  Options = {}
  MaxInput = 2
  PageSize = 1
  AutoCommit = TRUE
  StableVector = TRUE
  MaxCodeLength = 0
  AutoSelect = FALSE
  AutoSelectUnique = FALSE
  Guesses = {}
  SwitchStyle <- MCSwitchStyle
  GoodOldCapsLock = TRUE
  SwitchKeys = {"Shift_L", "Control_L"}
  Taps <- MCTaps
  BindingList <- MCBindingList
  ChordKeys = {b, c}
  ChordOutput <- MCChordOutput
  MaxDown = 2
SPECIFICATION KeyboardSpec
INVARIANTS
  TextNotOvertaking
  ChordLeavesNoTrace
PROPERTIES
  TapToggles
  InlineAsciiEnds
