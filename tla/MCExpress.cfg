CONSTANTS
  a = a
  b = b
  Letters <- MCLetters
  Marks <- MCMarks
  Lexicon <- MCLexicon
  Puncts <- MCPuncts
  Patterns <- MCPatterns
  Affix <- MCAffix
  Options = {}
  MaxInput = 3
  PageSize = 2
  AutoCommit = TRUE
  StableVector = FALSE
  MaxCodeLength = 2
  AutoSelect = TRUE
  AutoSelectUnique = TRUE
  Guesses <- MCGuesses
  EmbedPreedit = TRUE
SPECIFICATION Spec
INVARIANTS
  MenuIsCurrent
  SelectionIsCommitted
  PageIsTrue
  HighlightAligned
