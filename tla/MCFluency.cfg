CONSTANTS
  a = a
  b = b
  Letters <- MCLetters
  Marks <- MCMarks
  Lexicon <- MCLexicon
  Puncts <- MCPuncts
  Patterns <- MCPatterns
  Affix <- MCAffix
  Options = {}
  MaxInput = 3
  PageSize = 2
  AutoCommit = FALSE
  StableVector = FALSE
  MaxCodeLength = 0
  AutoSelect = FALSE
  AutoSelectUnique = FALSE
  Guesses = {}
SPECIFICATION HeldSpec
INVARIANTS
  MenuIsCurrent
  SelectionExact
  CommitAccountsForInput
PROPERTIES
  BackSpaceKeepsSelections
  SpaceCommits
  BackSpaceErases
