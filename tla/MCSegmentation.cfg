CONSTANTS
  a = a
  slash = slash
  quote = quote
  Letters <- MCLetters
  Marks <- MCMarks
  Lexicon <- MCLexicon
  Puncts <- MCPuncts
  Patterns <- MCPatterns
  Affix <- MCAffix
  MaxInput = 3
  Options = {"ascii_mode"}
SPECIFICATION Spec
INVARIANTS
  Tiling
  FullySegmented
  ComposeReturns
PROPERTIES
  SelectionKept
