SPECIFICATION SwitchingSpec
CONSTANTS
  Sessions = {s1, s2}
  SchemaList <- MCSchemaList
  Switches <- MCSwitches
  Components <- MCComponents
  SaveOptions = {"full_shape", "zh_hant"}
  SwitchStyles = {"inline_ascii", "commit_text", "commit_code"}
  MaxClock = 1
  MaxCalls = 3
SYMMETRY SwitchingSymmetry
INVARIANT OpenMenuIsTrue
PROPERTY ChoiceComesBack
