SPECIFICATION Spec
CONSTANTS
  Fields = {"f", "g"}
  Literals = {"'01'"}
  ValueOf <- MCValueOf
  CompareOps = {"!=", "<", "like"}
  Texts = {"0", "01", "x"}
  NumOf <- MCNumOf
  FormatInt <- MCFormatInt
  Rank <- MCRank
  Fold <- MCFold
  NaN = NaN
  Absent = Absent
  MaxTokens = 8
  FreeTokens = 3
INVARIANTS
  ParserFollowsGrammar
  MissingFieldsOnlyHide
\* A filter is complete at MaxTokens.
CHECK_DEADLOCK FALSE
