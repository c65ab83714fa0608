SPECIFICATION Spec
CONSTANTS
  Texts <- MCTexts
  Documents <- MCDocuments
  Utf8 <- MCUtf8
  Stringify <- MCStringify
  Parse <- MCParse
INVARIANTS
  ValidatorsDecide
  UtilitiesAgree
  ConversionsInvert
CHECK_DEADLOCK FALSE
