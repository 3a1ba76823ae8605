SPECIFICATION Spec
CONSTANTS
  Symbols <- MCSymbols
  MarkerField <- MCMarkerField
  DialectOrder <- MCDialectOrder
  Declared = {"call"}
  Undeclared = {"other"}
  JsonCall = "json"
  Vocabularies <- MCVocabularies
  Requests <- MCJsonRequests
INVARIANTS
  StreamCarriesTheCalls
CHECK_DEADLOCK FALSE
