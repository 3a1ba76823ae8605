SPECIFICATION Spec
CONSTANTS
  Symbols <- MCSymbols
  MarkerField <- MCMarkerField
  DialectOrder <- MCDialectOrder
  Declared = {"call"}
  Undeclared = {"other"}
  JsonCall = "json"
  Vocabularies <- MCVocabularies
  Requests <- MCRequests
INVARIANTS
  ReleasedUpToTheFirstStop
  FieldsFollowTheMarkers
  OnlyBeginningsAreHeld
  ContentIsReadAsAWhole
  
CHECK_DEADLOCK FALSE
