SPECIFICATION FairSpec
CONSTANTS
  a = a
  b = b
  NoText = NoText
  Nobody = Nobody
  Order <- MCOrder
  Postings <- MCPostings
  Descriptions <- MCDescriptions
  RuleSets <- MCRules
  Target = 1
  ChunkFloor = 2
  MaxEdits = 1
  MaxCrashes = 1
INVARIANTS PlaceKept PayKept StagesAgree
PROPERTIES RowsSettle
CHECK_DEADLOCK FALSE
