CONSTANTS
  NumItems = 3
  NumChildren <- MCNumChildren
  Names <- MCNames
  Texts <- MCTexts
  Label <- MCLabel
  NumFilters = 1
  Contents <- MCContents
  MaxOrphans = 1
  Rows <- MCRows
SPECIFICATION PageSpec
PROPERTY OpensOnlyWhenActive
CHECK_DEADLOCK FALSE
