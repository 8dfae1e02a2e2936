SPECIFICATION CatalogueSpec
CONSTANTS
  Documents <- MCDocuments
  Official <- MCOfficial
  Cursor = "cursor"
  MaxEdits = 0
INVARIANT OwnModelsStay
CHECK_DEADLOCK FALSE
