SPECIFICATION QueriesSpec
CONSTANTS
  Doc <- MCDoc
  Backend <- MCBackend
  InitDocs <- MCInitDocs
  Limit = 2
  DefaultLimit = 2
  MaxWrites = 1
  PinLists <- MCPinLists
INVARIANTS
  PagesRight
  HitsAligned
PROPERTY
  DeletesRight
CHECK_DEADLOCK FALSE
