\* Two clients, each paging through a listing or reading or writing one row.
SPECIFICATION Spec
CONSTANTS
  Client = {p1, p2}
  Id <- Ids
  Name <- Names
  At <- Ats
  Controllers <- BothControllers
  Tables <- SmallTables
  Requests <- AllRequests
  None = None
  MaxBigint = 1000000
SYMMETRY Interchangeable
INVARIANTS
  TypeOK
  PageByRank
  TotalsAgree
  PagesCoverDecided
  SchemaRequestsAnswered
  AloneIsAtomic
  SavedIsKept
  DeletedStaysGone
CHECK_DEADLOCK FALSE
