SPECIFICATION RuntimeSpec
CONSTANTS
  Client = {a, b, c}
  NoClient = NoClient
  IOThread = {t1, t2}
  SlotCount = 2
  HostDrains = FALSE
  ReadSize = {1}
  MaxNesting = 2
  MaxClaims = 3
  MaxPublished = 1
SYMMETRY Symmetry
INVARIANT ClientsKeepTheirCursors
CHECK_DEADLOCK FALSE
