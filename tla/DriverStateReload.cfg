SPECIFICATION DriverSpec
CONSTANTS
  e1 = e1
  e2 = e2
  n1 = n1
  n2 = n2
  Identifier = {e1, e2}
  Name = {n1, n2}
  MaximumEndpointCount = 2
  Offered <- OfferedLists
  Updater = {u1, u2}
  Client = {a}
  IOThread = {t1}
  MaximumClientCount = 1
  StorageFails = FALSE
  MemoryRunsOut = FALSE
  MaxRevision = 2
  MaxNesting = 1
INVARIANT ReloadKeepsCatalog
CHECK_DEADLOCK FALSE
