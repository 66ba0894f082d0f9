SPECIFICATION FairStoreSpec
CONSTANTS
  Capacity = 1
  Channel = {left, right}
  Copier = {t1}
  WriteSize = {1, 2, 3}
  InOrder = TRUE
  MaxPublished = 4
INVARIANT NoTornFrame
CHECK_DEADLOCK FALSE
