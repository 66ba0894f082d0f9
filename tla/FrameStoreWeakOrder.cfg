SPECIFICATION FairStoreSpec
CONSTANTS
  Capacity = 2
  Channel = {left, right}
  Copier = {t1}
  WriteSize = {1, 2, 3}
  InOrder = FALSE
  MaxPublished = 4
INVARIANT NoTornFrame
CHECK_DEADLOCK FALSE
