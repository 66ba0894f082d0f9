SPECIFICATION FairStoreSpec
CONSTANTS
  Capacity = 2
  Channel = {left, right}
  Copier = {t1}
  WriteSize = {1, 2, 3}
  InOrder = TRUE
  MaxPublished = 6
INVARIANTS StoreTypeOK NoTornFrame NoSpuriousSilence SeqlockInv RetentionInv
PROPERTY CopyTerminates
