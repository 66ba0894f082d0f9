SPECIFICATION RingSpec
CONSTANTS
  Capacity = 2
  Channel = {mono}
  Copier = {t1}
  WriteSize = {1, 3}
  InOrder = TRUE
  MaxPublished = 3
  MaximumReaderCount = 2
  GenerationModulus = 3
  Controller = {p1, p2}
  Serialized = FALSE
  MaxRegistrations = 3
  ReadSize = {2}
  DrainBeforeUnregister = TRUE
INVARIANT HeldTokensStayValid
CHECK_DEADLOCK FALSE
