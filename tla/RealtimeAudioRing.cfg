SPECIFICATION FairRingSpec
CONSTANTS
  Capacity = 2
  Channel = {mono}
  Copier = {t1}
  WriteSize = {1, 3}
  InOrder = TRUE
  MaxPublished = 3
  MaximumReaderCount = 2
  GenerationModulus = 3
  Controller = {p1}
  Serialized = TRUE
  MaxRegistrations = 3
  ReadSize = {2}
  DrainBeforeUnregister = TRUE
INVARIANTS RingTypeOK HeldTokensStayValid RetiredTokensStayInvalid IndependentCursor HeardInOrder DropsOnlyWhenLapped
PROPERTIES ImplementsTimeline ReadTerminates
CHECK_DEADLOCK FALSE
