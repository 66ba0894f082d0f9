SPECIFICATION CodecSpec
CONSTANTS
  ZeroUuid = ZeroUuid
  NotUuid = NotUuid
  e1 = e1
  e2 = e2
  mic = mic
  mix = mix
  MaximumEndpointCount = 2
  MaximumNameByteCount = 128
  MaxInt64 = 1000000
  Root <- Roots
  EndpointValue <- EndpointValues
INVARIANTS DecodedIsPublishable SurvivesStorage BlamesTheFirstOffender
CHECK_DEADLOCK FALSE
