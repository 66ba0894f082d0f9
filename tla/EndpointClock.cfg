SPECIFICATION ClockSpec
CONSTANTS
  Asker = {t1, t2}
  SampleRate = {2, 4}
  HostTicksPerSecond = 3
  ZeroTimestampPeriod = 2
  MaxTime = 6
  MaxClients = 2
  MaxSeed = 3
SYMMETRY Symmetry
INVARIANTS ClockTypeOK OneTimelinePerSeed
PROPERTIES ZeroTimestampIsRecent TimelineStartsWithIO
