SPECIFICATION FairSpec
CONSTANTS
  j1 = j1
  j2 = j2
  Nobody = Nobody
  Jobs = {j1, j2}
  MaxSessions = 2
  MaxFrames = 2
  MaxDrops = 1
  Limit = 0
  SkipEvery = 2
  Interval = 1
INVARIANT TypeOK
INVARIANT InFlightBound
INVARIANT ResultsNeverGoBack
PROPERTY SlotsReleased
PROPERTY OldLoopsEnd
CHECK_DEADLOCK FALSE
