SPECIFICATION Spec
CONSTANTS
  j1 = j1
  j2 = j2
  j3 = j3
  Jobs = {j1}
  Nobody = Nobody
  MaxSessions = 2
  MaxFrames = 2
  MaxDrops = 0
  Limit = 2
  SkipEvery = 2
  Interval = 1
SYMMETRY JobSymmetry
INVARIANT NoNilChannel
CHECK_DEADLOCK FALSE
