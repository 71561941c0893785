SPECIFICATION InferenceSpec
CONSTANTS
  File <- MCFile
  Candidates <- MCCandidates
  Raw <- MCRaw
  MaxDetections = 4
  Cols = 40
  Rows = 16
  MinSize = 10
  MinConfidence = 1
  IouNum = 2
  IouDen = 5
INVARIANTS
  TypeOK
  KeptApart
  Covered
  BestFirst
  UsedEngineIsWhole
  FacesReported
CHECK_DEADLOCK FALSE
