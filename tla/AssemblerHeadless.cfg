SPECIFICATION Spec
CONSTANTS
  Stream <- PlainStream
  Networks <- NoZero
  SeqSpace = 16
  LossWindow = 4
  MinBytes = 2
  MaxBytes = 6
  MaxLoss = 1
INVARIANT CompleteFrames
CHECK_DEADLOCK FALSE
