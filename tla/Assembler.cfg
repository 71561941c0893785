SPECIFICATION Spec
CONSTANTS
  Stream <- MixedStream
  Networks <- AnyOrder
  SeqSpace = 16
  LossWindow = 4
  MinBytes = 2
  MaxBytes = 4
  MaxLoss = 4
INVARIANT TypeOK
INVARIANT FaultFreeDelivery
INVARIANT HolesOnlyWhereBlind
INVARIANT IntactFramesDelivered
INVARIANT NeverMixed
INVARIANT KeyframeFirst
CHECK_DEADLOCK FALSE
