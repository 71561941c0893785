SPECIFICATION FairSpec
CONSTANTS
  c1 = c1
  c2 = c2
  c3 = c3
  worker = worker
  anna = anna
  NoConn = NoConn
  Conns <- MCConns
  Ids <- MCIds
  IdOf <- MCIdOf
  MaxSends <- MCSends
  MaxCloses = 1
INVARIANT TypeOK
INVARIANT MapIsCurrent
PROPERTY ImplementsRouter
PROPERTY Delivered
CHECK_DEADLOCK FALSE
