SPECIFICATION FairSpec
CONSTANTS
  t1 = t1
  t2 = t2
  Threads = {t1, t2}
  ApiThreads = {t1}
  Requests <- AllRequests
  Codecs <- MCCodecs
  NoCodec = NoCodec
  Nobody = Nobody
  FailLimit = 2
  MaxErrors = 2
INVARIANT TypeOK
INVARIANT AnswersOwnFrame
INVARIANT PFrameHasReference
INVARIANT DecoderFitsCall
PROPERTY ImplementsService
PROPERTY HolderReleases
