SPECIFICATION FairSpec
CONSTANTS
  anna = anna
  ben = ben
  Browsers = {anna}
  Others = {ben}
  MaxConns <- MCConns
  MaxStarts = 2
  MaxFaults = 1
  NoSession = NoSession
  NoBrowser = NoBrowser
INVARIANT TypeOK
INVARIANT AnswerFits
INVARIANT CandidateKept
INVARIANT CandidateAfterOffer
INVARIANT CanConnect
PROPERTY AttemptEnds
CHECK_DEADLOCK FALSE
