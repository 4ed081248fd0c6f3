SPECIFICATION FairSpec
CONSTANTS
  Datagrams <- TwoHosts
  NoHost = NoHost
  MaxQueue = 2
  MaxSeq = 3
  MaxSessions = 2
INVARIANTS
  AtMostOneStaleSample
PROPERTIES
  SentToAClient
  ImplementsSampleStream
  SilentAfterClose
