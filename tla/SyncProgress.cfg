CONSTANTS
  h = h
  p = p
  sh = sh
  sp = sp
  sp2 = sp2
  None = None
  Host = h
  Timestamp <- MCTimestamp
  Endpoint = {h, p}
  ShareId = {sh, sp}
  HostShares = {sh, sp}
  MaxQueue = 1
  LinkEndpoint <- MCLinkEndpoint2
  MaxSequence <- HostTwo
  Scenarios <- OnlyRecovering
  CanInsert <- InOrder
SPECIFICATION FairSpec
PROPERTIES EventuallyBound EveryEventArrives
CHECK_DEADLOCK FALSE
