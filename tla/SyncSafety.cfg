CONSTANTS
  h = h
  p = p
  sh = sh
  sp = sp
  sp2 = sp2
  None = None
  Host = h
  Timestamp <- MCTimestamp
  Endpoint = {h, p}
  ShareId = {sh, sp, sp2}
  HostShares = {sh, sp}
  MaxQueue = 2
  LinkEndpoint <- MCLinkEndpoint
  MaxSequence <- OneEach
  Scenarios <- FaultyOrEditing
  CanInsert <- Always
SPECIFICATION Spec
INVARIANTS AuthorRemembers DeliveredIsDurable
  CompleteIsBound CompleteIsShared
CHECK_DEADLOCK FALSE
