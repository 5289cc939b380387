CONSTANTS
  N = 3
  Message = {m1, m2}
  Consumer = {c1, c2}
  None = None
  Partial = Partial
SPECIFICATION ChannelSpec
INVARIANTS AssertsHold WriterAlone
PROPERTY ImplementsMailbox
CHECK_DEADLOCK TRUE
