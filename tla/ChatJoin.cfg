CONSTANTS
  Hosts = {h1, h2}
  None = None
  Invalid = Invalid
  MaxAttempts = 3
  MaxRooms = 2
  MaxRestarts = 1
  MaxRetries = 1
  MaxReplaced = 1
SPECIFICATION JoinSpec
INVARIANTS JoinedIsBound OneRoomPerClient
PROPERTIES JoinIsDecided
CHECK_DEADLOCK FALSE
