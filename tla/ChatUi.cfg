CONSTANTS
  Entries = {a, b}
  Platforms = {"linux", "windows"}
  None = None
  Empty = Empty
  Big = Big
  MaxInputs = 3
SPECIFICATION FairSpec
INVARIANTS RevisionMatchesDraft DraftIsOwn ClosedIsSaved
PROPERTIES MirrorCatchesUp ClosingEnds
CHECK_DEADLOCK FALSE
