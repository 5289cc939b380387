CONSTANTS
  n1 = n1
  n2 = n2
  r1 = r1
  r2 = r2
  Node = {n1, n2}
  Root = {r1, r2}
  Mapped0 <- MCMapped0
  MaxPosts = 2
  MaxVersion = 2
SPECIFICATION FairSpec
INVARIANTS NoWorkLeftBehind NothingForgotten
PROPERTIES GuiCatchesUp
CHECK_DEADLOCK FALSE
