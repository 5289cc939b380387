CONSTANTS
  App = App
  TheNode = TheNode
  Base = Base
  x = x
  y = y
  Obj = {App, TheNode, Base, x, y}
  NoObj = NoObj
  IoFaults = {"read", "create", "open", "rename", "write"}
  MaxFaults = 1
  MaxEdits = 2
  MaxSaves = 1
  MaxStops = 2
SPECIFICATION Spec
INVARIANTS NothingDangles CleanSaveIsComplete
PROPERTIES SnapshotLoadsWhole IdentityIsStable
SYMMETRY Generated
CHECK_DEADLOCK FALSE
