CONSTANTS
  e1 = e1
  e2 = e2
  e3 = e3
  l1 = l1
  l2 = l2
  a1 = a1
  a2 = a2
  r1 = r1
  r2 = r2
  s1 = s1
  s2 = s2
  Unlimited = Unlimited
  FullyMaterialized = FullyMaterialized
  Event = {l1, l2, a1, r1}
  SharedEvent = {}
  ShareId = {s1}
  MaxTime = 1
  MaxEvents = 1
  MaxAge = Unlimited
  UnsavedFolds = TRUE
  Stamp <- NoStamp
  Adds <- MCAdds
  Removes <- MCRemoves
  Needs <- NoNeeds
SPECIFICATION Spec
PROPERTIES CompactionIsHousekeeping
CHECK_DEADLOCK FALSE
