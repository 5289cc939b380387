CONSTANTS
  e1 = e1
  e2 = e2
  e3 = e3
  l1 = l1
  l2 = l2
  a1 = a1
  a2 = a2
  r1 = r1
  r2 = r2
  s1 = s1
  s2 = s2
  Unlimited = Unlimited
  FullyMaterialized = FullyMaterialized
  Event = {e1, e2, e3, l1, l2, a1, r1}
  SharedEvent = {e1, e2, e3}
  ShareId = {s1}
  MaxTime = 3
  MaxEvents = 1
  MaxAge = 1
  UnsavedFolds = FALSE
  Stamp <- MCStamp
  Adds <- MCAdds
  Removes <- MCRemoves
  Needs <- MCNeeds
SPECIFICATION Spec
INVARIANTS LiveIsReplay
PROPERTIES ProgressSurvives CompactionIsHousekeeping GenerationTells
CHECK_DEADLOCK FALSE
