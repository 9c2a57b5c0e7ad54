SPECIFICATION Spec
CONSTANTS
  main = main
  topic = topic
  other = other
  p = p
  q = q
  NoBranch = NoBranch
  None = None
  Branches = {main, topic, other}
  Patches = {p, q}
  InitStores <- MCInitStores
  Doubtful <- NothingDoubtful
  MaxCommands = 3
  MaxKills = 1
INVARIANTS PatchesStayReachable NoOrphanStacks
PROPERTIES ProtectedStacksStay UpgradeConverges
