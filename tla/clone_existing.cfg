SPECIFICATION Spec
CONSTANTS
  main = main
  topic = topic
  other = other
  p = p
  q = q
  NoBranch = NoBranch
  None = None
  Branches = {main, topic, other}
  Patches = {p, q}
  InitStores <- JustGuarded
  Doubtful <- CloneExisting
  MaxCommands = 3
  MaxKills = 0
PROPERTY ProtectedStacksStay
