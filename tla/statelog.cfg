SPECIFICATION Spec
CONSTANTS
  Procs = {a, b}
  Names = {p, q}
  MaxParents = 2
  MaxWrites = 4
  MaxCommits = 2
  MaxOpens = 3
  MaxKills = 1
INVARIANTS LoggedStatesReadable InstalledStatesStayLogged SimplifiedLogAgrees
PROPERTIES OneCommandHeals
CHECK_DEADLOCK FALSE
SYMMETRY ProcsAndNames
