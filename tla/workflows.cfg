SPECIFICATION Spec
CONSTANTS
  Files <- MCFiles
  Contents <- MCContents
  Metas <- MCMetas
  Names <- MCNames
  InitStates <- MCInitStates
  Targets <- MCTargets
  RefPatches <- MCRefPatches
  Series <- MCSeries
  RebaseArgs <- MCRebaseArgs
  TempNames <- MCTempNames
  NewNames <- MCNewNames
  Doubtful <- NothingDoubtful
  MaxPlan = 2
  MaxPlans = 1
  MaxCommands = 2
  MaxEdits = 1
  MaxKills = 1
INVARIANTS TypeOK StackStaysSound WorkKept RebaseDone RefreshDone CleanWorktreeFollows
PROPERTIES CommandEnds
