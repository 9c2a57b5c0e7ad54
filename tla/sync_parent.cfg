SPECIFICATION Spec
CONSTANTS
  Files <- MCFiles
  Contents <- MCContents
  Metas <- MCMetas
  Names <- MCNames
  InitStates <- MCInitStates
  Targets <- MCTargets
  RefPatches <- MCRefPatches
  Series <- MCSeries
  RebaseArgs <- MCRebaseArgs
  TempNames <- MCTempNames
  NewNames <- MCNewNames
  Doubtful <- SyncApplied
  MaxPlan = 2
  MaxPlans = 1
  MaxCommands = 1
  MaxEdits = 1
  MaxKills = 1
INVARIANTS PatchesAreTopmostCommits
