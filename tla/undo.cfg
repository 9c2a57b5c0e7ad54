SPECIFICATION Spec
CONSTANTS
  MaxMade = 3
  MaxLog = 7
  Width = 3
  UndoNumbers <- OneToTwo
  RedoNumbers <- OneToTwo
  UndoAfterGit = FALSE
  Resets = TRUE
INVARIANTS ConsecutiveUndosGoBack RedoFollowsUndo
PROPERTIES ImplementsHistory
CHECK_DEADLOCK FALSE
