SPECIFICATION Spec
CONSTANTS
  Names <- MCNames
  Up = "up"
  Dirs = {0, 1, 2, 3, 4, 5, 6, 7}
  Root = 0
  Denied <- MCDenied
  Calls = {"c1", "c2"}
  RequestsOf <- MCRequestsOf
  ForeignNames = {"d", "s", "l", "e"}
  ForeignSlots <- MCSlots
  Permissions = {"write", "mkdir", "edit", "move", "copy"}
  WriteScope = "workspace_write"
  Contents = {"old", "new", "large", "foreign"}
  Large = {"large"}
  Inos = {1, 2, 3, 4, 5, 6, 7, 8}
  Trees <- MCTrees
  MaxForeign = 1
CHECK_DEADLOCK FALSE
INVARIANTS NothingLeftBehind
PROPERTIES LandsWhereChecked NoClobber EditReplacesWhatItRead DeniedUntouched
