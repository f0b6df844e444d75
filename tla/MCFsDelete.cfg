SPECIFICATION Spec
CONSTANTS
  Names <- MCNames
  Up = "up"
  Dirs = {0, 1, 2, 3, 4}
  Root = 0
  Denied <- MCDenied
  Calls = {}
  Inos = {0, 1, 2, 3}
  Contents = {"old", "new"}
  Requests <- MCRequests
  DeleteAllowed = TRUE
  MaxWalkEntries = 5
  TimeLimits = {TRUE, FALSE}
  Trees <- MCTrees
  CreatorSlots <- MCCreatorSlots
  ForeignNames = {"d", "e", "l", "s"}
  MaxForeign = 1
INVARIANTS RefusedBeforeRemoval
PROPERTIES DeniedSurvives DeletedIsGone DeleteReturns
