SPECIFICATION WalkSpec
CONSTANTS
  Names <- MCNames
  Up = "up"
  Calls = {}
  Inos = {0, 1, 2, 3, 4, 5, 6}
  Contents = {"hits", "bad", "long", "big"}
  Created = 0
  Dirs = {0, 1, 2, 3, 4}
  Root = 0
  Denied <- MCDenied
  Skipped <- MCSkipped
  Probe = "probe"
  Position <- MCPosition
  LinesOf <- MCLinesOf
  MaxRead = 3
  LimitSets <- MCLimits
  Requests <- MCRequests
  WalkPermissions = {"glob", "grep", "list", "stat"}
  Disks <- MCDisks
  CreatorSlots <- MCCreatorSlots
  ExchangedNames = {"a", "d", "l", "x", "y"}
  MaxChanges = 1
INVARIANTS
    AnswersComplete
PROPERTIES
    AnswersFromTheirPath
