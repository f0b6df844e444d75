SPECIFICATION ArchiveSpec
CONSTANTS
  Names <- MCNames
  Up = "up"
  Dirs = {0, 1, 2, 3, 4, 5, 6, 7, 8, 9}
  Root = 0
  Denied = {}
  Outside = 9
  Fold <- MCFold
  Key <- MCKey
  Stage = "stage"
  Lock = "lock"
  Temp = "tmp"
  Data = {"v", "w", "", "corrupt", "hidden", "other", "lock"}
  MaxTarget = 2
  Requests <- MCRequests
  Trees <- MCTrees
  ForeignSlots <- MCForeignSlots
  MaxForeign = 1
INVARIANTS ExtractedTree KeepsToItself BinaryUnique
PROPERTIES ExtractionEnds
