CONSTANTS
  MAX_INODES = 4
  MAX_DATA_BLOCKS = 3
  DIRECT = 2
  DIRENTS_PER_BLOCK = 3
  Name = {"a", "b", "a..."}
  Truncated <- MCTruncated
  Value = {v}
  DotArg = {"."}
  Path <- MCPath
SPECIFICATION Spec
INVARIANTS BitmapExact Tree RmRemovesSubtree 
PROPERTIES OnlyTargetChanges
