CONSTANTS
  MAX_INODES = 5
  INODES_PER_BLOCK = 3
  MAX_DATA_BLOCKS = 6
  DIRECT = 2
  DIRENTS_PER_BLOCK = 5
  BLOCK_SIZE = 2
  SLOTS = 9
  Base = 3
  MaxBoots = 3
  MaxCommands = 2
  Name = {"a", "b"}
  Text <- MCText
  Program <- MCProgram
  Elsewhere = {1}
  FirstBootSafe = FALSE
SPECIFICATION Spec
INVARIANTS RootSurvives
CHECK_DEADLOCK FALSE
