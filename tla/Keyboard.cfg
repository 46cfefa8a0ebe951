CONSTANTS
  LINE_MAX = 5
SPECIFICATION Spec
INVARIANTS TypeOK BufferIsLine
