CONSTANTS
  VGA_ROWS = 3
  VGA_COLS = 5
  TAB = 2
  LOW = 4
SPECIFICATION Spec
INVARIANTS CursorOnScreen WritesInVideoMemory CursorShown
