------------------------------- MODULE Screen -------------------------------
(***************************************************************************)
(* The text screen (drivers/screen.c) with its two writers.  Interrupt     *)
(* handlers echo keys and print the output of commands and programs, each  *)
(* character undisturbed.  main() prints the shell's greeting and first    *)
(* prompt with interrupts on, so a handler may print between any two       *)
(* memory or port accesses of main()'s own kputc.  The cells are left out  *)
(* but for the place of each write; the cursor registers are kept.         *)
(***************************************************************************)
EXTENDS Integers

CONSTANTS VGA_ROWS, VGA_COLS,
          TAB,      \* 4 in the code
          LOW       \* what one cursor register holds: 256 in the code

ASSUME ScreenAssumption ==
  /\ VGA_ROWS \in Nat \ {0}
  /\ VGA_COLS \in Nat \ {0}
  /\ TAB \in Nat \ {0}
  /\ LOW \in Nat \ {0}

VARIABLES
  cursor_row, cursor_col,
  crtc,      \* the CRT controller: its index register and registers 14 and 15
  wrote,     \* the cell written last, as an index into vga[]
  pc,        \* main(): its next access in kputc, "out" between characters
  tmp,       \* the value it has loaded
  torn       \* history: a handler came between main()'s move_cursor accesses

cursor == <<cursor_row, cursor_col>>
mainvars == <<pc, tmp>>
vars == <<cursor, crtc, wrote, mainvars, torn>>

Index(row, col) == row * VGA_COLS + col

\* Mutant: pos is a byte.
MovedToByte(row, col) ==
  [index |-> 15, hi |-> 0, lo |-> Index(row, col) % LOW]

\* move_cursor, undisturbed
MovedTo(row, col) ==
  [index |-> 15, hi |-> Index(row, col) \div LOW, lo |-> Index(row, col) % LOW]

\* screen_init
Init ==
  /\ cursor_row = 0
  /\ cursor_col = 0
  /\ crtc = MovedTo(0, 0)
  /\ wrote = 0
  /\ pc = "out"
  /\ tmp = 0
  /\ torn = FALSE

-----------------------------------------------------------------------------
(* kputc and clear_screen in an interrupt handler.                          *)

\* The cursor after the character, before the line wraps.
Advance(c, row, col) ==
  CASE c = "newline"   -> <<row + 1, 0>>
    [] c = "return"    -> <<row, 0>>
    [] c = "tab"       -> <<row, ((col + TAB) \div TAB) * TAB>>
    [] c = "backspace" -> <<row, IF col > 0 THEN col - 1 ELSE col>>
    [] c = "x"         -> <<row, col + 1>>

\* Mutant: a full line does not wrap.
WrapNever(p) == p

Wrap(p) == IF p[2] >= VGA_COLS THEN <<p[1] + 1, 0>> ELSE p

\* Mutant: only the row just below the screen scrolls.
ScrollOne(p) == IF p[1] = VGA_ROWS THEN <<VGA_ROWS - 1, p[2]>> ELSE p

\* scroll_if_needed
Scroll(p) == IF p[1] >= VGA_ROWS THEN <<VGA_ROWS - 1, p[2]>> ELSE p

\* The cell a character writes, if it writes one.
Cell(c, row, col) ==
  CASE c = "x" -> Index(row, col)
    [] c = "backspace" /\ col > 0 -> Index(row, col - 1)
    [] OTHER -> wrote

\* main() has loaded what it is about to send to the CRT controller.
InMoveCursor == pc \in {"posCol", "index14", "data14", "index15", "data15"}

Kputc(c) ==
  LET p == Scroll(Wrap(Advance(c, cursor_row, cursor_col)))
  IN  /\ wrote' = Cell(c, cursor_row, cursor_col)
      /\ cursor_row' = p[1] /\ cursor_col' = p[2]
      /\ crtc' = MovedTo(p[1], p[2])
      /\ torn' = InMoveCursor
      /\ UNCHANGED mainvars

ClearScreen ==
  /\ wrote' = Index(VGA_ROWS - 1, VGA_COLS - 1)
  /\ cursor_row' = 0 /\ cursor_col' = 0
  /\ crtc' = MovedTo(0, 0)
  /\ torn' = InMoveCursor
  /\ UNCHANGED mainvars

-----------------------------------------------------------------------------
(* kputc in main(), one access to memory or to a port a step. An increment  *)
(* loads and stores.                                                        *)

Goto(l) == pc' = l /\ UNCHANGED torn

MainKputc(l) ==
  /\ pc = "out"
  /\ Goto(l)
  /\ UNCHANGED <<cursor, crtc, wrote, tmp>>

\* The two loads of cursor_row * VGA_COLS + cursor_col.
MainLoadRow(l, next) ==
  /\ pc = l
  /\ tmp' = Index(cursor_row, 0)
  /\ pc' = next
  /\ torn' = (torn /\ l # "posRow")
  /\ UNCHANGED <<cursor, crtc, wrote>>

MainLoadCol(l, next) ==
  /\ pc = l
  /\ tmp' = tmp + cursor_col
  /\ Goto(next)
  /\ UNCHANGED <<cursor, crtc, wrote>>

\* vga[...] = cell(c)
MainCell ==
  /\ pc = "cell"
  /\ wrote' = tmp
  /\ Goto("colInc")
  /\ UNCHANGED <<cursor, crtc, tmp>>

\* cursor_col++
MainColInc ==
  /\ pc = "colInc"
  /\ tmp' = cursor_col
  /\ Goto("colStore")
  /\ UNCHANGED <<cursor, crtc, wrote>>

MainColStore ==
  /\ pc = "colStore"
  /\ cursor_col' = tmp + 1
  /\ Goto("wrap")
  /\ UNCHANGED <<cursor_row, crtc, wrote, tmp>>

\* cursor_col = 0; cursor_row++: for a newline, and where a line wraps
MainCol0(l, next) ==
  /\ pc = l
  /\ cursor_col' = 0
  /\ Goto(next)
  /\ UNCHANGED <<cursor_row, crtc, wrote, tmp>>

MainRowInc(l, next) ==
  /\ pc = l
  /\ tmp' = cursor_row
  /\ Goto(next)
  /\ UNCHANGED <<cursor, crtc, wrote>>

MainRowStore(l, next) ==
  /\ pc = l
  /\ cursor_row' = tmp + 1
  /\ Goto(next)
  /\ UNCHANGED <<cursor_col, crtc, wrote, tmp>>

\* if (cursor_col >= VGA_COLS)
MainWrap ==
  /\ pc = "wrap"
  /\ Goto(IF cursor_col >= VGA_COLS THEN "wrapCol" ELSE "scroll")
  /\ UNCHANGED <<cursor, crtc, wrote, tmp>>

\* scroll_if_needed: its test, and its last assignment
MainScroll ==
  /\ pc = "scroll"
  /\ Goto(IF cursor_row >= VGA_ROWS THEN "lastRow" ELSE "posRow")
  /\ UNCHANGED <<cursor, crtc, wrote, tmp>>

MainLastRow ==
  /\ pc = "lastRow"
  /\ cursor_row' = VGA_ROWS - 1
  /\ Goto("posRow")
  /\ UNCHANGED <<cursor_col, crtc, wrote, tmp>>

\* move_cursor writes to CRTC_INDEX and CRTC_DATA
MainIndex(l, i, next) ==
  /\ pc = l
  /\ crtc' = [crtc EXCEPT !.index = i]
  /\ Goto(next)
  /\ UNCHANGED <<cursor, wrote, tmp>>

MainData(l, v, next) ==
  /\ pc = l
  /\ crtc' = IF crtc.index = 14 THEN [crtc EXCEPT !.hi = v] ELSE [crtc EXCEPT !.lo = v]
  /\ Goto(next)
  /\ UNCHANGED <<cursor, wrote, tmp>>

MainMoveCursor ==
  \/ MainLoadRow("posRow", "posCol") \/ MainLoadCol("posCol", "index14")
  \/ MainIndex("index14", 14, "data14") \/ MainData("data14", tmp \div LOW, "index15")
  \/ MainIndex("index15", 15, "data15") \/ MainData("data15", tmp % LOW, "out")

MainStep ==
  \/ MainKputc("cellRow") \/ MainKputc("newline")
  \/ MainLoadRow("cellRow", "cellCol") \/ MainLoadCol("cellCol", "cell") \/ MainCell
  \/ MainColInc \/ MainColStore
  \/ MainCol0("newline", "nlInc") \/ MainRowInc("nlInc", "nlStore") \/ MainRowStore("nlStore", "wrap")
  \/ MainWrap
  \/ MainCol0("wrapCol", "rowInc") \/ MainRowInc("rowInc", "rowStore") \/ MainRowStore("rowStore", "scroll")
  \/ MainScroll \/ MainLastRow
  \/ MainMoveCursor

Char == {"x", "newline", "return", "tab", "backspace"}

Next ==
  \/ MainStep
  \/ \E c \in Char : Kputc(c)
  \/ ClearScreen

Spec == Init /\ [][Next]_vars

-----------------------------------------------------------------------------
(* Properties.                                                              *)

\* kputc leaves the cursor on the screen, whoever else printed meanwhile: once
\* main() is out of it nothing is printed below the last row or past a line's end.
CursorOnScreen ==
  pc = "out" => cursor_row \in 0..(VGA_ROWS - 1) /\ cursor_col \in 0..(VGA_COLS - 1)

\* While main() is in kputc a handler may meet its cursor one row below the
\* screen and one column past a line's end, or print over its half-done move; no
\* write goes further: it stays in the adapter's memory, which holds 16384 cells.
WritesInVideoMemory == wrote \in 0..Index(VGA_ROWS, VGA_COLS)

\* When nobody prints, the hardware cursor is where the next character goes,
\* unless a handler printed inside main()'s last move_cursor; the next character
\* of either puts that right.
CursorShown ==
  pc = "out" /\ ~torn =>
    crtc.hi * LOW + crtc.lo = Index(cursor_row, cursor_col)
=============================================================================
