---------------------------- MODULE ScreenProofs ----------------------------
(***************************************************************************)
(* The properties of Screen for a screen of any size: where main() may be  *)
(* in kputc while the cursor is off the screen, and what it has loaded.    *)
(***************************************************************************)
EXTENDS Screen, TLAPS

Rows == 0..(VGA_ROWS - 1)
Cols == 0..(VGA_COLS - 1)

Label == {"out", "cellRow", "cellCol", "cell", "colInc", "colStore",
          "newline", "nlInc", "nlStore", "wrap", "wrapCol", "rowInc", "rowStore",
          "scroll", "lastRow", "posRow", "posCol", "index14", "data14", "index15", "data15"}

\* The cursor leaves the screen only where main() has yet to look at it: below
\* it before scroll_if_needed, past a line's end before the line wraps, and never
\* both.
CursorInv ==
  /\ cursor_row \in Rows \/ (cursor_row = VGA_ROWS /\ pc \in {"wrap", "scroll", "lastRow"})
  /\ cursor_col \in Cols \/ (cursor_col = VGA_COLS /\ pc \in {"wrap", "wrapCol"})
  /\ cursor_row \in Rows \/ cursor_col \in Cols

\* What main() has loaded was on the screen.
LoadInv ==
  /\ tmp \in Int
  /\ pc = "cellCol" => \E r \in Rows : tmp = Index(r, 0)
  /\ pc = "cell" => \E r \in Rows, c \in Cols : tmp = Index(r, c)
  /\ pc = "colStore" => tmp \in Cols
  /\ pc \in {"nlStore", "rowStore"} => tmp \in Rows

\* The adapter's cells that may be written.
WroteInv == \E r \in 0..VGA_ROWS, c \in 0..VGA_COLS : wrote = Index(r, c)

ScreenInv == pc \in Label /\ CursorInv /\ LoadInv /\ WroteInv

-----------------------------------------------------------------------------
(* kputc in a handler.                                                      *)

\* A character printed with the cursor at most one off the screen leaves it on
\* the screen.
LEMMA KputcLands ==
  ASSUME NEW row \in 0..VGA_ROWS, NEW col \in 0..VGA_COLS, NEW c \in Char
  PROVE  LET p == Scroll(Wrap(Advance(c, row, col))) IN p[1] \in Rows /\ p[2] \in Cols
<1> USE ScreenAssumption
<1> DEFINE a == Advance(c, row, col)
           w == Wrap(a)
<1>1. ((col + TAB) \div TAB) * TAB \in Nat
  <2>1. (col + TAB) \div TAB \in Nat
    OBVIOUS
  <2> QED BY <2>1
<1>2. /\ a[1] \in Nat /\ a[2] \in Nat /\ a = <<a[1], a[2]>>
  BY <1>1 DEF Advance, Char
<1>3. /\ w[1] \in Nat /\ w[2] \in Cols /\ w = <<w[1], w[2]>>
  <2> HIDE DEF a
  <2> QED BY <1>2 DEF Wrap, Cols
<1> HIDE DEF w
<1>4. Scroll(w)[1] \in Rows /\ Scroll(w)[2] \in Cols
  BY <1>3 DEF Scroll, Rows
<1> QED BY <1>4 DEF w

\* The cursor is at most one row below the screen and one column past it.
LEMMA CursorRange == CursorInv => cursor_row \in 0..VGA_ROWS /\ cursor_col \in 0..VGA_COLS
  BY ScreenAssumption DEF CursorInv, Rows, Cols

\* So does what main() does with the cursor it finds after a handler ran.
LEMMA OnScreen == cursor_row' \in Rows /\ cursor_col' \in Cols => CursorInv'
  BY DEF CursorInv

\* A handler that prints or clears, wherever main() is.
LEMMA HandlerKeeps ==
  ASSUME ScreenInv, \/ \E c \in Char : Kputc(c)
                    \/ ClearScreen
  PROVE  ScreenInv'
<1> USE ScreenAssumption
<1>1. pc' = pc /\ tmp' = tmp
  BY DEF Kputc, ClearScreen, mainvars
<1>2. pc' \in Label /\ LoadInv'
  BY <1>1 DEF ScreenInv, LoadInv, Index
<1>3. cursor_row' \in Rows /\ cursor_col' \in Cols
  <2>1. CASE \E c \in Char : Kputc(c)
    <3>1. PICK c \in Char : Kputc(c)
      BY <2>1
    <3> QED BY <3>1, KputcLands, CursorRange DEF Kputc, ScreenInv
  <2>2. CASE ClearScreen
    BY <2>2 DEF ClearScreen, Rows, Cols
  <2> QED BY <2>1, <2>2
<1>4. WroteInv'
  <2>1. CASE \E c \in Char : Kputc(c)
    <3>1. PICK c \in Char : Kputc(c)
      BY <2>1
    <3>2. wrote' = Cell(c, cursor_row, cursor_col)
      BY <3>1 DEF Kputc
    <3>3. CASE c = "x"
      BY <3>2, <3>3, CursorRange DEF Cell, WroteInv, ScreenInv
    <3>4. CASE c = "backspace" /\ cursor_col > 0
      <4>1. wrote' = Index(cursor_row, cursor_col - 1)
        BY <3>2, <3>4 DEF Cell
      <4>2. cursor_col - 1 \in 0..VGA_COLS
        BY <3>4, CursorRange DEF ScreenInv
      <4> QED BY <4>1, <4>2, CursorRange DEF WroteInv, ScreenInv
    <3>5. CASE c # "x" /\ ~(c = "backspace" /\ cursor_col > 0)
      BY <3>2, <3>5 DEF Cell, WroteInv, ScreenInv
    <3> QED BY <3>3, <3>4, <3>5
  <2>2. CASE ClearScreen
    <3>1. wrote' = Index(VGA_ROWS - 1, VGA_COLS - 1)
      BY <2>2 DEF ClearScreen
    <3>2. VGA_ROWS - 1 \in 0..VGA_ROWS /\ VGA_COLS - 1 \in 0..VGA_COLS
      OBVIOUS
    <3> QED BY <3>1, <3>2 DEF WroteInv
  <2> QED BY <2>1, <2>2
<1> QED BY <1>2, <1>3, <1>4, OnScreen DEF ScreenInv

-----------------------------------------------------------------------------
(* kputc in main().                                                         *)

\* A step of main() that leaves the cursor alone.
LEMMA CursorKept ==
  ASSUME CursorInv, UNCHANGED cursor,
         pc \in {"wrap", "wrapCol", "scroll", "lastRow"} =>
           /\ cursor_row \in Rows \/ pc' \in {"scroll", "lastRow"}
           /\ cursor_col \in Cols \/ pc' = "wrapCol"
  PROVE  CursorInv'
  BY DEF CursorInv, cursor

\* An access of main()'s kputc.
LEMMA MainKeeps ==
  ASSUME ScreenInv, MainStep
  PROVE  ScreenInv'
<1> USE ScreenAssumption DEF Goto
<1>a. CursorInv /\ LoadInv /\ WroteInv /\ tmp \in Int
  BY DEF ScreenInv, LoadInv
<1>i. \A r, c \in Int : Index(r, c) \in Int /\ Index(r, c) = Index(r, 0) + c
  BY DEF Index
<1>w. wrote' = wrote => WroteInv'
  BY <1>a DEF WroteInv
<1>1. CASE MainKputc("cellRow") \/ MainKputc("newline")
  <2>1. pc = "out" /\ pc' \in {"cellRow", "newline"} /\ tmp' = tmp /\ wrote' = wrote /\ UNCHANGED cursor
    BY <1>1 DEF MainKputc
  <2> QED BY <2>1, <1>a, <1>w, CursorKept DEF ScreenInv, Label, LoadInv
<1>2. ASSUME NEW l, NEW n, <<l, n>> \in {<<"cellRow", "cellCol">>, <<"posRow", "posCol">>}, MainLoadRow(l, n)
      PROVE  ScreenInv'
  <2>1. pc = l /\ pc' = n /\ tmp' = Index(cursor_row, 0) /\ wrote' = wrote /\ UNCHANGED cursor
    BY <1>2 DEF MainLoadRow
  <2>2. cursor_row \in Rows /\ cursor_row \in Int
    BY <1>a, <1>2, <2>1 DEF CursorInv, Rows
  <2>3. tmp' \in Int /\ \E r \in Rows : tmp' = Index(r, 0)
    BY <1>i, <2>1, <2>2
  <2>4. LoadInv'
    BY <1>2, <2>1, <2>3 DEF LoadInv
  <2> QED BY <2>1, <2>4, <1>2, <1>a, <1>w, CursorKept DEF ScreenInv, Label
<1>3. ASSUME NEW l, NEW n, <<l, n>> \in {<<"cellCol", "cell">>, <<"posCol", "index14">>}, MainLoadCol(l, n)
      PROVE  ScreenInv'
  <2>1. pc = l /\ pc' = n /\ tmp' = tmp + cursor_col /\ wrote' = wrote /\ UNCHANGED cursor
    BY <1>3 DEF MainLoadCol
  <2>2. cursor_col \in Cols /\ cursor_col \in Int
    BY <1>a, <1>3, <2>1 DEF CursorInv, Cols
  <2>3. LoadInv'
    <3>1. tmp' \in Int
      BY <1>a, <2>1, <2>2
    <3>2. ASSUME pc' = "cell" PROVE \E r \in Rows, c \in Cols : tmp' = Index(r, c)
      <4>1. PICK r \in Rows : tmp = Index(r, 0)
        BY <1>3, <1>a, <2>1, <3>2 DEF LoadInv
      <4>2. r \in Int
        BY DEF Rows
      <4>3. tmp' = Index(r, cursor_col)
        BY <4>1, <4>2, <2>1, <2>2, <1>i
      <4> QED BY <4>3, <2>2
    <3> QED BY <3>1, <3>2, <2>1, <1>3 DEF LoadInv
  <2> QED BY <2>1, <2>3, <1>3, <1>a, <1>w, CursorKept DEF ScreenInv, Label
<1>4. CASE MainCell
  <2>1. pc = "cell" /\ pc' = "colInc" /\ tmp' = tmp /\ wrote' = tmp /\ UNCHANGED cursor
    BY <1>4 DEF MainCell
  <2>2. PICK r \in Rows, c \in Cols : tmp = Index(r, c)
    BY <2>1, <1>a DEF LoadInv
  <2>3. r \in 0..VGA_ROWS /\ c \in 0..VGA_COLS
    BY DEF Rows, Cols
  <2>4. WroteInv'
    BY <2>1, <2>2, <2>3 DEF WroteInv
  <2> QED BY <2>1, <2>4, <1>a, CursorKept DEF ScreenInv, Label, LoadInv
<1>5. CASE MainColInc
  <2>1. pc = "colInc" /\ pc' = "colStore" /\ tmp' = cursor_col /\ wrote' = wrote /\ UNCHANGED cursor
    BY <1>5 DEF MainColInc
  <2>2. cursor_col \in Cols /\ cursor_col \in Int
    BY <1>a, <2>1 DEF CursorInv, Cols
  <2> QED BY <2>1, <2>2, <1>a, <1>w, CursorKept DEF ScreenInv, Label, LoadInv
<1>6. CASE MainColStore
  <2>1. pc = "colStore" /\ pc' = "wrap" /\ tmp' = tmp /\ wrote' = wrote /\ cursor_col' = tmp + 1 /\ cursor_row' = cursor_row
    BY <1>6 DEF MainColStore
  <2>2. CursorInv'
    BY <2>1, <1>a DEF CursorInv, LoadInv, Cols
  <2> QED BY <2>1, <2>2, <1>a, <1>w DEF ScreenInv, Label, LoadInv
<1>7. ASSUME NEW l, NEW n, <<l, n>> \in {<<"newline", "nlInc">>, <<"wrapCol", "rowInc">>}, MainCol0(l, n)
      PROVE  ScreenInv'
  <2>1. pc = l /\ pc' = n /\ tmp' = tmp /\ wrote' = wrote /\ cursor_col' = 0 /\ cursor_row' = cursor_row
    BY <1>7 DEF MainCol0
  <2>2. CursorInv'
    BY <2>1, <1>7, <1>a DEF CursorInv, Cols
  <2> QED BY <2>1, <2>2, <1>7, <1>a, <1>w DEF ScreenInv, Label, LoadInv
<1>8. ASSUME NEW l, NEW n, <<l, n>> \in {<<"nlInc", "nlStore">>, <<"rowInc", "rowStore">>}, MainRowInc(l, n)
      PROVE  ScreenInv'
  <2>1. pc = l /\ pc' = n /\ tmp' = cursor_row /\ wrote' = wrote /\ UNCHANGED cursor
    BY <1>8 DEF MainRowInc
  <2>2. cursor_row \in Rows /\ cursor_row \in Int
    BY <1>a, <1>8, <2>1 DEF CursorInv, Rows
  <2> QED BY <2>1, <2>2, <1>8, <1>a, <1>w, CursorKept DEF ScreenInv, Label, LoadInv
<1>9. ASSUME NEW l, NEW n, <<l, n>> \in {<<"nlStore", "wrap">>, <<"rowStore", "scroll">>}, MainRowStore(l, n)
      PROVE  ScreenInv'
  <2>1. pc = l /\ pc' = n /\ tmp' = tmp /\ wrote' = wrote /\ cursor_row' = tmp + 1 /\ cursor_col' = cursor_col
    BY <1>9 DEF MainRowStore
  <2>2. CursorInv'
    BY <2>1, <1>9, <1>a DEF CursorInv, LoadInv, Rows
  <2> QED BY <2>1, <2>2, <1>9, <1>a, <1>w DEF ScreenInv, Label, LoadInv
<1>10. CASE MainWrap
  <2>1. /\ pc = "wrap" /\ pc' = IF cursor_col >= VGA_COLS THEN "wrapCol" ELSE "scroll"
        /\ tmp' = tmp /\ wrote' = wrote /\ UNCHANGED cursor
    BY <1>10 DEF MainWrap
  <2>2. CursorInv'
    BY <2>1, <1>a DEF CursorInv, Cols, Rows, cursor
  <2> QED BY <2>1, <2>2, <1>a, <1>w DEF ScreenInv, Label, LoadInv
<1>11. CASE MainScroll
  <2>1. /\ pc = "scroll" /\ pc' = IF cursor_row >= VGA_ROWS THEN "lastRow" ELSE "posRow"
        /\ tmp' = tmp /\ wrote' = wrote /\ UNCHANGED cursor
    BY <1>11 DEF MainScroll
  <2>2. CursorInv'
    BY <2>1, <1>a DEF CursorInv, Cols, Rows, cursor
  <2> QED BY <2>1, <2>2, <1>a, <1>w DEF ScreenInv, Label, LoadInv
<1>12. CASE MainLastRow
  <2>1. pc = "lastRow" /\ pc' = "posRow" /\ tmp' = tmp /\ wrote' = wrote /\ cursor_row' = VGA_ROWS - 1 /\ cursor_col' = cursor_col
    BY <1>12 DEF MainLastRow
  <2>2. CursorInv'
    BY <2>1, <1>a DEF CursorInv, Rows
  <2> QED BY <2>1, <2>2, <1>a, <1>w DEF ScreenInv, Label, LoadInv
<1>13. CASE \/ MainIndex("index14", 14, "data14") \/ MainData("data14", tmp \div LOW, "index15")
            \/ MainIndex("index15", 15, "data15") \/ MainData("data15", tmp % LOW, "out")
  <2>1. /\ pc \in {"index14", "data14", "index15", "data15"}
        /\ pc' \in {"data14", "index15", "data15", "out"}
        /\ tmp' = tmp /\ wrote' = wrote /\ UNCHANGED cursor
    BY <1>13 DEF MainIndex, MainData
  <2> QED BY <2>1, <1>a, <1>w, CursorKept DEF ScreenInv, Label, LoadInv
<1> QED
  BY <1>1, <1>2, <1>3, <1>4, <1>5, <1>6, <1>7, <1>8, <1>9, <1>10, <1>11, <1>12, <1>13
  DEF MainStep, MainMoveCursor

-----------------------------------------------------------------------------
(* The hardware cursor.                                                     *)

\* main(), undisturbed since it loaded the cursor, sends that cursor.
ShownInv ==
  /\ crtc \in [index : {14, 15}, hi : Int, lo : Int]
  /\ torn \in BOOLEAN
  /\ ~torn =>
       /\ pc = "out" => crtc.hi * LOW + crtc.lo = Index(cursor_row, cursor_col)
       /\ pc = "posCol" => tmp = Index(cursor_row, 0)
       /\ pc \in {"index14", "data14", "index15", "data15"} => tmp = Index(cursor_row, cursor_col)
       /\ pc = "data14" => crtc.index = 14
       /\ pc \in {"index15", "data15"} => crtc.hi = tmp \div LOW
       /\ pc = "data15" => crtc.index = 15

\* An outb to the CRTC's data port changes the half its index selects, and no other.
LEMMA DataPort ==
  ASSUME NEW c \in [index : {14, 15}, hi : Int, lo : Int], NEW v \in Int, NEW d,
         d = IF c.index = 14 THEN [c EXCEPT !.hi = v] ELSE [c EXCEPT !.lo = v]
  PROVE  /\ d \in [index : {14, 15}, hi : Int, lo : Int]
         /\ c.index = 14 => d.hi = v
         /\ c.index = 15 => d.hi = c.hi /\ d.lo = v
<1>1. CASE c.index = 14
  BY <1>1
<1>2. CASE c.index = 15
  BY <1>2
<1> QED BY <1>1, <1>2

\* The two registers hold the position between them.
LEMMA Registers ==
  ASSUME NEW n \in Int
  PROVE  n \div LOW \in Int /\ n % LOW \in Int /\ (n \div LOW) * LOW + (n % LOW) = n
  BY ScreenAssumption

\* The two registers hold the position.
LEMMA MovedShows ==
  ASSUME NEW row \in Int, NEW col \in Int
  PROVE  /\ MovedTo(row, col) \in [index : {14, 15}, hi : Int, lo : Int]
         /\ MovedTo(row, col).hi * LOW + MovedTo(row, col).lo = Index(row, col)
<1>1. Index(row, col) \in Int
  BY ScreenAssumption DEF Index
<1> DEFINE n == Index(row, col)
<1>2. /\ n \div LOW \in Int /\ n % LOW \in Int /\ (n \div LOW) * LOW + (n % LOW) = n
  BY <1>1, Registers
<1>3. MovedTo(row, col) = [index |-> 15, hi |-> n \div LOW, lo |-> n % LOW]
  BY DEF MovedTo
<1> HIDE DEF n
<1>4. /\ MovedTo(row, col) \in [index : {14, 15}, hi : Int, lo : Int]
      /\ MovedTo(row, col).hi * LOW + MovedTo(row, col).lo = n
  BY <1>2, <1>3
<1> QED BY <1>4 DEF n

\* move_cursor in a handler shows the cursor.
LEMMA HandlerShows ==
  ASSUME ScreenInv, ScreenInv', ShownInv, \/ \E c \in Char : Kputc(c)
                                          \/ ClearScreen
  PROVE  ShownInv'
<1> USE ScreenAssumption
<1>1. /\ pc' = pc /\ torn' = InMoveCursor
      /\ crtc' = MovedTo(cursor_row', cursor_col')
  <2>1. CASE \E c \in Char : Kputc(c)
    BY <2>1 DEF Kputc, mainvars
  <2>2. CASE ClearScreen
    BY <2>2 DEF ClearScreen, mainvars
  <2> QED BY <2>1, <2>2
<1>2. cursor_row' \in Int /\ cursor_col' \in Int
  BY DEF ScreenInv, CursorInv, Rows, Cols
<1>3. /\ crtc' \in [index : {14, 15}, hi : Int, lo : Int]
      /\ crtc'.hi * LOW + crtc'.lo = Index(cursor_row', cursor_col')
  BY <1>1, <1>2, MovedShows
<1>4. torn' \in BOOLEAN /\ (~torn' => pc' \notin {"posCol", "index14", "data14", "index15", "data15"})
  <2>1. InMoveCursor \in BOOLEAN
    BY DEF InMoveCursor
  <2>2. torn' \in BOOLEAN /\ (~torn' => ~InMoveCursor)
    BY <1>1, <2>1, Zenon
  <2> QED BY <1>1, <2>2 DEF InMoveCursor
<1>5. Index(cursor_row', cursor_col') = Index(cursor_row, cursor_col)'
  BY DEF Index
<1> QED BY <1>3, <1>4, <1>5 DEF ShownInv

\* main()'s move_cursor shows the cursor, if it is not interrupted.
LEMMA MainShows ==
  ASSUME ScreenInv, ScreenInv', ShownInv, MainStep
  PROVE  ShownInv'
<1> USE ScreenAssumption DEF Goto
<1>a. /\ cursor_row \in Int /\ cursor_col \in Int /\ tmp \in Int
      /\ crtc \in [index : {14, 15}, hi : Int, lo : Int] /\ torn \in BOOLEAN
  BY DEF ScreenInv, CursorInv, LoadInv, Rows, Cols, ShownInv
<1>1. CASE pc' \notin {"out", "posCol", "index14", "data14", "index15", "data15"}
  <2>1. crtc' = crtc /\ torn' \in BOOLEAN
    BY <1>1, <1>a
    DEF MainStep, MainMoveCursor, MainKputc, MainLoadRow, MainLoadCol, MainCell, MainColInc,
        MainColStore, MainCol0, MainRowInc, MainRowStore, MainWrap, MainScroll, MainLastRow,
        MainIndex, MainData
  <2> QED BY <1>1, <1>a, <2>1 DEF ShownInv
<1>2. CASE MainLoadRow("posRow", "posCol")
  <2>1. pc' = "posCol" /\ tmp' = Index(cursor_row, 0) /\ torn' = FALSE /\ crtc' = crtc /\ UNCHANGED cursor
    BY <1>2 DEF MainLoadRow
  <2>2. Index(cursor_row, 0)' = Index(cursor_row, 0)
    BY <2>1 DEF Index, cursor
  <2> QED BY <1>a, <2>1, <2>2 DEF ShownInv
<1>3. CASE MainLoadCol("posCol", "index14")
  <2>1. pc = "posCol" /\ pc' = "index14" /\ tmp' = tmp + cursor_col /\ torn' = torn /\ crtc' = crtc /\ UNCHANGED cursor
    BY <1>3 DEF MainLoadCol
  <2>2. ~torn => tmp' = Index(cursor_row, cursor_col)'
    <3>1. Index(cursor_row, cursor_col)' = Index(cursor_row, cursor_col)
      BY <2>1 DEF Index, cursor
    <3>2. Index(cursor_row, cursor_col) = Index(cursor_row, 0) + cursor_col
      BY <1>a DEF Index
    <3>3. ~torn => tmp = Index(cursor_row, 0)
      BY <2>1 DEF ShownInv
    <3> QED BY <2>1, <3>1, <3>2, <3>3
  <2> QED BY <1>a, <2>1, <2>2 DEF ShownInv
<1>4. CASE MainIndex("index14", 14, "data14") \/ MainIndex("index15", 15, "data15")
  <2>1. /\ pc \in {"index14", "index15"}
        /\ pc' = IF pc = "index14" THEN "data14" ELSE "data15"
        /\ crtc' = [crtc EXCEPT !.index = IF pc = "index14" THEN 14 ELSE 15]
        /\ tmp' = tmp /\ torn' = torn /\ UNCHANGED cursor
    <3>1. CASE MainIndex("index14", 14, "data14")
      BY <3>1, Zenon DEF MainIndex
    <3>2. CASE MainIndex("index15", 15, "data15")
      BY <3>2, Zenon DEF MainIndex
    <3> QED BY <1>4, <3>1, <3>2
  <2>2. /\ crtc' \in [index : {14, 15}, hi : Int, lo : Int]
        /\ crtc'.index = IF pc = "index14" THEN 14 ELSE 15
        /\ crtc'.hi = crtc.hi
    BY <1>a, <2>1
  <2>3. Index(cursor_row, cursor_col)' = Index(cursor_row, cursor_col)
    BY <2>1 DEF Index, cursor
  <2> QED BY <1>a, <2>1, <2>2, <2>3 DEF ShownInv
<1>5. CASE MainData("data14", tmp \div LOW, "index15")
  <2>1. /\ pc = "data14" /\ pc' = "index15" /\ tmp' = tmp /\ torn' = torn /\ UNCHANGED cursor
        /\ crtc' = IF crtc.index = 14 THEN [crtc EXCEPT !.hi = tmp \div LOW]
                                       ELSE [crtc EXCEPT !.lo = tmp \div LOW]
    BY <1>5, Zenon DEF MainData
  <2>2. tmp \div LOW \in Int
    BY <1>a, Registers
  <2>3. /\ crtc' \in [index : {14, 15}, hi : Int, lo : Int]
        /\ crtc.index = 14 => crtc'.hi = tmp \div LOW
    BY <1>a, <2>1, <2>2, DataPort
  <2>4. Index(cursor_row, cursor_col)' = Index(cursor_row, cursor_col)
    BY <2>1 DEF Index, cursor
  <2> QED BY <1>a, <2>1, <2>3, <2>4 DEF ShownInv
<1>6. CASE MainData("data15", tmp % LOW, "out")
  <2>1. /\ pc = "data15" /\ pc' = "out" /\ tmp' = tmp /\ torn' = torn /\ UNCHANGED cursor
        /\ crtc' = IF crtc.index = 14 THEN [crtc EXCEPT !.hi = tmp % LOW]
                                       ELSE [crtc EXCEPT !.lo = tmp % LOW]
    BY <1>6, Zenon DEF MainData
  <2>2. tmp % LOW \in Int
    BY <1>a, Registers
  <2>3. /\ crtc' \in [index : {14, 15}, hi : Int, lo : Int]
        /\ crtc.index = 15 => crtc'.hi = crtc.hi /\ crtc'.lo = tmp % LOW
    BY <1>a, <2>1, <2>2, DataPort
  <2>4. Index(cursor_row, cursor_col)' = Index(cursor_row, cursor_col)
    BY <2>1 DEF Index, cursor
  <2>5. ~torn => /\ crtc.index = 15 /\ crtc.hi = tmp \div LOW
                 /\ tmp = Index(cursor_row, cursor_col)
    BY <2>1 DEF ShownInv
  <2>6. ~torn => crtc'.hi * LOW + crtc'.lo = tmp
    <3>1. (tmp \div LOW) * LOW + (tmp % LOW) = tmp
      BY <1>a, Registers
    <3>2. ~torn => crtc'.hi = tmp \div LOW /\ crtc'.lo = tmp % LOW
      BY <2>3, <2>5
    <3> QED BY <3>1, <3>2, Zenon
  <2> QED BY <1>a, <2>1, <2>3, <2>4, <2>5, <2>6 DEF ShownInv
<1>7. \/ pc' \notin {"out", "posCol", "index14", "data14", "index15", "data15"}
      \/ MainMoveCursor
  BY DEF MainStep, MainKputc, MainLoadRow, MainLoadCol, MainCell, MainColInc,
        MainColStore, MainCol0, MainRowInc, MainRowStore, MainWrap, MainScroll, MainLastRow
<1> QED BY <1>1, <1>2, <1>3, <1>4, <1>5, <1>6, <1>7 DEF MainMoveCursor

-----------------------------------------------------------------------------

\* The inductive invariant of kputc's two writers: it starts true, and main()'s
\* steps and the handlers' characters keep it.
THEOREM ScreenInvariant == Spec => [](ScreenInv /\ ShownInv)
<1>1. Init => ScreenInv /\ ShownInv
  <2> SUFFICES ASSUME Init PROVE ScreenInv /\ ShownInv
    OBVIOUS
  <2>1. 0 \in Rows /\ 0 \in Cols /\ 0 \in 0..VGA_ROWS /\ 0 \in 0..VGA_COLS /\ Index(0, 0) = 0
    BY ScreenAssumption DEF Rows, Cols, Index
  <2>2. ScreenInv
    BY <2>1 DEF Init, ScreenInv, CursorInv, LoadInv, WroteInv, Label
  <2>3. ShownInv
    <3>1. /\ crtc \in [index : {14, 15}, hi : Int, lo : Int]
          /\ crtc.hi * LOW + crtc.lo = Index(cursor_row, cursor_col)
      <4>1. cursor_row \in Int /\ cursor_col \in Int
        BY DEF Init
      <4>2. crtc = MovedTo(cursor_row, cursor_col)
        BY DEF Init
      <4> QED BY <4>1, <4>2, MovedShows
    <3> QED BY <3>1 DEF Init, ShownInv
  <2> QED BY <2>2, <2>3
<1>2. ScreenInv /\ ShownInv /\ [Next]_vars => (ScreenInv /\ ShownInv)'
  <2> SUFFICES ASSUME ScreenInv, ShownInv, [Next]_vars PROVE (ScreenInv /\ ShownInv)'
    OBVIOUS
  <2>1. CASE MainStep
    BY <2>1, MainKeeps, MainShows
  <2>2. CASE (\E c \in Char : Kputc(c)) \/ ClearScreen
    BY <2>2, HandlerKeeps, HandlerShows
  <2>3. CASE UNCHANGED vars
    <3>1. UNCHANGED <<cursor_row, cursor_col, crtc, wrote, pc, tmp, torn>>
      BY <2>3 DEF vars, cursor, mainvars
    <3> QED BY <3>1 DEF ScreenInv, ShownInv, CursorInv, LoadInv, WroteInv, Index
  <2> QED BY <2>1, <2>2, <2>3 DEF Next
<1> QED BY <1>1, <1>2, PTL DEF Spec

\* On a screen of any size, kputc leaves the cursor on it, whoever else printed
\* meanwhile.
THEOREM CursorStaysOnScreen == Spec => []CursorOnScreen
<1>1. ScreenInv => CursorOnScreen
  BY DEF ScreenInv, CursorInv, CursorOnScreen, Rows, Cols
<1> QED BY <1>1, ScreenInvariant, PTL

\* No write goes further than one row below the screen.
THEOREM WritesStayInVideoMemory == Spec => []WritesInVideoMemory
<1>1. ScreenInv => WritesInVideoMemory
  <2> SUFFICES ASSUME ScreenInv PROVE wrote \in 0..Index(VGA_ROWS, VGA_COLS)
    BY DEF WritesInVideoMemory
  <2>1. PICK r \in 0..VGA_ROWS, c \in 0..VGA_COLS : wrote = Index(r, c)
    BY DEF ScreenInv, WroteInv
  <2>2. r * VGA_COLS <= VGA_ROWS * VGA_COLS /\ r * VGA_COLS >= 0
    <3>1. \A m, n \in Nat : m * n \in Nat
      OBVIOUS
    <3>2. r \in Nat /\ VGA_ROWS - r \in Nat /\ VGA_COLS \in Nat
      BY ScreenAssumption
    <3>3. r * VGA_COLS \in Nat /\ (VGA_ROWS - r) * VGA_COLS \in Nat
      BY <3>1, <3>2
    <3>4. (VGA_ROWS - r) * VGA_COLS = VGA_ROWS * VGA_COLS - r * VGA_COLS
      BY <3>2, ScreenAssumption
    <3> QED BY <3>3, <3>4, ScreenAssumption
  <2> QED BY <2>1, <2>2, ScreenAssumption DEF Index
<1> QED BY <1>1, ScreenInvariant, PTL

\* The hardware cursor follows, unless a handler came between main()'s loads and
\* its port writes.
THEOREM CursorFollows == Spec => []CursorShown
<1>1. ShownInv => CursorShown
  BY DEF ShownInv, CursorShown
<1> QED BY <1>1, ScreenInvariant, PTL
=============================================================================
