--------------------------- MODULE KeyboardProofs ---------------------------
(* The line buffer of the keyboard driver, for any LINE_MAX.                *)
EXTENDS Keyboard, SequenceTheorems, TLAPS

Line == {s \in Seq(Char \cup {NUL}) : Len(s) <= LINE_MAX - 1}

\* The scancode tables hold characters, in either case.
LEMMA KeyCharIsChar ==
  ASSUME NEW k \in CharKey
  PROVE  KeyChar(k) \in Char
<1>1. map_upper[k] \in Char /\ map_lower[k] \in Char
  BY DEF map_upper, map_lower, Char, CharKey
<1>2. \A c \in Char : SwapCase(c) \in Char
  BY DEF SwapCase, Char
<1> QED BY <1>1, <1>2 DEF KeyChar

\* A key that is typed or rubbed out leaves room for the NUL.
LEMMA AddFits ==
  ASSUME NEW s \in Line, NEW c \in Char
  PROVE  Add(s, c) \in Line
<1> USE KeyboardAssumption
<1>1. CASE Room(s)
  <2>1. Append(s, c) \in Seq(Char \cup {NUL}) /\ Len(Append(s, c)) = Len(s) + 1
    BY DEF Line
  <2> QED BY <1>1, <2>1 DEF Room, Add, Line
<1>2. CASE ~Room(s)
  BY <1>2 DEF Add
<1> QED BY <1>1, <1>2

\* Typing keeps a line a line.
LEMMA AddTypes ==
  ASSUME NEW s \in Seq(Char), NEW c \in Char
  PROVE  Add(s, c) \in Seq(Char)
  BY DEF Add

\* Backspace keeps a line a line, and no longer than it was.
LEMMA RubTypes ==
  ASSUME NEW C, NEW s \in Seq(C)
  PROVE  Rub(s) \in Seq(C) /\ Len(Rub(s)) <= Len(s)
<1>1. CASE s = <<>>
  BY <1>1 DEF Rub
<1>2. CASE s # <<>>
  <2>1. Len(s) \in Nat /\ Len(s) # 0
    BY <1>2, EmptySeq
  <2>2. Len(s) - 1 \in Int /\ \A i \in 1..(Len(s) - 1) : s[i] \in C
    BY <2>1, LenProperties
  <2>3. /\ SubSeq(s, 1, Len(s) - 1) \in Seq(C)
        /\ Len(SubSeq(s, 1, Len(s) - 1)) = IF 1 <= Len(s) - 1 THEN (Len(s) - 1) - 1 + 1 ELSE 0
    BY <2>2, SubSeqProperties
  <2> QED BY <1>2, <2>1, <2>3 DEF Rub
<1> QED BY <1>1, <1>2

\* tokenize writes into the line and leaves its length alone.
LEMMA TokenizedFits ==
  ASSUME NEW s \in Line
  PROVE  Tokenized(s) \in Line
<1>1. s \in Seq(Char \cup {NUL}) /\ Len(s) \in Nat
  BY DEF Line
<1>2. Tokenized(s) \in [1..Len(s) -> Char \cup {NUL}]
  <2>1. s \in [1..Len(s) -> Char \cup {NUL}]
    BY <1>1, LenProperties
  <2> DEFINE e(i) == IF i <= Len(UpToNul(s)) /\ s[i] = " " THEN NUL ELSE s[i]
  <2>2. \A i \in 1..Len(s) : e(i) \in Char \cup {NUL}
    BY <2>1
  <2>3. Tokenized(s) = [i \in 1..Len(s) |-> e(i)]
    BY DEF Tokenized
  <2> HIDE DEF e
  <2> QED BY <2>2, <2>3
<1>3. Tokenized(s) \in Seq(Char \cup {NUL}) /\ Len(Tokenized(s)) = Len(s)
  BY <1>1, <1>2
<1> QED BY <1>3 DEF Line

\* At every interrupt line_buf holds the line and its NUL.
THEOREM LineFits == Spec => []TypeOK
<1> USE KeyboardAssumption
<1>1. TypeOK <=> /\ line_buf \in Line /\ typed \in Seq(Char)
                 /\ shift \in BOOLEAN /\ caps \in BOOLEAN /\ handler \in BOOLEAN
                 /\ running \in BOOLEAN /\ mixed \in BOOLEAN /\ whole \in BOOLEAN
  BY DEF TypeOK, Line
<1>2. <<>> \in Line /\ <<>> \in Seq(Char)
  BY DEF Line
<1>3. Init => TypeOK
  BY <1>1, <1>2 DEF Init
<1>4. TypeOK /\ [Next]_vars => TypeOK'
  <2> SUFFICES ASSUME TypeOK, [Next]_vars PROVE TypeOK'
    OBVIOUS
  <2>0. /\ line_buf \in Line /\ typed \in Seq(Char)
        /\ shift \in BOOLEAN /\ caps \in BOOLEAN /\ handler \in BOOLEAN
        /\ running \in BOOLEAN /\ mixed \in BOOLEAN /\ whole \in BOOLEAN
    BY <1>1
  <2>p. ASSUME line_buf' \in Line, typed' \in Seq(Char), shift' \in BOOLEAN, caps' \in BOOLEAN,
               handler' \in BOOLEAN, running' \in BOOLEAN, mixed' \in BOOLEAN, whole' \in BOOLEAN
        PROVE  TypeOK'
    BY <2>p DEF TypeOK, Line
  <2>1. CASE ShellInit
    BY <2>0, <2>1, <2>p DEF ShellInit, keys
  <2>2. ASSUME NEW d \in BOOLEAN, Shift(d) PROVE TypeOK'
    BY <2>0, <2>2, <2>p DEF Shift
  <2>3. CASE CapsLock
    BY <2>0, <2>3, <2>p DEF CapsLock
  <2>4. ASSUME NEW k \in CharKey, Type(k) PROVE TypeOK'
    BY <2>0, <2>4, <2>p, KeyCharIsChar, AddFits, AddTypes DEF Type, keys
  <2>5. CASE Backspace
    <3>1. Rub(line_buf) \in Line /\ Rub(typed) \in Seq(Char)
      BY <2>0, RubTypes DEF Line
    <3> QED BY <2>0, <2>5, <2>p, <3>1 DEF Backspace, keys
  <2>6. CASE Enter
    BY <1>2, <2>0, <2>6, <2>p DEF Enter, keys
  <2>7. CASE EnterExec
    BY <1>2, <2>0, <2>7, <2>p, TokenizedFits DEF EnterExec, keys
  <2>8. CASE ProgramExits
    BY <1>2, <2>0, <2>8, <2>p DEF ProgramExits, keys
  <2>9. CASE UNCHANGED vars
    BY <2>9 DEF vars, keys, TypeOK
  <2> QED BY <2>1, <2>2, <2>3, <2>4, <2>5, <2>6, <2>7, <2>8, <2>9 DEF Next
<1> QED BY <1>3, <1>4, PTL DEF Spec

\* The buffer is the line being typed, but for what is typed across the start or
\* the end of a program.
THEOREM LineBuffered == Spec => []BufferIsLine
<1>1. Init => BufferIsLine
  BY DEF Init, BufferIsLine
<1>2. BufferIsLine /\ [Next]_vars => BufferIsLine'
  <2> SUFFICES ASSUME BufferIsLine, [Next]_vars PROVE BufferIsLine'
    OBVIOUS
  <2>1. CASE ShellInit \/ Shift(TRUE) \/ Shift(FALSE) \/ CapsLock \/ UNCHANGED vars
    BY <2>1 DEF BufferIsLine, ShellInit, Shift, CapsLock, vars
  <2>2. CASE Backspace \/ \E k \in CharKey : Type(k)
    BY <2>2 DEF BufferIsLine, Backspace, Type
  <2>3. CASE Enter \/ EnterExec
    BY <2>3 DEF BufferIsLine, Enter, EnterExec
  <2>4. CASE ProgramExits
    <3>1. line_buf' = <<>> /\ typed' = typed /\ mixed' = (typed # <<>>)
      BY <2>4 DEF ProgramExits
    <3>2. ~mixed' => typed = <<>>
      BY <3>1, Zenon
    <3> QED BY <3>1, <3>2 DEF BufferIsLine
  <2> QED BY <2>1, <2>2, <2>3, <2>4 DEF Next
<1> QED BY <1>1, <1>2, PTL DEF Spec
=============================================================================
