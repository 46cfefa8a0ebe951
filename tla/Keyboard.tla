------------------------------ MODULE Keyboard ------------------------------
(***************************************************************************)
(* The keyboard driver (drivers/keyboard.c): modifiers, line editing, and  *)
(* the line it hands to the shell.  Each key is an interrupt of its own.   *)
(* The shell runs inside the one of Enter; when its command starts a       *)
(* ring-3 program that interrupt stays suspended in submit_line, and       *)
(* further keys are served over it, with the same line buffer.             *)
(***************************************************************************)
EXTENDS Naturals, Sequences

CONSTANT LINE_MAX

ASSUME KeyboardAssumption == LINE_MAX \in Nat \ {0}

VARIABLES
  line_buf,   \* the first line_len characters of line_buf; the rest is dead
  shift, caps,
  handler,    \* line_handler is set
  running,    \* a submit_line is suspended: its command is in exec_user
  typed,      \* history: the line as typed since the last Enter
  mixed,      \* history: a program started or ended while it was typed
  whole       \* history: line_handler was last called with the line as typed

keys == <<shift, caps>>
vars == <<line_buf, keys, handler, running, typed, mixed, whole>>

NUL == "NUL"
CharKey == {"a", "space"}      \* a letter, and a key that has one character
map_lower == [k \in CharKey |-> IF k = "a" THEN "a" ELSE " "]
map_upper == [k \in CharKey |-> IF k = "a" THEN "A" ELSE " "]
Char == {"a", "A", " "}

Init ==
  /\ line_buf = <<>>
  /\ shift = FALSE
  /\ caps = FALSE
  /\ handler = FALSE
  /\ running = FALSE
  /\ typed = <<>>
  /\ mixed = FALSE
  /\ whole = TRUE

\* shell_init; main() enables interrupts before it, so keys may come first.
ShellInit ==
  /\ ~handler
  /\ handler' = TRUE
  /\ UNCHANGED <<line_buf, keys, running, typed, mixed, whole>>

-----------------------------------------------------------------------------
(* Modifiers.                                                               *)

\* A shift key goes down or up; the two of them share one flag.
Shift(down) ==
  /\ shift' = down
  /\ UNCHANGED <<line_buf, caps, handler, running, typed, mixed, whole>>

CapsLock ==
  /\ caps' = ~caps
  /\ UNCHANGED <<line_buf, shift, handler, running, typed, mixed, whole>>

SwapCase(c) == IF c = "a" THEN "A" ELSE IF c = "A" THEN "a" ELSE c

KeyChar(k) ==
  LET c == IF shift THEN map_upper[k] ELSE map_lower[k]
  IN  IF caps THEN SwapCase(c) ELSE c

-----------------------------------------------------------------------------
(* The line.                                                                *)

\* Mutant: no room is kept for the terminating NUL.
RoomForAll(line) == Len(line) < LINE_MAX

Room(line) == Len(line) < LINE_MAX - 1

Add(line, c) == IF Room(line) THEN Append(line, c) ELSE line

Rub(line) == IF line = <<>> THEN line ELSE SubSeq(line, 1, Len(line) - 1)

Type(k) ==
  /\ line_buf' = Add(line_buf, KeyChar(k))
  /\ typed' = Add(typed, KeyChar(k))
  /\ UNCHANGED <<keys, handler, running, mixed, whole>>

Backspace ==
  /\ line_buf' = Rub(line_buf)
  /\ typed' = Rub(typed)
  /\ UNCHANGED <<keys, handler, running, mixed, whole>>

\* The string at line_buf: it ends at the first NUL.
UpToNul(line) ==
  LET nul == {i \in 1..Len(line) : line[i] = NUL}
  IN  IF nul = {} THEN line
      ELSE SubSeq(line, 1, (CHOOSE i \in nul : \A j \in nul : i <= j) - 1)

\* tokenize cuts that string into words in place.
Tokenized(line) ==
  [i \in 1..Len(line) |-> IF i <= Len(UpToNul(line)) /\ line[i] = " " THEN NUL ELSE line[i]]

\* Mutant: the line is not emptied when its command returned.
EnterKeeps ==
  /\ whole' = IF handler THEN UpToNul(line_buf) = typed ELSE whole
  /\ typed' = <<>>
  /\ mixed' = FALSE
  /\ UNCHANGED <<line_buf, keys, handler, running>>

\* Enter: submit_line, with a command that returns.
Enter ==
  /\ whole' = IF handler THEN UpToNul(line_buf) = typed ELSE whole
  /\ line_buf' = <<>>
  /\ typed' = <<>>
  /\ mixed' = FALSE
  /\ UNCHANGED <<keys, handler, running>>

\* `exec` is given a program: the line has two words.
TwoWords(line) ==
  \E i, j, k \in 1..Len(line) :
    i < j /\ j < k /\ line[i] # " " /\ line[j] = " " /\ line[k] # " "

\* Enter, with a command that starts a program: exec_user allows one at a time.
EnterExec ==
  /\ handler
  /\ ~running
  /\ TwoWords(UpToNul(line_buf))
  /\ whole' = (UpToNul(line_buf) = typed)
  /\ line_buf' = Tokenized(line_buf)
  /\ running' = TRUE
  /\ typed' = <<>>
  /\ mixed' = TRUE
  /\ UNCHANGED <<keys, handler>>

\* SYS_EXIT: the suspended submit_line goes on and empties the buffer.
ProgramExits ==
  /\ running
  /\ running' = FALSE
  /\ line_buf' = <<>>
  /\ mixed' = (typed # <<>>)
  /\ UNCHANGED <<keys, handler, typed, whole>>

Next ==
  \/ ShellInit
  \/ Shift(TRUE)
  \/ Shift(FALSE)
  \/ CapsLock
  \/ \E k \in CharKey : Type(k)
  \/ Backspace
  \/ Enter
  \/ EnterExec
  \/ ProgramExits

Spec == Init /\ [][Next]_vars

-----------------------------------------------------------------------------
(* Properties.                                                              *)

\* line_buf has room for the line and its NUL.
TypeOK ==
  /\ line_buf \in Seq(Char \cup {NUL})
  /\ Len(line_buf) <= LINE_MAX - 1
  /\ shift \in BOOLEAN /\ caps \in BOOLEAN
  /\ handler \in BOOLEAN /\ running \in BOOLEAN
  /\ typed \in Seq(Char)
  /\ mixed \in BOOLEAN
  /\ whole \in BOOLEAN

\* The buffer is the line being typed, unless the program of an earlier line
\* started or ended in the middle of it; the next Enter puts that right, even
\* while the program still runs.
BufferIsLine == ~mixed => line_buf = typed

\* line_handler is "called with a completed (newline-terminated input) line"
\* (drivers/keyboard.h): the line typed since the Enter before.
HandsOverLine == whole
=============================================================================
