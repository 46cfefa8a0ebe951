----------------------------- MODULE BlockStore -----------------------------
(***************************************************************************)
(* What fs/bcache.h promises: blocks that read as they were last written,  *)
(* kept in RAM, written behind to the disk at any moment, all of them by   *)
(* the time a bcache_sync ends, and read back from the disk after a crash. *)
(***************************************************************************)
CONSTANTS Block, Value

VARIABLES mem,     \* the contents a reader sees
          disk,    \* the contents that survive a crash
          syncing, \* a bcache_sync is under way
          out      \* what the last bcache_read returned

vars == <<mem, disk, syncing, out>>

Init ==
  /\ disk \in [Block -> Value]
  /\ mem = disk
  /\ syncing = FALSE
  /\ out \in Value

\* Any blocks may reach the disk as they are in memory.
WriteBehind ==
  \E S \in SUBSET Block : disk' = [b \in Block |-> IF b \in S THEN mem[b] ELSE disk[b]]

Read(b) ==
  /\ ~syncing
  /\ WriteBehind
  /\ out' = mem[b]
  /\ UNCHANGED <<mem, syncing>>

Write(b, v) ==
  /\ ~syncing
  /\ WriteBehind
  /\ mem' = [mem EXCEPT ![b] = v]
  /\ UNCHANGED <<syncing, out>>

SyncBegin ==
  /\ ~syncing
  /\ syncing' = TRUE
  /\ UNCHANGED <<mem, disk, out>>

SyncWrite ==
  /\ syncing
  /\ WriteBehind
  /\ UNCHANGED <<mem, syncing, out>>

\* "flush all dirty blocks to disk"
SyncEnd ==
  /\ syncing
  /\ disk = mem
  /\ syncing' = FALSE
  /\ UNCHANGED <<mem, disk, out>>

Crash ==
  /\ mem' = disk
  /\ syncing' = FALSE
  /\ out' \in Value
  /\ UNCHANGED disk

Next ==
  \/ \E b \in Block : Read(b)
  \/ \E b \in Block, v \in Value : Write(b, v)
  \/ SyncBegin
  \/ SyncWrite
  \/ SyncEnd
  \/ Crash

Spec == Init /\ [][Next]_vars
=============================================================================
