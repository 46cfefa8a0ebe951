------------------------------- MODULE BCache -------------------------------
(***************************************************************************)
(* The write-back block cache of fs/bcache.c over the data disk, which     *)
(* keeps its contents across a crash and may refuse a transfer.  A call of *)
(* the cache is one step, except that bcache_sync takes one per slot: the  *)
(* machine may lose power between two sectors.  Inside bcache_read and     *)
(* bcache_write at most one sector is written, before RAM is changed, so a *)
(* crash there leaves the disk as a crash after the call does.             *)
(***************************************************************************)
EXTENDS Naturals

CONSTANTS Block,    \* block numbers
          Value,    \* contents of a block
          Zero,     \* all bytes 0, the contents of a slot at boot
          NoBlock,  \* the blk of a slot never used
          SLOTS,
          Outcome   \* what a sector transfer may do: "ok", "error"

ASSUME CacheAssumption ==
  /\ SLOTS \in Nat \ {0}
  /\ Zero \in Value
  /\ NoBlock \notin Block
  /\ Outcome \subseteq {"ok", "error"}

Slot == 0..(SLOTS - 1)

VARIABLES
  blk, valid, dirty, data,  \* the fields of slots[]
  hand,                     \* clock hand for round-robin eviction
  disk,                     \* the data disk
  syncing, pos,             \* bcache_sync is under way, and its loop index
  out                       \* what the last bcache_read copied out

slots == <<blk, valid, dirty, data, hand>>
vars == <<slots, disk, syncing, pos, out>>

\* bcache_init, with the machine's RAM zeroed.
Boot(blk0, valid0, dirty0, data0, hand0, syncing0, pos0, out0) ==
  /\ blk0 = [i \in Slot |-> NoBlock]
  /\ valid0 = [i \in Slot |-> FALSE]
  /\ dirty0 = [i \in Slot |-> FALSE]
  /\ data0 = [i \in Slot |-> Zero]
  /\ hand0 = 0
  /\ syncing0 = FALSE
  /\ pos0 = 0
  /\ out0 = Zero

Init ==
  /\ Boot(blk, valid, dirty, data, hand, syncing, pos, out)
  /\ disk \in [Block -> Value]

-----------------------------------------------------------------------------
(* The disk (drivers/ata.c).                                                *)

\* ata_write_sector: on an error nothing is transferred. Without one the sector is
\* taken to be on the medium, which the driver does not ensure (WritesReachDisk of
\* Ata): crashes are those of a drive that stores each sector before the next.
AtaWrite(b, v, outcome) ==
  disk' = IF outcome = "ok" THEN [disk EXCEPT ![b] = v] ELSE disk

\* ata_read_sector into slot i, after the write of an eviction: on an error the
\* slot keeps what was there.
AtaRead(b, i, outcome) ==
  data' = IF outcome = "ok" THEN [data EXCEPT ![i] = disk'[b]] ELSE data

-----------------------------------------------------------------------------
(* The cache.                                                               *)

Holds(i, b) == valid[i] /\ blk[i] = b

\* find returns slot i.
Finds(i, b) == Holds(i, b) /\ \A j \in Slot : j < i => ~Holds(j, b)

Misses(b) == \A i \in Slot : ~Holds(i, b)

\* Mutant: the slot is reused without a flush.
EvictUnflushed(outcome) ==
  /\ hand' = (hand + 1) % SLOTS
  /\ disk' = disk

\* The slot at the hand is reused, and flushed first if it is dirty. The result
\* of the write is not looked at.
Evict(outcome) ==
  /\ hand' = (hand + 1) % SLOTS
  /\ IF valid[hand] /\ dirty[hand] THEN AtaWrite(blk[hand], data[hand], outcome)
     ELSE disk' = disk

ReadHit(b) ==
  /\ ~syncing
  /\ \E i \in Slot : Finds(i, b) /\ out' = data[i]
  /\ UNCHANGED <<slots, disk, syncing, pos>>

ReadMiss(b, written, read) ==
  /\ ~syncing
  /\ Misses(b)
  /\ Evict(written)
  /\ AtaRead(b, hand, read)
  /\ blk' = [blk EXCEPT ![hand] = b]
  /\ valid' = [valid EXCEPT ![hand] = TRUE]
  /\ dirty' = [dirty EXCEPT ![hand] = FALSE]
  /\ out' = data'[hand]
  /\ UNCHANGED <<syncing, pos>>

\* Mutant: the slot is not marked dirty.
WriteHitClean(b, v) ==
  /\ ~syncing
  /\ \E i \in Slot : Finds(i, b) /\ data' = [data EXCEPT ![i] = v]
  /\ UNCHANGED <<blk, valid, dirty, hand, disk, syncing, pos, out>>

WriteHit(b, v) ==
  /\ ~syncing
  /\ \E i \in Slot :
       /\ Finds(i, b)
       /\ data' = [data EXCEPT ![i] = v]
       /\ dirty' = [dirty EXCEPT ![i] = TRUE]
  /\ UNCHANGED <<blk, valid, hand, disk, syncing, pos, out>>

\* Mutant: a slot is taken whether or not the block has one.
WriteMissAlways(b, v, written) ==
  /\ ~syncing
  /\ Evict(written)
  /\ blk' = [blk EXCEPT ![hand] = b]
  /\ valid' = [valid EXCEPT ![hand] = TRUE]
  /\ data' = [data EXCEPT ![hand] = v]
  /\ dirty' = [dirty EXCEPT ![hand] = TRUE]
  /\ UNCHANGED <<syncing, pos, out>>

WriteMiss(b, v, written) ==
  /\ ~syncing
  /\ Misses(b)
  /\ Evict(written)
  /\ blk' = [blk EXCEPT ![hand] = b]
  /\ valid' = [valid EXCEPT ![hand] = TRUE]
  /\ data' = [data EXCEPT ![hand] = v]
  /\ dirty' = [dirty EXCEPT ![hand] = TRUE]
  /\ UNCHANGED <<syncing, pos, out>>

SyncBegin ==
  /\ ~syncing
  /\ syncing' = TRUE
  /\ pos' = 0
  /\ UNCHANGED <<slots, disk, out>>

\* One iteration of bcache_sync; the result of the write is not looked at.
SyncSlot(outcome) ==
  /\ syncing
  /\ pos < SLOTS
  /\ pos' = pos + 1
  /\ IF valid[pos] /\ dirty[pos]
     THEN AtaWrite(blk[pos], data[pos], outcome) /\ dirty' = [dirty EXCEPT ![pos] = FALSE]
     ELSE UNCHANGED <<disk, dirty>>
  /\ UNCHANGED <<blk, valid, data, hand, syncing, out>>

SyncEnd ==
  /\ syncing
  /\ pos = SLOTS
  /\ syncing' = FALSE
  /\ pos' = 0
  /\ UNCHANGED <<slots, disk, out>>

\* Power is lost; the next boot calls bcache_init.
Crash ==
  /\ Boot(blk', valid', dirty', data', hand', syncing', pos', out')
  /\ UNCHANGED disk

Next ==
  \/ \E b \in Block : ReadHit(b)
  \/ \E b \in Block, w, r \in Outcome : ReadMiss(b, w, r)
  \/ \E b \in Block, v \in Value : WriteHit(b, v)
  \/ \E b \in Block, v \in Value, w \in Outcome : WriteMiss(b, v, w)
  \/ SyncBegin
  \/ \E w \in Outcome : SyncSlot(w)
  \/ SyncEnd
  \/ Crash

Spec == Init /\ [][Next]_vars

-----------------------------------------------------------------------------
(* Properties.                                                              *)

TypeOK ==
  /\ blk \in [Slot -> Block \cup {NoBlock}]
  /\ valid \in [Slot -> BOOLEAN]
  /\ dirty \in [Slot -> BOOLEAN]
  /\ data \in [Slot -> Value]
  /\ hand \in Slot
  /\ disk \in [Block -> Value]
  /\ syncing \in BOOLEAN
  /\ pos \in 0..SLOTS
  /\ out \in Value
  /\ \A i \in Slot : valid[i] => blk[i] \in Block

\* No block is cached twice: find() and a later eviction could otherwise serve
\* or write back the older of two contents.
NoDuplicate ==
  \A i, j \in Slot : \A b \in Block : Holds(i, b) /\ Holds(j, b) => i = j

\* What is not marked dirty is on the disk, so that an eviction loses nothing.
CleanOnDisk ==
  \A i \in Slot : valid[i] /\ ~dirty[i] => data[i] = disk[blk[i]]

\* What a reader of the cache sees.
Contents ==
  [b \in Block |-> IF Misses(b) THEN disk[b]
                   ELSE data[CHOOSE i \in Slot : Holds(i, b)]]

Store == INSTANCE BlockStore WITH mem <- Contents

\* On a disk that does not fail the cache implements the store of BlockStore:
\* reads return the last write, only memory contents reach the disk, everything
\* is on it when bcache_sync ends, and a crash loses only what was not.
ImplementsStore == Store!Spec
=============================================================================
