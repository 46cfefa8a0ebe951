---------------------------- MODULE BCacheProofs ----------------------------
(* The block cache on a disk that does not fail, for any number of slots,   *)
(* blocks and values: its invariants, and that it implements BlockStore.    *)
EXTENDS BCache, TLAPS

\* The slots bcache_sync has passed hold nothing that is not on the disk.
PassedClean ==
  syncing => \A i \in Slot : i < pos /\ valid[i] => ~dirty[i]

\* The inductive invariant.
CacheInv ==
  /\ TypeOK
  /\ NoDuplicate
  /\ CleanOnDisk
  /\ PassedClean

-----------------------------------------------------------------------------
(* evict                                                                    *)

\* slots[0] exists.
LEMMA FirstSlot == 0 \in Slot /\ 0 \in 0..SLOTS
BY CacheAssumption DEF Slot

\* The hand stays inside slots[].
LEMMA HandWraps ==
  ASSUME TypeOK
  PROVE  (hand + 1) % SLOTS \in Slot
BY CacheAssumption DEF TypeOK, Slot

\* After evict on a working disk, the slot at the hand can be reused: what it
\* held is on the disk, and no other block of the disk changed.
LEMMA EvictFlushes ==
  ASSUME CacheInv, Evict("ok")
  PROVE  /\ disk' \in [Block -> Value]
         /\ valid[hand] => disk'[blk[hand]] = data[hand]
         /\ \A b \in Block : ~Holds(hand, b) => disk'[b] = disk[b]
         /\ \A b \in Block : Holds(hand, b) => disk'[b] = data[hand]
         /\ hand' \in Slot
<1>1. hand \in Slot /\ data[hand] \in Value /\ (valid[hand] => blk[hand] \in Block)
  BY DEF CacheInv, TypeOK
<1>2. hand' \in Slot
  BY HandWraps DEF CacheInv, Evict
<1>3. CASE valid[hand] /\ dirty[hand]
  BY <1>1, <1>2, <1>3 DEF CacheInv, TypeOK, Evict, AtaWrite, Holds
<1>4. CASE ~(valid[hand] /\ dirty[hand])
  BY <1>1, <1>2, <1>4 DEF CacheInv, TypeOK, CleanOnDisk, Evict, Holds
<1>5. QED
  BY <1>3, <1>4

-----------------------------------------------------------------------------
(* The invariant.                                                           *)

\* bcache_init establishes it, at the first boot and after a crash.
LEMMA InitCache ==
  ASSUME Init
  PROVE  CacheInv
<1>1. TypeOK
  BY CacheAssumption, FirstSlot DEF Init, Boot, TypeOK
<1>2. NoDuplicate /\ CleanOnDisk /\ PassedClean
  BY DEF Init, Boot, NoDuplicate, CleanOnDisk, PassedClean, Holds
<1>3. QED
  BY <1>1, <1>2 DEF CacheInv

\* What a miss does to the slot at the hand, on a working disk, whether it
\* brings in a block (dty = FALSE, val from the disk) or a caller's data.
LEMMA Reuse ==
  ASSUME CacheInv, ~syncing,
         NEW b \in Block, Misses(b), Evict("ok"),
         NEW val \in Value, NEW dty \in BOOLEAN, ~dty => val = disk'[b],
         data' = [data EXCEPT ![hand] = val],
         blk' = [blk EXCEPT ![hand] = b],
         valid' = [valid EXCEPT ![hand] = TRUE],
         dirty' = [dirty EXCEPT ![hand] = dty],
         out' \in Value, UNCHANGED <<syncing, pos>>
  PROVE  CacheInv'
<1>1. hand \in Slot
  BY DEF CacheInv, TypeOK
<1>2. TypeOK'
  BY <1>1, EvictFlushes DEF CacheInv, TypeOK
<1>3. ASSUME NEW i \in Slot, NEW j \in Slot, NEW c \in Block,
             Holds(i, c)', Holds(j, c)'
      PROVE  i = j
  <2>1. CASE i = hand /\ j # hand
    BY <1>1, <1>3, <2>1 DEF CacheInv, TypeOK, Holds, Misses
  <2>2. CASE j = hand /\ i # hand
    BY <1>1, <1>3, <2>2 DEF CacheInv, TypeOK, Holds, Misses
  <2>3. CASE i # hand /\ j # hand
    BY <1>1, <1>3, <2>3 DEF CacheInv, TypeOK, NoDuplicate, Holds
  <2>4. QED
    BY <2>1, <2>2, <2>3
<1>4. ASSUME NEW i \in Slot, valid'[i], ~dirty'[i]
      PROVE  data'[i] = disk'[blk'[i]]
  <2>1. CASE i = hand
    BY <1>1, <1>4, <2>1 DEF CacheInv, TypeOK
  <2>2. CASE i # hand
    <3>1. valid[i] /\ ~dirty[i] /\ blk'[i] = blk[i] /\ data'[i] = data[i]
      BY <1>1, <1>4, <2>2 DEF CacheInv, TypeOK
    <3>2. blk[i] \in Block /\ data[i] = disk[blk[i]]
      BY <3>1 DEF CacheInv, TypeOK, CleanOnDisk
    <3>3. ~Holds(hand, blk[i])
      BY <1>1, <2>2, <3>1, <3>2 DEF CacheInv, NoDuplicate, Holds
    <3>4. QED
      BY <3>1, <3>2, <3>3, EvictFlushes
  <2>3. QED
    BY <2>1, <2>2
<1>5. NoDuplicate'
  BY <1>3 DEF NoDuplicate
<1>6. CleanOnDisk'
  BY <1>4 DEF CleanOnDisk
<1>7. PassedClean'
  BY DEF PassedClean
<1>8. QED
  BY <1>2, <1>5, <1>6, <1>7 DEF CacheInv

\* Every step keeps it.
LEMMA NextCache ==
  ASSUME Outcome = {"ok"}, CacheInv, [Next]_vars
  PROVE  CacheInv'
<1>1. ASSUME NEW b \in Block, ReadHit(b) PROVE CacheInv'
  <2>1. out' \in Value
    BY <1>1 DEF ReadHit, CacheInv, TypeOK
  <2>2. QED
    BY <1>1, <2>1 DEF ReadHit, slots, CacheInv, TypeOK, NoDuplicate, CleanOnDisk,
       PassedClean, Holds
<1>2. ASSUME NEW b \in Block, ReadMiss(b, "ok", "ok") PROVE CacheInv'
  <2>1. Evict("ok") /\ Misses(b) /\ ~syncing /\ hand \in Slot
    BY <1>2 DEF ReadMiss, CacheInv, TypeOK
  <2>2. disk'[b] \in Value
    BY <2>1, EvictFlushes
  <2>3. data' = [data EXCEPT ![hand] = disk'[b]]
    BY <1>2 DEF ReadMiss, AtaRead
  <2>4. out' = disk'[b]
    BY <1>2, <2>1, <2>3 DEF ReadMiss, CacheInv, TypeOK
  <2>5. QED
    BY <1>2, <2>1, <2>2, <2>3, <2>4, Reuse DEF ReadMiss
<1>3. ASSUME NEW b \in Block, NEW v \in Value, WriteHit(b, v) PROVE CacheInv'
  <2>1. PICK i \in Slot : /\ Finds(i, b)
                          /\ data' = [data EXCEPT ![i] = v]
                          /\ dirty' = [dirty EXCEPT ![i] = TRUE]
    BY <1>3 DEF WriteHit
  <2>2. UNCHANGED <<blk, valid, hand, disk, syncing, pos, out>> /\ ~syncing
    BY <1>3 DEF WriteHit
  <2>3. TypeOK' /\ NoDuplicate' /\ PassedClean'
    BY <2>1, <2>2 DEF CacheInv, TypeOK, NoDuplicate, PassedClean, Holds
  <2>4. CleanOnDisk'
    BY <2>1, <2>2 DEF CacheInv, TypeOK, CleanOnDisk
  <2>5. QED
    BY <2>3, <2>4 DEF CacheInv
<1>4. ASSUME NEW b \in Block, NEW v \in Value, WriteMiss(b, v, "ok") PROVE CacheInv'
  <2>1. out' \in Value
    BY <1>4 DEF WriteMiss, CacheInv, TypeOK
  <2>2. QED
    BY <1>4, <2>1, Reuse DEF WriteMiss
<1>5. ASSUME SyncBegin PROVE CacheInv'
  BY <1>5, CacheAssumption DEF SyncBegin, slots, CacheInv, TypeOK, NoDuplicate, CleanOnDisk,
     PassedClean, Holds, Slot
<1>6. ASSUME SyncSlot("ok") PROVE CacheInv'
  <2>1. /\ pos \in Slot /\ pos' = pos + 1 /\ pos' \in 0..SLOTS /\ syncing
        /\ UNCHANGED <<blk, valid, data, hand, syncing, out>>
    BY <1>6, CacheAssumption DEF SyncSlot, CacheInv, TypeOK, Slot
  <2>2. CASE valid[pos] /\ dirty[pos]
    <3>1. /\ disk' = [disk EXCEPT ![blk[pos]] = data[pos]]
          /\ dirty' = [dirty EXCEPT ![pos] = FALSE]
      BY <1>6, <2>2 DEF SyncSlot, AtaWrite
    <3>2. TypeOK' /\ NoDuplicate'
      BY <2>1, <2>2, <3>1 DEF CacheInv, TypeOK, NoDuplicate, Holds
    <3>3. ASSUME NEW i \in Slot, valid'[i], ~dirty'[i]
          PROVE  data'[i] = disk'[blk'[i]]
      BY <2>1, <2>2, <3>1, <3>3 DEF CacheInv, TypeOK, NoDuplicate, CleanOnDisk, Holds
    <3>4. PassedClean'
      BY <2>1, <3>1 DEF CacheInv, TypeOK, PassedClean, Slot
    <3>5. QED
      BY <3>2, <3>3, <3>4 DEF CacheInv, CleanOnDisk
  <2>3. CASE ~(valid[pos] /\ dirty[pos])
    <3>1. UNCHANGED <<disk, dirty>>
      BY <1>6, <2>3 DEF SyncSlot
    <3>2. PassedClean'
      BY <2>1, <2>3, <3>1 DEF CacheInv, TypeOK, PassedClean, Slot
    <3>3. QED
      BY <2>1, <3>1, <3>2 DEF CacheInv, TypeOK, NoDuplicate, CleanOnDisk, Holds
  <2>4. QED
    BY <2>2, <2>3
<1>7. ASSUME SyncEnd PROVE CacheInv'
  BY <1>7, FirstSlot DEF SyncEnd, slots, CacheInv, TypeOK, NoDuplicate, CleanOnDisk,
     PassedClean, Holds
<1>8. ASSUME Crash PROVE CacheInv'
  <2>1. TypeOK'
    BY <1>8, CacheAssumption, FirstSlot DEF Crash, Boot, CacheInv, TypeOK
  <2>2. (NoDuplicate /\ CleanOnDisk /\ PassedClean)'
    BY <1>8 DEF Crash, Boot, NoDuplicate, CleanOnDisk, PassedClean, Holds
  <2>3. QED
    BY <2>1, <2>2 DEF CacheInv
<1>9. ASSUME UNCHANGED vars PROVE CacheInv'
  BY <1>9 DEF vars, slots, CacheInv, TypeOK, NoDuplicate, CleanOnDisk, PassedClean, Holds
<1>10. QED
  BY <1>1, <1>2, <1>3, <1>4, <1>5, <1>6, <1>7, <1>8, <1>9 DEF Next

\* On a disk that does not fail the inductive invariant holds throughout.
THEOREM CacheInvariant ==
  ASSUME Outcome = {"ok"}
  PROVE  Spec => []CacheInv
BY InitCache, NextCache, PTL DEF Spec

\* No block is ever cached in two slots.
THEOREM NeverDuplicated ==
  ASSUME Outcome = {"ok"}
  PROVE  Spec => []NoDuplicate
<1>1. CacheInv => NoDuplicate
  BY DEF CacheInv
<1>2. QED
  BY <1>1, CacheInvariant, PTL

\* A slot that is not dirty agrees with the disk.
THEOREM CleanMeansWritten ==
  ASSUME Outcome = {"ok"}
  PROVE  Spec => []CleanOnDisk
<1>1. CacheInv => CleanOnDisk
  BY DEF CacheInv
<1>2. QED
  BY <1>1, CacheInvariant, PTL

-----------------------------------------------------------------------------
(* The refinement: what a reader sees, before and after a step.             *)

\* A reader of a cached block gets the slot's data, there being one slot.
LEMMA ContentsHeld ==
  ASSUME NoDuplicate, NEW i \in Slot, NEW b \in Block, Holds(i, b)
  PROVE  Contents[b] = data[i]
<1>1. ~Misses(b)
  BY DEF Misses
<1>2. i = CHOOSE j \in Slot : Holds(j, b)
  BY DEF NoDuplicate
<1>3. QED
  BY <1>1, <1>2 DEF Contents

\* The same after a step.
LEMMA ContentsHeldNext ==
  ASSUME NoDuplicate', NEW i \in Slot, NEW b \in Block, Holds(i, b)'
  PROVE  Contents'[b] = data'[i]
<1>1. ~Misses(b)'
  BY DEF Misses
<1>2. i = CHOOSE j \in Slot : Holds(j, b)'
  BY DEF NoDuplicate
<1>3. QED
  BY <1>1, <1>2 DEF Contents

\* A reader of any other block gets the disk's.
LEMMA ContentsMissed ==
  ASSUME NEW b \in Block, Misses(b)
  PROVE  Contents[b] = disk[b]
BY DEF Contents

\* The same after a step.
LEMMA ContentsMissedNext ==
  ASSUME NEW b \in Block, Misses(b)'
  PROVE  Contents'[b] = disk'[b]
BY DEF Contents

\* Contents is a function on the blocks, so that it can be compared pointwise.
LEMMA ContentsFunction ==
  /\ Contents = [b \in Block |-> Contents[b]]
  /\ Contents' = [b \in Block |-> Contents'[b]]
BY DEF Contents

\* evict writes nothing to the disk but what a reader sees.
LEMMA EvictWritesBehind ==
  ASSUME CacheInv, Evict("ok")
  PROVE  Store!WriteBehind
<1> DEFINE S == {b \in Block : Holds(hand, b)}
<1>1. hand \in Slot /\ NoDuplicate
  BY DEF CacheInv, TypeOK
<1>2. ASSUME NEW b \in Block
      PROVE  disk'[b] = IF b \in S THEN Contents[b] ELSE disk[b]
  BY <1>1, EvictFlushes, ContentsHeld
<1>3. disk' = [b \in Block |-> IF b \in S THEN Contents[b] ELSE disk[b]]
  BY <1>2, EvictFlushes
<1>4. S \in SUBSET Block
  OBVIOUS
<1>5. QED
  BY <1>3, <1>4 DEF Store!WriteBehind

\* A step that leaves the disk alone writes nothing behind.
LEMMA NothingWrittenBehind ==
  ASSUME CacheInv, UNCHANGED disk
  PROVE  Store!WriteBehind
<1>1. {} \in SUBSET Block /\ disk' = [b \in Block |-> IF b \in {} THEN Contents[b] ELSE disk[b]]
  BY DEF CacheInv, TypeOK
<1>2. QED
  BY <1>1 DEF Store!WriteBehind

\* A miss changes what a reader sees of the block it brings in, and no other.
LEMMA ReuseContents ==
  ASSUME CacheInv, CacheInv',
         NEW b \in Block, Misses(b), Evict("ok"),
         NEW val \in Value,
         data' = [data EXCEPT ![hand] = val],
         blk' = [blk EXCEPT ![hand] = b],
         valid' = [valid EXCEPT ![hand] = TRUE]
  PROVE  Contents' = [Contents EXCEPT ![b] = val]
<1>1. hand \in Slot /\ NoDuplicate /\ NoDuplicate'
  BY DEF CacheInv, TypeOK
<1>2. Contents'[b] = val
  <2>1. PICK h \in Slot : h = hand
    BY <1>1
  <2>2. Holds(h, b)' /\ data'[h] = val
    BY <2>1 DEF CacheInv, TypeOK, Holds
  <2>3. QED
    BY <1>1, <2>2, ContentsHeldNext
<1>3. ASSUME NEW c \in Block, c # b
      PROVE  Contents'[c] = Contents[c]
  <2>1. CASE Holds(hand, c)
    <3>1. Misses(c)'
      BY <1>1, <1>3, <2>1 DEF CacheInv, TypeOK, NoDuplicate, Holds, Misses
    <3>2. QED
      BY <1>1, <2>1, <3>1, ContentsMissedNext, ContentsHeld, EvictFlushes
  <2>2. CASE \E i \in Slot : i # hand /\ Holds(i, c)
    <3>1. PICK i \in Slot : i # hand /\ Holds(i, c)
      BY <2>2
    <3>2. Holds(i, c)' /\ data'[i] = data[i]
      BY <1>1, <3>1 DEF CacheInv, TypeOK, Holds
    <3>3. QED
      BY <1>1, <3>1, <3>2, ContentsHeld, ContentsHeldNext
  <2>3. CASE Misses(c)
    <3>1. Misses(c)' /\ ~Holds(hand, c)
      BY <1>1, <1>3, <2>3 DEF CacheInv, TypeOK, Holds, Misses
    <3>2. QED
      BY <2>3, <3>1, ContentsMissed, ContentsMissedNext, EvictFlushes
  <2>4. QED
    BY <2>1, <2>2, <2>3 DEF Misses
<1>4. QED
  BY <1>2, <1>3, ContentsFunction

\* When bcache_sync ends, every block a reader sees is on the disk.
LEMMA SyncedContents ==
  ASSUME CacheInv, syncing, pos = SLOTS
  PROVE  disk = Contents
<1>1. ASSUME NEW b \in Block PROVE Contents[b] = disk[b]
  <2>1. CASE Misses(b)
    BY <2>1, ContentsMissed
  <2>2. CASE ~Misses(b)
    <3>1. PICK i \in Slot : Holds(i, b)
      BY <2>2 DEF Misses
    <3>2. i < pos
      BY CacheAssumption DEF Slot
    <3>3. data[i] = disk[b]
      BY <3>1, <3>2 DEF CacheInv, PassedClean, CleanOnDisk, Holds
    <3>4. QED
      BY <3>1, <3>3, ContentsHeld DEF CacheInv
  <2>3. QED
    BY <2>1, <2>2
<1>2. QED
  BY <1>1, ContentsFunction DEF CacheInv, TypeOK

\* The slots do not change, nor does the disk where it is read: nor does what
\* a reader sees.
LEMMA SameContents ==
  ASSUME UNCHANGED <<blk, valid, data, disk>>
  PROVE  Contents' = Contents
BY DEF Contents, Misses, Holds

\* Every step of the cache is a step of the store, or changes nothing there.
LEMMA StepRefines ==
  ASSUME Outcome = {"ok"}, CacheInv, CacheInv', [Next]_vars
  PROVE  [Store!Next]_Store!vars
<1>1. ASSUME NEW b \in Block, ReadHit(b) PROVE Store!Read(b)
  <2>1. PICK i \in Slot : Finds(i, b) /\ out' = data[i]
    BY <1>1 DEF ReadHit
  <2>2. out' = Contents[b]
    BY <2>1, ContentsHeld DEF Finds, CacheInv
  <2>3. ~syncing /\ UNCHANGED <<blk, valid, data, disk, syncing>>
    BY <1>1 DEF ReadHit, slots
  <2>4. QED
    BY <2>2, <2>3, SameContents, NothingWrittenBehind DEF Store!Read
<1>2. ASSUME NEW b \in Block, ReadMiss(b, "ok", "ok") PROVE Store!Read(b)
  <2>1. Evict("ok") /\ Misses(b) /\ ~syncing /\ hand \in Slot /\ syncing' = syncing
    BY <1>2 DEF ReadMiss, CacheInv, TypeOK
  <2>2. disk'[b] \in Value /\ disk'[b] = disk[b]
    BY <2>1, EvictFlushes DEF Misses
  <2>3. Contents[b] = disk'[b]
    BY <2>1, <2>2, ContentsMissed
  <2>4. data' = [data EXCEPT ![hand] = disk'[b]]
    BY <1>2 DEF ReadMiss, AtaRead
  <2>5. out' = Contents[b]
    BY <1>2, <2>1, <2>3, <2>4 DEF ReadMiss, CacheInv, TypeOK
  <2>6. Contents' = [Contents EXCEPT ![b] = disk'[b]]
    BY <1>2, <2>1, <2>2, <2>4, ReuseContents DEF ReadMiss
  <2>7. Contents' = Contents
    BY <2>3, <2>6, ContentsFunction
  <2>8. QED
    BY <2>1, <2>5, <2>7, EvictWritesBehind DEF Store!Read
<1>3. ASSUME NEW b \in Block, NEW v \in Value, WriteHit(b, v) PROVE Store!Write(b, v)
  <2>1. PICK i \in Slot : Finds(i, b) /\ data' = [data EXCEPT ![i] = v]
    BY <1>3 DEF WriteHit
  <2>2. ~syncing /\ UNCHANGED <<blk, valid, disk, syncing, out>>
    BY <1>3 DEF WriteHit
  <2>3. ASSUME NEW c \in Block
        PROVE  Contents'[c] = IF c = b THEN v ELSE Contents[c]
    <3>1. CASE c = b
      <4>1. Holds(i, b)' /\ data'[i] = v
        BY <2>1, <2>2 DEF Finds, Holds, CacheInv, TypeOK
      <4>2. QED
        BY <3>1, <4>1, ContentsHeldNext DEF CacheInv
    <3>2. CASE c # b /\ Misses(c)
      <4>1. Misses(c)'
        BY <2>2, <3>2 DEF Misses, Holds
      <4>2. QED
        BY <2>2, <3>2, <4>1, ContentsMissed, ContentsMissedNext
    <3>3. CASE c # b /\ ~Misses(c)
      <4>1. PICK j \in Slot : Holds(j, c)
        BY <3>3 DEF Misses
      <4>2. Holds(j, c)' /\ data'[j] = data[j]
        BY <2>1, <2>2, <3>3, <4>1 DEF Finds, Holds, CacheInv, TypeOK
      <4>3. QED
        BY <3>3, <4>1, <4>2, ContentsHeld, ContentsHeldNext DEF CacheInv
    <3>4. QED
      BY <3>1, <3>2, <3>3
  <2>4. Contents' = [Contents EXCEPT ![b] = v]
    BY <2>3, ContentsFunction
  <2>5. QED
    BY <2>2, <2>4, NothingWrittenBehind DEF Store!Write
<1>4. ASSUME NEW b \in Block, NEW v \in Value, WriteMiss(b, v, "ok") PROVE Store!Write(b, v)
  <2>1. Contents' = [Contents EXCEPT ![b] = v]
    BY <1>4, ReuseContents DEF WriteMiss
  <2>2. QED
    BY <1>4, <2>1, EvictWritesBehind DEF WriteMiss, Store!Write
<1>5. ASSUME SyncBegin PROVE Store!SyncBegin
  BY <1>5, SameContents DEF SyncBegin, slots, Store!SyncBegin
<1>6. ASSUME SyncSlot("ok") PROVE Store!SyncWrite
  <2>1. pos \in Slot /\ syncing /\ UNCHANGED <<blk, valid, data, syncing, out>>
    BY <1>6, CacheAssumption DEF SyncSlot, CacheInv, TypeOK, Slot
  <2>2. CASE valid[pos] /\ dirty[pos]
    <3>1. blk[pos] \in Block /\ Holds(pos, blk[pos])
      BY <2>1, <2>2 DEF CacheInv, TypeOK, Holds
    <3>2. PICK c \in Block : c = blk[pos]
      BY <3>1
    <3>3. Contents[c] = data[pos]
      BY <2>1, <3>1, <3>2, ContentsHeld DEF CacheInv
    <3>4. disk' = [disk EXCEPT ![c] = Contents[c]]
      BY <1>6, <2>2, <3>2, <3>3 DEF SyncSlot, AtaWrite
    <3>5. disk' = [b \in Block |-> IF b \in {c} THEN Contents[b] ELSE disk[b]]
      BY <3>4 DEF CacheInv, TypeOK
    <3>6. Store!WriteBehind
      <4>1. {c} \in SUBSET Block
        BY <3>2
      <4>2. QED
        BY <3>5, <4>1 DEF Store!WriteBehind
    <3>7. ASSUME NEW b \in Block PROVE Contents'[b] = Contents[b]
      <4>1. CASE Misses(b)
        <5>1. Misses(b)' /\ b # c
          BY <2>1, <3>1, <3>2, <4>1 DEF Misses, Holds
        <5>2. disk'[b] = disk[b]
          BY <3>5, <5>1
        <5>3. QED
          BY <4>1, <5>1, <5>2, ContentsMissed, ContentsMissedNext
      <4>2. CASE ~Misses(b)
        <5>1. PICK j \in Slot : Holds(j, b)
          BY <4>2 DEF Misses
        <5>2. Holds(j, b)' /\ data'[j] = data[j]
          BY <2>1, <5>1 DEF Holds
        <5>3. QED
          BY <5>1, <5>2, ContentsHeld, ContentsHeldNext DEF CacheInv
      <4>3. QED
        BY <4>1, <4>2
    <3>8. Contents' = Contents
      BY <3>7, ContentsFunction
    <3>9. QED
      BY <2>1, <3>6, <3>8 DEF Store!SyncWrite
  <2>3. CASE ~(valid[pos] /\ dirty[pos])
    <3>1. UNCHANGED disk
      BY <1>6, <2>3 DEF SyncSlot
    <3>2. QED
      BY <2>1, <3>1, SameContents, NothingWrittenBehind DEF Store!SyncWrite
  <2>4. QED
    BY <2>2, <2>3
<1>7. ASSUME SyncEnd PROVE Store!SyncEnd
  BY <1>7, SyncedContents, SameContents DEF SyncEnd, slots, Store!SyncEnd
<1>8. ASSUME Crash PROVE Store!Crash
  <2>1. \A b \in Block : Misses(b)'
    BY <1>8 DEF Crash, Boot, Misses, Holds
  <2>2. \A b \in Block : Contents'[b] = disk[b]
    BY <1>8, <2>1, ContentsMissedNext DEF Crash
  <2>3. Contents' = disk
    BY <2>2, ContentsFunction DEF CacheInv, TypeOK
  <2>4. QED
    BY <1>8, <2>3, CacheAssumption DEF Crash, Boot, Store!Crash
<1>9. ASSUME UNCHANGED vars PROVE UNCHANGED Store!vars
  BY <1>9, SameContents DEF vars, slots, Store!vars
<1>10. QED
  BY <1>1, <1>2, <1>3, <1>4, <1>5, <1>6, <1>7, <1>8, <1>9 DEF Next, Store!Next

\* On a disk that does not fail, the cache implements the abstract store: reads
\* return the last write, a sync leaves everything on the disk, and a crash
\* loses only what was written after the blocks last reached it.
THEOREM CacheRefinesStore ==
  ASSUME Outcome = {"ok"}
  PROVE  Spec => ImplementsStore
<1>1. ASSUME Init PROVE Store!Init
  <2>1. \A b \in Block : Contents[b] = disk[b]
    BY <1>1, ContentsMissed DEF Init, Boot, Misses, Holds
  <2>2. Contents = disk
    BY <1>1, <2>1, ContentsFunction DEF Init
  <2>3. QED
    BY <1>1, <2>2, CacheAssumption DEF Init, Boot, Store!Init
<1>2. QED
  BY <1>1, StepRefines, CacheInvariant, PTL DEF Spec, ImplementsStore, Store!Spec
=============================================================================
