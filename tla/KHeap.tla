------------------------------- MODULE KHeap -------------------------------
(***************************************************************************)
(* The kernel heap of mem/kheap.c: a first-fit allocator over one          *)
(* address-ordered list of headers.  Addresses count from HEAP_START.      *)
(*                                                                         *)
(* A call runs to its end before another begins (every caller runs with    *)
(* interrupts disabled); its loop is modelled one iteration per step.      *)
(***************************************************************************)
EXTENDS Integers

CONSTANTS HeapSize,  \* HEAP_SIZE
          Request    \* the sizes kmalloc is called with

HDR == 12            \* sizeof(header_t)

ASSUME HeapAssumption ==
  /\ HeapSize \in Nat
  /\ HeapSize >= HDR
  /\ Request \subseteq Nat

NULL == -1

\* Far from 2^32, which no caller's size comes near, ALIGN8 rounds up.
ALIGN8(x) == 8 * ((x + 7) \div 8)

VARIABLES
  size, free, next,  \* the fields of the headers in the list, by address
  pc,                \* the loop that runs, "idle" between calls
  cur,               \* its cursor
  need,              \* kmalloc's argument, and
  want,              \* what ALIGN8 made of it
  live               \* the size asked for, by pointer handed out and not freed

list == <<size, free, next>>
vars == <<list, pc, cur, need, want, live>>

Block == DOMAIN size

\* kheap_init
Init ==
  /\ size = [b \in {0} |-> HeapSize - HDR]
  /\ free = [b \in {0} |-> TRUE]
  /\ next = [b \in {0} |-> NULL]
  /\ pc = "idle"
  /\ cur = NULL
  /\ need = 0
  /\ want = 0
  /\ live = [p \in {} |-> 0]

-----------------------------------------------------------------------------
(* kmalloc                                                                  *)

\* Mutant: the scan begins behind the first block.
KMallocSkipsHead(n) ==
  /\ pc = "idle"
  /\ n # 0
  /\ pc' = "scan"
  /\ cur' = next[0]
  /\ need' = n
  /\ want' = ALIGN8(n)
  /\ UNCHANGED <<list, live>>

KMalloc(n) ==
  /\ pc = "idle"
  /\ n # 0
  /\ pc' = "scan"
  /\ cur' = 0
  /\ need' = n
  /\ want' = ALIGN8(n)
  /\ UNCHANGED <<list, live>>

Fits(b) == free[b] /\ size[b] >= want

ScanOn ==
  /\ pc = "scan"
  /\ cur # NULL
  /\ ~Fits(cur)
  /\ cur' = next[cur]
  /\ UNCHANGED <<list, pc, need, want, live>>

\* The remainder gets a header of its own at nb.
Split(nb) ==
  /\ size' = [b \in Block \cup {nb} |-> IF b = cur THEN want
                                        ELSE IF b = nb THEN size[cur] - want - HDR
                                        ELSE size[b]]
  /\ free' = [b \in Block \cup {nb} |-> IF b = cur THEN FALSE
                                        ELSE IF b = nb THEN TRUE
                                        ELSE free[b]]
  /\ next' = [b \in Block \cup {nb} |-> IF b = cur THEN nb
                                        ELSE IF b = nb THEN next[cur]
                                        ELSE next[b]]

\* Mutant: the block is handed out but not marked taken.
TakeWholeUnmarked == UNCHANGED list

TakeWhole ==
  /\ free' = [free EXCEPT ![cur] = FALSE]
  /\ UNCHANGED <<size, next>>

HandOut ==
  /\ live' = [p \in DOMAIN live \cup {cur + HDR} |->
                IF p = cur + HDR THEN need ELSE live[p]]
  /\ pc' = "idle"
  /\ cur' = NULL
  /\ need' = 0
  /\ want' = 0

Take ==
  /\ pc = "scan"
  /\ cur # NULL
  /\ Fits(cur)
  /\ IF size[cur] >= want + HDR + 8 THEN Split(cur + HDR + want) ELSE TakeWhole
  /\ HandOut

\* kmalloc returns 0: out of heap.
OutOfHeap ==
  /\ pc = "scan"
  /\ cur = NULL
  /\ pc' = "idle"
  /\ need' = 0
  /\ want' = 0
  /\ UNCHANGED <<list, cur, live>>

-----------------------------------------------------------------------------
(* kfree                                                                    *)

KFree(p) ==
  /\ pc = "idle"
  /\ free' = [free EXCEPT ![p - HDR] = TRUE]
  /\ live' = [q \in DOMAIN live \ {p} |-> live[q]]
  /\ pc' = "merge"
  /\ cur' = 0
  /\ UNCHANGED <<size, next, need, want>>

MergeNext(b) == free[b] /\ next[b] # NULL /\ free[next[b]]

\* Mutant: the cursor moves on after one merge.
MergeOnce ==
  /\ pc = "merge"
  /\ cur # NULL
  /\ MergeNext(cur)
  /\ LET n == next[cur]
     IN  /\ size' = [b \in Block \ {n} |-> IF b = cur THEN size[cur] + HDR + size[n] ELSE size[b]]
         /\ free' = [b \in Block \ {n} |-> free[b]]
         /\ next' = [b \in Block \ {n} |-> IF b = cur THEN next[n] ELSE next[b]]
         /\ cur' = next[n]
  /\ UNCHANGED <<pc, need, want, live>>

\* Mutant: the header of the block merged is not counted.
MergeLosesHeader ==
  /\ pc = "merge"
  /\ cur # NULL
  /\ MergeNext(cur)
  /\ LET n == next[cur]
     IN  /\ size' = [b \in Block \ {n} |-> IF b = cur THEN size[cur] + size[n] ELSE size[b]]
         /\ free' = [b \in Block \ {n} |-> free[b]]
         /\ next' = [b \in Block \ {n} |-> IF b = cur THEN next[n] ELSE next[b]]
  /\ UNCHANGED <<pc, cur, need, want, live>>

Merge ==
  /\ pc = "merge"
  /\ cur # NULL
  /\ MergeNext(cur)
  /\ LET n == next[cur]
     IN  /\ size' = [b \in Block \ {n} |-> IF b = cur THEN size[cur] + HDR + size[n] ELSE size[b]]
         /\ free' = [b \in Block \ {n} |-> free[b]]
         /\ next' = [b \in Block \ {n} |-> IF b = cur THEN next[n] ELSE next[b]]
  /\ UNCHANGED <<pc, cur, need, want, live>>

\* Mutant: the cursor stays where nothing is left to merge.
MergeStuck ==
  /\ pc = "merge"
  /\ cur # NULL
  /\ ~MergeNext(cur)
  /\ UNCHANGED vars

MergeOn ==
  /\ pc = "merge"
  /\ cur # NULL
  /\ ~MergeNext(cur)
  /\ cur' = next[cur]
  /\ UNCHANGED <<list, pc, need, want, live>>

MergeDone ==
  /\ pc = "merge"
  /\ cur = NULL
  /\ pc' = "idle"
  /\ UNCHANGED <<list, cur, need, want, live>>

-----------------------------------------------------------------------------
Step == ScanOn \/ Take \/ OutOfHeap \/ Merge \/ MergeOn \/ MergeDone

Next ==
  \/ \E n \in Request : KMalloc(n)
  \/ \E p \in DOMAIN live : KFree(p)
  \/ Step

Spec == Init /\ [][Next]_vars

\* A loop that can go on does: nothing interrupts it.
FairSpec == Spec /\ WF_vars(Step)

-----------------------------------------------------------------------------
(* Properties.                                                              *)

TypeOK ==
  /\ Block \subseteq 0..HeapSize
  /\ size \in [Block -> Nat]
  /\ free \in [Block -> BOOLEAN]
  /\ next \in [Block -> Block \cup {NULL}]
  /\ pc \in {"idle", "scan", "merge"}
  /\ cur \in Block \cup {NULL}
  /\ need \in Nat
  /\ want \in Nat
  /\ DOMAIN live \subseteq 0..HeapSize
  /\ live \in [DOMAIN live -> Nat]

\* The end of b's payload.
End(b) == b + HDR + size[b]

\* The blocks tile the heap in list order, through every split and merge: each
\* ends where the next one's header begins, and the last where the heap ends.
Tiled ==
  /\ 0 \in Block
  /\ \A b \in Block :
       /\ IF next[b] = NULL THEN End(b) = HeapSize ELSE End(b) = next[b]
       /\ \A c \in Block : c > b => c >= End(b)

\* What was handed out stays its owner's: it lies in a block marked taken that
\* is large enough, so no other allocation and no header shares a byte with it.
\* And no taken block is lost: each has its owner.
LiveIsolated ==
  /\ \A p \in DOMAIN live :
       /\ p - HDR \in Block
       /\ ~free[p - HDR]
       /\ p + live[p] <= HeapSize
       /\ \A b \in Block : b + HDR <= p \/ p + live[p] <= b
  /\ \A p, q \in DOMAIN live : p < q => p + live[p] + HDR <= q
  /\ \A b \in Block : ~free[b] => b + HDR \in DOMAIN live

\* Between calls no two free blocks are neighbours: kfree undoes all the
\* fragmentation it can, and a split leaves none.
Coalesced ==
  pc = "idle" => \A b \in Block : ~MergeNext(b)

\* kmalloc fails only when no free block is large enough.
FailsOnlyWhenFull ==
  [][pc = "scan" /\ pc' = "idle" /\ live' = live => \A b \in Block : ~Fits(b)]_vars

\* Every call returns: the list has no cycle for a loop to run in.
CallsReturn == pc # "idle" ~> pc = "idle"
=============================================================================
