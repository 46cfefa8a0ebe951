---------------------------- MODULE KHeapProofs ----------------------------
(* The safety properties of the kernel heap, for any size and requests.     *)
EXTENDS KHeap, TLAPS

\* A pointer handed out is the payload of a taken block that holds the size
\* asked for, and every taken block was handed out.
Owned ==
  /\ \A p \in DOMAIN live : p - HDR \in Block /\ ~free[p - HDR] /\ live[p] <= size[p - HDR]
  /\ \A b \in Block : ~free[b] => b + HDR \in DOMAIN live

\* The loop has passed b.
Passed(b) == cur = NULL \/ b < cur

\* What each loop has established about the blocks it passed: kmalloc's found
\* none that fits, kfree's left none to merge. Outside kfree there is none.
Progress ==
  /\ pc = "scan" => need <= want /\ \A b \in Block : Passed(b) => ~Fits(b)
  /\ pc = "merge" => \A b \in Block : Passed(b) => ~MergeNext(b)
  /\ pc # "merge" => \A b \in Block : ~MergeNext(b)

\* The inductive invariant.
HeapInv == TypeOK /\ Tiled /\ Owned /\ Progress

-----------------------------------------------------------------------------
\* ALIGN8 rounds up.
LEMMA AlignUp == ASSUME NEW n \in Nat PROVE ALIGN8(n) \in Nat /\ n <= ALIGN8(n)
BY DEF ALIGN8

\* Every block ends within the heap, and the next one in address order is the
\* next one in the list.
LEMMA Layout ==
  ASSUME TypeOK, Tiled, NEW b \in Block
  PROVE  /\ b \in Nat /\ size[b] \in Nat /\ End(b) \in Nat /\ b < End(b) /\ End(b) <= HeapSize
         /\ next[b] # NULL => next[b] \in Block /\ next[b] = End(b)
         /\ next[b] = NULL => End(b) = HeapSize /\ \A c \in Block : c <= b
         /\ \A c \in Block : c > b => c >= End(b)
<1> USE HeapAssumption DEF HDR
<1>1. /\ b \in 0..HeapSize /\ size[b] \in Nat /\ next[b] \in Block \cup {NULL}
      /\ IF next[b] = NULL THEN b + HDR + size[b] = HeapSize ELSE b + HDR + size[b] = next[b]
      /\ \A c \in Block : c > b => c >= b + HDR + size[b]
  BY DEF TypeOK, Tiled, End
<1>2. Block \subseteq 0..HeapSize
  BY DEF TypeOK
<1>3. b \in Nat /\ End(b) \in Nat /\ b < End(b) /\ End(b) <= HeapSize
  BY <1>1, <1>2 DEF End
<1>4. next[b] # NULL => next[b] \in Block /\ next[b] = End(b)
  BY <1>1 DEF End
<1>5. ASSUME NEW c \in Block, next[b] = NULL, c > b PROVE FALSE
  <2>1. c >= HeapSize /\ c \in 0..HeapSize
    BY <1>1, <1>2, <1>5
  <2>2. /\ size[c] \in Nat /\ next[c] \in Block \cup {NULL}
        /\ IF next[c] = NULL THEN c + HDR + size[c] = HeapSize ELSE c + HDR + size[c] = next[c]
    BY <1>5 DEF TypeOK, Tiled, End
  <2>3. QED
    BY <2>1, <2>2, <1>2
<1>6. QED
  BY <1>1, <1>2, <1>3, <1>4, <1>5 DEF End

\* kheap_init makes one free block of the heap.
LEMMA HeapInit == Init => HeapInv
<1> SUFFICES ASSUME Init PROVE HeapInv
  OBVIOUS
<1> USE HeapAssumption DEF HDR
<1>1. Block = {0} /\ DOMAIN live = {}
  BY DEF Init, Block
<1>2. TypeOK
  BY <1>1 DEF Init, TypeOK, Block, NULL
<1>3. Tiled
  BY <1>1 DEF Init, Tiled, End, Block
<1>4. Owned /\ Progress
  BY <1>1 DEF Init, Owned, Progress, MergeNext, Block
<1>5. QED
  BY <1>2, <1>3, <1>4 DEF HeapInv

\* A step that leaves the list alone.
LEMMA SameList ==
  ASSUME Tiled, UNCHANGED list
  PROVE  Tiled'
BY DEF Tiled, End, Block, list

\* kmalloc begins its scan.
LEMMA KMallocInv ==
  ASSUME HeapInv, NEW n \in Request, KMalloc(n)
  PROVE  HeapInv'
<1>1. TypeOK'
  BY AlignUp, HeapAssumption DEF HeapInv, KMalloc, TypeOK, Tiled, Block, list, NULL
<1>2. Tiled' /\ Owned'
  BY SameList DEF HeapInv, KMalloc, Owned, Block, list
<1>3. Progress'
  <2>1. n \in Nat /\ n <= ALIGN8(n)
    BY AlignUp, HeapAssumption
  <2>2. cur' = 0 /\ \A b \in Block : b >= 0
    BY DEF KMalloc, HeapInv, TypeOK
  <2>3. QED
    BY <2>1, <2>2 DEF HeapInv, KMalloc, TypeOK, Progress, Passed, MergeNext, Block, list, NULL
<1>4. QED
  BY <1>1, <1>2, <1>3 DEF HeapInv

\* The cursor moves on: what it passes now it had passed before, or was at.
LEMMA Advance ==
  ASSUME HeapInv, cur # NULL, cur' = next[cur], NEW b \in Block,
         cur' = NULL \/ b < cur'
  PROVE  cur \in Block /\ (b = cur \/ Passed(b))
<1>1. cur \in Block
  BY DEF HeapInv, TypeOK
<1>2. /\ cur \in Nat /\ End(cur) \in Nat
      /\ next[cur] # NULL => next[cur] = End(cur)
      /\ next[cur] = NULL => b <= cur
      /\ b > cur => b >= End(cur)
      /\ b \in Nat
  BY <1>1, Layout DEF HeapInv
<1>3. QED
  BY <1>1, <1>2 DEF Passed

\* kmalloc passes a block that does not fit.
LEMMA ScanOnInv ==
  ASSUME HeapInv, ScanOn
  PROVE  HeapInv'
<1>1. TypeOK' /\ Tiled' /\ Owned'
  BY SameList DEF HeapInv, ScanOn, TypeOK, Owned, Block, list
<1>2. ASSUME NEW b \in Block, Passed(b)' PROVE ~Fits(b)
  BY <1>2, Advance DEF HeapInv, Progress, ScanOn, Passed
<1>3. Progress'
  BY <1>2 DEF HeapInv, ScanOn, Progress, Fits, MergeNext, Block, list, Passed
<1>4. QED
  BY <1>1, <1>3 DEF HeapInv

\* kmalloc has passed every block.
LEMMA OutOfHeapInv ==
  ASSUME HeapInv, OutOfHeap
  PROVE  HeapInv'
<1>1. TypeOK' /\ Tiled' /\ Owned'
  BY SameList DEF HeapInv, OutOfHeap, TypeOK, Owned, Block, list
<1>2. Progress'
  BY DEF HeapInv, OutOfHeap, Progress, MergeNext, Block, list
<1>3. QED
  BY <1>1, <1>2 DEF HeapInv

\* kmalloc takes a block that needs no split.
LEMMA TakeWholeInv ==
  ASSUME HeapInv, pc = "scan", cur # NULL, Fits(cur), TakeWhole, HandOut
  PROVE  HeapInv'
<1> USE HeapAssumption DEF HDR
<1>1. /\ cur \in Block /\ Block' = Block /\ size' = size /\ next' = next
      /\ free' = [free EXCEPT ![cur] = FALSE] /\ free \in [Block -> BOOLEAN]
  BY DEF HeapInv, TypeOK, TakeWhole, Block
<1>2. DOMAIN live' = DOMAIN live \cup {cur + HDR} /\ need \in Nat
  BY DEF HandOut, HeapInv, TypeOK
<1>3. cur \in Nat /\ size[cur] \in Nat /\ End(cur) <= HeapSize /\ want \in Nat
  BY <1>1, Layout DEF HeapInv, TypeOK
<1>4. free'[cur] = FALSE /\ \A b \in Block : b # cur => free'[b] = free[b]
  BY <1>1
<1>5. TypeOK'
  <2>1. cur + HDR \in 0..HeapSize
    BY <1>3 DEF End
  <2>2. live' \in [DOMAIN live' -> Nat] /\ DOMAIN live' \subseteq 0..HeapSize
    BY <1>2, <2>1 DEF HandOut, HeapInv, TypeOK
  <2>3. QED
    BY <1>1, <2>2 DEF HeapInv, TypeOK, HandOut, NULL, Block
<1>6. Tiled'
  BY <1>1 DEF HeapInv, Tiled, End
<1>7. Owned'
  <2>1. ASSUME NEW p \in DOMAIN live'
        PROVE  p - HDR \in Block' /\ ~free'[p - HDR] /\ live'[p] <= size'[p - HDR]
    <3>1. CASE p = cur + HDR
      BY <1>1, <1>3, <1>4, <3>1 DEF HandOut, HeapInv, Progress, Fits, TypeOK
    <3>2. CASE p # cur + HDR
      <4>1. p \in DOMAIN live /\ live'[p] = live[p]
        BY <2>1, <1>2, <3>2 DEF HandOut
      <4>2. QED
        BY <1>1, <1>4, <4>1 DEF HeapInv, Owned
    <3>3. QED
      BY <3>1, <3>2
  <2>2. \A b \in Block' : ~free'[b] => b + HDR \in DOMAIN live'
    BY <1>1, <1>2, <1>4 DEF HeapInv, Owned
  <2>3. QED
    BY <2>1, <2>2 DEF Owned
<1>8. Progress'
  <2>1. ASSUME NEW b \in Block PROVE ~MergeNext(b)'
    <3>1. next[b] \in Block \cup {NULL} /\ ~MergeNext(b)
      BY DEF HeapInv, TypeOK, Progress
    <3>2. QED
      BY <1>1, <1>4, <3>1 DEF MergeNext
  <2>2. QED
    BY <1>1, <2>1 DEF Progress, HandOut
<1>9. QED
  BY <1>5, <1>6, <1>7, <1>8 DEF HeapInv

\* kmalloc splits a block: the part behind the one taken becomes a free block.
LEMMA SplitInv ==
  ASSUME HeapInv, pc = "scan", cur # NULL, Fits(cur), size[cur] >= want + HDR + 8,
         Split(cur + HDR + want), HandOut
  PROVE  HeapInv'
<1> USE HeapAssumption DEF HDR
<1> DEFINE nb == cur + HDR + want
<1>1. /\ cur \in Block /\ cur \in Nat /\ size[cur] \in Nat /\ want \in Nat
      /\ End(cur) <= HeapSize /\ End(cur) \in Nat
      /\ \A c \in Block : c > cur => c >= End(cur)
  BY Layout DEF HeapInv, TypeOK
<1>2. nb \notin Block /\ nb \in 0..HeapSize /\ nb > cur /\ nb < End(cur)
  BY <1>1 DEF End
<1>3. nb + HDR + (size[cur] - want - HDR) = End(cur) /\ size[cur] - want - HDR \in Nat
  BY <1>1 DEF End
<1>4. /\ Block' = Block \cup {nb} /\ DOMAIN free' = Block' /\ DOMAIN next' = Block'
      /\ size'[cur] = want /\ size'[nb] = size[cur] - want - HDR
      /\ free'[cur] = FALSE /\ free'[nb] = TRUE
      /\ next'[cur] = nb /\ next'[nb] = next[cur]
      /\ \A b \in Block : b # cur =>
           size'[b] = size[b] /\ free'[b] = free[b] /\ next'[b] = next[b]
  BY <1>1, <1>2 DEF Split, Block
<1>5. /\ DOMAIN live' = DOMAIN live \cup {cur + HDR} /\ need \in Nat
      /\ live'[cur + HDR] = need /\ \A p \in DOMAIN live : p # cur + HDR => live'[p] = live[p]
  BY DEF HandOut, HeapInv, TypeOK
<1> HIDE DEF nb
<1>6. TypeOK'
  <2>1. size' \in [Block' -> Nat] /\ free' \in [Block' -> BOOLEAN] /\ next' \in [Block' -> Block' \cup {NULL}]
    <3>1. size \in [Block -> Nat] /\ free \in [Block -> BOOLEAN] /\ next \in [Block -> Block \cup {NULL}]
      BY DEF HeapInv, TypeOK
    <3>2. /\ size' = [b \in Block' |-> size'[b]] /\ free' = [b \in Block' |-> free'[b]]
          /\ next' = [b \in Block' |-> next'[b]]
      BY <1>4 DEF Split, Block
    <3>3. \A b \in Block' : size'[b] \in Nat /\ free'[b] \in BOOLEAN /\ next'[b] \in Block' \cup {NULL}
      BY <1>1, <1>3, <1>4, <3>1
    <3>4. QED
      BY <3>2, <3>3
  <2>2. DOMAIN live' \subseteq 0..HeapSize /\ live' \in [DOMAIN live' -> Nat]
    BY <1>1, <1>5 DEF HandOut, HeapInv, TypeOK, End
  <2>3. QED
    BY <1>2, <1>4, <2>1, <2>2 DEF HeapInv, TypeOK, HandOut, NULL
<1>7. Tiled'
  <2>1. 0 \in Block'
    BY <1>4 DEF HeapInv, Tiled
  <2>2. ASSUME NEW b \in Block'
        PROVE  IF next'[b] = NULL THEN End(b)' = HeapSize ELSE End(b)' = next'[b]
    <3>1. CASE b = cur
      BY <1>1, <1>2, <1>4, <3>1 DEF End, NULL, nb
    <3>2. CASE b = nb
      BY <1>1, <1>3, <1>4, <3>2 DEF End, HeapInv, Tiled
    <3>3. CASE b # cur /\ b # nb
      BY <1>4, <3>3 DEF End, HeapInv, Tiled
    <3>4. QED
      BY <3>1, <3>2, <3>3
  <2>3. ASSUME NEW b \in Block', NEW c \in Block', c > b
        PROVE  c >= End(b)'
    <3>1. CASE b = cur
      <4>1. End(b)' = nb
        BY <1>4, <3>1 DEF End, nb
      <4>2. QED
        BY <1>1, <1>2, <1>4, <2>3, <3>1, <4>1
    <3>2. CASE b = nb
      <4>1. End(b)' = End(cur)
        BY <1>3, <1>4, <3>2 DEF End
      <4>2. c \in Block /\ c \in Nat /\ c > cur
        BY <1>1, <1>2, <1>4, <2>3, <3>2 DEF HeapInv, TypeOK
      <4>3. QED
        BY <1>1, <4>1, <4>2
    <3>3. CASE b # cur /\ b # nb
      <4>1. b \in Block /\ End(b)' = End(b) /\ b \in Nat
        BY <1>4, <3>3 DEF End, HeapInv, TypeOK
      <4>2. CASE c = nb
        <5>1. cur > b
          BY <1>1, <1>2, <2>3, <3>3, <4>1, <4>2, Layout DEF HeapInv
        <5>2. cur >= End(b) /\ End(b) \in Nat
          BY <1>1, <4>1, <5>1, Layout DEF HeapInv
        <5>3. QED
          BY <1>1, <1>2, <4>1, <4>2, <5>2
      <4>3. CASE c # nb
        BY <1>4, <2>3, <4>1, <4>3, Layout DEF HeapInv
      <4>4. QED
        BY <4>2, <4>3
    <3>4. QED
      BY <3>1, <3>2, <3>3
  <2>4. QED
    BY <2>1, <2>2, <2>3 DEF Tiled
<1>8. Owned'
  <2>1. ASSUME NEW p \in DOMAIN live'
        PROVE  p - HDR \in Block' /\ ~free'[p - HDR] /\ live'[p] <= size'[p - HDR]
    <3>1. CASE p = cur + HDR
      BY <1>1, <1>4, <1>5, <3>1 DEF HeapInv, Progress
    <3>2. CASE p # cur + HDR
      <4>1. p \in DOMAIN live /\ p - HDR \in Block /\ ~free[p - HDR] /\ live[p] <= size[p - HDR]
        BY <1>5, <3>2 DEF HeapInv, Owned
      <4>2. p - HDR # cur
        BY <4>1 DEF Fits
      <4>3. QED
        BY <1>4, <1>5, <3>2, <4>1, <4>2
    <3>3. QED
      BY <3>1, <3>2
  <2>2. \A b \in Block' : ~free'[b] => b + HDR \in DOMAIN live'
    BY <1>4, <1>5 DEF HeapInv, Owned
  <2>3. QED
    BY <2>1, <2>2 DEF Owned
<1>9. Progress'
  <2>1. ASSUME NEW b \in Block' PROVE ~MergeNext(b)'
    <3>1. CASE b = cur
      BY <1>4, <3>1 DEF MergeNext
    <3>2. CASE b = nb
      <4>1. ~MergeNext(cur) /\ free[cur] /\ next[cur] \in Block \cup {NULL}
        BY <1>1 DEF HeapInv, Progress, Fits, TypeOK
      <4>2. QED
        BY <1>4, <3>2, <4>1 DEF MergeNext
    <3>3. CASE b # cur /\ b # nb
      <4>1. b \in Block /\ ~MergeNext(b) /\ next[b] \in Block \cup {NULL}
        BY <1>4, <3>3 DEF HeapInv, Progress, TypeOK
      <4>2. QED
        BY <1>4, <3>3, <4>1 DEF MergeNext
    <3>4. QED
      BY <3>1, <3>2, <3>3
  <2>2. QED
    BY <2>1 DEF Progress, HandOut
<1>10. QED
  BY <1>6, <1>7, <1>8, <1>9 DEF HeapInv

\* kmalloc takes a block, split or whole.
LEMMA TakeInv == ASSUME HeapInv, Take PROVE HeapInv'
BY SplitInv, TakeWholeInv DEF Take

\* kfree of a live pointer marks its block; merging starts from the first one.
LEMMA KFreeInv ==
  ASSUME HeapInv, NEW p \in DOMAIN live, KFree(p)
  PROVE  HeapInv'
<1> USE HeapAssumption DEF HDR
<1>1. /\ p - HDR \in Block /\ Block' = Block /\ size' = size /\ next' = next
      /\ free' = [free EXCEPT ![p - HDR] = TRUE] /\ free \in [Block -> BOOLEAN]
      /\ live' = [q \in DOMAIN live \ {p} |-> live[q]] /\ cur' = 0 /\ pc' = "merge"
      /\ UNCHANGED <<need, want>>
  BY DEF HeapInv, TypeOK, Owned, KFree, Block
<1>2. Block \subseteq Nat /\ DOMAIN live \subseteq Nat
  BY DEF HeapInv, TypeOK
<1>3. TypeOK'
  BY <1>1 DEF HeapInv, TypeOK, Tiled
<1>4. Tiled'
  BY <1>1 DEF HeapInv, Tiled, End
<1>5. Owned'
  <2>1. ASSUME NEW q \in DOMAIN live, q # p
        PROVE  ~free'[q - HDR] /\ live'[q] = live[q]
    BY <1>1, <1>2, <2>1 DEF HeapInv, Owned
  <2>2. ASSUME NEW b \in Block, ~free'[b] PROVE b + HDR \in DOMAIN live'
    BY <1>1, <1>2, <2>2 DEF HeapInv, Owned
  <2>3. QED
    BY <1>1, <2>1, <2>2 DEF HeapInv, Owned
<1>6. Progress'
  BY <1>1, <1>2 DEF Progress, Passed, NULL
<1>7. QED
  BY <1>3, <1>4, <1>5, <1>6 DEF HeapInv

\* kfree swallows the free block behind a free one.
LEMMA MergeInv ==
  ASSUME HeapInv, Merge
  PROVE  HeapInv'
<1> USE HeapAssumption DEF HDR
<1> DEFINE n == next[cur]
<1>1. /\ pc = "merge" /\ cur \in Block /\ n \in Block /\ free[cur] /\ free[n]
      /\ UNCHANGED <<pc, cur, need, want, live>>
  BY DEF Merge, MergeNext, HeapInv, TypeOK
<1>2. /\ n = End(cur) /\ cur \in Nat /\ n \in Nat /\ n > cur /\ size[cur] \in Nat /\ size[n] \in Nat
      /\ End(n) \in Nat /\ n < End(n) /\ cur + HDR + (size[cur] + HDR + size[n]) = End(n)
      /\ size[cur] + HDR + size[n] \in Nat
  BY <1>1, Layout DEF HeapInv, End, MergeNext, Merge
<1>3. /\ Block' = Block \ {n} /\ DOMAIN free' = Block' /\ DOMAIN next' = Block'
      /\ size'[cur] = size[cur] + HDR + size[n] /\ next'[cur] = next[n]
      /\ \A b \in Block' : free'[b] = free[b]
      /\ \A b \in Block' : b # cur => size'[b] = size[b] /\ next'[b] = next[b]
  BY <1>1, <1>2 DEF Merge, Block
<1>4. cur \in Block' /\ free'[cur]
  BY <1>1, <1>2, <1>3
<1>5. ASSUME NEW b \in Block, next[b] = n PROVE b = cur
  <2>1. /\ b \in Nat /\ End(b) = n /\ b < n
        /\ (cur > b => cur >= End(b)) /\ (b > cur => b >= End(cur))
    BY <1>1, <1>2, <1>5, Layout DEF HeapInv, MergeNext, Merge
  <2>2. QED
    BY <1>2, <2>1
<1>6. next[n] # n
  BY <1>1, <1>2, <1>5
<1>7. \A b \in Block : next[b] \in Block \cup {NULL} /\ size[b] \in Nat /\ free[b] \in BOOLEAN
  BY DEF HeapInv, TypeOK
<1> HIDE DEF n
<1>8. \A b \in Block' : next'[b] \in Block' \cup {NULL}
  BY <1>1, <1>3, <1>5, <1>6, <1>7 DEF NULL
<1>9. TypeOK'
  <2>1. /\ size' = [b \in Block' |-> size'[b]] /\ free' = [b \in Block' |-> free'[b]]
        /\ next' = [b \in Block' |-> next'[b]]
    BY <1>3 DEF Merge, Block
  <2>2. \A b \in Block' : size'[b] \in Nat /\ free'[b] \in BOOLEAN
    BY <1>2, <1>3, <1>7
  <2>3. size' \in [Block' -> Nat] /\ free' \in [Block' -> BOOLEAN] /\ next' \in [Block' -> Block' \cup {NULL}]
    BY <1>8, <2>1, <2>2
  <2>4. QED
    BY <1>1, <1>3, <1>4, <2>3 DEF HeapInv, TypeOK
<1>10. Tiled'
  <2>1. 0 \in Block'
    <3>1. 0 \in Block /\ n # 0
      BY <1>2 DEF HeapInv, Tiled
    <3>2. QED
      BY <1>3, <3>1
  <2>2. End(cur)' = End(n)
    BY <1>2, <1>3, <1>1 DEF End
  <2>3. ASSUME NEW b \in Block'
        PROVE  /\ IF next'[b] = NULL THEN End(b)' = HeapSize ELSE End(b)' = next'[b]
               /\ \A c \in Block' : c > b => c >= End(b)'
    <3>1. CASE b = cur
      <4>1. IF next[n] = NULL THEN End(n) = HeapSize ELSE End(n) = next[n]
        BY <1>1 DEF HeapInv, Tiled
      <4>2. End(b)' = End(n) /\ next'[b] = next[n]
        BY <1>1, <1>3, <2>2, <3>1 DEF End
      <4>3. ASSUME NEW c \in Block', c > b PROVE c >= End(n)
        <5>1. c \in Block /\ c # n /\ c \in Nat /\ c >= n
          BY <1>1, <1>2, <1>3, <3>1, <4>3, Layout DEF HeapInv, TypeOK
        <5>2. QED
          BY <1>1, <1>2, <5>1, Layout DEF HeapInv
      <4>4. QED
        BY <4>1, <4>2, <4>3
    <3>2. CASE b # cur
      <4>1. b \in Block /\ End(b)' = End(b) /\ next'[b] = next[b]
        BY <1>3, <3>2 DEF End
      <4>2. QED
        BY <1>3, <4>1 DEF HeapInv, Tiled
    <3>3. QED
      BY <3>1, <3>2
  <2>4. QED
    BY <2>1, <2>3 DEF Tiled
<1>11. Owned'
  <2>1. ASSUME NEW p \in DOMAIN live
        PROVE  p - HDR \in Block' /\ ~free'[p - HDR] /\ live[p] <= size'[p - HDR]
    <3>1. p - HDR \in Block /\ ~free[p - HDR] /\ live[p] <= size[p - HDR]
      BY DEF HeapInv, Owned
    <3>2. p - HDR # n /\ p - HDR # cur
      BY <1>1, <3>1
    <3>3. QED
      BY <1>3, <3>1, <3>2
  <2>2. \A b \in Block' : ~free'[b] => b + HDR \in DOMAIN live
    BY <1>3 DEF HeapInv, Owned
  <2>3. QED
    BY <1>1, <2>1, <2>2 DEF Owned
<1>12. Progress'
  <2>1. ASSUME NEW b \in Block', b < cur PROVE ~MergeNext(b)'
    <3>1. b \in Block /\ b # cur /\ ~MergeNext(b)
      BY <1>1, <1>2, <1>3, <2>1 DEF HeapInv, Progress, Passed, TypeOK
    <3>2. next'[b] = next[b] /\ free'[b] = free[b] /\ next[b] # n
      BY <1>3, <1>5, <3>1
    <3>3. next[b] # NULL => free'[next[b]] = free[next[b]]
      BY <1>3, <1>8, <3>2
    <3>4. QED
      BY <3>1, <3>2, <3>3 DEF MergeNext
  <2>2. cur # NULL
    BY <1>2 DEF NULL
  <2>3. QED
    BY <1>1, <2>1, <2>2 DEF Progress, Passed
<1>13. QED
  BY <1>9, <1>10, <1>11, <1>12 DEF HeapInv

\* kfree passes a block it cannot merge.
LEMMA MergeOnInv ==
  ASSUME HeapInv, MergeOn
  PROVE  HeapInv'
<1>1. TypeOK' /\ Tiled' /\ Owned'
  BY SameList DEF HeapInv, MergeOn, TypeOK, Owned, Block, list
<1>2. ASSUME NEW b \in Block, Passed(b)' PROVE ~MergeNext(b)
  BY <1>2, Advance DEF HeapInv, Progress, MergeOn, Passed
<1>3. Progress'
  BY <1>2 DEF HeapInv, MergeOn, Progress, MergeNext, Block, list, Passed
<1>4. QED
  BY <1>1, <1>3 DEF HeapInv

\* kfree has passed every block.
LEMMA MergeDoneInv ==
  ASSUME HeapInv, MergeDone
  PROVE  HeapInv'
<1>1. TypeOK' /\ Tiled' /\ Owned'
  BY SameList DEF HeapInv, MergeDone, TypeOK, Owned, Block, list
<1>2. Progress'
  BY DEF HeapInv, MergeDone, Progress, MergeNext, Block, list, Passed
<1>3. QED
  BY <1>1, <1>2 DEF HeapInv

\* Every step keeps the invariant.
LEMMA HeapNext == HeapInv /\ [Next]_vars => HeapInv'
<1> SUFFICES ASSUME HeapInv, [Next]_vars PROVE HeapInv'
  OBVIOUS
<1>1. ASSUME NEW n \in Request, KMalloc(n) PROVE HeapInv'
  BY <1>1, KMallocInv
<1>2. ASSUME NEW p \in DOMAIN live, KFree(p) PROVE HeapInv'
  BY <1>2, KFreeInv
<1>3. CASE Step
  BY <1>3, ScanOnInv, TakeInv, OutOfHeapInv, MergeInv, MergeOnInv, MergeDoneInv DEF Step
<1>4. CASE UNCHANGED vars
  BY <1>4 DEF vars, list, HeapInv, TypeOK, Tiled, Owned, Progress, Passed, Fits, MergeNext, End, Block
<1>5. QED
  BY <1>1, <1>2, <1>3, <1>4 DEF Next

\* The heap's invariant holds through all calls of kmalloc and kfree.
THEOREM HeapInvariant == Spec => []HeapInv
BY HeapInit, HeapNext, PTL DEF Spec

-----------------------------------------------------------------------------
\* Headers, cursors and pointers stay inside the heap.
THEOREM HeapTypeCorrect == Spec => []TypeOK
<1>1. HeapInv => TypeOK
  BY DEF HeapInv
<1>2. QED
  BY <1>1, HeapInvariant, PTL

\* The blocks tile the heap through every split and merge.
THEOREM HeapStaysTiled == Spec => []Tiled
<1>1. HeapInv => Tiled
  BY DEF HeapInv
<1>2. QED
  BY <1>1, HeapInvariant, PTL

\* No allocation shares a byte with another one or with a header, and every
\* taken block has an owner.
THEOREM AllocationsIsolated == Spec => []LiveIsolated
<1>1. HeapInv => LiveIsolated
  <2> SUFFICES ASSUME HeapInv PROVE LiveIsolated
    OBVIOUS
  <2> USE HeapAssumption DEF HDR
  <2>1. ASSUME NEW p \in DOMAIN live
        PROVE  /\ p - HDR \in Block /\ ~free[p - HDR] /\ p \in Nat /\ live[p] \in Nat
               /\ p + live[p] <= HeapSize /\ p + live[p] <= End(p - HDR) /\ End(p - HDR) \in Nat
               /\ \A b \in Block : b \in Nat /\ (b > p - HDR => b >= End(p - HDR))
    <3>1. p - HDR \in Block /\ ~free[p - HDR] /\ live[p] <= size[p - HDR] /\ p \in Nat /\ live[p] \in Nat
      BY DEF HeapInv, Owned, TypeOK
    <3>2. /\ size[p - HDR] \in Nat /\ End(p - HDR) \in Nat /\ End(p - HDR) <= HeapSize
          /\ \A b \in Block : b > p - HDR => b >= End(p - HDR)
      BY <3>1, Layout DEF HeapInv
    <3>3. QED
      BY <3>1, <3>2 DEF End, HeapInv, TypeOK
  <2>2. ASSUME NEW p \in DOMAIN live, NEW b \in Block PROVE b + HDR <= p \/ p + live[p] <= b
    BY <2>1
  <2>3. ASSUME NEW p \in DOMAIN live, NEW q \in DOMAIN live, p < q PROVE p + live[p] + HDR <= q
    BY <2>1, <2>3
  <2>4. QED
    BY <2>1, <2>2, <2>3 DEF LiveIsolated, HeapInv, Owned
<1>2. QED
  BY <1>1, HeapInvariant, PTL

\* Between calls no two neighbouring blocks are free.
THEOREM FreeBlocksCoalesced == Spec => []Coalesced
<1>1. HeapInv => Coalesced
  BY DEF HeapInv, Progress, Coalesced
<1>2. QED
  BY <1>1, HeapInvariant, PTL

\* kmalloc returns 0 only when no free block is large enough.
THEOREM NoSpuriousFailure == Spec => FailsOnlyWhenFull
<1> DEFINE Fails == pc = "scan" /\ pc' = "idle" /\ live' = live => \A b \in Block : ~Fits(b)
<1>1. HeapInv /\ [Next]_vars => [Fails]_vars
  <2> SUFFICES ASSUME HeapInv, Next, pc = "scan", pc' = "idle", live' = live, NEW b \in Block
               PROVE  ~Fits(b)
    BY DEF vars
  <2>1. CASE OutOfHeap
    BY <2>1 DEF OutOfHeap, HeapInv, Progress, Passed
  <2>2. CASE Take
    <3>1. cur \in Block /\ free[cur] /\ DOMAIN live' = DOMAIN live \cup {cur + HDR}
      BY <2>2 DEF Take, HandOut, Fits, HeapInv, TypeOK
    <3>2. cur + HDR \in DOMAIN live /\ (cur + HDR) - HDR = cur
      BY <3>1 DEF HDR, HeapInv, TypeOK
    <3>3. QED
      BY <3>1, <3>2 DEF HeapInv, Owned
  <2>3. QED
    BY <2>1, <2>2 DEF Next, Step, KMalloc, KFree, ScanOn, Merge, MergeOn, MergeDone
<1>2. QED
  BY <1>1, HeapInvariant, PTL DEF Spec, FailsOnlyWhenFull
=============================================================================
