---------------------------- MODULE GreenProofs ----------------------------
(***************************************************************************)
(* The safety properties of the green threads, for any number of fibers    *)
(* and of yields.  A ring is a set of fibers closed under next with no     *)
(* smaller closed set in it; a walk along next that ends where it began    *)
(* has met all of it, which is what pick_next and free_all rely on.        *)
(***************************************************************************)
EXTENDS Green, FiniteSetTheorems, TLAPS

Closed(S) == \A t \in S : next[t] \in S

IsRing(R) ==
  /\ Closed(R)
  /\ \A S \in SUBSET R : S # {} /\ Closed(S) => S = R
  /\ \A t, u \in R : next[t] = next[u] => t = u

\* A fiber runs only while gt_run has dispatched it.
OneRuns == \A t \in Fiber : state[t] = "running" <=> pc = "fiber" /\ t = g_current

\* Until free_all the batch is the ring at g_ring.
BatchInv ==
  pc # "free" =>
    /\ g_ring \in Allocated \/ (g_ring = NULL /\ Allocated = {})
    /\ IsRing(Allocated)

\* In free_all, F is what the walk from g_ring has freed of the ring R: every
\* fiber in it leads on to another of F or to cur, and was reached through F.
Walked(R, F) ==
  /\ R \subseteq Fiber
  /\ IsRing(R)
  /\ F = R \ Allocated
  /\ Allocated \subseteq R
  /\ cur \in Allocated
  /\ g_ring \in F \cup {cur}
  /\ \A t \in F : next[t] \in F \cup {cur}
  /\ \A t \in F \cup {cur} : t # g_ring => \E u \in F : next[u] = t

FreeInv ==
  pc = "free" =>
    /\ \A t \in Allocated : state[t] = "dead"
    /\ \E R, F \in SUBSET Fiber : Walked(R, F)

GreenInv ==
  /\ TypeOK
  /\ OneRuns
  /\ BatchInv
  /\ FreeInv
  /\ pc = "idle" => Allocated = {}

-----------------------------------------------------------------------------
(* Rings.                                                                   *)

\* A step that leaves next alone keeps every ring.
LEMMA RingKept ==
  ASSUME UNCHANGED next, NEW R
  PROVE  IsRing(R)' <=> IsRing(R)
  BY DEF IsRing, Closed

\* The walk of pick_next that comes back to g_ring has met every fiber.
LEMMA WalkMeetsAll ==
  ASSUME NEW R, IsRing(R), NEW n \in Nat, NEW hop \in [0..n -> R],
         \A j \in 1..n : hop[j] = next[hop[j - 1]], next[hop[n]] = hop[0]
  PROVE  R = {hop[j] : j \in 0..n}
<1> DEFINE S == {hop[j] : j \in 0..n}
<1>1. S \in SUBSET R /\ S # {}
  OBVIOUS
<1>2. ASSUME NEW u \in S PROVE next[u] \in S
  <2>1. PICK j \in 0..n : u = hop[j]
    OBVIOUS
  <2>2. CASE j = n
    BY <2>1, <2>2
  <2>3. CASE j # n
    <3>1. j + 1 \in 1..n /\ j + 1 \in 0..n /\ (j + 1) - 1 = j
      BY <2>1, <2>3
    <3>2. hop[j + 1] = next[u]
      BY <3>1, <2>1
    <3> QED BY <3>1, <3>2
  <2> QED BY <2>2, <2>3
<1> QED BY <1>1, <1>2 DEF IsRing, Closed

\* gt_spawn puts a fiber into a ring, after g_ring: what is closed with the new
\* fiber in the ring was closed without it.
LEMMA InsertRing ==
  ASSUME NEW R \in SUBSET Fiber, IsRing(R), NEW g \in R, NEW t \in Fiber, t \notin R,
         next \in [Fiber -> Fiber], next' = [next EXCEPT ![t] = next[g], ![g] = t]
  PROVE  IsRing(R \cup {t})'
<1>0. g \in Fiber /\ t # g
  OBVIOUS
<1>1. /\ next'[t] = next[g] /\ next'[g] = t
      /\ \A u \in R : u # g => next'[u] = next[u]
  BY <1>0
<1>r. /\ \A u \in R : next[u] \in R
      /\ \A S \in SUBSET R : S # {} /\ Closed(S) => S = R
      /\ \A u, v \in R : next[u] = next[v] => u = v
  BY DEF IsRing, Closed
<1>2. \A u \in R \cup {t} : next'[u] \in R \cup {t}
  BY <1>1, <1>r
<1>3. ASSUME NEW S \in SUBSET (R \cup {t}), S # {}, \A u \in S : next'[u] \in S
      PROVE  S = R \cup {t}
  <2> DEFINE Q == S \ {t}
  <2>1. Q \in SUBSET R
    OBVIOUS
  <2>2. Q # {}
    BY <1>1, <1>3, <1>r, <1>0
  <2>3. ASSUME NEW u \in Q PROVE next[u] \in Q
    <3>0. u \in R /\ u \in S
      OBVIOUS
    <3>1. CASE u # g
      BY <3>0, <3>1, <1>1, <1>3, <1>r
    <3>2. CASE u = g
      <4>1. t \in S
        BY <3>0, <3>2, <1>1, <1>3
      <4>2. next[g] \in S
        BY <4>1, <1>1, <1>3
      <4> QED BY <4>2, <3>2, <1>r
    <3> QED BY <3>1, <3>2
  <2>4. Q = R
    BY <2>1, <2>2, <2>3, <1>r DEF Closed
  <2>5. t \in S
    BY <2>4, <1>1, <1>3
  <2> QED BY <2>4, <2>5
<1>4. ASSUME NEW u \in R \cup {t}, NEW v \in R \cup {t}, next'[u] = next'[v] PROVE u = v
  BY <1>1, <1>4, <1>r
<1> QED BY <1>2, <1>3, <1>4 DEF IsRing, Closed

-----------------------------------------------------------------------------
(* One lemma for each action.                                               *)

\* A step that keeps the ring and the batch, outside free_all.
LEMMA BatchKept ==
  ASSUME GreenInv, pc # "free", UNCHANGED next, Allocated' = Allocated,
         g_ring' \in Allocated \/ (g_ring' = NULL /\ Allocated = {})
  PROVE  BatchInv'
  BY RingKept DEF GreenInv, BatchInv

\* No batch at boot.
LEMMA InitHolds == Init => GreenInv
<1> SUFFICES ASSUME Init PROVE GreenInv
  OBVIOUS
<1>1. Allocated = {} /\ IsRing({})
  BY DEF Init, Allocated, IsRing, Closed
<1>2. TypeOK /\ OneRuns
  BY GreenAssumption DEF Init, TypeOK, OneRuns
<1> QED BY <1>1, <1>2 DEF Init, GreenInv, BatchInv, FreeInv

\* gt_init
LEMMA GtInitKeeps ==
  ASSUME GreenInv, GtInit
  PROVE  GreenInv'
<1>1. /\ pc = "idle" /\ pc' = "spawn" /\ g_ring' = NULL /\ g_current' = NULL
      /\ UNCHANGED <<state, next, left, cur>>
  BY DEF GtInit
<1>2. Allocated' = Allocated /\ Allocated = {}
  BY <1>1 DEF Allocated, GreenInv
<1>3. TypeOK' /\ OneRuns'
  BY <1>1 DEF GreenInv, TypeOK, OneRuns
<1>4. BatchInv'
  BY <1>1, <1>2, BatchKept
<1> QED BY <1>1, <1>3, <1>4 DEF GreenInv, FreeInv

\* gt_spawn: the new fiber makes the ring larger by one.
LEMMA GtSpawnKeeps ==
  ASSUME GreenInv, NEW t \in Fiber, GtSpawn(t)
  PROVE  GreenInv'
<1> USE GreenAssumption
<1>1. /\ pc \in {"spawn", "fiber"} /\ state[t] = "none"
      /\ state' = [state EXCEPT ![t] = "ready"]
      /\ left' = [left EXCEPT ![t] = Yields]
      /\ UNCHANGED <<g_current, pc, cur>>
  BY DEF GtSpawn
<1>2. Allocated' = Allocated \cup {t} /\ t \notin Allocated
  BY <1>1 DEF Allocated, GreenInv, TypeOK
<1>3. OneRuns'
  BY <1>1 DEF GreenInv, TypeOK, OneRuns
<1>4. CASE g_ring = NULL
  <2>1. next' = [next EXCEPT ![t] = t] /\ g_ring' = t
    BY <1>4 DEF GtSpawn, Insert
  <2>2. Allocated = {}
    BY <1>1, <1>4 DEF GreenInv, BatchInv, Allocated
  <2>3. next'[t] = t
    BY <2>1 DEF GreenInv, TypeOK
  <2>4. IsRing({t})'
    BY <2>3 DEF IsRing, Closed
  <2>5. BatchInv'
    BY <1>2, <2>1, <2>2, <2>4 DEF BatchInv
  <2>6. TypeOK'
    BY <1>1, <2>1 DEF GreenInv, TypeOK
  <2> QED BY <1>1, <1>3, <2>5, <2>6 DEF GreenInv, FreeInv
<1>5. CASE g_ring # NULL
  <2>1. next' = [next EXCEPT ![t] = next[g_ring], ![g_ring] = t] /\ g_ring' = g_ring
    BY <1>5 DEF GtSpawn, Insert
  <2>2. g_ring \in Allocated /\ IsRing(Allocated) /\ Allocated \in SUBSET Fiber
    BY <1>1, <1>5 DEF GreenInv, BatchInv, Allocated
  <2>3. PICK A \in SUBSET Fiber : A = Allocated
    BY <2>2
  <2>4. PICK g \in A : g = g_ring
    BY <2>2, <2>3
  <2>5. next' = [next EXCEPT ![t] = next[g], ![g] = t]
    BY <2>1, <2>4
  <2>6. IsRing(A \cup {t})'
    BY <2>2, <2>3, <2>4, <2>5, <1>2, InsertRing DEF GreenInv, TypeOK
  <2>7. BatchInv'
    BY <1>2, <2>1, <2>2, <2>3, <2>6 DEF BatchInv
  <2>8. next[g_ring] \in Fiber /\ g_ring \in Fiber
    BY <2>2 DEF GreenInv, TypeOK
  <2>9. TypeOK'
    BY <1>1, <2>1, <2>8 DEF GreenInv, TypeOK
  <2> QED BY <1>1, <1>3, <2>7, <2>9 DEF GreenInv, FreeInv
<1> QED BY <1>4, <1>5

\* gt_run enters its loop.
LEMMA GtRunKeeps ==
  ASSUME GreenInv, GtRun
  PROVE  GreenInv'
<1>1. /\ pc = "spawn" /\ pc' = "sched"
      /\ UNCHANGED <<state, next, g_ring, g_current, left, cur>>
  BY DEF GtRun
<1>2. Allocated' = Allocated
  BY <1>1 DEF Allocated
<1>3. TypeOK' /\ OneRuns'
  BY <1>1 DEF GreenInv, TypeOK, OneRuns
<1>4. BatchInv'
  BY <1>1, <1>2, BatchKept DEF GreenInv, BatchInv
<1> QED BY <1>1, <1>3, <1>4 DEF GreenInv, FreeInv

\* pick_next stays in the ring.
LEMMA DispatchKeeps ==
  ASSUME GreenInv, NEW t \in Fiber, Dispatch(t)
  PROVE  GreenInv'
<1>1. /\ pc = "sched" /\ pc' = "fiber" /\ g_current' = t
      /\ state' = [state EXCEPT ![t] = "running"]
      /\ UNCHANGED <<next, left, cur>>
      /\ g_ring' = next[t] /\ state[t] = "ready"
  BY DEF Dispatch, Picks
<1>2. Allocated' = Allocated /\ t \in Allocated
  BY <1>1 DEF Allocated, GreenInv, TypeOK
<1>3. next[t] \in Allocated
  BY <1>1, <1>2 DEF GreenInv, BatchInv, IsRing, Closed
<1>4. BatchInv'
  BY <1>1, <1>2, <1>3, BatchKept
<1>5. TypeOK' /\ OneRuns'
  BY <1>1 DEF GreenInv, TypeOK, OneRuns
<1> QED BY <1>1, <1>4, <1>5 DEF GreenInv, FreeInv

\* gt_run leaves its loop with every fiber dead.
LEMMA RunEndsKeeps ==
  ASSUME GreenInv, RunEnds
  PROVE  GreenInv'
<1> USE GreenAssumption
<1>1. /\ pc = "sched" /\ PicksNone
      /\ pc' = IF g_ring = NULL THEN "idle" ELSE "free"
      /\ cur' = g_ring
      /\ UNCHANGED <<state, next, g_ring, g_current, left>>
  BY DEF RunEnds
<1>2. Allocated' = Allocated /\ Allocated \in SUBSET Fiber
  BY <1>1 DEF Allocated
<1>3. TypeOK' /\ OneRuns'
  BY <1>1 DEF GreenInv, TypeOK, OneRuns
<1>4. CASE g_ring = NULL
  <2>1. Allocated = {}
    BY <1>1, <1>4 DEF GreenInv, BatchInv, Allocated
  <2>2. BatchInv'
    BY <1>1, <1>2, <1>4, <2>1, BatchKept
  <2> QED BY <1>1, <1>2, <1>3, <1>4, <2>1, <2>2 DEF GreenInv, FreeInv
<1>5. CASE g_ring # NULL
  <2>1. g_ring \in Allocated /\ IsRing(Allocated)
    BY <1>1, <1>5 DEF GreenInv, BatchInv
  <2>2. \A t \in Allocated : state[t] = "dead"
    <3>1. Cardinality(Fiber) \in Nat
      BY FS_CardinalityType
    <3>2. PICK n \in 0..(Cardinality(Fiber) - 1) : \E hop \in [0..n -> Allocated] :
            /\ hop[0] = g_ring
            /\ \A j \in 1..n : hop[j] = next[hop[j - 1]]
            /\ next[hop[n]] = g_ring
            /\ \A j \in 0..n : state[hop[j]] # "ready"
      BY <1>1, <1>5 DEF PicksNone
    <3>3. n \in Nat
      BY <3>1, <3>2
    <3>4. PICK hop \in [0..n -> Allocated] :
            /\ hop[0] = g_ring
            /\ \A j \in 1..n : hop[j] = next[hop[j - 1]]
            /\ next[hop[n]] = g_ring
            /\ \A j \in 0..n : state[hop[j]] # "ready"
      BY <3>2
    <3>5. Allocated = {hop[j] : j \in 0..n}
      BY <2>1, <3>3, <3>4, WalkMeetsAll
    <3>6. \A t \in Allocated : state[t] # "ready"
      BY <3>4, <3>5
    <3>7. \A t \in Allocated : state[t] # "running" /\ state[t] # "none"
      BY <1>1, <1>2 DEF GreenInv, OneRuns, Allocated
    <3> QED BY <1>2, <3>6, <3>7 DEF GreenInv, TypeOK
  <2>3. PICK A \in SUBSET Fiber : A = Allocated
    BY <1>2
  <2>4. Walked(A, {})'
    BY <1>1, <1>2, <2>1, <2>3, RingKept DEF Walked
  <2>5. FreeInv'
    BY <1>1, <1>2, <2>2, <2>4 DEF FreeInv
  <2> QED BY <1>1, <1>3, <1>5, <2>5 DEF GreenInv, BatchInv
<1> QED BY <1>4, <1>5

\* A fiber yields, or exits in gt_trampoline.
LEMMA FiberKeeps ==
  ASSUME GreenInv, GtYield \/ Trampoline
  PROVE  GreenInv'
<1>1. PICK v \in {"ready", "dead"} :
        /\ pc = "fiber" /\ pc' = "sched"
        /\ state' = [state EXCEPT ![g_current] = v]
        /\ UNCHANGED <<next, g_ring, g_current, cur>>
  <2>1. CASE GtYield
    <3>1. state[g_current] = "running"
      BY <2>1 DEF GtYield, GreenInv, TypeOK, OneRuns
    <3> QED BY <2>1, <3>1 DEF GtYield
  <2>2. CASE Trampoline
    BY <2>2 DEF Trampoline
  <2> QED BY <2>1, <2>2
<1>2. left' \in [Fiber -> 0..Yields]
  <2>1. CASE GtYield
    BY <2>1, GreenAssumption DEF GtYield, GreenInv, TypeOK
  <2>2. CASE Trampoline
    BY <2>2 DEF Trampoline, GreenInv, TypeOK
  <2> QED BY <2>1, <2>2
<1>3. Allocated' = Allocated
  BY <1>1 DEF Allocated, GreenInv, TypeOK, OneRuns
<1>4. BatchInv'
  BY <1>1, <1>3, BatchKept DEF GreenInv, BatchInv
<1>5. TypeOK' /\ OneRuns'
  BY <1>1, <1>2 DEF GreenInv, TypeOK, OneRuns
<1> QED BY <1>1, <1>4, <1>5 DEF GreenInv, FreeInv

\* free_all frees cur, and goes on with a fiber it has not freed: the one after
\* cur was reached from no other. Back at g_ring, what it freed is closed.
LEMMA FreeOneKeeps ==
  ASSUME GreenInv, FreeOne
  PROVE  GreenInv'
<1> USE GreenAssumption
<1>1. /\ pc = "free" /\ state' = [state EXCEPT ![cur] = "none"]
      /\ UNCHANGED <<next, left>>
  BY DEF FreeOne
<1>2. PICK R \in SUBSET Fiber, F \in SUBSET Fiber : Walked(R, F)
  BY <1>1 DEF GreenInv, FreeInv
<1>3. PICK c \in Fiber : c = cur
  BY <1>2 DEF Walked, Allocated
<1>4. /\ IsRing(R) /\ F = R \ Allocated /\ Allocated \subseteq R /\ c \in Allocated
      /\ g_ring \in F \cup {c}
      /\ \A t \in F : next[t] \in F \cup {c}
      /\ \A t \in F \cup {c} : t # g_ring => \E u \in F : next[u] = t
  BY <1>2, <1>3 DEF Walked
<1>5. Allocated' = Allocated \ {c} /\ c \in R /\ c \notin F /\ next[c] \in R
  BY <1>1, <1>3, <1>4 DEF Allocated, GreenInv, TypeOK, IsRing, Closed
<1>6. \A t \in Allocated' : state'[t] = "dead"
  BY <1>1, <1>3, <1>5 DEF GreenInv, FreeInv, TypeOK, Allocated
<1>7. CASE next[c] = g_ring
  <2>1. pc' = "idle" /\ cur' = NULL /\ g_ring' = NULL /\ g_current' = NULL
    BY <1>3, <1>7 DEF FreeOne
  <2>2. F \cup {c} = R
    <3>1. F \cup {c} \in SUBSET R /\ F \cup {c} # {}
      BY <1>4, <1>5
    <3>2. Closed(F \cup {c})
      BY <1>4, <1>7 DEF Closed
    <3> QED BY <3>1, <3>2, <1>4 DEF IsRing
  <2>3. Allocated' = {}
    BY <1>4, <1>5, <2>2
  <2>4. IsRing({})'
    BY DEF IsRing, Closed
  <2>5. TypeOK' /\ OneRuns'
    BY <1>1, <1>3, <2>1 DEF GreenInv, TypeOK, OneRuns
  <2> QED BY <2>1, <2>3, <2>4, <2>5 DEF GreenInv, BatchInv, FreeInv
<1>8. CASE next[c] # g_ring
  <2>1. cur' = next[c] /\ UNCHANGED <<pc, g_ring, g_current>>
    BY <1>3, <1>8 DEF FreeOne
  <2>2. next[c] \notin F \cup {c}
    <3> SUFFICES ASSUME next[c] \in F \cup {c} PROVE FALSE
      OBVIOUS
    <3>1. PICK u \in F : next[u] = next[c]
      BY <1>4, <1>8
    <3>2. u = c
      BY <3>1, <1>4, <1>5 DEF IsRing
    <3> QED BY <3>1, <3>2, <1>5
  <2>3. PICK d \in Fiber : d = next[c]
    BY <1>5
  <2>4. PICK G \in SUBSET Fiber : G = F \cup {c}
    OBVIOUS
  <2>5. /\ G = R \ Allocated' /\ Allocated' \subseteq R /\ d \in Allocated'
    BY <1>4, <1>5, <2>2, <2>3, <2>4
  <2>6. /\ g_ring \in G \cup {d}
        /\ \A t \in G : next[t] \in G \cup {d}
        /\ \A t \in G \cup {d} : t # g_ring => \E u \in G : next[u] = t
    BY <1>4, <2>3, <2>4
  <2>7. IsRing(R)'
    BY <1>1, <1>4, RingKept
  <2>8. Walked(R, G)'
    BY <1>1, <2>1, <2>3, <2>5, <2>6, <2>7 DEF Walked
  <2>9. TypeOK' /\ OneRuns'
    BY <1>1, <1>3, <2>1, <2>3 DEF GreenInv, TypeOK, OneRuns
  <2> QED BY <1>1, <1>6, <2>1, <2>8, <2>9 DEF GreenInv, BatchInv, FreeInv
<1> QED BY <1>7, <1>8

-----------------------------------------------------------------------------
(* The theorems.                                                            *)

\* The inductive invariant of a batch, from gt_init to the end of free_all.
THEOREM BatchInvariant == Spec => []GreenInv
<1>1. GreenInv /\ [Next]_vars => GreenInv'
  <2> SUFFICES ASSUME GreenInv, [Next]_vars PROVE GreenInv'
    OBVIOUS
  <2>1. CASE GtInit
    BY <2>1, GtInitKeeps
  <2>2. CASE \E t \in Fiber : GtSpawn(t)
    BY <2>2, GtSpawnKeeps
  <2>3. CASE GtRun
    BY <2>3, GtRunKeeps
  <2>4. CASE \E t \in Fiber : Dispatch(t)
    BY <2>4, DispatchKeeps
  <2>5. CASE RunEnds
    BY <2>5, RunEndsKeeps
  <2>6. CASE GtYield \/ Trampoline
    BY <2>6, FiberKeeps
  <2>7. CASE FreeOne
    BY <2>7, FreeOneKeeps
  <2>8. CASE UNCHANGED vars
    <3>1. UNCHANGED <<state, next, g_ring, g_current, left, pc, cur>>
      BY <2>8 DEF vars
    <3>2. Allocated' = Allocated
      BY <3>1 DEF Allocated
    <3>3. TypeOK' /\ OneRuns'
      BY <3>1 DEF GreenInv, TypeOK, OneRuns
    <3>4. BatchInv'
      BY <3>1, <3>2, RingKept DEF GreenInv, BatchInv
    <3>5. ASSUME NEW R, NEW F, Walked(R, F) PROVE Walked(R, F)'
      BY <3>1, <3>2, <3>5, RingKept DEF Walked
    <3>6. FreeInv'
      BY <3>1, <3>2, <3>5 DEF GreenInv, FreeInv
    <3> QED BY <3>1, <3>2, <3>3, <3>4, <3>6 DEF GreenInv
  <2> QED BY <2>1, <2>2, <2>3, <2>4, <2>5, <2>6, <2>7, <2>8 DEF Next, Step
<1> QED BY <1>1, InitHolds, PTL DEF Spec

\* The fields keep their types: pick_next and free_all follow no null pointer,
\* and a fiber runs only as g_current.
THEOREM GreenTypeCorrect == Spec => []TypeOK
<1>1. GreenInv => TypeOK
  BY DEF GreenInv
<1> QED BY <1>1, BatchInvariant, PTL

\* Until free_all the ring leads through every fiber of the batch, however many
\* are spawned and from wherever.
THEOREM RingStaysComplete == Spec => []RingComplete
<1>1. GreenInv => RingComplete
  BY GreenAssumption DEF GreenInv, BatchInv, IsRing, Closed, RingComplete, Allocated
<1> QED BY <1>1, BatchInvariant, PTL

\* free_all frees each fiber of the batch once, and only when all are dead.
THEOREM FibersFreedOnce == Spec => []FreedOnce
<1>1. GreenInv => FreedOnce
  BY DEF GreenInv, FreeInv, Walked, Allocated, FreedOnce
<1> QED BY <1>1, BatchInvariant, PTL

\* gt_run never goes back to a fiber that has exited.
THEOREM DeadFibersStayDead == Spec => DeadStaysDead
<1>1. GreenInv /\ [Next]_vars =>
        [\A t \in Fiber : state[t] = "dead" => state'[t] \in {"dead", "none"}]_vars
  <2> SUFFICES ASSUME GreenInv, Next, NEW t \in Fiber, state[t] = "dead"
               PROVE  state'[t] \in {"dead", "none"}
    OBVIOUS
  <2>1. CASE GtInit \/ GtRun \/ RunEnds
    BY <2>1 DEF GtInit, GtRun, RunEnds
  <2>2. CASE \E u \in Fiber : GtSpawn(u) \/ Dispatch(u)
    BY <2>2 DEF GtSpawn, Dispatch, Picks, GreenInv, TypeOK
  <2>3. CASE GtYield \/ Trampoline
    BY <2>3 DEF GtYield, Trampoline, GreenInv, TypeOK
  <2>4. CASE FreeOne
    BY <2>4 DEF FreeOne, GreenInv, TypeOK
  <2> QED BY <2>1, <2>2, <2>3, <2>4 DEF Next, Step
<1> QED BY <1>1, BatchInvariant, PTL DEF Spec, DeadStaysDead
=============================================================================
