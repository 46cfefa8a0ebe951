------------------------------- MODULE Green -------------------------------
(***************************************************************************)
(* The cooperative green threads ("fibers") of kernel/green.c: gt_init, a  *)
(* batch of gt_spawn, then gt_run, which multiplexes the fibers onto its   *)
(* caller until every one has exited and frees them.  They run inside a    *)
(* shell command, with interrupts disabled, and switch only at gt_yield.   *)
(***************************************************************************)
EXTENDS Naturals, FiniteSets

CONSTANTS Fiber,  \* the gthread_t records of a batch
          NULL,
          Yields  \* how often the entry function of a fiber calls gt_yield

ASSUME GreenAssumption ==
  /\ IsFiniteSet(Fiber)
  /\ NULL \notin Fiber
  /\ Yields \in Nat

VARIABLES
  state,      \* gthread_t.state, or "none" for memory that is not a fiber
  next,       \* gthread_t.next
  g_ring, g_current,
  left,       \* the calls of gt_yield a fiber has still to make
  pc,         \* "idle", "spawn" (before gt_run), "sched", "fiber", "free"
  cur         \* the cursor of free_all

vars == <<state, next, g_ring, g_current, left, pc, cur>>

Allocated == {t \in Fiber : state[t] # "none"}

Init ==
  /\ state = [t \in Fiber |-> "none"]
  /\ next = [t \in Fiber |-> t]
  /\ g_ring = NULL
  /\ g_current = NULL
  /\ left = [t \in Fiber |-> 0]
  /\ pc = "idle"
  /\ cur = NULL

-----------------------------------------------------------------------------
(* A batch begins.                                                          *)

GtInit ==
  /\ pc = "idle"
  /\ pc' = "spawn"
  /\ g_ring' = NULL
  /\ g_current' = NULL
  /\ UNCHANGED <<state, next, left, cur>>

\* Mutant: the new fiber takes the place of what follows g_ring.
InsertCutting(t) ==
  IF g_ring = NULL
  THEN next' = [next EXCEPT ![t] = t] /\ g_ring' = t
  ELSE next' = [next EXCEPT ![t] = g_ring, ![g_ring] = t] /\ UNCHANGED g_ring

\* The new fiber follows g_ring, or is the ring.
Insert(t) ==
  IF g_ring = NULL
  THEN next' = [next EXCEPT ![t] = t] /\ g_ring' = t
  ELSE next' = [next EXCEPT ![t] = next[g_ring], ![g_ring] = t] /\ UNCHANGED g_ring

\* gt_spawn, by whoever starts the batch or by a fiber of it; when one of its
\* allocations fails it changes nothing.
GtSpawn(t) ==
  /\ pc \in {"spawn", "fiber"}
  /\ state[t] = "none"
  /\ state' = [state EXCEPT ![t] = "ready"]
  /\ left' = [left EXCEPT ![t] = Yields]
  /\ Insert(t)
  /\ UNCHANGED <<g_current, pc, cur>>

GtRun ==
  /\ pc = "spawn"
  /\ pc' = "sched"
  /\ UNCHANGED <<state, next, g_ring, g_current, left, cur>>

-----------------------------------------------------------------------------
(* The scheduler.                                                           *)

\* Mutant: the scan starts where it started the last time.
PicksInPlace(t) ==
  /\ \E n \in 0..(Cardinality(Fiber) - 1) : \E hop \in [0..n -> Allocated] :
       /\ hop[0] = g_ring
       /\ \A j \in 1..n : hop[j] = next[hop[j - 1]] /\ hop[j] # g_ring
       /\ hop[n] = t
       /\ state[t] = "ready"
       /\ \A j \in 0..(n - 1) : state[hop[j]] # "ready"
  /\ UNCHANGED g_ring

\* pick_next finds t: the first ready fiber from g_ring on, once round.
Picks(t) ==
  /\ \E n \in 0..(Cardinality(Fiber) - 1) : \E hop \in [0..n -> Allocated] :
       /\ hop[0] = g_ring
       /\ \A j \in 1..n : hop[j] = next[hop[j - 1]] /\ hop[j] # g_ring
       /\ hop[n] = t
       /\ state[t] = "ready"
       /\ \A j \in 0..(n - 1) : state[hop[j]] # "ready"
  /\ g_ring' = next[t]

\* gt_run dispatches the fiber pick_next found.
Dispatch(t) ==
  /\ pc = "sched"
  /\ g_ring # NULL
  /\ Picks(t)
  /\ g_current' = t
  /\ state' = [state EXCEPT ![t] = "running"]
  /\ pc' = "fiber"
  /\ UNCHANGED <<next, left, cur>>

\* pick_next finds none on its way round the ring.
PicksNone ==
  \/ g_ring = NULL
  \/ \E n \in 0..(Cardinality(Fiber) - 1) : \E hop \in [0..n -> Allocated] :
       /\ hop[0] = g_ring
       /\ \A j \in 1..n : hop[j] = next[hop[j - 1]]
       /\ next[hop[n]] = g_ring
       /\ \A j \in 0..n : state[hop[j]] # "ready"

\* gt_run leaves its loop and enters free_all.
RunEnds ==
  /\ pc = "sched"
  /\ PicksNone
  /\ pc' = IF g_ring = NULL THEN "idle" ELSE "free"
  /\ cur' = g_ring
  /\ UNCHANGED <<state, next, g_ring, g_current, left>>

-----------------------------------------------------------------------------
(* Fibers.                                                                  *)

\* gt_yield, back in gt_run.
GtYield ==
  /\ pc = "fiber"
  /\ left[g_current] > 0
  /\ left' = [left EXCEPT ![g_current] = @ - 1]
  /\ state' = [state EXCEPT ![g_current] = IF @ = "running" THEN "ready" ELSE @]
  /\ pc' = "sched"
  /\ UNCHANGED <<next, g_ring, g_current, cur>>

\* The entry function returns to gt_trampoline.
Trampoline ==
  /\ pc = "fiber"
  /\ left[g_current] = 0
  /\ state' = [state EXCEPT ![g_current] = "dead"]
  /\ pc' = "sched"
  /\ UNCHANGED <<next, g_ring, g_current, left, cur>>

-----------------------------------------------------------------------------
(* free_all                                                                 *)

\* Mutant: the loop stops one fiber short.
FreeOneShort ==
  /\ pc = "free"
  /\ state' = [state EXCEPT ![cur] = "none"]
  /\ IF next[next[cur]] = g_ring
     THEN pc' = "idle" /\ cur' = NULL /\ g_ring' = NULL /\ g_current' = NULL
     ELSE cur' = next[cur] /\ UNCHANGED <<pc, g_ring, g_current>>
  /\ UNCHANGED <<next, left>>

\* Mutant: the loop waits for a null pointer.
FreeForever ==
  /\ pc = "free"
  /\ state' = [state EXCEPT ![cur] = "none"]
  /\ cur' = next[cur]
  /\ UNCHANGED <<next, g_ring, g_current, left, pc>>

\* One fiber is freed; back at g_ring the loop ends.
FreeOne ==
  /\ pc = "free"
  /\ state' = [state EXCEPT ![cur] = "none"]
  /\ IF next[cur] = g_ring
     THEN pc' = "idle" /\ cur' = NULL /\ g_ring' = NULL /\ g_current' = NULL
     ELSE cur' = next[cur] /\ UNCHANGED <<pc, g_ring, g_current>>
  /\ UNCHANGED <<next, left>>

Step ==
  \/ GtRun
  \/ \E t \in Fiber : Dispatch(t)
  \/ RunEnds
  \/ GtYield
  \/ Trampoline
  \/ FreeOne

Next ==
  \/ GtInit
  \/ \E t \in Fiber : GtSpawn(t)
  \/ Step

Spec == Init /\ [][Next]_vars

-----------------------------------------------------------------------------
(* Properties.                                                              *)

TypeOK ==
  /\ state \in [Fiber -> {"none", "ready", "running", "dead"}]
  /\ next \in [Fiber -> Fiber]
  /\ g_ring \in Fiber \cup {NULL}
  /\ g_current \in Fiber \cup {NULL}
  /\ pc = "fiber" => g_current \in Fiber
  /\ left \in [Fiber -> 0..Yields]
  /\ pc \in {"idle", "spawn", "sched", "fiber", "free"}
  /\ cur \in Fiber \cup {NULL}

\* Until free_all, the ring leads from g_ring through every fiber of the batch
\* and through no other memory, also when fibers are spawned while it turns.
RingComplete ==
  pc # "free" =>
    /\ Allocated = {} <=> g_ring = NULL
    /\ \A t \in Allocated : next[t] \in Allocated
    /\ \A S \in SUBSET Allocated :
         S # {} /\ (\A t \in S : next[t] \in S) => S = Allocated

\* free_all begins when "every one exits", so it frees no fiber that has still to
\* run; it uses none it has freed, and a batch leaves nothing allocated.
FreedOnce ==
  /\ pc = "free" => state[cur] # "none" /\ \A t \in Allocated : state[t] = "dead"
  /\ pc = "idle" => Allocated = {}

\* "scheduler never switches back to a dead fiber": the code behind the last
\* gt_yield of gt_trampoline is never reached.
DeadStaysDead ==
  [][\A t \in Fiber : state[t] = "dead" => state'[t] \in {"dead", "none"}]_vars

\* gt_run "drives the set to completion, then returns".
RunReturns == pc = "sched" ~> pc = "idle"
=============================================================================
