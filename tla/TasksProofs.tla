---------------------------- MODULE TasksProofs ----------------------------
(* The safety properties of the scheduler, for any number of tasks.         *)
EXTENDS Tasks, FiniteSetTheorems, TLAPS

\* The kernel task never exits; this is what task_exit can rely on to find
\* another task to run, since the list is one cycle.
KernelAlive == state[Kernel] \in {"running", "ready"}

\* The inductive invariant.
TaskInv ==
  /\ TypeOK
  /\ RingIntact
  /\ OnlyCurrentRuns
  /\ TssFollowsCurrent
  /\ KernelAlive

-----------------------------------------------------------------------------
\* The loop of schedule() stops at a task of the list that is not dead, or at
\* the current one.
LEMMA ScanStops ==
  ASSUME NEW st, NEW t, ScanStopsAt(st, t)
  PROVE  st[t] # "dead" \/ t = current
BY DEF ScanStopsAt

\* While the kernel task is alive, the loop of schedule() called from another
\* task does not come back to it: the tasks the loop meets before it would do
\* so are closed under next, hence all tasks, and the kernel task is not dead.
LEMMA ScanLeaves ==
  ASSUME TaskInv, current # Kernel,
         NEW st, st[Kernel] # "dead",
         NEW t \in Created, ScanStopsAt(st, t)
  PROVE  t # current
<1>1. SUFFICES ASSUME t = current PROVE FALSE
  OBVIOUS
<1>2. Cardinality(Task) \in Nat
  BY TaskAssumption, FS_CardinalityType
<1>3. PICK n \in LastHop : \E hop \in [0..n -> Created] :
        /\ Follows(hop, n, current)
        /\ hop[n] = t
        /\ \A j \in 0..(n - 1) : ~(st[hop[j]] # "dead" \/ hop[j] = current)
  BY DEF ScanStopsAt
<1>4. n \in Nat
  BY <1>2, <1>3 DEF LastHop
<1>5. PICK hop \in [0..n -> Created] :
        /\ Follows(hop, n, current)
        /\ hop[n] = t
        /\ \A j \in 0..(n - 1) : ~(st[hop[j]] # "dead" \/ hop[j] = current)
  BY <1>3
<1> DEFINE S == {hop[j] : j \in 0..n}
<1>6. S \in SUBSET Created /\ S # {}
  BY <1>4, <1>5
<1>7. ASSUME NEW u \in S PROVE next[u] \in S
  <2>1. PICK j \in 0..n : u = hop[j]
    OBVIOUS
  <2>2. CASE j = n
    <3>1. next[u] = hop[0]
      BY <2>1, <2>2, <1>1, <1>5 DEF Follows
    <3>2. QED
      BY <3>1, <1>4
  <2>3. CASE j # n
    <3>1. j + 1 \in 1..n /\ (j + 1) - 1 = j
      BY <2>1, <2>3, <1>4
    <3>2. hop[j + 1] = next[u]
      BY <3>1, <2>1, <1>5 DEF Follows
    <3>3. QED
      BY <3>1, <3>2, <1>4
  <2>4. QED
    BY <2>2, <2>3
<1>8. S = Created
  BY <1>6, <1>7 DEF TaskInv, RingIntact
<1>9. Kernel \in S
  BY <1>8, TaskAssumption DEF TaskInv, KernelAlive, Created
<1>10. PICK j \in 0..n : Kernel = hop[j]
  BY <1>9
<1>11. j \in 0..(n - 1)
  BY <1>1, <1>4, <1>5, <1>10
<1>12. QED
  BY <1>5, <1>10, <1>11

-----------------------------------------------------------------------------
\* tasking_init establishes the invariant.
LEMMA InitInv == Init => TaskInv
<1> SUFFICES ASSUME Init PROVE TaskInv
  OBVIOUS
<1> USE TaskAssumption
<1>1. Created = {Kernel}
  BY DEF Init, Created
<1>2. TypeOK
  BY DEF Init, TypeOK, State
<1>3. RingIntact
  BY <1>1 DEF Init, RingIntact
<1>4. OnlyCurrentRuns /\ TssFollowsCurrent /\ KernelAlive
  BY DEF Init, OnlyCurrentRuns, TssFollowsCurrent, KernelAlive
<1>5. QED
  BY <1>2, <1>3, <1>4 DEF TaskInv

\* schedule() called by the timer or by yield().
LEMMA TickInv == TaskInv /\ Tick => TaskInv'
<1> SUFFICES ASSUME TaskInv, Tick PROVE TaskInv'
  OBVIOUS
<1> USE TaskAssumption
<1>1. PICK t \in Created :
        /\ ScanStopsAt(state, t)
        /\ \/ t = current /\ state' = state /\ UNCHANGED <<current, esp0>>
           \/ t # current /\ SwitchTo(state, t)
  BY DEF Tick, Schedule
<1>2. UNCHANGED <<next, kstack_top>>
  BY DEF Tick
<1>3. CASE t = current
  BY <1>1, <1>2, <1>3 DEF SwitchTo, TaskInv, TypeOK, RingIntact, OnlyCurrentRuns,
     TssFollowsCurrent, KernelAlive, Created
<1>4. CASE t # current
  <2>1. state[t] # "dead" /\ t \in Task /\ state[t] # "none"
    BY <1>1, <1>4, ScanStops DEF Created
  <2>2. /\ state' = [state EXCEPT ![current] = "ready", ![t] = "running"]
        /\ current' = t /\ esp0' = kstack_top[t]
    BY <1>1, <1>4 DEF SwitchTo, TaskInv, OnlyCurrentRuns, TypeOK
  <2>3. TypeOK'
    BY <1>2, <2>1, <2>2 DEF TaskInv, TypeOK, State
  <2>4. Created' = Created
    BY <2>1, <2>2 DEF TaskInv, TypeOK, OnlyCurrentRuns, Created
  <2>5. RingIntact'
    BY <1>2, <2>4 DEF TaskInv, RingIntact
  <2>6. OnlyCurrentRuns' /\ TssFollowsCurrent' /\ KernelAlive'
    BY <1>2, <2>1, <2>2 DEF TaskInv, TypeOK, OnlyCurrentRuns, TssFollowsCurrent,
       KernelAlive
  <2>7. QED
    BY <2>3, <2>5, <2>6 DEF TaskInv
<1>5. QED
  BY <1>3, <1>4

\* task_exit: the scan finds another task, so the dead one is never resumed.
LEMMA ExitInv == TaskInv /\ TaskExit => TaskInv'
<1> SUFFICES ASSUME TaskInv, TaskExit PROVE TaskInv'
  OBVIOUS
<1> USE TaskAssumption
<1> DEFINE st == [state EXCEPT ![current] = "dead"]
<1>1. PICK t \in Created :
        /\ ScanStopsAt(st, t)
        /\ \/ t = current /\ state' = st /\ UNCHANGED <<current, esp0>>
           \/ t # current /\ SwitchTo(st, t)
  BY DEF TaskExit, Schedule
<1>2. UNCHANGED <<next, kstack_top>> /\ current # Kernel
  BY DEF TaskExit
<1>3. st[Kernel] # "dead"
  BY <1>2 DEF TaskInv, TypeOK, KernelAlive
<1>4. t # current
  <2> HIDE DEF st
  <2> QED
    BY <1>1, <1>2, <1>3, ScanLeaves
<1>5. st[t] # "dead"
  <2> HIDE DEF st
  <2> QED
    BY <1>1, <1>4, ScanStops
<1>6. t \in Task /\ state[t] # "dead" /\ state[t] # "none"
  BY <1>1, <1>4, <1>5 DEF TaskInv, TypeOK, Created
<1>7. /\ state' = [state EXCEPT ![current] = "dead", ![t] = "running"]
      /\ current' = t /\ esp0' = kstack_top[t]
  BY <1>1, <1>4 DEF SwitchTo, TaskInv, TypeOK
<1>8. TypeOK'
  BY <1>2, <1>6, <1>7 DEF TaskInv, TypeOK, State
<1>9. Created' = Created
  BY <1>6, <1>7 DEF TaskInv, TypeOK, OnlyCurrentRuns, Created
<1>10. RingIntact'
  BY <1>2, <1>9 DEF TaskInv, RingIntact
<1>11. OnlyCurrentRuns' /\ TssFollowsCurrent' /\ KernelAlive'
  BY <1>2, <1>4, <1>6, <1>7 DEF TaskInv, TypeOK, OnlyCurrentRuns, TssFollowsCurrent,
     KernelAlive
<1>12. QED
  BY <1>8, <1>10, <1>11 DEF TaskInv

\* task_create: a set closed under the new next, without the new task, is
\* closed under the old one.
LEMMA CreateInv == ASSUME NEW t \in Task PROVE TaskInv /\ TaskCreate(t) => TaskInv'
<1> SUFFICES ASSUME TaskInv, TaskCreate(t) PROVE TaskInv'
  OBVIOUS
<1> USE TaskAssumption
<1>1. /\ state[t] = "none" /\ t # Kernel /\ t \notin Created
      /\ Kernel \in Created /\ Kernel \in Task
  BY DEF TaskInv, KernelAlive, TaskCreate, Created
<1>2. Created' = Created \cup {t}
  BY DEF TaskInv, TypeOK, TaskCreate, Created
<1>3. TypeOK'
  BY DEF TaskInv, TypeOK, TaskCreate, State
<1>4. /\ next'[t] = next[Kernel] /\ next'[Kernel] = t
      /\ \A u \in Task : u # t /\ u # Kernel => next'[u] = next[u]
  BY <1>1 DEF TaskInv, TypeOK, TaskCreate
<1>5. \A u \in Created' : next'[u] \in Created'
  BY <1>1, <1>2, <1>4 DEF TaskInv, RingIntact, Created
<1>6. ASSUME NEW S \in SUBSET Created', S # {}, \A u \in S : next'[u] \in S
      PROVE  S = Created'
  <2> DEFINE R == S \ {t}
  <2>1. R \in SUBSET Created
    BY <1>2
  <2>2. R # {}
    <3>1. CASE t \in S
      BY <3>1, <1>1, <1>4, <1>6 DEF TaskInv, RingIntact
    <3>2. CASE t \notin S
      BY <3>2, <1>6
    <3>3. QED
      BY <3>1, <3>2
  <2>3. ASSUME NEW u \in R PROVE next[u] \in R
    <3>1. u \in Created /\ u \in Task /\ next[u] \in Created
      BY <2>1 DEF TaskInv, RingIntact, Created
    <3>2. CASE u = Kernel
      BY <3>1, <3>2, <1>1, <1>4, <1>6
    <3>3. CASE u # Kernel
      BY <3>1, <3>3, <1>1, <1>4, <1>6
    <3>4. QED
      BY <3>2, <3>3
  <2>4. R = Created
    BY <2>1, <2>2, <2>3 DEF TaskInv, RingIntact
  <2>5. t \in S
    BY <2>4, <1>1, <1>4, <1>6
  <2>6. QED
    BY <2>4, <2>5, <1>2
<1>7. RingIntact'
  BY <1>5, <1>6 DEF RingIntact
<1>8. OnlyCurrentRuns' /\ TssFollowsCurrent' /\ KernelAlive'
  BY <1>1 DEF TaskInv, TypeOK, OnlyCurrentRuns, TssFollowsCurrent, KernelAlive, TaskCreate
<1>9. QED
  BY <1>3, <1>7, <1>8 DEF TaskInv

\* Every step of the scheduler keeps it.
LEMMA NextInv == TaskInv /\ [Next]_taskVars => TaskInv'
<1> SUFFICES ASSUME TaskInv, [Next]_taskVars PROVE TaskInv'
  OBVIOUS
<1>1. CASE Tick
  BY <1>1, TickInv
<1>2. ASSUME NEW t \in Task, TaskCreate(t) PROVE TaskInv'
  BY <1>2, CreateInv
<1>3. CASE TaskExit
  BY <1>3, ExitInv
<1>4. CASE UNCHANGED taskVars
  BY <1>4 DEF taskVars, TaskInv, TypeOK, RingIntact, OnlyCurrentRuns,
     TssFollowsCurrent, KernelAlive, Created
<1>5. QED
  BY <1>1, <1>2, <1>3, <1>4 DEF Next

\* The inductive invariant holds in every state of the scheduler.
THEOREM TaskInvariant == Spec => []TaskInv
BY InitInv, NextInv, PTL DEF Spec

\* Every field keeps its type, and every task but the kernel's its own trap stack.
THEOREM TasksTypeCorrect == Spec => []TypeOK
<1>1. TaskInv => TypeOK
  BY DEF TaskInv
<1>2. QED
  BY <1>1, TaskInvariant, PTL

\* The task list stays one cycle through every task, whoever is spawned or dies.
THEOREM RingStaysIntact == Spec => []RingIntact
<1>1. TaskInv => RingIntact
  BY DEF TaskInv
<1>2. QED
  BY <1>1, TaskInvariant, PTL

\* Exactly the current task is in state running; task_exit never comes back.
THEOREM CurrentAloneRuns == Spec => []OnlyCurrentRuns
<1>1. TaskInv => OnlyCurrentRuns
  BY DEF TaskInv
<1>2. QED
  BY <1>1, TaskInvariant, PTL

\* TSS.esp0 is the current task's trap stack.
THEOREM TssCorrect == Spec => []TssFollowsCurrent
<1>1. TaskInv => TssFollowsCurrent
  BY DEF TaskInv
<1>2. QED
  BY <1>1, TaskInvariant, PTL

\* No step of the scheduler changes the state of a dead task.
THEOREM DeadForever == Spec => DeadStaysDead
<1> DEFINE Step == \A t \in Task : state[t] = "dead" => state'[t] = "dead"
<1>1. TaskInv /\ [Next]_taskVars => [Step]_taskVars
  <2> SUFFICES ASSUME TaskInv, Next, NEW t \in Task, state[t] = "dead"
               PROVE  state'[t] = "dead"
    BY DEF taskVars
  <2> USE TaskAssumption
  <2>1. CASE Tick
    <3>1. PICK u \in Created :
            /\ ScanStopsAt(state, u)
            /\ (u = current /\ state' = state) \/ (u # current /\ SwitchTo(state, u))
      BY <2>1 DEF Tick, Schedule
    <3>2. u # current => u # t
      BY <3>1, ScanStops
    <3>3. QED
      BY <3>1, <3>2 DEF SwitchTo, TaskInv, TypeOK, OnlyCurrentRuns
  <2>2. ASSUME NEW u \in Task, TaskCreate(u) PROVE state'[t] = "dead"
    BY <2>2 DEF TaskCreate, TaskInv, TypeOK
  <2>3. CASE TaskExit
    <3> DEFINE st == [state EXCEPT ![current] = "dead"]
    <3>1. PICK u \in Created :
            /\ ScanStopsAt(st, u)
            /\ (u = current /\ state' = st) \/ (u # current /\ SwitchTo(st, u))
      BY <2>3 DEF TaskExit, Schedule
    <3>2. u # current => st[u] # "dead"
      <4> HIDE DEF st
      <4> QED
        BY <3>1, ScanStops
    <3>3. u # current => u # t
      BY <3>2 DEF TaskInv, TypeOK, OnlyCurrentRuns
    <3>4. QED
      BY <3>1, <3>3 DEF SwitchTo, TaskInv, TypeOK, OnlyCurrentRuns
  <2>4. QED
    BY <2>1, <2>2, <2>3 DEF Next
<1>2. QED
  BY <1>1, TaskInvariant, PTL DEF Spec, DeadStaysDead
=============================================================================
