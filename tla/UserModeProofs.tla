--------------------------- MODULE UserModeProofs ---------------------------
(* The safety properties of module UserMode, for any number of tasks.       *)
EXTENDS UserMode, TasksProofs, SequenceTheorems

Own(t) == stk["own"][t]
Trap(t) == stk["trap"][t]

\* The stacks of a task that is not running and that schedule() may pick.
Waits(own, trap) ==
  \/ own \in {<<"new">>, <<"tick0">>} /\ trap = <<>>
  \/ own = <<"exec">> /\ trap \in {<<"tick3">>, <<"sys">>, <<"tick0", "sys">>}

\* The stacks of the current task, by the ring it executes in.
Executes(own, trap, r) ==
  \/ own = <<>> /\ trap = <<>> /\ r = 0
  \/ own = <<"exec">> /\ trap = <<>> /\ r = 3
  \/ own = <<"exec">> /\ trap = <<"sys">> /\ r = 0

StackType == stk \in [{"own", "trap"} -> [Task -> Seq(Frame)]]

\* What is live on every stack follows from the state of its task.
Shape ==
  /\ \A t \in Task :
       /\ state[t] \in {"none", "dead"} => Own(t) = <<>> /\ Trap(t) = <<>>
       /\ state[t] = "ready" => Waits(Own(t), Trap(t))
  /\ Executes(Own(current), Trap(current), ring)

\* The one program is where g_kreturn_esp says, on a task with a trap stack.
Home ==
  /\ \A t \in Task : Own(t) = <<"exec">> =>
       user_running /\ kreturn = <<"own", t>> /\ kstack_top[t] = t
  /\ user_running => \E t \in Task : Own(t) = <<"exec">>

Flags ==
  /\ ring \in {0, 3}
  /\ intr \in BOOLEAN
  /\ user_running \in BOOLEAN
  /\ kreturn \in {"own", "trap"} \X Task
  /\ halted \in BOOLEAN

\* The inductive invariant.
UserInv == TaskInv /\ StackType /\ Shape /\ Home /\ Flags

-----------------------------------------------------------------------------
(* The scheduler underneath.                                                *)

\* schedule() keeps the current task, or switches to a ready one.
LEMMA TickMoves ==
  ASSUME TaskInv, Tick
  PROVE  \/ UNCHANGED taskVars
         \/ \E t \in Task :
              /\ t # current /\ state[t] = "ready" /\ current' = t
              /\ state' = [state EXCEPT ![current] = "ready", ![t] = "running"]
              /\ UNCHANGED <<next, kstack_top>>
<1> USE TaskAssumption
<1>1. PICK t \in Created :
        /\ ScanStopsAt(state, t)
        /\ \/ t = current /\ state' = state /\ UNCHANGED <<current, esp0>>
           \/ t # current /\ SwitchTo(state, t)
  BY DEF Tick, Schedule
<1>2. CASE t = current
  BY <1>1, <1>2 DEF Tick, SwitchTo, taskVars
<1>3. CASE t # current
  <2>1. t \in Task /\ state[t] = "ready"
    BY <1>1, <1>3, ScanStops DEF Created, TaskInv, TypeOK, State, OnlyCurrentRuns
  <2>2. QED
    BY <2>1, <1>1, <1>3 DEF Tick, SwitchTo, TaskInv, OnlyCurrentRuns, TypeOK
<1>4. QED
  BY <1>2, <1>3

\* task_exit switches to a ready task.
LEMMA ExitMoves ==
  ASSUME TaskInv, TaskExit
  PROVE  \E t \in Task :
           /\ t # current /\ state[t] = "ready" /\ current' = t
           /\ state' = [state EXCEPT ![current] = "dead", ![t] = "running"]
           /\ UNCHANGED <<next, kstack_top>>
<1> USE TaskAssumption
<1> DEFINE st == [state EXCEPT ![current] = "dead"]
<1>1. PICK t \in Created :
        /\ ScanStopsAt(st, t)
        /\ \/ t = current /\ state' = st /\ UNCHANGED <<current, esp0>>
           \/ t # current /\ SwitchTo(st, t)
  BY DEF TaskExit, Schedule
<1>2. t # current /\ st[t] # "dead"
  <2>1. st[Kernel] # "dead" /\ current # Kernel
    BY DEF TaskExit, TaskInv, TypeOK, KernelAlive
  <2> HIDE DEF st
  <2>2. t # current
    BY <1>1, <2>1, ScanLeaves
  <2>3. QED
    BY <1>1, <2>2, ScanStops
<1>3. t \in Task /\ state[t] = "ready"
  BY <1>1, <1>2 DEF Created, TaskInv, TypeOK, State, OnlyCurrentRuns
<1>4. QED
  BY <1>1, <1>2, <1>3 DEF TaskExit, SwitchTo, TaskInv, TypeOK

\* Every step of the CPU is a step of the scheduler, or none.
LEMMA StepOfTasks ==
  ASSUME TaskInv, [UNext]_vars
  PROVE  [Next]_taskVars
BY DEF UNext, Next, vars, taskVars, TaskInv, TssFollowsCurrent, Timer, Spawn, ExecUser,
   TrapTop, Fault, SysYield, SysReturn, SysExit, Bootstrap, EntryReturns
-----------------------------------------------------------------------------
(* Stacks.  s is the state of the stacks inside a handler.                  *)

SType(s) == s \in [{"own", "trap"} -> [Task -> Seq(Frame)]]

SameBut(s, u, t) ==
  \A v \in Task : v # t => s["own"][v] = u["own"][v] /\ s["trap"][v] = u["trap"][v]

\* A frame on top of another.
LEMMA Pair == ASSUME NEW c, NEW d PROVE <<c>> \o <<d>> = <<c, d>>
<1> DEFINE S == {c, d}
           u == <<c>> \o <<d>>
<1>1. <<c>> \in Seq(S) /\ <<d>> \in Seq(S) /\ <<c, d>> \in Seq(S)
  OBVIOUS
<1>2. /\ u \in Seq(S) /\ Len(u) = 1 + 1
      /\ \A i \in 1..(1 + 1) : u[i] = IF i <= 1 THEN <<c>>[i] ELSE <<d>>[i - 1]
  BY <1>1, ConcatProperties
<1>3. Len(u) = 2 /\ u[1] = c /\ u[2] = d
  BY <1>2
<1> HIDE DEF u
<1>4. \A i \in 1..Len(u) : u[i] = <<c, d>>[i]
  BY <1>3
<1>5. QED
  BY <1>1, <1>2, <1>3, <1>4, SeqEqual DEF u

\* Stacks that hold other frames are different.
LEMMA Distinct ==
  /\ <<"tick0">> # <<"exec">> /\ <<"new">> # <<"exec">> /\ <<>> # <<"exec">>
  /\ <<"new">> # <<>> /\ <<"tick0">> # <<>> /\ <<"tick3">> # <<>> /\ <<"sys">> # <<>>
  /\ <<"tick0", "sys">> # <<>>
OBVIOUS

\* One stack is replaced.
Put(s, a, t, x) == [s EXCEPT ![a][t] = x]

\* Replacing a task's own stack leaves the other stacks alone.
LEMMA PutOwn ==
  ASSUME NEW s, SType(s), NEW t \in Task, NEW x \in Seq(Frame)
  PROVE  /\ SType(Put(s, "own", t, x)) /\ SameBut(Put(s, "own", t, x), s, t)
         /\ Put(s, "own", t, x)["own"][t] = x
         /\ Put(s, "own", t, x)["trap"][t] = s["trap"][t]
BY DEF SType, SameBut, Put

\* Replacing its trap stack does too.
LEMMA PutTrap ==
  ASSUME NEW s, SType(s), NEW t \in Task, NEW x \in Seq(Frame)
  PROVE  /\ SType(Put(s, "trap", t, x)) /\ SameBut(Put(s, "trap", t, x), s, t)
         /\ Put(s, "trap", t, x)["trap"][t] = x
         /\ Put(s, "trap", t, x)["own"][t] = s["own"][t]
BY DEF SType, SameBut, Put

\* The CPU enters a handler that may switch tasks: the current task's stacks
\* are now those of a task that waits, and nobody else's changed.
LEMMA Suspend ==
  ASSUME UserInv, NEW f,
         \/ ring = 3 /\ f \in {"tick3", "sys"}
         \/ ring = 0 /\ f = "tick0"
  PROVE  /\ SType(Entered(f))
         /\ SameBut(Entered(f), stk, current)
         /\ Waits(Entered(f)["own"][current], Entered(f)["trap"][current])
         /\ Entered(f)["own"][current] = <<"exec">> <=> Own(current) = <<"exec">>
<1>1. current \in Task /\ SType(stk)
  BY DEF UserInv, TaskInv, TypeOK, StackType, SType
<1>2. CASE ring = 3
  <2>1. Own(current) = <<"exec">> /\ Trap(current) = <<>>
    BY <1>2 DEF UserInv, Shape, Executes
  <2>2. esp0 = current
    BY <1>1, <2>1 DEF UserInv, Home, TaskInv, TssFollowsCurrent
  <2>3. <<f>> \in Seq(Frame)
    BY <1>2 DEF Frame
  <2>4. Entered(f) = Put(stk, "trap", current, <<f>>)
    BY <1>2, <2>2 DEF Entered, Put
  <2>5. /\ SType(Entered(f)) /\ SameBut(Entered(f), stk, current)
        /\ Entered(f)["own"][current] = <<"exec">> /\ Entered(f)["trap"][current] = <<f>>
    <3>1. stk["own"][current] = <<"exec">>
      BY <2>1 DEF Own
    <3>2. /\ SType(Put(stk, "trap", current, <<f>>))
          /\ SameBut(Put(stk, "trap", current, <<f>>), stk, current)
          /\ Put(stk, "trap", current, <<f>>)["trap"][current] = <<f>>
          /\ Put(stk, "trap", current, <<f>>)["own"][current] = stk["own"][current]
      BY <1>1, <2>3, PutTrap
    <3> QED
      BY <2>4, <3>1, <3>2
  <2>6. f \in {"tick3", "sys"}
    BY <1>2
  <2>7. QED
    BY <2>1, <2>5, <2>6, Distinct DEF Waits
<1>3. CASE ring = 0
  <2>1. f = "tick0" /\ <<"tick0">> \in Seq(Frame) /\ <<"tick0", "sys">> \in Seq(Frame)
    BY <1>3 DEF Frame
  <2>2. Entered(f) = Put(stk, Area(stk, current), current, <<f>> \o stk[Area(stk, current)][current])
    BY <1>3 DEF Entered, Put
  <2>3. CASE Own(current) = <<>> /\ Trap(current) = <<>>
    <3>1. Area(stk, current) = "own" /\ stk["own"][current] = <<>>
      BY <2>3 DEF Own, Trap, Area
    <3>2. <<f>> \o <<>> = <<"tick0">>
      BY <2>1
    <3>3. Entered(f) = Put(stk, "own", current, <<"tick0">>)
      BY <2>2, <3>1, <3>2, Zenon
    <3>4. /\ SType(Entered(f)) /\ SameBut(Entered(f), stk, current)
          /\ Entered(f)["own"][current] = <<"tick0">> /\ Entered(f)["trap"][current] = <<>>
      <4>1. stk["trap"][current] = <<>>
        BY <2>3 DEF Trap
      <4>2. /\ SType(Put(stk, "own", current, <<"tick0">>))
            /\ SameBut(Put(stk, "own", current, <<"tick0">>), stk, current)
            /\ Put(stk, "own", current, <<"tick0">>)["own"][current] = <<"tick0">>
            /\ Put(stk, "own", current, <<"tick0">>)["trap"][current] = stk["trap"][current]
        BY <1>1, <2>1, PutOwn
      <4> QED
        BY <3>3, <4>1, <4>2
    <3>5. QED
      BY <2>3, <3>4, Distinct DEF Waits
  <2>4. CASE Own(current) = <<"exec">> /\ Trap(current) = <<"sys">>
    <3>1. Area(stk, current) = "trap" /\ stk["trap"][current] = <<"sys">>
      BY <2>4 DEF Own, Trap, Area
    <3>2. <<f>> \o <<"sys">> = <<"tick0", "sys">>
      BY <2>1, Pair
    <3>3. Entered(f) = Put(stk, "trap", current, <<"tick0", "sys">>)
      BY <2>2, <3>1, <3>2, Zenon
    <3>4. /\ SType(Entered(f)) /\ SameBut(Entered(f), stk, current)
          /\ Entered(f)["own"][current] = <<"exec">>
          /\ Entered(f)["trap"][current] = <<"tick0", "sys">>
      <4>1. stk["own"][current] = <<"exec">>
        BY <2>4 DEF Own
      <4>2. /\ SType(Put(stk, "trap", current, <<"tick0", "sys">>))
            /\ SameBut(Put(stk, "trap", current, <<"tick0", "sys">>), stk, current)
            /\ Put(stk, "trap", current, <<"tick0", "sys">>)["trap"][current] = <<"tick0", "sys">>
            /\ Put(stk, "trap", current, <<"tick0", "sys">>)["own"][current] = stk["own"][current]
        BY <1>1, <2>1, PutTrap
      <4> QED
        BY <3>3, <4>1, <4>2
    <3>5. QED
      BY <2>4, <3>4, Distinct DEF Waits
  <2>5. QED
    BY <1>3, <2>3, <2>4 DEF UserInv, Shape, Executes
<1>4. QED
  BY <1>2, <1>3

\* The task that becomes current continues on its own stacks.
LEMMA Resume ==
  ASSUME NEW s, SType(s), current' \in Task, Continue(s),
         Waits(s["own"][current'], s["trap"][current'])
  PROVE  /\ StackType'
         /\ SameBut(stk', s, current')
         /\ Executes(Own(current)', Trap(current)', ring')
         /\ Own(current)' = <<"exec">> <=> s["own"][current'] = <<"exec">>
         /\ ring' \in {0, 3} /\ intr' \in BOOLEAN
<1> DEFINE t == current'
<1>1. /\ Head(<<"new">>) = "new" /\ Head(<<"tick0">>) = "tick0"
      /\ Head(<<"tick3">>) = "tick3" /\ Head(<<"sys">>) = "sys"
      /\ Head(<<"tick0", "sys">>) = "tick0"
      /\ Tail(<<"new">>) = <<>> /\ Tail(<<"tick0">>) = <<>> /\ Tail(<<"tick3">>) = <<>>
      /\ Tail(<<"tick0", "sys">>) = <<"sys">>
      /\ <<>> \in Seq(Frame) /\ <<"sys">> \in Seq(Frame)
  BY DEF Frame
<1>2. CASE s["own"][t] \in {<<"new">>, <<"tick0">>} /\ s["trap"][t] = <<>>
  <2>1. stk' = Put(s, "own", t, <<>>) /\ ring' = 0 /\ intr' \in BOOLEAN
    BY <1>1, <1>2 DEF Continue, Area, Put
  <2>2. /\ SType(stk') /\ SameBut(stk', s, t)
        /\ stk'["own"][t] = <<>> /\ stk'["trap"][t] = <<>>
    BY <1>1, <1>2, <2>1, PutOwn
  <2>3. QED
    BY <1>2, <2>1, <2>2, Distinct DEF Executes, StackType, SType, Own, Trap
<1>3. CASE s["own"][t] = <<"exec">> /\ s["trap"][t] = <<"tick3">>
  <2>1. stk' = Put(s, "trap", t, <<>>) /\ ring' = 3 /\ intr' \in BOOLEAN
    BY <1>1, <1>3, Distinct DEF Continue, Area, Put
  <2>2. /\ SType(stk') /\ SameBut(stk', s, t)
        /\ stk'["own"][t] = <<"exec">> /\ stk'["trap"][t] = <<>>
    BY <1>1, <1>3, <2>1, PutTrap
  <2>3. QED
    BY <1>3, <2>1, <2>2 DEF Executes, StackType, SType, Own, Trap
<1>4. CASE s["own"][t] = <<"exec">> /\ s["trap"][t] = <<"sys">>
  <2>1. stk' = s /\ ring' = 0 /\ intr' \in BOOLEAN
    BY <1>1, <1>4 DEF Continue, Area
  <2>2. QED
    BY <1>4, <2>1 DEF Executes, StackType, SType, SameBut, Own, Trap
<1>5. CASE s["own"][t] = <<"exec">> /\ s["trap"][t] = <<"tick0", "sys">>
  <2>1. stk' = Put(s, "trap", t, <<"sys">>) /\ ring' = 0 /\ intr' \in BOOLEAN
    BY <1>1, <1>5, Distinct DEF Continue, Area, Put
  <2>2. /\ SType(stk') /\ SameBut(stk', s, t)
        /\ stk'["own"][t] = <<"exec">> /\ stk'["trap"][t] = <<"sys">>
    BY <1>1, <1>5, <2>1, PutTrap
  <2>3. QED
    BY <1>5, <2>1, <2>2 DEF Executes, StackType, SType, Own, Trap
<1>6. QED
  BY <1>2, <1>3, <1>4, <1>5 DEF Waits
-----------------------------------------------------------------------------
(* Every action preserves the invariant.                                    *)

\* main's state when it enables interrupts satisfies the invariant.
LEMMA UInitInv == UInit => UserInv
<1> SUFFICES ASSUME UInit PROVE UserInv
  OBVIOUS
<1> USE TaskAssumption
<1>1. TaskInv
  BY InitInv DEF UInit
<1>2. <<>> \in Seq(Frame)
  OBVIOUS
<1>3. \A t \in Task : Own(t) = <<>> /\ Trap(t) = <<>>
  BY DEF UInit, Own, Trap
<1>4. StackType /\ Flags
  BY <1>2 DEF UInit, StackType, Flags
<1>5. \A t \in Task : state[t] # "ready"
  BY DEF UInit, Init
<1>6. Shape /\ Home
  BY <1>3, <1>5, Distinct DEF UInit, Init, Shape, Executes, Home
<1>7. QED
  BY <1>1, <1>4, <1>6 DEF UserInv

\* Where the "exec" frames are, and who owns a trap stack, did not change.
LEMMA HomeStays ==
  ASSUME Home, \A v \in Task : Own(v)' = <<"exec">> <=> Own(v) = <<"exec">>,
         UNCHANGED <<user_running, kreturn, kstack_top>>
  PROVE  Home'
BY DEF Home

\* timer_callback, and yield() in a system call.
LEMMA SwitchInv ==
  ASSUME UserInv, Tick, TaskInv', NEW f,
         \/ ring = 3 /\ f \in {"tick3", "sys"}
         \/ ring = 0 /\ f = "tick0",
         Continue(Entered(f)), UNCHANGED <<user_running, kreturn, halted>>
  PROVE  UserInv'
<1> DEFINE s == Entered(f)
<1>1. /\ SType(s) /\ SameBut(s, stk, current)
      /\ Waits(s["own"][current], s["trap"][current])
      /\ s["own"][current] = <<"exec">> <=> Own(current) = <<"exec">>
  BY Suspend
<1>2. current \in Task /\ current' \in Task /\ state \in [Task -> State]
  BY DEF UserInv, TaskInv, TypeOK
<1>3. Continue(s)
  OBVIOUS
<1> HIDE DEF s
<1>4. \/ UNCHANGED taskVars
      \/ \E t \in Task :
           /\ t # current /\ state[t] = "ready" /\ current' = t
           /\ state' = [state EXCEPT ![current] = "ready", ![t] = "running"]
           /\ UNCHANGED <<next, kstack_top>>
  BY TickMoves DEF UserInv
<1>5. UNCHANGED kstack_top
  BY <1>4 DEF taskVars
<1>6. current' # current => state[current'] = "ready"
  BY <1>4 DEF taskVars
<1>7. \A v \in Task : v # current => s["own"][v] = Own(v) /\ s["trap"][v] = Trap(v)
  BY <1>1 DEF SameBut, Own, Trap
<1>8. Waits(s["own"][current'], s["trap"][current'])
  <2>1. CASE current' = current
    BY <1>1, <2>1
  <2>2. CASE current' # current
    <3>1. Waits(Own(current'), Trap(current'))
      BY <1>2, <1>6, <2>2 DEF UserInv, Shape
    <3>2. QED
      BY <1>2, <1>7, <2>2, <3>1
  <2>3. QED
    BY <2>1, <2>2
<1>9. /\ StackType' /\ SameBut(stk', s, current')
      /\ Executes(Own(current)', Trap(current)', ring')
      /\ Own(current)' = <<"exec">> <=> s["own"][current'] = <<"exec">>
      /\ ring' \in {0, 3} /\ intr' \in BOOLEAN
  BY <1>1, <1>2, <1>3, <1>8, Resume
<1>10. \A v \in Task : v # current' => Own(v)' = s["own"][v] /\ Trap(v)' = s["trap"][v]
  BY <1>9 DEF SameBut, Own, Trap
<1>11. Shape'
  <2>1. ASSUME NEW v \in Task, state'[v] \in {"none", "dead"}
        PROVE  Own(v)' = <<>> /\ Trap(v)' = <<>>
    <3>1. v # current' /\ v # current /\ state[v] = state'[v]
      BY <1>2, <1>4, <2>1 DEF taskVars, UserInv, TaskInv, OnlyCurrentRuns
    <3>2. Own(v) = <<>> /\ Trap(v) = <<>>
      BY <2>1, <3>1 DEF UserInv, Shape
    <3>3. QED
      BY <1>7, <1>10, <3>1, <3>2
  <2>2. ASSUME NEW v \in Task, state'[v] = "ready"
        PROVE  Waits(Own(v)', Trap(v)')
    <3>1. v # current' /\ (v # current => state[v] = "ready")
      BY <1>2, <1>4, <2>2 DEF taskVars, UserInv, TaskInv, OnlyCurrentRuns
    <3>2. Own(v)' = s["own"][v] /\ Trap(v)' = s["trap"][v]
      BY <1>10, <3>1
    <3>3. Waits(s["own"][v], s["trap"][v])
      <4>1. CASE v = current
        BY <1>1, <4>1
      <4>2. CASE v # current
        <5>1. Waits(Own(v), Trap(v))
          BY <3>1, <4>2 DEF UserInv, Shape
        <5>2. QED
          BY <1>7, <4>2, <5>1
      <4>3. QED
        BY <4>1, <4>2
    <3>4. QED
      BY <3>2, <3>3
  <2>3. QED
    BY <2>1, <2>2, <1>9 DEF Shape
<1>12. Home'
  <2>1. ASSUME NEW v \in Task PROVE Own(v)' = <<"exec">> <=> Own(v) = <<"exec">>
    <3>1. s["own"][v] = <<"exec">> <=> Own(v) = <<"exec">>
      BY <1>1, <1>7
    <3>2. CASE v = current'
      BY <1>9, <3>1, <3>2 DEF Own
    <3>3. CASE v # current'
      BY <1>10, <3>1, <3>3
    <3>4. QED
      BY <3>2, <3>3
  <2>2. QED
    BY <2>1, <1>5, HomeStays DEF UserInv
<1>13. Flags'
  BY <1>9 DEF UserInv, Flags
<1>14. QED
  BY <1>9, <1>11, <1>12, <1>13 DEF UserInv

\* The entry function of the current task returned.
LEMMA EntryReturnsInv ==
  ASSUME UserInv, EntryReturns, TaskInv'
  PROVE  UserInv'
<1>1. current \in Task /\ current' \in Task /\ state \in [Task -> State]
  BY DEF UserInv, TaskInv, TypeOK
<1>2. PICK t \in Task :
        /\ t # current /\ state[t] = "ready" /\ current' = t
        /\ state' = [state EXCEPT ![current] = "dead", ![t] = "running"]
        /\ UNCHANGED <<next, kstack_top>>
  BY ExitMoves DEF UserInv, EntryReturns
<1>3. Own(current) = <<>> /\ Trap(current) = <<>>
  BY DEF EntryReturns, Own, Trap
<1>4. Waits(Own(t), Trap(t))
  BY <1>2 DEF UserInv, Shape
<1>5. /\ StackType' /\ SameBut(stk', stk, t)
      /\ Executes(Own(current)', Trap(current)', ring')
      /\ Own(current)' = <<"exec">> <=> stk["own"][t] = <<"exec">>
      /\ ring' \in {0, 3} /\ intr' \in BOOLEAN
  <2>1. SType(stk) /\ Continue(stk) /\ Waits(stk["own"][current'], stk["trap"][current'])
    BY <1>2, <1>4 DEF UserInv, StackType, SType, EntryReturns, Own, Trap
  <2>2. QED
    BY <1>1, <1>2, <2>1, Resume
<1>6. \A v \in Task : v # t => Own(v)' = Own(v) /\ Trap(v)' = Trap(v)
  BY <1>5 DEF SameBut, Own, Trap
<1>7. Shape'
  <2>1. ASSUME NEW v \in Task, v # t
        PROVE  /\ state'[v] \in {"none", "dead"} => Own(v)' = <<>> /\ Trap(v)' = <<>>
               /\ state'[v] = "ready" => Waits(Own(v)', Trap(v)')
    <3>1. CASE v = current
      BY <1>1, <1>2, <1>3, <1>6, <2>1, <3>1
    <3>2. CASE v # current
      BY <1>1, <1>2, <1>6, <2>1, <3>2 DEF UserInv, Shape
    <3>3. QED
      BY <3>1, <3>2
  <2>2. state'[t] = "running"
    BY <1>1, <1>2
  <2>3. QED
    BY <1>5, <2>1, <2>2 DEF Shape
<1>8. Home'
  <2>1. ASSUME NEW v \in Task PROVE Own(v)' = <<"exec">> <=> Own(v) = <<"exec">>
    BY <1>2, <1>5, <1>6 DEF Own
  <2>2. QED
    BY <2>1, <1>2, HomeStays DEF UserInv, EntryReturns
<1>9. Flags'
  BY <1>5 DEF UserInv, Flags, EntryReturns
<1>10. QED
  BY <1>5, <1>7, <1>8, <1>9 DEF UserInv

\* task_create from the shell: the new task's stack was nobody's.
LEMMA SpawnInv ==
  ASSUME UserInv, NEW t \in Task, Spawn(t), TaskInv'
  PROVE  UserInv'
<1>1. /\ state[t] = "none" /\ state' = [state EXCEPT ![t] = "ready"]
      /\ UNCHANGED <<current, kstack_top, ring, intr, user_running, kreturn, halted>>
  BY DEF Spawn, TaskCreate
<1>2. current \in Task /\ state \in [Task -> State] /\ t # current
  BY <1>1 DEF UserInv, TaskInv, TypeOK, OnlyCurrentRuns
<1>3. Own(t) = <<>> /\ Trap(t) = <<>>
  BY <1>1 DEF UserInv, Shape
<1>4. /\ SType(stk') /\ SameBut(stk', stk, t)
      /\ stk'["own"][t] = <<"new">> /\ stk'["trap"][t] = stk["trap"][t]
  <2>1. SType(stk) /\ <<"new">> \in Seq(Frame) /\ stk' = Put(stk, "own", t, <<"new">>)
    BY DEF UserInv, StackType, SType, Spawn, Put, Frame
  <2>2. QED
    BY <2>1, PutOwn
<1>5. \A v \in Task : v # t => Own(v)' = Own(v) /\ Trap(v)' = Trap(v)
  BY <1>4 DEF SameBut, Own, Trap
<1>6. Own(t)' = <<"new">> /\ Trap(t)' = <<>>
  BY <1>3, <1>4 DEF Own, Trap
<1>7. Shape'
  <2>1. ASSUME NEW v \in Task
        PROVE  /\ state'[v] \in {"none", "dead"} => Own(v)' = <<>> /\ Trap(v)' = <<>>
               /\ state'[v] = "ready" => Waits(Own(v)', Trap(v)')
    <3>1. CASE v = t
      BY <1>1, <1>2, <1>6, <3>1 DEF Waits
    <3>2. CASE v # t
      BY <1>1, <1>2, <1>5, <3>2 DEF UserInv, Shape
    <3>3. QED
      BY <3>1, <3>2
  <2>2. Executes(Own(current)', Trap(current)', ring')
    <3>1. Own(current)' = Own(current) /\ Trap(current)' = Trap(current)
      BY <1>1, <1>2, <1>5 DEF Own, Trap
    <3>2. QED
      BY <1>1, <3>1 DEF UserInv, Shape
  <2>3. QED
    BY <2>1, <2>2 DEF Shape
<1>8. Home'
  <2>1. ASSUME NEW v \in Task PROVE Own(v)' = <<"exec">> <=> Own(v) = <<"exec">>
    BY <1>3, <1>5, <1>6, Distinct
  <2>2. QED
    BY <2>1, <1>1, HomeStays DEF UserInv
<1>9. QED
  BY <1>1, <1>4, <1>7, <1>8 DEF UserInv, Flags, StackType, SType

\* A step that only changes the stacks of the current task, which executes on.
LEMMA CurrentInv ==
  ASSUME UserInv, TaskInv', UNCHANGED <<state, current, kstack_top>>,
         SType(stk'), SameBut(stk', stk, current),
         Executes(Own(current)', Trap(current)', ring'), Home', Flags'
  PROVE  UserInv'
<1>1. \A v \in Task : v # current => Own(v)' = Own(v) /\ Trap(v)' = Trap(v)
  BY DEF SameBut, Own, Trap
<1>2. state[current] = "running"
  BY DEF UserInv, TaskInv, TypeOK, OnlyCurrentRuns
<1>3. Shape'
  <2>1. ASSUME NEW v \in Task
        PROVE  /\ state'[v] \in {"none", "dead"} => Own(v)' = <<>> /\ Trap(v)' = <<>>
               /\ state'[v] = "ready" => Waits(Own(v)', Trap(v)')
    <3>1. CASE v = current
      BY <1>2, <3>1
    <3>2. CASE v # current
      BY <1>1, <3>2 DEF UserInv, Shape
    <3>3. QED
      BY <3>1, <3>2
  <2>2. QED
    BY <2>1 DEF Shape
<1>4. QED
  BY <1>3 DEF UserInv, StackType, SType

\* exec_user: nothing else runs in ring 3, so the task is in its own code.
LEMMA ExecUserInv ==
  ASSUME UserInv, ExecUser, TaskInv'
  PROVE  UserInv'
<1> USE TaskAssumption
<1>1. /\ current \in Task /\ current' = current /\ SType(stk)
      /\ UNCHANGED <<state, kstack_top, intr, halted>> /\ user_running' = TRUE
      /\ stk' = Entered("exec") /\ kreturn' = <<Area(stk, current), current>> /\ ring' = 3
  BY DEF UserInv, TaskInv, TypeOK, StackType, SType, ExecUser, EnterUser
<1>2. kstack_top[current] = current
  BY <1>1 DEF UserInv, TaskInv, TypeOK, ExecUser, MayExec
<1>3. \A v \in Task : Own(v) # <<"exec">>
  BY DEF UserInv, Home, ExecUser, MayExec
<1>4. Own(current) = <<>> /\ Trap(current) = <<>> /\ ring = 0
  BY <1>1, <1>3 DEF UserInv, Shape, Executes
<1>5. stk["own"][current] = <<>> /\ stk["trap"][current] = <<>> /\ Area(stk, current) = "own"
  BY <1>4 DEF Own, Trap, Area
<1>6. stk' = Put(stk, "own", current, <<"exec">>) /\ <<"exec">> \in Seq(Frame)
  <2>1. <<"exec">> \o <<>> = <<"exec">> /\ <<"exec">> \in Seq(Frame)
    BY DEF Frame
  <2>2. Entered("exec") = Put(stk, Area(stk, current), current, <<"exec">> \o stk[Area(stk, current)][current])
    BY <1>4 DEF Entered, Put
  <2>3. Entered("exec") = Put(stk, "own", current, <<"exec">>)
    BY <2>1, <2>2, <1>5, Zenon
  <2>4. QED
    BY <1>1, <2>1, <2>3
<1>7. /\ SType(stk') /\ SameBut(stk', stk, current)
      /\ stk'["own"][current] = <<"exec">> /\ stk'["trap"][current] = <<>>
  <2>1. /\ SType(Put(stk, "own", current, <<"exec">>))
        /\ SameBut(Put(stk, "own", current, <<"exec">>), stk, current)
        /\ Put(stk, "own", current, <<"exec">>)["own"][current] = <<"exec">>
        /\ Put(stk, "own", current, <<"exec">>)["trap"][current] = stk["trap"][current]
    BY <1>1, <1>6, PutOwn
  <2>2. QED
    BY <1>5, <1>6, <2>1
<1>8. Executes(Own(current)', Trap(current)', ring')
  BY <1>1, <1>7 DEF Executes, Own, Trap
<1>9. Home'
  <2>1. \A v \in Task : v # current => Own(v)' = Own(v)
    BY <1>7 DEF SameBut, Own
  <2>2. \A v \in Task : Own(v)' = <<"exec">> => v = current
    BY <1>3, <2>1
  <2>3. Own(current)' = <<"exec">> /\ kreturn' = <<"own", current>>
    BY <1>1, <1>5, <1>7 DEF Own
  <2>4. QED
    BY <1>1, <1>2, <2>2, <2>3 DEF Home, Own
<1>10. Flags'
  BY <1>1, <1>5 DEF UserInv, Flags
<1>11. QED
  BY <1>1, <1>7, <1>8, <1>9, <1>10, CurrentInv

\* The end of a system call.
LEMMA SysReturnInv ==
  ASSUME UserInv, SysReturn, TaskInv'
  PROVE  UserInv'
<1>1. /\ current \in Task /\ current' = current /\ SType(stk)
      /\ UNCHANGED <<state, kstack_top, user_running, kreturn, intr, halted>> /\ ring' = 3
  BY DEF UserInv, TaskInv, TypeOK, StackType, SType, SysReturn, taskVars
<1>2. Own(current) = <<"exec">> /\ Trap(current) = <<"sys">>
  BY DEF UserInv, Shape, Executes, SysReturn, Trap
<1>3. stk["own"][current] = <<"exec">> /\ stk["trap"][current] = <<"sys">>
  BY <1>2 DEF Own, Trap
<1>4. stk' = Put(stk, "trap", current, <<>>) /\ <<>> \in Seq(Frame)
  <2>1. Tail(<<"sys">>) = <<>> /\ <<>> \in Seq(Frame)
    OBVIOUS
  <2>2. stk' = Put(stk, "trap", current, Tail(stk["trap"][current]))
    BY DEF SysReturn, Put
  <2>3. QED
    BY <2>1, <2>2, <1>3
<1>5. /\ SType(stk') /\ SameBut(stk', stk, current)
      /\ stk'["trap"][current] = <<>> /\ stk'["own"][current] = <<"exec">>
  BY <1>1, <1>3, <1>4, PutTrap
<1>6. Executes(Own(current)', Trap(current)', ring')
  BY <1>1, <1>5 DEF Executes, Own, Trap
<1>7. Home'
  <2>1. \A v \in Task : Own(v)' = <<"exec">> <=> Own(v) = <<"exec">>
    BY <1>2, <1>5 DEF SameBut, Own
  <2>2. QED
    BY <1>1, <2>1, HomeStays DEF UserInv
<1>8. QED
  BY <1>1, <1>5, <1>6, <1>7, CurrentInv DEF UserInv, Flags

\* leave_user: the frame it resumes is the newest of the current task's own stack.
LEMMA SysExitInv ==
  ASSUME UserInv, SysExit, TaskInv'
  PROVE  UserInv'
<1>1. /\ current \in Task /\ current' = current /\ SType(stk) /\ ring = 3
      /\ UNCHANGED <<state, kstack_top, kreturn, intr, halted>> /\ ring' = 0
      /\ user_running' = FALSE
  BY DEF UserInv, TaskInv, TypeOK, StackType, SType, SysExit, LeaveUser, taskVars
<1>2. Own(current) = <<"exec">> /\ Trap(current) = <<>>
  BY <1>1 DEF UserInv, Shape, Executes
<1>3. kreturn = <<"own", current>> /\ esp0 = current
  BY <1>1, <1>2 DEF UserInv, Home, TaskInv, TssFollowsCurrent
<1>4. stk["own"][current] = <<"exec">> /\ stk["trap"][current] = <<>>
  BY <1>2 DEF Own, Trap
<1>5. /\ SType(stk') /\ SameBut(stk', stk, current)
      /\ stk'["own"][current] = <<>> /\ stk'["trap"][current] = <<>>
  <2>1. Tail(<<"exec">>) = <<>> /\ <<>> \in Seq(Frame)
    OBVIOUS
  <2> DEFINE s == Put(stk, "trap", current, <<>>)
  <2>2. /\ SType(s) /\ SameBut(s, stk, current)
        /\ s["trap"][current] = <<>> /\ s["own"][current] = stk["own"][current]
    BY <1>1, <2>1, PutTrap
  <2>3. stk' = Put(s, "own", current, Tail(s["own"][current]))
    <3>1. stk' = [stk EXCEPT !["trap"][current] = <<>>, !["own"][current] = Tail(@)]
      BY <1>3 DEF SysExit, LeaveUser
    <3>2. QED
      BY <3>1 DEF Put
  <2> HIDE DEF s
  <2>4. stk' = Put(s, "own", current, <<>>)
    BY <1>4, <2>1, <2>2, <2>3
  <2>5. /\ SType(stk') /\ SameBut(stk', s, current)
        /\ stk'["own"][current] = <<>> /\ stk'["trap"][current] = <<>>
    BY <1>1, <2>1, <2>2, <2>4, PutOwn
  <2>6. QED
    BY <2>2, <2>5 DEF SameBut
<1>6. Executes(Own(current)', Trap(current)', ring')
  BY <1>1, <1>5 DEF Executes, Own, Trap
<1>7. Home'
  <2>1. \A v \in Task : v # current => Own(v)' = Own(v) /\ Own(v) # <<"exec">>
    BY <1>3, <1>5 DEF SameBut, Own, UserInv, Home
  <2>2. \A v \in Task : Own(v)' # <<"exec">>
    BY <1>1, <1>5, <2>1, Distinct DEF Own
  <2>3. QED
    BY <1>1, <2>2 DEF Home
<1>8. QED
  BY <1>1, <1>5, <1>6, <1>7, CurrentInv DEF UserInv, Flags

\* The inductive invariant is preserved.
LEMMA UNextInv == UserInv /\ [UNext]_vars => UserInv'
<1> SUFFICES ASSUME UserInv, [UNext]_vars PROVE UserInv'
  OBVIOUS
<1>1. TaskInv'
  BY StepOfTasks, NextInv DEF UserInv
<1>2. ring \in {0, 3}
  BY DEF UserInv, Flags
<1>3. CASE Timer
  BY <1>1, <1>2, <1>3, SwitchInv DEF Timer
<1>4. ASSUME NEW t \in Task, Spawn(t) PROVE UserInv'
  BY <1>1, <1>4, SpawnInv
<1>5. CASE ExecUser
  BY <1>1, <1>5, ExecUserInv
<1>6. CASE Fault
  BY <1>1, <1>6 DEF Fault, UserInv, StackType, Shape, Home, Flags, Own, Trap, taskVars
<1>7. CASE SysYield
  BY <1>1, <1>7, SwitchInv DEF SysYield
<1>8. CASE SysReturn
  BY <1>1, <1>8, SysReturnInv
<1>9. CASE SysExit
  BY <1>1, <1>9, SysExitInv
<1>10. CASE Bootstrap
  BY <1>1, <1>10 DEF Bootstrap, UserInv, StackType, Shape, Home, Flags, Own, Trap, taskVars
<1>11. CASE EntryReturns
  BY <1>1, <1>11, EntryReturnsInv
<1>12. CASE UNCHANGED vars
  BY <1>1, <1>12 DEF vars, cpuVars, taskVars, UserInv, StackType, Shape, Home, Flags, Own, Trap
<1>13. QED
  BY <1>3, <1>4, <1>5, <1>6, <1>7, <1>8, <1>9, <1>10, <1>11, <1>12 DEF UNext

\* The stacks have their shape, and g_user_running and g_kreturn_esp agree with them, at every moment.
THEOREM UserInvariant == USpec => []UserInv
BY UInitInv, UNextInv, PTL DEF USpec

-----------------------------------------------------------------------------
(* What follows from the invariant.                                         *)

\* Frames do not pile up on any stack, however ticks, system calls, shell
\* commands and program starts and exits follow each other.
THEOREM StacksBounded == USpec => []UTypeOK
<1>1. UserInv => UTypeOK
  <2> SUFFICES ASSUME UserInv PROVE UTypeOK
    OBVIOUS
  <2>1. ASSUME NEW t \in Task PROVE Len(Own(t)) <= 1 /\ Len(Trap(t)) <= 2
    <3>1. state[t] \in {"none", "dead"} \/ state[t] = "ready" \/ t = current
      BY <2>1 DEF UserInv, TaskInv, TypeOK, State, OnlyCurrentRuns
    <3>2. \/ Own(t) = <<>> /\ Trap(t) = <<>>
          \/ Waits(Own(t), Trap(t))
          \/ Executes(Own(t), Trap(t), ring)
      BY <2>1, <3>1 DEF UserInv, Shape
    <3>3. /\ Own(t) \in {<<>>, <<"new">>, <<"tick0">>, <<"exec">>}
          /\ Trap(t) \in {<<>>, <<"tick3">>, <<"sys">>, <<"tick0", "sys">>}
      BY <3>2, Zenon DEF Waits, Executes
    <3>4. /\ Len(<<>>) = 0 /\ Len(<<"new">>) = 1 /\ Len(<<"tick0">>) = 1 /\ Len(<<"exec">>) = 1
          /\ Len(<<"tick3">>) = 1 /\ Len(<<"sys">>) = 1 /\ Len(<<"tick0", "sys">>) = 2
      OBVIOUS
    <3>5. Len(Own(t)) \in {0, 1} /\ Len(Trap(t)) \in {0, 1, 2}
      BY <3>3, <3>4, Zenon
    <3>6. (\A m \in {0, 1} : m <= 1) /\ (\A m \in {0, 1, 2} : m <= 2)
      OBVIOUS
    <3>7. QED
      BY <3>5, <3>6, Zenon
  <2>2. QED
    BY <2>1 DEF UserInv, TaskInv, StackType, Flags, UTypeOK, Own, Trap
<1>2. QED
  BY <1>1, UserInvariant, PTL

\* A trap from ring 3 lands on the current task's own, empty trap stack.
THEOREM TrapsLandSafely == USpec => []TrapStackFree
<1>1. UserInv => TrapStackFree
  <2> SUFFICES ASSUME UserInv, ring = 3 PROVE esp0 = current /\ Trap(current) = <<>>
    BY DEF TrapStackFree, Trap
  <2>1. current \in Task /\ Own(current) = <<"exec">> /\ Trap(current) = <<>>
    BY DEF UserInv, TaskInv, TypeOK, Shape, Executes
  <2>2. QED
    BY <2>1 DEF UserInv, Home, TaskInv, TssFollowsCurrent
<1>2. QED
  BY <1>1, UserInvariant, PTL

\* SYS_EXIT resumes the exec_user of the task that executes.
THEOREM ExitsResumeTheirExec == USpec => []ExitReturnsHome
<1>1. UserInv => ExitReturnsHome
  <2> SUFFICES ASSUME UserInv, ring = 3
               PROVE  /\ kreturn = <<"own", current>>
                      /\ Own(current) # <<>> /\ Head(Own(current)) = "exec"
    BY DEF ExitReturnsHome, Own
  <2>1. current \in Task /\ Own(current) = <<"exec">>
    BY DEF UserInv, TaskInv, TypeOK, Shape, Executes
  <2>2. Head(<<"exec">>) = "exec"
    OBVIOUS
  <2>3. QED
    BY <2>1, <2>2, Distinct DEF UserInv, Home
<1>2. QED
  BY <1>1, UserInvariant, PTL

\* context_switch always has a frame to return into.
THEOREM ReadyIsResumable == USpec => []Resumable
<1>1. UserInv => Resumable
  <2> SUFFICES ASSUME UserInv, NEW t \in Task, state[t] = "ready"
               PROVE  stk[Area(stk, t)][t] # <<>> /\ Head(stk[Area(stk, t)][t]) # "exec"
    BY DEF Resumable
  <2>1. Waits(stk["own"][t], stk["trap"][t])
    BY DEF UserInv, Shape, Own, Trap
  <2>2. stk[Area(stk, t)][t] \in {<<"new">>, <<"tick0">>, <<"tick3">>, <<"sys">>, <<"tick0", "sys">>}
    BY <2>1, Distinct DEF Waits, Area
  <2>3. QED
    BY <2>2
<1>2. QED
  BY <1>1, UserInvariant, PTL

\* g_user_running is set exactly while one program is live.
THEOREM AtMostOneProgram == USpec => []OneProgram
<1>1. UserInv => OneProgram
  <2> SUFFICES ASSUME UserInv PROVE OneProgram
    OBVIOUS
  <2>1. ASSUME NEW p \in Programs
        PROVE  \E t \in Task : p = <<"own", t, 1>> /\ Own(t) = <<"exec">>
    <3>1. PICK a \in {"own", "trap"}, t \in Task, i \in 1..3 : p = <<a, t, i>>
      BY DEF Programs
    <3>2. i <= Len(stk[a][t]) /\ stk[a][t][i] = "exec"
      BY <3>1 DEF Programs
    <3>3. state[t] \in {"none", "dead"} \/ state[t] = "ready" \/ t = current
      BY DEF UserInv, TaskInv, TypeOK, State, OnlyCurrentRuns
    <3>4. \/ Own(t) = <<>> /\ Trap(t) = <<>>
          \/ Waits(Own(t), Trap(t))
          \/ Executes(Own(t), Trap(t), ring)
      BY <3>3 DEF UserInv, Shape
    <3>5. /\ Own(t) \in {<<>>, <<"new">>, <<"tick0">>, <<"exec">>}
          /\ Trap(t) \in {<<>>, <<"tick3">>, <<"sys">>, <<"tick0", "sys">>}
      BY <3>4, Zenon DEF Waits, Executes
    <3>6. CASE a = "trap"
      <4>1. stk[a][t] \in {<<>>, <<"tick3">>, <<"sys">>, <<"tick0", "sys">>}
        BY <3>5, <3>6 DEF Trap
      <4>2. QED
        BY <3>2, <4>1
    <3>7. CASE a = "own"
      <4>1. stk[a][t] \in {<<>>, <<"new">>, <<"tick0">>, <<"exec">>}
        BY <3>5, <3>7 DEF Own
      <4>2. stk[a][t] = <<"exec">> /\ i = 1
        BY <3>2, <4>1
      <4>3. QED
        BY <3>1, <3>7, <4>2 DEF Own
    <3>8. QED
      BY <3>6, <3>7
  <2>2. ASSUME NEW t \in Task, Own(t) = <<"exec">> PROVE <<"own", t, 1>> \in Programs
    <3>1. stk["own"][t] = <<"exec">>
      BY <2>2 DEF Own
    <3>2. 1 <= Len(stk["own"][t]) /\ stk["own"][t][1] = "exec"
      BY <3>1
    <3>3. QED
      BY <3>2 DEF Programs
  <2>3. user_running <=> Programs # {}
    BY <2>1, <2>2 DEF UserInv, Home
  <2>4. ASSUME NEW p \in Programs, NEW q \in Programs PROVE p = q
    <3>1. PICK t \in Task : p = <<"own", t, 1>> /\ Own(t) = <<"exec">>
      BY <2>1
    <3>2. PICK u \in Task : q = <<"own", u, 1>> /\ Own(u) = <<"exec">>
      BY <2>1
    <3>3. t = u
      BY <3>1, <3>2 DEF UserInv, Home
    <3>4. QED
      BY <3>1, <3>2, <3>3
  <2>5. QED
    BY <2>3, <2>4 DEF OneProgram
<1>2. QED
  BY <1>1, UserInvariant, PTL

\* Every step of the CPU is a step of the scheduler of module Tasks, or leaves
\* it alone; so what TasksProofs proves holds of the whole system.
THEOREM CpuImplementsTasks == USpec => ImplementsTasks
<1>1. UInit => Init
  BY DEF UInit
<1>2. UserInv /\ [UNext]_vars => [Next]_taskVars
  BY StepOfTasks DEF UserInv
<1>3. QED
  BY <1>1, <1>2, UserInvariant, PTL DEF USpec, Spec, ImplementsTasks
=============================================================================
