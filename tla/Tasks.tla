------------------------------- MODULE Tasks -------------------------------
(***************************************************************************)
(* The preemptive scheduler of kernel/task.c: a circular list of task_t,   *)
(* a current task, and schedule(), which the timer interrupt and yield()   *)
(* call with interrupts disabled, so that each action below is atomic.     *)
(*                                                                         *)
(* What a task executes, and on which stack, is the business of module     *)
(* UserMode, which extends this one.                                       *)
(***************************************************************************)
EXTENDS Naturals, FiniteSets

CONSTANTS Task,    \* the task_t records kmalloc can ever hand out
          Kernel,  \* the one tasking_init makes: the boot context, and `head`
          NoStack  \* kstack_top = 0: the ring-0 stack could not be allocated

ASSUME TaskAssumption ==
  /\ Kernel \in Task
  /\ IsFiniteSet(Task)
  /\ NoStack \notin Task

VARIABLES
  state,       \* task_t.state, or "none" for a record not allocated yet
  next,        \* task_t.next (a record not allocated points to itself)
  current,     \* the task running right now
  kstack_top,  \* task_t.kstack_top: a stack is named after its owner
  esp0         \* TSS.esp0, the stack a ring 3 -> ring 0 trap switches to

taskVars == <<state, next, current, kstack_top, esp0>>

State == {"none", "running", "ready", "dead"}

Created == {t \in Task : state[t] # "none"}

\* tasking_init; every kmalloc of boot succeeds but kstack_base is not checked.
Init ==
  /\ state = [t \in Task |-> IF t = Kernel THEN "running" ELSE "none"]
  /\ next = [t \in Task |-> t]
  /\ current = Kernel
  /\ \E top \in {Kernel, NoStack} :
       /\ kstack_top = [t \in Task |-> IF t = Kernel THEN top ELSE t]
       /\ esp0 = top

-----------------------------------------------------------------------------
(* schedule().  Its guard on scheduling_on is constantly true here: it is   *)
(* set by tasking_init, before any caller of schedule() exists.             *)

\* hop is the list of the first n + 1 tasks after c.
Follows(hop, n, c) ==
  /\ hop[0] = next[c]
  /\ \A j \in 1..n : hop[j] = next[hop[j - 1]]

\* The loop of schedule() meets at most all the tasks there are.
LastHop == 0..(Cardinality(Task) - 1)

\* Mutant: the loop starts from head instead of from the current task.
ScanFromHead(st, t) ==
  LET Stop(u) == st[u] # "dead" /\ (u # current \/ \A v \in Created \ {u} : st[v] = "dead")
  IN  \E n \in LastHop : \E hop \in [0..n -> Created] :
        /\ Follows(hop, n, Kernel)
        /\ hop[n] = t
        /\ Stop(t)
        /\ \A j \in 0..(n - 1) : ~Stop(hop[j])

\* t is where the loop of schedule() stops when the task states are st: the
\* first task after the current one that is not dead, or the current one.
ScanStopsAt(st, t) ==
  LET Stop(u) == st[u] # "dead" \/ u = current
  IN  \E n \in LastHop : \E hop \in [0..n -> Created] :
        /\ Follows(hop, n, current)
        /\ hop[n] = t
        /\ Stop(t)
        /\ \A j \in 0..(n - 1) : ~Stop(hop[j])

\* Switch from the current task to t; the context_switch is UserMode's part.
SwitchTo(st, t) ==
  /\ state' = [st EXCEPT ![current] = IF @ = "running" THEN "ready" ELSE @,
                         ![t] = "running"]
  /\ current' = t
  /\ esp0' = kstack_top[t]

\* schedule(), entered with the task states st.
Schedule(st) ==
  \E t \in Created :
    /\ ScanStopsAt(st, t)
    /\ \/ /\ t = current
          /\ state' = st
          /\ UNCHANGED <<current, esp0>>
       \/ /\ t # current
          /\ SwitchTo(st, t)

-----------------------------------------------------------------------------
(* The operations.                                                          *)

\* timer_callback and yield(): hand the CPU to the next task.
Tick ==
  /\ Schedule(state)
  /\ UNCHANGED <<next, kstack_top>>

\* Mutant: the two pointer assignments of the insertion are swapped.
TaskCreateSwapped(t) ==
  /\ state[t] = "none"
  /\ state' = [state EXCEPT ![t] = "ready"]
  /\ next' = [next EXCEPT ![t] = t, ![Kernel] = t]
  /\ UNCHANGED <<current, kstack_top, esp0>>

\* task_create, once its three kmallocs succeeded; when one fails it frees the
\* others and returns before it touches the ring.
TaskCreate(t) ==
  /\ state[t] = "none"
  /\ state' = [state EXCEPT ![t] = "ready"]
  /\ next' = [next EXCEPT ![t] = next[Kernel], ![Kernel] = t]
  /\ UNCHANGED <<current, kstack_top, esp0>>

\* task_exit: the entry function of the current task returned. The kernel task
\* has none: main() ends in a loop.
TaskExit ==
  /\ current # Kernel
  /\ Schedule([state EXCEPT ![current] = "dead"])
  /\ UNCHANGED <<next, kstack_top>>

Next ==
  \/ Tick
  \/ \E t \in Task : TaskCreate(t)
  \/ TaskExit

Spec == Init /\ [][Next]_taskVars

-----------------------------------------------------------------------------
(* Properties.                                                              *)

TypeOK ==
  /\ state \in [Task -> State]
  /\ next \in [Task -> Task]
  /\ current \in Task
  /\ kstack_top \in [Task -> Task \cup {NoStack}]
  /\ esp0 \in Task \cup {NoStack}
  /\ \A t \in Task : t # Kernel => kstack_top[t] = t
  /\ kstack_top[Kernel] \in {Kernel, NoStack}

\* task_create splices the new task into the circular list without cutting any
\* other off: next maps tasks to tasks, and no proper part of the list is
\* closed under it, so that schedule() meets every task from wherever it starts.
RingIntact ==
  /\ \A t \in Created : next[t] \in Created
  /\ \A S \in SUBSET Created :
       S # {} /\ (\A t \in S : next[t] \in S) => S = Created

\* The state field agrees with `current`: the current task, and no other, is
\* running. In particular task_exit never returns from its schedule() ("the
\* scheduler never switches back to a dead task"), since someone else is alive.
OnlyCurrentRuns ==
  \A t \in Task : state[t] = "running" <=> t = current

\* TSS.esp0 is the trap stack of the task that is current, so the frame of a
\* trap from ring 3 lands on that task's own stack after any switch.
TssFollowsCurrent == esp0 = kstack_top[current]

\* A task that exited is never dispatched again.
DeadStaysDead == [][\A t \in Task : state[t] = "dead" => state'[t] = "dead"]_taskVars
=============================================================================
