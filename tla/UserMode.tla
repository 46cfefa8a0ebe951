------------------------------ MODULE UserMode ------------------------------
(***************************************************************************)
(* Interrupts, the stacks they land on, and the one ring-3 program.        *)
(*                                                                         *)
(* The shell runs inside the keyboard interrupt, on the stack of whichever *)
(* task it interrupted, so `exec` leaves that handler suspended under a    *)
(* ring-3 program which the timer preempts, whose system calls may yield,  *)
(* and over which further shell commands run.  Handlers run with           *)
(* interrupts disabled from the gate to the iret, to a context_switch or   *)
(* to enter_user: that is one action.                                      *)
(***************************************************************************)
EXTENDS Tasks, Sequences

(***************************************************************************)
(* What is live on a stack, newest frame first:                            *)
(*   "new"    the frame task_create synthesised                            *)
(*   "tick0"  a timer interrupt taken in ring 0, switched out in schedule  *)
(*   "tick3"  the same, taken in ring 3                                    *)
(*   "sys"    a system call, in or just past yield()                       *)
(*   "exec"   a keyboard interrupt whose shell command is in exec_user     *)
(* The code of an entry function, or of main(), is below them all.         *)
(***************************************************************************)
Frame == {"new", "tick0", "tick3", "sys", "exec"}

VARIABLES
  stk,           \* stk["own"][t] is t's stack_base stack, stk["trap"][t] its kstack
  ring,          \* privilege level of the code that executes
  intr,          \* the interrupt flag IF
  user_running,  \* g_user_running
  kreturn,       \* g_kreturn_esp: the stack whose newest frame enter_user saved
  halted         \* isr_handler stopped the machine

cpuVars == <<stk, ring, intr, user_running, kreturn, halted>>
vars == <<taskVars, cpuVars>>

\* main() at its sti.  It does not look at the results of its two task_create:
\* a worker that boot makes is one that Spawn makes here.
UInit ==
  /\ Init
  /\ stk = [a \in {"own", "trap"} |-> [t \in Task |-> <<>>]]
  /\ ring = 0
  /\ intr = TRUE
  /\ user_running = FALSE
  /\ kreturn = <<"own", Kernel>>
  /\ halted = FALSE

-----------------------------------------------------------------------------
(* Stacks.                                                                  *)

\* In ring 0, task t pushes on its trap stack if it entered the kernel there.
Area(s, t) == IF s["trap"][t] # <<>> THEN "trap" ELSE "own"

\* The stacks once the CPU went through an interrupt gate: coming from ring 3
\* it starts at the top of the stack TSS.esp0 names, whatever lies there.
Entered(f) ==
  IF ring = 3 THEN [stk EXCEPT !["trap"][esp0] = <<f>>]
  ELSE [stk EXCEPT ![Area(stk, current)][current] = <<f>> \o @]

\* Mutant: the interrupt stub leaves its frame on the stack.
ContinueKeepsFrame(s) ==
  LET f == Head(s[Area(s, current')][current'])
  IN  /\ stk' = s
      /\ ring' = IF f = "tick3" THEN 3 ELSE 0
      /\ intr' = (f # "new")

\* The current task continues from the newest frame it has in s: schedule()
\* returns into the interrupt stub, which drops the frame and does iret, or
\* into yield(), which enables interrupts inside the system call, or the switch
\* is the first one to a new task and enters task_bootstrap.
Continue(s) ==
  LET t == current'
      a == Area(s, t)
      f == Head(s[a][t])
  IN  /\ stk' = IF f = "sys" THEN s ELSE [s EXCEPT ![a][t] = Tail(@)]
      /\ ring' = IF f = "tick3" THEN 3 ELSE 0
      /\ intr' = (f # "new")

-----------------------------------------------------------------------------
(* Interrupts.                                                              *)

Interruptible == intr /\ ~halted

\* irq0: timer_callback calls schedule().
Timer ==
  /\ Interruptible
  /\ Tick
  /\ Continue(Entered(IF ring = 3 THEN "tick3" ELSE "tick0"))
  /\ UNCHANGED <<user_running, kreturn, halted>>

\* Mutant: no frame is synthesised for the first switch to the task.
SpawnWithoutFrame(t) ==
  /\ Interruptible
  /\ TaskCreate(t)
  /\ UNCHANGED cpuVars

\* irq1, the line typed is `spawn`.
Spawn(t) ==
  /\ Interruptible
  /\ TaskCreate(t)
  /\ stk' = [stk EXCEPT !["own"][t] = <<"new">>]
  /\ UNCHANGED <<ring, intr, user_running, kreturn, halted>>

\* enter_user: the shell command stays suspended where it is.
EnterUser ==
  /\ stk' = Entered("exec")
  /\ kreturn' = <<Area(stk, current), current>>
  /\ ring' = 3

\* Mutant: the check of g_user_running is gone.
MayExecNested == kstack_top[current] # NoStack

\* Mutant: the check that the task has a trap stack is gone.
MayExecNoStack == ~user_running

\* The guards of exec_user: when one fails it changes nothing.
MayExec == ~user_running /\ kstack_top[current] # NoStack

\* Mutant: traps are sent to the kernel task's stack.
TrapTopOfHead == kstack_top[Kernel]

\* What exec_user stores in TSS.esp0.
TrapTop == kstack_top[current]

\* irq1, the line typed is `exec` and the program loads: exec_user up to the
\* iret of enter_user.
ExecUser ==
  /\ Interruptible
  /\ MayExec
  /\ esp0' = TrapTop
  /\ user_running' = TRUE
  /\ EnterUser
  /\ UNCHANGED <<state, next, current, kstack_top, intr, halted>>

\* A CPU exception in the program: isr_handler reports it and stops the machine.
Fault ==
  /\ ring = 3
  /\ ~halted
  /\ halted' = TRUE
  /\ intr' = FALSE
  /\ UNCHANGED <<taskVars, stk, ring, user_running, kreturn>>

-----------------------------------------------------------------------------
(* System calls.  SYS_WRITE prints and changes nothing that is modelled.    *)

\* SYS_YIELD, up to the sti of yield(): at once if no other task can run.
SysYield ==
  /\ ring = 3
  /\ ~halted
  /\ Tick
  /\ Continue(Entered("sys"))
  /\ UNCHANGED <<user_running, kreturn, halted>>

\* The system call returns to ring 3.
SysReturn ==
  /\ ring = 0
  /\ Interruptible
  /\ stk["trap"][current] # <<>>
  /\ Head(stk["trap"][current]) = "sys"
  /\ stk' = [stk EXCEPT !["trap"][current] = Tail(@)]
  /\ ring' = 3
  /\ UNCHANGED <<taskVars, intr, user_running, kreturn, halted>>

\* leave_user abandons the system call's stack and resumes the command on the
\* stack enter_user saved; the command ends and its interrupt returns.
LeaveUser ==
  /\ stk' = [stk EXCEPT !["trap"][esp0] = <<>>,
                        ![kreturn[1]][kreturn[2]] = Tail(@)]
  /\ ring' = 0

\* Mutant: g_user_running is not reset.
SysExitKeepsFlag ==
  /\ ring = 3
  /\ ~halted
  /\ LeaveUser
  /\ UNCHANGED <<taskVars, intr, user_running, kreturn, halted>>

\* SYS_EXIT: exec_on_exit.
SysExit ==
  /\ ring = 3
  /\ ~halted
  /\ user_running' = FALSE
  /\ LeaveUser
  /\ UNCHANGED <<taskVars, intr, kreturn, halted>>

-----------------------------------------------------------------------------
(* Tasks.                                                                   *)

\* Mutant: a new task runs with interrupts disabled.
BootstrapWithoutSti ==
  /\ ~intr
  /\ ~halted
  /\ UNCHANGED vars

\* task_bootstrap enables interrupts on the fresh stack.
Bootstrap ==
  /\ ~intr
  /\ ~halted
  /\ intr' = TRUE
  /\ UNCHANGED <<taskVars, stk, ring, user_running, kreturn, halted>>

\* The entry function returns to task_bootstrap, which calls task_exit.
EntryReturns ==
  /\ ring = 0
  /\ Interruptible
  /\ stk["own"][current] = <<>>
  /\ stk["trap"][current] = <<>>
  /\ TaskExit
  /\ Continue(stk)
  /\ UNCHANGED <<user_running, kreturn, halted>>

UNext ==
  \/ Timer
  \/ \E t \in Task : Spawn(t)
  \/ ExecUser
  \/ Fault
  \/ SysYield
  \/ SysReturn
  \/ SysExit
  \/ Bootstrap
  \/ EntryReturns

USpec == UInit /\ [][UNext]_vars

\* The timer keeps interrupting, at 100 Hz, and the CPU keeps executing kernel
\* code.  A tick may interrupt a system call's return, but a task that gets
\* slice after slice executes the few instructions left of it: hence SF.
Fairness == WF_vars(Timer) /\ SF_vars(SysReturn) /\ WF_vars(Bootstrap)

-----------------------------------------------------------------------------
(* Properties.                                                              *)

\* Interrupts do not pile up: a task's own stack carries one frame, the 8 KB
\* trap stack a system call and one interrupt on top of it.
UTypeOK ==
  /\ TypeOK
  /\ stk \in [{"own", "trap"} -> [Task -> Seq(Frame)]]
  /\ \A t \in Task : Len(stk["own"][t]) <= 1 /\ Len(stk["trap"][t]) <= 2
  /\ ring \in {0, 3}
  /\ intr \in BOOLEAN
  /\ user_running \in BOOLEAN
  /\ kreturn \in {"own", "trap"} \X Task
  /\ halted \in BOOLEAN

\* While a program executes in ring 3, the next trap lands on a stack that
\* exists, belongs to the current task and holds nothing: "a descheduled user
\* program's frame is nobody else's to reuse" (drivers/timer.c).
TrapStackFree ==
  ring = 3 => esp0 = current /\ stk["trap"][current] = <<>>

\* While a program executes in ring 3, leave_user would resume the exec_user
\* of the task that executes: its frame is still the newest of that task's own
\* stack, and not that of another task the program was started from.
ExitReturnsHome ==
  ring = 3 => /\ kreturn = <<"own", current>>
              /\ stk["own"][current] # <<>>
              /\ Head(stk["own"][current]) = "exec"

\* The suspended exec_user calls: the places of "exec" frames.
Programs ==
  {p \in {"own", "trap"} \X Task \X (1..3) :
     LET s == stk[p[1]][p[2]] IN p[3] <= Len(s) /\ s[p[3]] = "exec"}

\* g_user_running is set exactly while a program is live, descheduled or not,
\* so the single user window is never loaded over a live program.
OneProgram ==
  /\ user_running <=> Programs # {}
  /\ \A p, q \in Programs : p = q

\* Every task schedule() may pick has a frame context_switch can return into.
Resumable ==
  \A t \in Task : state[t] = "ready" =>
    LET s == stk[Area(stk, t)][t] IN s # <<>> /\ Head(s) # "exec"

\* Every step of the CPU is a step of the scheduler of module Tasks, or none.
ImplementsTasks == Spec

\* As long as no exception stops the machine, a ready task gets the CPU.
EveryTaskRuns == \A t \in Task : state[t] = "ready" ~> (state[t] = "running" \/ halted)

\* A live program gets back to ring 3, whatever its system calls and the shell
\* commands typed meanwhile do.
ProgramResumes == user_running ~> (ring = 3 \/ halted)
=============================================================================
