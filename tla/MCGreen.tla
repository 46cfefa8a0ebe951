------------------------------ MODULE MCGreen ------------------------------
(* Green for TLC, with a history variable for how often a fiber that waits  *)
(* is passed over.                                                          *)
EXTENDS Green

VARIABLE passed  \* passed[t]: the fibers dispatched since t last became ready

MCInit == Init /\ passed = [t \in Fiber |-> {}]

Note ==
  passed' = [t \in Fiber |->
               IF state'[t] # "ready" THEN {}
               ELSE IF pc = "sched" /\ pc' = "fiber" THEN passed[t] \cup {g_current'}
               ELSE passed[t]]

MCVars == <<vars, passed>>

\* Code that can go on does: nothing interrupts a batch.
MCSpec == MCInit /\ [][Next /\ Note]_MCVars /\ WF_MCVars(Step /\ Note)

\* pick_next is "round-robin ... advancing the start point": while a fiber is
\* ready no other is dispatched twice, also when fibers are spawned meanwhile.
RoundRobin ==
  [][\A t \in Fiber :
       state[t] = "ready" /\ state'[t] = "ready" /\ pc = "sched" /\ pc' = "fiber"
         => g_current' \notin passed[t]]_MCVars
=============================================================================
