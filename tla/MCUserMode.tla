----------------------------- MODULE MCUserMode -----------------------------
(* UserMode for TLC, with a history variable for how often a task that      *)
(* waits is passed over.                                                    *)
EXTENDS UserMode

VARIABLE passed  \* passed[t]: the tasks dispatched since t last became ready

MCVars == <<vars, passed>>

MCInit == UInit /\ passed = [t \in Task |-> {}]

\* A dispatch of current' is noted for every task left waiting.
Note ==
  passed' = [t \in Task |->
               IF state'[t] # "ready" THEN {}
               ELSE IF current' = current THEN passed[t]
               ELSE IF t = current THEN {current'}
               ELSE passed[t] \cup {current'}]

MCSpec == MCInit /\ [][UNext /\ Note]_MCVars /\ Fairness

\* Bounded overtaking: while a task is ready, no other task is dispatched
\* twice, however many are spawned next to `head` in the meantime; a ready task
\* waits for at most one turn of each of the others.
NoOvertaking ==
  [][\A t \in Task :
       state[t] = "ready" /\ state'[t] = "ready" /\ current' # current
         => current' \notin passed[t]]_MCVars
=============================================================================
