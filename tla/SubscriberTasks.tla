--------------------------- MODULE SubscriberTasks ---------------------------
(***************************************************************************)
(* What the orchestrator relies on of the tasks it spawns: a task that was  *)
(* told to stop ends, and one that was not may give up.  A task that has    *)
(* ended stays so.                                                          *)
(***************************************************************************)
CONSTANT Tasks

VARIABLES
  alive, \* the tasks that have not ended
  told   \* the tasks one of whose tokens is cancelled

vars == <<alive, told>>

Init == alive = Tasks /\ told = {}

Tell(t) ==
  /\ t \notin told
  /\ told' = told \cup {t}
  /\ UNCHANGED alive

Stop(t) ==
  /\ t \in alive \cap told
  /\ alive' = alive \ {t}
  /\ UNCHANGED told

GiveUp(t) ==
  /\ t \in alive \ told
  /\ alive' = alive \ {t}
  /\ UNCHANGED told

Next == \E t \in Tasks : Tell(t) \/ Stop(t) \/ GiveUp(t)

Spec == Init /\ [][Next]_vars

FairSpec == Spec /\ \A t \in Tasks : WF_vars(Stop(t))
=============================================================================
