--------------------------------- MODULE Scenario ---------------------------------
(***************************************************************************)
(* What a behaviour allows besides the program's own work: crashes, losses *)
(* and delays, chosen at its start, until it is calm.                      *)
(***************************************************************************)
CONSTANT Wishes  \* the sets of events a behaviour may allow

VARIABLES
  wanted,  \* the events this behaviour allows
  calm     \* ... until it is calm

ScenarioInit == wanted \in Wishes /\ calm = FALSE

May(event) == event \in wanted /\ ~calm

\* The faults end.
Settle == ~calm /\ calm' = TRUE /\ UNCHANGED wanted
=============================================================================
