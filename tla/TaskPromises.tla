--------------------------- MODULE TaskPromises ---------------------------
(***************************************************************************)
(* What the platform promises the owner of a task, without rows, claims,   *)
(* leases or concurrent requests: a plan is granted at most once and for a *)
(* time, a granted task starts on one host while the grant is live and     *)
(* never moves, its results are only added to, a completed task has all of *)
(* them, and a task that started is never called off.                      *)
(***************************************************************************)
EXTENDS Naturals, Sequences

CONSTANTS Tasks, Plans, Steps, Outputs, Workers, None

VARIABLES
  granted,   \* the plan the owner approved, or None
  live,      \* the grant has not expired
  host,      \* the host that executes the plan, or None
  results,   \* outputs of the steps so far
  over       \* "open", "completed" or "cancelled"

vars == <<granted, live, host, results, over>>

Init ==
  /\ granted = [t \in Tasks |-> None]
  /\ live = [t \in Tasks |-> FALSE]
  /\ host = [t \in Tasks |-> None]
  /\ results = [t \in Tasks |-> <<>>]
  /\ over = [t \in Tasks |-> "open"]

Grant(t, p) ==
  /\ granted[t] = None /\ over[t] = "open"
  /\ granted' = [granted EXCEPT ![t] = p]
  /\ live' = [live EXCEPT ![t] = TRUE]
  /\ UNCHANGED <<host, results, over>>

Expire(t) ==
  /\ live' = [live EXCEPT ![t] = FALSE]
  /\ UNCHANGED <<granted, host, results, over>>

Start(t, w) ==
  /\ granted[t] # None /\ live[t] /\ host[t] = None /\ over[t] = "open"
  /\ host' = [host EXCEPT ![t] = w]
  /\ UNCHANGED <<granted, live, results, over>>

Record(t, output) ==
  /\ host[t] # None /\ over[t] = "open"
  /\ Len(results[t]) < Steps[granted[t]]
  /\ results' = [results EXCEPT ![t] = Append(@, output)]
  /\ UNCHANGED <<granted, live, host, over>>

Complete(t) ==
  /\ host[t] # None /\ over[t] = "open"
  /\ Len(results[t]) = Steps[granted[t]]
  /\ over' = [over EXCEPT ![t] = "completed"]
  /\ UNCHANGED <<granted, live, host, results>>

CallOff(t) ==
  /\ host[t] = None /\ over[t] = "open"
  /\ over' = [over EXCEPT ![t] = "cancelled"]
  /\ UNCHANGED <<granted, live, host, results>>

Next ==
  \E t \in Tasks :
    \/ \E p \in Plans : Grant(t, p)
    \/ Expire(t)
    \/ \E w \in Workers : Start(t, w)
    \/ \E output \in Outputs : Record(t, output)
    \/ Complete(t)
    \/ CallOff(t)

Spec == Init /\ [][Next]_vars
=============================================================================
