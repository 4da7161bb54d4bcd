----------------------------- MODULE Purchases -----------------------------
(***************************************************************************)
(* What the durable purchaser promises its owner, without files, locks,    *)
(* Circle operations or crashes: each order is paid at most once, out of   *)
(* an allowance granted for that order alone; an abandoned order was never *)
(* paid; a finished order was paid, and delivered as acknowledged.         *)
(***************************************************************************)
EXTENDS Naturals

CONSTANTS Orders, Amount, None

VARIABLES
  status,    \* [Orders -> {"open", "paid", "finished", "abandoned"}]
  granted    \* the order whose amount the settlement contract may draw now, or None

vars == <<status, granted>>

Init ==
  /\ status = [o \in Orders |-> "open"]
  /\ granted = None

\* The allowance becomes Amount[o]: never while it serves another order.
Grant(o) ==
  /\ status[o] = "open" /\ granted = None
  /\ granted' = o
  /\ UNCHANGED status

Withdraw(o) ==
  /\ status[o] = "open" /\ granted = o
  /\ granted' = None
  /\ UNCHANGED status

\* Settlement draws exactly what was granted for this order.
Pay(o) ==
  /\ status[o] = "open" /\ granted = o
  /\ status' = [status EXCEPT ![o] = "paid"]
  /\ granted' = None

Finish(o) ==
  /\ status[o] = "paid"
  /\ status' = [status EXCEPT ![o] = "finished"]
  /\ UNCHANGED granted

Abandon(o) ==
  /\ status[o] = "open" /\ granted # o
  /\ status' = [status EXCEPT ![o] = "abandoned"]
  /\ UNCHANGED granted

Next == \E o \in Orders : Grant(o) \/ Withdraw(o) \/ Pay(o) \/ Finish(o) \/ Abandon(o)

Spec == Init /\ [][Next]_vars
=============================================================================
