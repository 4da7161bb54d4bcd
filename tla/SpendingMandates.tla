-------------------------- MODULE SpendingMandates --------------------------
(***************************************************************************)
(* What the contracts promise the owner of an agent, without signatures,   *)
(* versions, windows, fees or clocks: an order is paid once, from a        *)
(* mandate that has room for it and while the market is open; what has     *)
(* been paid is never forgotten; an order's delivery is claimed once and   *)
(* accepted at most once, after it was claimed.                            *)
(***************************************************************************)
EXTENDS Naturals

CONSTANTS Agents, Owners, Executors, Caps, Orders, Amounts, None

VARIABLES
  open,      \* the market is not paused
  mandate,   \* [owner, cap, spent] of an agent, or None
  order      \* who paid an order, and how far it is

vars == <<open, mandate, order>>

Init ==
  /\ open = TRUE
  /\ mandate = [a \in Agents |-> None]
  /\ order = [o \in Orders |-> [payer |-> None, stage |-> "new"]]

Switch ==
  /\ open' = ~open
  /\ UNCHANGED <<mandate, order>>

Grant(a, owner, cap) ==
  /\ mandate[a] = None
  /\ mandate' = [mandate EXCEPT ![a] = [owner |-> owner, cap |-> cap, spent |-> 0]]
  /\ UNCHANGED <<open, order>>

Revise(a, cap) ==
  /\ mandate[a] # None /\ cap >= mandate[a].spent
  /\ mandate' = [mandate EXCEPT ![a].cap = cap]
  /\ UNCHANGED <<open, order>>

Pay(o, a, e, amount) ==
  /\ open
  /\ order[o].stage = "new"
  /\ mandate[a] # None /\ mandate[a].spent + amount <= mandate[a].cap
  /\ mandate' = [mandate EXCEPT ![a].spent = @ + amount]
  /\ order' = [order EXCEPT ![o] = [payer |-> e, stage |-> "paid"]]
  /\ UNCHANGED open

Advance(o, from, to) ==
  /\ order[o].stage = from
  /\ order' = [order EXCEPT ![o].stage = to]
  /\ UNCHANGED <<open, mandate>>

Next ==
  \/ Switch
  \/ \E a \in Agents, owner \in Owners, cap \in Caps : Grant(a, owner, cap)
  \/ \E a \in Agents, cap \in Caps : Revise(a, cap)
  \/ \E o \in Orders, a \in Agents, e \in Executors, amount \in Amounts :
       Pay(o, a, e, amount)
  \/ \E o \in Orders :
       Advance(o, "paid", "delivered") \/ Advance(o, "delivered", "accepted")

Spec == Init /\ [][Next]_vars
=============================================================================
