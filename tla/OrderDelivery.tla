------------------------------ MODULE OrderDelivery ------------------------------
(***************************************************************************)
(* Paid orders of the platform's marketplace: createEconomyOrder,          *)
(* retryEconomyDelivery and deliverEconomyOrder of economy/marketplace.ts, *)
(* which call the seller's endpoint (economy/remote-service.ts), here the  *)
(* reference seller's queue.  Statements of overlapping requests           *)
(* interleave; a request dies anywhere and leaves its lease behind.        *)
(***************************************************************************)
EXTENDS ProviderQueue

VARIABLES
  order,   \* economy_orders
  attempt  \* the deliveries under way; the number of one is its token

vars == <<scenario, queueVars, order, attempt>>

Attempts == 1 .. 2   \* bound: overlapping deliveries of one order, the second if wished
NoAttempt == [at |-> "none", output |-> 0]

Init ==
  /\ QueueInit
  /\ order = [o \in Orders |-> [state |-> "none", token |-> 0, leased |-> FALSE, output |-> 0]]
  /\ attempt = [o \in Orders |-> [k \in Attempts |-> NoAttempt]]

\* createEconomyOrder: the finalized payment is this order's, once.
Place(o) ==
  /\ order[o].state = "none" /\ (o = 1 \/ May("order"))
  /\ order' = [order EXCEPT ![o].state = "paid"]
  /\ UNCHANGED <<scenario, queueVars, attempt>>

Holds(o, k) == order[o].token = k
Ends(o, k) == attempt' = [attempt EXCEPT ![o][k] = NoAttempt]

\* Mutant: an attempt that died keeps the order.
ClaimDelivery_Paid(o, k) ==
  /\ attempt[o][k].at = "none" /\ (k = 1 \/ May("twice"))
  /\ order[o].state = "paid"
  /\ order' = [order EXCEPT ![o].state = "delivering", ![o].token = k, ![o].leased = TRUE]
  /\ attempt' = [attempt EXCEPT ![o][k].at = "asking"]
  /\ UNCHANGED <<scenario, queueVars>>

\* deliverEconomyOrder: the order is free, or the lease of its holder has ended.
ClaimDelivery(o, k) ==
  /\ attempt[o][k].at = "none" /\ (k = 1 \/ May("twice"))
  /\ order[o].state = "paid" \/ (order[o].state = "delivering" /\ ~order[o].leased)
  /\ order' = [order EXCEPT ![o].state = "delivering", ![o].token = k, ![o].leased = TRUE]
  /\ attempt' = [attempt EXCEPT ![o][k].at = "asking"]
  /\ UNCHANGED <<scenario, queueVars>>

\* requestRemoteService: the queue answers with the stored output or refuses; the answer
\* may be lost or come after twelve seconds.
Ask(o, k) ==
  /\ attempt[o][k].at = "asking"
  /\ QueuePaidWork(o)
  /\ \/ job[o].state = "completed"
        /\ attempt' = [attempt EXCEPT ![o][k] = [at |-> "answered", output |-> job[o].output]]
     \/ (job[o].state # "completed" \/ May("slow"))
        /\ attempt' = [attempt EXCEPT ![o][k].at = "refused"]
  /\ UNCHANGED <<scenario, file, claimFile, worker, signed, attested, worked, delayed, order>>

\* Only the attempt that still holds the order stores its output.
Finish(o, k) ==
  /\ attempt[o][k].at = "answered"
  /\ order' = IF order[o].state = "delivering" /\ Holds(o, k)
              THEN [order EXCEPT ![o] = [state |-> "fulfilled", token |-> 0, leased |-> FALSE,
                                         output |-> attempt[o][k].output]]
              ELSE order
  /\ Ends(o, k)
  /\ UNCHANGED <<scenario, queueVars>>

\* Mutant: any attempt that fails gives the order back.
GiveUp_AnyToken(o, k) ==
  /\ attempt[o][k].at = "refused"
  /\ order' = [order EXCEPT ![o].state = "paid", ![o].token = 0, ![o].leased = FALSE]
  /\ Ends(o, k)
  /\ UNCHANGED <<scenario, queueVars>>

\* ... or gives it back.
GiveUp(o, k) ==
  /\ attempt[o][k].at = "refused"
  /\ order' = IF Holds(o, k)
              THEN [order EXCEPT ![o].state = "paid", ![o].token = 0, ![o].leased = FALSE]
              ELSE order
  /\ Ends(o, k)
  /\ UNCHANGED <<scenario, queueVars>>

Die(o, k) ==
  /\ May("die") /\ attempt[o][k].at # "none"
  /\ Ends(o, k)
  /\ UNCHANGED <<scenario, queueVars, order>>

\* Ninety seconds pass, while the holder is dead or late.
LeaseEnds(o) ==
  /\ order[o].leased
  /\ order' = [order EXCEPT ![o].leased = FALSE]
  /\ UNCHANGED <<scenario, queueVars, attempt>>

Abandoned(o) == \A k \in Attempts : Holds(o, k) => attempt[o][k].at = "none"
LeaseOfTheDeadEnds(o) == Abandoned(o) /\ LeaseEnds(o)
LeaseOfTheLateEnds(o) == May("slow") /\ ~Abandoned(o) /\ LeaseEnds(o)

Deliver(o, k) == ClaimDelivery(o, k) \/ Ask(o, k) \/ Finish(o, k) \/ GiveUp(o, k)

Settles == Settle /\ UNCHANGED <<category, queueVars, order, attempt>>

Next ==
  \/ QueueNext /\ UNCHANGED <<scenario, order, attempt>>
  \/ \E o \in Orders : Place(o) \/ LeaseOfTheDeadEnds(o) \/ LeaseOfTheLateEnds(o)
  \/ \E o \in Orders, k \in Attempts : Deliver(o, k) \/ Die(o, k)
  \/ Settles

Spec == Init /\ [][Next]_vars

(***************************************************************************)
(* The worker is kept running and its broadcasts reach the ledger, late    *)
(* requests arrive, leases end, and buyers ask again for what they paid.   *)
(***************************************************************************)
Fairness ==
  /\ WF_vars(Settles)
  /\ WF_vars((\E request \in delayed : Arrive(request)) /\ UNCHANGED <<scenario, order, attempt>>)
  /\ WF_vars(WorkerWork /\ UNCHANGED <<scenario, order, attempt>>)
  /\ \A o \in Orders : /\ WF_vars(Mine(o) /\ UNCHANGED <<scenario, order, attempt>>)
                       /\ WF_vars(LeaseOfTheDeadEnds(o))
                       /\ \A k \in Attempts : WF_vars(Deliver(o, k))

FairSpec == Spec /\ Fairness

TypeOK ==
  /\ QueueTypeOK
  /\ order \in [Orders -> [state : {"none", "paid", "delivering", "fulfilled"},
                           token : {0} \cup Attempts, leased : BOOLEAN, output : 0 .. MaxWork]]
  /\ attempt \in [Orders -> [Attempts ->
                    [at : {"none", "asking", "answered", "refused"}, output : 0 .. MaxWork]]]

\* What a buyer was given is what the seller's worker made once, attested on the ledger
\* and stored, and stays given; the worker's file does not call failed what was delivered.
DeliveryIsTrue ==
  \A o \in Orders :
    /\ (order[o].state = "fulfilled") = (order[o].output # 0)
    /\ order[o].state = "fulfilled" =>
         job[o].state = "completed" /\ order[o].output = job[o].output
    /\ job[o].state = "completed" =>
         job[o].output = attested[o] /\ attested[o] = file[o].output
    /\ file[o].stage = "completed" => job[o].state = "completed"
    /\ file[o].stage = "failed" => job[o].state # "completed"

\* "Once model execution might have happened, an interrupted job is marked failed rather
\* than automatically charged again" (docs/economy/live-provider.md).
ChargedOnce == \A o \in Orders : category[o] = "read" \/ worked[o] <= 1

\* All of this at any crash.  Only a claim that reaches the platform after a second request
\* with its id was answered "nothing to do" is not recovered.
WorkIsTrue ==
  /\ TypeOK /\ DeliveryIsTrue /\ ChargedOnce
  /\ "late claim" \in wanted \/ ClaimsAreRecovered

\* A worker that completes a job which a late report has failed repeats the refused
\* completion in every cycle and takes up nothing else (main, processRecord).
Stuck == \E o \in Orders : file[o].stage = "output" /\ job[o].state = "failed"

\* Every paid order is fulfilled in the end, or its job failed or is orphaned and
\* waits for the seller.
PaidIsDelivered ==
  []<>(\A o \in Orders : order[o].state \in {"paid", "delivering"} =>
         file[o].stage = "failed" \/ Orphaned(o) \/ Stuck)
=============================================================================
