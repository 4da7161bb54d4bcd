----------------------------- MODULE HederaExchange -----------------------------
(***************************************************************************)
(* The buyers, the operator's durable operations and publications and the  *)
(* platform's deliveries around one data service, one price, one network.  *)
(***************************************************************************)
EXTENDS HederaPublication

exchange == <<vars, operationVars, roundVars, publicationVars>>

Init == PurchasesInit /\ OperationsInit /\ PublicationInit

Next ==
  \/ PurchasesNext /\ UNCHANGED <<operationVars, roundVars, publicationVars>>
  \/ OperationsNext /\ UNCHANGED <<vars, publicationVars>>
  \/ Publication /\ UNCHANGED <<vars, operationVars, roundVars>>

Spec == Init /\ [][Next]_exchange

(***************************************************************************)
(* Every call has a timeout, so a command ends, and it is run again until  *)
(* it has its result.  A check that can succeed again and again is not     *)
(* always interrupted: for the buyers this is strong fairness, for the     *)
(* operator the end of interruptions by chance.                            *)
(***************************************************************************)
Bought(A) == A /\ UNCHANGED <<offers, operation, authorised, wanted, price, serviceVars,
                              transferred, operationVars, roundVars, publicationVars>>
Operated(A) == A /\ UNCHANGED <<vars, publicationVars>>

Fairness ==
  /\ \A p \in Procs : WF_exchange(Bought(Stop(p)))
  /\ \A r \in TokenRuns :
       /\ SF_exchange(Bought(\E p \in Procs : TokenBegin(p, r)))
       /\ SF_exchange(Bought(\E p \in Procs : proc[p].run = r /\ Recover(p)))
  /\ WF_exchange(Operated(Calm /\ UNCHANGED operationVars))
  /\ \A p \in Operators : WF_exchange(Operated(Operator(p)))
  /\ SF_exchange(Operated(\E d \in Deliveries, o \in Rounds :
                            RequestDelivery(d, o) /\ UNCHANGED operationVars))
  /\ \A d \in Deliveries : WF_exchange(Operated(RecordDelivery(d) /\ UNCHANGED operationVars))

FairSpec == Spec /\ Fairness

TypeOK == ServiceTypeOK /\ BuyerTypeOK /\ OperationsTypeOK /\ PublicationTypeOK

\* Nothing uncertain is done again, by a buyer, by the service for two hosts of one
\* payer, or by the operator: one signature for a purchase, one settlement for a
\* request, one dispatch for a durable operation.
NothingTwice == TypeOK /\ SignedOnce /\ RequestSettledOnce /\ DispatchedOnce

\* What is paid was agreed to, and what is called settled, anchored or published
\* was paid.
PaymentsAreTrue == PaidAsAgreed /\ SettledIsPaid /\ AnchorsAreTrue /\ ReleaseIsProven

\* No transfer is submitted under an expired offer, journals only move forward, and a
\* publication that does not replace the release keeps what another one put there while
\* it was verifying its own files.
NothingLateOrUndone == [][SettledInTime /\ JournalsMoveForward /\ ReleaseIsKept]_exchange

\* Whoever paid gets what it paid for: a settled token purchase reaches its buyer through
\* lost answers and reruns, a paid round of a plan is delivered.
PaidIsConcluded == []<>(TokenDelivered /\ RoundDelivered)
=============================================================================
