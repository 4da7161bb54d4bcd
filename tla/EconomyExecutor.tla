-------------------------- MODULE EconomyExecutor --------------------------
(***************************************************************************)
(* The local durable purchaser: runEconomyExecutor (economy/executor.ts),  *)
(* the Circle-backed effects it calls (economy/executor-live.ts) and the   *)
(* operation journal below them (durableOperation and reconcile in         *)
(* scripts/economy-circle.ts), with what they use of the chain: the USDC   *)
(* allowance, the settlement and the delivery ledger.                      *)
(*                                                                         *)
(* A process walks one order at a time under executor.lock.  Every file it *)
(* writes is fsynced and survives a crash; a crash leaves executor.lock    *)
(* behind until an operator removes it.  Every read of the platform, of    *)
(* Circle or of the chain may throw, which leaves the function through its *)
(* finally block: that is the single action Throws.                        *)
(***************************************************************************)
EXTENDS Integers, FiniteSets

CONSTANTS Orders,    \* order identities; intents are immutable, so an order is its intent
          Procs,     \* processes that may run the executor on one operation directory
          Outputs,   \* outputs (equivalently output hashes) a provider may produce
          Amount,    \* Amount[o]: quantity * unit price of the order
          None

ASSUME ConstantsAssumption ==
  /\ None \notin Orders /\ None \notin Procs /\ None \notin Outputs
  /\ Amount \in [Orders -> Nat \ {0}]

VARIABLES
  lock,          \* executor.lock: the process that created it, or None
  proc,          \* [Procs -> Activation]: the running call of each process
  phase,         \* <order>.json: the persisted ExecutorState.phase, "absent" when no file
  abortRevokeRequired, \* <order>.json: abortRevokeRequired
  output,        \* <order>.json: the persisted output, whose hash is the outputHash
  reservation,   \* allowance-reservation.json: the order it names, or None
  op,            \* executor-<order>-<kind>.json: the Circle operation's status
  tx,            \* what became of the Circle transaction of an operation
  calls,         \* how often Circle accepted a submission of an operation
  allowance,     \* USDC allowance of the payer for the settlement contract
  settled,       \* how often the settlement contract settled the order
  attested,      \* output the seller attested on the ledger, or None
  acked,         \* the buyer's acknowledgment on the ledger
  served,        \* output of the order the platform reports as fulfilled, or None
  voided         \* orders whose deadline passed or whose policy versions were superseded

procVars  == <<lock, proc>>
fileVars  == <<phase, abortRevokeRequired, output, reservation>>
chainVars == <<allowance, settled, attested, acked, served, voided>>
circleVars == <<tx, calls>>
vars == <<procVars, fileVars, op, circleVars, chainVars>>

Kinds == {"approve", "pay", "ack", "abort"}
UnpaidPhases == {"prepared", "approving", "approved", "paying"}
AbortPhases == {"aborting", "aborted"}
PaidPhases == {"paid", "delivered", "acknowledging", "completed"}
Phases == {"absent"} \cup UnpaidPhases \cup AbortPhases \cup PaidPhases
Labels == {"off", "load", "dispatch", "revoked", "ready", "mark", "submit", "call",
           "answer", "confirm", "missing", "verify", "free_end", "free_retry", "free_paid",
           "deliver", "recover_ack"}
OpStatus == {"none", "submitting", "uncertain", "submitted", "failed"}
TxStatus == {"none", "pending", "success", "reverted", "rejected"}

Activation == [pc : Labels, order : Orders \cup {None}, abortUnpaid : BOOLEAN,
               kind : Kinds \cup {None}]
Off == [pc |-> "off", order |-> None, abortUnpaid |-> FALSE, kind |-> None]

Init ==
  /\ lock = None
  /\ proc = [p \in Procs |-> Off]
  /\ phase = [o \in Orders |-> "absent"]
  /\ abortRevokeRequired = [o \in Orders |-> FALSE]
  /\ output = [o \in Orders |-> None]
  /\ reservation = None
  /\ op = [o \in Orders |-> [k \in Kinds |-> "none"]]
  /\ tx = [o \in Orders |-> [k \in Kinds |-> "none"]]
  /\ calls = [o \in Orders |-> [k \in Kinds |-> 0]]
  /\ allowance = 0
  /\ settled = [o \in Orders |-> 0]
  /\ attested = [o \in Orders |-> None]
  /\ acked = [o \in Orders |-> FALSE]
  /\ served = [o \in Orders |-> None]
  /\ voided = {}

-----------------------------------------------------------------------------
(* Control flow of one call                                                *)

At(p, label) == proc[p].pc = label
Order(p) == proc[p].order

Goto(p, label) ==
  /\ proc' = [proc EXCEPT ![p].pc = label]
  /\ UNCHANGED lock

\* Leave through the finally block: close and unlink executor.lock.
Exit(p) ==
  /\ proc' = [proc EXCEPT ![p] = Off]
  /\ lock' = None

\* Hand an operation to durableOperation.
Perform(p, k) ==
  /\ proc' = [proc EXCEPT ![p].pc = "submit", ![p].kind = k]
  /\ UNCHANGED lock

Persist(o, ph) ==
  /\ phase' = [phase EXCEPT ![o] = ph]
  /\ UNCHANGED <<abortRevokeRequired, output, reservation>>

-----------------------------------------------------------------------------
(* Evidence the code reads before it moves on                              *)

\* hasOperation returned true / returned false, which also needs assertUnpaid.
Present(o, k) == op[o][k] # "none"
Absent(o, k) == op[o][k] = "none" /\ settled[o] = 0

\* circleReceipt of reconcile: the original transaction is found and finalized.
Recovered(o, k) ==
  /\ Present(o, k)
  /\ op[o][k] # "failed"
  /\ tx[o][k] = "success"
  /\ op' = [op EXCEPT ![o][k] = "submitted"]

\* Slip: an approval still in flight does not hold an abort up.
AbortSafe_InFlight(o) == Absent(o, "pay") /\ UNCHANGED op

\* prepareAbort: no payment operation, no payment, and a settled approval if any.
AbortSafe(o) ==
  /\ Absent(o, "pay")
  /\ \/ op[o]["approve"] = "none" /\ UNCHANGED op
     \/ Recovered(o, "approve") /\ allowance \in {0, Amount[o]}

VerifyAborted(o) ==
  /\ Absent(o, "pay")
  /\ abortRevokeRequired[o] => allowance = 0

\* preflight against the stored versions: the chain would still accept the order.
Accepted(o) == o \notin voided /\ settled[o] = 0

-----------------------------------------------------------------------------
(* runEconomyExecutor                                                      *)

Invoke(p, o, abortUnpaid) ==
  /\ At(p, "off") /\ lock = None
  /\ proc' = [proc EXCEPT ![p] = [pc |-> "load", order |-> o,
                                  abortUnpaid |-> abortUnpaid, kind |-> None]]
  /\ lock' = p
  /\ UNCHANGED <<fileVars, op, circleVars, chainVars>>

\* Slip: another order's reservation is not looked at.
Load_Unreserved(p) ==
  /\ At(p, "load")
  /\ \/ phase[Order(p)] # "absent" /\ UNCHANGED fileVars
     \/ phase[Order(p)] = "absent" /\ Accepted(Order(p)) /\ Persist(Order(p), "prepared")
  /\ Goto(p, "dispatch")
  /\ UNCHANGED <<op, circleVars, chainVars>>

\* Authenticate, check the reservation, and load or create the journal.
Load(p) ==
  /\ At(p, "load")
  /\ reservation \in {None, Order(p)}
  /\ \/ /\ phase[Order(p)] # "absent"
        /\ UNCHANGED fileVars
     \/ /\ phase[Order(p)] = "absent" /\ ~proc[p].abortUnpaid
        /\ Accepted(Order(p))
        /\ Persist(Order(p), "prepared")
  /\ Goto(p, "dispatch")
  /\ UNCHANGED <<op, circleVars, chainVars>>

\* Slip: the need for a revocation is not recorded.
BeginAbort_NoRevocation(p) ==
  /\ At(p, "dispatch") /\ proc[p].abortUnpaid
  /\ phase[Order(p)] \in UnpaidPhases
  /\ AbortSafe(Order(p))
  /\ Persist(Order(p), "aborting")
  /\ Goto(p, "dispatch")
  /\ UNCHANGED <<circleVars, chainVars>>

\* The abort branch, entered by --abort-unpaid or by an abort already begun.
BeginAbort(p) ==
  /\ At(p, "dispatch") /\ proc[p].abortUnpaid
  /\ phase[Order(p)] \in UnpaidPhases
  /\ AbortSafe(Order(p))
  /\ phase' = [phase EXCEPT ![Order(p)] = "aborting"]
  /\ abortRevokeRequired' = [abortRevokeRequired EXCEPT ![Order(p)] =
       op[Order(p)]["approve"] # "none" /\ allowance # 0]
  /\ Goto(p, "dispatch")
  /\ UNCHANGED <<output, reservation, circleVars, chainVars>>

\* Slip: a revocation that exists already is never recovered.
Revoke_Afresh(p) ==
  /\ At(p, "dispatch")
  /\ phase[Order(p)] = "aborting" /\ abortRevokeRequired[Order(p)]
  /\ Absent(Order(p), "abort") /\ AbortSafe(Order(p)) /\ Perform(p, "abort")
  /\ UNCHANGED <<fileVars, circleVars, chainVars>>

\* The revocation exists already (recover), or abort checks again and submits it.
Revoke(p) ==
  /\ At(p, "dispatch")
  /\ phase[Order(p)] = "aborting" /\ abortRevokeRequired[Order(p)]
  /\ \/ Recovered(Order(p), "abort") /\ Goto(p, "revoked")
     \/ Absent(Order(p), "abort") /\ AbortSafe(Order(p)) /\ Perform(p, "abort")
  /\ UNCHANGED <<fileVars, circleVars, chainVars>>

\* Slip: a phase name that the loader does not know.
ConfirmAbort_Misnamed(p) ==
  /\ At(p, "revoked") /\ phase[Order(p)] = "aborting"
  /\ VerifyAborted(Order(p))
  /\ Persist(Order(p), "cancelled")
  /\ Goto(p, "free_end")
  /\ UNCHANGED <<op, circleVars, chainVars>>

ConfirmAbort(p) ==
  /\ \/ At(p, "revoked")
     \/ At(p, "dispatch") /\ ~abortRevokeRequired[Order(p)]
  /\ phase[Order(p)] = "aborting"
  /\ VerifyAborted(Order(p))
  /\ Persist(Order(p), "aborted")
  /\ Goto(p, "free_end")
  /\ UNCHANGED <<op, circleVars, chainVars>>

ReplayAborted(p) ==
  /\ At(p, "dispatch") /\ phase[Order(p)] = "aborted"
  /\ VerifyAborted(Order(p))
  /\ Goto(p, "free_end")
  /\ UNCHANGED <<fileVars, op, circleVars, chainVars>>

\* release(): unlink the reservation.  Where control goes next depends on the caller.
Release(p) ==
  /\ \/ At(p, "free_end") /\ Exit(p)
     \/ At(p, "free_retry") /\ Goto(p, "dispatch")
     \/ At(p, "free_paid") /\ Goto(p, "deliver")
  /\ reservation' = None
  /\ UNCHANGED <<phase, abortRevokeRequired, output, op, circleVars, chainVars>>

\* Slip: a persisted payment phase is undone without asking for its operation.
RollBack_Unasked(p) ==
  /\ At(p, "dispatch") /\ ~proc[p].abortUnpaid
  /\ phase[Order(p)] = "paying"
  /\ Persist(Order(p), "approved") /\ Goto(p, "dispatch")
  /\ UNCHANGED <<op, circleVars, chainVars>>

\* A phase was persisted but durableOperation never wrote its journal.
RollBack(p) ==
  /\ At(p, "dispatch") /\ ~proc[p].abortUnpaid
  /\ \/ /\ phase[Order(p)] = "approving" /\ Absent(Order(p), "approve")
        /\ Persist(Order(p), "prepared") /\ Goto(p, "free_retry")
     \/ /\ phase[Order(p)] = "paying" /\ Absent(Order(p), "pay")
        /\ Persist(Order(p), "approved") /\ Goto(p, "dispatch")
  /\ UNCHANGED <<op, circleVars, chainVars>>

Preflight(p) ==
  /\ At(p, "dispatch") /\ ~proc[p].abortUnpaid
  /\ \/ phase[Order(p)] \in {"prepared", "approved"}
     \/ phase[Order(p)] = "approving" /\ Present(Order(p), "approve")
  /\ Accepted(Order(p))
  /\ Goto(p, "ready")
  /\ UNCHANGED <<fileVars, op, circleVars, chainVars>>

RecoverApproval(p) ==
  /\ At(p, "ready") /\ phase[Order(p)] = "approving"
  /\ Recovered(Order(p), "approve")
  /\ Persist(Order(p), "approved")
  /\ UNCHANGED <<procVars, circleVars, chainVars>>

\* prepareApproval, then the reservation file and the phase, in that order.
Reserve(p) ==
  /\ At(p, "ready") /\ phase[Order(p)] = "prepared"
  /\ allowance = 0
  /\ reservation' = Order(p)
  /\ Goto(p, "mark")
  /\ UNCHANGED <<phase, abortRevokeRequired, output, op, circleVars, chainVars>>

MarkApproving(p) ==
  /\ At(p, "mark")
  /\ Persist(Order(p), "approving")
  /\ Perform(p, "approve")
  /\ UNCHANGED <<op, circleVars, chainVars>>

\* preparePayment simulates settle with the approved allowance; then the phase.
MarkPaying(p) ==
  /\ At(p, "ready") /\ phase[Order(p)] = "approved"
  /\ Accepted(Order(p)) /\ allowance >= Amount[Order(p)]
  /\ Persist(Order(p), "paying")
  /\ Perform(p, "pay")
  /\ UNCHANGED <<op, circleVars, chainVars>>

\* approve or pay threw and hasOperation is false: undo the phase, and the reservation.
UndoSubmission(p) ==
  /\ At(p, "missing") /\ Absent(Order(p), proc[p].kind)
  /\ \/ proc[p].kind = "approve" /\ Persist(Order(p), "prepared") /\ Goto(p, "free_end")
     \/ proc[p].kind = "pay" /\ Persist(Order(p), "approved") /\ Exit(p)
  /\ UNCHANGED <<op, circleVars, chainVars>>

RecoverPayment(p) ==
  /\ At(p, "dispatch") /\ ~proc[p].abortUnpaid
  /\ phase[Order(p)] = "paying"
  /\ Recovered(Order(p), "pay")
  /\ Persist(Order(p), "paid")
  /\ Goto(p, "verify")
  /\ UNCHANGED <<circleVars, chainVars>>

PaidRun(p) ==
  \/ At(p, "verify")
  \/ At(p, "dispatch") /\ ~proc[p].abortUnpaid /\ phase[Order(p)] \in PaidPhases

\* Slip: the policy is checked again although the order is paid.
VerifyPayment_Preflight(p) ==
  /\ PaidRun(p) /\ Accepted(Order(p))
  /\ Goto(p, "free_paid")
  /\ UNCHANGED <<fileVars, op, circleVars, chainVars>>

\* Slip: a paid order is expected to hold the reservation still.
VerifyPayment_Held(p) ==
  /\ PaidRun(p) /\ settled[Order(p)] > 0 /\ reservation = Order(p)
  /\ Goto(p, "free_paid")
  /\ UNCHANGED <<fileVars, op, circleVars, chainVars>>

\* Slip: the reservation of a paid order is kept.
VerifyPayment_Keeping(p) ==
  /\ PaidRun(p) /\ settled[Order(p)] > 0
  /\ Goto(p, "deliver")
  /\ UNCHANGED <<fileVars, op, circleVars, chainVars>>

VerifyPayment(p) ==
  /\ PaidRun(p) /\ settled[Order(p)] > 0
  /\ Goto(p, "free_paid")
  /\ UNCHANGED <<fileVars, op, circleVars, chainVars>>

Deliver(p) ==
  /\ At(p, "deliver") /\ phase[Order(p)] = "paid"
  /\ served[Order(p)] # None
  /\ output' = [output EXCEPT ![Order(p)] = served[Order(p)]]
  /\ phase' = [phase EXCEPT ![Order(p)] = "delivered"]
  /\ UNCHANGED <<procVars, abortRevokeRequired, reservation, op, circleVars, chainVars>>

\* Slip: the ledger's record is not compared with the stored output.
VerifyDelivery_Uncompared(p) ==
  /\ At(p, "deliver") /\ output[Order(p)] # None
  /\ phase[Order(p)] = "delivered" /\ acked[Order(p)]
  /\ Persist(Order(p), "completed") /\ Exit(p)
  /\ UNCHANGED <<op, circleVars, chainVars>>

\* verifyDelivery: the finalized ledger record holds exactly the stored output.
VerifyDelivery(p) ==
  /\ At(p, "deliver")
  /\ output[Order(p)] # None /\ attested[Order(p)] = output[Order(p)]
  /\ \/ /\ phase[Order(p)] = "delivered" /\ ~acked[Order(p)]
        /\ Persist(Order(p), "acknowledging") /\ Perform(p, "ack")
     \/ /\ phase[Order(p)] = "delivered" /\ acked[Order(p)]
        /\ Persist(Order(p), "completed") /\ Exit(p)
     \/ /\ phase[Order(p)] = "acknowledging"
        /\ Goto(p, "recover_ack") /\ UNCHANGED fileVars
     \/ /\ phase[Order(p)] = "completed" /\ acked[Order(p)]
        /\ Exit(p) /\ UNCHANGED fileVars
  /\ UNCHANGED <<op, circleVars, chainVars>>

\* recover(state,'ack'): there is no roll back when the operation is absent.
RecoverAck(p) ==
  /\ At(p, "recover_ack")
  /\ Recovered(Order(p), "ack") /\ acked[Order(p)]
  /\ Persist(Order(p), "completed")
  /\ Exit(p)
  /\ UNCHANGED <<circleVars, chainVars>>

-----------------------------------------------------------------------------
(* durableOperation, and circleReceipt of what it returns                  *)

\* assertTestnet or the journal write throws before the journal exists.
SubmitFails(p) ==
  /\ At(p, "submit") /\ op[Order(p)][proc[p].kind] = "none"
  /\ IF proc[p].kind \in {"approve", "pay"} THEN Goto(p, "missing") ELSE Exit(p)
  /\ UNCHANGED <<fileVars, op, circleVars, chainVars>>

\* The journal is durable before submit; an operation that has one is never resubmitted.
Submit(p) ==
  /\ At(p, "submit") /\ op[Order(p)][proc[p].kind] = "none"
  /\ op' = [op EXCEPT ![Order(p)][proc[p].kind] = "submitting"]
  /\ Goto(p, "call")
  /\ UNCHANGED <<fileVars, circleVars, chainVars>>

\* The Circle CLI is started with the operation's idempotency key.
Call(p) ==
  /\ At(p, "call")
  /\ calls' = [calls EXCEPT ![Order(p)][proc[p].kind] = @ + 1]
  /\ Goto(p, "answer")
  /\ UNCHANGED <<fileVars, op, tx, chainVars>>

\* Slip: an unusable answer removes the journal, so that a rerun submits again.
Answer_Forgotten(p) ==
  /\ At(p, "answer")
  /\ op' = [op EXCEPT ![Order(p)][proc[p].kind] = "none"]
  /\ Exit(p)
  /\ UNCHANGED <<fileVars, circleVars, chainVars>>

\* It answers with the transaction, or its answer is unusable or late.
Answer(p) ==
  /\ At(p, "answer")
  /\ \/ /\ tx[Order(p)][proc[p].kind] # "none"
        /\ op' = [op EXCEPT ![Order(p)][proc[p].kind] = "submitted"]
        /\ Goto(p, "confirm")
     \/ /\ op' = [op EXCEPT ![Order(p)][proc[p].kind] = "uncertain"]
        /\ Exit(p)
  /\ UNCHANGED <<fileVars, circleVars, chainVars>>

\* circleReceipt returned; the caller persists the next phase.
Confirm(p) ==
  /\ At(p, "confirm")
  /\ Recovered(Order(p), proc[p].kind)
  /\ \/ proc[p].kind = "approve" /\ Persist(Order(p), "approved") /\ Goto(p, "ready")
     \/ proc[p].kind = "pay" /\ Persist(Order(p), "paid") /\ Goto(p, "verify")
     \/ proc[p].kind = "abort" /\ UNCHANGED fileVars /\ Goto(p, "revoked")
     \/ /\ proc[p].kind = "ack" /\ acked[Order(p)]
        /\ Persist(Order(p), "completed") /\ Exit(p)
  /\ UNCHANGED <<circleVars, chainVars>>

\* Any awaited read, poll or check throws; executor.lock is unlinked on the way out.
Throws(p) ==
  /\ proc[p].pc \notin {"off", "call", "answer"}
  /\ Exit(p)
  /\ UNCHANGED <<fileVars, op, circleVars, chainVars>>

\* What a call does next when nothing throws.
Proceed(p) ==
  \/ Load(p) \/ BeginAbort(p) \/ Revoke(p) \/ ConfirmAbort(p) \/ ReplayAborted(p)
  \/ Release(p) \/ RollBack(p) \/ Preflight(p) \/ RecoverApproval(p) \/ Reserve(p)
  \/ MarkApproving(p) \/ MarkPaying(p) \/ UndoSubmission(p) \/ RecoverPayment(p)
  \/ VerifyPayment(p) \/ Deliver(p) \/ VerifyDelivery(p) \/ RecoverAck(p)
  \/ Submit(p) \/ Call(p) \/ Answer(p) \/ Confirm(p)

-----------------------------------------------------------------------------
(* Crashes, the operator, Circle and the chain                             *)

\* The process dies; executor.lock and the Circle operation's own lock stay.
Crash(p) ==
  /\ ~At(p, "off")
  /\ proc' = [proc EXCEPT ![p] = Off]
  /\ UNCHANGED <<lock, fileVars, op, circleVars, chainVars>>

\* An operator verified that the owning process is gone (both lock files).
RemoveStaleLock ==
  /\ lock # None /\ At(lock, "off")
  /\ lock' = None
  /\ UNCHANGED <<proc, fileVars, op, circleVars, chainVars>>

\* Circle accepts a started submission, at once or after the caller has gone.
CircleAccepts(o, k) ==
  /\ calls[o][k] > 0 /\ tx[o][k] = "none"
  /\ tx' = [tx EXCEPT ![o][k] = "pending"]
  /\ UNCHANGED <<procVars, fileVars, op, calls, chainVars>>

\* reconcile, also run by hand without the operation's lock, finds the transaction
\* in Circle's history, whatever became of it.
Reconcile(o, k) ==
  /\ op[o][k] \in {"submitting", "uncertain", "submitted"}
  /\ tx[o][k] # "none"
  /\ op' = [op EXCEPT ![o][k] = IF tx[o][k] = "rejected" THEN "failed" ELSE "submitted"]
  /\ UNCHANGED <<procVars, fileVars, circleVars, chainVars>>

\* Circle reports FAILED, CANCELLED or DENIED; nothing reaches the chain.
Reject(o, k) ==
  /\ tx[o][k] = "pending"
  /\ tx' = [tx EXCEPT ![o][k] = "rejected"]
  /\ UNCHANGED <<procVars, fileVars, op, calls, chainVars>>

MineApproval(o) ==
  /\ tx[o]["approve"] = "pending"
  /\ tx' = [tx EXCEPT ![o]["approve"] = "success"]
  /\ allowance' = Amount[o]
  /\ UNCHANGED <<procVars, fileVars, op, calls, settled, attested, acked, served, voided>>

MineRevocation(o) ==
  /\ tx[o]["abort"] = "pending"
  /\ tx' = [tx EXCEPT ![o]["abort"] = "success"]
  /\ allowance' = 0
  /\ UNCHANGED <<procVars, fileVars, op, calls, settled, attested, acked, served, voided>>

\* settle(): always reverts when stale, already settled or not covered by the
\* allowance, and may revert on a rolling limit or the payer's balance.
MinePayment(o) ==
  /\ tx[o]["pay"] = "pending"
  /\ \/ /\ Accepted(o) /\ allowance >= Amount[o]
        /\ tx' = [tx EXCEPT ![o]["pay"] = "success"]
        /\ settled' = [settled EXCEPT ![o] = @ + 1]
        /\ allowance' = allowance - Amount[o]
     \/ /\ tx' = [tx EXCEPT ![o]["pay"] = "reverted"]
        /\ UNCHANGED <<settled, allowance>>
  /\ UNCHANGED <<procVars, fileVars, op, calls, attested, acked, served, voided>>

\* acknowledgeDelivery(): reverts unless it names the attested output, once.
MineAck(o) ==
  /\ tx[o]["ack"] = "pending"
  /\ IF output[o] # None /\ output[o] = attested[o] /\ ~acked[o]
       THEN /\ tx' = [tx EXCEPT ![o]["ack"] = "success"]
            /\ acked' = [acked EXCEPT ![o] = TRUE]
       ELSE /\ tx' = [tx EXCEPT ![o]["ack"] = "reverted"]
            /\ UNCHANGED acked
  /\ UNCHANGED <<procVars, fileVars, op, calls, allowance, settled, attested, served, voided>>

\* The payer's wallet acknowledges by other means.
AcknowledgeElsewhere(o) ==
  /\ attested[o] # None /\ ~acked[o]
  /\ acked' = [acked EXCEPT ![o] = TRUE]
  /\ UNCHANGED <<procVars, fileVars, op, circleVars, allowance, settled, attested, served, voided>>

\* attestDelivery() by the seller of a paid order, once, with any output it likes.
Attest(o) ==
  /\ settled[o] > 0 /\ attested[o] = None
  /\ \E h \in Outputs : attested' = [attested EXCEPT ![o] = h]
  /\ UNCHANGED <<procVars, fileVars, op, circleVars, allowance, settled, acked, served, voided>>

\* The platform delivers a paid order; a fulfilled order never changes its output.
Serve(o) ==
  /\ settled[o] > 0 /\ served[o] = None
  /\ \E h \in Outputs : served' = [served EXCEPT ![o] = h]
  /\ UNCHANGED <<procVars, fileVars, op, circleVars, allowance, settled, attested, acked, voided>>

\* The deadline passes, or a policy, fee or agent version moves past the stored one:
\* from then on preflight, the simulation and settle() refuse the order.
Void(o) ==
  /\ phase[o] \in UnpaidPhases /\ settled[o] = 0 /\ o \notin voided
  /\ voided' = voided \cup {o}
  /\ UNCHANGED <<procVars, fileVars, op, circleVars, allowance, settled, attested, acked, served>>

World ==
  \/ RemoveStaleLock
  \/ \E o \in Orders : \/ MineApproval(o) \/ MineRevocation(o) \/ MinePayment(o)
                       \/ MineAck(o) \/ AcknowledgeElsewhere(o) \/ Attest(o)
                       \/ Serve(o) \/ Void(o)
                       \/ \E k \in Kinds :
                            CircleAccepts(o, k) \/ Reconcile(o, k) \/ Reject(o, k)

Next ==
  \/ \E p \in Procs :
       \/ \E o \in Orders, abortUnpaid \in BOOLEAN : Invoke(p, o, abortUnpaid)
       \/ Proceed(p) \/ SubmitFails(p) \/ Throws(p) \/ Crash(p)
  \/ World

Spec == Init /\ [][Next]_vars

\* Something other than a failing guard stops a call.
Interrupted(p) ==
  \/ Crash(p) \/ SubmitFails(p)
  \/ Throws(p) /\ ENABLED Proceed(p)

\* The documented way to finish an order is to run the same command again, after removing
\* a dead owner's lock.  Liveness therefore assumes that every order is retried, that a
\* call ends (each wait is bounded), that an abort is not begun again, that Circle and the
\* chain answer, and that interruptions eventually stop.
Fairness ==
  /\ \A p \in Procs :
       /\ WF_vars(Proceed(p))
       /\ WF_vars(Throws(p))
       /\ \A o \in Orders : SF_vars(Invoke(p, o, FALSE))
       /\ <>[][~Interrupted(p)]_vars
  /\ WF_vars(RemoveStaleLock)
  /\ \A o \in Orders :
       /\ WF_vars(MineApproval(o) \/ MineRevocation(o) \/ MinePayment(o) \/ MineAck(o))
       /\ WF_vars(Attest(o)) /\ WF_vars(Serve(o))
       /\ \A k \in Kinds : WF_vars(CircleAccepts(o, k)) /\ WF_vars(Reconcile(o, k))

FairSpec == Spec /\ Fairness

-----------------------------------------------------------------------------
(* What the purchaser promises                                             *)

\* Every variable has its type, and only a call that is on has an order and a kind.
TypeOK ==
  /\ lock \in Procs \cup {None}
  /\ proc \in [Procs -> Activation]
  /\ phase \in [Orders -> Phases]
  /\ abortRevokeRequired \in [Orders -> BOOLEAN]
  /\ output \in [Orders -> Outputs \cup {None}]
  /\ reservation \in Orders \cup {None}
  /\ op \in [Orders -> [Kinds -> OpStatus]]
  /\ tx \in [Orders -> [Kinds -> TxStatus]]
  /\ calls \in [Orders -> [Kinds -> Nat]]
  /\ allowance \in Nat
  /\ settled \in [Orders -> Nat]
  /\ attested \in [Orders -> Outputs \cup {None}]
  /\ acked \in [Orders -> BOOLEAN]
  /\ served \in [Orders -> Outputs \cup {None}]
  /\ voided \in SUBSET Orders

\* However often a run is repeated, crashes, rolls its phase back or is aborted, Circle
\* is called at most once for each operation of an order (durableOperation, hasOperation).
AtMostOneSubmission == \A o \in Orders, k \in Kinds : calls[o][k] <= 1

\* A settled order is never taken for an unpaid or aborted one: its file is at "paying"
\* or beyond, and until the payment is recognised the reservation still names it.
PaymentIsJournalled ==
  \A o \in Orders : settled[o] > 0 =>
    \/ phase[o] \in PaidPhases
    \/ phase[o] = "paying" /\ reservation = o

\* Spending power on the chain always belongs to the reserved order, in its exact amount,
\* so that no order can be settled with the allowance another one asked for.
AllowanceIsReserved ==
  allowance > 0 => reservation # None /\ allowance = Amount[reservation]

\* While a transaction that moves the allowance may still reach the chain, its order
\* holds the reservation: no late approval, payment or revocation meets another order.
MayStillLand(o, k) == op[o][k] # "none" /\ tx[o][k] \in {"none", "pending"}
InFlightIsReserved ==
  \A o \in Orders, k \in {"approve", "pay", "abort"} : MayStillLand(o, k) => reservation = o

\* Both together: what may be spent, and what may still change it, is the reserved order's.
AllowanceIsGuarded == AllowanceIsReserved /\ InFlightIsReserved

\* A completed order was paid exactly once, and the output on file is the one attested
\* by the seller and acknowledged on the ledger.
CompletedIsAcknowledged ==
  \A o \in Orders : phase[o] = "completed" =>
    settled[o] = 1 /\ acked[o] /\ output[o] # None /\ output[o] = attested[o]

\* An order's file never says less, nor more, than what was paid and delivered for it.
FilesAreTrue == PaymentIsJournalled /\ CompletedIsAcknowledged

\* The abstract purchase of an order, read off the files and the chain.
PurchaseStatus(o) ==
  CASE phase[o] = "aborted"   -> "abandoned"
    [] phase[o] = "completed" -> "finished"
    [] OTHER -> IF settled[o] > 0 THEN "paid" ELSE "open"

Granted == IF allowance = 0 THEN None ELSE reservation

Purchase == INSTANCE Purchases WITH
  status  <- [o \in Orders |-> PurchaseStatus(o)],
  granted <- Granted

\* The executor implements Purchases: through every crash and rerun each order is paid
\* at most once, from its own allowance, and an aborted order is never paid.
ImplementsPurchases == Purchase!Spec

-----------------------------------------------------------------------------
(* What reruns eventually achieve                                          *)

\* No rerun can settle this operation: Circle or the chain refused it, or the process
\* died between the journal and the call.  The documents leave it to an inspection.
Lost(o, k) ==
  \/ tx[o][k] \in {"rejected", "reverted"}
  \/ /\ op[o][k] # "none" /\ calls[o][k] = 0
     /\ \A p \in Procs : ~(At(p, "call") /\ Order(p) = o /\ proc[p].kind = k)

\* Another order holds the reservation and cannot give it back by itself.
Stuck(o) == o \in voided \/ \E k \in Kinds : Lost(o, k)
Blocked(o) == reservation \notin {None, o} /\ Stuck(reservation)

\* Money that left the wallet is recognised, and the next order may use the allowance.
PaymentIsRecognised ==
  \A o \in Orders : settled[o] > 0 ~> phase[o] \in PaidPhases /\ reservation # o

\* A paid order reaches the delivered output, whatever interrupted it (deliver, line 71),
\* unless another order is stuck with the reservation.
PaymentIsDelivered ==
  \A o \in Orders : settled[o] > 0 ~> output[o] # None \/ Blocked(o)

\* The reservation that blocks every other order is given back, unless one of the
\* order's operations is lost or the order must be aborted because it was voided.
ReservationIsFreed ==
  \A o \in Orders : reservation = o ~> reservation # o \/ Stuck(o)

\* An abort once begun is finished by plain reruns, even of a voided order.
AbortConcludes ==
  \A o \in Orders : phase[o] = "aborting" ~>
    phase[o] = "aborted" \/ Lost(o, "abort") \/ Blocked(o)

\* docs/task-runner.md: if acknowledgment is interrupted, retrying the same task with the
\* same files finishes it.
AcknowledgmentConcludes ==
  \A o \in Orders : phase[o] = "acknowledging" ~> phase[o] = "completed" \/ Lost(o, "ack")
=============================================================================
