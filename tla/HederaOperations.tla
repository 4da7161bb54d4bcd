--------------------------- MODULE HederaOperations ---------------------------
(***************************************************************************)
(* The operator's native operations (scripts/hedera-register.ts and        *)
(* hedera-commerce.ts): topics, profiles, anchors of payments, tokens and  *)
(* scheduled payments, each a durable operation that is signed and journalled before it is     *)
(* dispatched and afterwards only ever looked up; and the delivery of a    *)
(* scheduled payment by the platform, which never signs anything itself.   *)
(***************************************************************************)
EXTENDS DataService

CONSTANTS
  Operations, Needs,   \* and for each the operations its command does first
  Rounds, PlanPrice,   \* those that schedule a payment, and the plan's price
  Anchored,            \* those that anchor a payment, and its purchase
  Retries,             \* those that repeat another one, after its proven failure
  Operators, Asked,    \* processes of the operator, and what each is asked to do
  Deliveries           \* delivery requests at work at the same time

ASSUME OperationAssumption ==
  /\ Operations # {} /\ Rounds \subseteq Operations
  /\ Needs \in [Operations -> SUBSET Operations]
  /\ \A o \in Rounds : Needs[o] \subseteq Rounds
  /\ Asked \in [Operators -> SUBSET Operations]
  /\ PlanPrice \in Prices
  /\ DOMAIN Anchored \subseteq Operations
  /\ \A o \in DOMAIN Anchored : Anchored[o] \in Runs
  /\ DOMAIN Retries \subseteq Operations
  /\ \A o \in DOMAIN Retries : Retries[o] \in Operations

VARIABLES
  worker,      \* the operator's processes
  intent,      \* an operation's journal
  opLock,      \* its process lock
  dispatches,  \* how often a transaction for it was sent
  confirmed,   \* operations that the network executed
  refused,     \* operations whose fee proved insufficient
  due,         \* rounds whose time has not come yet
  published,   \* rounds in schedules-public.json
  calm,        \* no more interruptions by chance
  executed,    \* rounds whose payment the network made
  request,     \* delivery requests of the platform
  delivered    \* platform_scheduled_deliveries

operationVars == <<worker, intent, opLock, dispatches, confirmed, refused, published>>
roundVars == <<due, executed, request, delivered, calm>>

OffDuty == [at |-> "idle", op |-> CHOOSE o \in Operations : TRUE]
Unasked == [at |-> "free", op |-> CHOOSE o \in Operations : TRUE]

OperationsInit ==
  /\ worker = [p \in Operators |-> OffDuty]
  /\ intent = [o \in Operations |-> "none"]
  /\ opLock = [o \in Operations |-> "free"]
  /\ dispatches = [o \in Operations |-> 0]
  /\ confirmed = {} /\ refused = {} /\ published = {}
  /\ due = Rounds /\ executed = {}
  /\ request = [d \in Deliveries |-> Unasked]
  /\ delivered = {} /\ calm = FALSE

\* A receipt or the mirror node shows the operation; it proves the payment of
\* a round.
Seen(o) == o \in confirmed
Proven(o) == o \in executed

\* The mirror node shows the exact payment of a purchase that is to be anchored,
AuditProven(r) == \E t \in transferred : payments[t].run = r

\* or that an operation definitively created nothing.
FailureProven(o) == o \in refused

\* An operation is repeated because it was not confirmed.
Permitted_Unconfirmed(o) ==
  /\ o \in DOMAIN Anchored => AuditProven(Anchored[o])
  /\ o \in DOMAIN Retries => intent[Retries[o]] = "signed"

\* What has to be proven before an operation is taken up.
Permitted(o) ==
  /\ o \in DOMAIN Anchored => AuditProven(Anchored[o])
  /\ o \in DOMAIN Retries => FailureProven(Retries[o])

\* A command starts with an operation of its own, or with the first round of
\* the plan; the rounds follow in order.
Turn(p, o) ==
  \/ worker[p].at = "idle" /\ Needs[o] \cap Rounds = {}
  \/ worker[p].at = "published" /\ Needs[o] = Needs[worker[p].op] \cup {worker[p].op}

\* A schedule whose time has passed is not looked up any more.
Ready_Ahead(p, o) ==
  /\ Turn(p, o) /\ o \in wanted \cap Asked[p] /\ Permitted(o)
  /\ \A n \in Needs[o] : intent[n] = "done"
  /\ opLock[o] # "held"
  /\ o \in Rounds => o \in due

\* The command may take up an operation: nobody holds its lock, and a schedule
\* that was never signed is still ahead of its time.
Ready(p, o) ==
  /\ Turn(p, o) /\ o \in wanted \cap Asked[p]
  /\ \A n \in Needs[o] : intent[n] = "done"
  /\ opLock[o] # "held"
  /\ Permitted(o)
  /\ intent[o] = "none" /\ o \in Rounds => o \in due

\* An operation that was not confirmed is signed again.
BeginOperation_Afresh(p, o) ==
  /\ Ready(p, o)
  /\ opLock' = [opLock EXCEPT ![o] = "held"]
  /\ worker' = [worker EXCEPT ![p] =
       [at |-> IF intent[o] # "done" THEN "signing" ELSE "recovering", op |-> o]]
  /\ UNCHANGED <<intent, dispatches, confirmed, refused, published>>

\* An operation's lock is taken and its journal read.  Without a journal the
\* transaction is signed now, a schedule only ahead of its time; with one the
\* original transaction is looked up.
BeginOperation(p, o) ==
  /\ Ready(p, o)
  /\ opLock' = [opLock EXCEPT ![o] = "held"]
  /\ worker' = [worker EXCEPT ![p] =
       [at |-> IF intent[o] = "none" THEN "signing" ELSE "recovering", op |-> o]]
  /\ UNCHANGED <<intent, dispatches, confirmed, refused, published>>

\* Signed bytes and identity are saved, then dispatched.
SaveIntent(p) ==
  /\ worker[p].at = "signing"
  /\ intent' = [intent EXCEPT ![worker[p].op] = "signed"]
  /\ worker' = [worker EXCEPT ![p].at = "saved"]
  /\ UNCHANGED <<opLock, dispatches, confirmed, refused, published>>

Dispatch(p) ==
  /\ worker[p].at = "saved"
  /\ dispatches' = [dispatches EXCEPT ![worker[p].op] = @ + 1]
  /\ worker' = [worker EXCEPT ![p].at = "dispatched"]
  /\ UNCHANGED <<intent, opLock, confirmed, refused, published>>

\* The receipt, or the mirror's record of the same transaction, is the result.
Confirm(p) ==
  LET o == worker[p].op IN
  /\ worker[p].at \in {"dispatched", "recovering"}
  /\ Seen(o)
  /\ intent' = [intent EXCEPT ![o] = "done"]
  /\ opLock' = [opLock EXCEPT ![o] = "free"]
  /\ worker' = [worker EXCEPT ![p] = IF o \in Rounds THEN [@ EXCEPT !.at = "created"] ELSE OffDuty]
  /\ UNCHANGED <<dispatches, confirmed, refused, published>>

\* After each round the list of schedules is written.
Publish(p) ==
  /\ worker[p].at = "created"
  /\ published' = Needs[worker[p].op] \cup {worker[p].op}
  /\ worker' = [worker EXCEPT ![p].at = "published"]
  /\ UNCHANGED <<intent, opLock, dispatches, confirmed, refused>>

\* A command ends when there is nothing more it can do,
Ended(p) ==
  \/ worker[p].at \in {"dispatched", "recovering"} /\ ~Seen(worker[p].op)
  \/ worker[p].at = "published" /\ ~\E o \in Operations : Ready(p, o)

\* or at any moment with an exception or a death.
StopOperation(p) ==
  /\ worker[p].at # "idle"
  /\ calm => Ended(p)
  /\ worker' = [worker EXCEPT ![p] = OffDuty]
  /\ \E left \in {"free", "dead"} :
       opLock' = IF worker[p].at \in {"created", "published"} THEN opLock
                 ELSE [opLock EXCEPT ![worker[p].op] = left]
  /\ UNCHANGED <<intent, dispatches, confirmed, refused, published>>

\* The network accepts a dispatched transaction, possibly late; a schedule
\* only before its expiry.
Consensus(o) ==
  /\ dispatches[o] > 0 /\ o \notin confirmed \cup refused
  /\ o \in Rounds => o \in due
  /\ confirmed' = confirmed \cup {o}
  /\ UNCHANGED <<worker, intent, opLock, dispatches, refused, published>>

\* It charges the fee and does nothing where the fee's limit is too low.
InsufficientFee(o) ==
  /\ dispatches[o] > 0 /\ o \notin confirmed \cup refused
  /\ refused' = refused \cup {o}
  /\ UNCHANGED <<worker, intent, opLock, dispatches, confirmed, published>>

\* A round's time comes, and the network pays what was scheduled for it if the
\* account has the means.
RoundIsDue(o) ==
  /\ o \in due \cap wanted
  /\ due' = due \ {o}
  /\ executed' \in {executed, executed \cup ({o} \cap confirmed)}
  /\ UNCHANGED <<request, delivered, calm>>

----------------------------------------------------------------------------
\* The buyer asks for the published rounds in order, and stops at the first
\* that is not delivered.  A recorded one is answered from its row; otherwise
\* price and payment are checked,
RequestDelivery(d, o) ==
  /\ request[d].at = "free" /\ o \in published \ delivered
  /\ Needs[o] \cap Rounds \subseteq delivered
  /\ price = PlanPrice
  /\ Proven(o)
  /\ request' = [request EXCEPT ![d] = [at |-> "proven", op |-> o]]
  /\ UNCHANGED <<due, executed, delivered, calm>>

\* and the evidence is fetched and recorded with its proof.
RecordDelivery(d) ==
  /\ request[d].at = "proven"
  /\ delivered' = delivered \cup {request[d].op}
  /\ request' = [request EXCEPT ![d] = Unasked]
  /\ UNCHANGED <<due, executed, calm>>

StopDelivery(d) ==
  /\ request[d].at = "proven" /\ ~calm
  /\ request' = [request EXCEPT ![d] = Unasked]
  /\ UNCHANGED <<due, executed, delivered, calm>>

Calm ==
  /\ wanted \cap Operations # {}
  /\ ~calm /\ calm' = TRUE
  /\ UNCHANGED <<due, executed, request, delivered>>

Operator(p) ==
  /\ \/ \E o \in Operations : BeginOperation(p, o)
     \/ SaveIntent(p) \/ Dispatch(p) \/ Confirm(p) \/ Publish(p) \/ StopOperation(p)
  /\ UNCHANGED roundVars

Delivery(d) ==
  /\ \/ \E o \in Rounds : RequestDelivery(d, o)
     \/ RecordDelivery(d) \/ StopDelivery(d)
  /\ UNCHANGED operationVars

OperationsNext ==
  \/ \E p \in Operators : Operator(p)
  \/ \E o \in Operations : (Consensus(o) \/ InsufficientFee(o)) /\ UNCHANGED roundVars
  \/ \E o \in Rounds : RoundIsDue(o) /\ UNCHANGED operationVars
  \/ \E d \in Deliveries : Delivery(d)
  \/ Calm /\ UNCHANGED operationVars

----------------------------------------------------------------------------
OperationsTypeOK ==
  /\ worker \in [Operators -> [at : {"idle", "signing", "saved", "dispatched",
                                     "recovering", "created", "published"}, op : Operations]]
  /\ intent \in [Operations -> {"none", "signed", "done"}]
  /\ opLock \in [Operations -> {"free", "held", "dead"}]
  /\ dispatches \in [Operations -> Nat]
  /\ confirmed \subseteq Operations /\ refused \subseteq Operations \ confirmed
  /\ due \subseteq Rounds /\ published \subseteq Rounds
  /\ calm \in BOOLEAN
  /\ executed \subseteq Rounds /\ delivered \subseteq Rounds
  /\ request \in [Deliveries -> [at : {"free", "proven"}, op : Operations]]

\* No durable operation is dispatched twice, whatever died in between: one
\* topic, one anchor of a message, one payment for a round; and where a failed
\* creation may be repeated, only one of the two ever created anything.
DispatchedOnce ==
  /\ \A o \in Operations : dispatches[o] <= 1
  /\ \A o \in DOMAIN Retries \cap confirmed : Retries[o] \notin confirmed

\* Whatever is anchored was paid.
AnchorsAreTrue == \A o \in DOMAIN Anchored \cap confirmed : AuditProven(Anchored[o])

\* A round that was paid is delivered, as long as the operator finishes its
\* command, the buyer keeps asking and the price stays, or becomes again, the
\* plan's; unless an earlier round could not be paid, at which the loop stops.
RoundDelivered ==
  \/ price # PlanPrice
  \/ \A o \in Rounds : {o} \cup (Needs[o] \cap Rounds) \subseteq executed
                         => o \in delivered
=============================================================================
