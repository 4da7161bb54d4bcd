---------------------------- MODULE HederaPurchases ----------------------------
(***************************************************************************)
(* The three private buyers of repository evidence, against DataService:   *)
(*   - purchaseHederaData, the native purchase of a run or of an offer;    *)
(*   - the A2A buyer, which negotiates an offer with the stateless seller  *)
(*     of hedera/a2a.ts and then makes that native purchase;               *)
(*   - purchaseHtsRepositories, which pays in a token under a process lock *)
(*     and can recover what it paid for.                                   *)
(* Each keeps a permanent journal and must not sign or send a second       *)
(* transfer for it, whatever is interrupted and however often the command  *)
(* is run.  Two purchases may carry one request id: two hosts of one payer *)
(* that do not share a disk.                                               *)
(***************************************************************************)
EXTENDS DataService

CONSTANTS
  Negotiated,  \* purchases that negotiate an offer first
  Procs,       \* buyer processes
  Disk         \* the purchases whose journals are on the disk of a process

ASSUME BuyerAssumption ==
  /\ Negotiated \subseteq Runs \ TokenRuns
  /\ RequestOf \in [Negotiated -> Runs]
  /\ Disk \in [Procs -> SUBSET Runs]

VARIABLES
  proc,        \* the buyer processes
  operation,   \* the A2A journal of a negotiated purchase
  journal,     \* the purchase journals, one for each run and offer
  lock,        \* the lock of a token purchase: free, held or left by the dead
  authorised   \* runs whose mandate has not expired

buyerVars == <<proc, operation, journal, lock, authorised>>
vars == <<wanted, price, offers, payments, posted, serviceVars, transferred, buyerVars>>

Journals == Runs \X (0 .. MaxOffers)
Native == Runs \ TokenRuns
Status == {"none", "intent", "signed", "received", "settled"}
Steps == {"idle", "negotiating", "proposed", "agreed", "accepted", "buying", "intended",
          "signed", "sent", "received", "recovering", "bought"}

Begun(p) == wanted \cap Disk[p]
Key(p) == <<proc[p].run, proc[p].offer>>
Idle(p) == proc[p].at = "idle"
Working(p, step, kind) == proc[p].at = step /\ proc[p].run \in kind
At(p, step) == proc' = [proc EXCEPT ![p].at = step]
Note(k, status) == journal' = [journal EXCEPT ![k].status = status]

Resting == [at |-> "idle", run |-> CHOOSE r \in Runs : TRUE, offer |-> 0, amount |-> 0]
Rest(p) == proc' = [proc EXCEPT ![p] = Resting]

BuyerInit ==
  /\ proc = [p \in Procs |-> Resting]
  /\ operation = [r \in Negotiated |-> "none"]
  /\ journal = [k \in Journals |-> [status |-> "none", tx |-> 0]]
  /\ lock = [r \in TokenRuns |-> "free"]
  /\ authorised = Runs

\* The price asked now is within what the purchase may cost.
Affordable(r) == Quote(r) <= Allowance[r]

\* The service's answer names the transaction and carries the evidence; the
\* mirror node shows the exact transfer.
Answered(t) == t \in answered
Mirrored(t) == t \in transferred

\* The mandate of a purchase: a negotiated one is given its offer's expiry.
Active(p) == IF proc[p].offer = 0 THEN proc[p].run \in authorised
                                  ELSE offers[proc[p].offer].live

----------------------------------------------------------------------------
(* Negotiation.                                                            *)

\* The operation's file is created exclusively, before any message.
Negotiate(p, r) ==
  /\ Idle(p) /\ r \in Negotiated \cap Begun(p) /\ r \in authorised
  /\ operation[r] = "none"
  /\ operation' = [operation EXCEPT ![r] = "negotiating"]
  /\ proc' = [proc EXCEPT ![p] = [at |-> "negotiating", run |-> r, offer |-> 0, amount |-> 0]]
  /\ UNCHANGED offers

\* The seller's endpoint asks the data service for the price of every request it parses.
SellerQuote(r) == Quote(r)

\* The offer that the seller signs for a request.
Signed(r) == [run |-> r, amount |-> SellerQuote(r), live |-> TRUE]

\* The seller quotes the current price and signs an offer for a minute; it
\* remembers nothing.  Above the buyer's maximum it makes a counteroffer and
\* the buyer stops.
Propose(p) ==
  LET r == proc[p].run IN
  /\ Working(p, "negotiating", Negotiated)
  /\ r \in authorised
  /\ SellerQuote(r) <= Allowance[r]
  /\ Len(offers) < MaxOffers
  /\ offers' = Append(offers, Signed(r))
  /\ proc' = [proc EXCEPT ![p].at = "proposed", ![p].offer = Len(offers) + 1]
  /\ UNCHANGED operation

\* The buyer compares an offer with its own proposal.
ValidOffer(r, i) == offers[i].live /\ offers[i].run = r /\ offers[i].amount <= Allowance[r]

\* The seller recognises an offer it signed, and accepts it for the payer and
\* request it was made to.
VerifiedOffer(i) == offers[i].live
AcceptanceAnswered(r, i) == VerifiedOffer(i) /\ RequestOf[offers[i].run] = RequestOf[r]

Accept(p) ==
  /\ Working(p, "proposed", Negotiated)
  /\ ValidOffer(proc[p].run, proc[p].offer)
  /\ AcceptanceAnswered(proc[p].run, proc[p].offer)
  /\ At(p, "agreed")
  /\ UNCHANGED <<offers, operation>>

SaveAccepted(p) ==
  /\ Working(p, "agreed", Negotiated)
  /\ ValidOffer(proc[p].run, proc[p].offer)
  /\ operation' = [operation EXCEPT ![proc[p].run] = "accepted"]
  /\ At(p, "accepted")
  /\ UNCHANGED offers

\* The accepted offer goes to the native purchase, under a journal of its own;
\* its unpaid request is challenged for the offer's amount.
PurchaseAccepted(p) ==
  /\ Working(p, "accepted", Negotiated)
  /\ Active(p)
  /\ journal[Key(p)].status = "none"
  /\ TermsHold(proc[p].run, proc[p].offer, offers[proc[p].offer].amount)
  /\ proc' = [proc EXCEPT ![p].at = "buying", ![p].amount = offers[proc[p].offer].amount]
  /\ UNCHANGED <<offers, operation>>

Complete(p) ==
  /\ Working(p, "bought", Negotiated)
  /\ operation' = [operation EXCEPT ![proc[p].run] = "completed"]
  /\ Rest(p)
  /\ UNCHANGED offers

Negotiation(p) ==
  /\ \/ \E r \in Runs : Negotiate(p, r)
     \/ Propose(p) \/ Accept(p) \/ SaveAccepted(p) \/ PurchaseAccepted(p) \/ Complete(p)
  /\ UNCHANGED <<payments, posted, journal, lock, authorised>>

----------------------------------------------------------------------------
(* The native purchase.                                                    *)

\* Whatever the service asks is paid.
Open_AnyPrice(p, r) ==
  /\ Idle(p) /\ r \in Begun(p) \cap (Native \ Negotiated) /\ r \in authorised
  /\ journal[<<r, 0>>].status = "none"
  /\ proc' = [proc EXCEPT ![p] = [at |-> "buying", run |-> r, offer |-> 0, amount |-> Quote(r)]]
  /\ UNCHANGED <<payments, posted, journal, lock>>

\* No journal exists and the unpaid request is challenged for the price the
\* run has approved.
Open(p, r) ==
  /\ Idle(p) /\ r \in Begun(p) \cap (Native \ Negotiated) /\ r \in authorised
  /\ journal[<<r, 0>>].status = "none"
  /\ Affordable(r)
  /\ proc' = [proc EXCEPT ![p] = [at |-> "buying", run |-> r, offer |-> 0, amount |-> Quote(r)]]
  /\ UNCHANGED <<payments, posted, journal, lock>>

\* The file is created or written over.
Intend_Shared(p) ==
  /\ Working(p, "buying", Native)
  /\ Note(Key(p), "intent")
  /\ At(p, "intended")
  /\ UNCHANGED <<payments, posted, lock>>

\* The journal is created exclusively, before anything is signed.
Intend(p) ==
  /\ Working(p, "buying", Native)
  /\ journal[Key(p)].status = "none"
  /\ Note(Key(p), "intent")
  /\ At(p, "intended")
  /\ UNCHANGED <<payments, posted, lock>>

\* The transfer is signed, and its transaction saved before it may be sent.
SaveSigned(p) ==
  /\ Len(payments) < MaxSigned
  /\ payments' = Append(payments, [run |-> proc[p].run, offer |-> proc[p].offer,
                                   amount |-> proc[p].amount])
  /\ journal' = [journal EXCEPT ![Key(p)] = [status |-> "signed", tx |-> Len(payments) + 1]]
  /\ At(p, "signed")
  /\ UNCHANGED <<posted, lock>>

Sign(p) == Working(p, "intended", Native) /\ Active(p) /\ SaveSigned(p)

\* One paid request, if the mandate is still in force.
Send(p) ==
  /\ Working(p, "signed", Native)
  /\ Active(p)
  /\ posted' = posted \cup {journal[Key(p)].tx}
  /\ At(p, "sent")
  /\ UNCHANGED <<payments, journal, lock>>

\* The mirror alone is taken for the answer.
Settled_Unanswered(p) ==
  /\ Working(p, "sent", Native)
  /\ Mirrored(journal[Key(p)].tx)
  /\ Note(Key(p), "settled")
  /\ IF proc[p].run \in Negotiated THEN At(p, "bought") ELSE Rest(p)
  /\ UNCHANGED <<payments, posted, lock>>

\* The answer names the signed transaction and the mirror proves the transfer.
Settled(p) ==
  /\ Working(p, "sent", Native)
  /\ Answered(journal[Key(p)].tx) /\ Mirrored(journal[Key(p)].tx)
  /\ Note(Key(p), "settled")
  /\ IF proc[p].run \in Negotiated THEN At(p, "bought") ELSE Rest(p)
  /\ UNCHANGED <<payments, posted, lock>>

----------------------------------------------------------------------------
(* The token purchase.                                                     *)

\* No lock at all.
Acquire_Shared(r) == lock' = [lock EXCEPT ![r] = "held"]

\* A process lock is taken when it is free or its owner is dead.
Acquire(r) == lock[r] # "held" /\ lock' = [lock EXCEPT ![r] = "held"]

\* The approved terms of a token purchase are within its bound, and are what
\* the service asks for; its mandate, which has no offer, is in force.
Bounded(r) == TokenPrice <= Allowance[r]
ExactTerms(r) == Quote(r) = TokenPrice
TokenActive(r) == r \in authorised

\* The answer, or where it was lost the service's stored receipt, carries the
\* evidence for the transaction; the mirror node shows the exact transfer.
Received(t) == t \in answered
StoredReceipt(t) == row[t] = "settled"
TokenMirrored(t) == t \in transferred

TokenBegin(p, r) ==
  /\ Idle(p) /\ r \in Begun(p) \cap TokenRuns
  /\ Bounded(r)
  /\ Acquire(r)
  /\ \/ /\ journal[<<r, 0>>].status = "none" /\ TokenActive(r)
        /\ ExactTerms(r)
        /\ proc' = [proc EXCEPT ![p] = [at |-> "buying", run |-> r, offer |-> 0,
                                        amount |-> TokenPrice]]
     \/ /\ journal[<<r, 0>>].status \in {"signed", "received"}
        /\ proc' = [proc EXCEPT ![p] = [at |-> "recovering", run |-> r, offer |-> 0,
                                        amount |-> TokenPrice]]
  /\ UNCHANGED <<payments, posted, journal>>

TokenIntend(p) ==
  /\ Working(p, "buying", TokenRuns)
  /\ journal[Key(p)].status = "none"
  /\ Note(Key(p), "intent")
  /\ At(p, "intended")
  /\ UNCHANGED <<payments, posted, lock>>

TokenSign(p) == Working(p, "intended", TokenRuns) /\ TokenActive(proc[p].run) /\ SaveSigned(p)

TokenSend(p) ==
  /\ Working(p, "signed", TokenRuns)
  /\ TokenActive(proc[p].run)
  /\ posted' = posted \cup {journal[Key(p)].tx}
  /\ At(p, "sent")
  /\ UNCHANGED <<payments, journal, lock>>

\* The answer is saved before the mirror is asked.
TokenReceived(p) ==
  /\ Working(p, "sent", TokenRuns)
  /\ Received(journal[Key(p)].tx)
  /\ Note(Key(p), "received")
  /\ At(p, "received")
  /\ UNCHANGED <<payments, posted, lock>>

TokenSettled(p) ==
  /\ Working(p, "received", TokenRuns)
  /\ TokenMirrored(journal[Key(p)].tx)
  /\ Note(Key(p), "settled")
  /\ Rest(p)
  /\ lock' = [lock EXCEPT ![proc[p].run] = "free"]
  /\ UNCHANGED <<payments, posted>>

\* Recovery needs the saved answer.
Recover_Saved(p) ==
  LET j == journal[Key(p)] IN
  /\ Working(p, "recovering", TokenRuns)
  /\ TokenMirrored(j.tx) /\ j.status = "received"
  /\ Note(Key(p), "settled")
  /\ Rest(p)
  /\ lock' = [lock EXCEPT ![proc[p].run] = "free"]
  /\ UNCHANGED <<payments, posted>>

\* Recovery asks for the original transfer, and where the answer was lost for
\* the service's stored receipt.
Recover(p) ==
  LET j == journal[Key(p)] IN
  /\ Working(p, "recovering", TokenRuns)
  /\ TokenMirrored(j.tx)
  /\ j.status = "received" \/ StoredReceipt(j.tx)
  /\ Note(Key(p), "settled")
  /\ Rest(p)
  /\ lock' = [lock EXCEPT ![proc[p].run] = "free"]
  /\ UNCHANGED <<payments, posted>>

----------------------------------------------------------------------------
\* A failed check, an exception or the death of the process: the journals stay
\* as they are, and so does the lock of a process that died.
Stop(p) ==
  /\ ~Idle(p)
  /\ Rest(p)
  /\ IF proc[p].run \in TokenRuns
       THEN \E left \in {"free", "dead"} : lock' = [lock EXCEPT ![proc[p].run] = left]
       ELSE UNCHANGED lock
  /\ UNCHANGED <<payments, posted, journal>>

Purchase(p) ==
  /\ \/ \E r \in Runs : Open(p, r) \/ TokenBegin(p, r)
     \/ Intend(p) \/ Sign(p) \/ Send(p) \/ Settled(p)
     \/ TokenIntend(p) \/ TokenSign(p) \/ TokenSend(p)
     \/ TokenReceived(p) \/ TokenSettled(p) \/ Recover(p)
     \/ Stop(p)
  /\ UNCHANGED <<offers, operation, authorised>>

Buyer(p) ==
  /\ Negotiation(p) \/ Purchase(p)
  /\ UNCHANGED <<wanted, price, serviceVars, transferred>>

\* A mandate expires, and with it every offer made under it.
MandateExpires(r) ==
  /\ r \in authorised \cap wanted
  /\ authorised' = authorised \ {r}
  /\ offers' = [i \in DOMAIN offers |->
                 IF offers[i].run = r THEN [offers[i] EXCEPT !.live = FALSE] ELSE offers[i]]
  /\ UNCHANGED <<wanted, price, payments, posted, serviceVars, transferred,
                 proc, operation, journal, lock>>

PurchasesInit == ServiceInit /\ BuyerInit

PurchasesNext ==
  \/ Service /\ UNCHANGED buyerVars
  \/ \E p \in Procs : Buyer(p)
  \/ \E r \in Runs : MandateExpires(r)

----------------------------------------------------------------------------
BuyerTypeOK ==
  /\ proc \in [Procs -> [at : Steps, run : Runs, offer : 0 .. MaxOffers, amount : Nat]]
  /\ operation \in [Negotiated -> {"none", "negotiating", "accepted", "completed"}]
  /\ journal \in [Journals -> [status : Status, tx : {0} \cup DOMAIN payments]]
  /\ lock \in [TokenRuns -> {"free", "held", "dead"}]
  /\ authorised \subseteq Runs

\* A purchase signs one transfer at most, through crashes, repeated commands
\* and two processes at once: nothing uncertain is ever paid for again.
SignedOnce ==
  \A t, u \in DOMAIN payments : payments[t].run = payments[u].run => t = u

\* One negotiated request is settled once, although the seller is stateless and
\* may have signed several offers for it, also to hosts that do not share a
\* journal.
RequestSettledOnce ==
  \A t, u \in submitted :
    payments[t].offer # 0 /\ payments[u].offer # 0
      /\ RequestOf[payments[t].run] = RequestOf[payments[u].run] => t = u

\* What the facilitator is asked to transfer is what the buyer agreed to, and
\* within its allowance, whatever happened to the price meanwhile.
PaidAsAgreed ==
  \A t \in submitted :
    /\ payments[t].amount <= Allowance[payments[t].run]
    /\ LET i == payments[t].offer IN
       i # 0 => offers[i].run = payments[t].run /\ offers[i].amount = payments[t].amount

\* A purchase that its buyer holds as settled was transferred and is settled at
\* the service with the evidence; and so is a completed operation.
SettledIsPaid ==
  /\ \A k \in Journals : journal[k].status \in {"received", "settled"} =>
       row[journal[k].tx] = "settled" /\ journal[k].tx \in transferred
  /\ \A r \in Negotiated : operation[r] = "completed" =>
       \E i \in DOMAIN offers : offers[i].run = r /\ journal[<<r, i>>].status = "settled"

\* No transfer is submitted to the network under an offer that has expired.
SettledInTime == \A t \in submitted' \ submitted : InTime(payments[t].offer)

\* A journal only moves forward, through recovery and a purchase at the same
\* time as well, and never changes its transaction.
Order == [none |-> 0, intent |-> 1, signed |-> 2, received |-> 3, settled |-> 4]
JournalsMoveForward ==
  \A k \in Journals :
    /\ Order[journal[k].status] <= Order[journal'[k].status]
    /\ journal[k].tx # 0 => journal'[k].tx = journal[k].tx

\* A token purchase that the service has settled is delivered to its buyer by
\* reruns of the command, also after its answer was lost and its mandate expired.
TokenDelivered ==
  \A t \in DOMAIN payments :
    payments[t].run \in TokenRuns /\ row[t] = "settled"
      => journal[<<payments[t].run, 0>>].status = "settled"
=============================================================================
