----------------------------- MODULE DataService -----------------------------
(***************************************************************************)
(* The metered repository service and the native network behind it: as    *)
(* part of the platform (platform/data-service.ts), with its rows in the   *)
(* database, or standalone (services/data-service.ts), with a file for     *)
(* every payment and neither offers nor tokens.  A client posts a signed transfer; any number *)
(* of requests may carry the same one.  A request handler checks the terms *)
(* it would ask for now, fetches the evidence, inserts the permanent row   *)
(* of the transaction, hands it to the facilitator once, and marks the row *)
(* settled with the evidence.  The service may stop at every await, and an *)
(* answer may be lost.                                                     *)
(*                                                                         *)
(* A transaction is the index of its signature in payments; an offer the   *)
(* index of its issue in offers, 0 where a purchase has none.              *)
(***************************************************************************)
EXTENDS Naturals, Sequences, FiniteSets

CONSTANTS
  Runs,        \* purchases, each with a journal of its own
  Wishes,      \* the sets of purchases and operations that may be set out to do
  TokenRuns,   \* those paid in the test token, whose price is provisioned once
  RequestOf,   \* the payer and request id that a negotiated purchase carries
  Prices,      \* the prices an operator may set for all of a request's units
  TokenPrice,
  Allowance,   \* the most that a purchase may cost
  Handlers,    \* service requests at work at the same time
  MaxOffers, MaxSigned   \* bounds: offers the seller issues, transfers signed

ASSUME DataAssumption ==
  /\ Runs # {} /\ TokenRuns \subseteq Runs
  /\ Prices # {} /\ Prices \subseteq Nat \ {0}
  /\ TokenPrice \in Nat \ {0}
  /\ Allowance \in [Runs -> Nat]
  /\ MaxOffers \in Nat /\ MaxSigned \in Nat

VARIABLES
  wanted,       \* what this behaviour sets out to do
  standalone,   \* the service runs by itself
  price,        \* platform_service_prices, or prices.json
  offers,       \* every offer the seller signed, and whether it is in time
  payments,     \* every transfer a client signed
  posted,       \* transactions sent to the service; a request may be repeated
  handler,      \* each request at work
  row,          \* platform_service_payments, or the payment's file
  submitted,    \* transactions the facilitator was asked to settle
  transferred,  \* transactions executed on the network
  answered      \* transactions whose successful answer was sent

serviceVars == <<standalone, handler, row, submitted, answered>>

Offer == [run : Runs, amount : Nat, live : BOOLEAN]
Payment == [run : Runs, offer : 0 .. MaxOffers, amount : Nat]
Txs == 1 .. MaxSigned

Free == [tx |-> 0, at |-> "free"]

ServiceInit ==
  /\ wanted \in Wishes
  /\ standalone \in BOOLEAN
  /\ standalone => wanted \subseteq Runs \ (TokenRuns \cup DOMAIN RequestOf)
  /\ price \in Prices
  /\ offers = << >>
  /\ payments = << >>
  /\ posted = {}
  /\ handler = [s \in Handlers |-> Free]
  /\ row = [t \in Txs |-> "none"]
  /\ submitted = {} /\ transferred = {} /\ answered = {}

\* The operator changes the native price; a file of prices is written and
\* renamed in turn before the new price counts.
UpdatePrice == ~standalone /\ price' \in Prices \ {price}
SavePrice == standalone /\ price' \in Prices \ {price}

ChangePrice ==
  /\ UpdatePrice \/ SavePrice
  /\ UNCHANGED <<wanted, offers, payments, posted, serviceVars, transferred>>

\* An offer's minute is over.
OfferExpires(i) ==
  /\ i \in DOMAIN offers /\ offers[i].live
  /\ offers' = [offers EXCEPT ![i].live = FALSE]
  /\ UNCHANGED <<wanted, price, payments, posted, serviceVars, transferred>>

\* What the service would charge for purchase r at this moment.
Quote(r) == IF r \in TokenRuns THEN TokenPrice ELSE price

InTime(i) == i # 0 => offers[i].live

\* An A2A offer still authorises the request it was posted with.
OfferHolds(i) == i # 0 => offers[i].live /\ offers[i].amount = price

\* The terms of a purchase as the service states and compares them.
TermsHold(r, i, amount) == OfferHolds(i) /\ amount = Quote(r)

----------------------------------------------------------------------------
\* A paid request is read and its terms compared.
Admit(s, t) ==
  /\ ~standalone
  /\ handler[s] = Free
  /\ t \in posted
  /\ TermsHold(payments[t].run, payments[t].offer, payments[t].amount)
  /\ handler' = [handler EXCEPT ![s] = [tx |-> t, at |-> "verified"]]
  /\ UNCHANGED <<row, submitted, answered>>

Conflicts_SameOffer(t) ==
  \E u \in Txs : /\ row[u] # "none"
                 /\ \/ u = t
                    \/ /\ payments[u].offer # 0 /\ payments[t].offer # 0
                       /\ payments[u].offer = payments[t].offer

\* The unique indexes of the table: transaction, offer, payer and request.
Conflicts(t) ==
  \E u \in Txs : /\ row[u] # "none"
                 /\ \/ u = t
                    \/ /\ payments[u].offer # 0 /\ payments[t].offer # 0
                       /\ \/ payments[u].offer = payments[t].offer
                          \/ RequestOf[payments[u].run] = RequestOf[payments[t].run]

\* The evidence is fetched, the offer checked again, the row inserted.
Reserve(s) ==
  LET t == handler[s].tx IN
  /\ ~standalone /\ handler[s].at = "verified"
  /\ InTime(payments[t].offer)
  /\ ~Conflicts(t)
  /\ row' = [row EXCEPT ![t] = "pending"]
  /\ handler' = [handler EXCEPT ![s].at = "reserved"]
  /\ UNCHANGED <<submitted, answered>>

\* The offer is not looked at again after the row was inserted.
Settle_Late(s) ==
  LET t == handler[s].tx IN
  /\ handler[s].at = "reserved"
  /\ submitted' = submitted \cup {t}
  /\ handler' = [handler EXCEPT ![s].at = "settling"]
  /\ UNCHANGED <<row, answered>>

\* With the row in place and the offer still in time the facilitator is
\* asked, once.
Settle(s) ==
  LET t == handler[s].tx IN
  /\ ~standalone /\ handler[s].at = "reserved"
  /\ InTime(payments[t].offer)
  /\ submitted' = submitted \cup {t}
  /\ handler' = [handler EXCEPT ![s].at = "settling"]
  /\ UNCHANGED <<row, answered>>

\* The facilitator's word is taken before anything was executed.
Answer_Early(s) ==
  LET t == handler[s].tx IN
  /\ handler[s].at = "settling"
  /\ row' = [row EXCEPT ![t] = IF @ = "pending" THEN "settled" ELSE @]
  /\ answered' = answered \cup {t}
  /\ handler' = [handler EXCEPT ![s] = Free]
  /\ UNCHANGED submitted

\* The facilitator reports success: the row is settled, the answer sent.
Answer(s) ==
  LET t == handler[s].tx IN
  /\ ~standalone /\ handler[s].at = "settling" /\ t \in transferred
  /\ row' = [row EXCEPT ![t] = IF @ = "pending" THEN "settled" ELSE @]
  /\ answered' = answered \cup {t}
  /\ handler' = [handler EXCEPT ![s] = Free]
  /\ UNCHANGED submitted

----------------------------------------------------------------------------
(* The standalone service.                                                 *)

AdmitAlone(s, t) ==
  /\ standalone
  /\ handler[s] = Free /\ t \in posted
  /\ payments[t].amount = Quote(payments[t].run)
  /\ handler' = [handler EXCEPT ![s] = [tx |-> t, at |-> "verified"]]
  /\ UNCHANGED <<row, submitted, answered>>

\* The payment's file is opened for writing whether or not it exists.
CreateFile_Shared(s) ==
  /\ standalone /\ handler[s].at = "verified"
  /\ row' = [row EXCEPT ![handler[s].tx] = "pending"]
  /\ handler' = [handler EXCEPT ![s].at = "reserved"]
  /\ UNCHANGED <<submitted, answered>>

\* The evidence is fetched and the payment's file created, which can only be
\* done once.
CreateFile(s) ==
  /\ standalone /\ handler[s].at = "verified"
  /\ row[handler[s].tx] = "none"
  /\ row' = [row EXCEPT ![handler[s].tx] = "pending"]
  /\ handler' = [handler EXCEPT ![s].at = "reserved"]
  /\ UNCHANGED <<submitted, answered>>

SettleAlone(s) ==
  /\ standalone /\ handler[s].at = "reserved"
  /\ submitted' = submitted \cup {handler[s].tx}
  /\ handler' = [handler EXCEPT ![s].at = "settling"]
  /\ UNCHANGED <<row, answered>>

AnswerAlone(s) ==
  LET t == handler[s].tx IN
  /\ standalone /\ handler[s].at = "settling" /\ t \in transferred
  /\ row' = [row EXCEPT ![t] = "settled"]
  /\ answered' = answered \cup {t}
  /\ handler' = [handler EXCEPT ![s] = Free]
  /\ UNCHANGED submitted

----------------------------------------------------------------------------
\* A refusal, an uncertain settlement or a stopped function ends a request
\* where it is; the row it inserted stays pending for ever.
Abandon(s) ==
  /\ handler[s] # Free
  /\ handler' = [handler EXCEPT ![s] = Free]
  /\ UNCHANGED <<row, submitted, answered>>

Request(s) ==
  /\ \/ \E t \in posted : Admit(s, t) \/ AdmitAlone(s, t)
     \/ Reserve(s) \/ Settle(s) \/ Answer(s) \/ Abandon(s)
     \/ CreateFile(s) \/ SettleAlone(s) \/ AnswerAlone(s)
  /\ UNCHANGED <<wanted, standalone, price, offers, payments, posted, transferred>>

\* The network executes a submitted transfer, also when nobody waits any more.
Transfer(t) ==
  /\ t \in submitted \ transferred
  /\ transferred' = transferred \cup {t}
  /\ UNCHANGED <<wanted, price, offers, payments, posted, serviceVars>>

Service ==
  \/ ChangePrice
  \/ \E i \in 1 .. MaxOffers : OfferExpires(i)
  \/ \E s \in Handlers : Request(s)
  \/ \E t \in Txs : Transfer(t)

ServiceTypeOK ==
  /\ wanted \in Wishes /\ standalone \in BOOLEAN
  /\ price \in Prices
  /\ offers \in Seq(Offer) /\ Len(offers) <= MaxOffers
  /\ payments \in Seq(Payment) /\ Len(payments) <= MaxSigned
  /\ posted \subseteq DOMAIN payments
  /\ handler \in [Handlers -> [tx : {0} \cup posted,
                               at : {"free", "verified", "reserved", "settling"}]]
  /\ row \in [Txs -> {"none", "pending", "settled"}]
  /\ transferred \subseteq submitted /\ submitted \subseteq posted
  /\ answered \subseteq transferred
=============================================================================
