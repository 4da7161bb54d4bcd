-------------------------- MODULE MarketSettlement --------------------------
(***************************************************************************)
(* contracts/ObolosMarketSettlement.sol and ObolosEconomicLedger.sol on    *)
(* top of the policy: an executor reads the terms and versions of an       *)
(* order, submits it later, and one transaction checks the policy, moves   *)
(* the USDC and records the payment.  Anything may happen in between.      *)
(***************************************************************************)
EXTENDS PolicyEnvelope, FiniteSetsExt

CONSTANTS
  Services,    \* a service hash: its seller, category, terms and amount are fixed
  Seller, ServiceCategory, Amount,
  Outputs,     \* output hashes
  OrderLife,   \* seconds from reading the terms to the order's deadline
  Funds        \* USDC of each executor that the settlement may take

ASSUME MarketAssumption ==
  /\ None \notin Services \cup Outputs \cup [owner : Owners, cap : Nat, spent : Nat]
  /\ Seller \in [Services -> Sellers]
  /\ ServiceCategory \in [Services -> Categories]
  /\ Amount \in [Services -> Nat \ {0}]
  /\ OrderLife \in Nat /\ Funds \in Nat
  /\ IsFiniteSet(Sellers) /\ {"reserve", "review"} \cap Sellers = {}

VARIABLES
  services,     \* registered service hashes
  draft,        \* the order an executor is about to submit, or None
  orderHashes,  \* settled order ids
  orders,       \* the ledger: [payer, seller, service, output, acknowledged]
  reputation,   \* the ledger: [paid, delivered, acknowledged] per seller
  funds,        \* USDC left to each executor
  received,     \* USDC that each seller, the reserve and the review pool got
  paid          \* OrderPaid events, with their time and the limits they were held to

ledgerVars == <<orders, reputation>>
token == <<funds, received>>
marketVars == <<services, draft, orderHashes, ledgerVars, token, paid>>
vars == <<policyVars, marketVars>>

Recipients == Sellers \cup {"reserve", "review"}
\* A mapping's default value.
NoRecord == [payer |-> None, seller |-> None, service |-> None, output |-> None,
             acknowledged |-> FALSE]
NoCounts == [paid |-> 0, delivered |-> 0, acknowledged |-> 0]

NoOrders ==
  /\ draft = [e \in Executors |-> None]
  /\ orderHashes = {} /\ orders = [o \in Orders |-> NoRecord]
  /\ reputation = [s \in Sellers |-> NoCounts]
  /\ funds = [e \in Executors |-> Funds]
  /\ received = [r \in Recipients |-> 0]
  /\ paid = {}

Init == PolicyInit /\ services = {} /\ NoOrders

\* A step of the policy contract alone.
Policy(A) == A /\ UNCHANGED marketVars

RegisterService(s) ==
  /\ s \notin services
  /\ services' = services \cup {s}
  /\ UNCHANGED <<policyVars, draft, orderHashes, ledgerVars, token, paid>>

\* What the buyer relies on: the policy, the mandate and the sellers it allows.
Terms(a) == [enabled |-> marketEnabled, fees |-> fees, categories |-> categories,
             mandate |-> [agents[a] EXCEPT !.spent = 0], sellers |-> counterparties[a]]

\* The executor reads everything at one block, and keeps the order for later.  Obolos' own
\* buyer also refuses an order that could not be settled now; the contracts must do without.
ReadTerms(e, o, a, s) ==
  /\ s \in services
  /\ draft' = [draft EXCEPT ![e] =
       [order |-> o, agent |-> a, service |-> s, deadline |-> now + OrderLife,
        policyVersion |-> policyVersion, agentVersion |-> agentVersions[a],
        feeVersion |-> feeVersion, read |-> Terms(a)]]
  /\ UNCHANGED <<policyVars, services, orderHashes, ledgerVars, token, paid>>

Share(amount, bps) == (amount * bps) \div 10000

\* Slip: the seller's part is a share of its own.
Parts_ThreeShares(amount) ==
  [reserve |-> Share(amount, fees.reserve), review |-> Share(amount, fees.review),
   seller |-> Share(amount, 10000 - fees.reserve - fees.review)]

\* All rounding dust belongs to the seller.
Parts(amount) ==
  LET r == Share(amount, fees.reserve)
      v == Share(amount, fees.review)
  IN  [reserve |-> r, review |-> v, seller |-> amount - r - v]

Transfers(e, seller, amount) ==
  LET parts == Parts(amount)
      part(r) == IF r \in {"reserve", "review"} THEN parts[r]
                 ELSE IF r = seller THEN parts.seller ELSE 0
  IN  /\ funds[e] >= amount
      /\ funds' = [funds EXCEPT ![e] = @ - parts.seller - parts.reserve - parts.review]
      /\ received' = [r \in Recipients |-> received[r] + part(r)]

\* Slip: payer and seller are swapped.
RecordPaid_Swapped(o, e, s) ==
  /\ orders[o].seller = None
  /\ orders' = [orders EXCEPT ![o] = [payer |-> Seller[s], seller |-> e, service |-> s,
                                      output |-> None, acknowledged |-> FALSE]]
  /\ reputation' = [reputation EXCEPT ![Seller[s]].paid = @ + 1]

\* recordPaid
RecordPaid(o, e, s) ==
  /\ orders[o].seller = None
  /\ orders' = [orders EXCEPT ![o] = [payer |-> e, seller |-> Seller[s], service |-> s,
                                      output |-> None, acknowledged |-> FALSE]]
  /\ reputation' = [reputation EXCEPT ![Seller[s]].paid = @ + 1]

Settle(e) ==
  LET d == draft[e]  s == d.service  c == ServiceCategory[s]  amount == Amount[s] IN
  /\ d # None
  /\ now <= d.deadline /\ d.feeVersion = feeVersion /\ d.order \notin orderHashes
  /\ s \in services
  /\ Consumable(d.order, d.agent, e, c, Seller[s], amount, d.policyVersion, d.agentVersion)
  /\ Consume(d.order, d.agent, c, amount)
  /\ orderHashes' = orderHashes \cup {d.order}
  /\ Transfers(e, Seller[s], amount)
  /\ RecordPaid(d.order, e, s)
  /\ paid' = paid \cup {[order |-> d.order, agent |-> d.agent, payer |-> e, service |-> s,
                         at |-> now, grant |-> agents[d.agent], terms |-> categories[c]]}
  /\ UNCHANGED <<services, draft>>

\* Slip: a later attestation replaces the first.
AttestDelivery_Replaces(o, output) ==
  /\ orders[o].seller # None
  /\ orders[o].output # output
  /\ orders' = [orders EXCEPT ![o].output = output]
  /\ reputation' = [reputation EXCEPT ![orders[o].seller].delivered = @ + 1]
  /\ UNCHANGED <<policyVars, services, draft, orderHashes, token, paid>>

\* Sent by the order's seller.
AttestDelivery(o, output) ==
  /\ orders[o].seller # None
  /\ orders[o].output = None
  /\ orders' = [orders EXCEPT ![o].output = output]
  /\ reputation' = [reputation EXCEPT ![orders[o].seller].delivered = @ + 1]
  /\ UNCHANGED <<policyVars, services, draft, orderHashes, token, paid>>

\* Sent by the order's payer.
AcknowledgeDelivery(o, output) ==
  /\ orders[o].seller # None
  /\ output = orders[o].output /\ ~orders[o].acknowledged
  /\ orders' = [orders EXCEPT ![o].acknowledged = TRUE]
  /\ reputation' = [reputation EXCEPT ![orders[o].seller].acknowledged = @ + 1]
  /\ UNCHANGED <<policyVars, services, draft, orderHashes, token, paid>>

Next ==
  \/ Policy(Tick)
  \/ \E edit \in Edits : Policy(SignPolicyDigest(edit))
  \/ \E c \in Categories, terms \in CategoryTerms : Policy(SetCategory(c, terms))
  \/ \E f \in Fees : Policy(SetFees(f))
  \/ Policy(Resume)
  \/ Policy(EmergencyPause)
  \/ \E e \in Executors, owner \in Owners : Policy(BindExecutor(e, owner))
  \/ \E a \in Agents, e \in Executors, grant \in Grants : Policy(RegisterAgent(a, e, grant))
  \/ \E a \in Agents, e \in Executors, active \in BOOLEAN, grant \in Grants :
       Policy(SetAgent(a, e, active, grant))
  \/ \E a \in Agents, c \in Categories, seller \in Sellers, allowed \in BOOLEAN :
       Policy(SetCounterparty(a, c, seller, allowed))
  \/ \E s \in Services : RegisterService(s)
  \/ \E e \in Executors, o \in Orders, a \in Agents, s \in Services : ReadTerms(e, o, a, s)
  \/ \E e \in Executors : Settle(e)
  \/ \E o \in Orders, output \in Outputs :
       AttestDelivery(o, output) \/ AcknowledgeDelivery(o, output)

Spec == Init /\ [][Next]_vars

\* A market in use, as the approver's and an owner's first transactions leave it: the terms of
\* every category, e enrolled for h, a registered and its sellers allowed, services registered.
Configured ==
  /\ now = 1
  /\ marketEnabled = TRUE /\ policyVersion = 3 /\ approvalNonce = 2
  /\ fees = [reserve |-> 300, review |-> 200] /\ feeVersion = 1
  /\ categories \in [Categories -> CategoryTerms]
  /\ categoryWindows = [c \in Categories |-> NoWindow]
  /\ \E a \in Agents, e \in Executors, h \in Owners, grant \in Grants :
       /\ executorOwners = [[x \in Executors |-> None] EXCEPT ![e] = h]
       /\ agents = [[x \in Agents |-> NoAgent] EXCEPT ![a] =
            [owner |-> h, executor |-> e, active |-> TRUE, spent |-> 0,
             totalCap |-> grant.totalCap, windowCap |-> grant.windowCap,
             windowSeconds |-> grant.windowSeconds]]
       /\ agentVersions = [[x \in Agents |-> 0] EXCEPT ![a] = 2]
       /\ counterparties = [[x \in Agents |-> {}] EXCEPT ![a] = Categories \X Sellers]
  /\ agentWindows = [a \in Agents |-> NoWindow]
  /\ consumed = {} /\ signed = {} /\ services = Services /\ NoOrders

ConfiguredSpec == Configured /\ [][Next]_vars

-----------------------------------------------------------------------------
(* Properties                                                              *)

Drafts == [order : Orders, agent : Agents, service : Services, deadline : Nat,
           policyVersion : Nat, agentVersion : Nat, feeVersion : Nat,
           read : [enabled : BOOLEAN, fees : FeesStruct, categories : [Categories -> Policies],
                   mandate : Limits, sellers : SUBSET (Categories \X Sellers)]]
Records == [payer : Executors \cup {None}, seller : Sellers \cup {None},
            service : Services \cup {None},
            output : Outputs \cup {None}, acknowledged : BOOLEAN]
Payments == [order : Orders, agent : Agents, payer : Executors, service : Services,
             at : Nat, grant : Limits, terms : Policies]

MarketTypeOK ==
  /\ services \subseteq Services /\ draft \in [Executors -> Drafts \cup {None}]
  /\ orderHashes \subseteq Orders /\ orders \in [Orders -> Records]
  /\ reputation \in [Sellers -> [paid : Nat, delivered : Nat, acknowledged : Nat]]
  /\ funds \in [Executors -> Nat] /\ received \in [Recipients -> Nat]
  /\ paid \subseteq Payments

\* The state has the shape the contracts' storage declarations give it; in particular no amount
\* of USDC is ever negative, whatever the shares of fees were.
TypeOK == PolicyTypeOK /\ MarketTypeOK

Total(S) == MapThenSumSet(LAMBDA c : Amount[c.service], S)
PaidBy(a) == {c \in paid : c.agent = a}
PaidIn(category) == {c \in paid : ServiceCategory[c.service] = category}

\* However settlements, refusals and edits alternate, the policy's mark, the settlement's mark,
\* the ledger's record and the event name the same orders with the same payer and service
\* (the four writes of one settlement, in three contracts).
SameOrders ==
  /\ consumed = orderHashes
  /\ {o \in Orders : orders[o].seller # None} = orderHashes
  /\ {c.order : c \in paid} = orderHashes
  /\ \A c \in paid : /\ orders[c.order].payer = c.payer
                     /\ orders[c.order].service = c.service
                     /\ orders[c.order].seller = Seller[c.service]

\* The sums agree as well, whatever the fees were: what the mandates have spent, what left the
\* executors and what sellers, reserve and review pool got is what the orders cost.
SameAmounts ==
  /\ \A a \in Agents : agents[a].spent = Total(PaidBy(a))
  /\ \A e \in Executors : Funds - funds[e] = Total({c \in paid : c.payer = e})
  /\ SumFunctionOnSet(received, Recipients) = Total(paid)

\* Whoever paid is still enrolled for the owner of the agent it paid for: no sequence of
\* enrolments, registrations and changes of executor lets one owner's executor spend under
\* another owner's agent (bindExecutor's one-time enrolment).
PayersAreEnrolled ==
  \A c \in paid : executorOwners[c.payer] # None
                 /\ executorOwners[c.payer] = agents[c.agent].owner

\* Over all fee changes, reserve and review together got at most a tenth (MAX_FEE_BPS) of
\* what was paid.
SellersKeepTheirShare == 10 * (received["reserve"] + received["review"]) <= Total(paid)

\* Fixed windows let a burst straddle two of them and no more: what is paid in any period no
\* longer than the windows then in force is at most twice the largest cap then in force.
TwoWindowsAtMost(S, cap(_), seconds(_)) ==
  \A from \in 1..now, length \in 1..now :
    LET C == {c \in S : from <= c.at /\ c.at < from + length}
    IN  (C # {} /\ \A c \in C : length <= seconds(c)) => \E c \in C : Total(C) <= 2 * cap(c)

\* This is so for each agent and each category, through any edits of caps and lengths
\* (_consumeWindow; "Preserve spending across policy edits").
RateIsBounded ==
  /\ \A a \in Agents : TwoWindowsAtMost(PaidBy(a), LAMBDA c : c.grant.windowCap,
                                                   LAMBDA c : c.grant.windowSeconds)
  /\ \A k \in Categories : TwoWindowsAtMost(PaidIn(k), LAMBDA c : c.terms.windowCap,
                                                       LAMBDA c : c.terms.windowSeconds)

\* Of two payments of one agent, or in one category, the later one waited the delay that its
\* category then demanded (_consumeWindow's test of w.last).
OrdersAreSpaced ==
  \A c, d \in paid :
    c # d /\ (c.agent = d.agent \/ ServiceCategory[c.service] = ServiceCategory[d.service])
      => \/ d.at >= c.at + d.terms.delaySeconds
         \/ c.at >= d.at + c.terms.delaySeconds

\* A seller's public counts are those of its orders on record: one delivery for an order at
\* most, however often it is attested, and an acknowledgment only of a delivery.
ReputationCounts ==
  \A s \in Sellers :
    LET mine == {o \in Orders : orders[o].seller = s}
        delivered == {o \in mine : orders[o].output # None}
    IN  reputation[s] = [paid |-> Cardinality(mine), delivered |-> Cardinality(delivered),
                         acknowledged |-> Cardinality({o \in delivered : orders[o].acknowledged})]

\* Sums and counts together: every book of the market tells of the same payments.
BooksAgree == SameAmounts /\ SellersKeepTheirShare /\ ReputationCounts

\* An order is settled only under the very policy, mandate and sellers its buyer read, although
\* the transaction names no more than three version numbers.
SettledAsRead ==
  [][\A c \in paid' \ paid : draft[c.payer].order = c.order
                           /\ draft[c.payer].read = Terms(c.agent)]_vars

Edited(conf, edit) ==
  CASE edit.kind = "CATEGORY" -> [conf EXCEPT !.categories[edit.category] = edit.terms]
    [] edit.kind = "FEES" -> [conf EXCEPT !.fees = edit.fees]
    [] edit.kind = "RESUME" -> [conf EXCEPT !.enabled = TRUE]
    [] OTHER -> [conf EXCEPT !.executorOwners[edit.executor] = edit.owner]

\* Apart from pausing, the platform changes only by an edit that the approver signed while
\* looking at the version it replaces: not at an earlier one, not before a pause, and never
\* twice ("every emergency pause also advances the nonce").
EditsAreOfWhatWasSigned ==
  [][Configuration' # Configuration =>
       \/ Configuration' = [Configuration EXCEPT !.enabled = FALSE]
       \/ \E p \in signed : p.sight = Sight /\ Configuration' = Edited(Configuration, p.edit)]_vars

Mandates ==
  INSTANCE SpendingMandates WITH
    Caps <- {g.totalCap : g \in Grants},
    Amounts <- {Amount[s] : s \in Services},
    open <- marketEnabled,
    mandate <- [a \in Agents |-> IF agents[a].owner = None THEN None
                                ELSE [owner |-> agents[a].owner, cap |-> agents[a].totalCap,
                                      spent |-> agents[a].spent]],
    order <- [o \in Orders |->
      IF orders[o].seller = None THEN [payer |-> None, stage |-> "new"]
      ELSE [payer |-> orders[o].payer,
            stage |-> IF orders[o].acknowledged THEN "accepted"
                      ELSE IF orders[o].output # None THEN "delivered" ELSE "paid"]]

\* The contracts implement the promise to the owner: paid once, from a mandate with room, on
\* an open market; delivered once; accepted after that.
ImplementsMandates == Mandates!Spec
=============================================================================
