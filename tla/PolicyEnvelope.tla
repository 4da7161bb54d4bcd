--------------------------- MODULE PolicyEnvelope ---------------------------
(***************************************************************************)
(* contracts/ObolosPolicyEnvelope.sol: what the platform and the owners of *)
(* agents allow to be spent, and what has been spent of it.  A transaction *)
(* is one step, and one that reverts is none.  The deployed contract is    *)
(* wired to its settlement contract, which is the only caller of consume:  *)
(* MarketSettlement takes Consumable and Consume into its Settle.          *)
(***************************************************************************)
EXTENDS Integers, FiniteSets

CONSTANTS
  Agents, Executors, Owners, Sellers, Categories, Orders,
  CategoryTerms,   \* values of the struct Category the approver may sign
  Grants,          \* [totalCap, windowCap, windowSeconds] an owner may give
  Fees,            \* [reserve, review] in basis points the approver may sign
  ApprovalLife,    \* seconds from a signature to its deadline
  MaxTime,         \* bounds of the model: block time,
  MaxSigned,       \*   signatures given,
  MaxVersion,      \*   policyVersion,
  MaxAgentVersion, \*   agentVersions
  None

MAX_FEE_BPS == 1000

CategoryStruct == [enabled : BOOLEAN, perOrderCap : Nat, windowCap : Nat,
                   windowSeconds : Nat \ {0}, delaySeconds : Nat]
GrantStruct == [totalCap : Nat, windowCap : Nat, windowSeconds : Nat \ {0}]
FeesStruct == [reserve : Nat, review : Nat]

ASSUME PolicyAssumption ==
  /\ None \notin Agents \cup Executors \cup Owners \cup Sellers \cup Categories \cup Orders
  /\ CategoryTerms \subseteq CategoryStruct
  /\ Grants \subseteq GrantStruct
  /\ Fees \subseteq FeesStruct
  /\ ApprovalLife \in Nat /\ MaxTime \in Nat \ {0} /\ MaxSigned \in Nat
  /\ MaxVersion \in Nat /\ MaxAgentVersion \in Nat

VARIABLES
  now,                           \* block.timestamp
  marketEnabled, policyVersion, approvalNonce, fees, feeVersion,
  categories, categoryWindows,
  executorOwners, agents, agentVersions, agentWindows, counterparties,
  consumed,                      \* order ids
  signed                         \* signatures of the approver the controller holds

platform == <<marketEnabled, policyVersion, approvalNonce, fees, feeVersion, categories>>
mandates == <<agents, agentVersions, counterparties>>
spending == <<categoryWindows, agentWindows, consumed>>
policyVars == <<now, platform, executorOwners, mandates, spending, signed>>

\* A mapping's default values.
NoCategory == [enabled |-> FALSE, perOrderCap |-> 0, windowCap |-> 0,
               windowSeconds |-> 0, delaySeconds |-> 0]
NoWindow == [start |-> 0, spent |-> 0, last |-> 0]
NoAgent == [owner |-> None, executor |-> None, active |-> FALSE, totalCap |-> 0,
            spent |-> 0, windowCap |-> 0, windowSeconds |-> 0]

PolicyInit ==
  /\ now = 1
  /\ marketEnabled = TRUE /\ policyVersion = 1 /\ approvalNonce = 0
  /\ fees = [reserve |-> 300, review |-> 200] /\ feeVersion = 1
  /\ categories = [c \in Categories |-> NoCategory]
  /\ categoryWindows = [c \in Categories |-> NoWindow]
  /\ executorOwners = [e \in Executors |-> None]
  /\ agents = [a \in Agents |-> NoAgent]
  /\ agentVersions = [a \in Agents |-> 0]
  /\ agentWindows = [a \in Agents |-> NoWindow]
  /\ counterparties = [a \in Agents |-> {}]
  /\ consumed = {}
  /\ signed = {}

Tick ==
  /\ now < MaxTime
  /\ now' = now + 1
  /\ UNCHANGED <<platform, executorOwners, mandates, spending, signed>>

-----------------------------------------------------------------------------
(* The platform: every edit needs a signature, a pause needs none          *)

Edits ==
  [kind : {"CATEGORY"}, category : Categories, terms : CategoryTerms]
    \cup [kind : {"FEES"}, fees : Fees]
    \cup [kind : {"RESUME"}]
    \cup [kind : {"EXECUTOR_OWNER"}, executor : Executors, owner : Owners]

\* Everything a signature can change.
Configuration == [enabled |-> marketEnabled, fees |-> fees, categories |-> categories,
                  executorOwners |-> executorOwners]

\* What the approver looks at: the platform of which the nonce is read.
Sight == [version |-> policyVersion, configuration |-> Configuration]

\* The controller's script reads the nonce and the approver signs the edit's digest for it.
\* Anything in between makes the signature useless, so both are one step.
SignPolicyDigest(edit) ==
  /\ Cardinality(signed) < MaxSigned
  /\ signed' = signed \cup {[edit |-> edit, nonce |-> approvalNonce,
                             deadline |-> now + ApprovalLife, sight |-> Sight]}
  /\ UNCHANGED <<now, platform, executorOwners, mandates, spending>>

\* _approve
Approve(edit) ==
  /\ \E p \in signed : p.edit = edit /\ p.nonce = approvalNonce /\ now <= p.deadline
  /\ policyVersion < MaxVersion
  /\ approvalNonce' = approvalNonce + 1
  /\ policyVersion' = policyVersion + 1

SetCategory(c, terms) ==
  /\ Approve([kind |-> "CATEGORY", category |-> c, terms |-> terms])
  /\ categories' = [categories EXCEPT ![c] = terms]
  /\ UNCHANGED <<now, marketEnabled, fees, feeVersion, executorOwners, mandates,
                 spending, signed>>

\* Slip: the combined limit is not enforced.
SetFees_Unlimited(f) ==
  /\ Approve([kind |-> "FEES", fees |-> f])
  /\ fees' = f
  /\ feeVersion' = feeVersion + 1
  /\ UNCHANGED <<now, marketEnabled, categories, executorOwners, mandates, spending, signed>>

SetFees(f) ==
  /\ f.reserve + f.review <= MAX_FEE_BPS
  /\ Approve([kind |-> "FEES", fees |-> f])
  /\ fees' = f
  /\ feeVersion' = feeVersion + 1
  /\ UNCHANGED <<now, marketEnabled, categories, executorOwners, mandates, spending, signed>>

Resume ==
  /\ Approve([kind |-> "RESUME"])
  /\ marketEnabled' = TRUE
  /\ UNCHANGED <<now, fees, feeVersion, categories, executorOwners, mandates, spending, signed>>

\* Slip: signatures given before the pause stay good.
EmergencyPause_KeepsNonce ==
  /\ policyVersion < MaxVersion
  /\ marketEnabled' = FALSE
  /\ policyVersion' = policyVersion + 1
  /\ UNCHANGED <<now, approvalNonce, fees, feeVersion, categories, executorOwners, mandates,
                 spending, signed>>

\* By the guardian or the controller, with no signature.
EmergencyPause ==
  /\ policyVersion < MaxVersion
  /\ marketEnabled' = FALSE
  /\ policyVersion' = policyVersion + 1
  /\ approvalNonce' = approvalNonce + 1
  /\ UNCHANGED <<now, fees, feeVersion, categories, executorOwners, mandates, spending, signed>>

\* Slip: an executor can be enrolled again, for another owner.
BindExecutor_Again(e, owner) ==
  /\ Approve([kind |-> "EXECUTOR_OWNER", executor |-> e, owner |-> owner])
  /\ executorOwners' = [executorOwners EXCEPT ![e] = owner]
  /\ UNCHANGED <<now, marketEnabled, fees, feeVersion, categories, mandates, spending, signed>>

BindExecutor(e, owner) ==
  /\ executorOwners[e] = None
  /\ Approve([kind |-> "EXECUTOR_OWNER", executor |-> e, owner |-> owner])
  /\ executorOwners' = [executorOwners EXCEPT ![e] = owner]
  /\ UNCHANGED <<now, marketEnabled, fees, feeVersion, categories, mandates, spending, signed>>

-----------------------------------------------------------------------------
(* The owners                                                              *)

\* Sent by executorOwners[e], who becomes the owner of the agent.
RegisterAgent(a, e, grant) ==
  /\ executorOwners[e] # None
  /\ agents[a].owner = None
  /\ agents' = [agents EXCEPT ![a] =
       [owner |-> executorOwners[e], executor |-> e, active |-> TRUE, spent |-> 0,
        totalCap |-> grant.totalCap, windowCap |-> grant.windowCap,
        windowSeconds |-> grant.windowSeconds]]
  /\ agentVersions' = [agentVersions EXCEPT ![a] = 1]
  /\ UNCHANGED <<now, platform, executorOwners, counterparties, spending, signed>>

\* SetAgent and SetCounterparty are sent by agents[a].owner.
SetAgent(a, e, active, grant) ==
  /\ agents[a].owner # None
  /\ executorOwners[e] = agents[a].owner
  /\ grant.totalCap >= agents[a].spent
  /\ agentVersions[a] < MaxAgentVersion
  /\ agents' = [agents EXCEPT ![a] =
       [@ EXCEPT !.executor = e, !.active = active, !.totalCap = grant.totalCap,
                 !.windowCap = grant.windowCap, !.windowSeconds = grant.windowSeconds]]
  /\ agentVersions' = [agentVersions EXCEPT ![a] = @ + 1]
  /\ UNCHANGED <<now, platform, executorOwners, counterparties, spending, signed>>

\* Slip: the agent's version stays.
SetCounterparty_Unversioned(a, c, seller, allowed) ==
  /\ agents[a].owner # None
  /\ counterparties' = [counterparties EXCEPT ![a] =
       IF allowed THEN @ \cup {<<c, seller>>} ELSE @ \ {<<c, seller>>}]
  /\ UNCHANGED <<now, platform, executorOwners, agents, agentVersions, spending, signed>>

SetCounterparty(a, c, seller, allowed) ==
  /\ agents[a].owner # None
  /\ agentVersions[a] < MaxAgentVersion
  /\ counterparties' = [counterparties EXCEPT ![a] =
       IF allowed THEN @ \cup {<<c, seller>>} ELSE @ \ {<<c, seller>>}]
  /\ agentVersions' = [agentVersions EXCEPT ![a] = @ + 1]
  /\ UNCHANGED <<now, platform, executorOwners, agents, spending, signed>>

-----------------------------------------------------------------------------
(* consume                                                                 *)

\* Slip: the total restarts and the anchor stays.
Renewed_Unanchored(w, seconds) ==
  IF w.start = 0 THEN [w EXCEPT !.start = now]
  ELSE IF now >= w.start + seconds THEN [w EXCEPT !.spent = 0] ELSE w

\* A window is anchored at its first charge and lasts seconds.
Renewed(w, seconds) ==
  IF w.start = 0 \/ now >= w.start + seconds
    THEN [w EXCEPT !.start = now, !.spent = 0] ELSE w

\* Slip: the delay counts from the start of the window.
Admits_FromStart(w, amount, cap, seconds, delay) ==
  /\ w.last # 0 => now >= w.start + delay
  /\ Renewed(w, seconds).spent + amount <= cap

Admits(w, amount, cap, seconds, delay) ==
  /\ w.last # 0 => now >= w.last + delay
  /\ Renewed(w, seconds).spent + amount <= cap

Charged(w, amount, seconds) ==
  [Renewed(w, seconds) EXCEPT !.spent = @ + amount, !.last = now]

\* Slip: the pause is left to the version.
Consumable_Paused(o, a, e, c, seller, amount, version, agentVersion) ==
  LET agent == agents[a]  terms == categories[c] IN
  /\ version = policyVersion /\ agentVersion = agentVersions[a] /\ o \notin consumed
  /\ executorOwners[e] = agent.owner /\ e = agent.executor /\ agent.active
  /\ <<c, seller>> \in counterparties[a]
  /\ terms.enabled /\ amount > 0 /\ amount <= terms.perOrderCap
  /\ agent.spent + amount <= agent.totalCap
  /\ Admits(agentWindows[a], amount, agent.windowCap, agent.windowSeconds, terms.delaySeconds)
  /\ Admits(categoryWindows[c], amount, terms.windowCap, terms.windowSeconds,
            terms.delaySeconds)

Consumable(o, a, e, c, seller, amount, version, agentVersion) ==
  LET agent == agents[a]  terms == categories[c] IN
  /\ marketEnabled
  /\ version = policyVersion /\ agentVersion = agentVersions[a] /\ o \notin consumed
  /\ executorOwners[e] = agent.owner /\ e = agent.executor /\ agent.active
  /\ <<c, seller>> \in counterparties[a]
  /\ terms.enabled /\ amount > 0 /\ amount <= terms.perOrderCap
  /\ agent.spent + amount <= agent.totalCap
  /\ Admits(agentWindows[a], amount, agent.windowCap, agent.windowSeconds, terms.delaySeconds)
  /\ Admits(categoryWindows[c], amount, terms.windowCap, terms.windowSeconds,
            terms.delaySeconds)

\* Slip: the order id is left to the settlement's own mark.
Consume_Unmarked(o, a, c, amount) ==
  /\ agentWindows' = [agentWindows EXCEPT ![a] = Charged(@, amount, agents[a].windowSeconds)]
  /\ categoryWindows' =
       [categoryWindows EXCEPT ![c] = Charged(@, amount, categories[c].windowSeconds)]
  /\ agents' = [agents EXCEPT ![a].spent = @ + amount]
  /\ UNCHANGED <<now, platform, executorOwners, agentVersions, counterparties, consumed, signed>>

Consume(o, a, c, amount) ==
  /\ agentWindows' = [agentWindows EXCEPT ![a] = Charged(@, amount, agents[a].windowSeconds)]
  /\ categoryWindows' =
       [categoryWindows EXCEPT ![c] = Charged(@, amount, categories[c].windowSeconds)]
  /\ agents' = [agents EXCEPT ![a].spent = @ + amount]
  /\ consumed' = consumed \cup {o}
  /\ UNCHANGED <<now, platform, executorOwners, agentVersions, counterparties, signed>>

-----------------------------------------------------------------------------
(* The shape of the state                                                  *)

Policies == CategoryTerms \cup {NoCategory}
Limits == [owner : Owners \cup {None}, executor : Executors \cup {None}, active : BOOLEAN,
           totalCap : Nat, spent : Nat, windowCap : Nat, windowSeconds : Nat]
Windows == [start : Nat, spent : Nat, last : Nat]
Configurations == [enabled : BOOLEAN, fees : FeesStruct, categories : [Categories -> Policies],
                   executorOwners : [Executors -> Owners \cup {None}]]
Approvals == [edit : Edits, nonce : Nat, deadline : Nat,
              sight : [version : Nat, configuration : Configurations]]

PolicyTypeOK ==
  /\ now \in Nat \ {0} /\ marketEnabled \in BOOLEAN
  /\ policyVersion \in Nat /\ approvalNonce \in Nat
  /\ fees \in FeesStruct /\ feeVersion \in Nat
  /\ categories \in [Categories -> Policies]
  /\ categoryWindows \in [Categories -> Windows]
  /\ executorOwners \in [Executors -> Owners \cup {None}]
  /\ agents \in [Agents -> Limits] /\ agentVersions \in [Agents -> Nat]
  /\ agentWindows \in [Agents -> Windows]
  /\ counterparties \in [Agents -> SUBSET (Categories \X Sellers)]
  /\ consumed \subseteq Orders /\ signed \subseteq Approvals
=============================================================================
