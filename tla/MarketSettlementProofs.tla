----------------------- MODULE MarketSettlementProofs -----------------------
(***************************************************************************)
(* The promises of the contracts for any agents, owners, services, orders, *)
(* limits and fees, and for any times.  The inductive invariant says that  *)
(* a version number stands for the state it was read with (Versioned,      *)
(* Drafted), that the windows remember the last payment (Remembered), and  *)
(* that the three contracts' records agree (SameOrders).  On top of it,    *)
(* Books is about the sums and counts, and Rates about how the payments of *)
(* an agent or a category fall into its windows.                           *)
(***************************************************************************)
EXTENDS MarketSettlement, SumTheorems

\* A signature that is still good was given for the present version and configuration.
Versioned ==
  /\ policyVersion = approvalNonce + 1
  /\ \A p \in signed : p.nonce <= approvalNonce
                    /\ (p.nonce = approvalNonce => p.sight = Sight)

\* A draft whose versions are current was made from the present terms.
Drafted ==
  \A e \in Executors : draft[e] # None =>
    /\ draft[e].policyVersion <= policyVersion
    /\ draft[e].agentVersion <= agentVersions[draft[e].agent]
    /\ draft[e].policyVersion = policyVersion
         /\ draft[e].agentVersion = agentVersions[draft[e].agent]
         => draft[e].read = Terms(draft[e].agent)

\* An agent nobody registered has no version and no executor; a registered one is in budget.
Registered ==
  \A a \in Agents :
    /\ agents[a].owner = None => agentVersions[a] = 0 /\ agents[a].executor = None
    /\ agents[a].spent <= agents[a].totalCap

FeesAreLimited == fees.reserve + fees.review <= MAX_FEE_BPS

\* No payment is later than the last one its windows remember.
Remembered ==
  \A c \in paid : /\ 1 <= c.at
                  /\ c.at <= agentWindows[c.agent].last
                  /\ c.at <= categoryWindows[ServiceCategory[c.service]].last

IInv ==
  /\ TypeOK
  /\ Versioned
  /\ Drafted
  /\ Registered
  /\ FeesAreLimited
  /\ SameOrders
  /\ PayersAreEnrolled
  /\ Remembered
  /\ OrdersAreSpaced

-----------------------------------------------------------------------------
(* Fees                                                                    *)

LEMMA ShareIsSmall ==
  ASSUME NEW amount \in Nat, NEW bps \in Nat
  PROVE  /\ Share(amount, bps) \in Nat
         /\ 10000 * Share(amount, bps) <= amount * bps
<1>. DEFINE x == amount * bps
<1>1. x \in Nat
  BY SMT
<1>. HIDE DEF x
<1>2. x \div 10000 \in Nat /\ 10000 * (x \div 10000) <= x
  BY <1>1
<1>. QED  BY <1>2 DEF Share, x

LEMMA TwoSharesAreSmall ==
  ASSUME NEW amount \in Nat, NEW f \in Nat, NEW g \in Nat, f + g <= 1000
  PROVE  /\ Share(amount, f) \in Nat /\ Share(amount, g) \in Nat
         /\ 10 * (Share(amount, f) + Share(amount, g)) <= amount
<1>. DEFINE r == Share(amount, f)
            v == Share(amount, g)
            x == amount * f
            y == amount * g
            z == amount * (f + g)
<1>1. r \in Nat /\ 10000 * r <= x
  BY ShareIsSmall
<1>2. v \in Nat /\ 10000 * v <= y
  BY ShareIsSmall
<1>3. x \in Nat /\ y \in Nat /\ z \in Nat
  BY SMT
<1>4. z = x + y
  BY SMT
<1>5. z <= amount * 1000
  BY SMT
<1>. HIDE DEF r, v, x, y, z
<1>6. 10 * (r + v) <= amount
  BY <1>1, <1>2, <1>3, <1>4, <1>5
<1>. QED  BY <1>1, <1>2, <1>6 DEF r, v

\* The three parts are what was paid, and the platform's two at most a tenth of it.
LEMMA PartsAddUp ==
  ASSUME NEW amount \in Nat, fees \in FeesStruct, FeesAreLimited
  PROVE  /\ Parts(amount).reserve \in Nat /\ Parts(amount).review \in Nat
         /\ Parts(amount).seller \in Nat
         /\ Parts(amount).reserve + Parts(amount).review + Parts(amount).seller = amount
         /\ 10 * (Parts(amount).reserve + Parts(amount).review) <= amount
<1>1. PICK f \in Nat, g \in Nat : f = fees.reserve /\ g = fees.review /\ f + g <= 1000
  BY DEF FeesStruct, FeesAreLimited, MAX_FEE_BPS
<1>. DEFINE r == Share(amount, f)
            v == Share(amount, g)
<1>2. r \in Nat /\ v \in Nat /\ 10 * (r + v) <= amount
  <2>1. f \in Nat /\ g \in Nat /\ f + g <= 1000
    BY <1>1
  <2>. QED  BY <2>1, TwoSharesAreSmall
<1>3. Parts(amount) = [reserve |-> r, review |-> v, seller |-> amount - r - v]
  BY <1>1 DEF Parts
<1>. HIDE DEF r, v
<1>. QED  BY <1>2, <1>3

-----------------------------------------------------------------------------
(* The initial state                                                       *)

\* A market before its first order, whether new or configured.
Unused ==
  /\ NoOrders /\ services \subseteq Services /\ consumed = {} /\ signed = {}
  /\ categoryWindows = [c \in Categories |-> NoWindow]
  /\ agentWindows = [a \in Agents |-> NoWindow]
  /\ policyVersion = approvalNonce + 1
  /\ PolicyTypeOK /\ Registered /\ FeesAreLimited
  /\ \A a \in Agents : /\ agents[a].spent = 0
                       /\ agents[a].owner # None => agents[a].windowSeconds >= 1

LEMMA InitUnused == Init => Unused
<1>. SUFFICES ASSUME Init PROVE Unused
  OBVIOUS
<1>. USE PolicyAssumption, MarketAssumption
<1>1. PolicyTypeOK
  BY DEF Init, PolicyInit, PolicyTypeOK, FeesStruct, Policies, NoCategory, NoWindow, Windows,
         NoAgent, Limits
<1>2. Registered /\ FeesAreLimited
  BY DEF Init, PolicyInit, Registered, FeesAreLimited, MAX_FEE_BPS, NoAgent
<1>. QED  BY <1>1, <1>2 DEF Init, PolicyInit, NoAgent, Unused

LEMMA ConfiguredUnused == Configured => Unused
<1>. SUFFICES ASSUME Configured PROVE Unused
  OBVIOUS
<1>1. PICK a \in Agents, e \in Executors, h \in Owners, grant \in Grants :
        /\ executorOwners = [[x \in Executors |-> None] EXCEPT ![e] = h]
        /\ agents = [[x \in Agents |-> NoAgent] EXCEPT ![a] =
             [owner |-> h, executor |-> e, active |-> TRUE, spent |-> 0,
              totalCap |-> grant.totalCap, windowCap |-> grant.windowCap,
              windowSeconds |-> grant.windowSeconds]]
        /\ agentVersions = [[x \in Agents |-> 0] EXCEPT ![a] = 2]
        /\ counterparties = [[x \in Agents |-> {}] EXCEPT ![a] = Categories \X Sellers]
  BY DEF Configured
<1>2. /\ grant.totalCap \in Nat /\ grant.windowCap \in Nat /\ grant.windowSeconds \in Nat
      /\ grant.windowSeconds >= 1
  BY PolicyAssumption DEF GrantStruct
<1>3. PICK limits : limits = [owner |-> h, executor |-> e, active |-> TRUE, spent |-> 0,
              totalCap |-> grant.totalCap, windowCap |-> grant.windowCap,
              windowSeconds |-> grant.windowSeconds]
  OBVIOUS
<1>4. /\ limits \in Limits /\ limits.owner = h /\ limits.executor = e /\ limits.spent = 0
      /\ limits.totalCap \in Nat /\ limits.windowSeconds >= 1
  BY <1>2, <1>3 DEF Limits
<1>5. /\ NoAgent \in Limits /\ NoAgent.owner = None /\ NoAgent.executor = None
      /\ NoAgent.spent = 0 /\ NoAgent.totalCap = 0
  BY DEF NoAgent, Limits
<1>6. agents = [[x \in Agents |-> NoAgent] EXCEPT ![a] = limits]
  BY <1>1, <1>3
<1>7. agents \in [Agents -> Limits] /\ \A x \in Agents : agents[x] \in {limits, NoAgent}
  BY <1>4, <1>5, <1>6
<1>8. /\ agents[a] = limits
      /\ \A x \in Agents : x # a => agents[x] = NoAgent /\ agentVersions[x] = 0
  BY <1>1, <1>6
<1>9. h # None
  BY PolicyAssumption
<1>10. PolicyTypeOK
  <2>1. executorOwners \in [Executors -> Owners \cup {None}]
    BY <1>1
  <2>2. agentVersions \in [Agents -> Nat]
    BY <1>1
  <2>3. counterparties \in [Agents -> SUBSET (Categories \X Sellers)]
    BY <1>1
  <2>4. /\ now \in Nat \ {0} /\ marketEnabled \in BOOLEAN
        /\ policyVersion \in Nat /\ approvalNonce \in Nat
        /\ fees \in FeesStruct /\ feeVersion \in Nat
        /\ consumed \subseteq Orders /\ signed \subseteq Approvals
    BY DEF Configured, FeesStruct
  <2>5. categories \in [Categories -> Policies]
    BY DEF Configured, Policies
  <2>6. categoryWindows \in [Categories -> Windows] /\ agentWindows \in [Agents -> Windows]
    BY DEF Configured, Windows, NoWindow
  <2>. QED  BY <1>7, <2>1, <2>2, <2>3, <2>4, <2>5, <2>6 DEF PolicyTypeOK
<1>11. /\ \A x \in Agents :
            agents[x].owner = None => agentVersions[x] = 0 /\ agents[x].executor = None
       /\ \A x \in Agents : agents[x].spent <= agents[x].totalCap
  BY <1>4, <1>5, <1>8, <1>9
<1>12. FeesAreLimited
  BY DEF Configured, FeesAreLimited, MAX_FEE_BPS
<1>13. \A x \in Agents : /\ agents[x].spent = 0
                         /\ agents[x].owner # None => agents[x].windowSeconds >= 1
  BY <1>4, <1>5, <1>8
<1>14. policyVersion = approvalNonce + 1
  BY DEF Configured
<1>15. /\ NoOrders /\ services \subseteq Services /\ consumed = {} /\ signed = {}
       /\ categoryWindows = [c \in Categories |-> NoWindow]
       /\ agentWindows = [x \in Agents |-> NoWindow]
  BY DEF Configured
<1>. QED  BY <1>10, <1>11, <1>12, <1>13, <1>14, <1>15 DEF Registered, Unused

LEMMA UnusedIInv == Unused => IInv
<1>. SUFFICES ASSUME Unused PROVE IInv
  OBVIOUS
<1>. USE PolicyAssumption, MarketAssumption
<1>1. MarketTypeOK
  BY DEF Unused, NoOrders, MarketTypeOK, NoCounts, NoRecord, Records
<1>2. Versioned /\ Drafted
  BY DEF Unused, NoOrders, Versioned, Drafted
<1>3. SameOrders /\ PayersAreEnrolled /\ Remembered /\ OrdersAreSpaced
  BY DEF Unused, NoOrders, NoRecord, SameOrders, PayersAreEnrolled, Remembered, OrdersAreSpaced
<1>. QED  BY <1>1, <1>2, <1>3 DEF Unused, IInv, TypeOK

LEMMA InitIInv == Init => IInv
BY InitUnused, UnusedIInv

-----------------------------------------------------------------------------
(* What a step may leave alone                                             *)

\* Payments on record are not disturbed while the owners they were made under stay.
LEMMA PaymentsKept ==
  ASSUME IInv, UNCHANGED <<spending, orderHashes, orders, paid>>,
         \A e \in Executors : executorOwners[e] # None => executorOwners'[e] = executorOwners[e],
         \A a \in Agents : agents[a].owner # None => agents'[a].owner = agents[a].owner
  PROVE  SameOrders' /\ PayersAreEnrolled' /\ Remembered' /\ OrdersAreSpaced'
<1>1. SameOrders'
  BY DEF IInv, SameOrders, spending
<1>2. PayersAreEnrolled'
  <2>1. \A c \in paid : c.payer \in Executors /\ c.agent \in Agents
    BY DEF IInv, TypeOK, MarketTypeOK, Payments
  <2>. QED  BY <2>1 DEF IInv, PayersAreEnrolled
<1>3. Remembered' /\ OrdersAreSpaced'
  BY DEF IInv, Remembered, OrdersAreSpaced, spending
<1>. QED  BY <1>1, <1>2, <1>3

\* A draft stays good as long as whatever it was made from has a version of its own.
LEMMA DraftsKept ==
  ASSUME IInv, UNCHANGED draft, policyVersion' \in Nat, agentVersions' \in [Agents -> Nat],
         policyVersion' >= policyVersion,
         \A a \in Agents : agentVersions'[a] >= agentVersions[a],
         \A a \in Agents :
           policyVersion' = policyVersion /\ agentVersions'[a] = agentVersions[a]
             => Terms(a)' = Terms(a)
  PROVE  Drafted'
<1>. SUFFICES ASSUME NEW e \in Executors, draft[e] # None
              PROVE  /\ draft[e].policyVersion <= policyVersion'
                     /\ draft[e].agentVersion <= agentVersions'[draft[e].agent]
                     /\ draft[e].policyVersion = policyVersion'
                          /\ draft[e].agentVersion = agentVersions'[draft[e].agent]
                          => draft[e].read = Terms(draft[e].agent)'
  BY DEF Drafted
<1>1. PICK a \in Agents, v \in Nat, w \in Nat :
        a = draft[e].agent /\ v = draft[e].policyVersion /\ w = draft[e].agentVersion
  BY DEF IInv, TypeOK, MarketTypeOK, Drafts
<1>2. /\ policyVersion \in Nat /\ agentVersions[a] \in Nat /\ agentVersions'[a] \in Nat
      /\ v <= policyVersion /\ w <= agentVersions[a]
      /\ v = policyVersion /\ w = agentVersions[a] => draft[e].read = Terms(a)
  BY <1>1 DEF IInv, TypeOK, PolicyTypeOK, Drafted
<1>3. v <= policyVersion' /\ w <= agentVersions'[a]
  BY <1>1, <1>2
<1>4. ASSUME v = policyVersion', w = agentVersions'[a]
      PROVE  draft[e].read = Terms(a)'
  <2>1. v = policyVersion /\ w = agentVersions[a]
    BY <1>1, <1>2, <1>4
  <2>2. Terms(a)' = Terms(a)
    BY <1>1, <1>4, <2>1
  <2>. QED  BY <1>2, <2>1, <2>2
<1>. QED  BY <1>1, <1>3, <1>4

-----------------------------------------------------------------------------
(* The platform                                                            *)

LEMMA TickKeeps ==
  ASSUME IInv, Policy(Tick)
  PROVE  IInv'
<1>1. TypeOK'
  BY DEF IInv, TypeOK, PolicyTypeOK, MarketTypeOK, Policy, Tick, platform, mandates, spending,
         marketVars, ledgerVars, token
<1>2. Versioned' /\ Registered' /\ FeesAreLimited' /\ Drafted'
  BY DEF IInv, Versioned, Sight, Configuration, Registered, FeesAreLimited, Drafted, Terms,
         Policy, Tick, platform, mandates, marketVars
<1>3. SameOrders' /\ PayersAreEnrolled' /\ Remembered' /\ OrdersAreSpaced'
  BY PaymentsKept DEF Policy, Tick, mandates, marketVars, ledgerVars
<1>. QED  BY <1>1, <1>2, <1>3 DEF IInv

LEMMA SignKeeps ==
  ASSUME IInv, NEW edit \in Edits, Policy(SignPolicyDigest(edit))
  PROVE  IInv'
<1>. DEFINE p == [edit |-> edit, nonce |-> approvalNonce, deadline |-> now + ApprovalLife,
                  sight |-> Sight]
<1>1. Configuration \in Configurations
  BY DEF IInv, TypeOK, PolicyTypeOK, Configuration, Configurations
<1>2. p \in Approvals
  BY <1>1, PolicyAssumption DEF IInv, TypeOK, PolicyTypeOK, Sight, Approvals
<1>3. signed' = signed \cup {p}
  BY DEF Policy, SignPolicyDigest
<1>4. TypeOK'
  BY <1>2, <1>3 DEF IInv, TypeOK, PolicyTypeOK, MarketTypeOK, Policy, SignPolicyDigest, platform,
         mandates, spending, marketVars, ledgerVars, token
<1>5. Versioned'
  <2>1. UNCHANGED <<policyVersion, approvalNonce, Sight>>
    BY DEF Policy, SignPolicyDigest, platform, Sight, Configuration
  <2>2. p.nonce = approvalNonce /\ p.sight = Sight /\ approvalNonce \in Nat
    BY DEF IInv, TypeOK, PolicyTypeOK
  <2>. QED  BY <1>3, <2>1, <2>2 DEF IInv, Versioned
<1>6. Registered' /\ FeesAreLimited' /\ Drafted'
  BY DEF IInv, Registered, FeesAreLimited, Drafted, Terms, Policy, SignPolicyDigest, platform,
         mandates, marketVars
<1>7. SameOrders' /\ PayersAreEnrolled' /\ Remembered' /\ OrdersAreSpaced'
  BY PaymentsKept DEF Policy, SignPolicyDigest, mandates, marketVars, ledgerVars
<1>. QED  BY <1>4, <1>5, <1>6, <1>7 DEF IInv

\* Any change of the platform advances its version and outdates every signature and draft.
LEMMA EditKeeps ==
  ASSUME IInv, UNCHANGED <<now, mandates, spending, signed, marketVars>>,
         policyVersion' = policyVersion + 1, approvalNonce' = approvalNonce + 1,
         marketEnabled' \in BOOLEAN, fees' \in FeesStruct, feeVersion' \in Nat,
         categories' \in [Categories -> Policies],
         executorOwners' \in [Executors -> Owners \cup {None}],
         \A e \in Executors : executorOwners[e] # None => executorOwners'[e] = executorOwners[e],
         FeesAreLimited'
  PROVE  IInv'
<1>1. TypeOK'
  BY DEF IInv, TypeOK, PolicyTypeOK, MarketTypeOK, mandates, spending, marketVars, ledgerVars,
         token
<1>2. Versioned'
  <2>1. \A p \in signed : p.nonce \in Nat
    BY DEF IInv, TypeOK, PolicyTypeOK, Approvals
  <2>. QED  BY <2>1 DEF IInv, TypeOK, PolicyTypeOK, Versioned
<1>3. Drafted'
  <2>1. /\ policyVersion \in Nat /\ policyVersion' \in Nat /\ policyVersion' > policyVersion
        /\ agentVersions \in [Agents -> Nat] /\ UNCHANGED <<agentVersions, draft>>
    BY DEF IInv, TypeOK, PolicyTypeOK, mandates, marketVars
  <2>. QED  BY <2>1, DraftsKept
<1>4. Registered'
  BY DEF IInv, Registered, mandates
<1>5. SameOrders' /\ PayersAreEnrolled' /\ Remembered' /\ OrdersAreSpaced'
  BY PaymentsKept DEF mandates, marketVars, ledgerVars
<1>. QED  BY <1>1, <1>2, <1>3, <1>4, <1>5 DEF IInv

LEMMA SetCategoryKeeps ==
  ASSUME IInv, NEW c \in Categories, NEW terms \in CategoryTerms, Policy(SetCategory(c, terms))
  PROVE  IInv'
<1>1. categories' \in [Categories -> Policies]
  BY DEF IInv, TypeOK, PolicyTypeOK, Policies, Policy, SetCategory
<1>. QED  BY <1>1, EditKeeps DEF IInv, TypeOK, PolicyTypeOK, FeesAreLimited, Policy, SetCategory,
                                 Approve

LEMMA SetFeesKeeps ==
  ASSUME IInv, NEW f \in Fees, Policy(SetFees(f))
  PROVE  IInv'
<1>1. fees' \in FeesStruct /\ FeesAreLimited' /\ feeVersion' \in Nat
  BY PolicyAssumption DEF IInv, TypeOK, PolicyTypeOK, FeesAreLimited, Policy, SetFees
<1>. QED  BY <1>1, EditKeeps DEF IInv, TypeOK, PolicyTypeOK, Policy, SetFees, Approve

LEMMA ResumeKeeps ==
  ASSUME IInv, Policy(Resume)
  PROVE  IInv'
BY EditKeeps DEF IInv, TypeOK, PolicyTypeOK, FeesAreLimited, Policy, Resume, Approve

LEMMA EmergencyPauseKeeps ==
  ASSUME IInv, Policy(EmergencyPause)
  PROVE  IInv'
BY EditKeeps DEF IInv, TypeOK, PolicyTypeOK, FeesAreLimited, Policy, EmergencyPause

LEMMA BindExecutorKeeps ==
  ASSUME IInv, NEW e \in Executors, NEW owner \in Owners, Policy(BindExecutor(e, owner))
  PROVE  IInv'
<1>1. /\ executorOwners' \in [Executors -> Owners \cup {None}]
      /\ \A x \in Executors : executorOwners[x] # None => executorOwners'[x] = executorOwners[x]
  BY DEF IInv, TypeOK, PolicyTypeOK, Policy, BindExecutor
<1>. QED  BY <1>1, EditKeeps DEF IInv, TypeOK, PolicyTypeOK, FeesAreLimited, Policy, BindExecutor,
                                 Approve

-----------------------------------------------------------------------------
(* The owners                                                              *)

\* A change of one agent advances that agent's version and leaves the others' terms alone.
LEMMA AgentEditKeeps ==
  ASSUME IInv, NEW a \in Agents, NEW v \in Nat,
         UNCHANGED <<now, platform, executorOwners, spending, signed, marketVars>>,
         agents' \in [Agents -> Limits],
         counterparties' \in [Agents -> SUBSET (Categories \X Sellers)],
         v > agentVersions[a], agentVersions' = [agentVersions EXCEPT ![a] = v],
         \A x \in Agents \ {a} : agents'[x] = agents[x] /\ counterparties'[x] = counterparties[x],
         agents[a].owner # None => agents'[a].owner = agents[a].owner,
         agents'[a].owner # None, agents'[a].spent <= agents'[a].totalCap
  PROVE  IInv'
<1>1. agentVersions \in [Agents -> Nat] /\ agentVersions' \in [Agents -> Nat]
  BY DEF IInv, TypeOK, PolicyTypeOK
<1>2. TypeOK'
  BY <1>1 DEF IInv, TypeOK, PolicyTypeOK, MarketTypeOK, platform, spending, marketVars, ledgerVars,
              token
<1>3. Versioned' /\ FeesAreLimited'
  BY DEF IInv, Versioned, Sight, Configuration, FeesAreLimited, platform
<1>4. Drafted'
  <2>1. policyVersion' = policyVersion /\ policyVersion' \in Nat /\ UNCHANGED draft
    BY DEF IInv, TypeOK, PolicyTypeOK, platform, marketVars
  <2>2. \A x \in Agents : agentVersions'[x] >= agentVersions[x]
    BY <1>1
  <2>3. ASSUME NEW x \in Agents, agentVersions'[x] = agentVersions[x]
        PROVE  Terms(x)' = Terms(x)
    <3>1. x # a
      BY <1>1, <2>3
    <3>. QED  BY <3>1 DEF Terms, platform
  <2>. QED  BY <1>1, <2>1, <2>2, <2>3, DraftsKept
<1>5. Registered'
  BY <1>1 DEF IInv, Registered
<1>6. SameOrders' /\ PayersAreEnrolled' /\ Remembered' /\ OrdersAreSpaced'
  <2>1. \A x \in Agents : agents[x].owner # None => agents'[x].owner = agents[x].owner
    OBVIOUS
  <2>2. UNCHANGED <<spending, orderHashes, orders, paid>>
    BY DEF marketVars, ledgerVars
  <2>. QED  BY <2>1, <2>2, PaymentsKept
<1>. QED  BY <1>2, <1>3, <1>4, <1>5, <1>6 DEF IInv

LEMMA RegisterAgentKeeps ==
  ASSUME IInv, NEW a \in Agents, NEW e \in Executors, NEW grant \in Grants,
         Policy(RegisterAgent(a, e, grant))
  PROVE  IInv'
<1>1. grant \in GrantStruct /\ executorOwners[e] \in Owners
  BY PolicyAssumption DEF IInv, TypeOK, PolicyTypeOK, Policy, RegisterAgent
<1>. DEFINE new == [owner |-> executorOwners[e], executor |-> e, active |-> TRUE, spent |-> 0,
                    totalCap |-> grant.totalCap, windowCap |-> grant.windowCap,
                    windowSeconds |-> grant.windowSeconds]
<1>2. /\ agents' = [agents EXCEPT ![a] = new]
      /\ new \in Limits /\ new.owner = executorOwners[e] /\ new.spent <= new.totalCap
  BY <1>1 DEF Policy, RegisterAgent, Limits, GrantStruct
<1>. HIDE DEF new
<1>3. /\ agents \in [Agents -> Limits] /\ agentVersions[a] = 0
      /\ counterparties \in [Agents -> SUBSET (Categories \X Sellers)]
  BY DEF IInv, TypeOK, PolicyTypeOK, Registered, Policy, RegisterAgent
<1>4. agents[a].owner = None /\ executorOwners[e] # None
  BY DEF Policy, RegisterAgent
<1>5. /\ agents' \in [Agents -> Limits]
      /\ \A x \in Agents \ {a} : agents'[x] = agents[x]
      /\ agents'[a] = new
  BY <1>2, <1>3
<1>6. /\ UNCHANGED <<now, platform, executorOwners, spending, signed, marketVars, counterparties>>
      /\ agentVersions' = [agentVersions EXCEPT ![a] = 1]
  BY DEF Policy, RegisterAgent
<1>7. 1 \in Nat /\ 1 > agentVersions[a] /\ agents'[a].owner # None
      /\ agents'[a].spent <= agents'[a].totalCap
  BY <1>2, <1>3, <1>4, <1>5
<1>. QED  BY <1>3, <1>4, <1>5, <1>6, <1>7, AgentEditKeeps

LEMMA SetAgentKeeps ==
  ASSUME IInv, NEW a \in Agents, NEW e \in Executors, NEW active \in BOOLEAN, NEW grant \in Grants,
         Policy(SetAgent(a, e, active, grant))
  PROVE  IInv'
<1>1. grant \in GrantStruct
  BY PolicyAssumption
<1>2. agents \in [Agents -> Limits] /\ agents[a] \in Limits
  BY DEF IInv, TypeOK, PolicyTypeOK
<1>. DEFINE new == [agents[a] EXCEPT !.executor = e, !.active = active,
                      !.totalCap = grant.totalCap, !.windowCap = grant.windowCap,
                      !.windowSeconds = grant.windowSeconds]
<1>3. /\ agents' = [agents EXCEPT ![a] = new]
      /\ new \in Limits /\ new.owner = agents[a].owner /\ new.spent <= new.totalCap
  BY <1>1, <1>2 DEF Policy, SetAgent, Limits, GrantStruct
<1>. HIDE DEF new
<1>4. /\ agentVersions[a] + 1 \in Nat /\ agentVersions[a] + 1 > agentVersions[a]
      /\ counterparties \in [Agents -> SUBSET (Categories \X Sellers)]
  BY DEF IInv, TypeOK, PolicyTypeOK
<1>5. /\ agents' \in [Agents -> Limits]
      /\ \A x \in Agents \ {a} : agents'[x] = agents[x]
      /\ agents'[a] = new
  BY <1>2, <1>3
<1>6. /\ UNCHANGED <<now, platform, executorOwners, spending, signed, marketVars, counterparties>>
      /\ agentVersions' = [agentVersions EXCEPT ![a] = agentVersions[a] + 1]
      /\ agents[a].owner # None
  BY DEF Policy, SetAgent
<1>. QED  BY <1>3, <1>4, <1>5, <1>6, AgentEditKeeps

LEMMA SetCounterpartyKeeps ==
  ASSUME IInv, NEW a \in Agents, NEW c \in Categories, NEW seller \in Sellers,
         NEW allowed \in BOOLEAN, Policy(SetCounterparty(a, c, seller, allowed))
  PROVE  IInv'
<1>1. /\ agentVersions[a] + 1 \in Nat /\ agentVersions[a] + 1 > agentVersions[a]
      /\ agents \in [Agents -> Limits] /\ agents[a].spent <= agents[a].totalCap
      /\ counterparties \in [Agents -> SUBSET (Categories \X Sellers)]
  BY DEF IInv, TypeOK, PolicyTypeOK, Registered
<1>2. /\ counterparties' \in [Agents -> SUBSET (Categories \X Sellers)]
      /\ \A x \in Agents \ {a} : counterparties'[x] = counterparties[x]
  BY <1>1 DEF Policy, SetCounterparty
<1>3. /\ UNCHANGED <<now, platform, executorOwners, spending, signed, marketVars, agents>>
      /\ agentVersions' = [agentVersions EXCEPT ![a] = agentVersions[a] + 1]
      /\ agents[a].owner # None
  BY DEF Policy, SetCounterparty
<1>. QED  BY <1>1, <1>2, <1>3, AgentEditKeeps

-----------------------------------------------------------------------------
(* Services, drafts and the ledger                                         *)

LEMMA RegisterServiceKeeps ==
  ASSUME IInv, NEW s \in Services, RegisterService(s)
  PROVE  IInv'
<1>1. TypeOK'
  BY DEF IInv, TypeOK, PolicyTypeOK, MarketTypeOK, RegisterService, policyVars, platform, mandates,
         spending, ledgerVars, token
<1>2. Versioned' /\ Registered' /\ FeesAreLimited' /\ Drafted'
  BY DEF IInv, Versioned, Sight, Configuration, Registered, FeesAreLimited, Drafted, Terms,
         RegisterService, policyVars, platform, mandates
<1>3. SameOrders' /\ PayersAreEnrolled' /\ Remembered' /\ OrdersAreSpaced'
  BY PaymentsKept DEF RegisterService, policyVars, mandates, ledgerVars
<1>. QED  BY <1>1, <1>2, <1>3 DEF IInv

LEMMA ReadTermsKeeps ==
  ASSUME IInv, NEW e \in Executors, NEW o \in Orders, NEW a \in Agents, NEW s \in Services,
         ReadTerms(e, o, a, s)
  PROVE  IInv'
<1>. DEFINE d == [order |-> o, agent |-> a, service |-> s, deadline |-> now + OrderLife,
                  policyVersion |-> policyVersion, agentVersion |-> agentVersions[a],
                  feeVersion |-> feeVersion, read |-> Terms(a)]
<1>1. draft' = [draft EXCEPT ![e] = d] /\ draft \in [Executors -> Drafts \cup {None}]
  BY DEF IInv, TypeOK, MarketTypeOK, ReadTerms
<1>2. [agents[a] EXCEPT !.spent = 0] \in Limits
  BY DEF IInv, TypeOK, PolicyTypeOK, Limits
<1>3. d \in Drafts
  BY <1>2, MarketAssumption DEF IInv, TypeOK, PolicyTypeOK, Drafts, Terms
<1>4. TypeOK'
  BY <1>1, <1>3 DEF IInv, TypeOK, PolicyTypeOK, MarketTypeOK, ReadTerms, policyVars, platform,
                    mandates, spending, ledgerVars, token
<1>5. Versioned' /\ Registered' /\ FeesAreLimited'
  BY DEF IInv, Versioned, Sight, Configuration, Registered, FeesAreLimited, ReadTerms, policyVars,
         platform, mandates
<1>6. Drafted'
  <2>1. \A x \in Agents : Terms(x)' = Terms(x)
    BY DEF ReadTerms, Terms, policyVars, platform, mandates
  <2>2. UNCHANGED <<policyVersion, agentVersions>>
    BY DEF ReadTerms, policyVars, platform, mandates
  <2>3. policyVersion \in Nat /\ agentVersions[a] \in Nat
    BY DEF IInv, TypeOK, PolicyTypeOK
  <2>4. \A x \in Executors : draft[x] # None => draft[x].agent \in Agents
    BY <1>1 DEF Drafts
  <2>. QED  BY <1>1, <2>1, <2>2, <2>3, <2>4 DEF IInv, Drafted
<1>7. SameOrders' /\ PayersAreEnrolled' /\ Remembered' /\ OrdersAreSpaced'
  BY PaymentsKept DEF ReadTerms, policyVars, mandates, ledgerVars
<1>. QED  BY <1>4, <1>5, <1>6, <1>7 DEF IInv

\* A record of the ledger changes in its output or its acknowledgment only.
LEMMA LedgerKeeps ==
  ASSUME IInv, NEW o \in Orders, NEW new \in Records, orders[o].seller # None,
         orders' = [orders EXCEPT ![o] = new],
         new.payer = orders[o].payer, new.seller = orders[o].seller,
         new.service = orders[o].service,
         reputation' \in [Sellers -> [paid : Nat, delivered : Nat, acknowledged : Nat]],
         UNCHANGED <<policyVars, services, draft, orderHashes, token, paid>>
  PROVE  IInv'
<1>2. TypeOK'
  BY DEF IInv, TypeOK, PolicyTypeOK, MarketTypeOK, policyVars, platform, mandates, spending, token
<1>3. Versioned' /\ Registered' /\ FeesAreLimited' /\ Drafted'
  BY DEF IInv, Versioned, Sight, Configuration, Registered, FeesAreLimited, Drafted, Terms,
         policyVars, platform, mandates
<1>4. SameOrders'
  <2>1. orders \in [Orders -> Records]
    BY DEF IInv, TypeOK, MarketTypeOK
  <2>2. \A x \in Orders : orders'[x].seller = orders[x].seller
    BY <2>1
  <2>3. ASSUME NEW c \in paid
        PROVE  /\ orders'[c.order].payer = orders[c.order].payer
               /\ orders'[c.order].seller = orders[c.order].seller
               /\ orders'[c.order].service = orders[c.order].service
    <3>1. c.order \in Orders
      BY DEF IInv, TypeOK, MarketTypeOK, Payments
    <3>. QED  BY <2>1, <3>1
  <2>. QED  BY <2>2, <2>3 DEF IInv, SameOrders, policyVars, spending
<1>5. PayersAreEnrolled' /\ Remembered' /\ OrdersAreSpaced'
  BY DEF IInv, PayersAreEnrolled, Remembered, OrdersAreSpaced, policyVars, mandates, spending
<1>. QED  BY <1>2, <1>3, <1>4, <1>5 DEF IInv

LEMMA AttestDeliveryKeeps ==
  ASSUME IInv, NEW o \in Orders, NEW output \in Outputs, AttestDelivery(o, output)
  PROVE  IInv'
<1>. DEFINE new == [orders[o] EXCEPT !.output = output]
<1>1. orders[o].seller # None /\ orders[o] \in Records
  BY DEF IInv, TypeOK, MarketTypeOK, AttestDelivery
<1>2. /\ new \in Records
      /\ new.payer = orders[o].payer /\ new.seller = orders[o].seller
      /\ new.service = orders[o].service
  BY <1>1 DEF Records
<1>3. reputation' \in [Sellers -> [paid : Nat, delivered : Nat, acknowledged : Nat]]
  BY <1>1 DEF IInv, TypeOK, MarketTypeOK, AttestDelivery, Records
<1>4. /\ orders' = [orders EXCEPT ![o] = new]
      /\ UNCHANGED <<policyVars, services, draft, orderHashes, token, paid>>
  BY DEF AttestDelivery
<1>. HIDE DEF new
<1>. QED  BY <1>1, <1>2, <1>3, <1>4, LedgerKeeps

LEMMA AcknowledgeDeliveryKeeps ==
  ASSUME IInv, NEW o \in Orders, NEW output \in Outputs, AcknowledgeDelivery(o, output)
  PROVE  IInv'
<1>. DEFINE new == [orders[o] EXCEPT !.acknowledged = TRUE]
<1>1. orders[o].seller # None /\ orders[o] \in Records
  BY DEF IInv, TypeOK, MarketTypeOK, AcknowledgeDelivery
<1>2. /\ new \in Records
      /\ new.payer = orders[o].payer /\ new.seller = orders[o].seller
      /\ new.service = orders[o].service
  BY <1>1 DEF Records
<1>3. reputation' \in [Sellers -> [paid : Nat, delivered : Nat, acknowledged : Nat]]
  BY <1>1 DEF IInv, TypeOK, MarketTypeOK, AcknowledgeDelivery, Records
<1>4. /\ orders' = [orders EXCEPT ![o] = new]
      /\ UNCHANGED <<policyVars, services, draft, orderHashes, token, paid>>
  BY DEF AcknowledgeDelivery
<1>. HIDE DEF new
<1>. QED  BY <1>1, <1>2, <1>3, <1>4, LedgerKeeps


-----------------------------------------------------------------------------
(* Settlement                                                              *)

Payment(o, a, e, s) ==
  [order |-> o, agent |-> a, payer |-> e, service |-> s, at |-> now, grant |-> agents[a],
   terms |-> categories[ServiceCategory[s]]]

\* The settlement of a draft for the order o of service s by agent a.
Settles(e, o, a, s) ==
  /\ draft[e] \in Drafts
  /\ draft[e].order = o /\ draft[e].agent = a /\ draft[e].service = s
  /\ o \notin orderHashes
  /\ Consumable(o, a, e, ServiceCategory[s], Seller[s], Amount[s],
                draft[e].policyVersion, draft[e].agentVersion)
  /\ Consume(o, a, ServiceCategory[s], Amount[s])
  /\ orderHashes' = orderHashes \cup {o}
  /\ Transfers(e, Seller[s], Amount[s])
  /\ RecordPaid(o, e, s)
  /\ paid' = paid \cup {Payment(o, a, e, s)}
  /\ UNCHANGED <<services, draft>>

LEMMA SettleMeans ==
  ASSUME IInv, NEW e \in Executors, Settle(e)
  PROVE  \E o \in Orders, a \in Agents, s \in Services : Settles(e, o, a, s)
<1>1. draft[e] \in Drafts
  BY DEF IInv, TypeOK, MarketTypeOK, Settle
<1>2. draft[e].order \in Orders /\ draft[e].agent \in Agents /\ draft[e].service \in Services
  BY <1>1 DEF Drafts
<1>3. Settles(e, draft[e].order, draft[e].agent, draft[e].service)
  BY <1>1 DEF Settle, Settles, Payment
<1>. QED  BY <1>2, <1>3

LEMMA ChargedWindow ==
  ASSUME NEW w \in Windows, NEW amount \in Nat, NEW seconds \in Nat, now \in Nat \ {0}
  PROVE  Charged(w, amount, seconds) \in Windows /\ Charged(w, amount, seconds).last = now
<1>. DEFINE r == Renewed(w, seconds)
<1>1. r \in Windows
  <2>1. [w EXCEPT !.start = now, !.spent = 0] \in Windows
    BY DEF Windows
  <2>. QED  BY <2>1 DEF Renewed
<1>2. Charged(w, amount, seconds) = [r EXCEPT !.spent = r.spent + amount, !.last = now]
  BY DEF Charged
<1>. HIDE DEF r
<1>3. r = [start |-> r.start, spent |-> r.spent, last |-> r.last]
      /\ r.start \in Nat /\ r.spent \in Nat
  BY <1>1 DEF Windows
<1>4. Charged(w, amount, seconds) = [start |-> r.start, spent |-> r.spent + amount, last |-> now]
  BY <1>2, <1>3
<1>. QED  BY <1>3, <1>4 DEF Windows

LEMMA SettleTypes ==
  ASSUME IInv, NEW e \in Executors, NEW o \in Orders, NEW a \in Agents, NEW s \in Services,
         Settles(e, o, a, s)
  PROVE  TypeOK'
<1>. DEFINE c == ServiceCategory[s]
            amount == Amount[s]
<1>1. c \in Categories /\ amount \in Nat /\ Seller[s] \in Sellers
  BY MarketAssumption
<1>2. agents[a] \in Limits /\ categories[c] \in Policies
  BY <1>1 DEF IInv, TypeOK, PolicyTypeOK
<1>3. agents[a].windowSeconds \in Nat /\ categories[c].windowSeconds \in Nat
  BY <1>2, PolicyAssumption DEF Limits, Policies, NoCategory, CategoryStruct
<1>4. PolicyTypeOK'
  <2>1. agents' \in [Agents -> Limits]
    <3>1. [agents[a] EXCEPT !.spent = agents[a].spent + amount] \in Limits
      BY <1>1, <1>2 DEF Limits
    <3>. QED  BY <3>1 DEF IInv, TypeOK, PolicyTypeOK, Settles, Consume
  <2>2. agentWindows' \in [Agents -> Windows]
    <3>1. Charged(agentWindows[a], amount, agents[a].windowSeconds) \in Windows
      BY <1>1, <1>3, ChargedWindow DEF IInv, TypeOK, PolicyTypeOK
    <3>. QED  BY <3>1 DEF IInv, TypeOK, PolicyTypeOK, Settles, Consume
  <2>3. categoryWindows' \in [Categories -> Windows]
    <3>1. Charged(categoryWindows[c], amount, categories[c].windowSeconds) \in Windows
      BY <1>1, <1>3, ChargedWindow DEF IInv, TypeOK, PolicyTypeOK
    <3>. QED  BY <3>1 DEF IInv, TypeOK, PolicyTypeOK, Settles, Consume
  <2>. QED  BY <2>1, <2>2, <2>3 DEF IInv, TypeOK, PolicyTypeOK, Settles, Consume, platform
<1>5. MarketTypeOK'
  <2>1. Payment(o, a, e, s) \in Payments
    BY <1>1, <1>2 DEF Payment, Payments, IInv, TypeOK, PolicyTypeOK
  <2>2. /\ orders' \in [Orders -> Records]
        /\ reputation' \in [Sellers -> [paid : Nat, delivered : Nat, acknowledged : Nat]]
    BY <1>1 DEF Settles, RecordPaid, Records, IInv, TypeOK, MarketTypeOK
  <2>. DEFINE parts == Parts(amount)
  <2>3. /\ parts.reserve \in Nat /\ parts.review \in Nat /\ parts.seller \in Nat
        /\ parts.reserve + parts.review + parts.seller = amount
    BY <1>1, PartsAddUp DEF IInv, TypeOK, PolicyTypeOK
  <2>. HIDE DEF parts
  <2>4. funds' \in [Executors -> Nat]
    <3>1. /\ funds[e] >= amount
          /\ funds' = [funds EXCEPT ![e] = @ - parts.seller - parts.reserve - parts.review]
      BY DEF Settles, Transfers, parts
    <3>2. funds \in [Executors -> Nat]
      BY DEF IInv, TypeOK, MarketTypeOK
    <3>3. funds[e] - parts.seller - parts.reserve - parts.review \in Nat
      BY <1>1, <2>3, <3>1, <3>2
    <3>. QED  BY <3>1, <3>2, <3>3
  <2>5. received' \in [Recipients -> Nat]
    <3>1. received \in [Recipients -> Nat]
      BY DEF IInv, TypeOK, MarketTypeOK
    <3>2. received' = [r \in Recipients |->
             received[r] + (IF r \in {"reserve", "review"} THEN parts[r]
                            ELSE IF r = Seller[s] THEN parts.seller ELSE 0)]
      BY DEF Settles, Transfers, parts
    <3>. QED  BY <2>3, <3>1, <3>2
  <2>. QED  BY <2>1, <2>2, <2>4, <2>5 DEF Settles, IInv, TypeOK, MarketTypeOK
<1>. QED  BY <1>4, <1>5 DEF TypeOK

\* The new payment waited for the delay after each earlier one of its agent or category.
LEMMA SettleSpaces ==
  ASSUME IInv, NEW e \in Executors, NEW o \in Orders, NEW a \in Agents, NEW s \in Services,
         Settles(e, o, a, s)
  PROVE  Remembered' /\ OrdersAreSpaced'
<1>. DEFINE c == ServiceCategory[s]
            d == Payment(o, a, e, s)
            delay == categories[c].delaySeconds
<1>1. c \in Categories /\ Amount[s] \in Nat /\ now \in Nat \ {0}
  BY MarketAssumption DEF IInv, TypeOK, PolicyTypeOK
<1>2. /\ agents[a].windowSeconds \in Nat /\ categories[c].windowSeconds \in Nat
      /\ delay \in Nat
  BY <1>1, PolicyAssumption DEF IInv, TypeOK, PolicyTypeOK, Limits, Policies, NoCategory,
                                CategoryStruct
<1>3. /\ agentWindows \in [Agents -> Windows] /\ categoryWindows \in [Categories -> Windows]
      /\ \A x \in Agents : agentWindows[x].last \in Nat
      /\ \A x \in Categories : categoryWindows[x].last \in Nat
  BY DEF IInv, TypeOK, PolicyTypeOK, Windows
<1>4. /\ agentWindows[a].last # 0 => now >= agentWindows[a].last + delay
      /\ categoryWindows[c].last # 0 => now >= categoryWindows[c].last + delay
  BY DEF Settles, Consumable, Admits
<1>5. /\ \A x \in Agents \ {a} : agentWindows'[x] = agentWindows[x]
      /\ \A x \in Categories \ {c} : categoryWindows'[x] = categoryWindows[x]
      /\ agentWindows'[a].last = now /\ categoryWindows'[c].last = now
  <2>1. /\ Charged(agentWindows[a], Amount[s], agents[a].windowSeconds).last = now
        /\ Charged(categoryWindows[c], Amount[s], categories[c].windowSeconds).last = now
    BY <1>1, <1>2, <1>3, ChargedWindow
  <2>. QED  BY <1>1, <1>3, <2>1 DEF Settles, Consume
<1>6. paid' = paid \cup {d} /\ d.agent = a /\ d.service = s /\ d.at = now
      /\ d.terms.delaySeconds = delay
  BY DEF Settles, Payment
<1>7. ASSUME NEW x \in paid
      PROVE  /\ x.agent \in Agents /\ ServiceCategory[x.service] \in Categories
             /\ x.at \in Nat /\ 1 <= x.at
             /\ x.at <= agentWindows[x.agent].last
             /\ x.at <= categoryWindows[ServiceCategory[x.service]].last
  BY MarketAssumption DEF IInv, TypeOK, MarketTypeOK, Payments, Remembered
<1>. HIDE DEF c, d, delay
<1>8. Remembered'
  <2>1. ASSUME NEW x \in paid
        PROVE  /\ 1 <= x.at
               /\ x.at <= agentWindows'[x.agent].last
               /\ x.at <= categoryWindows'[ServiceCategory[x.service]].last
    <3>1. x.at <= agentWindows'[x.agent].last
      <4>1. CASE x.agent = a
        BY <1>1, <1>2, <1>3, <1>4, <1>5, <1>7, <4>1
      <4>2. CASE x.agent # a
        BY <1>5, <1>7, <4>2
      <4>. QED  BY <4>1, <4>2
    <3>2. x.at <= categoryWindows'[ServiceCategory[x.service]].last
      <4>1. CASE ServiceCategory[x.service] = c
        BY <1>1, <1>2, <1>3, <1>4, <1>5, <1>7, <4>1
      <4>2. CASE ServiceCategory[x.service] # c
        BY <1>5, <1>7, <4>2
      <4>. QED  BY <4>1, <4>2
    <3>. QED  BY <1>7, <3>1, <3>2
  <2>2. /\ 1 <= d.at /\ d.at <= agentWindows'[d.agent].last
        /\ d.at <= categoryWindows'[ServiceCategory[d.service]].last
    BY <1>1, <1>5, <1>6 DEF c
  <2>. QED  BY <1>6, <2>1, <2>2 DEF Remembered
<1>9. OrdersAreSpaced'
  <2>1. ASSUME NEW x \in paid,
               x.agent = a \/ ServiceCategory[x.service] = c
        PROVE  now >= x.at + delay
    <3>1. CASE x.agent = a
      BY <1>1, <1>2, <1>3, <1>4, <1>7, <3>1
    <3>2. CASE ServiceCategory[x.service] = c
      BY <1>1, <1>2, <1>3, <1>4, <1>7, <3>2
    <3>. QED  BY <2>1, <3>1, <3>2
  <2>2. ASSUME NEW x \in paid', NEW y \in paid', x # y,
               x.agent = y.agent \/ ServiceCategory[x.service] = ServiceCategory[y.service]
        PROVE  \/ y.at >= x.at + y.terms.delaySeconds
               \/ x.at >= y.at + x.terms.delaySeconds
    <3>1. CASE x \in paid /\ y \in paid
      BY <2>2, <3>1 DEF IInv, OrdersAreSpaced
    <3>2. CASE x \in paid /\ y = d
      BY <1>6, <2>1, <2>2, <3>2 DEF c
    <3>3. CASE x = d /\ y \in paid
      BY <1>6, <2>1, <2>2, <3>3 DEF c
    <3>. QED  BY <1>6, <2>2, <3>1, <3>2, <3>3
  <2>. QED  BY <2>2 DEF OrdersAreSpaced
<1>. QED  BY <1>8, <1>9

LEMMA SettleKeeps ==
  ASSUME IInv, NEW e \in Executors, Settle(e)
  PROVE  IInv'
<1>1. PICK o \in Orders, a \in Agents, s \in Services : Settles(e, o, a, s)
  BY SettleMeans
<1>2. TypeOK' /\ Remembered' /\ OrdersAreSpaced'
  BY <1>1, SettleTypes, SettleSpaces
<1>3. /\ Amount[s] \in Nat /\ Seller[s] \in Sellers
      /\ agents \in [Agents -> Limits] /\ agents[a].spent \in Nat
  BY MarketAssumption DEF IInv, TypeOK, PolicyTypeOK, Limits
<1>4. /\ UNCHANGED <<now, platform, executorOwners, agentVersions, counterparties, signed, draft>>
      /\ agents' = [agents EXCEPT ![a].spent = @ + Amount[s]]
  BY <1>1 DEF Settles, Consume
<1>5. Versioned' /\ FeesAreLimited'
  BY <1>4 DEF IInv, Versioned, Sight, Configuration, FeesAreLimited, platform
<1>6. Registered'
  <2>1. agents[a].spent + Amount[s] <= agents[a].totalCap
    BY <1>1 DEF Settles, Consumable
  <2>. QED  BY <1>3, <1>4, <2>1 DEF IInv, Registered, Limits
<1>7. Drafted'
  <2>1. ASSUME NEW x \in Agents
        PROVE  Terms(x)' = Terms(x)
    <3>1. [agents'[x] EXCEPT !.spent = 0] = [agents[x] EXCEPT !.spent = 0]
      BY <1>3, <1>4 DEF Limits
    <3>. QED  BY <1>4, <3>1 DEF Terms, platform
  <2>2. /\ policyVersion \in Nat /\ policyVersion' = policyVersion
        /\ agentVersions \in [Agents -> Nat] /\ agentVersions' = agentVersions /\ UNCHANGED draft
    BY <1>4 DEF IInv, TypeOK, PolicyTypeOK, platform
  <2>. QED  BY <2>1, <2>2, DraftsKept
<1>8. SameOrders'
  <2>1. /\ orders \in [Orders -> Records] /\ consumed' = consumed \cup {o}
        /\ orderHashes' = orderHashes \cup {o} /\ o \notin orderHashes
        /\ paid' = paid \cup {Payment(o, a, e, s)}
        /\ orders' = [orders EXCEPT ![o] = [payer |-> e, seller |-> Seller[s], service |-> s,
                                           output |-> None, acknowledged |-> FALSE]]
    BY <1>1 DEF Settles, Consume, RecordPaid, IInv, TypeOK, MarketTypeOK
  <2>2. Payment(o, a, e, s).order = o /\ Payment(o, a, e, s).payer = e
        /\ Payment(o, a, e, s).service = s
    BY DEF Payment
  <2>3. Seller[s] # None
    BY <1>3, PolicyAssumption
  <2>4. {x \in Orders : orders'[x].seller # None} = orderHashes'
    BY <2>1, <2>3 DEF IInv, SameOrders
  <2>5. \A x \in paid : x.order \in Orders /\ x.order # o
    BY <2>1 DEF IInv, SameOrders, TypeOK, MarketTypeOK, Payments
  <2>6. {x.order : x \in paid'} = orderHashes'
    BY <2>1, <2>2 DEF IInv, SameOrders
  <2>. QED  BY <2>1, <2>2, <2>4, <2>5, <2>6 DEF IInv, SameOrders
<1>9. PayersAreEnrolled'
  <2>1. executorOwners[e] = agents[a].owner /\ e = agents[a].executor
    BY <1>1 DEF Settles, Consumable
  <2>2. agents[a].owner # None
    BY <2>1, PolicyAssumption DEF IInv, Registered
  <2>3. \A x \in Agents : agents'[x].owner = agents[x].owner
    BY <1>3, <1>4 DEF Limits
  <2>4. \A x \in paid : x.agent \in Agents
    BY DEF IInv, TypeOK, MarketTypeOK, Payments
  <2>5. paid' = paid \cup {Payment(o, a, e, s)} /\ Payment(o, a, e, s).payer = e
        /\ Payment(o, a, e, s).agent = a
    BY <1>1 DEF Settles, Payment
  <2>. QED  BY <1>4, <2>1, <2>2, <2>3, <2>4, <2>5 DEF IInv, PayersAreEnrolled
<1>. QED  BY <1>2, <1>5, <1>6, <1>7, <1>8, <1>9 DEF IInv

-----------------------------------------------------------------------------
(* Theorems                                                                *)

LEMMA Inductive == IInv /\ [Next]_vars => IInv'
<1>. SUFFICES ASSUME IInv, [Next]_vars
              PROVE  IInv'
  OBVIOUS
<1>1. CASE Policy(Tick)
  BY <1>1, TickKeeps
<1>2. CASE \E edit \in Edits : Policy(SignPolicyDigest(edit))
  BY <1>2, SignKeeps
<1>3. CASE \E c \in Categories, terms \in CategoryTerms : Policy(SetCategory(c, terms))
  BY <1>3, SetCategoryKeeps
<1>4. CASE \E f \in Fees : Policy(SetFees(f))
  BY <1>4, SetFeesKeeps
<1>5. CASE Policy(Resume)
  BY <1>5, ResumeKeeps
<1>6. CASE Policy(EmergencyPause)
  BY <1>6, EmergencyPauseKeeps
<1>7. CASE \E e \in Executors, owner \in Owners : Policy(BindExecutor(e, owner))
  BY <1>7, BindExecutorKeeps
<1>8. CASE \E a \in Agents, e \in Executors, grant \in Grants : Policy(RegisterAgent(a, e, grant))
  BY <1>8, RegisterAgentKeeps
<1>9. CASE \E a \in Agents, e \in Executors, active \in BOOLEAN, grant \in Grants :
             Policy(SetAgent(a, e, active, grant))
  BY <1>9, SetAgentKeeps
<1>10. CASE \E a \in Agents, c \in Categories, seller \in Sellers, allowed \in BOOLEAN :
              Policy(SetCounterparty(a, c, seller, allowed))
  BY <1>10, SetCounterpartyKeeps
<1>11. CASE \E s \in Services : RegisterService(s)
  BY <1>11, RegisterServiceKeeps
<1>12. CASE \E e \in Executors, o \in Orders, a \in Agents, s \in Services : ReadTerms(e, o, a, s)
  BY <1>12, ReadTermsKeeps
<1>13. CASE \E e \in Executors : Settle(e)
  BY <1>13, SettleKeeps
<1>14. CASE \E o \in Orders, output \in Outputs :
              AttestDelivery(o, output) \/ AcknowledgeDelivery(o, output)
  BY <1>14, AttestDeliveryKeeps, AcknowledgeDeliveryKeeps
<1>15. CASE UNCHANGED vars
  <2>1. UNCHANGED <<policyVars, marketVars>>
    BY <1>15 DEF vars
  <2>2. TypeOK'
    BY <2>1 DEF IInv, TypeOK, PolicyTypeOK, MarketTypeOK, policyVars, platform, mandates, spending,
                marketVars, ledgerVars, token
  <2>3. Versioned' /\ Registered' /\ FeesAreLimited' /\ Drafted'
    BY <2>1 DEF IInv, Versioned, Sight, Configuration, Registered, FeesAreLimited, Drafted, Terms,
                policyVars, platform, mandates, marketVars
  <2>4. SameOrders' /\ PayersAreEnrolled' /\ Remembered' /\ OrdersAreSpaced'
    BY <2>1, PaymentsKept DEF policyVars, mandates, marketVars, ledgerVars
  <2>. QED  BY <2>2, <2>3, <2>4 DEF IInv
<1>. QED  BY <1>1, <1>2, <1>3, <1>4, <1>5, <1>6, <1>7, <1>8, <1>9, <1>10, <1>11, <1>12, <1>13,
             <1>14, <1>15 DEF Next

THEOREM Invariance == Spec => []IInv
BY InitIInv, Inductive, PTL DEF Spec

\* The state keeps its shape; no balance, share or counter is ever negative.
THEOREM TypeCorrect == Spec => []TypeOK
BY Invariance, PTL DEF IInv

\* The policy's, the settlement's and the ledger's records and the events name the same orders.
THEOREM RecordsAgree == Spec => []SameOrders
BY Invariance, PTL DEF IInv

\* Whoever paid is enrolled for the owner of the agent it paid for.
THEOREM EnrolledPay == Spec => []PayersAreEnrolled
BY Invariance, PTL DEF IInv

\* Two payments of one agent or category are apart by the delay the later one had to wait.
THEOREM DelaysHold == Spec => []OrdersAreSpaced
BY Invariance, PTL DEF IInv

-----------------------------------------------------------------------------
(* What a step may do                                                      *)

LEMMA SettleStep ==
  IInv /\ [Next]_vars =>
    [\A c \in paid' \ paid : draft[c.payer].order = c.order
                          /\ draft[c.payer].read = Terms(c.agent)]_vars
<1>1. ASSUME IInv, [Next]_vars, NEW x \in paid' \ paid
      PROVE  draft[x.payer].order = x.order /\ draft[x.payer].read = Terms(x.agent)
  <2>1. paid' # paid
    BY <1>1
  <2>2. PICK e \in Executors : Settle(e)
    BY <1>1, <2>1 DEF Next, Policy, marketVars, vars, RegisterService, ReadTerms, AttestDelivery,
                      AcknowledgeDelivery
  <2>3. PICK o \in Orders, a \in Agents, s \in Services : Settles(e, o, a, s)
    BY <1>1, <2>2, SettleMeans
  <2>4. x = Payment(o, a, e, s)
    BY <1>1, <2>3 DEF Settles
  <2>5. x.payer = e /\ x.order = o /\ x.agent = a
    BY <2>4 DEF Payment
  <2>6. /\ draft[e].order = o /\ draft[e].agent = a
        /\ draft[e].policyVersion = policyVersion /\ draft[e].agentVersion = agentVersions[a]
        /\ draft[e] # None
    BY <2>3, <2>2 DEF Settles, Consumable, Settle
  <2>. QED  BY <1>1, <2>5, <2>6 DEF IInv, Drafted
<1>. QED  BY <1>1

\* An order is settled only under the policy, mandate and sellers its buyer read.
THEOREM ReadIsWhatSettles == Spec => SettledAsRead
BY SettleStep, Invariance, PTL DEF Spec, SettledAsRead

LEMMA ApprovedInSight ==
  ASSUME IInv, NEW edit, Approve(edit)
  PROVE  \E p \in signed : p.sight = Sight /\ p.edit = edit
BY DEF IInv, Versioned, Approve

WithEnabled(enabled) == [enabled |-> enabled, fees |-> fees, categories |-> categories,
                         executorOwners |-> executorOwners]

LEMMA EnabledExcept ==
  \A x : [Configuration EXCEPT !.enabled = x] = WithEnabled(x)
BY DEF Configuration, WithEnabled

LEMMA EditStep ==
  IInv /\ [Next]_vars =>
    [Configuration' # Configuration =>
       \/ Configuration' = [Configuration EXCEPT !.enabled = FALSE]
       \/ \E p \in signed :
            p.sight = Sight /\ Configuration' = Edited(Configuration, p.edit)]_vars
<1>1. ASSUME IInv, [Next]_vars, Configuration' # Configuration
      PROVE  \/ Configuration' = [Configuration EXCEPT !.enabled = FALSE]
             \/ \E p \in signed :
                  p.sight = Sight /\ Configuration' = Edited(Configuration, p.edit)
  <2>1. CASE \E c \in Categories, terms \in CategoryTerms : Policy(SetCategory(c, terms))
    <3>1. PICK c \in Categories, terms \in CategoryTerms : Policy(SetCategory(c, terms))
      BY <2>1
    <3>. DEFINE edit == [kind |-> "CATEGORY", category |-> c, terms |-> terms]
    <3>2. Approve(edit)
      BY <3>1 DEF Policy, SetCategory
    <3>3. Configuration' = Edited(Configuration, edit)
      BY <3>1 DEF Policy, SetCategory, Configuration, Edited
    <3>. QED  BY <1>1, <3>2, <3>3, ApprovedInSight
  <2>2. CASE \E f \in Fees : Policy(SetFees(f))
    <3>1. PICK f \in Fees : Policy(SetFees(f))
      BY <2>2
    <3>. DEFINE edit == [kind |-> "FEES", fees |-> f]
    <3>2. Approve(edit)
      BY <3>1 DEF Policy, SetFees
    <3>3. Configuration' = Edited(Configuration, edit)
      BY <3>1 DEF Policy, SetFees, Configuration, Edited
    <3>. QED  BY <1>1, <3>2, <3>3, ApprovedInSight
  <2>3. CASE Policy(Resume)
    <3>. DEFINE edit == [kind |-> "RESUME"]
    <3>2. Approve(edit)
      BY <2>3 DEF Policy, Resume
    <3>3. Configuration' = Edited(Configuration, edit)
      BY <2>3 DEF Policy, Resume, Configuration, Edited
    <3>. QED  BY <1>1, <3>2, <3>3, ApprovedInSight
  <2>4. CASE \E e \in Executors, owner \in Owners : Policy(BindExecutor(e, owner))
    <3>1. PICK e \in Executors, owner \in Owners : Policy(BindExecutor(e, owner))
      BY <2>4
    <3>. DEFINE edit == [kind |-> "EXECUTOR_OWNER", executor |-> e, owner |-> owner]
    <3>2. Approve(edit)
      BY <3>1 DEF Policy, BindExecutor
    <3>3. Configuration' = Edited(Configuration, edit)
      BY <3>1 DEF Policy, BindExecutor, Configuration, Edited
    <3>. QED  BY <1>1, <3>2, <3>3, ApprovedInSight
  <2>5. CASE Policy(EmergencyPause)
    <3>1. marketEnabled' = FALSE /\ UNCHANGED <<fees, categories, executorOwners>>
      BY <2>5 DEF Policy, EmergencyPause
    <3>2. Configuration' = WithEnabled(marketEnabled')
      BY <3>1 DEF Configuration, WithEnabled
    <3>3. WithEnabled(marketEnabled') = WithEnabled(FALSE)
      BY <3>1
    <3>. QED  BY <3>2, <3>3, EnabledExcept
  <2>6. CASE UNCHANGED <<marketEnabled, fees, categories, executorOwners>>
    BY <1>1, <2>6 DEF Configuration
  <2>7. CASE \E e \in Executors : Settle(e)
    BY <2>6, <2>7 DEF Settle, Consume, platform
  <2>8. CASE Policy(Tick) \/ \E edit \in Edits : Policy(SignPolicyDigest(edit))
    BY <2>6, <2>8 DEF Policy, Tick, SignPolicyDigest, platform
  <2>9. CASE \/ \E a \in Agents, e \in Executors, grant \in Grants :
                  Policy(RegisterAgent(a, e, grant))
             \/ \E a \in Agents, e \in Executors, active \in BOOLEAN, grant \in Grants :
                  Policy(SetAgent(a, e, active, grant))
             \/ \E a \in Agents, c \in Categories, seller \in Sellers, allowed \in BOOLEAN :
                  Policy(SetCounterparty(a, c, seller, allowed))
    BY <2>6, <2>9 DEF Policy, RegisterAgent, SetAgent, SetCounterparty, platform
  <2>10. CASE \/ \E s \in Services : RegisterService(s)
              \/ \E e \in Executors, o \in Orders, a \in Agents, s \in Services :
                  ReadTerms(e, o, a, s)
              \/ \E o \in Orders, output \in Outputs :
                   AttestDelivery(o, output) \/ AcknowledgeDelivery(o, output)
    BY <2>6, <2>10 DEF RegisterService, ReadTerms, AttestDelivery, AcknowledgeDelivery, policyVars,
                       platform
  <2>11. CASE UNCHANGED vars
    BY <2>6, <2>11 DEF vars, policyVars, platform
  <2>. QED  BY <1>1, <2>1, <2>2, <2>3, <2>4, <2>5, <2>7, <2>8, <2>9, <2>10, <2>11 DEF Next
<1>. QED  BY <1>1

\* Apart from pausing, the platform changes only by an edit signed in sight of what it replaces.
THEOREM SignedIsWhatIsEdited == Spec => EditsAreOfWhatWasSigned
BY EditStep, Invariance, PTL DEF Spec, EditsAreOfWhatWasSigned

-----------------------------------------------------------------------------
(* The promise to the owner                                                *)

Mandate == [a \in Agents |-> IF agents[a].owner = None THEN None
                            ELSE [owner |-> agents[a].owner, cap |-> agents[a].totalCap,
                                  spent |-> agents[a].spent]]
Order == [o \in Orders |->
  IF orders[o].seller = None THEN [payer |-> None, stage |-> "new"]
  ELSE [payer |-> orders[o].payer,
        stage |-> IF orders[o].acknowledged THEN "accepted"
                  ELSE IF orders[o].output # None THEN "delivered" ELSE "paid"]]

\* What the promise's actions are, in terms of the contracts' state.
LEMMA PromiseSteps ==
  /\ UNCHANGED <<marketEnabled, Mandate, Order>> => UNCHANGED Mandates!vars
  /\ marketEnabled' = ~marketEnabled /\ UNCHANGED <<Mandate, Order>> => Mandates!Switch
  /\ \A a \in Agents, owner \in Owners, cap \in Nat :
       /\ Mandate[a] = None
       /\ Mandate' = [Mandate EXCEPT ![a] = [owner |-> owner, cap |-> cap, spent |-> 0]]
       /\ UNCHANGED <<marketEnabled, Order>>
       => Mandates!Grant(a, owner, cap)
  /\ \A a \in Agents, cap \in Nat :
       /\ Mandate[a] # None /\ cap >= Mandate[a].spent
       /\ Mandate' = [Mandate EXCEPT ![a].cap = cap]
       /\ UNCHANGED <<marketEnabled, Order>>
       => Mandates!Revise(a, cap)
  /\ \A o \in Orders, a \in Agents, e \in Executors, amount \in Nat :
       /\ marketEnabled /\ Order[o].stage = "new"
       /\ Mandate[a] # None /\ Mandate[a].spent + amount <= Mandate[a].cap
       /\ Mandate' = [Mandate EXCEPT ![a].spent = @ + amount]
       /\ Order' = [Order EXCEPT ![o] = [payer |-> e, stage |-> "paid"]]
       /\ UNCHANGED marketEnabled
       => Mandates!Pay(o, a, e, amount)
  /\ \A o \in Orders : \A from, to \in {"paid", "delivered", "accepted"} :
       /\ Order[o].stage = from
       /\ Order' = [Order EXCEPT ![o].stage = to]
       /\ UNCHANGED <<marketEnabled, Mandate>>
       => Mandates!Advance(o, from, to)
<1>1. UNCHANGED <<marketEnabled, Mandate, Order>> => UNCHANGED Mandates!vars
  BY Zenon DEF Mandate, Order, Mandates!vars
<1>2. marketEnabled' = ~marketEnabled /\ UNCHANGED <<Mandate, Order>> => Mandates!Switch
  BY Zenon DEF Mandate, Order, Mandates!Switch
<1>3. \A a \in Agents, owner \in Owners, cap \in Nat :
       /\ Mandate[a] = None
       /\ Mandate' = [Mandate EXCEPT ![a] = [owner |-> owner, cap |-> cap, spent |-> 0]]
       /\ UNCHANGED <<marketEnabled, Order>>
       => Mandates!Grant(a, owner, cap)
  BY Zenon DEF Mandate, Order, Mandates!Grant
<1>4. \A a \in Agents, cap \in Nat :
       /\ Mandate[a] # None /\ cap >= Mandate[a].spent
       /\ Mandate' = [Mandate EXCEPT ![a].cap = cap]
       /\ UNCHANGED <<marketEnabled, Order>>
       => Mandates!Revise(a, cap)
  BY Zenon DEF Mandate, Order, Mandates!Revise
<1>5. \A o \in Orders, a \in Agents, e \in Executors, amount \in Nat :
       /\ marketEnabled /\ Order[o].stage = "new"
       /\ Mandate[a] # None /\ Mandate[a].spent + amount <= Mandate[a].cap
       /\ Mandate' = [Mandate EXCEPT ![a].spent = @ + amount]
       /\ Order' = [Order EXCEPT ![o] = [payer |-> e, stage |-> "paid"]]
       /\ UNCHANGED marketEnabled
       => Mandates!Pay(o, a, e, amount)
  BY DEF Mandate, Order, Mandates!Pay
<1>6. \A o \in Orders : \A from, to \in {"paid", "delivered", "accepted"} :
       /\ Order[o].stage = from
       /\ Order' = [Order EXCEPT ![o].stage = to]
       /\ UNCHANGED <<marketEnabled, Mandate>>
       => Mandates!Advance(o, from, to)
  BY Zenon DEF Mandate, Order, Mandates!Advance
<1>. QED  BY <1>1, <1>2, <1>3, <1>4, <1>5, <1>6, Zenon

LEMMA PromiseInit == Init => Mandates!Init
<1>. SUFFICES ASSUME Init PROVE Mandates!Init
  OBVIOUS
<1>1. marketEnabled = TRUE /\ Mandate = [a \in Agents |-> None]
  BY DEF Init, PolicyInit, NoAgent, Mandate
<1>2. Order = [o \in Orders |-> [payer |-> None, stage |-> "new"]]
  BY DEF Init, NoOrders, NoRecord, Order
<1>. QED  BY <1>1, <1>2 DEF Mandates!Init, Mandate, Order

\* An order's delivery is accepted only after it was claimed.
Claimed == \A o \in Orders : orders[o].acknowledged => orders[o].output # None

LEMMA UnusedClaimed == Unused => Claimed
BY DEF Unused, NoOrders, NoRecord, Claimed

LEMMA ClaimedInductive == IInv /\ Claimed /\ [Next]_vars => Claimed'
<1>. SUFFICES ASSUME IInv, Claimed, [Next]_vars PROVE Claimed'
  OBVIOUS
<1>1. orders \in [Orders -> Records]
  BY DEF IInv, TypeOK, MarketTypeOK
<1>2. CASE UNCHANGED orders
  BY <1>2 DEF Claimed
<1>3. CASE \E e \in Executors : Settle(e)
  <2>1. PICK e \in Executors : Settle(e)
    BY <1>3
  <2>2. PICK o \in Orders, a \in Agents, s \in Services : Settles(e, o, a, s)
    BY <2>1, SettleMeans
  <2>. QED  BY <1>1, <2>2 DEF Settles, RecordPaid, Claimed
<1>4. CASE \E o \in Orders, output \in Outputs : AttestDelivery(o, output)
  BY <1>1, <1>4, MarketAssumption DEF AttestDelivery, Claimed, Records
<1>5. CASE \E o \in Orders, output \in Outputs : AcknowledgeDelivery(o, output)
  BY <1>1, <1>5, MarketAssumption DEF AcknowledgeDelivery, Claimed, Records
<1>. QED  BY <1>2, <1>3, <1>4, <1>5 DEF Next, Policy, marketVars, ledgerVars, vars,
                                      RegisterService, ReadTerms

LEMMA ClaimedFirst == Spec => []Claimed
BY InitUnused, UnusedClaimed, ClaimedInductive, Invariance, PTL DEF Spec

\* A step that touches neither the pause, nor an agent, nor an order's record.
LEMMA PromiseKept ==
  ASSUME UNCHANGED <<marketEnabled, agents, orders>>
  PROVE  UNCHANGED Mandates!vars
BY PromiseSteps DEF Mandate, Order

LEMMA RegisteredHasMandate ==
  ASSUME agents \in [Agents -> Limits], NEW a \in Agents, agents[a].owner # None
  PROVE  /\ Mandate[a] # None
         /\ Mandate[a].cap = agents[a].totalCap
         /\ Mandate[a].spent = agents[a].spent
<1>. DEFINE m == [owner |-> agents[a].owner, cap |-> agents[a].totalCap,
                  spent |-> agents[a].spent]
<1>1. Mandate[a] = m
  BY DEF Mandate
<1>2. m \in [owner : Owners, cap : Nat, spent : Nat]
  BY DEF Limits
<1>3. m.cap = agents[a].totalCap /\ m.spent = agents[a].spent
  OBVIOUS
<1>. HIDE DEF m
<1>. QED  BY <1>1, <1>2, <1>3, MarketAssumption

\* An order on record reaches a stage and the others stay where they are.
LEMMA OneOrderMoves ==
  ASSUME NEW o \in Orders, NEW stage, orders[o].seller # None,
         \A p \in Orders \ {o} : orders'[p] = orders[p],
         Order'[o] = [payer |-> orders[o].payer, stage |-> stage]
  PROVE  Order' = [Order EXCEPT ![o].stage = stage]
<1>. DEFINE new == [Order EXCEPT ![o].stage = stage]
<1>1. \A p \in Orders \ {o} : Order'[p] = Order[p]
  BY DEF Order
<1>2. Order = [p \in Orders |-> Order[p]] /\ Order' = [p \in Orders |-> Order'[p]]
  BY DEF Order
<1>3. Order[o].payer = orders[o].payer /\ Order[o] = [payer |-> Order[o].payer,
                                                      stage |-> Order[o].stage]
  BY DEF Order
<1>4. [Order[o] EXCEPT !.stage = stage] = [payer |-> orders[o].payer, stage |-> stage]
  BY <1>3
<1>. QED  BY <1>1, <1>2, <1>4

LEMMA GrantsPromise ==
  ASSUME IInv, NEW a \in Agents, NEW e \in Executors, NEW grant \in Grants,
         Policy(RegisterAgent(a, e, grant))
  PROVE  Mandates!Next
<1>. DEFINE owner == executorOwners[e]
            cap == grant.totalCap
<1>1. owner \in Owners /\ owner # None
  BY DEF IInv, TypeOK, PolicyTypeOK, Policy, RegisterAgent
<1>2. cap \in Nat
  BY PolicyAssumption DEF GrantStruct
<1>3. agents \in [Agents -> Limits]
  BY DEF IInv, TypeOK, PolicyTypeOK
<1>4. Mandate[a] = None
  BY DEF Policy, RegisterAgent, Mandate
<1>5. agents' = [agents EXCEPT ![a] =
        [owner |-> owner, executor |-> e, active |-> TRUE, spent |-> 0, totalCap |-> cap,
         windowCap |-> grant.windowCap, windowSeconds |-> grant.windowSeconds]]
  BY DEF Policy, RegisterAgent
<1>6. UNCHANGED <<marketEnabled, Order>>
  BY DEF Policy, RegisterAgent, platform, marketVars, ledgerVars, Order
<1>. HIDE DEF owner, cap
<1>7. Mandate' = [Mandate EXCEPT ![a] = [owner |-> owner, cap |-> cap, spent |-> 0]]
  BY <1>1, <1>3, <1>5 DEF Mandate
<1>8. Mandates!Grant(a, owner, cap)
  BY <1>1, <1>2, <1>4, <1>6, <1>7, PromiseSteps
<1>9. cap \in {g.totalCap : g \in Grants}
  BY DEF cap
<1>. QED  BY <1>1, <1>8, <1>9 DEF Mandates!Next

LEMMA RevisesPromise ==
  ASSUME IInv, NEW a \in Agents, NEW e \in Executors, NEW active \in BOOLEAN,
         NEW grant \in Grants, Policy(SetAgent(a, e, active, grant))
  PROVE  Mandates!Next
<1>. DEFINE cap == grant.totalCap
<1>1. cap \in Nat
  BY PolicyAssumption DEF GrantStruct
<1>2. agents \in [Agents -> Limits]
  BY DEF IInv, TypeOK, PolicyTypeOK
<1>3. agents[a].owner # None /\ cap >= agents[a].spent
  BY DEF Policy, SetAgent
<1>4. Mandate[a] # None /\ Mandate[a].spent = agents[a].spent
  BY <1>2, <1>3, RegisteredHasMandate
<1>5. agents' = [agents EXCEPT ![a] =
        [@ EXCEPT !.executor = e, !.active = active, !.totalCap = cap,
                  !.windowCap = grant.windowCap, !.windowSeconds = grant.windowSeconds]]
  BY DEF Policy, SetAgent
<1>6. UNCHANGED <<marketEnabled, Order>>
  BY DEF Policy, SetAgent, platform, marketVars, ledgerVars, Order
<1>. HIDE DEF cap
<1>7. Mandate' = [Mandate EXCEPT ![a].cap = cap]
  <2>1. /\ agents'[a].owner = agents[a].owner /\ agents'[a].spent = agents[a].spent
        /\ agents'[a].totalCap = cap
        /\ \A x \in Agents : x # a => agents'[x] = agents[x]
    BY <1>2, <1>5 DEF Limits
  <2>2. Mandate[a] = [owner |-> agents[a].owner, cap |-> agents[a].totalCap,
                      spent |-> agents[a].spent]
    BY <1>3 DEF Mandate
  <2>3. [Mandate[a] EXCEPT !.cap = cap]
          = [owner |-> agents[a].owner, cap |-> cap, spent |-> agents[a].spent]
    BY <2>2
  <2>4. Mandate'[a] = [Mandate[a] EXCEPT !.cap = cap]
    BY <1>3, <2>1, <2>3 DEF Mandate
  <2>5. \A x \in Agents : x # a => Mandate'[x] = Mandate[x]
    BY <2>1 DEF Mandate
  <2>. QED  BY <2>4, <2>5, Zenon DEF Mandate
<1>8. Mandates!Revise(a, cap)
  BY <1>1, <1>3, <1>4, <1>6, <1>7, PromiseSteps
<1>9. cap \in {g.totalCap : g \in Grants}
  BY DEF cap
<1>. QED  BY <1>8, <1>9 DEF Mandates!Next

LEMMA PaysPromise ==
  ASSUME IInv, NEW e \in Executors, Settle(e)
  PROVE  Mandates!Next
<1>1. PICK o \in Orders, a \in Agents, s \in Services : Settles(e, o, a, s)
  BY SettleMeans
<1>. DEFINE amount == Amount[s]
<1>2. amount \in Nat
  BY MarketAssumption
<1>3. agents \in [Agents -> Limits] /\ orders \in [Orders -> Records]
  BY DEF IInv, TypeOK, PolicyTypeOK, MarketTypeOK
<1>4. /\ marketEnabled /\ agents[a].spent + amount <= agents[a].totalCap
      /\ executorOwners[e] = agents[a].owner /\ e = agents[a].executor
  BY <1>1 DEF Settles, Consumable
<1>5. agents[a].owner # None
  BY <1>4, PolicyAssumption DEF IInv, Registered
<1>6. agents' = [agents EXCEPT ![a].spent = @ + amount] /\ UNCHANGED marketEnabled
  BY <1>1 DEF Settles, Consume, platform
<1>7. orders[o].seller = None /\ Seller[s] # None
  BY <1>1, PolicyAssumption, MarketAssumption DEF Settles, RecordPaid
<1>8. orders' = [orders EXCEPT ![o] = [payer |-> e, seller |-> Seller[s], service |-> s,
                                       output |-> None, acknowledged |-> FALSE]]
  BY <1>1 DEF Settles, RecordPaid
<1>. HIDE DEF amount
<1>9. Mandate[a] # None /\ Mandate[a].spent + amount <= Mandate[a].cap
  BY <1>3, <1>4, <1>5, RegisteredHasMandate
<1>10. Mandate' = [Mandate EXCEPT ![a].spent = @ + amount]
  BY <1>3, <1>5, <1>6 DEF Mandate, Limits
<1>11. Order[o].stage = "new"
  BY <1>7 DEF Order
<1>12. Order' = [Order EXCEPT ![o] = [payer |-> e, stage |-> "paid"]]
  BY <1>3, <1>7, <1>8 DEF Order
<1>13. Mandates!Pay(o, a, e, amount)
  BY <1>2, <1>4, <1>6, <1>9, <1>10, <1>11, <1>12, PromiseSteps
<1>14. amount \in {Amount[x] : x \in Services}
  BY DEF amount
<1>. QED  BY <1>13, <1>14 DEF Mandates!Next

LEMMA DeliversPromise ==
  ASSUME IInv, Claimed, NEW o \in Orders, NEW output \in Outputs, AttestDelivery(o, output)
  PROVE  Mandates!Next
<1>1. orders \in [Orders -> Records]
  BY DEF IInv, TypeOK, MarketTypeOK
<1>2. orders[o].seller # None /\ orders[o].output = None /\ ~orders[o].acknowledged
  BY DEF AttestDelivery, Claimed
<1>3. orders' = [orders EXCEPT ![o].output = output] /\ output # None
  BY MarketAssumption DEF AttestDelivery
<1>4. UNCHANGED <<marketEnabled, Mandate>>
  BY DEF AttestDelivery, policyVars, platform, mandates, Mandate
<1>5. Order[o].stage = "paid"
  BY <1>2 DEF Order
<1>6. Order' = [Order EXCEPT ![o].stage = "delivered"]
  <2>1. /\ orders'[o].seller # None /\ orders'[o].payer = orders[o].payer
        /\ orders'[o].output # None /\ ~orders'[o].acknowledged
    BY <1>1, <1>2, <1>3 DEF Records
  <2>2. \A p \in Orders \ {o} : orders'[p] = orders[p]
    BY <1>1, <1>3
  <2>3. Order'[o] = [payer |-> orders[o].payer, stage |-> "delivered"]
    BY <2>1 DEF Order
  <2>. QED  BY <1>2, <2>2, <2>3, OneOrderMoves
<1>7. Mandates!Advance(o, "paid", "delivered")
  BY <1>4, <1>5, <1>6, PromiseSteps
<1>. QED  BY <1>7 DEF Mandates!Next

LEMMA AcceptsPromise ==
  ASSUME IInv, NEW o \in Orders, NEW output \in Outputs, AcknowledgeDelivery(o, output)
  PROVE  Mandates!Next
<1>1. orders \in [Orders -> Records]
  BY DEF IInv, TypeOK, MarketTypeOK
<1>2. orders[o].seller # None /\ orders[o].output # None /\ ~orders[o].acknowledged
  BY MarketAssumption DEF AcknowledgeDelivery
<1>3. orders' = [orders EXCEPT ![o].acknowledged = TRUE]
  BY DEF AcknowledgeDelivery
<1>4. UNCHANGED <<marketEnabled, Mandate>>
  BY DEF AcknowledgeDelivery, policyVars, platform, mandates, Mandate
<1>5. Order[o].stage = "delivered"
  BY <1>2 DEF Order
<1>6. Order' = [Order EXCEPT ![o].stage = "accepted"]
  <2>1. /\ orders'[o].seller # None /\ orders'[o].payer = orders[o].payer
        /\ orders'[o].acknowledged
    BY <1>1, <1>2, <1>3 DEF Records
  <2>2. \A p \in Orders \ {o} : orders'[p] = orders[p]
    BY <1>1, <1>3
  <2>3. Order'[o] = [payer |-> orders[o].payer, stage |-> "accepted"]
    BY <2>1 DEF Order
  <2>. QED  BY <1>2, <2>2, <2>3, OneOrderMoves
<1>7. Mandates!Advance(o, "delivered", "accepted")
  BY <1>4, <1>5, <1>6, PromiseSteps
<1>. QED  BY <1>7 DEF Mandates!Next

LEMMA SwitchesPromise ==
  ASSUME IInv, Policy(Resume) \/ Policy(EmergencyPause)
  PROVE  [Mandates!Next]_(Mandates!vars)
<1>1. marketEnabled \in BOOLEAN /\ marketEnabled' \in BOOLEAN /\ UNCHANGED <<agents, orders>>
  BY DEF IInv, TypeOK, PolicyTypeOK, Policy, Resume, EmergencyPause, mandates, marketVars,
         ledgerVars
<1>2. UNCHANGED <<Mandate, Order>>
  BY <1>1 DEF Mandate, Order
<1>3. CASE marketEnabled' = ~marketEnabled
  BY <1>2, <1>3, PromiseSteps DEF Mandates!Next
<1>4. CASE UNCHANGED marketEnabled
  BY <1>1, <1>4, PromiseKept
<1>. QED  BY <1>1, <1>3, <1>4

\* The contracts implement the promise to the owner of an agent.
THEOREM Refinement == Spec => ImplementsMandates
<1>1. IInv /\ Claimed /\ [Next]_vars => [Mandates!Next]_(Mandates!vars)
  <2>. SUFFICES ASSUME IInv, Claimed, [Next]_vars PROVE [Mandates!Next]_(Mandates!vars)
    OBVIOUS
  <2>1. CASE UNCHANGED <<marketEnabled, agents, orders>>
    BY <2>1, PromiseKept
  <2>2. CASE Policy(Resume) \/ Policy(EmergencyPause)
    BY <2>2, SwitchesPromise
  <2>3. CASE \E a \in Agents, e \in Executors, grant \in Grants : Policy(RegisterAgent(a, e, grant))
    BY <2>3, GrantsPromise
  <2>4. CASE \E a \in Agents, e \in Executors, active \in BOOLEAN, grant \in Grants :
               Policy(SetAgent(a, e, active, grant))
    BY <2>4, RevisesPromise
  <2>5. CASE \E e \in Executors : Settle(e)
    BY <2>5, PaysPromise
  <2>6. CASE \E o \in Orders, output \in Outputs :
               AttestDelivery(o, output) \/ AcknowledgeDelivery(o, output)
    BY <2>6, DeliversPromise, AcceptsPromise
  <2>7. CASE \/ Policy(Tick)
             \/ \E edit \in Edits : Policy(SignPolicyDigest(edit))
             \/ \E c \in Categories, terms \in CategoryTerms : Policy(SetCategory(c, terms))
             \/ \E f \in Fees : Policy(SetFees(f))
             \/ \E e \in Executors, owner \in Owners : Policy(BindExecutor(e, owner))
             \/ \E a \in Agents, c \in Categories, seller \in Sellers, allowed \in BOOLEAN :
                  Policy(SetCounterparty(a, c, seller, allowed))
    <3>1. UNCHANGED <<marketEnabled, agents, orders>>
      BY <2>7 DEF Policy, Tick, SignPolicyDigest, SetCategory, SetFees, BindExecutor,
                  SetCounterparty, platform, mandates, marketVars, ledgerVars
    <3>. QED  BY <2>1, <3>1
  <2>8. CASE \/ \E s \in Services : RegisterService(s)
             \/ \E e \in Executors, o \in Orders, a \in Agents, s \in Services :
                  ReadTerms(e, o, a, s)
             \/ UNCHANGED vars
    <3>1. UNCHANGED <<marketEnabled, agents, orders>>
      BY <2>8 DEF RegisterService, ReadTerms, vars, policyVars, platform, mandates, marketVars,
                  ledgerVars
    <3>. QED  BY <2>1, <3>1
  <2>. QED  BY <2>2, <2>3, <2>4, <2>5, <2>6, <2>7, <2>8 DEF Next
<1>. QED  BY <1>1, PromiseInit, Invariance, ClaimedFirst, PTL
          DEF Spec, ImplementsMandates, Mandates!Spec

-----------------------------------------------------------------------------
(* Sums.  What a set of payments cost in all is a sum over a function, of  *)
(* which SumTheorems knows what one more payment or a part of them does.   *)

\* All sums and counts agree, over finite sets.
Books ==
  /\ IsFiniteSet(paid) /\ IsFiniteSet(orderHashes)
  /\ SameAmounts
  /\ SellersKeepTheirShare
  /\ ReputationCounts

\* What a payment cost.
Cost == [c \in Payments |-> Amount[c.service]]

LEMMA CostIsNat ==
  ASSUME NEW c \in Payments
  PROVE  Cost[c] = Amount[c.service] /\ Cost[c] \in Nat
BY MarketAssumption DEF Cost, Payments

LEMMA TotalIsSum ==
  ASSUME NEW S \in SUBSET Payments, IsFiniteSet(S)
  PROVE  Total(S) = SumFunctionOnSet(Cost, S)
<1>. DEFINE Rec(g) == g = [s \in SUBSET S |-> IF s = {} THEN 0
                            ELSE Amount[One(s).service] + g[s \ {One(s)}]]
            it == CHOOSE g : Rec(g)
<1>1. PICK g : SumsAre(Cost, g, S) /\ SumFunctionOnSet(Cost, S) = g[S]
  BY SumMeans
<1>2. \A s \in SUBSET S : s # {} => Cost[One(s)] = Amount[One(s).service]
  BY OneIsMember, CostIsNat
<1>3. Rec(it)
  <2>1. Rec(g)
    BY <1>1, <1>2 DEF SumsAre
  <2>. HIDE DEF Rec
  <2>. QED  BY <2>1, Zenon
<1>4. Total(S) = it[S]
  BY Zenon DEF Total, MapThenSumSet, MapThenFoldSet, One
<1>5. SumsAre(Cost, it, S)
  <2>. HIDE DEF it
  <2>. QED  BY <1>2, <1>3 DEF SumsAre
<1>6. it[S] = g[S]
  <2>. HIDE DEF it
  <2>. QED  BY <1>1, <1>5, SumsAreOne
<1>. QED  BY <1>1, <1>4, <1>6

\* A payment that is not yet among those counted adds what it cost.
LEMMA TotalWithOne ==
  ASSUME NEW S \in SUBSET Payments, IsFiniteSet(S), NEW d \in Payments, d \notin S
  PROVE  Total(S) \in Nat /\ Total(S \cup {d}) = Total(S) + Amount[d.service]
<1>1. PICK T : T = S \cup {d}
  OBVIOUS
<1>2. T \in SUBSET Payments /\ IsFiniteSet(T)
  BY <1>1, FS_AddElement
<1>3. Total(S) = SumFunctionOnSet(Cost, S) /\ Total(T) = SumFunctionOnSet(Cost, T)
  BY <1>2, TotalIsSum
<1>4. \A c \in S \cup {d} : Cost[c] \in Nat
  BY CostIsNat
<1>5. SumFunctionOnSet(Cost, S \cup {d}) = SumFunctionOnSet(Cost, S) + Cost[d]
  BY <1>4, SumWithOne
<1>6. SumFunctionOnSet(Cost, S) \in Nat
  BY <1>4, SumIsNat
<1>7. Cost[d] = Amount[d.service]
  BY CostIsNat
<1>8. Total(T) = Total(S) + Amount[d.service]
  BY <1>1, <1>3, <1>5, <1>7, Zenon
<1>. QED  BY <1>1, <1>3, <1>6, <1>8, Zenon

LEMMA TotalOfPart ==
  ASSUME NEW S \in SUBSET Payments, IsFiniteSet(S), NEW T \in SUBSET S
  PROVE  Total(T) \in Nat /\ (\A U \in SUBSET T : Total(U) \in Nat /\ Total(U) <= Total(T))
<1>1. ASSUME NEW U \in SUBSET S
      PROVE  U \in SUBSET Payments /\ IsFiniteSet(U) /\ Total(U) = SumFunctionOnSet(Cost, U)
             /\ Total(U) \in Nat
  <2>1. U \in SUBSET Payments /\ IsFiniteSet(U)
    BY FS_Subset
  <2>2. \A c \in U : Cost[c] \in Nat
    BY <2>1, CostIsNat
  <2>. QED  BY <2>1, <2>2, TotalIsSum, SumIsNat
<1>2. ASSUME NEW U \in SUBSET T PROVE Total(U) <= Total(T)
  <2>1. \A c \in T : Cost[c] \in Nat
    BY CostIsNat
  <2>2. SumFunctionOnSet(Cost, U) <= SumFunctionOnSet(Cost, T)
    BY <1>1, <2>1, SumOfPart
  <2>. QED  BY <1>1, <2>2
<1>. QED  BY <1>1, <1>2

LEMMA TotalOfBoth ==
  ASSUME NEW S \in SUBSET Payments, IsFiniteSet(S), NEW T \in SUBSET S, NEW U \in SUBSET S
  PROVE  /\ Total(T \cup U) <= Total(T) + Total(U)
         /\ Total(T) \in Nat /\ Total(U) \in Nat /\ Total(T \cup U) \in Nat
<1>1. PICK B : B = T \cup U
  OBVIOUS
<1>2. B \in SUBSET S
  BY <1>1
<1>3. \A c \in S : Cost[c] \in Nat
  BY CostIsNat
<1>4. SumFunctionOnSet(Cost, T \cup U) <= SumFunctionOnSet(Cost, T) + SumFunctionOnSet(Cost, U)
  BY <1>3, SumOfBoth
<1>5. SumFunctionOnSet(Cost, B) <= SumFunctionOnSet(Cost, T) + SumFunctionOnSet(Cost, U)
  BY <1>1, <1>4, Zenon
<1>6. ASSUME NEW V \in SUBSET S PROVE Total(V) = SumFunctionOnSet(Cost, V) /\ Total(V) \in Nat
  BY TotalIsSum, TotalOfPart, FS_Subset
<1>7. Total(B) <= Total(T) + Total(U) /\ Total(T) \in Nat /\ Total(U) \in Nat /\ Total(B) \in Nat
  BY <1>2, <1>5, <1>6
<1>. QED  BY <1>1, <1>7, Zenon

LEMMA TotalOfNone == Total({}) = 0
BY TotalIsSum, SumOfNone, FS_EmptySet

-----------------------------------------------------------------------------
(* The books                                                               *)

\* A step that pays nobody, and whatever it records is counted.
LEMMA LedgerBooks ==
  ASSUME Books, UNCHANGED <<orderHashes, funds, received, paid>>, ReputationCounts',
         \A a \in Agents : agents'[a].spent = agents[a].spent
  PROVE  Books'
<1>1. IsFiniteSet(paid)' /\ IsFiniteSet(orderHashes)'
  BY DEF Books
<1>2. SellersKeepTheirShare'
  BY DEF Books, SellersKeepTheirShare
<1>3. SameAmounts'
  <2>1. \A a \in Agents : PaidBy(a)' = PaidBy(a)
    BY DEF PaidBy
  <2>2. \A a \in Agents : agents'[a].spent = Total(PaidBy(a)')
    BY <2>1 DEF Books, SameAmounts
  <2>3. \A e \in Executors : Funds - funds'[e] = Total({c \in paid' : c.payer = e})
    BY DEF Books, SameAmounts
  <2>4. SumFunctionOnSet(received, Recipients)' = Total(paid')
    BY DEF Books, SameAmounts
  <2>. QED  BY <2>2, <2>3, <2>4 DEF SameAmounts
<1>. QED  BY <1>1, <1>2, <1>3 DEF Books

LEMMA BooksKept ==
  ASSUME Books, UNCHANGED <<orderHashes, orders, reputation, funds, received, paid>>,
         \A a \in Agents : agents'[a].spent = agents[a].spent
  PROVE  Books'
<1>1. ReputationCounts'
  BY DEF Books, ReputationCounts
<1>. QED  BY <1>1, LedgerBooks

LEMMA RegisterAgentBooks ==
  ASSUME IInv, Books, NEW a \in Agents, NEW e \in Executors, NEW grant \in Grants,
         Policy(RegisterAgent(a, e, grant))
  PROVE  Books'
<1>1. PaidBy(a) = {}
  BY DEF IInv, PayersAreEnrolled, Policy, RegisterAgent, PaidBy
<1>2. agents[a].spent = 0
  BY <1>1, TotalOfNone DEF Books, SameAmounts
<1>3. \A x \in Agents : agents'[x].spent = agents[x].spent
  BY <1>2 DEF IInv, TypeOK, PolicyTypeOK, Policy, RegisterAgent
<1>. QED  BY <1>3, BooksKept DEF Policy, RegisterAgent, marketVars, ledgerVars, token

LEMMA SetAgentBooks ==
  ASSUME IInv, Books, NEW a \in Agents, NEW e \in Executors, NEW active \in BOOLEAN,
         NEW grant \in Grants, Policy(SetAgent(a, e, active, grant))
  PROVE  Books'
<1>1. \A x \in Agents : agents'[x].spent = agents[x].spent
  BY DEF IInv, TypeOK, PolicyTypeOK, Limits, Policy, SetAgent
<1>. QED  BY <1>1, BooksKept DEF Policy, SetAgent, marketVars, ledgerVars, token

-----------------------------------------------------------------------------
(* Counts                                                                  *)

SoldBy(s) == {o \in Orders : orders[o].seller = s}
DeliveredBy(s) == {o \in SoldBy(s) : orders[o].output # None}
AcknowledgedOf(s) == {o \in DeliveredBy(s) : orders[o].acknowledged}

Counts(s) == [paid |-> Cardinality(SoldBy(s)), delivered |-> Cardinality(DeliveredBy(s)),
              acknowledged |-> Cardinality(AcknowledgedOf(s))]

LEMMA CountsMean == ReputationCounts <=> \A s \in Sellers : reputation[s] = Counts(s)
BY DEF ReputationCounts, SoldBy, DeliveredBy, AcknowledgedOf, Counts

LEMMA FiniteCounts ==
  ASSUME IInv, IsFiniteSet(orderHashes), NEW s \in Sellers
  PROVE  /\ IsFiniteSet(SoldBy(s)) /\ IsFiniteSet(DeliveredBy(s))
         /\ IsFiniteSet(AcknowledgedOf(s))
<1>1. SoldBy(s) \subseteq orderHashes
  BY PolicyAssumption DEF IInv, SameOrders, SoldBy
<1>2. DeliveredBy(s) \subseteq orderHashes /\ AcknowledgedOf(s) \subseteq orderHashes
  BY <1>1 DEF DeliveredBy, AcknowledgedOf
<1>. QED  BY <1>1, <1>2, FS_Subset

\* One count of one seller goes up by one with the order that joins its set.
LEMMA OneCounts ==
  ASSUME ReputationCounts, reputation \in [Sellers -> [paid : Nat, delivered : Nat,
                                                      acknowledged : Nat]],
         NEW x \in Sellers, reputation' \in [Sellers -> [paid : Nat, delivered : Nat,
                                                      acknowledged : Nat]],
         \A s \in Sellers \ {x} : Counts(s)' = Counts(s) /\ reputation'[s] = reputation[s],
         reputation'[x] = Counts(x)'
  PROVE  ReputationCounts'
<1>1. \A s \in Sellers : reputation[s] = Counts(s)
  BY CountsMean
<1>2. \A s \in Sellers : reputation'[s] = Counts(s)'
  BY <1>1
<1>. QED  BY <1>2 DEF ReputationCounts, SoldBy, DeliveredBy, AcknowledgedOf, Counts

LEMMA PaidCounts ==
  ASSUME IInv, Books, NEW e \in Executors, NEW o \in Orders, NEW a \in Agents, NEW s \in Services,
         Settles(e, o, a, s)
  PROVE  ReputationCounts'
<1>. DEFINE x == Seller[s]
<1>1. x \in Sellers /\ x # None
  BY PolicyAssumption, MarketAssumption
<1>2. /\ reputation \in [Sellers -> [paid : Nat, delivered : Nat, acknowledged : Nat]]
      /\ orders \in [Orders -> Records]
  BY DEF IInv, TypeOK, MarketTypeOK
<1>3. /\ orders[o].seller = None
      /\ orders' = [orders EXCEPT ![o] = [payer |-> e, seller |-> x, service |-> s,
                                          output |-> None, acknowledged |-> FALSE]]
      /\ reputation' = [reputation EXCEPT ![x].paid = @ + 1]
  BY DEF Settles, RecordPaid
<1>4. ReputationCounts /\ IsFiniteSet(SoldBy(x))
  BY <1>1, FiniteCounts DEF Books
<1>. HIDE DEF x
<1>5. /\ reputation' \in [Sellers -> [paid : Nat, delivered : Nat, acknowledged : Nat]]
      /\ \A y \in Sellers \ {x} : reputation'[y] = reputation[y]
  BY <1>1, <1>2, <1>3
<1>6. \A y \in Sellers \ {x} : SoldBy(y)' = SoldBy(y) /\ DeliveredBy(y)' = DeliveredBy(y)
                              /\ AcknowledgedOf(y)' = AcknowledgedOf(y)
  BY <1>1, <1>2, <1>3, PolicyAssumption DEF SoldBy, DeliveredBy, AcknowledgedOf
<1>7. /\ SoldBy(x)' = SoldBy(x) \cup {o} /\ o \notin SoldBy(x)
      /\ DeliveredBy(x)' = DeliveredBy(x) /\ AcknowledgedOf(x)' = AcknowledgedOf(x)
  BY <1>1, <1>2, <1>3 DEF SoldBy, DeliveredBy, AcknowledgedOf
<1>8. reputation'[x] = Counts(x)'
  <2>1. reputation[x] = Counts(x)
    BY <1>1, <1>4, CountsMean
  <2>2. Cardinality(SoldBy(x)') = Cardinality(SoldBy(x)) + 1
    <3>1. Cardinality(SoldBy(x) \cup {o}) = Cardinality(SoldBy(x)) + 1
      BY <1>4, <1>7, FS_AddElement
    <3>. QED  BY <1>7, <3>1, Zenon
  <2>3. reputation'[x] = [paid |-> Cardinality(SoldBy(x)) + 1,
                          delivered |-> Cardinality(DeliveredBy(x)),
                          acknowledged |-> Cardinality(AcknowledgedOf(x))]
    BY <1>1, <1>2, <1>3, <2>1 DEF Counts
  <2>4. Counts(x)' = [paid |-> Cardinality(SoldBy(x)'), delivered |-> Cardinality(DeliveredBy(x)'),
                      acknowledged |-> Cardinality(AcknowledgedOf(x)')]
    BY DEF Counts
  <2>. QED  BY <1>7, <2>2, <2>3, <2>4, Zenon
<1>9. \A y \in Sellers \ {x} : Counts(y)' = Counts(y)
  BY <1>6, Zenon DEF Counts
<1>. QED  BY <1>1, <1>2, <1>4, <1>5, <1>8, <1>9, OneCounts

LEMMA DeliveredCounts ==
  ASSUME IInv, Claimed, Books, NEW o \in Orders, NEW output \in Outputs, AttestDelivery(o, output)
  PROVE  ReputationCounts'
<1>0. PICK x : x = orders[o].seller
  OBVIOUS
<1>2. /\ reputation \in [Sellers -> [paid : Nat, delivered : Nat, acknowledged : Nat]]
      /\ orders \in [Orders -> Records] /\ output # None
  BY MarketAssumption DEF IInv, TypeOK, MarketTypeOK
<1>3. /\ orders[o].output = None /\ ~orders[o].acknowledged
      /\ orders' = [orders EXCEPT ![o].output = output]
      /\ reputation' = [reputation EXCEPT ![x].delivered = @ + 1]
  BY <1>0 DEF AttestDelivery, Claimed
<1>1. x \in Sellers /\ x # None
  BY <1>0, <1>2 DEF AttestDelivery, Records
<1>4. ReputationCounts /\ IsFiniteSet(DeliveredBy(x))
  BY <1>1, FiniteCounts DEF Books
<1>5. /\ reputation' \in [Sellers -> [paid : Nat, delivered : Nat, acknowledged : Nat]]
      /\ \A y \in Sellers \ {x} : reputation'[y] = reputation[y]
  BY <1>1, <1>2, <1>3
<1>10. /\ \A p \in Orders : orders'[p].seller = orders[p].seller
                         /\ orders'[p].acknowledged = orders[p].acknowledged
       /\ \A p \in Orders \ {o} : orders'[p].output = orders[p].output
       /\ orders'[o].output = output
  BY <1>2, <1>3 DEF Records
<1>6. \A y \in Sellers \ {x} : SoldBy(y)' = SoldBy(y) /\ DeliveredBy(y)' = DeliveredBy(y)
                              /\ AcknowledgedOf(y)' = AcknowledgedOf(y)
  BY <1>0, <1>10 DEF SoldBy, DeliveredBy, AcknowledgedOf
<1>7. /\ SoldBy(x)' = SoldBy(x)
      /\ DeliveredBy(x)' = DeliveredBy(x) \cup {o} /\ o \notin DeliveredBy(x)
      /\ AcknowledgedOf(x)' = AcknowledgedOf(x)
  BY <1>0, <1>2, <1>3, <1>10 DEF SoldBy, DeliveredBy, AcknowledgedOf
<1>8. reputation'[x] = Counts(x)'
  <2>1. reputation[x] = Counts(x)
    BY <1>1, <1>4, CountsMean
  <2>2. Cardinality(DeliveredBy(x)') = Cardinality(DeliveredBy(x)) + 1
    <3>1. Cardinality(DeliveredBy(x) \cup {o}) = Cardinality(DeliveredBy(x)) + 1
      BY <1>4, <1>7, FS_AddElement
    <3>. QED  BY <1>7, <3>1, Zenon
  <2>3. reputation'[x] = [paid |-> Cardinality(SoldBy(x)),
                          delivered |-> Cardinality(DeliveredBy(x)) + 1,
                          acknowledged |-> Cardinality(AcknowledgedOf(x))]
    BY <1>1, <1>2, <1>3, <2>1 DEF Counts
  <2>4. Counts(x)' = [paid |-> Cardinality(SoldBy(x)'), delivered |-> Cardinality(DeliveredBy(x)'),
                      acknowledged |-> Cardinality(AcknowledgedOf(x)')]
    BY DEF Counts
  <2>. QED  BY <1>7, <2>2, <2>3, <2>4, Zenon
<1>9. \A y \in Sellers \ {x} : Counts(y)' = Counts(y)
  BY <1>6, Zenon DEF Counts
<1>. QED  BY <1>1, <1>2, <1>4, <1>5, <1>8, <1>9, OneCounts

LEMMA AcknowledgedCounts ==
  ASSUME IInv, Books, NEW o \in Orders, NEW output \in Outputs, AcknowledgeDelivery(o, output)
  PROVE  ReputationCounts'
<1>0. PICK x : x = orders[o].seller
  OBVIOUS
<1>2. /\ reputation \in [Sellers -> [paid : Nat, delivered : Nat, acknowledged : Nat]]
      /\ orders \in [Orders -> Records]
  BY DEF IInv, TypeOK, MarketTypeOK
<1>3. /\ orders[o].output # None /\ ~orders[o].acknowledged
      /\ orders' = [orders EXCEPT ![o].acknowledged = TRUE]
      /\ reputation' = [reputation EXCEPT ![x].acknowledged = @ + 1]
  BY <1>0, MarketAssumption DEF AcknowledgeDelivery
<1>1. x \in Sellers /\ x # None
  BY <1>0, <1>2 DEF AcknowledgeDelivery, Records
<1>4. ReputationCounts /\ IsFiniteSet(AcknowledgedOf(x))
  BY <1>1, FiniteCounts DEF Books
<1>5. /\ reputation' \in [Sellers -> [paid : Nat, delivered : Nat, acknowledged : Nat]]
      /\ \A y \in Sellers \ {x} : reputation'[y] = reputation[y]
  BY <1>1, <1>2, <1>3
<1>10. /\ \A p \in Orders : orders'[p].seller = orders[p].seller
                         /\ orders'[p].output = orders[p].output
       /\ \A p \in Orders \ {o} : orders'[p].acknowledged = orders[p].acknowledged
       /\ orders'[o].acknowledged
  BY <1>2, <1>3 DEF Records
<1>6. \A y \in Sellers \ {x} : SoldBy(y)' = SoldBy(y) /\ DeliveredBy(y)' = DeliveredBy(y)
                              /\ AcknowledgedOf(y)' = AcknowledgedOf(y)
  BY <1>0, <1>10 DEF SoldBy, DeliveredBy, AcknowledgedOf
<1>7. /\ SoldBy(x)' = SoldBy(x) /\ DeliveredBy(x)' = DeliveredBy(x)
      /\ AcknowledgedOf(x)' = AcknowledgedOf(x) \cup {o} /\ o \notin AcknowledgedOf(x)
  BY <1>0, <1>3, <1>10 DEF SoldBy, DeliveredBy, AcknowledgedOf
<1>8. reputation'[x] = Counts(x)'
  <2>1. reputation[x] = Counts(x)
    BY <1>1, <1>4, CountsMean
  <2>2. Cardinality(AcknowledgedOf(x)') = Cardinality(AcknowledgedOf(x)) + 1
    <3>1. Cardinality(AcknowledgedOf(x) \cup {o}) = Cardinality(AcknowledgedOf(x)) + 1
      BY <1>4, <1>7, FS_AddElement
    <3>. QED  BY <1>7, <3>1, Zenon
  <2>3. reputation'[x] = [paid |-> Cardinality(SoldBy(x)),
                          delivered |-> Cardinality(DeliveredBy(x)),
                          acknowledged |-> Cardinality(AcknowledgedOf(x)) + 1]
    BY <1>1, <1>2, <1>3, <2>1 DEF Counts
  <2>4. Counts(x)' = [paid |-> Cardinality(SoldBy(x)'), delivered |-> Cardinality(DeliveredBy(x)'),
                      acknowledged |-> Cardinality(AcknowledgedOf(x)')]
    BY DEF Counts
  <2>. QED  BY <1>7, <2>2, <2>3, <2>4, Zenon
<1>9. \A y \in Sellers \ {x} : Counts(y)' = Counts(y)
  BY <1>6, Zenon DEF Counts
<1>. QED  BY <1>1, <1>2, <1>4, <1>5, <1>8, <1>9, OneCounts

-----------------------------------------------------------------------------
(* Amounts                                                                 *)

LEMMA NewPayment ==
  ASSUME IInv, Books, NEW e \in Executors, NEW o \in Orders, NEW a \in Agents, NEW s \in Services,
         Settles(e, o, a, s)
  PROVE  \E d \in Payments :
           /\ d = Payment(o, a, e, s) /\ d \notin paid /\ paid' = paid \cup {d}
           /\ paid \in SUBSET Payments /\ IsFiniteSet(paid)
           /\ d.agent = a /\ d.payer = e /\ d.service = s /\ d.at = now
           /\ d.grant = agents[a] /\ d.terms = categories[ServiceCategory[s]]
<1>1. PICK d : d = Payment(o, a, e, s)
  OBVIOUS
<1>2. /\ agents[a] \in Limits /\ now \in Nat
      /\ categories[ServiceCategory[s]] \in Policies
  BY MarketAssumption DEF IInv, TypeOK, PolicyTypeOK
<1>3. d \in Payments
  BY <1>1, <1>2 DEF Payment, Payments
<1>4. d.order = o /\ d.agent = a /\ d.payer = e /\ d.service = s /\ d.at = now
      /\ d.grant = agents[a] /\ d.terms = categories[ServiceCategory[s]]
  BY <1>1 DEF Payment
<1>5. d \notin paid
  BY <1>4 DEF IInv, SameOrders, Settles
<1>6. paid' = paid \cup {d} /\ paid \in SUBSET Payments /\ IsFiniteSet(paid)
  BY <1>1 DEF Settles, IInv, TypeOK, MarketTypeOK, Books
<1>. QED  BY <1>1, <1>3, <1>4, <1>5, <1>6

\* What a group of payments costs after the new one, and before.
LEMMA TotalAfter ==
  ASSUME NEW S \in SUBSET Payments, IsFiniteSet(S), NEW d \in Payments, d \notin S, NEW T
  PROVE  /\ T = S => Total(T) = Total(S)
         /\ T = S \cup {d} => Total(T) = Total(S) + Amount[d.service]
         /\ Total(S) \in Nat
<1>1. Total(S) \in Nat /\ Total(S \cup {d}) = Total(S) + Amount[d.service]
  BY TotalWithOne
<1>. QED  BY <1>1, Zenon

LEMMA SpentBooks ==
  ASSUME IInv, Books, NEW e \in Executors, NEW o \in Orders, NEW a \in Agents, NEW s \in Services,
         Settles(e, o, a, s)
  PROVE  \A x \in Agents : agents'[x].spent = Total(PaidBy(x)')
<1>1. PICK d \in Payments :
        /\ d \notin paid /\ paid' = paid \cup {d} /\ paid \in SUBSET Payments
        /\ IsFiniteSet(paid) /\ d.agent = a /\ d.service = s
  BY NewPayment
<1>2. /\ agents \in [Agents -> Limits] /\ agents' = [agents EXCEPT ![a].spent = @ + Amount[s]]
  BY DEF IInv, TypeOK, PolicyTypeOK, Settles, Consume
<1>. SUFFICES ASSUME NEW x \in Agents PROVE agents'[x].spent = Total(PaidBy(x)')
  OBVIOUS
<1>3. PaidBy(x) \in SUBSET Payments /\ IsFiniteSet(PaidBy(x)) /\ d \notin PaidBy(x)
      /\ agents[x].spent = Total(PaidBy(x))
  BY <1>1, FS_Subset DEF PaidBy, Books, SameAmounts
<1>4. CASE x = a
  <2>1. PaidBy(x)' = PaidBy(x) \cup {d}
    BY <1>1, <1>4 DEF PaidBy
  <2>2. Total(PaidBy(x)') = Total(PaidBy(x)) + Amount[s]
    BY <1>1, <1>3, <2>1, TotalAfter
  <2>3. agents'[x].spent = agents[x].spent + Amount[s]
    BY <1>2, <1>4 DEF Limits
  <2>. QED  BY <1>3, <2>2, <2>3
<1>5. CASE x # a
  <2>1. PaidBy(x)' = PaidBy(x)
    BY <1>1, <1>5 DEF PaidBy
  <2>2. agents'[x].spent = agents[x].spent
    BY <1>2, <1>5
  <2>. QED  BY <1>3, <2>1, <2>2, Zenon
<1>. QED  BY <1>4, <1>5

PaidFrom(e) == {c \in paid : c.payer = e}

LEMMA FundsBooks ==
  ASSUME IInv, Books, NEW e \in Executors, NEW o \in Orders, NEW a \in Agents, NEW s \in Services,
         Settles(e, o, a, s)
  PROVE  \A x \in Executors : Funds - funds'[x] = Total(PaidFrom(x)')
<1>1. PICK d \in Payments :
        /\ d \notin paid /\ paid' = paid \cup {d} /\ paid \in SUBSET Payments
        /\ IsFiniteSet(paid) /\ d.payer = e /\ d.service = s
  BY NewPayment
<1>2. PICK p : p = Parts(Amount[s])
  OBVIOUS
<1>3. /\ p.reserve \in Nat /\ p.review \in Nat /\ p.seller \in Nat /\ Amount[s] \in Nat
      /\ p.reserve + p.review + p.seller = Amount[s]
  <2>1. Amount[s] \in Nat
    BY MarketAssumption
  <2>. QED  BY <1>2, <2>1, PartsAddUp DEF IInv, TypeOK, PolicyTypeOK
<1>4. /\ funds \in [Executors -> Nat]
      /\ funds' = [funds EXCEPT ![e] = @ - p.seller - p.reserve - p.review]
  BY <1>2 DEF IInv, TypeOK, MarketTypeOK, Settles, Transfers
<1>. SUFFICES ASSUME NEW x \in Executors PROVE Funds - funds'[x] = Total(PaidFrom(x)')
  OBVIOUS
<1>5. PaidFrom(x) \in SUBSET Payments /\ IsFiniteSet(PaidFrom(x)) /\ d \notin PaidFrom(x)
      /\ Funds - funds[x] = Total(PaidFrom(x)) /\ Funds \in Nat /\ funds[x] \in Nat
  BY <1>1, <1>4, FS_Subset, MarketAssumption DEF PaidFrom, Books, SameAmounts
<1>6. CASE x = e
  <2>1. PaidFrom(x)' = PaidFrom(x) \cup {d}
    BY <1>1, <1>6 DEF PaidFrom
  <2>2. Total(PaidFrom(x)') = Total(PaidFrom(x)) + Amount[s]
    BY <1>1, <1>5, <2>1, TotalAfter
  <2>3. funds'[x] = funds[x] - p.seller - p.reserve - p.review
    BY <1>4, <1>6
  <2>. QED  BY <1>3, <1>5, <2>2, <2>3
<1>7. CASE x # e
  <2>1. PaidFrom(x)' = PaidFrom(x)
    BY <1>1, <1>7 DEF PaidFrom
  <2>2. funds'[x] = funds[x]
    BY <1>4, <1>7
  <2>. QED  BY <1>5, <2>1, <2>2, Zenon
<1>. QED  BY <1>6, <1>7

\* Of the functions r0 and r1 on R, the latter gives three members more.
ThreeGet(R, r0, r1, x, y, z, i, j, k) ==
  /\ r0 \in [R -> Nat] /\ r1 \in [R -> Nat]
  /\ {x, y, z} \subseteq R /\ x # y /\ y # z /\ x # z
  /\ i \in Nat /\ j \in Nat /\ k \in Nat
  /\ \A q \in R : q # x /\ q # y /\ q # z => r1[q] = r0[q]
  /\ r1[x] = r0[x] + i /\ r1[y] = r0[y] + j /\ r1[z] = r0[z] + k

\* What the recipients have together grows by the three parts.
LEMMA ThreeParts ==
  ASSUME NEW R, NEW r0, NEW r1, NEW x, NEW y, NEW z, NEW i, NEW j, NEW k,
         IsFiniteSet(R), ThreeGet(R, r0, r1, x, y, z, i, j, k)
  PROVE  SumFunctionOnSet(r1, R) = SumFunctionOnSet(r0, R) + i + j + k
<1>0. /\ r0 \in [R -> Nat] /\ r1 \in [R -> Nat]
      /\ {x, y, z} \subseteq R /\ x # y /\ y # z /\ x # z
      /\ i \in Nat /\ j \in Nat /\ k \in Nat
      /\ \A q \in R : q # x /\ q # y /\ q # z => r1[q] = r0[q]
      /\ r1[x] = r0[x] + i /\ r1[y] = r0[y] + j /\ r1[z] = r0[z] + k
  BY DEF ThreeGet
<1>1. PICK m, n : /\ m = [r0 EXCEPT ![x] = r0[x] + i]
                  /\ n = [m EXCEPT ![y] = r0[y] + j]
  OBVIOUS
<1>2. m \in [R -> Nat] /\ n \in [R -> Nat]
  BY <1>0, <1>1
<1>3. SumFunctionOnSet(m, R) + r0[x] = SumFunctionOnSet(r0, R) + m[x]
  <2>1. \A q \in R \ {x} : r0[q] = m[q]
    BY <1>0, <1>1
  <2>. QED  BY <1>0, <1>2, <2>1, SumWithChange
<1>4. SumFunctionOnSet(n, R) + m[y] = SumFunctionOnSet(m, R) + n[y]
  <2>1. \A q \in R \ {y} : m[q] = n[q]
    BY <1>0, <1>1, <1>2
  <2>. QED  BY <1>0, <1>2, <2>1, SumWithChange
<1>5. SumFunctionOnSet(r1, R) + n[z] = SumFunctionOnSet(n, R) + r1[z]
  <2>1. \A q \in R \ {z} : n[q] = r1[q]
    BY <1>0, <1>1, <1>2
  <2>. QED  BY <1>0, <1>2, <2>1, SumWithChange
<1>6. m[x] = r0[x] + i /\ m[y] = r0[y] /\ n[y] = r0[y] + j /\ n[z] = r0[z]
  BY <1>0, <1>1, <1>2
<1>7. /\ SumFunctionOnSet(r0, R) \in Nat /\ SumFunctionOnSet(m, R) \in Nat
      /\ SumFunctionOnSet(n, R) \in Nat /\ SumFunctionOnSet(r1, R) \in Nat
  BY <1>0, <1>2, SumIsNat
<1>8. r0[x] \in Nat /\ r0[y] \in Nat /\ r0[z] \in Nat
  BY <1>0
<1>. QED  BY <1>0, <1>3, <1>4, <1>5, <1>6, <1>7, <1>8

LEMMA FiniteRecipients == IsFiniteSet(Recipients)
<1>1. IsFiniteSet({"reserve"} \cup {"review"})
  BY FS_Singleton, FS_Union
<1>2. Recipients = Sellers \cup ({"reserve"} \cup {"review"})
  BY DEF Recipients
<1>3. IsFiniteSet(Sellers \cup ({"reserve"} \cup {"review"}))
  BY <1>1, MarketAssumption, FS_Union
<1>. QED  BY <1>2, <1>3, Zenon

LEMMA ReceivedBooks ==
  ASSUME IInv, Books, NEW e \in Executors, NEW o \in Orders, NEW a \in Agents, NEW s \in Services,
         Settles(e, o, a, s)
  PROVE  /\ SumFunctionOnSet(received', Recipients) = Total(paid')
         /\ SellersKeepTheirShare'
<1>1. PICK d \in Payments :
        /\ d \notin paid /\ paid' = paid \cup {d} /\ paid \in SUBSET Payments
        /\ IsFiniteSet(paid) /\ d.service = s
  BY NewPayment
<1>2. PICK p, x : p = Parts(Amount[s]) /\ x = Seller[s]
  OBVIOUS
<1>3. /\ p.reserve \in Nat /\ p.review \in Nat /\ p.seller \in Nat /\ Amount[s] \in Nat
      /\ p.reserve + p.review + p.seller = Amount[s]
      /\ 10 * (p.reserve + p.review) <= Amount[s]
  <2>1. Amount[s] \in Nat
    BY MarketAssumption
  <2>. QED  BY <1>2, <2>1, PartsAddUp DEF IInv, TypeOK, PolicyTypeOK
<1>4. /\ "reserve" \in Recipients /\ "review" \in Recipients /\ x \in Recipients
      /\ x # "reserve" /\ x # "review" /\ "reserve" # "review"
  BY <1>2, MarketAssumption DEF Recipients
<1>5. received \in [Recipients -> Nat]
  BY DEF IInv, TypeOK, MarketTypeOK
<1>6. received' = [r \in Recipients |->
        received[r] + (IF r \in {"reserve", "review"} THEN p[r]
                       ELSE IF r = x THEN p.seller ELSE 0)]
  BY <1>2 DEF Settles, Transfers
<1>7. /\ \A q \in Recipients : q # "reserve" /\ q # "review" /\ q # x => received'[q] = received[q]
      /\ received'["reserve"] = received["reserve"] + p.reserve
      /\ received'["review"] = received["review"] + p.review
      /\ received'[x] = received[x] + p.seller
  BY <1>4, <1>5, <1>6
<1>8. received' \in [Recipients -> Nat]
  BY <1>3, <1>5, <1>6
<1>9. IsFiniteSet(Recipients)
  BY FiniteRecipients
<1>10. SumFunctionOnSet(received', Recipients)
         = SumFunctionOnSet(received, Recipients) + p.reserve + p.review + p.seller
  <2>1. PICK q, t, i, j, k, R :
          /\ q = "reserve" /\ t = "review" /\ i = p.reserve /\ j = p.review /\ k = p.seller
          /\ R = Recipients
    OBVIOUS
  <2>2. /\ q \in R /\ t \in R /\ x \in R /\ q # t /\ t # x /\ q # x
        /\ i \in Nat /\ j \in Nat /\ k \in Nat
    BY <1>3, <1>4, <2>1
  <2>3. PICK r0, r1 : r0 = received /\ r1 = received'
    OBVIOUS
  <2>4. /\ r0 \in [R -> Nat] /\ r1 \in [R -> Nat] /\ IsFiniteSet(R)
        /\ \A y \in R : y # q /\ y # t /\ y # x => r1[y] = r0[y]
        /\ r1[q] = r0[q] + i /\ r1[t] = r0[t] + j /\ r1[x] = r0[x] + k
    BY <1>5, <1>7, <1>8, <1>9, <2>1, <2>3
  <2>5. ThreeGet(R, r0, r1, q, t, x, i, j, k)
    BY <2>2, <2>4 DEF ThreeGet
  <2>6. SumFunctionOnSet(r1, R) = SumFunctionOnSet(r0, R) + i + j + k
    BY <2>4, <2>5, ThreeParts
  <2>. QED  BY <2>1, <2>3, <2>6
<1>11. SumFunctionOnSet(received, Recipients) = Total(paid)
  BY DEF Books, SameAmounts
<1>12. Total(paid) \in Nat /\ Total(paid') = Total(paid) + Amount[s]
  BY <1>1, TotalAfter
<1>13. SumFunctionOnSet(received', Recipients) = Total(paid')
  BY <1>3, <1>10, <1>11, <1>12
<1>14. 10 * (received'["reserve"] + received'["review"]) <= Total(paid')
  <2>1. 10 * (received["reserve"] + received["review"]) <= Total(paid)
    BY DEF Books, SellersKeepTheirShare
  <2>2. received["reserve"] \in Nat /\ received["review"] \in Nat
    BY <1>4, <1>5
  <2>. QED  BY <1>3, <1>7, <1>12, <2>1, <2>2
<1>. QED  BY <1>13, <1>14 DEF SellersKeepTheirShare

LEMMA SettleBooks ==
  ASSUME IInv, Books, NEW e \in Executors, Settle(e)
  PROVE  Books'
<1>1. PICK o \in Orders, a \in Agents, s \in Services : Settles(e, o, a, s)
  BY SettleMeans
<1>2. ReputationCounts'
  BY <1>1, PaidCounts
<1>3. SellersKeepTheirShare' /\ SumFunctionOnSet(received', Recipients) = Total(paid')
  BY <1>1, ReceivedBooks
<1>4. \A x \in Agents : agents'[x].spent = Total(PaidBy(x)')
  BY <1>1, SpentBooks
<1>5. \A x \in Executors : Funds - funds'[x] = Total({c \in paid' : c.payer = x})
  BY <1>1, FundsBooks DEF PaidFrom
<1>6. SameAmounts'
  BY <1>3, <1>4, <1>5 DEF SameAmounts
<1>7. IsFiniteSet(paid') /\ IsFiniteSet(orderHashes')
  BY <1>1, FS_AddElement DEF Settles, Books
<1>. QED  BY <1>2, <1>3, <1>6, <1>7 DEF Books

-----------------------------------------------------------------------------

LEMMA UnusedBooks == Unused => Books
<1>. SUFFICES ASSUME Unused PROVE Books
  OBVIOUS
<1>1. paid = {} /\ orderHashes = {} /\ IsFiniteSet({}) /\ Cardinality({}) = 0 /\ Total({}) = 0
  BY FS_EmptySet, TotalOfNone DEF Unused, NoOrders
<1>2. IsFiniteSet(Recipients)
  BY FiniteRecipients
<1>3. SumFunctionOnSet(received, Recipients) = 0
  <2>1. \A r \in Recipients : received[r] = 0
    BY DEF Unused, NoOrders
  <2>. QED  BY <1>2, <2>1, SumOfZeros
<1>4. SameAmounts
  <2>1. \A a \in Agents : PaidBy(a) = {} /\ agents[a].spent = 0
    BY <1>1 DEF PaidBy, Unused
  <2>2. \A e \in Executors : Funds - funds[e] = 0 /\ {c \in paid : c.payer = e} = {}
    BY <1>1, MarketAssumption DEF Unused, NoOrders
  <2>. QED  BY <1>1, <1>3, <2>1, <2>2, Zenon DEF SameAmounts
<1>5. SellersKeepTheirShare
  <2>1. received["reserve"] = 0 /\ received["review"] = 0
    BY DEF Unused, NoOrders, Recipients
  <2>2. Total(paid) = 0
    BY <1>1, Zenon
  <2>. QED  BY <2>1, <2>2 DEF SellersKeepTheirShare
<1>6. ReputationCounts
  <2>1. ASSUME NEW s \in Sellers PROVE reputation[s] = Counts(s)
    <3>1. SoldBy(s) = {} /\ DeliveredBy(s) = {} /\ AcknowledgedOf(s) = {}
      BY PolicyAssumption DEF SoldBy, DeliveredBy, AcknowledgedOf, Unused, NoOrders, NoRecord
    <3>2. reputation[s] = [paid |-> 0, delivered |-> 0, acknowledged |-> 0]
      BY DEF Unused, NoOrders, NoCounts
    <3>. QED  BY <1>1, <3>1, <3>2, Zenon DEF Counts
  <2>. QED  BY <2>1, CountsMean
<1>. QED  BY <1>1, <1>4, <1>5, <1>6, Zenon DEF Books

LEMMA BooksInductive == IInv /\ Claimed /\ Books /\ [Next]_vars => Books'
<1>. SUFFICES ASSUME IInv, Claimed, Books, [Next]_vars
              PROVE  Books'
  OBVIOUS
<1>1. CASE \E a \in Agents, e \in Executors, grant \in Grants : Policy(RegisterAgent(a, e, grant))
  BY <1>1, RegisterAgentBooks
<1>2. CASE \E a \in Agents, e \in Executors, active \in BOOLEAN, grant \in Grants :
             Policy(SetAgent(a, e, active, grant))
  BY <1>2, SetAgentBooks
<1>3. CASE \E e \in Executors : Settle(e)
  BY <1>3, SettleBooks
<1>4. CASE \E o \in Orders, output \in Outputs :
             AttestDelivery(o, output) \/ AcknowledgeDelivery(o, output)
  <2>1. ReputationCounts'
    BY <1>4, DeliveredCounts, AcknowledgedCounts
  <2>2. UNCHANGED <<agents, orderHashes, funds, received, paid>>
    BY <1>4 DEF AttestDelivery, AcknowledgeDelivery, policyVars, mandates, token
  <2>. QED  BY <2>1, <2>2, LedgerBooks
<1>5. CASE UNCHANGED <<agents, orderHashes, orders, reputation, funds, received, paid>>
  BY <1>5, BooksKept
<1>6. CASE \/ Policy(Tick)
           \/ \E edit \in Edits : Policy(SignPolicyDigest(edit))
           \/ \E c \in Categories, terms \in CategoryTerms : Policy(SetCategory(c, terms))
           \/ \E f \in Fees : Policy(SetFees(f))
           \/ Policy(Resume) \/ Policy(EmergencyPause)
           \/ \E e \in Executors, owner \in Owners : Policy(BindExecutor(e, owner))
           \/ \E a \in Agents, c \in Categories, seller \in Sellers, allowed \in BOOLEAN :
                Policy(SetCounterparty(a, c, seller, allowed))
  <2>1. UNCHANGED <<agents, marketVars>>
    BY <1>6 DEF Policy, Tick, SignPolicyDigest, SetCategory, SetFees, Resume, EmergencyPause,
                BindExecutor, SetCounterparty, mandates
  <2>. QED  BY <1>5, <2>1 DEF marketVars, ledgerVars, token
<1>7. CASE \/ \E s \in Services : RegisterService(s)
           \/ \E e \in Executors, o \in Orders, a \in Agents, s \in Services :
                ReadTerms(e, o, a, s)
           \/ UNCHANGED vars
  BY <1>5, <1>7 DEF RegisterService, ReadTerms, vars, policyVars, mandates, marketVars, ledgerVars,
                    token
<1>. QED  BY <1>1, <1>2, <1>3, <1>4, <1>6, <1>7 DEF Next

\* Every book of the market tells of the same payments, and the sellers keep nine tenths.
THEOREM SumsAgree == Spec => []BooksAgree
<1>1. Books => BooksAgree
  BY DEF Books, BooksAgree
<1>. QED  BY <1>1, InitUnused, UnusedBooks, BooksInductive, Invariance, ClaimedFirst, PTL DEF Spec

-----------------------------------------------------------------------------
(* Windows.  Of a group S of payments that one window w counted, g tells   *)
(* the start that the window had with each payment.                        *)

\* A payment is not before its window's start, nor after the present time t.
InTime(S, t, g) ==
  \A c \in S : g[c] \in Nat /\ 1 <= g[c] /\ g[c] <= c.at /\ c.at <= t

\* A window was opened by a payment, after all payments of earlier windows, and as long after
\* their starts as was then demanded.
Opened(S, seconds, g) ==
  \A d \in S : \E f \in S :
    /\ g[f] = g[d] /\ f.at = g[d]
    /\ \A c \in S : g[c] < g[d] => c.at <= g[d] /\ g[c] + seconds[f] <= g[d]

\* The window at hand is the latest, and has spent what its payments cost.
Counted(S, w, g) ==
  /\ w.start # 0 => \E f \in S : g[f] = w.start
  /\ \A c \in S : g[c] <= w.start
  /\ w.spent = Total({c \in S : g[c] = w.start})

Until(S, g, start, t) == {c \in S : g[c] = start /\ c.at <= t}

\* What a window spent until any time is within the cap of its latest payment.
Capped(S, cap, g) ==
  \A start \in Nat, t \in Nat :
    Until(S, g, start, t) # {} =>
      \E d \in Until(S, g, start, t) :
        /\ \A c \in Until(S, g, start, t) : c.at <= d.at
        /\ Total(Until(S, g, start, t)) <= cap[d]

Anchored(S, w, cap, seconds, t, g) ==
  InTime(S, t, g) /\ Opened(S, seconds, g) /\ Counted(S, w, g) /\ Capped(S, cap, g)

Within(S, from, length) == {c \in S : from <= c.at /\ c.at < from + length}
Group(S, g, start) == {c \in S : g[c] = start}

\* In any period as short as the windows then in force, two windows are open at most.
LEMMA PeriodIsShort ==
  ASSUME NEW S \in SUBSET Payments, NEW g, NEW t, NEW seconds \in [Payments -> Nat],
         InTime(S, t, g), Opened(S, seconds, g),
         NEW from \in Nat, NEW length \in Nat, NEW C,
         C = Within(S, from, length),
         \A c \in C : length <= seconds[c],
         NEW x \in C, NEW y \in C, NEW z \in C, g[x] < g[y], g[y] < g[z]
  PROVE  FALSE
<1>1. /\ x \in S /\ y \in S /\ z \in S /\ g[x] \in Nat /\ g[y] \in Nat /\ g[z] \in Nat
      /\ x.at \in Nat /\ z.at \in Nat /\ g[z] <= z.at
      /\ from <= x.at /\ z.at < from + length
  BY DEF InTime, Payments, Within
<1>2. x.at <= g[y]
  BY <1>1 DEF Opened
<1>3. PICK f \in S : f.at = g[z] /\ g[y] + seconds[f] <= g[z]
  BY <1>1 DEF Opened
<1>4. f \in C
  BY <1>1, <1>2, <1>3 DEF Within
<1>5. length <= seconds[f] /\ seconds[f] \in Nat
  BY <1>3, <1>4
<1>. QED  BY <1>1, <1>2, <1>3, <1>5

\* What one window spent within a period is within the cap of a payment of that period.
LEMMA WindowInPeriod ==
  ASSUME NEW S \in SUBSET Payments, IsFiniteSet(S), NEW g, NEW t, NEW cap \in [Payments -> Nat],
         InTime(S, t, g), Capped(S, cap, g),
         NEW from \in Nat, NEW length \in Nat, NEW C,
         C = Within(S, from, length),
         NEW x \in C
  PROVE  \E d \in C : Total(Group(C, g, g[x])) <= cap[d]
<1>1. /\ x \in S /\ g[x] \in Nat /\ x.at \in Nat /\ from <= x.at /\ x.at < from + length
      /\ \A c \in S : c.at \in Nat /\ c \in Payments
  BY DEF InTime, Payments, Within
<1>2. PICK end \in Nat : end = from + length - 1
  BY <1>1
<1>3. PICK U, V : U = Until(S, g, g[x], end) /\ V = Group(C, g, g[x])
  OBVIOUS
<1>4. x \in U
  BY <1>1, <1>2, <1>3 DEF Until
<1>5. PICK d \in U : (\A c \in U : c.at <= d.at) /\ Total(U) <= cap[d]
  BY <1>1, <1>2, <1>3, <1>4 DEF Capped
<1>6. d \in C
  <2>1. x.at <= d.at /\ d \in S /\ d.at \in Nat /\ d.at <= end
    BY <1>1, <1>3, <1>4, <1>5 DEF Until
  <2>. QED  BY <1>1, <1>2, <2>1 DEF Within
<1>7. V \subseteq U /\ U \subseteq S
  BY <1>1, <1>2, <1>3 DEF Until, Within, Group
<1>8. Total(V) <= Total(U) /\ Total(V) \in Nat /\ Total(U) \in Nat
  BY <1>7, TotalOfPart
<1>9. Total(V) <= cap[d]
  <2>1. cap[d] \in Nat
    BY <1>1, <1>5, <1>7
  <2>. QED  BY <1>5, <1>8, <2>1
<1>. QED  BY <1>3, <1>6, <1>9, Zenon

LEMMA TwoWindows ==
  ASSUME NEW S \in SUBSET Payments, IsFiniteSet(S), NEW w, NEW t, NEW g,
         NEW cap \in [Payments -> Nat], NEW seconds \in [Payments -> Nat],
         Anchored(S, w, cap, seconds, t, g),
         NEW from \in Nat, NEW length \in Nat, NEW C, C # {},
         C = Within(S, from, length),
         \A c \in C : length <= seconds[c]
  PROVE  \E c \in C : Total(C) <= 2 * cap[c]
<1>0. InTime(S, t, g) /\ Opened(S, seconds, g) /\ Capped(S, cap, g)
  BY DEF Anchored
<1>1. \A c \in C : g[c] \in Nat /\ cap[c] \in Nat
  BY <1>0 DEF InTime, Within
<1>2. PICK x \in C : TRUE
  OBVIOUS
<1>3. PICK X : X = Group(C, g, g[x])
  OBVIOUS
<1>4. PICK d \in C : Total(X) <= cap[d]
  BY <1>0, <1>3, WindowInPeriod
<1>5. C \subseteq S /\ X \subseteq S
  BY <1>3 DEF Within, Group
<1>6. Total(X) \in Nat
  BY <1>5, TotalOfPart
<1>7. CASE \A c \in C : g[c] = g[x]
  <2>1. C = X
    BY <1>3, <1>7 DEF Group
  <2>2. Total(C) <= cap[d]
    BY <1>4, <2>1, Zenon
  <2>3. Total(C) \in Nat
    BY <1>5, TotalOfPart
  <2>4. Total(C) <= 2 * cap[d]
    BY <1>1, <2>2, <2>3
  <2>. QED  BY <2>4
<1>8. ASSUME NEW y \in C, g[y] # g[x]
      PROVE  \E c \in C : Total(C) <= 2 * cap[c]
  <2>1. PICK Y : Y = Group(C, g, g[y])
    OBVIOUS
  <2>2. PICK e \in C : Total(Y) <= cap[e]
    BY <1>0, <2>1, WindowInPeriod
  <2>3. ASSUME NEW z \in C PROVE g[z] = g[x] \/ g[z] = g[y]
    <3>1. g[x] \in Nat /\ g[y] \in Nat /\ g[z] \in Nat
      BY <1>1
    <3>2. \A p, q, r \in C : ~ (g[p] < g[q] /\ g[q] < g[r])
      BY <1>0, PeriodIsShort
    <3>3. /\ ~ (g[x] < g[y] /\ g[y] < g[z]) /\ ~ (g[x] < g[z] /\ g[z] < g[y])
          /\ ~ (g[y] < g[x] /\ g[x] < g[z]) /\ ~ (g[y] < g[z] /\ g[z] < g[x])
          /\ ~ (g[z] < g[x] /\ g[x] < g[y]) /\ ~ (g[z] < g[y] /\ g[y] < g[x])
      BY <3>2
    <3>. QED  BY <1>8, <3>1, <3>3
  <2>4. C = X \cup Y
    BY <1>3, <2>1, <2>3 DEF Group
  <2>5. Y \subseteq S
    BY <1>5, <2>1 DEF Group
  <2>6. Total(X \cup Y) <= Total(X) + Total(Y) /\ Total(Y) \in Nat /\ Total(X \cup Y) \in Nat
    BY <1>5, <2>5, TotalOfBoth
  <2>7. Total(C) <= Total(X) + Total(Y) /\ Total(C) \in Nat
    BY <2>4, <2>6, Zenon
  <2>8. cap[d] \in Nat /\ cap[e] \in Nat
    BY <1>1
  <2>9. Total(C) <= 2 * cap[d] \/ Total(C) <= 2 * cap[e]
    BY <1>4, <1>6, <2>2, <2>6, <2>7, <2>8
  <2>. QED  BY <2>9
<1>. QED  BY <1>7, <1>8

-----------------------------------------------------------------------------
(* A charge.  The payment that opens a window, and one that adds to it,    *)
(* leave the group anchored if the window admitted the amount.             *)

\* A charge starts a new window, or adds to the one at hand.
Renews(w, v, t, amount, length) ==
  (w.start = 0 \/ t >= w.start + length) /\ v.start = t /\ v.spent = amount
Adds(w, v, t, amount, length) ==
  w.start # 0 /\ t < w.start + length /\ v.start = w.start /\ v.spent = w.spent + amount

LEMMA RenewedWindow ==
  ASSUME NEW S \in SUBSET Payments, IsFiniteSet(S), NEW d \in Payments, d \notin S,
         NEW t \in Nat \ {0}, d.at = t, NEW w \in Windows, NEW v \in Windows,
         NEW cap \in [Payments -> Nat], NEW seconds \in [Payments -> Nat], seconds[d] >= 1,
         NEW g, Anchored(S, w, cap, seconds, t, g),
         Renews(w, v, t, Amount[d.service], seconds[d]), v.spent <= cap[d]
  PROVE  \E h : Anchored(S \cup {d}, v, cap, seconds, t, h)
<1>1. PICK T, h : T = S \cup {d} /\ h = [c \in S \cup {d} |-> IF c = d THEN t ELSE g[c]]
  OBVIOUS
<1>2. /\ h[d] = t /\ (\A c \in S : h[c] = g[c]) /\ (\A c \in T : c \in S \/ c = d)
      /\ S \subseteq T /\ d \in T
  BY <1>1
<1>3. InTime(S, t, g) /\ Opened(S, seconds, g) /\ Counted(S, w, g) /\ Capped(S, cap, g)
  BY DEF Anchored
<1>4. ASSUME NEW c \in S
      PROVE  /\ g[c] \in Nat /\ 1 <= g[c] /\ g[c] <= c.at /\ c.at <= t /\ c.at \in Nat
             /\ g[c] + seconds[d] <= t /\ g[c] < t
  <2>1. g[c] \in Nat /\ 1 <= g[c] /\ g[c] <= c.at /\ c.at <= t /\ c.at \in Nat
    BY <1>3 DEF InTime, Payments
  <2>2. g[c] <= w.start /\ w.start \in Nat /\ seconds[d] \in Nat
    BY <1>3 DEF Counted, Windows
  <2>3. t >= w.start + seconds[d]
    BY <2>1, <2>2 DEF Renews
  <2>. QED  BY <2>1, <2>2, <2>3
<1>5. InTime(T, t, h)
  <2>1. ASSUME NEW c \in T PROVE h[c] \in Nat /\ 1 <= h[c] /\ h[c] <= c.at /\ c.at <= t
    BY <1>2, <1>4
  <2>. QED  BY <2>1 DEF InTime
<1>6. Opened(T, seconds, h)
  <2>1. ASSUME NEW x \in S
        PROVE  \E f \in T : /\ h[f] = h[x] /\ f.at = h[x]
                            /\ \A c \in T : h[c] < h[x] => c.at <= h[x] /\ h[c] + seconds[f] <= h[x]
    <3>1. PICK f \in S : /\ g[f] = g[x] /\ f.at = g[x]
                         /\ \A c \in S : g[c] < g[x] => c.at <= g[x] /\ g[c] + seconds[f] <= g[x]
      BY <1>3 DEF Opened
    <3>2. ASSUME NEW c \in T, h[c] < h[x] PROVE c.at <= h[x] /\ h[c] + seconds[f] <= h[x]
      <4>1. c \in S
        BY <1>2, <1>4, <3>2
      <4>. QED  BY <1>2, <3>1, <3>2, <4>1
    <3>. QED  BY <1>2, <3>1, <3>2
  <2>2. /\ h[d] = h[d] /\ d.at = h[d]
        /\ \A c \in T : h[c] < h[d] => c.at <= h[d] /\ h[c] + seconds[d] <= h[d]
    BY <1>2, <1>4
  <2>. QED  BY <1>2, <2>1, <2>2 DEF Opened
<1>7. v.start = t /\ v.spent = Amount[d.service]
  BY DEF Renews
<1>8. Total({d}) = Amount[d.service]
  <2>1. Total({} \cup {d}) = Total({}) + Amount[d.service] /\ {} \cup {d} = {d}
    BY TotalWithOne, FS_EmptySet
  <2>2. Amount[d.service] \in Nat
    BY MarketAssumption DEF Payments
  <2>3. Total({d}) = Total({}) + Amount[d.service]
    BY <2>1, Zenon
  <2>. QED  BY <2>2, <2>3, TotalOfNone
<1>9. Counted(T, v, h)
  <2>1. {c \in T : h[c] = v.start} = {d}
    BY <1>2, <1>4, <1>7
  <2>2. v.spent = Total({c \in T : h[c] = v.start})
    BY <1>7, <1>8, <2>1, Zenon
  <2>3. \A c \in T : h[c] <= v.start
    BY <1>2, <1>4, <1>7
  <2>. QED  BY <1>2, <1>7, <2>2, <2>3 DEF Counted
<1>10. Capped(T, cap, h)
  <2>1. ASSUME NEW start \in Nat, NEW u \in Nat, NEW U, U = Until(T, h, start, u), U # {}
        PROVE  \E x \in U : (\A c \in U : c.at <= x.at) /\ Total(U) <= cap[x]
    <3>1. CASE start = t
      <4>1. U = {d}
        BY <1>2, <1>4, <2>1, <3>1 DEF Until
      <4>2. Total(U) <= cap[d]
        BY <1>7, <1>8, <4>1, Zenon
      <4>3. \A c \in U : c.at <= d.at
        BY <4>1
      <4>. QED  BY <4>1, <4>2, <4>3
    <3>2. CASE start # t
      <4>1. U = Until(S, g, start, u)
        BY <1>2, <2>1, <3>2 DEF Until
      <4>. QED  BY <1>3, <2>1, <4>1 DEF Capped
    <3>. QED  BY <3>1, <3>2
  <2>. QED  BY <2>1 DEF Capped
<1>11. Anchored(T, v, cap, seconds, t, h)
  BY <1>5, <1>6, <1>9, <1>10 DEF Anchored
<1>. QED  BY <1>1, <1>11, Zenon

LEMMA WindowAtHand ==
  ASSUME NEW S \in SUBSET Payments, IsFiniteSet(S), NEW d \in Payments, d \notin S,
         NEW t \in Nat \ {0}, d.at = t, NEW w \in Windows, NEW v \in Windows,
         NEW cap \in [Payments -> Nat], NEW seconds \in [Payments -> Nat],
         NEW g, Anchored(S, w, cap, seconds, t, g),
         Adds(w, v, t, Amount[d.service], seconds[d]), v.spent <= cap[d]
  PROVE  \E h : Anchored(S \cup {d}, v, cap, seconds, t, h)
<1>. DEFINE k == w.start
<1>1. PICK T, h : T = S \cup {d} /\ h = [c \in S \cup {d} |-> IF c = d THEN k ELSE g[c]]
  OBVIOUS
<1>2. /\ h[d] = k /\ (\A c \in S : h[c] = g[c]) /\ (\A c \in T : c \in S \/ c = d)
      /\ S \subseteq T /\ d \in T
  BY <1>1
<1>3. InTime(S, t, g) /\ Opened(S, seconds, g) /\ Counted(S, w, g) /\ Capped(S, cap, g)
  BY DEF Anchored
<1>0. /\ k \in Nat /\ k # 0 /\ v.start = k /\ v.spent = w.spent + Amount[d.service]
      /\ w.spent \in Nat /\ Amount[d.service] \in Nat
  BY MarketAssumption DEF Windows, Adds, Payments
<1>4. ASSUME NEW c \in S
      PROVE  /\ g[c] \in Nat /\ 1 <= g[c] /\ g[c] <= c.at /\ c.at <= t /\ c.at \in Nat
             /\ g[c] <= k
  BY <1>3 DEF InTime, Payments, Counted
<1>40. PICK b \in S : g[b] = k
  BY <1>0, <1>3 DEF Counted
<1>41. 1 <= k /\ k <= t
  BY <1>0, <1>4, <1>40
<1>. HIDE DEF k
<1>5. InTime(T, t, h)
  <2>1. ASSUME NEW c \in T PROVE h[c] \in Nat /\ 1 <= h[c] /\ h[c] <= c.at /\ c.at <= t
    BY <1>0, <1>2, <1>4, <1>41
  <2>. QED  BY <2>1 DEF InTime
<1>6. Opened(T, seconds, h)
  <2>1. ASSUME NEW x \in S
        PROVE  \E f \in T : /\ h[f] = g[x] /\ f.at = g[x]
                            /\ \A c \in T : h[c] < g[x] => c.at <= g[x] /\ h[c] + seconds[f] <= g[x]
    <3>1. PICK f \in S : /\ g[f] = g[x] /\ f.at = g[x]
                         /\ \A c \in S : g[c] < g[x] => c.at <= g[x] /\ g[c] + seconds[f] <= g[x]
      BY <1>3 DEF Opened
    <3>2. ASSUME NEW c \in T, h[c] < g[x] PROVE c.at <= g[x] /\ h[c] + seconds[f] <= g[x]
      <4>1. c \in S
        <5>1. g[x] <= k /\ g[x] \in Nat
          BY <1>4
        <5>. QED  BY <1>0, <1>2, <3>2, <5>1
      <4>. QED  BY <1>2, <3>1, <3>2, <4>1
    <3>. QED  BY <1>2, <3>1, <3>2
  <2>2. ASSUME NEW x \in T PROVE \E y \in S : h[x] = g[y]
    BY <1>2, <1>40
  <2>3. ASSUME NEW x \in T
        PROVE  \E f \in T : /\ h[f] = h[x] /\ f.at = h[x]
                            /\ \A c \in T : h[c] < h[x] => c.at <= h[x] /\ h[c] + seconds[f] <= h[x]
    <3>1. PICK y \in S : h[x] = g[y]
      BY <2>2
    <3>. QED  BY <2>1, <3>1
  <2>. QED  BY <2>3 DEF Opened
<1>7. ASSUME NEW U, NEW V, U \in SUBSET S, V = U \cup {d}
      PROVE  Total(V) = Total(U) + Amount[d.service]
  <2>1. IsFiniteSet(U) /\ U \in SUBSET Payments /\ d \notin U
    BY <1>7, FS_Subset
  <2>2. Total(U \cup {d}) = Total(U) + Amount[d.service]
    BY <2>1, TotalWithOne
  <2>. QED  BY <1>7, <2>2, Zenon
<1>8. PICK B : B = {c \in S : g[c] = k}
  OBVIOUS
<1>80. w.spent = Total(B)
  BY <1>3, <1>8, Zenon DEF Counted, k
<1>9. Counted(T, v, h)
  <2>1. PICK V : V = {c \in T : h[c] = v.start}
    OBVIOUS
  <2>2. V = B \cup {d}
    BY <1>0, <1>2, <1>8, <2>1
  <2>3. v.spent = Total(V)
    BY <1>0, <1>7, <1>8, <1>80, <2>2
  <2>4. \A c \in T : h[c] <= v.start
    BY <1>0, <1>2, <1>4
  <2>5. d \in T /\ h[d] = v.start
    BY <1>0, <1>2
  <2>. QED  BY <2>1, <2>3, <2>4, <2>5, Zenon DEF Counted
<1>10. Capped(T, cap, h)
  <2>1. ASSUME NEW start \in Nat, NEW u \in Nat, NEW U, U = Until(T, h, start, u), U # {}
        PROVE  \E x \in U : (\A c \in U : c.at <= x.at) /\ Total(U) <= cap[x]
    <3>1. CASE start = k /\ u >= t
      <4>1. U = B \cup {d}
        <5>1. \A c \in T : c.at <= u
          BY <1>2, <1>4, <3>1
        <5>. QED  BY <1>2, <1>8, <2>1, <3>1, <5>1 DEF Until
      <4>2. Total(U) = v.spent
        BY <1>0, <1>7, <1>8, <1>80, <4>1
      <4>3. \A c \in U : c.at <= d.at
        BY <1>4, <1>8, <4>1
      <4>. QED  BY <4>1, <4>2, <4>3
    <3>2. CASE ~ (start = k /\ u >= t)
      <4>1. U = Until(S, g, start, u)
        BY <1>2, <2>1, <3>2 DEF Until
      <4>. QED  BY <1>3, <2>1, <4>1 DEF Capped
    <3>. QED  BY <3>1, <3>2
  <2>. QED  BY <2>1 DEF Capped
<1>11. Anchored(T, v, cap, seconds, t, h)
  BY <1>5, <1>6, <1>9, <1>10 DEF Anchored
<1>. QED  BY <1>1, <1>11, Zenon

-----------------------------------------------------------------------------
(* Rates of all agents and categories                                      *)

\* The limits a payment was held to.
GrantCap == [c \in Payments |-> c.grant.windowCap]
GrantSeconds == [c \in Payments |-> c.grant.windowSeconds]
TermsCap == [c \in Payments |-> c.terms.windowCap]
TermsSeconds == [c \in Payments |-> c.terms.windowSeconds]

LEMMA LimitsAreNat ==
  /\ GrantCap \in [Payments -> Nat] /\ GrantSeconds \in [Payments -> Nat]
  /\ TermsCap \in [Payments -> Nat] /\ TermsSeconds \in [Payments -> Nat]
BY PolicyAssumption DEF GrantCap, GrantSeconds, TermsCap, TermsSeconds, Payments, Limits, Policies,
                        NoCategory, CategoryStruct

\* Every window of an agent or a category counts its payments, and a registered agent's lasts.
AgentRates ==
  \A a \in Agents :
    \E g : Anchored(PaidBy(a), agentWindows[a], GrantCap, GrantSeconds, now, g)
CategoryRates ==
  \A k \in Categories :
    \E g : Anchored(PaidIn(k), categoryWindows[k], TermsCap, TermsSeconds, now, g)
Lasting == \A a \in Agents : agents[a].owner # None => agents[a].windowSeconds >= 1

Rates == AgentRates /\ CategoryRates /\ Lasting

LEMMA GroupsAreFinite ==
  ASSUME IInv, Books
  PROVE  /\ \A a \in Agents : PaidBy(a) \in SUBSET Payments /\ IsFiniteSet(PaidBy(a))
         /\ \A k \in Categories : PaidIn(k) \in SUBSET Payments /\ IsFiniteSet(PaidIn(k))
BY FS_Subset DEF IInv, TypeOK, MarketTypeOK, Books, PaidBy, PaidIn

LEMMA GroupIsBounded ==
  ASSUME NEW S \in SUBSET Payments, IsFiniteSet(S), NEW w, NEW t \in Nat,
         NEW cap \in [Payments -> Nat], NEW seconds \in [Payments -> Nat],
         \E g : Anchored(S, w, cap, seconds, t, g),
         NEW from \in 1 .. t, NEW length \in 1 .. t,
         NEW C, C = Within(S, from, length), C # {}, \A c \in C : length <= seconds[c]
  PROVE  \E c \in C : Total(C) <= 2 * cap[c]
<1>1. PICK g : Anchored(S, w, cap, seconds, t, g)
  OBVIOUS
<1>2. from \in Nat /\ length \in Nat
  OBVIOUS
<1>. QED  BY <1>1, <1>2, TwoWindows

\* The windows keep the rates within bounds.
LEMMA RatesMean == IInv /\ Books /\ Rates => RateIsBounded
<1>. SUFFICES ASSUME IInv, Books, Rates PROVE RateIsBounded
  OBVIOUS
<1>1. now \in Nat
  BY DEF IInv, TypeOK, PolicyTypeOK
<1>2. ASSUME NEW a \in Agents
      PROVE  TwoWindowsAtMost(PaidBy(a), LAMBDA c : c.grant.windowCap,
                                         LAMBDA c : c.grant.windowSeconds)
  <2>1. /\ PaidBy(a) \in SUBSET Payments /\ IsFiniteSet(PaidBy(a))
        /\ \E g : Anchored(PaidBy(a), agentWindows[a], GrantCap, GrantSeconds, now, g)
    BY GroupsAreFinite DEF Rates, AgentRates
  <2>2. ASSUME NEW from \in 1 .. now, NEW length \in 1 .. now, NEW C,
               C = {c \in PaidBy(a) : from <= c.at /\ c.at < from + length}, C # {},
               \A c \in C : length <= c.grant.windowSeconds
        PROVE  \E c \in C : Total(C) <= 2 * c.grant.windowCap
    <3>1. \A c \in C : GrantSeconds[c] = c.grant.windowSeconds /\ GrantCap[c] = c.grant.windowCap
      BY <2>1, <2>2 DEF GrantSeconds, GrantCap
    <3>2. \A c \in C : length <= GrantSeconds[c]
      BY <2>2, <3>1
    <3>3. C = Within(PaidBy(a), from, length)
      BY <2>2, Zenon DEF Within
    <3>4. \E c \in C : Total(C) <= 2 * GrantCap[c]
      <4>1. C # {}
        BY <2>2
      <4>. QED  BY <1>1, <2>1, <3>2, <3>3, <4>1, LimitsAreNat, GroupIsBounded
    <3>. QED  BY <3>1, <3>4
  <2>. QED  BY <2>2 DEF TwoWindowsAtMost
<1>3. ASSUME NEW k \in Categories
      PROVE  TwoWindowsAtMost(PaidIn(k), LAMBDA c : c.terms.windowCap,
                                         LAMBDA c : c.terms.windowSeconds)
  <2>1. /\ PaidIn(k) \in SUBSET Payments /\ IsFiniteSet(PaidIn(k))
        /\ \E g : Anchored(PaidIn(k), categoryWindows[k], TermsCap, TermsSeconds, now, g)
    BY GroupsAreFinite DEF Rates, CategoryRates
  <2>2. ASSUME NEW from \in 1 .. now, NEW length \in 1 .. now, NEW C,
               C = {c \in PaidIn(k) : from <= c.at /\ c.at < from + length}, C # {},
               \A c \in C : length <= c.terms.windowSeconds
        PROVE  \E c \in C : Total(C) <= 2 * c.terms.windowCap
    <3>1. \A c \in C : TermsSeconds[c] = c.terms.windowSeconds /\ TermsCap[c] = c.terms.windowCap
      BY <2>1, <2>2 DEF TermsSeconds, TermsCap
    <3>2. \A c \in C : length <= TermsSeconds[c]
      BY <2>2, <3>1
    <3>3. C = Within(PaidIn(k), from, length)
      BY <2>2, Zenon DEF Within
    <3>4. \E c \in C : Total(C) <= 2 * TermsCap[c]
      <4>1. C # {}
        BY <2>2
      <4>. QED  BY <1>1, <2>1, <3>2, <3>3, <4>1, LimitsAreNat, GroupIsBounded
    <3>. QED  BY <3>1, <3>4
  <2>. QED  BY <2>2 DEF TwoWindowsAtMost
<1>. QED  BY <1>2, <1>3 DEF RateIsBounded

LEMMA RatesKept ==
  ASSUME IInv, Rates, UNCHANGED <<paid, agentWindows, categoryWindows>>,
         now' \in Nat, now <= now', Lasting'
  PROVE  Rates'
<1>1. ASSUME NEW S \in SUBSET Payments, NEW w, NEW cap, NEW seconds, NEW g,
             Anchored(S, w, cap, seconds, now, g)
      PROVE  Anchored(S, w, cap, seconds, now', g)
  <2>1. now \in Nat /\ \A c \in S : c.at \in Nat
    BY DEF IInv, TypeOK, PolicyTypeOK, Payments
  <2>. QED  BY <1>1, <2>1 DEF Anchored, InTime
<1>2. paid \in SUBSET Payments
  BY DEF IInv, TypeOK, MarketTypeOK
<1>3. AgentRates'
  <2>1. ASSUME NEW a \in Agents
        PROVE  \E g : Anchored(PaidBy(a)', agentWindows'[a], GrantCap, GrantSeconds, now', g)
    <3>1. PaidBy(a)' = PaidBy(a) /\ PaidBy(a) \in SUBSET Payments
      BY <1>2 DEF PaidBy
    <3>2. PICK g : Anchored(PaidBy(a), agentWindows[a], GrantCap, GrantSeconds, now, g)
      BY DEF Rates, AgentRates
    <3>3. Anchored(PaidBy(a), agentWindows[a], GrantCap, GrantSeconds, now', g)
      BY <1>1, <3>1, <3>2
    <3>. QED  BY <3>1, <3>3, Zenon
  <2>. QED  BY <2>1, Zenon DEF AgentRates, GrantCap, GrantSeconds
<1>4. CategoryRates'
  <2>1. ASSUME NEW k \in Categories
        PROVE  \E g : Anchored(PaidIn(k)', categoryWindows'[k], TermsCap, TermsSeconds, now', g)
    <3>1. PaidIn(k)' = PaidIn(k) /\ PaidIn(k) \in SUBSET Payments
      BY <1>2 DEF PaidIn
    <3>2. PICK g : Anchored(PaidIn(k), categoryWindows[k], TermsCap, TermsSeconds, now, g)
      BY DEF Rates, CategoryRates
    <3>3. Anchored(PaidIn(k), categoryWindows[k], TermsCap, TermsSeconds, now', g)
      BY <1>1, <3>1, <3>2
    <3>. QED  BY <3>1, <3>3, Zenon
  <2>. QED  BY <2>1, Zenon DEF CategoryRates
<1>. QED  BY <1>3, <1>4 DEF Rates

ChargedTo(w, v, t, amount, length) ==
  /\ v \in Windows /\ v.spent = Renewed(w, length).spent + amount
  /\ Renews(w, v, t, amount, length) \/ Adds(w, v, t, amount, length)

LEMMA ChargedHow ==
  ASSUME NEW w \in Windows, NEW amount \in Nat, NEW length \in Nat, now \in Nat \ {0}
  PROVE  ChargedTo(w, Charged(w, amount, length), now, amount, length)
<1>0. PICK v : v = Charged(w, amount, length)
  OBVIOUS
<1>1. v \in Windows
  BY <1>0, ChargedWindow
<1>2. PICK r : r = Renewed(w, length)
  OBVIOUS
<1>20. v = [r EXCEPT !.spent = r.spent + amount, !.last = now]
  BY <1>0, <1>2 DEF Charged
<1>3. /\ w.start \in Nat /\ w.spent \in Nat /\ w.last \in Nat
      /\ w = [start |-> w.start, spent |-> w.spent, last |-> w.last]
  BY DEF Windows
<1>4. CASE w.start = 0 \/ now >= w.start + length
  <2>1. r = [start |-> now, spent |-> 0, last |-> w.last]
    BY <1>2, <1>3, <1>4 DEF Renewed
  <2>2. v = [start |-> now, spent |-> amount, last |-> now]
    <3>1. v = [start |-> now, spent |-> 0 + amount, last |-> now]
      BY <1>20, <2>1
    <3>2. 0 + amount = amount
      OBVIOUS
    <3>. QED  BY <3>1, <3>2, Zenon
  <2>. QED  BY <1>0, <1>1, <1>2, <1>4, <2>1, <2>2 DEF Renews, ChargedTo
<1>5. CASE ~ (w.start = 0 \/ now >= w.start + length)
  <2>1. r = [start |-> w.start, spent |-> w.spent, last |-> w.last]
    BY <1>2, <1>3, <1>5 DEF Renewed
  <2>2. v = [start |-> w.start, spent |-> w.spent + amount, last |-> now]
    BY <1>20, <2>1
  <2>3. now < w.start + length
    BY <1>3, <1>5
  <2>. QED  BY <1>0, <1>1, <1>2, <1>5, <2>1, <2>2, <2>3 DEF Adds, ChargedTo
<1>. QED  BY <1>4, <1>5

\* A charge that the window admits keeps its group within bounds.
LEMMA ChargeKeepsRate ==
  ASSUME now \in Nat \ {0},
         NEW S \in SUBSET Payments, IsFiniteSet(S), NEW d \in Payments, d \notin S, d.at = now,
         NEW w \in Windows, NEW cap \in [Payments -> Nat], NEW seconds \in [Payments -> Nat],
         seconds[d] >= 1, \E g : Anchored(S, w, cap, seconds, now, g),
         NEW amount, amount = Amount[d.service], NEW v, v = Charged(w, amount, seconds[d]),
         Renewed(w, seconds[d]).spent + amount <= cap[d]
  PROVE  \E h : Anchored(S \cup {d}, v, cap, seconds, now, h)
<1>1. amount \in Nat /\ seconds[d] \in Nat
  BY MarketAssumption DEF Payments
<1>2. /\ v \in Windows /\ v.spent <= cap[d]
      /\ Renews(w, v, now, amount, seconds[d]) \/ Adds(w, v, now, amount, seconds[d])
  <2>1. ChargedTo(w, Charged(w, amount, seconds[d]), now, amount, seconds[d])
    BY <1>1, ChargedHow
  <2>2. ChargedTo(w, v, now, amount, seconds[d])
    BY <2>1, Zenon
  <2>. QED  BY <2>2 DEF ChargedTo
<1>3. PICK g : Anchored(S, w, cap, seconds, now, g)
  OBVIOUS
<1>4. CASE Renews(w, v, now, amount, seconds[d])
  BY <1>2, <1>3, <1>4, RenewedWindow
<1>5. CASE Adds(w, v, now, amount, seconds[d])
  BY <1>2, <1>3, <1>5, WindowAtHand
<1>. QED  BY <1>2, <1>4, <1>5

-----------------------------------------------------------------------------
(* The rates are kept                                                      *)

LEMMA EmptyGroup ==
  ASSUME NEW w, w = NoWindow, NEW cap, NEW seconds, NEW t, NEW g
  PROVE  Anchored({}, w, cap, seconds, t, g)
<1>1. Counted({}, w, g)
  <2>1. {c \in {} : g[c] = w.start} = {}
    OBVIOUS
  <2>2. Total({c \in {} : g[c] = w.start}) = 0
    BY <2>1, TotalOfNone, Zenon
  <2>. QED  BY <2>2 DEF Counted, NoWindow
<1>2. InTime({}, t, g) /\ Opened({}, seconds, g) /\ Capped({}, cap, g)
  BY DEF InTime, Opened, Capped, Until
<1>. QED  BY <1>1, <1>2 DEF Anchored

LEMMA UnusedRates == Unused => Rates
<1>. SUFFICES ASSUME Unused PROVE Rates
  OBVIOUS
<1>1. \A a \in Agents : PaidBy(a) = {} /\ agentWindows[a] = NoWindow
  BY DEF Unused, NoOrders, PaidBy
<1>2. \A k \in Categories : PaidIn(k) = {} /\ categoryWindows[k] = NoWindow
  BY DEF Unused, NoOrders, PaidIn
<1>3. AgentRates
  <2>1. ASSUME NEW a \in Agents
        PROVE  Anchored(PaidBy(a), agentWindows[a], GrantCap, GrantSeconds, now, 0)
    <3>1. Anchored({}, agentWindows[a], GrantCap, GrantSeconds, now, 0)
      BY <1>1, EmptyGroup
    <3>. QED  BY <1>1, <3>1, Zenon
  <2>. QED  BY <2>1, Zenon DEF AgentRates
<1>4. CategoryRates
  <2>1. ASSUME NEW k \in Categories
        PROVE  Anchored(PaidIn(k), categoryWindows[k], TermsCap, TermsSeconds, now, 0)
    <3>1. Anchored({}, categoryWindows[k], TermsCap, TermsSeconds, now, 0)
      BY <1>2, EmptyGroup
    <3>. QED  BY <1>2, <3>1, Zenon
  <2>. QED  BY <2>1, Zenon DEF CategoryRates
<1>5. Lasting
  BY DEF Lasting, Unused
<1>. QED  BY <1>3, <1>4, <1>5 DEF Rates

\* What settling an order does to the windows it is charged to, and what it asked of them.
LEMMA SettleCharges ==
  ASSUME IInv, Rates, NEW e \in Executors, NEW o \in Orders, NEW a \in Agents, NEW s \in Services,
         Settles(e, o, a, s), NEW k \in Categories, k = ServiceCategory[s]
  PROVE  /\ agents[a].windowSeconds >= 1 /\ categories[k].windowSeconds >= 1
         /\ Renewed(agentWindows[a], agents[a].windowSeconds).spent + Amount[s]
              <= agents[a].windowCap
         /\ Renewed(categoryWindows[k], categories[k].windowSeconds).spent + Amount[s]
              <= categories[k].windowCap
         /\ agentWindows'[a] = Charged(agentWindows[a], Amount[s], agents[a].windowSeconds)
         /\ \A x \in Agents : x # a => agentWindows'[x] = agentWindows[x]
         /\ categoryWindows'[k]
              = Charged(categoryWindows[k], Amount[s], categories[k].windowSeconds)
         /\ \A x \in Categories : x # k => categoryWindows'[x] = categoryWindows[x]
         /\ UNCHANGED now
<1>1. Consumable(o, a, e, k, Seller[s], Amount[s], draft[e].policyVersion, draft[e].agentVersion)
      /\ Consume(o, a, k, Amount[s])
  BY DEF Settles
<1>2. /\ e = agents[a].executor /\ categories[k].enabled
      /\ Admits(agentWindows[a], Amount[s], agents[a].windowCap, agents[a].windowSeconds,
                categories[k].delaySeconds)
      /\ Admits(categoryWindows[k], Amount[s], categories[k].windowCap,
                categories[k].windowSeconds, categories[k].delaySeconds)
  BY <1>1 DEF Consumable
<1>3. agents[a].windowSeconds >= 1
  <2>1. agents[a].owner # None
    BY <1>2, PolicyAssumption DEF IInv, Registered
  <2>. QED  BY <2>1 DEF Rates, Lasting
<1>4. categories[k].windowSeconds >= 1
  <2>1. categories[k] \in Policies /\ categories[k] # NoCategory
    BY <1>2 DEF IInv, TypeOK, PolicyTypeOK, NoCategory
  <2>. QED  BY <2>1, PolicyAssumption DEF Policies, CategoryStruct
<1>5. agentWindows \in [Agents -> Windows] /\ categoryWindows \in [Categories -> Windows]
  BY DEF IInv, TypeOK, PolicyTypeOK
<1>6. /\ agentWindows'[a] = Charged(agentWindows[a], Amount[s], agents[a].windowSeconds)
      /\ \A x \in Agents : x # a => agentWindows'[x] = agentWindows[x]
  BY <1>1, <1>5, Zenon DEF Consume
<1>7. /\ categoryWindows'[k] = Charged(categoryWindows[k], Amount[s], categories[k].windowSeconds)
      /\ \A x \in Categories : x # k => categoryWindows'[x] = categoryWindows[x]
  BY <1>1, <1>5, Zenon DEF Consume
<1>8. /\ Renewed(agentWindows[a], agents[a].windowSeconds).spent + Amount[s]
           <= agents[a].windowCap
      /\ Renewed(categoryWindows[k], categories[k].windowSeconds).spent + Amount[s]
           <= categories[k].windowCap
  BY <1>2 DEF Admits
<1>9. UNCHANGED now
  BY <1>1 DEF Consume
<1>. QED  BY <1>3, <1>4, <1>6, <1>7, <1>8, <1>9

LEMMA SettleRates ==
  ASSUME IInv, Books, Rates, NEW e \in Executors, Settle(e)
  PROVE  Rates'
<1>1. PICK o \in Orders, a \in Agents, s \in Services : Settles(e, o, a, s)
  BY SettleMeans
<1>2. PICK d \in Payments :
        /\ d \notin paid /\ paid' = paid \cup {d} /\ paid \in SUBSET Payments
        /\ d.agent = a /\ d.service = s /\ d.at = now
        /\ d.grant = agents[a] /\ d.terms = categories[ServiceCategory[s]]
  BY <1>1, NewPayment
<1>3. PICK k \in Categories : k = ServiceCategory[s]
  BY MarketAssumption
<1>4. /\ agents[a].windowSeconds >= 1 /\ categories[k].windowSeconds >= 1
      /\ Renewed(agentWindows[a], agents[a].windowSeconds).spent + Amount[s]
           <= agents[a].windowCap
      /\ Renewed(categoryWindows[k], categories[k].windowSeconds).spent + Amount[s]
           <= categories[k].windowCap
      /\ agentWindows'[a] = Charged(agentWindows[a], Amount[s], agents[a].windowSeconds)
      /\ \A x \in Agents : x # a => agentWindows'[x] = agentWindows[x]
      /\ categoryWindows'[k] = Charged(categoryWindows[k], Amount[s], categories[k].windowSeconds)
      /\ \A x \in Categories : x # k => categoryWindows'[x] = categoryWindows[x]
      /\ UNCHANGED now
  BY <1>1, <1>3, SettleCharges
<1>5. /\ now \in Nat \ {0} /\ agentWindows \in [Agents -> Windows]
      /\ categoryWindows \in [Categories -> Windows]
  BY DEF IInv, TypeOK, PolicyTypeOK
<1>6. /\ GrantCap[d] = agents[a].windowCap /\ GrantSeconds[d] = agents[a].windowSeconds
      /\ TermsCap[d] = categories[k].windowCap /\ TermsSeconds[d] = categories[k].windowSeconds
  BY <1>2, <1>3 DEF GrantCap, GrantSeconds, TermsCap, TermsSeconds
<1>7. AgentRates'
  <2>1. ASSUME NEW x \in Agents
        PROVE  \E g : Anchored(PaidBy(x)', agentWindows'[x], GrantCap, GrantSeconds, now', g)
    <3>1. PICK S : S = PaidBy(x)
      OBVIOUS
    <3>2. S \in SUBSET Payments /\ IsFiniteSet(S) /\ d \notin S
          /\ \E g : Anchored(S, agentWindows[x], GrantCap, GrantSeconds, now, g)
      BY <1>2, <3>1, GroupsAreFinite DEF PaidBy, Rates, AgentRates
    <3>3. CASE x = a
      <4>1. PaidBy(x)' = S \cup {d}
        BY <1>2, <3>1, <3>3 DEF PaidBy
      <4>2. PICK w \in Windows : w = agentWindows[a]
        BY <1>5
      <4>3. PICK v : v = agentWindows'[a]
        OBVIOUS
      <4>4. v = Charged(w, Amount[s], GrantSeconds[d])
            /\ Renewed(w, GrantSeconds[d]).spent + Amount[s] <= GrantCap[d]
            /\ GrantSeconds[d] >= 1
        BY <1>4, <1>6, <4>2, <4>3, Zenon
      <4>5. \E g : Anchored(S, w, GrantCap, GrantSeconds, now, g)
        BY <3>2, <3>3, <4>2
      <4>6. \E h : Anchored(S \cup {d}, v, GrantCap, GrantSeconds, now, h)
        BY <1>2, <1>5, <3>2, <4>4, <4>5, LimitsAreNat, ChargeKeepsRate
      <4>. QED  BY <1>4, <3>3, <4>1, <4>3, <4>6, Zenon
    <3>4. CASE x # a
      <4>1. PaidBy(x)' = S
        BY <1>2, <3>1, <3>4 DEF PaidBy
      <4>. QED  BY <1>4, <3>2, <3>4, <4>1, Zenon
    <3>. QED  BY <3>3, <3>4
  <2>. QED  BY <2>1, Zenon DEF AgentRates, GrantCap, GrantSeconds
<1>8. CategoryRates'
  <2>1. ASSUME NEW x \in Categories
        PROVE  \E g : Anchored(PaidIn(x)', categoryWindows'[x], TermsCap, TermsSeconds, now', g)
    <3>1. PICK S : S = PaidIn(x)
      OBVIOUS
    <3>2. S \in SUBSET Payments /\ IsFiniteSet(S) /\ d \notin S
          /\ \E g : Anchored(S, categoryWindows[x], TermsCap, TermsSeconds, now, g)
      BY <1>2, <3>1, GroupsAreFinite DEF PaidIn, Rates, CategoryRates
    <3>3. CASE x = k
      <4>1. PaidIn(x)' = S \cup {d}
        BY <1>2, <1>3, <3>1, <3>3 DEF PaidIn
      <4>2. PICK w \in Windows : w = categoryWindows[k]
        BY <1>5
      <4>3. PICK v : v = categoryWindows'[k]
        OBVIOUS
      <4>4. v = Charged(w, Amount[s], TermsSeconds[d])
            /\ Renewed(w, TermsSeconds[d]).spent + Amount[s] <= TermsCap[d]
            /\ TermsSeconds[d] >= 1
        BY <1>4, <1>6, <4>2, <4>3, Zenon
      <4>5. \E g : Anchored(S, w, TermsCap, TermsSeconds, now, g)
        BY <3>2, <3>3, <4>2
      <4>6. \E h : Anchored(S \cup {d}, v, TermsCap, TermsSeconds, now, h)
        BY <1>2, <1>5, <3>2, <4>4, <4>5, LimitsAreNat, ChargeKeepsRate
      <4>. QED  BY <1>4, <3>3, <4>1, <4>3, <4>6, Zenon
    <3>4. CASE x # k
      <4>1. PaidIn(x)' = S
        BY <1>2, <1>3, <3>1, <3>4 DEF PaidIn
      <4>. QED  BY <1>4, <3>2, <3>4, <4>1, Zenon
    <3>. QED  BY <3>3, <3>4
  <2>. QED  BY <2>1, Zenon DEF CategoryRates, TermsCap, TermsSeconds
<1>9. Lasting'
  <2>1. /\ agents \in [Agents -> Limits] /\ agents' = [agents EXCEPT ![a].spent = @ + Amount[s]]
    BY <1>1 DEF IInv, TypeOK, PolicyTypeOK, Settles, Consume
  <2>2. \A x \in Agents : /\ agents'[x].owner = agents[x].owner
                          /\ agents'[x].windowSeconds = agents[x].windowSeconds
    BY <2>1 DEF Limits
  <2>. QED  BY <2>2 DEF Rates, Lasting
<1>. QED  BY <1>7, <1>8, <1>9 DEF Rates

LEMMA RatesInductive == IInv /\ Books /\ Rates /\ [Next]_vars => Rates'
<1>. SUFFICES ASSUME IInv, Books, Rates, [Next]_vars
              PROVE  Rates'
  OBVIOUS
<1>1. now \in Nat /\ agents \in [Agents -> Limits] /\ Lasting
  BY DEF IInv, TypeOK, PolicyTypeOK, Rates
<1>2. CASE \E e \in Executors : Settle(e)
  BY <1>2, SettleRates
<1>3. CASE Policy(Tick)
  <2>1. UNCHANGED <<paid, agentWindows, categoryWindows, agents>> /\ now' = now + 1
    BY <1>3 DEF Policy, Tick, mandates, spending, marketVars
  <2>2. now' \in Nat /\ now <= now' /\ Lasting'
    BY <1>1, <2>1 DEF Lasting
  <2>. QED  BY <2>1, <2>2, RatesKept
<1>4. CASE \/ \E a \in Agents, e \in Executors, grant \in Grants :
                Policy(RegisterAgent(a, e, grant))
           \/ \E a \in Agents, e \in Executors, active \in BOOLEAN, grant \in Grants :
                Policy(SetAgent(a, e, active, grant))
  <2>1. UNCHANGED <<paid, agentWindows, categoryWindows, now>>
    BY <1>4 DEF Policy, RegisterAgent, SetAgent, spending, marketVars
  <2>2. \A grant \in Grants : grant.windowSeconds >= 1
    BY PolicyAssumption DEF GrantStruct
  <2>3. PICK a \in Agents : /\ agents'[a].windowSeconds >= 1
                            /\ \A x \in Agents : x # a => agents'[x] = agents[x]
    <3>1. CASE \E a \in Agents, e \in Executors, grant \in Grants :
                 Policy(RegisterAgent(a, e, grant))
      BY <1>1, <2>2, <3>1 DEF Policy, RegisterAgent
    <3>2. CASE \E a \in Agents, e \in Executors, active \in BOOLEAN, grant \in Grants :
                 Policy(SetAgent(a, e, active, grant))
      BY <1>1, <2>2, <3>2 DEF Policy, SetAgent, Limits
    <3>. QED  BY <1>4, <3>1, <3>2
  <2>4. Lasting'
    BY <1>1, <2>3 DEF Lasting
  <2>. QED  BY <1>1, <2>1, <2>4, RatesKept
<1>5. CASE UNCHANGED <<paid, agentWindows, categoryWindows, now, agents>>
  <2>1. Lasting'
    BY <1>1, <1>5 DEF Lasting
  <2>. QED  BY <1>1, <1>5, <2>1, RatesKept
<1>6. CASE \/ \E edit \in Edits : Policy(SignPolicyDigest(edit))
           \/ \E c \in Categories, terms \in CategoryTerms : Policy(SetCategory(c, terms))
           \/ \E f \in Fees : Policy(SetFees(f))
           \/ Policy(Resume) \/ Policy(EmergencyPause)
           \/ \E e \in Executors, owner \in Owners : Policy(BindExecutor(e, owner))
           \/ \E a \in Agents, c \in Categories, seller \in Sellers, allowed \in BOOLEAN :
                Policy(SetCounterparty(a, c, seller, allowed))
  BY <1>5, <1>6 DEF Policy, SignPolicyDigest, SetCategory, SetFees, Resume, EmergencyPause,
                    BindExecutor, SetCounterparty, mandates, spending, marketVars
<1>7. CASE \/ \E s \in Services : RegisterService(s)
           \/ \E e \in Executors, o \in Orders, a \in Agents, s \in Services :
                ReadTerms(e, o, a, s)
           \/ \E o \in Orders, output \in Outputs :
                AttestDelivery(o, output) \/ AcknowledgeDelivery(o, output)
           \/ UNCHANGED vars
  BY <1>5, <1>7 DEF RegisterService, ReadTerms, AttestDelivery, AcknowledgeDelivery, vars,
                    policyVars, mandates, spending, marketVars
<1>. QED  BY <1>2, <1>3, <1>4, <1>6, <1>7 DEF Next

\* In no period shorter than the windows in force do an agent's payments, or a category's, come
\* to more than two caps, whatever the edits between them (_consumeWindow).
THEOREM RatesHold == Spec => []RateIsBounded
BY InitUnused, UnusedRates, UnusedBooks, RatesInductive, BooksInductive, RatesMean, Invariance,
   ClaimedFirst, PTL DEF Spec

-----------------------------------------------------------------------------
(* A market in use                                                         *)

\* The market that registerAgent, setCounterparty and the first edits leave keeps the promises of
\* a new one: its records and sums agree, its rates and delays hold, an order settles as its buyer
\* read it, and edits are of what was signed.
THEOREM ConfiguredMarkets ==
  ConfiguredSpec =>
    /\ [](TypeOK /\ SameOrders /\ BooksAgree /\ OrdersAreSpaced /\ RateIsBounded)
    /\ SettledAsRead /\ EditsAreOfWhatWasSigned
<1>1. Configured => IInv /\ Claimed /\ Books /\ Rates
  BY ConfiguredUnused, UnusedIInv, UnusedClaimed, UnusedBooks, UnusedRates
<1>2. IInv /\ Claimed /\ Books /\ Rates /\ [Next]_vars => (IInv /\ Claimed /\ Books /\ Rates)'
  BY Inductive, ClaimedInductive, BooksInductive, RatesInductive
<1>3. IInv /\ Books /\ Rates =>
        TypeOK /\ SameOrders /\ BooksAgree /\ OrdersAreSpaced /\ RateIsBounded
  BY RatesMean DEF IInv, Books, BooksAgree
<1>. QED  BY <1>1, <1>2, <1>3, SettleStep, EditStep, PTL
          DEF ConfiguredSpec, SettledAsRead, EditsAreOfWhatWasSigned
=============================================================================
