--------------------------------- MODULE Broker ---------------------------------
(***************************************************************************)
(* services/broker.ts with the purchases of integrations/circle.ts and     *)
(* integrations/marketplace.ts: one trusted process that holds the         *)
(* wallets.  Its journal keeps one intent for a job's data, report and     *)
(* verification; a pending one is never tried again and holds its share of *)
(* the lifetime budget.  Requests wait for each other (this.queue).        *)
(***************************************************************************)
EXTENDS VerificationMarket

CONSTANT Budget   \* how many purchases of a kind the lifetime budget pays for

ASSUME BrokerAssumption == Budget \in [{"data", "verify"} -> Nat]

VARIABLES
  broker,      \* the process: the operation it performs
  brokerLock,  \* broker.lock: free, held, or left by a crash
  asked,       \* requests waiting in the queue
  intent,      \* journal.json
  checkpoint,  \* market-orders/<run>.json
  bought       \* jobs whose evidence the data service has settled

brokerVars == <<broker, brokerLock, asked, intent, checkpoint, bought>>

Checkpoints == {"none", "quoted", "submitting", "submitted", "paid", "fulfilled"}
Operations == {"operate", "quoted", "submitting", "sent", "submitted", "paid", "confirming",
               "settle"}

BrokerInit ==
  /\ broker = [at |-> "off", job |-> 1, kind |-> "data", tries |-> 0]
  /\ brokerLock = "free"
  /\ asked = {}
  /\ intent = [i \in Jobs |-> [k \in Kinds |-> "none"]]
  /\ checkpoint = [i \in Jobs |-> "none"]
  /\ bought = {}

Live(i) == mandate[job[i].mandate].live
AtMarket(i) == mandate[job[i].mandate].terms > 0
Working(i, k) == broker.at \in Operations /\ broker.job = i /\ broker.kind = k
InProgress(i, k) == <<i, k>> \in asked \/ Working(i, k)

Performs(step, kind) == broker.at = step /\ broker.kind = kind
Goto(step) == broker' = [broker EXCEPT !.at = step]
Becomes(state) == broker' = [at |-> state, job |-> 1, kind |-> "data", tries |-> 0]
Rests == Becomes("idle")
Note(i, stage) == checkpoint' = [checkpoint EXCEPT ![i] = stage]

\* What a request must show before it is queued.
Acceptable(i, k) ==
  /\ broker.at # "off"
  /\ k # "report" => Live(i)
  /\ k # "data" => intent[i]["data"] = "settled"
  /\ k = "verify" => intent[i]["report"] = "settled"
Enqueue(i, k) == asked' = asked \cup {<<i, k>>}

Reserved(k) == Cardinality({i \in Jobs : intent[i][k] # "none"})

Execute_Unjournalled(i, k) ==   \* mutant: the intent is written with the outcome
  /\ broker.at = "idle" /\ <<i, k>> \in asked
  /\ asked' = asked \ {<<i, k>>}
  /\ broker' = IF intent[i][k] = "none" /\ (k # "report" => Live(i) /\ Reserved(k) < Budget[k])
               THEN [at |-> "operate", job |-> i, kind |-> k, tries |-> 0] ELSE broker
  /\ UNCHANGED <<intent, marketVars, brokerLock, checkpoint, bought>>

\* DurablePayments.execute: the intent is on disk before the operation.  A job that has
\* an intent of this kind gets its stored result or is refused.
Execute(i, k) ==
  /\ broker.at = "idle" /\ <<i, k>> \in asked
  /\ asked' = asked \ {<<i, k>>}
  /\ IF intent[i][k] = "none" /\ (k # "report" => Live(i) /\ Reserved(k) < Budget[k])
     THEN /\ intent' = [intent EXCEPT ![i][k] = "pending"]
          /\ broker' = [at |-> "operate", job |-> i, kind |-> k, tries |-> 0]
     ELSE UNCHANGED <<intent, broker>>
  /\ UNCHANGED <<marketVars, brokerLock, checkpoint, bought>>

\* purchaseHederaData, whose own journal HederaPurchases models.
BuyData ==
  /\ Performs("operate", "data") /\ Live(broker.job)
  /\ bought' = bought \cup {broker.job}
  /\ Goto("settle")
  /\ UNCHANGED <<marketVars, brokerLock, asked, intent, checkpoint>>

WriteReport ==
  /\ Performs("operate", "report")
  /\ Goto("settle")
  /\ UNCHANGED <<marketVars, brokerLock, asked, intent, checkpoint, bought>>

\* The order's terms are checked and saved before anything is submitted.
Quote ==
  /\ Performs("operate", "verify") /\ Live(broker.job) /\ broker.job \in bought
  /\ CreateMarketOrder(job[broker.job].runner, broker.job)
  /\ Note(broker.job, "quoted") /\ Goto("quoted")
  /\ UNCHANGED <<brokerLock, asked, intent, bought>>

Authorize ==
  /\ Performs("quoted", "verify") /\ Live(broker.job)
  /\ Note(broker.job, "submitting") /\ Goto("submitting")
  /\ UNCHANGED <<marketVars, brokerLock, asked, intent, bought>>

\* purchaseCircleVerification: the key is derived from the run, so Circle makes one
\* transfer of it.  Without a service the recipient is fixed and nothing is saved.
Submit ==
  LET i == broker.job
  IN /\ \/ Performs("submitting", "verify") /\ InWindow(i)
        \/ Performs("operate", "verify") /\ ~AtMarket(i) /\ Live(i)
     /\ transfer' = [transfer EXCEPT ![i] = IF @ = "none" THEN "pending" ELSE @]
     /\ Goto("sent")
     /\ UNCHANGED <<order, attempt, brokerLock, asked, intent, checkpoint, bought>>

Submitted ==
  /\ Performs("sent", "verify")
  /\ IF AtMarket(broker.job) THEN Note(broker.job, "submitted") ELSE UNCHANGED checkpoint
  /\ Goto("submitted")
  /\ UNCHANGED <<marketVars, brokerLock, asked, intent, bought>>

\* The receipt on the chain shows the exact transfer; its time is not compared here.
SeeReceipt ==
  LET i == broker.job
  IN /\ Performs("submitted", "verify") /\ transfer[i] \in {"mined", "late"}
     /\ IF AtMarket(i) THEN Note(i, "paid") /\ Goto("paid")
                       ELSE UNCHANGED checkpoint /\ Goto("settle")
     /\ UNCHANGED <<marketVars, brokerLock, asked, intent, bought>>

Confirm(h) ==
  /\ Performs("paid", "verify")
  /\ ConfirmMarketOrder(h, broker.job) /\ Goto("confirming")
  /\ UNCHANGED <<brokerLock, asked, intent, checkpoint, bought>>

TryAgain_Fourth ==   \* mutant: one attempt too many
  IF broker.tries = 3 THEN Rests
  ELSE broker' = [broker EXCEPT !.at = "paid", !.tries = @ + 1]

\* Three attempts to confirm, never another transfer.
TryAgain ==
  IF broker.tries = 2 THEN Rests
  ELSE broker' = [broker EXCEPT !.at = "paid", !.tries = @ + 1]

Hear(h) ==
  /\ Performs("confirming", "verify")
  /\ attempt[h].at = "replied" /\ attempt[h].by = "broker"
  /\ attempt' = [attempt EXCEPT ![h] = Served]
  /\ IF attempt[h].ok THEN Note(broker.job, "fulfilled") /\ Goto("settle")
                      ELSE UNCHANGED checkpoint /\ TryAgain
  /\ UNCHANGED <<order, transfer, brokerLock, asked, intent, bought>>

\* Nobody listens to the request any more.
Dropped == [h \in Handlers |->
  IF attempt[h].by # "broker" THEN attempt[h]
  ELSE IF attempt[h].at = "replied" THEN Served ELSE [attempt[h] EXCEPT !.by = "gone"]]

HearNothing ==
  /\ Performs("confirming", "verify") /\ May("provider")
  /\ attempt' = Dropped /\ TryAgain
  /\ UNCHANGED <<order, transfer, brokerLock, asked, intent, checkpoint, bought>>

Settle ==
  /\ broker.at = "settle"
  /\ intent' = [intent EXCEPT ![broker.job][broker.kind] = "settled"] /\ Rests
  /\ UNCHANGED <<marketVars, brokerLock, asked, checkpoint, bought>>

\* What makes an operation fail without a fault of the network.
Refused ==
  LET i == broker.job
  IN \/ broker.at = "operate" /\ broker.kind # "report" /\ ~Live(i)
     \/ /\ Performs("operate", "verify") /\ AtMarket(i)
        /\ ~(Authorized(job[i].runner, i) /\ i \in bought /\ order[i].status = "none")
     \/ broker.at = "quoted" /\ ~Live(i)
     \/ broker.at = "submitting" /\ ~InWindow(i)
     \/ broker.at = "submitted" /\ transfer[i] = "failed"
     \/ broker.at = "paid" /\ ~Active(job[i].runner)

\* The outcome is uncertain and the intent stays pending for good.
Fail ==
  /\ \/ Refused
     \/ May("provider") /\ broker.at \in {"operate", "quoted", "submitting", "sent", "submitted"}
  /\ Rests
  /\ UNCHANGED <<marketVars, brokerLock, asked, intent, checkpoint, bought>>

BrokerStart ==
  /\ broker.at = "off" /\ brokerLock = "free"
  /\ brokerLock' = "held" /\ Rests
  /\ UNCHANGED <<marketVars, asked, intent, checkpoint, bought>>

\* server.close waits for the requests it has.
BrokerStop ==
  /\ May("stop broker") /\ broker.at = "idle" /\ asked = {}
  /\ brokerLock' = "free" /\ Becomes("off")
  /\ UNCHANGED <<marketVars, asked, intent, checkpoint, bought>>

BrokerCrash ==
  /\ May("crash broker") /\ broker.at # "off"
  /\ brokerLock' = "left" /\ asked' = {}
  /\ Becomes("off")
  /\ attempt' = Dropped
  /\ UNCHANGED <<order, transfer, intent, checkpoint, bought>>

\* The operator's reconciliation: the program never clears the lock.
ReconcileBroker ==
  /\ May("reconcile") /\ brokerLock = "left"
  /\ brokerLock' = "free"
  /\ UNCHANGED <<marketVars, broker, asked, intent, checkpoint, bought>>

BrokerWork ==
  \/ \E i \in Jobs, k \in Kinds : Execute(i, k)
  \/ BuyData \/ WriteReport \/ Quote \/ Authorize \/ Submit \/ Submitted \/ SeeReceipt
  \/ \E h \in Handlers : Confirm(h) \/ Hear(h)
  \/ Settle \/ Fail

BrokerNext ==
  BrokerWork \/ HearNothing \/ BrokerStart \/ BrokerStop \/ BrokerCrash \/ ReconcileBroker

BrokerTypeOK ==
  /\ broker \in [at : Operations \cup {"off", "idle"}, job : Jobs, kind : Kinds, tries : 0 .. 2]
  /\ brokerLock \in {"free", "held", "left"}
  /\ asked \subseteq Jobs \X Kinds
  /\ intent \in [Jobs -> [Kinds -> {"none", "pending", "settled"}]]
  /\ checkpoint \in [Jobs -> Checkpoints]
  /\ bought \subseteq Jobs

\* Wherever a crash strikes, money that moved has its intent on disk, a marketplace
\* payment its order and the checkpoint that says so, and no kind of purchase exceeds
\* the lifetime budget, uncertain ones included (execute, checkpoint).
MoneyIsJournalled ==
  /\ \A i \in bought : intent[i]["data"] # "none"
  /\ \A i \in Jobs : transfer[i] # "none" =>
       /\ intent[i]["verify"] # "none" /\ i \in bought
       /\ AtMarket(i) => order[i].status # "none"
                         /\ checkpoint[i] \notin {"none", "quoted"}
  /\ \A k \in {"data", "verify"} : Reserved(k) <= Budget[k]
=============================================================================
