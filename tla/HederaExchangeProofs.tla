--------------------------- MODULE HederaExchangeProofs ---------------------------
(***************************************************************************)
(* Proofs about HederaExchange, for any purchases, prices, handlers,       *)
(* processes and operations: NothingTwice and PaymentsAreTrue are          *)
(* invariants, and no step breaks NothingLateOrUndone.                     *)
(***************************************************************************)
EXTENDS HederaExchange, TLAPS

-----------------------------------------------------------------------------
(* The invariant: the service.                                             *)

HandlerSound(s) ==
  /\ handler[s].at # "free" => handler[s].tx \in posted
  /\ handler[s].at \in {"reserved", "settling"} => row[handler[s].tx] # "none"

\* What a row stands for: a transfer that was posted, and the only one of its request.
RowSound(t) ==
  /\ row[t] # "none" => t \in posted
  /\ t \in answered => row[t] = "settled"
  /\ t \in submitted => row[t] # "none"
  /\ \A u \in Txs :
       row[t] # "none" /\ row[u] # "none" /\ payments[t].offer # 0 /\ payments[u].offer # 0
         /\ RequestOf[payments[t].run] = RequestOf[payments[u].run] => t = u

ServiceSound ==
  /\ ServiceTypeOK
  /\ standalone => wanted \cap Negotiated = {}
  /\ \A s \in Handlers : HandlerSound(s)
  /\ \A t \in Txs : RowSound(t)

-----------------------------------------------------------------------------
(* The buyers.                                                             *)

\* A signed transfer has the terms of its offer, and its journal names it.
PaymentSound(t) ==
  LET r == payments[t].run
      i == payments[t].offer
  IN /\ payments[t].amount <= Allowance[r]
     /\ i = 0 => r \notin Negotiated
     /\ i # 0 => /\ r \in Negotiated \cap wanted /\ i \in DOMAIN offers
                 /\ offers[i].run = r /\ offers[i].amount = payments[t].amount
     /\ journal[<<r, i>>].tx = t

JournalSound(r, i) ==
  LET j == journal[<<r, i>>] IN
  /\ j.tx # 0 <=> j.status \in {"signed", "received", "settled"}
  /\ j.tx # 0 => payments[j.tx].run = r /\ payments[j.tx].offer = i
  /\ j.status \in {"received", "settled"} => row[j.tx] = "settled" /\ j.tx \in transferred
  /\ j.status # "none" /\ r \in Negotiated =>
       /\ operation[r] # "none"
       /\ \A k \in 0 .. MaxOffers : journal[<<r, k>>].status # "none" => k = i

\* The steps before a purchase has its journal, and those that work on it.
Early == {"negotiating", "proposed", "agreed", "accepted", "buying"}
Holding == {"intended", "signed", "sent", "received", "recovering", "bought"}

\* What each step of a buyer's process knows.
ProcSound(p) ==
  LET r == proc[p].run
      i == proc[p].offer
      at == proc[p].at
      status == journal[<<r, i>>].status
  IN /\ at # "idle" => r \in wanted
     /\ at # "idle" /\ r \notin Negotiated => i = 0
     /\ at # "idle" /\ r \in TokenRuns => lock[r] = "held"
     /\ at \in {"negotiating", "proposed", "agreed", "accepted", "bought"} => r \in Negotiated
     /\ at # "idle" /\ r \in Negotiated =>
          /\ operation[r] # "none"
          /\ at # "negotiating" => i \in DOMAIN offers /\ offers[i].run = r
          /\ at \in {"agreed", "accepted"} => offers[i].amount <= Allowance[r]
          /\ at \in {"buying", "intended"} => offers[i].amount = proc[p].amount
          /\ at \in Early => \A k \in 0 .. MaxOffers : journal[<<r, k>>].status = "none"
     /\ at \in {"buying", "intended"} => proc[p].amount <= Allowance[r]
     /\ at = "intended" => status = "intent"
     /\ at \in {"signed", "sent"} => status = "signed"
     /\ at = "received" => r \in TokenRuns /\ status = "received"
     /\ at = "recovering" => r \in TokenRuns /\ status \in {"signed", "received"}
     /\ at = "bought" => status = "settled"

\* An operation's file and a token's lock admit one process, a journal as well.
ProcsExclude ==
  \A p, q \in Procs : p # q /\ ~Idle(p) /\ ~Idle(q) =>
    /\ proc[p].run = proc[q].run => proc[p].run \notin Negotiated \cup TokenRuns
    /\ proc[p].at \in Holding /\ proc[q].at \in Holding => Key(p) # Key(q)

OperationsSettled ==
  \A r \in Negotiated : operation[r] = "completed" =>
    \E i \in DOMAIN offers : offers[i].run = r /\ journal[<<r, i>>].status = "settled"

BuyersSound ==
  /\ BuyerTypeOK /\ ProcsExclude /\ OperationsSettled
  /\ \A t \in DOMAIN payments : PaymentSound(t)
  /\ \A r \in Runs, i \in 0 .. MaxOffers : JournalSound(r, i)
  /\ \A p \in Procs : ProcSound(p)

-----------------------------------------------------------------------------
(* The operator and the platform's deliveries.                             *)

Busy == {"signing", "saved", "dispatched", "recovering"}

WorkerSound(p) ==
  LET o == worker[p].op IN
  /\ worker[p].at \in Busy => opLock[o] = "held" /\ Permitted(o)
  /\ worker[p].at = "signing" => intent[o] = "none"
  /\ worker[p].at = "saved" => intent[o] = "signed" /\ dispatches[o] = 0
  /\ worker[p].at \in {"dispatched", "recovering"} => intent[o] # "none"
  /\ worker[p].at \in {"created", "published"} => o \in Rounds

WorkersExclude ==
  \A p, q \in Operators : p # q /\ worker[p].at \in Busy /\ worker[q].at \in Busy =>
    worker[p].op # worker[q].op

\* An operation is journalled before it is dispatched, and dispatched before it happens.
IntentSound(o) ==
  /\ dispatches[o] <= 1
  /\ intent[o] = "none" => dispatches[o] = 0
  /\ intent[o] # "none" => Permitted(o)
  /\ intent[o] = "done" => o \in confirmed
  /\ o \in confirmed => dispatches[o] > 0

OperationsSound ==
  /\ OperationsTypeOK /\ WorkersExclude
  /\ \A p \in Operators : WorkerSound(p)
  /\ \A o \in Operations : IntentSound(o)
  /\ \A d \in Deliveries : request[d].at = "proven" => request[d].op \in Rounds \cap executed
  /\ delivered \subseteq executed

-----------------------------------------------------------------------------
(* Publication.                                                            *)

\* A release of which every part is proven.
Release == [Sections -> SUBSET (Runs \cup Operations)]

PaidAndServed(r) == \E t \in transferred : payments[t].run = r /\ row[t] = "settled"

PartsSound(parts) ==
  /\ parts \in Release
  /\ \A r \in parts["a2a"] \cup parts["hts"] : PaidAndServed(r)
  /\ parts["schedules"] \subseteq executed \cap delivered
  /\ parts["audit"] \subseteq confirmed \cap DOMAIN Anchored

PublicationSound ==
  /\ publisher \in [Publishers -> [at : {"idle", "prepared"}, parts : Release,
                                   replace : BOOLEAN]]
  /\ PartsSound(release)
  /\ \A q \in Publishers : PartsSound(publisher[q].parts)

IInv == ServiceSound /\ BuyersSound /\ OperationsSound /\ PublicationSound

-----------------------------------------------------------------------------
(* The service's steps.                                                    *)

HandlerRecords(txs) == [tx : {0} \cup txs, at : {"free", "verified", "reserved", "settling"}]

LEMMA ServiceFacts ==
  ASSUME ServiceSound
  PROVE  /\ payments \in Seq(Payment) /\ Len(payments) \in Nat /\ Len(payments) <= MaxSigned
         /\ DOMAIN payments = 1 .. Len(payments) /\ DOMAIN payments \subseteq Txs
         /\ 0 \notin Txs /\ MaxSigned \in Nat /\ MaxOffers \in Nat
         /\ offers \in Seq(Offer) /\ Len(offers) \in Nat /\ Len(offers) <= MaxOffers
         /\ DOMAIN offers = 1 .. Len(offers)
         /\ posted \subseteq DOMAIN payments
         /\ handler \in [Handlers -> HandlerRecords(posted)]
         /\ row \in [Txs -> {"none", "pending", "settled"}]
         /\ transferred \subseteq submitted /\ submitted \subseteq posted
         /\ answered \subseteq transferred
         /\ \A s \in Handlers : HandlerSound(s)
         /\ \A t \in Txs : RowSound(t)
<1>1. /\ payments \in Seq(Payment) /\ Len(payments) <= MaxSigned
      /\ offers \in Seq(Offer) /\ Len(offers) <= MaxOffers
      /\ MaxSigned \in Nat /\ MaxOffers \in Nat
  BY DataAssumption DEF ServiceSound, ServiceTypeOK
<1>2. /\ Len(payments) \in Nat /\ DOMAIN payments = 1 .. Len(payments)
      /\ Len(offers) \in Nat /\ DOMAIN offers = 1 .. Len(offers)
  BY <1>1
<1>3. DOMAIN payments \subseteq Txs /\ 0 \notin Txs
  BY <1>1, <1>2 DEF Txs
<1> QED BY <1>1, <1>2, <1>3 DEF ServiceSound, ServiceTypeOK, HandlerRecords

\* What a request's step leaves as it was.
ElseServed == UNCHANGED <<wanted, standalone, price, offers, payments, posted, transferred>>

RowsGrow ==
  \A t \in Txs : /\ row[t] = "settled" => row'[t] = "settled"
                 /\ row[t] # "none" => row'[t] # "none"

\* A handler's step keeps the service sound if the rows, the submissions and the answers
\* it leaves are sound, and its own state.
LEMMA HandlerMoves ==
  ASSUME ServiceSound, ElseServed, NEW s \in Handlers, NEW x \in HandlerRecords(posted),
         handler' = [handler EXCEPT ![s] = x],
         row' \in [Txs -> {"none", "pending", "settled"}],
         submitted \subseteq submitted', submitted' \subseteq posted,
         answered' \subseteq transferred,
         x.at # "free" => x.tx \in posted,
         x.at \in {"reserved", "settling"} => row'[x.tx] # "none",
         RowsGrow,
         \A t \in Txs : RowSound(t)'
  PROVE  ServiceSound'
<1>1. handler' \in [Handlers -> HandlerRecords(posted)] /\ handler'[s] = x
  BY ServiceFacts
<1>2. ServiceTypeOK'
  BY <1>1, ServiceFacts DEF ServiceSound, ServiceTypeOK, ElseServed, HandlerRecords
<1>3. ASSUME NEW g \in Handlers PROVE HandlerSound(g)'
  <2>1. CASE g = s
    BY <1>1, <2>1 DEF HandlerSound, ElseServed
  <2>2. CASE g # s
    <3>1. handler'[g] = handler[g] /\ HandlerSound(g)
      BY <2>2, ServiceFacts
    <3>2. handler[g].at # "free" => handler[g].tx \in Txs
      BY <3>1, ServiceFacts DEF HandlerSound
    <3> QED BY <3>1, <3>2 DEF HandlerSound, ElseServed, RowsGrow
  <2> QED BY <2>1, <2>2
<1> QED BY <1>2, <1>3 DEF ServiceSound, ElseServed

\* A request is read.
LEMMA AdmitSound ==
  ASSUME ServiceSound, ElseServed, NEW s \in Handlers, NEW t \in posted,
         Admit(s, t) \/ AdmitAlone(s, t)
  PROVE  ServiceSound' /\ RowsGrow
<1>1. /\ handler' = [handler EXCEPT ![s] = [tx |-> t, at |-> "verified"]]
      /\ UNCHANGED <<row, submitted, answered>>
  BY DEF Admit, AdmitAlone
<1>2. [tx |-> t, at |-> "verified"] \in HandlerRecords(posted)
  BY DEF HandlerRecords
<1>3. RowsGrow
  BY <1>1 DEF RowsGrow
<1>4. \A u \in Txs : RowSound(u)'
  BY <1>1, ServiceFacts DEF RowSound, ElseServed
<1> QED BY <1>1, <1>2, <1>3, <1>4, ServiceFacts, HandlerMoves

\* A row is inserted where there is none, and none for another transfer of its request.
LEMMA InsertSound ==
  ASSUME ServiceSound, ElseServed, NEW s \in Handlers, handler[s].at = "verified",
         row[handler[s].tx] = "none",
         \A u \in Txs : row[u] # "none" /\ payments[u].offer # 0 /\ payments[handler[s].tx].offer # 0
                          => RequestOf[payments[u].run] # RequestOf[payments[handler[s].tx].run],
         row' = [row EXCEPT ![handler[s].tx] = "pending"],
         handler' = [handler EXCEPT ![s].at = "reserved"],
         UNCHANGED <<submitted, answered>>
  PROVE  ServiceSound' /\ RowsGrow
<1> DEFINE t == handler[s].tx
           x == [tx |-> t, at |-> "reserved"]
<1>1. t \in posted /\ t \in Txs
  BY ServiceFacts DEF HandlerSound
<1>2. handler' = [handler EXCEPT ![s] = x]
  <2>1. handler[s] \in HandlerRecords(posted)
    BY ServiceFacts
  <2>2. [handler[s] EXCEPT !.at = "reserved"] = x
    BY <2>1 DEF HandlerRecords
  <2>3. handler' = [handler EXCEPT ![s] = [handler[s] EXCEPT !.at = "reserved"]]
    BY ServiceFacts
  <2> QED BY <2>2, <2>3
<1>3. x \in HandlerRecords(posted)
  BY <1>1 DEF HandlerRecords
<1>4. /\ row' \in [Txs -> {"none", "pending", "settled"}]
      /\ row'[t] = "pending" /\ \A u \in Txs : u # t => row'[u] = row[u]
  BY <1>1, ServiceFacts
<1>5. RowsGrow
  BY <1>4 DEF RowsGrow
<1>6. ASSUME NEW u \in Txs PROVE RowSound(u)'
  <2>1. CASE u = t
    <3>1. t \notin answered /\ RowSound(t)
      BY <1>1, ServiceFacts DEF RowSound
    <3> QED BY <1>1, <1>4, <2>1, <3>1 DEF RowSound, ElseServed
  <2>2. CASE u # t
    BY <1>1, <1>4, <2>2, ServiceFacts DEF RowSound, ElseServed
  <2> QED BY <2>1, <2>2
<1> HIDE DEF x
<1>7. x.at = "reserved" /\ x.tx = t
  BY DEF x
<1> QED BY <1>1, <1>2, <1>3, <1>4, <1>5, <1>6, <1>7, ServiceFacts, HandlerMoves

LEMMA ReserveSound ==
  ASSUME ServiceSound, ElseServed, NEW s \in Handlers, Reserve(s)
  PROVE  ServiceSound' /\ RowsGrow
<1>1. handler[s].tx \in Txs
  BY ServiceFacts DEF Reserve, HandlerSound
<1>2. row[handler[s].tx] = "none"
  BY <1>1 DEF Reserve, Conflicts
<1>3. \A u \in Txs : row[u] # "none" /\ payments[u].offer # 0 /\ payments[handler[s].tx].offer # 0
                       => RequestOf[payments[u].run] # RequestOf[payments[handler[s].tx].run]
  BY DEF Reserve, Conflicts
<1> QED BY <1>2, <1>3, InsertSound DEF Reserve

\* Alone, the service has no negotiated transfers.
LEMMA CreateFileSound ==
  ASSUME ServiceSound, \A t \in DOMAIN payments : PaymentSound(t),
         ElseServed, NEW s \in Handlers, CreateFile(s)
  PROVE  ServiceSound' /\ RowsGrow
<1>1. handler[s].tx \in DOMAIN payments
  BY ServiceFacts DEF CreateFile, HandlerSound
<1>2. payments[handler[s].tx].offer = 0
  BY <1>1 DEF CreateFile, PaymentSound, ServiceSound
<1> QED BY <1>2, InsertSound DEF CreateFile

LEMMA SettleSound ==
  ASSUME ServiceSound, ElseServed, NEW s \in Handlers, Settle(s) \/ SettleAlone(s)
  PROVE  ServiceSound' /\ RowsGrow
<1> DEFINE t == handler[s].tx
           x == [tx |-> t, at |-> "settling"]
<1>1. /\ handler[s].at = "reserved" /\ submitted' = submitted \cup {t}
      /\ handler' = [handler EXCEPT ![s].at = "settling"]
      /\ UNCHANGED <<row, answered>>
  BY DEF Settle, SettleAlone
<1>2. t \in posted /\ t \in Txs /\ row[t] # "none"
  BY <1>1, ServiceFacts DEF HandlerSound
<1>3. handler' = [handler EXCEPT ![s] = x] /\ x \in HandlerRecords(posted)
  <2>1. handler[s] \in HandlerRecords(posted)
    BY ServiceFacts
  <2>2. [handler[s] EXCEPT !.at = "settling"] = x
    BY <2>1 DEF HandlerRecords
  <2>3. handler' = [handler EXCEPT ![s] = [handler[s] EXCEPT !.at = "settling"]]
    BY <1>1, ServiceFacts
  <2>4. x \in HandlerRecords(posted)
    BY <1>2 DEF HandlerRecords
  <2> QED BY <2>2, <2>3, <2>4
<1>4. RowsGrow
  BY <1>1 DEF RowsGrow
<1>5. \A u \in Txs : RowSound(u)'
  BY <1>1, <1>2, ServiceFacts DEF RowSound, ElseServed
<1>6. x.at = "settling" /\ x.tx = t
  OBVIOUS
<1> HIDE DEF x
<1> QED BY <1>1, <1>2, <1>3, <1>4, <1>5, <1>6, ServiceFacts, HandlerMoves

LEMMA AnswerSound ==
  ASSUME ServiceSound, ElseServed, NEW s \in Handlers, Answer(s) \/ AnswerAlone(s)
  PROVE  ServiceSound' /\ RowsGrow
<1> DEFINE t == handler[s].tx
<1>1. /\ handler[s].at = "settling" /\ t \in transferred /\ answered' = answered \cup {t}
      /\ handler' = [handler EXCEPT ![s] = Free] /\ UNCHANGED submitted
  BY DEF Answer, AnswerAlone
<1>2. t \in posted /\ t \in Txs /\ row[t] \in {"pending", "settled"}
  BY <1>1, ServiceFacts DEF HandlerSound
<1>3. row' = [row EXCEPT ![t] = "settled"]
  BY <1>2, ServiceFacts DEF Answer, AnswerAlone
<1>4. /\ row' \in [Txs -> {"none", "pending", "settled"}]
      /\ row'[t] = "settled" /\ \A u \in Txs : u # t => row'[u] = row[u]
  BY <1>2, <1>3, ServiceFacts
<1>5. RowsGrow
  BY <1>2, <1>4 DEF RowsGrow
<1>6. ASSUME NEW u \in Txs PROVE RowSound(u)'
  <2>1. RowSound(u) /\ RowSound(t)
    BY <1>2, ServiceFacts
  <2>2. \A v \in Txs : row'[v] # "none" <=> row[v] # "none"
    BY <1>2, <1>4
  <2>3. row'[u] # "none" => u \in posted'
    BY <2>1, <2>2 DEF RowSound, ElseServed
  <2>4. u \in answered' => row'[u] = "settled"
    BY <1>1, <1>4, <2>1 DEF RowSound
  <2>5. u \in submitted' => row'[u] # "none"
    BY <1>1, <2>1, <2>2 DEF RowSound
  <2>6. payments' = payments
    BY DEF ElseServed
  <2> QED BY <2>1, <2>2, <2>3, <2>4, <2>5, <2>6 DEF RowSound
<1>7. Free \in HandlerRecords(posted) /\ Free.at = "free"
  BY DEF Free, HandlerRecords
<1> QED BY <1>1, <1>2, <1>4, <1>5, <1>6, <1>7, ServiceFacts, HandlerMoves

LEMMA AbandonSound ==
  ASSUME ServiceSound, ElseServed, NEW s \in Handlers, Abandon(s)
  PROVE  ServiceSound' /\ RowsGrow
<1>1. Free \in HandlerRecords(posted) /\ Free.at = "free"
  BY DEF Free, HandlerRecords
<1>2. RowsGrow
  BY DEF Abandon, RowsGrow
<1>3. \A u \in Txs : RowSound(u)'
  BY ServiceFacts DEF Abandon, RowSound, ElseServed
<1> QED BY <1>1, <1>2, <1>3, ServiceFacts, HandlerMoves DEF Abandon

LEMMA RequestSound ==
  ASSUME ServiceSound, \A t \in DOMAIN payments : PaymentSound(t),
         NEW s \in Handlers, Request(s)
  PROVE  ServiceSound' /\ RowsGrow /\ ElseServed
<1>1. ElseServed
  BY DEF Request, ElseServed
<1>2. ASSUME NEW t \in posted, Admit(s, t) \/ AdmitAlone(s, t) PROVE ServiceSound' /\ RowsGrow
  BY <1>1, <1>2, AdmitSound
<1>3. CASE Reserve(s) \/ CreateFile(s)
  BY <1>1, <1>3, ReserveSound, CreateFileSound
<1>4. CASE Settle(s) \/ SettleAlone(s)
  BY <1>1, <1>4, SettleSound
<1>5. CASE Answer(s) \/ AnswerAlone(s)
  BY <1>1, <1>5, AnswerSound
<1>6. CASE Abandon(s)
  BY <1>1, <1>6, AbandonSound
<1> QED BY <1>1, <1>2, <1>3, <1>4, <1>5, <1>6 DEF Request

-----------------------------------------------------------------------------
(* What the service and the network leave of the buyers' knowledge.        *)

JournalRecords(txs) == [status : Status, tx : {0} \cup txs]
ProcRecords == [at : Steps, run : Runs, offer : 0 .. MaxOffers, amount : Nat]

LEMMA BuyerFacts ==
  ASSUME BuyersSound
  PROVE  /\ proc \in [Procs -> ProcRecords]
         /\ operation \in [Negotiated -> {"none", "negotiating", "accepted", "completed"}]
         /\ journal \in [Runs \X (0 .. MaxOffers) -> JournalRecords(DOMAIN payments)]
         /\ lock \in [TokenRuns -> {"free", "held", "dead"}]
         /\ authorised \subseteq Runs
         /\ \A t \in DOMAIN payments : PaymentSound(t)
         /\ \A r \in Runs, i \in 0 .. MaxOffers : JournalSound(r, i)
         /\ \A p \in Procs : ProcSound(p)
BY DEF BuyersSound, BuyerTypeOK, Journals, JournalRecords, ProcRecords

LEMMA RunFacts ==
  /\ Negotiated \subseteq Runs \ TokenRuns /\ TokenRuns \subseteq Runs
  /\ Allowance \in [Runs -> Nat] /\ TokenPrice \in Nat /\ Prices \subseteq Nat
  /\ DOMAIN RequestOf = Negotiated
  /\ MaxOffers \in Nat /\ MaxSigned \in Nat /\ 0 \in 0 .. MaxOffers
BY DataAssumption, BuyerAssumption DEF Native

LEMMA KeyFacts ==
  ASSUME BuyersSound, NEW p \in Procs
  PROVE  /\ proc[p] \in ProcRecords /\ proc[p].at \in Steps /\ proc[p].run \in Runs
         /\ proc[p].offer \in 0 .. MaxOffers /\ proc[p].amount \in Nat
         /\ Key(p) = <<proc[p].run, proc[p].offer>> /\ Key(p) \in Runs \X (0 .. MaxOffers)
         /\ journal[Key(p)] \in JournalRecords(DOMAIN payments)
         /\ journal[Key(p)].status \in Status /\ journal[Key(p)].tx \in {0} \cup DOMAIN payments
         /\ ProcSound(p) /\ JournalSound(proc[p].run, proc[p].offer)
<1>1. proc[p] \in ProcRecords
  BY BuyerFacts
<1>2. proc[p].at \in Steps /\ proc[p].run \in Runs /\ proc[p].offer \in 0 .. MaxOffers
      /\ proc[p].amount \in Nat
  BY <1>1 DEF ProcRecords
<1>3. Key(p) = <<proc[p].run, proc[p].offer>> /\ Key(p) \in Runs \X (0 .. MaxOffers)
  BY <1>2 DEF Key
<1>4. journal[Key(p)] \in JournalRecords(DOMAIN payments)
  BY <1>3, BuyerFacts
<1>5. journal[Key(p)].status \in Status /\ journal[Key(p)].tx \in {0} \cup DOMAIN payments
  BY <1>4 DEF JournalRecords
<1> QED BY <1>1, <1>2, <1>3, <1>4, <1>5, BuyerFacts

\* Offers and transfers are added and never changed, but for an offer's time.
OffersGrow ==
  /\ DOMAIN offers \subseteq DOMAIN offers'
  /\ \A i \in DOMAIN offers :
       offers'[i].run = offers[i].run /\ offers'[i].amount = offers[i].amount
PaymentsGrow ==
  /\ DOMAIN payments \subseteq DOMAIN payments'
  /\ \A t \in DOMAIN payments : payments'[t] = payments[t]

\* Another process's step leaves what one knows: its journals, its operation, its lock.
LEMMA ProcKept ==
  ASSUME ServiceSound, BuyersSound, UNCHANGED wanted, OffersGrow, NEW p \in Procs, proc'[p] = proc[p],
         ~Idle(p) => journal'[Key(p)] = journal[Key(p)] \/ proc[p].at \notin Holding,
         ~Idle(p) /\ proc[p].run \in Negotiated =>
           /\ operation'[proc[p].run] # "none"
           /\ \A k \in 0 .. MaxOffers : journal'[<<proc[p].run, k>>] = journal[<<proc[p].run, k>>],
         ~Idle(p) /\ proc[p].run \in TokenRuns => lock'[proc[p].run] = lock[proc[p].run]
  PROVE  ProcSound(p)'
<1>1. ProcSound(p)
  BY BuyerFacts
<1>2. CASE Idle(p)
  BY <1>2 DEF Idle, ProcSound, Early, Holding
<1>3. CASE ~Idle(p)
  BY <1>1, <1>3 DEF Idle, ProcSound, Early, Holding, Key, OffersGrow
<1> QED BY <1>2, <1>3

\* A step that is not a buyer's: rows and offers go forward, the network executes.
LEMMA BuyersKept ==
  ASSUME ServiceSound, BuyersSound, UNCHANGED <<wanted, payments, proc, operation, journal, lock>>,
         OffersGrow, RowsGrow, transferred \subseteq transferred', authorised' \subseteq Runs
  PROVE  BuyersSound'
<1>1. BuyerTypeOK' /\ ProcsExclude'
  BY DEF BuyersSound, BuyerTypeOK, Journals, ProcsExclude, Idle, Key
<1>2. OperationsSettled'
  BY DEF BuyersSound, OperationsSettled, OffersGrow
<1>3. \A t \in DOMAIN payments : PaymentSound(t)'
  BY BuyerFacts DEF PaymentSound, OffersGrow
<1>4. ASSUME NEW r \in Runs, NEW i \in 0 .. MaxOffers PROVE JournalSound(r, i)'
  <2>1. JournalSound(r, i) /\ journal[<<r, i>>].tx \in {0} \cup Txs
    BY BuyerFacts, ServiceFacts DEF JournalRecords
  <2> QED BY <2>1 DEF JournalSound, RowsGrow
<1>5. ASSUME NEW p \in Procs PROVE ProcSound(p)'
  <2>1. ~Idle(p) /\ proc[p].run \in Negotiated => operation[proc[p].run] # "none"
    BY BuyerFacts DEF ProcSound, Idle
  <2> QED BY <2>1, ProcKept
<1> QED BY <1>1, <1>2, <1>3, <1>4, <1>5 DEF BuyersSound

LEMMA ServiceStep ==
  ASSUME ServiceSound, BuyersSound, Service, UNCHANGED buyerVars
  PROVE  ServiceSound' /\ BuyersSound'
<1>1. CASE ChangePrice
  <2>1. price' \in Prices /\ UNCHANGED <<wanted, offers, payments, posted, serviceVars, transferred>>
    BY <1>1 DEF ChangePrice, UpdatePrice, SavePrice
  <2>2. ServiceSound'
    BY <2>1 DEF serviceVars, ServiceSound, ServiceTypeOK, HandlerSound, RowSound
  <2>3. OffersGrow /\ RowsGrow /\ transferred \subseteq transferred'
    BY <2>1 DEF serviceVars, OffersGrow, RowsGrow
  <2> QED BY <2>1, <2>2, <2>3, BuyersKept, BuyerFacts DEF buyerVars
<1>2. ASSUME NEW i \in 1 .. MaxOffers, OfferExpires(i) PROVE ServiceSound' /\ BuyersSound'
  <2>1. /\ i \in DOMAIN offers /\ offers' = [offers EXCEPT ![i].live = FALSE]
        /\ UNCHANGED <<wanted, price, payments, posted, serviceVars, transferred>>
    BY <1>2 DEF OfferExpires
  <2>2. \A k \in DOMAIN offers : offers[k] \in Offer
    BY ServiceFacts
  <2>3. [offers[i] EXCEPT !.live = FALSE] \in Offer
    BY <2>1, <2>2 DEF Offer
  <2>4. offers' = [offers EXCEPT ![i] = [offers[i] EXCEPT !.live = FALSE]]
    BY <2>1
  <2>5. offers' \in Seq(Offer) /\ Len(offers') = Len(offers)
    BY <2>1, <2>3, <2>4, ServiceFacts
  <2>6. ServiceSound'
    BY <2>1, <2>5, ServiceFacts DEF serviceVars, ServiceSound, ServiceTypeOK, HandlerSound, RowSound
  <2>7. OffersGrow
    BY <2>1, <2>2, <2>4, ServiceFacts DEF OffersGrow, Offer
  <2>8. RowsGrow /\ transferred \subseteq transferred'
    BY <2>1 DEF serviceVars, RowsGrow
  <2> QED BY <2>1, <2>6, <2>7, <2>8, BuyersKept, BuyerFacts DEF buyerVars
<1>3. ASSUME NEW s \in Handlers, Request(s) PROVE ServiceSound' /\ BuyersSound'
  <2>1. ServiceSound' /\ RowsGrow /\ ElseServed
    BY <1>3, RequestSound, BuyerFacts
  <2>2. OffersGrow
    BY <2>1 DEF ElseServed, OffersGrow
  <2> QED BY <2>1, <2>2, BuyersKept, BuyerFacts DEF buyerVars, ElseServed
<1>4. ASSUME NEW t \in Txs, Transfer(t) PROVE ServiceSound' /\ BuyersSound'
  <2>1. /\ transferred' = transferred \cup {t} /\ t \in submitted
        /\ UNCHANGED <<wanted, price, offers, payments, posted, serviceVars>>
    BY <1>4 DEF Transfer
  <2>2. ServiceSound'
    BY <2>1 DEF serviceVars, ServiceSound, ServiceTypeOK, HandlerSound, RowSound
  <2>3. OffersGrow /\ RowsGrow /\ transferred \subseteq transferred'
    BY <2>1 DEF serviceVars, OffersGrow, RowsGrow
  <2> QED BY <2>1, <2>2, <2>3, BuyersKept, BuyerFacts DEF buyerVars
<1> QED BY <1>1, <1>2, <1>3, <1>4 DEF Service

-----------------------------------------------------------------------------
(* The buyers' steps.                                                      *)

\* What a buyer's step leaves as it was.
ElseBought == UNCHANGED <<wanted, price, serviceVars, transferred>>

\* A process that goes on with its purchase, or rests, meets no other one.
LEMMA StillExclude ==
  ASSUME BuyersSound, NEW p \in Procs,
         \A q \in Procs \ {p} : proc'[q] = proc[q],
         proc'[p].at # "idle" => ~Idle(p) /\ proc'[p].run = proc[p].run,
         proc'[p].at \in Holding => proc[p].at \in Holding /\ proc'[p].offer = proc[p].offer
  PROVE  ProcsExclude'
<1>1. ProcsExclude
  BY DEF BuyersSound
<1>2. ASSUME NEW q \in Procs, q # p, ~Idle(p)', ~Idle(q)
      PROVE  /\ proc'[p].run = proc[q].run => proc[q].run \notin Negotiated \cup TokenRuns
             /\ proc'[p].at \in Holding /\ proc[q].at \in Holding => Key(p)' # Key(q)
  BY <1>1, <1>2 DEF ProcsExclude, Idle, Key
<1>3. ASSUME NEW q \in Procs, NEW g \in Procs, q # g, ~Idle(q)', ~Idle(g)'
      PROVE  /\ proc'[q].run = proc'[g].run => proc'[q].run \notin Negotiated \cup TokenRuns
             /\ proc'[q].at \in Holding /\ proc'[g].at \in Holding => Key(q)' # Key(g)'
  <2>1. CASE q = p
    BY <1>2, <1>3, <2>1 DEF Idle, Key
  <2>2. CASE g = p
    BY <1>2, <1>3, <2>2 DEF Idle, Key
  <2>3. CASE q # p /\ g # p
    BY <1>1, <1>3, <2>3 DEF ProcsExclude, Idle, Key
  <2> QED BY <2>1, <2>2, <2>3
<1> QED BY <1>3 DEF ProcsExclude

\* A process that takes up a purchase nobody else is at, or the journal of one.
LEMMA NewlyExclude ==
  ASSUME BuyersSound, NEW p \in Procs,
         \A q \in Procs \ {p} : proc'[q] = proc[q],
         \A q \in Procs \ {p} : ~Idle(q) =>
           /\ proc[q].run = proc'[p].run => proc[q].run \notin Negotiated \cup TokenRuns
           /\ proc'[p].at \in Holding /\ proc[q].at \in Holding =>
                Key(q) # <<proc'[p].run, proc'[p].offer>>
  PROVE  ProcsExclude'
<1>1. ProcsExclude
  BY DEF BuyersSound
<1>2. ASSUME NEW q \in Procs, NEW g \in Procs, q # g, ~Idle(q)', ~Idle(g)'
      PROVE  /\ proc'[q].run = proc'[g].run => proc'[q].run \notin Negotiated \cup TokenRuns
             /\ proc'[q].at \in Holding /\ proc'[g].at \in Holding => Key(q)' # Key(g)'
  <2>1. CASE q = p
    BY <1>2, <2>1 DEF Idle, Key
  <2>2. CASE g = p
    BY <1>2, <2>2 DEF Idle, Key
  <2>3. CASE q # p /\ g # p
    BY <1>1, <1>2, <2>3 DEF ProcsExclude, Idle, Key
  <2> QED BY <2>1, <2>2, <2>3
<1> QED BY <1>2 DEF ProcsExclude

\* The service goes on with more offers, more transfers and more posted.
LEMMA ServiceGrows ==
  ASSUME ServiceSound, ElseBought, OffersGrow, PaymentsGrow,
         offers' \in Seq(Offer), Len(offers') <= MaxOffers,
         payments' \in Seq(Payment), Len(payments') <= MaxSigned,
         posted \subseteq posted', posted' \subseteq DOMAIN payments'
  PROVE  ServiceSound'
<1>1. UNCHANGED <<wanted, price, standalone, handler, row, submitted, answered, transferred>>
  BY DEF ElseBought, serviceVars
<1>2. ServiceTypeOK'
  BY <1>1, ServiceFacts DEF ServiceSound, ServiceTypeOK, HandlerRecords
<1>3. \A s \in Handlers : HandlerSound(s)'
  BY <1>1, ServiceFacts DEF HandlerSound
<1>4. ASSUME NEW t \in Txs PROVE RowSound(t)'
  <2>1. \A u \in Txs : row[u] # "none" => payments'[u] = payments[u]
    BY ServiceFacts DEF RowSound, PaymentsGrow
  <2>2. RowSound(t)
    BY ServiceFacts
  <2> QED BY <1>1, <2>1, <2>2 DEF RowSound
<1> QED BY <1>1, <1>2, <1>3, <1>4 DEF ServiceSound

\* A step that writes no journal: the process and what it knows are what has to be shown.
LEMMA ProcMoves ==
  ASSUME ServiceSound, BuyersSound, NEW p \in Procs, NEW x \in ProcRecords,
         proc' = [proc EXCEPT ![p] = x],
         UNCHANGED <<wanted, row, transferred, payments, journal, authorised>>, OffersGrow,
         operation' \in [Negotiated -> {"none", "negotiating", "accepted", "completed"}],
         \A r \in Negotiated : operation[r] # "none" => operation'[r] # "none",
         lock' \in [TokenRuns -> {"free", "held", "dead"}],
         \A q \in Procs \ {p} : ~Idle(q) /\ proc[q].run \in TokenRuns =>
           lock'[proc[q].run] = lock[proc[q].run],
         ProcSound(p)', ProcsExclude', OperationsSettled'
  PROVE  BuyersSound'
<1>1. /\ proc' \in [Procs -> ProcRecords] /\ proc'[p] = x
      /\ \A q \in Procs : q # p => proc'[q] = proc[q]
  BY BuyerFacts
<1>2. BuyerTypeOK'
  BY <1>1, BuyerFacts DEF BuyerTypeOK, ProcRecords, Journals, JournalRecords
<1>3. ASSUME NEW t \in DOMAIN payments PROVE PaymentSound(t)'
  BY BuyerFacts DEF PaymentSound, OffersGrow
<1>4. ASSUME NEW r \in Runs, NEW i \in 0 .. MaxOffers PROVE JournalSound(r, i)'
  BY BuyerFacts DEF JournalSound
<1>5. ASSUME NEW q \in Procs, q # p PROVE ProcSound(q)'
  <2>1. ~Idle(q) /\ proc[q].run \in Negotiated => operation[proc[q].run] # "none"
    BY BuyerFacts DEF ProcSound, Idle
  <2> QED BY <1>1, <1>5, <2>1, ProcKept
<1> QED BY <1>2, <1>3, <1>4, <1>5 DEF BuyersSound

-----------------------------------------------------------------------------
(* Negotiation.                                                            *)

Moved(p, at, offer, amount) ==
  [at |-> at, run |-> proc[p].run, offer |-> offer, amount |-> amount]

LEMMA MovedIsRecord ==
  ASSUME BuyersSound, NEW p \in Procs, NEW at \in Steps, NEW offer \in 0 .. MaxOffers,
         NEW amount \in Nat
  PROVE  /\ Moved(p, at, offer, amount) \in ProcRecords
         /\ [proc EXCEPT ![p].at = at] = [proc EXCEPT ![p] = Moved(p, at, proc[p].offer, proc[p].amount)]
         /\ [proc EXCEPT ![p].at = at, ![p].offer = offer]
              = [proc EXCEPT ![p] = Moved(p, at, offer, proc[p].amount)]
<1>1. proc[p] \in ProcRecords /\ proc \in [Procs -> ProcRecords]
  BY BuyerFacts
<1>2. Moved(p, at, offer, amount) \in ProcRecords
  BY <1>1 DEF Moved, ProcRecords
<1>3. /\ [proc[p] EXCEPT !.at = at] = Moved(p, at, proc[p].offer, proc[p].amount)
      /\ [[proc[p] EXCEPT !.at = at] EXCEPT !.offer = offer] = Moved(p, at, offer, proc[p].amount)
  <2>1. [proc[p] EXCEPT !.at = at] = Moved(p, at, proc[p].offer, proc[p].amount)
    BY <1>1 DEF Moved, ProcRecords
  <2>2. [Moved(p, at, proc[p].offer, proc[p].amount) EXCEPT !.offer = offer]
          = Moved(p, at, offer, proc[p].amount)
    BY DEF Moved
  <2> QED BY <2>1, <2>2
<1>4. /\ [proc EXCEPT ![p].at = at] = [proc EXCEPT ![p] = [proc[p] EXCEPT !.at = at]]
      /\ [proc EXCEPT ![p].at = at, ![p].offer = offer]
           = [proc EXCEPT ![p] = [[proc[p] EXCEPT !.at = at] EXCEPT !.offer = offer]]
  BY <1>1
<1> QED BY <1>2, <1>3, <1>4

LEMMA MovedTo ==
  ASSUME BuyersSound, NEW p \in Procs, NEW at \in Steps, At(p, at)
  PROVE  /\ proc' = [proc EXCEPT ![p] = Moved(p, at, proc[p].offer, proc[p].amount)]
         /\ Moved(p, at, proc[p].offer, proc[p].amount) \in ProcRecords
         /\ proc'[p].at = at /\ proc'[p].run = proc[p].run
         /\ proc'[p].offer = proc[p].offer /\ proc'[p].amount = proc[p].amount
         /\ \A q \in Procs \ {p} : proc'[q] = proc[q]
<1>1. proc[p].offer \in 0 .. MaxOffers /\ proc[p].amount \in Nat
  BY KeyFacts
<1>2. /\ proc' = [proc EXCEPT ![p] = Moved(p, at, proc[p].offer, proc[p].amount)]
      /\ Moved(p, at, proc[p].offer, proc[p].amount) \in ProcRecords
  BY <1>1, MovedIsRecord DEF At
<1> QED BY <1>2, BuyerFacts DEF Moved

LEMMA RestingIsRecord ==
  Resting \in ProcRecords /\ Resting.at = "idle"
<1>1. \E r \in Runs : TRUE
  BY DataAssumption
<1>2. (CHOOSE r \in Runs : TRUE) \in Runs
  BY <1>1
<1> QED BY <1>2, RunFacts DEF Resting, ProcRecords, Steps

LEMMA Rests ==
  ASSUME BuyersSound, NEW p \in Procs, Rest(p)
  PROVE  /\ proc' = [proc EXCEPT ![p] = Resting] /\ proc'[p].at = "idle"
         /\ \A q \in Procs \ {p} : proc'[q] = proc[q]
         /\ ProcSound(p)' /\ ProcsExclude'
<1>1. /\ proc' = [proc EXCEPT ![p] = Resting] /\ proc'[p].at = "idle"
      /\ \A q \in Procs \ {p} : proc'[q] = proc[q]
  BY BuyerFacts, RestingIsRecord DEF Rest
<1>2. ProcSound(p)'
  BY <1>1 DEF ProcSound, Early
<1>3. ProcsExclude'
  BY <1>1, StillExclude DEF Holding
<1> QED BY <1>1, <1>2, <1>3

LEMMA ServiceRests ==
  ASSUME ServiceSound, ElseBought, UNCHANGED <<offers, payments>>,
         posted \subseteq posted', posted' \subseteq DOMAIN payments
  PROVE  ServiceSound' /\ OffersGrow /\ UNCHANGED <<wanted, row, transferred>>
<1>1. OffersGrow /\ PaymentsGrow
  BY DEF OffersGrow, PaymentsGrow
<1> QED BY <1>1, ServiceFacts, ServiceGrows DEF ElseBought, serviceVars

\* The operation's file is created once, and by nobody who is at work on the purchase.
LEMMA NegotiateSound ==
  ASSUME ServiceSound, BuyersSound, ElseBought, NEW p \in Procs, NEW r \in Runs, Negotiate(p, r),
         UNCHANGED <<payments, posted, journal, lock, authorised>>
  PROVE  ServiceSound' /\ BuyersSound'
<1> DEFINE x == [at |-> "negotiating", run |-> r, offer |-> 0, amount |-> 0]
<1>1. /\ Idle(p) /\ r \in Negotiated /\ r \in wanted /\ operation[r] = "none"
      /\ operation' = [operation EXCEPT ![r] = "negotiating"]
      /\ proc' = [proc EXCEPT ![p] = x]
      /\ UNCHANGED offers
  BY DEF Negotiate, Begun
<1>2. x \in ProcRecords
  BY RunFacts DEF ProcRecords, Steps
<1>3. ServiceSound' /\ OffersGrow /\ UNCHANGED <<wanted, row, transferred>>
  BY <1>1, ServiceFacts, ServiceRests
<1>4. proc'[p] = x /\ \A q \in Procs \ {p} : proc'[q] = proc[q]
  BY <1>1, BuyerFacts
<1>5. /\ operation' \in [Negotiated -> {"none", "negotiating", "accepted", "completed"}]
      /\ operation'[r] = "negotiating" /\ \A s \in Negotiated \ {r} : operation'[s] = operation[s]
  BY <1>1, BuyerFacts
<1>6. \A k \in 0 .. MaxOffers : journal[<<r, k>>].status = "none"
  BY <1>1, BuyerFacts DEF JournalSound
<1>7. ProcSound(p)'
  BY <1>1, <1>3, <1>4, <1>5, <1>6, RunFacts DEF ProcSound
<1>8. ProcsExclude'
  <2>1. \A q \in Procs \ {p} : ~Idle(q) => proc[q].run # r
    BY <1>1, BuyerFacts DEF ProcSound, Idle
  <2> QED BY <1>4, <2>1, NewlyExclude DEF Holding
<1>9. OperationsSettled'
  BY <1>1, <1>5 DEF BuyersSound, OperationsSettled
<1> HIDE DEF x
<1> QED BY <1>1, <1>2, <1>3, <1>5, <1>7, <1>8, <1>9, BuyerFacts, ProcMoves

\* The seller's offer is the buyer's own.
LEMMA ProposeSound ==
  ASSUME ServiceSound, BuyersSound, ElseBought, NEW p \in Procs, Propose(p),
         UNCHANGED <<payments, posted, journal, lock, authorised>>
  PROVE  ServiceSound' /\ BuyersSound'
<1> DEFINE r == proc[p].run
           n == Len(offers) + 1
<1>1. /\ proc[p].at = "negotiating" /\ r \in Negotiated /\ Len(offers) < MaxOffers
      /\ offers' = Append(offers, Signed(r))
      /\ proc' = [proc EXCEPT ![p].at = "proposed", ![p].offer = n]
      /\ UNCHANGED operation
  BY DEF Propose, Working
<1>2. Signed(r) \in Offer /\ Signed(r).run = r
  <2>1. r \in Runs /\ Quote(r) \in Nat
    BY KeyFacts, RunFacts DEF Quote, ServiceSound, ServiceTypeOK
  <2> QED BY <2>1 DEF Signed, SellerQuote, Offer
<1>3. /\ n \in 0 .. MaxOffers /\ offers' \in Seq(Offer) /\ Len(offers') = n
      /\ offers'[n] = Signed(r) /\ n \in DOMAIN offers'
      /\ \A i \in DOMAIN offers : i \in DOMAIN offers' /\ offers'[i] = offers[i]
  BY <1>1, <1>2, ServiceFacts
<1>4. OffersGrow /\ PaymentsGrow
  BY <1>3 DEF OffersGrow, PaymentsGrow
<1>5. ServiceSound'
  BY <1>3, <1>4, ServiceFacts, ServiceGrows
<1>6. UNCHANGED <<wanted, row, transferred>>
  BY DEF ElseBought, serviceVars
<1>7. /\ proc' = [proc EXCEPT ![p] = Moved(p, "proposed", n, proc[p].amount)]
      /\ Moved(p, "proposed", n, proc[p].amount) \in ProcRecords
  BY <1>1, <1>3, KeyFacts, MovedIsRecord DEF Steps
<1>8. /\ proc'[p].at = "proposed" /\ proc'[p].run = r /\ proc'[p].offer = n
      /\ \A q \in Procs \ {p} : proc'[q] = proc[q]
  BY <1>7, BuyerFacts DEF Moved
<1>9. ProcSound(p)'
  <2>1. /\ r \in wanted /\ operation[r] # "none"
        /\ \A k \in 0 .. MaxOffers : journal[<<r, k>>].status = "none"
    BY <1>1, BuyerFacts DEF ProcSound, Early
  <2>2. r \notin TokenRuns
    BY <1>1, RunFacts
  <2>3. n \in DOMAIN offers' /\ offers'[n].run = r
    BY <1>2, <1>3
  <2>4. r \in Negotiated /\ UNCHANGED <<operation, journal, wanted>>
    BY <1>1, <1>6
  <2> HIDE DEF n
  <2> QED BY <1>8, <2>1, <2>2, <2>3, <2>4 DEF ProcSound
<1>10. ProcsExclude'
  BY <1>1, <1>8, StillExclude DEF Idle, Holding
<1>11. OperationsSettled'
  <2>1. OperationsSettled /\ UNCHANGED <<operation, journal>>
    BY <1>1 DEF BuyersSound
  <2> QED BY <1>4, <2>1 DEF OperationsSettled, OffersGrow
<1> QED BY <1>1, <1>4, <1>5, <1>6, <1>7, <1>9, <1>10, <1>11, BuyerFacts, ProcMoves

\* A purchase that goes on without a message: agreed, saved, taken to the native purchase.
LEMMA AgreeSound ==
  ASSUME ServiceSound, BuyersSound, ElseBought, NEW p \in Procs,
         Accept(p) \/ SaveAccepted(p) \/ PurchaseAccepted(p),
         UNCHANGED <<payments, posted, journal, lock, authorised>>
  PROVE  ServiceSound' /\ BuyersSound'
<1> DEFINE r == proc[p].run
           i == proc[p].offer
<1>1. proc[p].at \in {"proposed", "agreed", "accepted"} /\ r \in Negotiated /\ UNCHANGED offers
  BY DEF Accept, SaveAccepted, PurchaseAccepted, Working
<1>2. ServiceSound' /\ OffersGrow /\ UNCHANGED <<wanted, row, transferred>>
  BY <1>1, ServiceFacts, ServiceRests
<1>3. ProcSound(p) /\ i \in DOMAIN offers /\ offers[i].amount \in Nat
  <2>1. ProcSound(p)
    BY BuyerFacts
  <2>2. i \in DOMAIN offers
    BY <1>1, <2>1 DEF ProcSound
  <2>3. offers[i] \in Offer
    BY <2>2, ServiceFacts
  <2> QED BY <2>1, <2>2, <2>3 DEF Offer
<1>4. /\ operation' \in [Negotiated -> {"none", "negotiating", "accepted", "completed"}]
      /\ \A s \in Negotiated : /\ operation[s] # "none" => operation'[s] # "none"
                               /\ operation'[s] = "completed" => operation[s] = "completed"
  BY <1>1, BuyerFacts DEF Accept, SaveAccepted, PurchaseAccepted
<1>5. OperationsSettled'
  BY <1>1, <1>4 DEF BuyersSound, OperationsSettled
<1>6. ASSUME NEW x \in ProcRecords, proc' = [proc EXCEPT ![p] = x],
             x.run = r, x.offer = i,
             \/ x.at \in {"agreed", "accepted"} /\ offers[i].amount <= Allowance[r]
             \/ /\ x.at = "buying" /\ x.amount = offers[i].amount
                /\ offers[i].amount <= Allowance[r]
      PROVE  BuyersSound'
  <2>1. proc'[p] = x /\ \A q \in Procs \ {p} : proc'[q] = proc[q]
    BY <1>6, BuyerFacts
  <2>2. ProcSound(p)'
    BY <1>1, <1>2, <1>3, <1>4, <1>6, <2>1, RunFacts DEF ProcSound, Early
  <2>3. ProcsExclude'
    BY <1>1, <1>6, <2>1, StillExclude DEF Idle, Holding
  <2> QED BY <1>1, <1>2, <1>4, <1>5, <1>6, <2>2, <2>3, BuyerFacts, ProcMoves
<1>7. CASE Accept(p) \/ SaveAccepted(p)
  <2>1. PICK at \in {"agreed", "accepted"} : At(p, at)
    BY <1>7 DEF Accept, SaveAccepted
  <2>2. offers[i].amount <= Allowance[r]
    BY <1>7 DEF Accept, SaveAccepted, ValidOffer
  <2>3. at \in Steps
    BY DEF Steps
  <2>4. /\ proc' = [proc EXCEPT ![p] = Moved(p, at, i, proc[p].amount)]
        /\ Moved(p, at, i, proc[p].amount) \in ProcRecords
    BY <2>1, <2>3, KeyFacts, MovedIsRecord DEF At
  <2>5. Moved(p, at, i, proc[p].amount).at = at /\ Moved(p, at, i, proc[p].amount).run = r
        /\ Moved(p, at, i, proc[p].amount).offer = i
    BY DEF Moved
  <2> QED BY <1>2, <1>6, <2>2, <2>4, <2>5
<1>8. CASE PurchaseAccepted(p)
  <2> DEFINE y == Moved(p, "buying", i, offers[i].amount)
  <2>1. proc[p].at = "accepted"
        /\ proc' = [proc EXCEPT ![p].at = "buying", ![p].amount = offers[i].amount]
    BY <1>8 DEF PurchaseAccepted, Working
  <2>2. proc' = [proc EXCEPT ![p] = y] /\ y \in ProcRecords
    <3>1. PICK a \in Nat : a = offers[i].amount
      BY <1>3
    <3>2. i \in 0 .. MaxOffers /\ "buying" \in Steps
      BY KeyFacts DEF Steps
    <3>3. proc' = [proc EXCEPT ![p].at = "buying", ![p].amount = a]
      BY <2>1, <3>1
    <3>4. Moved(p, "buying", i, a) \in ProcRecords
      BY <3>2, MovedIsRecord
    <3>5. [proc EXCEPT ![p].at = "buying", ![p].amount = a] = [proc EXCEPT ![p] = Moved(p, "buying", i, a)]
      <4>1. proc \in [Procs -> ProcRecords] /\ proc[p] \in ProcRecords
        BY BuyerFacts
      <4>2. [proc[p] EXCEPT !.at = "buying"] = Moved(p, "buying", i, proc[p].amount)
        BY <4>1 DEF Moved, ProcRecords
      <4>3. [Moved(p, "buying", i, proc[p].amount) EXCEPT !.amount = a] = Moved(p, "buying", i, a)
        BY DEF Moved
      <4> QED BY <4>1, <4>2, <4>3
    <3> QED BY <3>1, <3>3, <3>4, <3>5
  <2>3. y.at = "buying" /\ y.run = r /\ y.offer = i /\ y.amount = offers[i].amount
    BY DEF Moved
  <2>4. offers[i].amount <= Allowance[r]
    BY <1>1, <1>3, <2>1 DEF ProcSound
  <2> HIDE DEF y
  <2> QED BY <1>2, <1>6, <2>2, <2>3, <2>4
<1> QED BY <1>7, <1>8

LEMMA CompleteSound ==
  ASSUME ServiceSound, BuyersSound, ElseBought, NEW p \in Procs, Complete(p),
         UNCHANGED <<payments, posted, journal, lock, authorised>>
  PROVE  ServiceSound' /\ BuyersSound'
<1> DEFINE r == proc[p].run
           i == proc[p].offer
<1>1. /\ proc[p].at = "bought" /\ r \in Negotiated /\ Rest(p) /\ UNCHANGED offers
      /\ operation' = [operation EXCEPT ![r] = "completed"]
  BY DEF Complete, Working
<1>2. ServiceSound' /\ OffersGrow /\ UNCHANGED <<wanted, row, transferred>>
  BY <1>1, ServiceFacts, ServiceRests
<1>3. i \in DOMAIN offers /\ offers[i].run = r /\ journal[<<r, i>>].status = "settled"
  BY <1>1, BuyerFacts DEF ProcSound
<1>4. /\ operation' \in [Negotiated -> {"none", "negotiating", "accepted", "completed"}]
      /\ \A s \in Negotiated : operation[s] # "none" => operation'[s] # "none"
      /\ \A s \in Negotiated \ {r} : operation'[s] = operation[s]
  BY <1>1, BuyerFacts
<1>5. OperationsSettled'
  BY <1>1, <1>3, <1>4 DEF BuyersSound, OperationsSettled
<1>6. proc' = [proc EXCEPT ![p] = Resting] /\ ProcSound(p)' /\ ProcsExclude'
  BY <1>1, Rests
<1> QED BY <1>2, <1>4, <1>5, <1>6, RestingIsRecord, BuyerFacts, ProcMoves

LEMMA NegotiationSound ==
  ASSUME ServiceSound, BuyersSound, ElseBought, NEW p \in Procs, Negotiation(p)
  PROVE  ServiceSound' /\ BuyersSound'
<1>1. UNCHANGED <<payments, posted, journal, lock, authorised>>
  BY DEF Negotiation
<1> QED BY <1>1, NegotiateSound, ProposeSound, AgreeSound, CompleteSound DEF Negotiation

-----------------------------------------------------------------------------
(* Purchases.                                                              *)

\* A process writes the journal it holds, or one that is not there yet: what others know
\* of theirs stays.
LEMMA OthersKept ==
  ASSUME ServiceSound, BuyersSound, UNCHANGED <<wanted, offers, operation>>,
         NEW p \in Procs, ~Idle(p), proc[p].at \in Holding \/ journal[Key(p)].status = "none",
         NEW j, journal' = [journal EXCEPT ![Key(p)] = j],
         \A q \in Procs \ {p} : proc'[q] = proc[q],
         \A r \in TokenRuns : r # proc[p].run => lock'[r] = lock[r]
  PROVE  \A q \in Procs \ {p} : ProcSound(q)'
<1> SUFFICES ASSUME NEW q \in Procs, q # p PROVE ProcSound(q)'
  OBVIOUS
<1>1. /\ Key(p) = <<proc[p].run, proc[p].offer>> /\ Key(p) \in Runs \X (0 .. MaxOffers)
      /\ Key(q) = <<proc[q].run, proc[q].offer>> /\ Key(q) \in Runs \X (0 .. MaxOffers)
      /\ proc[q].run \in Runs
  BY KeyFacts
<1>2. OffersGrow
  BY DEF OffersGrow
<1>3. CASE Idle(q)
  BY <1>2, <1>3, ProcKept
<1>4. CASE ~Idle(q)
  <2>1. proc[q].run = proc[p].run => proc[q].run \notin Negotiated \cup TokenRuns
    BY <1>4 DEF BuyersSound, ProcsExclude
  <2>2. proc[q].at \in Holding => Key(q) # Key(p)
    <3>1. proc[q].at \in Holding => journal[Key(q)].status # "none"
      BY <1>1, BuyerFacts DEF ProcSound, Holding
    <3> QED BY <1>4, <3>1 DEF BuyersSound, ProcsExclude
  <2>3. journal'[Key(q)] = journal[Key(q)] \/ proc[q].at \notin Holding
    BY <1>1, <2>2, BuyerFacts
  <2>4. proc[q].run \in Negotiated =>
          /\ operation'[proc[q].run] # "none"
          /\ \A k \in 0 .. MaxOffers : journal'[<<proc[q].run, k>>] = journal[<<proc[q].run, k>>]
    <3>1. proc[q].run \in Negotiated => operation[proc[q].run] # "none"
      BY <1>4, BuyerFacts DEF ProcSound, Idle
    <3> QED BY <1>1, <2>1, <3>1, BuyerFacts
  <2>5. proc[q].run \in TokenRuns => lock'[proc[q].run] = lock[proc[q].run]
    BY <2>1
  <2> QED BY <1>2, <1>4, <2>3, <2>4, <2>5, ProcKept
<1> QED BY <1>3, <1>4

\* The other journals of a negotiated purchase are not there.
LEMMA OneJournal ==
  ASSUME BuyersSound, NEW p \in Procs, proc[p].at \in Holding \cup {"buying"},
         proc[p].run \in Negotiated, NEW k \in 0 .. MaxOffers, k # proc[p].offer
  PROVE  journal[<<proc[p].run, k>>].status = "none" /\ operation[proc[p].run] # "none"
<1>1. ProcSound(p) /\ proc[p].run \notin TokenRuns
  BY BuyerFacts, RunFacts
<1>2. operation[proc[p].run] # "none"
  BY <1>1 DEF ProcSound, Holding
<1>3. CASE proc[p].at = "buying"
  BY <1>1, <1>2, <1>3 DEF ProcSound, Early
<1>4. CASE proc[p].at \in Holding
  <2>1. journal[<<proc[p].run, proc[p].offer>>].status # "none"
    BY <1>1, <1>4 DEF ProcSound, Holding
  <2>2. JournalSound(proc[p].run, k) /\ proc[p].offer \in 0 .. MaxOffers
    BY KeyFacts, BuyerFacts
  <2> QED BY <1>2, <2>1, <2>2 DEF JournalSound
<1> QED BY <1>3, <1>4

LEMMA JournalMoves ==
  ASSUME ServiceSound, BuyersSound, UNCHANGED <<wanted, row, transferred, offers, operation, authorised>>,
         NEW p \in Procs, NEW x \in ProcRecords, proc' = [proc EXCEPT ![p] = x],
         proc[p].at \in Holding \cup {"buying"},
         proc[p].at \in Holding \/ journal[Key(p)].status = "none",
         PaymentsGrow, NEW j \in JournalRecords(DOMAIN payments'),
         journal' = [journal EXCEPT ![Key(p)] = j],
         journal[Key(p)].status # "settled" \/ j.status = "settled",
         j.tx # 0 <=> j.status \in {"signed", "received", "settled"},
         j.tx # 0 => payments'[j.tx].run = proc[p].run /\ payments'[j.tx].offer = proc[p].offer,
         j.status \in {"received", "settled"} => row[j.tx] = "settled" /\ j.tx \in transferred,
         lock' \in [TokenRuns -> {"free", "held", "dead"}],
         \A r \in TokenRuns : r # proc[p].run => lock'[r] = lock[r],
         \A t \in DOMAIN payments' : PaymentSound(t)', ProcSound(p)', ProcsExclude'
  PROVE  BuyersSound'
<1>1. /\ Key(p) = <<proc[p].run, proc[p].offer>> /\ Key(p) \in Runs \X (0 .. MaxOffers)
      /\ proc[p].run \in Runs /\ proc[p].offer \in 0 .. MaxOffers
  BY KeyFacts
<1>2. /\ proc' \in [Procs -> ProcRecords] /\ proc'[p] = x
      /\ \A q \in Procs \ {p} : proc'[q] = proc[q]
  BY BuyerFacts
<1>3. /\ journal' \in [Runs \X (0 .. MaxOffers) -> JournalRecords(DOMAIN payments')]
      /\ journal'[Key(p)] = j
      /\ \A k \in Runs \X (0 .. MaxOffers) : k # Key(p) => journal'[k] = journal[k]
  <2>1. DOMAIN payments \subseteq DOMAIN payments'
    BY DEF PaymentsGrow
  <2>2. journal \in [Runs \X (0 .. MaxOffers) -> JournalRecords(DOMAIN payments')]
    <3>1. JournalRecords(DOMAIN payments) \subseteq JournalRecords(DOMAIN payments')
      BY <2>1 DEF JournalRecords
    <3> QED BY <3>1, BuyerFacts
  <2> QED BY <1>1, <2>2
<1>4. BuyerTypeOK'
  BY <1>2, <1>3, BuyerFacts DEF BuyerTypeOK, ProcRecords, Journals, JournalRecords
<1>5. OperationsSettled'
  <2>1. ASSUME NEW r \in Runs, NEW i \in 0 .. MaxOffers, journal[<<r, i>>].status = "settled"
        PROVE  journal'[<<r, i>>].status = "settled"
    <3>1. CASE <<r, i>> = Key(p)
      BY <1>3, <2>1, <3>1
    <3>2. CASE <<r, i>> # Key(p)
      BY <1>3, <2>1, <3>2
    <3> QED BY <3>1, <3>2
  <2>2. Negotiated \subseteq Runs /\ DOMAIN offers \subseteq 0 .. MaxOffers
    BY RunFacts, ServiceFacts
  <2> QED BY <2>1, <2>2 DEF BuyersSound, OperationsSettled
<1>6. ASSUME NEW r \in Runs, NEW i \in 0 .. MaxOffers PROVE JournalSound(r, i)'
  <2>1. JournalSound(r, i) /\ JournalSound(proc[p].run, proc[p].offer)
    BY <1>1, BuyerFacts
  <2>2. CASE <<r, i>> = Key(p)
    <3>1. r = proc[p].run /\ i = proc[p].offer /\ journal'[<<r, i>>] = j
      BY <1>1, <1>3, <2>2
    <3>2. j.status # "none" /\ r \in Negotiated =>
            /\ operation'[r] # "none"
            /\ \A k \in 0 .. MaxOffers : journal'[<<r, k>>].status # "none" => k = i
      <4>1. ASSUME NEW k \in 0 .. MaxOffers, k # i, r \in Negotiated
            PROVE  journal'[<<r, k>>].status = "none" /\ operation[r] # "none"
        BY <1>1, <1>3, <3>1, <4>1, OneJournal
      <4>2. r \in Negotiated => operation[r] # "none"
        <5>1. ProcSound(p)
          BY BuyerFacts
        <5> QED BY <3>1, <5>1 DEF ProcSound, Holding
      <4> QED BY <4>1, <4>2
    <3> QED BY <3>1, <3>2 DEF JournalSound
  <2>3. CASE <<r, i>> # Key(p)
    <3>1. journal'[<<r, i>>] = journal[<<r, i>>] /\ journal[<<r, i>>].tx \in {0} \cup DOMAIN payments
      BY <1>3, <2>3, BuyerFacts DEF JournalRecords
    <3>2. journal[<<r, i>>].status # "none" /\ r \in Negotiated =>
            \A k \in 0 .. MaxOffers : journal'[<<r, k>>].status # "none" => k = i
      <4>1. CASE r = proc[p].run
        <5>1. i # proc[p].offer
          BY <1>1, <2>3, <4>1
        <5> QED BY <4>1, <5>1, OneJournal
      <4>2. CASE r # proc[p].run
        <5>1. \A k \in 0 .. MaxOffers : journal'[<<r, k>>] = journal[<<r, k>>]
          BY <1>1, <1>3, <4>2
        <5> QED BY <2>1, <5>1 DEF JournalSound
      <4> QED BY <4>1, <4>2
    <3> QED BY <2>1, <3>1, <3>2 DEF JournalSound, PaymentsGrow
  <2> QED BY <2>2, <2>3
<1>7. \A q \in Procs : ProcSound(q)'
  <2>1. ~Idle(p)
    BY DEF Idle, Holding
  <2>2. \A q \in Procs \ {p} : ProcSound(q)'
    BY <1>2, <2>1, OthersKept
  <2> QED BY <2>2
<1> QED BY <1>4, <1>5, <1>6, <1>7 DEF BuyersSound

\* A journal's status is noted, for the transfer it names.
LEMMA NoteSound ==
  ASSUME ServiceSound, BuyersSound, ElseBought,
         UNCHANGED <<payments, posted, offers, operation, authorised>>,
         NEW p \in Procs, NEW x \in ProcRecords, proc' = [proc EXCEPT ![p] = x],
         proc[p].at \in Holding \cup {"buying"},
         proc[p].at \in Holding \/ journal[Key(p)].status = "none",
         NEW status \in Status \ {"none"}, Note(Key(p), status),
         journal[Key(p)].status # "settled" \/ status = "settled",
         journal[Key(p)].tx # 0 <=> status \in {"signed", "received", "settled"},
         status \in {"received", "settled"} =>
           row[journal[Key(p)].tx] = "settled" /\ journal[Key(p)].tx \in transferred,
         lock' \in [TokenRuns -> {"free", "held", "dead"}],
         \A r \in TokenRuns : r # proc[p].run => lock'[r] = lock[r],
         journal'[Key(p)].status = status => ProcSound(p)',
         ProcsExclude'
  PROVE  ServiceSound' /\ BuyersSound'
<1> DEFINE k == Key(p)
           j == [status |-> status, tx |-> journal[k].tx]
<1>1. /\ Key(p) = <<proc[p].run, proc[p].offer>> /\ k \in Runs \X (0 .. MaxOffers)
      /\ journal[k] \in JournalRecords(DOMAIN payments)
      /\ JournalSound(proc[p].run, proc[p].offer)
  BY KeyFacts
<1>2. ServiceSound' /\ OffersGrow /\ UNCHANGED <<wanted, row, transferred>>
  BY ServiceFacts, ServiceRests
<1>3. journal' = [journal EXCEPT ![k] = j]
  <2>1. [journal[k] EXCEPT !.status = status] = j
    BY <1>1 DEF JournalRecords
  <2>2. journal' = [journal EXCEPT ![k] = [journal[k] EXCEPT !.status = status]]
    BY BuyerFacts DEF Note
  <2> QED BY <2>1, <2>2
<1>4. j \in JournalRecords(DOMAIN payments)
  BY <1>1 DEF JournalRecords
<1>5. /\ journal'[k] = j
      /\ \A h \in Runs \X (0 .. MaxOffers) : journal'[h].tx = journal[h].tx
  BY <1>1, <1>3, BuyerFacts
<1>6. ASSUME NEW t \in DOMAIN payments' PROVE PaymentSound(t)'
  <2>1. t \in DOMAIN payments /\ PaymentSound(t) /\ payments[t] \in Payment
    BY BuyerFacts, ServiceFacts
  <2>2. journal'[<<payments[t].run, payments[t].offer>>].tx = t
    BY <1>5, <2>1 DEF PaymentSound, Payment
  <2> QED BY <1>2, <2>1, <2>2 DEF PaymentSound
<1>7. PaymentsGrow
  BY DEF PaymentsGrow
<1>8. /\ j.status = status /\ j.tx = journal[k].tx /\ j \in JournalRecords(DOMAIN payments')
      /\ j.tx # 0 => payments'[j.tx].run = proc[p].run /\ payments'[j.tx].offer = proc[p].offer
  BY <1>1, <1>4 DEF JournalSound
<1>9. ProcSound(p)'
  BY <1>5, <1>8
<1> HIDE DEF j, k
<1> QED BY <1>2, <1>3, <1>6, <1>7, <1>8, <1>9, JournalMoves DEF k

\* A process that goes on stays apart from the others.
LEMMA GoesOn ==
  ASSUME BuyersSound, NEW p \in Procs, proc[p].at \in Holding, NEW at \in Holding, At(p, at)
  PROVE  /\ proc' = [proc EXCEPT ![p] = Moved(p, at, proc[p].offer, proc[p].amount)]
         /\ Moved(p, at, proc[p].offer, proc[p].amount) \in ProcRecords
         /\ proc'[p].at = at /\ proc'[p].run = proc[p].run
         /\ proc'[p].offer = proc[p].offer /\ proc'[p].amount = proc[p].amount
         /\ ProcsExclude'
<1>1. at \in Steps /\ ~Idle(p)
  BY DEF Holding, Steps, Idle
<1>2. /\ proc' = [proc EXCEPT ![p] = Moved(p, at, proc[p].offer, proc[p].amount)]
      /\ Moved(p, at, proc[p].offer, proc[p].amount) \in ProcRecords
      /\ proc'[p].at = at /\ proc'[p].run = proc[p].run
      /\ proc'[p].offer = proc[p].offer /\ proc'[p].amount = proc[p].amount
      /\ \A q \in Procs \ {p} : proc'[q] = proc[q]
  BY <1>1, MovedTo
<1> QED BY <1>1, <1>2, StillExclude

\* The journal is created exclusively.
LEMMA IntendSound ==
  ASSUME ServiceSound, BuyersSound, ElseBought, NEW p \in Procs, Intend(p) \/ TokenIntend(p),
         UNCHANGED <<offers, operation, authorised>>
  PROVE  ServiceSound' /\ BuyersSound'
<1>1. /\ proc[p].at = "buying" /\ journal[Key(p)].status = "none"
      /\ Note(Key(p), "intent") /\ At(p, "intended")
      /\ UNCHANGED <<payments, posted, lock>>
  BY DEF Intend, TokenIntend, Working
<1>2. /\ proc' = [proc EXCEPT ![p] = Moved(p, "intended", proc[p].offer, proc[p].amount)]
      /\ Moved(p, "intended", proc[p].offer, proc[p].amount) \in ProcRecords
      /\ proc'[p].at = "intended" /\ proc'[p].run = proc[p].run
      /\ proc'[p].offer = proc[p].offer /\ proc'[p].amount = proc[p].amount
      /\ \A q \in Procs \ {p} : proc'[q] = proc[q]
  BY <1>1, MovedTo DEF Steps
<1>3. /\ ProcSound(p) /\ JournalSound(proc[p].run, proc[p].offer)
      /\ Key(p) = <<proc[p].run, proc[p].offer>>
  BY KeyFacts
<1>4. ProcsExclude'
  <2>1. ASSUME NEW q \in Procs \ {p}, ~Idle(q)
        PROVE  /\ proc[q].run = proc[p].run => proc[q].run \notin Negotiated \cup TokenRuns
               /\ proc[q].at \in Holding => Key(q) # Key(p)
    <3>1. proc[q].run = proc[p].run => proc[q].run \notin Negotiated \cup TokenRuns
      BY <1>1, <2>1 DEF BuyersSound, ProcsExclude, Idle
    <3>2. proc[q].at \in Holding => journal[Key(q)].status # "none"
      BY KeyFacts DEF ProcSound, Holding
    <3> QED BY <1>1, <3>1, <3>2
  <2> QED BY <1>2, <1>3, <2>1, NewlyExclude
<1>5. journal[Key(p)].tx = 0
  BY <1>1, <1>3 DEF JournalSound
<1>6. UNCHANGED wanted
  BY DEF ElseBought
<1>7. journal'[Key(p)].status = "intent" => ProcSound(p)'
  BY <1>1, <1>2, <1>3, <1>6 DEF ProcSound, Early
<1> QED BY <1>1, <1>2, <1>4, <1>5, <1>7, BuyerFacts, NoteSound DEF Status

\* Where a journal says signed, it names a transfer of the purchase.
LEMMA HeldTx ==
  ASSUME ServiceSound, BuyersSound, NEW p \in Procs,
         journal[Key(p)].status \in {"signed", "received", "settled"}
  PROVE  journal[Key(p)].tx \in DOMAIN payments /\ journal[Key(p)].tx \in Txs
         /\ journal[Key(p)].tx # 0
<1>1. journal[Key(p)].tx # 0 /\ journal[Key(p)].tx \in {0} \cup DOMAIN payments
  BY KeyFacts DEF JournalSound
<1> QED BY <1>1, ServiceFacts

LEMMA SettledSound ==
  ASSUME ServiceSound, BuyersSound, ElseBought, NEW p \in Procs, Settled(p),
         UNCHANGED <<offers, operation, authorised>>
  PROVE  ServiceSound' /\ BuyersSound'
<1>1. /\ proc[p].at = "sent" /\ proc[p].run \in Native /\ Note(Key(p), "settled")
      /\ Answered(journal[Key(p)].tx) /\ Mirrored(journal[Key(p)].tx)
      /\ UNCHANGED <<payments, posted, lock>>
  BY DEF Settled, Working
<1>2. journal[Key(p)].status = "signed" /\ ProcSound(p)
  BY <1>1, KeyFacts DEF ProcSound
<1>3. /\ journal[Key(p)].tx # 0 /\ row[journal[Key(p)].tx] = "settled"
      /\ journal[Key(p)].tx \in transferred
  BY <1>1, <1>2, HeldTx, ServiceFacts DEF Answered, Mirrored, RowSound
<1>4. CASE proc[p].run \in Negotiated
  <2>1. At(p, "bought")
    BY <1>4 DEF Settled
  <2>2. /\ proc' = [proc EXCEPT ![p] = Moved(p, "bought", proc[p].offer, proc[p].amount)]
        /\ Moved(p, "bought", proc[p].offer, proc[p].amount) \in ProcRecords
        /\ proc'[p].at = "bought" /\ proc'[p].run = proc[p].run
        /\ proc'[p].offer = proc[p].offer /\ proc'[p].amount = proc[p].amount
        /\ ProcsExclude'
    BY <1>1, <2>1, GoesOn DEF Holding
  <2>3. UNCHANGED wanted /\ Key(p) = <<proc[p].run, proc[p].offer>>
    BY KeyFacts DEF ElseBought
  <2>4. journal'[Key(p)].status = "settled" => ProcSound(p)'
    BY <1>1, <1>2, <1>4, <2>2, <2>3 DEF ProcSound, Early
  <2> QED BY <1>1, <1>2, <1>3, <2>2, <2>4, BuyerFacts, NoteSound DEF Status, Holding
<1>5. CASE proc[p].run \notin Negotiated
  <2>1. Rest(p)
    BY <1>5 DEF Settled
  <2>2. proc' = [proc EXCEPT ![p] = Resting] /\ ProcSound(p)' /\ ProcsExclude'
    BY <2>1, Rests
  <2> QED BY <1>1, <1>2, <1>3, <2>2, BuyerFacts, RestingIsRecord, NoteSound DEF Status, Holding
<1> QED BY <1>4, <1>5

\* The lock is still this process's when the answer is saved.
LEMMA TokenReceivedSound ==
  ASSUME ServiceSound, BuyersSound, ElseBought, NEW p \in Procs, TokenReceived(p),
         UNCHANGED <<offers, operation, authorised>>
  PROVE  ServiceSound' /\ BuyersSound'
<1>1. /\ proc[p].at = "sent" /\ proc[p].run \in TokenRuns /\ Note(Key(p), "received")
      /\ Received(journal[Key(p)].tx) /\ At(p, "received")
      /\ UNCHANGED <<payments, posted, lock>>
  BY DEF TokenReceived, Working
<1>2. journal[Key(p)].status = "signed" /\ ProcSound(p)
  BY <1>1, KeyFacts DEF ProcSound
<1>3. /\ journal[Key(p)].tx # 0 /\ row[journal[Key(p)].tx] = "settled"
      /\ journal[Key(p)].tx \in transferred
  BY <1>1, <1>2, HeldTx, ServiceFacts DEF Received, RowSound
<1>4. /\ proc' = [proc EXCEPT ![p] = Moved(p, "received", proc[p].offer, proc[p].amount)]
      /\ Moved(p, "received", proc[p].offer, proc[p].amount) \in ProcRecords
      /\ proc'[p].at = "received" /\ proc'[p].run = proc[p].run
      /\ proc'[p].offer = proc[p].offer /\ proc'[p].amount = proc[p].amount
      /\ ProcsExclude'
  BY <1>1, GoesOn DEF Holding
<1>5. UNCHANGED wanted /\ Key(p) = <<proc[p].run, proc[p].offer>>
      /\ proc[p].run \notin Negotiated
  BY <1>1, KeyFacts, RunFacts DEF ElseBought
<1>6. journal'[Key(p)].status = "received" => ProcSound(p)'
  BY <1>1, <1>2, <1>4, <1>5 DEF ProcSound
<1> QED BY <1>1, <1>2, <1>3, <1>4, <1>6, BuyerFacts, NoteSound DEF Status, Holding

\* After the answer, or by recovery; the lock is given back.
LEMMA TokenEndsSound ==
  ASSUME ServiceSound, BuyersSound, ElseBought, NEW p \in Procs, TokenSettled(p) \/ Recover(p),
         UNCHANGED <<offers, operation, authorised>>
  PROVE  ServiceSound' /\ BuyersSound'
<1>1. /\ proc[p].at \in {"received", "recovering"} /\ proc[p].run \in TokenRuns
      /\ Note(Key(p), "settled") /\ TokenMirrored(journal[Key(p)].tx) /\ Rest(p)
      /\ proc[p].at = "recovering" =>
           journal[Key(p)].status = "received" \/ StoredReceipt(journal[Key(p)].tx)
      /\ lock' = [lock EXCEPT ![proc[p].run] = "free"]
      /\ UNCHANGED <<payments, posted>>
  BY DEF TokenSettled, Recover, Working
<1>2. journal[Key(p)].status \in {"signed", "received"}
      /\ (proc[p].at = "received" => journal[Key(p)].status = "received")
  BY <1>1, KeyFacts DEF ProcSound
<1>3. /\ journal[Key(p)].tx # 0 /\ row[journal[Key(p)].tx] = "settled"
      /\ journal[Key(p)].tx \in transferred
  BY <1>1, <1>2, HeldTx, KeyFacts DEF TokenMirrored, StoredReceipt, JournalSound
<1>4. proc' = [proc EXCEPT ![p] = Resting] /\ ProcSound(p)' /\ ProcsExclude'
  BY <1>1, Rests
<1>5. /\ lock' \in [TokenRuns -> {"free", "held", "dead"}]
      /\ \A r \in TokenRuns : r # proc[p].run => lock'[r] = lock[r]
  BY <1>1, BuyerFacts
<1> QED BY <1>1, <1>2, <1>3, <1>4, <1>5, RestingIsRecord, NoteSound DEF Status, Holding

\* A new purchase is taken up.
LEMMA BeginSound ==
  ASSUME ServiceSound, BuyersSound, ElseBought,
         UNCHANGED <<offers, operation, authorised, payments, posted, journal>>,
         NEW p \in Procs, Idle(p), NEW x \in ProcRecords, proc' = [proc EXCEPT ![p] = x],
         x.offer = 0, x.run \in wanted \ Negotiated,
         \/ x.at = "buying"
         \/ /\ x.at = "recovering" /\ x.run \in TokenRuns
            /\ journal[<<x.run, 0>>].status \in {"signed", "received"},
         x.amount <= Allowance[x.run],
         x.run \in TokenRuns => Acquire(x.run),
         x.run \notin TokenRuns => UNCHANGED lock
  PROVE  ServiceSound' /\ BuyersSound'
<1>1. ServiceSound' /\ OffersGrow /\ UNCHANGED <<wanted, row, transferred>>
  BY ServiceFacts, ServiceRests
<1>2. proc'[p] = x /\ \A q \in Procs \ {p} : proc'[q] = proc[q]
  BY BuyerFacts
<1>3. /\ lock' \in [TokenRuns -> {"free", "held", "dead"}]
      /\ x.run \in TokenRuns => lock[x.run] # "held" /\ lock'[x.run] = "held"
      /\ \A r \in TokenRuns : r # x.run => lock'[r] = lock[r]
  <2>1. CASE x.run \in TokenRuns
    <3>1. lock[x.run] # "held" /\ lock' = [lock EXCEPT ![x.run] = "held"]
      BY <2>1 DEF Acquire
    <3> QED BY <2>1, <3>1, BuyerFacts
  <2>2. CASE x.run \notin TokenRuns
    BY <2>2, BuyerFacts
  <2> QED BY <2>1, <2>2
<1>4. ASSUME NEW q \in Procs \ {p}, ~Idle(q), proc[q].run = x.run
      PROVE  x.run \notin TokenRuns
  <2>1. ProcSound(q)
    BY BuyerFacts
  <2>2. x.run \in TokenRuns => lock[x.run] = "held"
    BY <1>4, <2>1 DEF ProcSound, Idle
  <2> QED BY <1>3, <2>2
<1>5. ProcSound(p)'
  BY <1>1, <1>2, <1>3, RunFacts DEF ProcSound
<1>6. ProcsExclude'
  <2>1. \A q \in Procs \ {p} : ~Idle(q) /\ x.at \in Holding => Key(q) # <<x.run, x.offer>>
    <3>1. x.at \in Holding => x.run \in TokenRuns
      BY DEF Holding
    <3> QED BY <1>4, <3>1 DEF Key
  <2> QED BY <1>2, <1>4, <2>1, NewlyExclude
<1>7. OperationsSettled'
  BY DEF BuyersSound, OperationsSettled
<1>8. \A q \in Procs \ {p} : ~Idle(q) /\ proc[q].run \in TokenRuns =>
        lock'[proc[q].run] = lock[proc[q].run]
  BY <1>3, <1>4
<1> QED BY <1>1, <1>3, <1>5, <1>6, <1>7, <1>8, BuyerFacts, ProcMoves

LEMMA OpenSound ==
  ASSUME ServiceSound, BuyersSound, ElseBought, NEW p \in Procs, NEW r \in Runs, Open(p, r),
         UNCHANGED <<offers, operation, authorised>>
  PROVE  ServiceSound' /\ BuyersSound'
<1> DEFINE x == [at |-> "buying", run |-> r, offer |-> 0, amount |-> Quote(r)]
<1>1. /\ Idle(p) /\ r \in wanted /\ r \in Native \ Negotiated /\ Affordable(r)
      /\ proc' = [proc EXCEPT ![p] = x]
      /\ UNCHANGED <<payments, posted, journal, lock>>
  BY DEF Open, Begun
<1>2. Quote(r) \in Nat /\ r \notin TokenRuns /\ 0 \in 0 .. MaxOffers
  BY <1>1, RunFacts DEF Quote, ServiceSound, ServiceTypeOK, Native
<1>3. x \in ProcRecords
  BY <1>2 DEF ProcRecords, Steps
<1>4. /\ x.at = "buying" /\ x.run = r /\ x.offer = 0 /\ x.amount = Quote(r)
  OBVIOUS
<1> HIDE DEF x
<1> QED BY <1>1, <1>2, <1>3, <1>4, BeginSound DEF Affordable

LEMMA TokenBeginSound ==
  ASSUME ServiceSound, BuyersSound, ElseBought, NEW p \in Procs, NEW r \in Runs, TokenBegin(p, r),
         UNCHANGED <<offers, operation, authorised>>
  PROVE  ServiceSound' /\ BuyersSound'
<1> DEFINE x(at) == [at |-> at, run |-> r, offer |-> 0, amount |-> TokenPrice]
<1>1. PICK at \in {"buying", "recovering"} :
        /\ proc' = [proc EXCEPT ![p] = x(at)]
        /\ at = "recovering" => journal[<<r, 0>>].status \in {"signed", "received"}
  BY DEF TokenBegin
<1>2. /\ Idle(p) /\ r \in wanted /\ r \in TokenRuns /\ Acquire(r) /\ Bounded(r)
      /\ UNCHANGED <<payments, posted, journal>>
  BY DEF TokenBegin, Begun
<1>3. x(at) \in ProcRecords
  BY RunFacts DEF ProcRecords, Steps
<1>4. x(at).at = at /\ x(at).run = r /\ x(at).offer = 0 /\ x(at).amount = TokenPrice
  OBVIOUS
<1>5. r \notin Negotiated
  BY <1>2, RunFacts
<1> HIDE DEF x
<1> QED BY <1>1, <1>2, <1>3, <1>4, <1>5, BeginSound DEF Bounded

\* The transfer is signed for the terms in memory, and named by the journal.
LEMMA SignSound ==
  ASSUME ServiceSound, BuyersSound, ElseBought, NEW p \in Procs, Sign(p) \/ TokenSign(p),
         UNCHANGED <<offers, operation, authorised>>
  PROVE  ServiceSound' /\ BuyersSound'
<1> DEFINE n == Len(payments) + 1
           y == [run |-> proc[p].run, offer |-> proc[p].offer, amount |-> proc[p].amount]
           j == [status |-> "signed", tx |-> n]
<1>1. /\ proc[p].at = "intended" /\ Len(payments) < MaxSigned
      /\ payments' = Append(payments, y) /\ journal' = [journal EXCEPT ![Key(p)] = j]
      /\ At(p, "signed") /\ UNCHANGED <<posted, lock>>
  BY DEF Sign, TokenSign, SaveSigned, Working
<1>2. /\ proc[p].run \in Runs /\ proc[p].offer \in 0 .. MaxOffers /\ proc[p].amount \in Nat
      /\ Key(p) = <<proc[p].run, proc[p].offer>> /\ Key(p) \in Runs \X (0 .. MaxOffers)
      /\ ProcSound(p) /\ JournalSound(proc[p].run, proc[p].offer)
  BY KeyFacts
<1>3. y \in Payment
  BY <1>2 DEF Payment
<1>4. y.run = proc[p].run /\ y.offer = proc[p].offer /\ y.amount = proc[p].amount
      /\ j.status = "signed" /\ j.tx = n
  OBVIOUS
<1> HIDE DEF y, j
<1>5. /\ payments' \in Seq(Payment) /\ Len(payments') = n /\ DOMAIN payments' = 1 .. n
      /\ payments'[n] = y /\ \A t \in DOMAIN payments : payments'[t] = payments[t]
      /\ DOMAIN payments = 1 .. n - 1 /\ n \in Nat /\ n # 0
  BY <1>1, <1>3, ServiceFacts
<1> HIDE DEF n
<1>6. DOMAIN payments \subseteq DOMAIN payments' /\ n \in DOMAIN payments'
      /\ \A t \in DOMAIN payments' : t = n \/ t \in DOMAIN payments
  BY <1>5
<1>7. OffersGrow /\ PaymentsGrow
  BY <1>5, <1>6 DEF OffersGrow, PaymentsGrow
<1>8. ServiceSound'
  <2>1. Len(payments') <= MaxSigned
    BY <1>1, <1>5, ServiceFacts DEF n
  <2> QED BY <1>1, <1>5, <1>6, <1>7, <2>1, ServiceFacts, ServiceGrows
<1>9. UNCHANGED <<wanted, row, transferred>>
  BY DEF ElseBought, serviceVars
<1>10. /\ proc' = [proc EXCEPT ![p] = Moved(p, "signed", proc[p].offer, proc[p].amount)]
       /\ Moved(p, "signed", proc[p].offer, proc[p].amount) \in ProcRecords
       /\ proc'[p].at = "signed" /\ proc'[p].run = proc[p].run
       /\ proc'[p].offer = proc[p].offer /\ proc'[p].amount = proc[p].amount
       /\ ProcsExclude'
  BY <1>1, GoesOn DEF Holding
<1>11. journal[Key(p)].status = "intent" /\ journal[Key(p)].tx = 0
  BY <1>1, <1>2 DEF ProcSound, JournalSound
<1>12. /\ journal'[Key(p)] = j
       /\ \A k \in Runs \X (0 .. MaxOffers) : k # Key(p) => journal'[k] = journal[k]
  BY <1>1, <1>2, BuyerFacts
<1>13. j \in JournalRecords(DOMAIN payments')
  BY <1>6 DEF j, JournalRecords, Status
<1>14. ASSUME NEW t \in DOMAIN payments' PROVE PaymentSound(t)'
  <2>1. CASE t = n
    <3>1. payments'[t] = y /\ journal'[<<y.run, y.offer>>].tx = t
      BY <1>2, <1>4, <1>5, <1>12, <2>1
    <3>2. y.amount <= Allowance[y.run]
      BY <1>1, <1>2, <1>4 DEF ProcSound
    <3>3. y.offer = 0 => y.run \notin Negotiated
      BY <1>1, <1>2, <1>4, ServiceFacts DEF ProcSound
    <3>4. y.offer # 0 => /\ y.run \in Negotiated \cap wanted /\ y.offer \in DOMAIN offers
                         /\ offers[y.offer].run = y.run /\ offers[y.offer].amount = y.amount
      BY <1>1, <1>2, <1>4 DEF ProcSound
    <3> QED BY <1>9, <3>1, <3>2, <3>3, <3>4 DEF PaymentSound
  <2>2. CASE t # n
    <3>1. /\ t \in DOMAIN payments /\ payments'[t] = payments[t] /\ PaymentSound(t)
          /\ payments[t] \in Payment /\ t # 0
      BY <1>5, <1>6, <2>2, BuyerFacts, ServiceFacts
    <3>2. <<payments[t].run, payments[t].offer>> # Key(p)
      BY <1>11, <3>1 DEF PaymentSound
    <3>3. journal'[<<payments[t].run, payments[t].offer>>].tx = t
      BY <1>12, <3>1, <3>2 DEF PaymentSound, Payment
    <3> QED BY <1>9, <3>1, <3>3 DEF PaymentSound
  <2> QED BY <2>1, <2>2
<1>15. ProcSound(p)'
  <2>1. journal'[<<proc[p].run, proc[p].offer>>].status = "signed"
    BY <1>2, <1>4, <1>12
  <2> QED BY <1>1, <1>2, <1>9, <1>10, <2>1 DEF ProcSound, Early
<1>16. proc[p].at \in Holding
  BY <1>1 DEF Holding
<1>17. /\ j.tx # 0 <=> j.status \in {"signed", "received", "settled"}
       /\ j.tx # 0 => payments'[j.tx].run = proc[p].run /\ payments'[j.tx].offer = proc[p].offer
       /\ j.status \in {"received", "settled"} => row[j.tx] = "settled" /\ j.tx \in transferred
  BY <1>4, <1>5
<1>18. journal[Key(p)].status # "settled" /\ journal' = [journal EXCEPT ![Key(p)] = j]
  BY <1>1, <1>11
<1>19. /\ lock' \in [TokenRuns -> {"free", "held", "dead"}]
       /\ \A r \in TokenRuns : r # proc[p].run => lock'[r] = lock[r]
  BY <1>1, BuyerFacts
<1>20. BuyersSound'
  BY <1>7, <1>9, <1>10, <1>13, <1>14, <1>15, <1>16, <1>17, <1>18, <1>19, JournalMoves
<1> QED BY <1>8, <1>20

\* Only what the journal names is sent.
LEMMA SendSound ==
  ASSUME ServiceSound, BuyersSound, ElseBought, NEW p \in Procs, Send(p) \/ TokenSend(p),
         UNCHANGED <<offers, operation, authorised>>
  PROVE  ServiceSound' /\ BuyersSound'
<1>1. /\ proc[p].at = "signed" /\ posted' = posted \cup {journal[Key(p)].tx} /\ At(p, "sent")
      /\ UNCHANGED <<payments, journal, lock>>
  BY DEF Send, TokenSend, Working
<1>2. ProcSound(p) /\ journal[Key(p)].status = "signed" /\ Key(p) = <<proc[p].run, proc[p].offer>>
  BY <1>1, KeyFacts DEF ProcSound
<1>3. ServiceSound' /\ OffersGrow /\ UNCHANGED <<wanted, row, transferred>>
  <2>1. posted \subseteq posted' /\ posted' \subseteq DOMAIN payments
    BY <1>1, <1>2, HeldTx, ServiceFacts
  <2> QED BY <1>1, <2>1, ServiceRests
<1>4. /\ proc' = [proc EXCEPT ![p] = Moved(p, "sent", proc[p].offer, proc[p].amount)]
      /\ Moved(p, "sent", proc[p].offer, proc[p].amount) \in ProcRecords
      /\ proc'[p].at = "sent" /\ proc'[p].run = proc[p].run
      /\ proc'[p].offer = proc[p].offer /\ proc'[p].amount = proc[p].amount
      /\ ProcsExclude'
  BY <1>1, GoesOn DEF Holding
<1>5. ProcSound(p)'
  BY <1>1, <1>2, <1>3, <1>4 DEF ProcSound, Early
<1>6. OperationsSettled'
  BY <1>1 DEF BuyersSound, OperationsSettled
<1> QED BY <1>1, <1>3, <1>4, <1>5, <1>6, BuyerFacts, ProcMoves

LEMMA StopSound ==
  ASSUME ServiceSound, BuyersSound, ElseBought, NEW p \in Procs, Stop(p),
         UNCHANGED <<offers, operation, authorised>>
  PROVE  ServiceSound' /\ BuyersSound'
<1>1. ~Idle(p) /\ Rest(p) /\ UNCHANGED <<payments, posted, journal>>
  BY DEF Stop
<1>2. ServiceSound' /\ OffersGrow /\ UNCHANGED <<wanted, row, transferred>>
  BY <1>1, ServiceFacts, ServiceRests
<1>3. proc' = [proc EXCEPT ![p] = Resting] /\ ProcSound(p)' /\ ProcsExclude'
  BY <1>1, Rests
<1>4. /\ lock' \in [TokenRuns -> {"free", "held", "dead"}]
      /\ \A r \in TokenRuns : r # proc[p].run => lock'[r] = lock[r]
  <2>1. CASE proc[p].run \in TokenRuns
    <3>1. PICK left \in {"free", "dead"} : lock' = [lock EXCEPT ![proc[p].run] = left]
      BY <2>1 DEF Stop
    <3> QED BY <2>1, <3>1, BuyerFacts
  <2>2. CASE proc[p].run \notin TokenRuns
    BY <2>2, BuyerFacts DEF Stop
  <2> QED BY <2>1, <2>2
<1>5. \A q \in Procs \ {p} : ~Idle(q) /\ proc[q].run \in TokenRuns =>
        lock'[proc[q].run] = lock[proc[q].run]
  BY <1>1, <1>4 DEF BuyersSound, ProcsExclude
<1>6. OperationsSettled'
  BY <1>1 DEF BuyersSound, OperationsSettled
<1> QED BY <1>1, <1>2, <1>3, <1>4, <1>5, <1>6, BuyerFacts, RestingIsRecord, ProcMoves

LEMMA MandateExpiresSound ==
  ASSUME ServiceSound, BuyersSound, NEW r \in Runs, MandateExpires(r)
  PROVE  ServiceSound' /\ BuyersSound'
<1> DEFINE o(i) == IF offers[i].run = r THEN [offers[i] EXCEPT !.live = FALSE] ELSE offers[i]
<1>1. /\ authorised' = authorised \ {r} /\ offers' = [i \in DOMAIN offers |-> o(i)]
      /\ UNCHANGED <<wanted, price, payments, posted, serviceVars, transferred,
                     proc, operation, journal, lock>>
  BY DEF MandateExpires
<1>2. \A i \in DOMAIN offers : /\ o(i) \in Offer
                               /\ o(i).run = offers[i].run /\ o(i).amount = offers[i].amount
  <2>1. \A i \in DOMAIN offers : offers[i] \in Offer
    BY ServiceFacts
  <2> QED BY <2>1 DEF Offer
<1> HIDE DEF o
<1>3. /\ DOMAIN offers' = 1 .. Len(offers)
      /\ \A i \in 1 .. Len(offers) : offers'[i] \in Offer
  BY <1>1, <1>2, ServiceFacts
<1>4. offers' \in Seq(Offer) /\ Len(offers') = Len(offers)
  BY <1>1, <1>3, ServiceFacts
<1>5. OffersGrow /\ PaymentsGrow
  BY <1>1, <1>2 DEF OffersGrow, PaymentsGrow
<1>6. ServiceSound'
  BY <1>1, <1>4, <1>5, ServiceFacts, ServiceGrows DEF ElseBought
<1>7. RowsGrow
  BY <1>1 DEF RowsGrow, serviceVars
<1> QED BY <1>1, <1>5, <1>6, <1>7, BuyerFacts, BuyersKept

LEMMA PurchasesStep ==
  ASSUME ServiceSound, BuyersSound, PurchasesNext
  PROVE  ServiceSound' /\ BuyersSound'
<1>1. CASE Service /\ UNCHANGED buyerVars
  BY <1>1, ServiceStep
<1>2. ASSUME NEW p \in Procs, Negotiation(p), UNCHANGED <<wanted, price, serviceVars, transferred>>
      PROVE  ServiceSound' /\ BuyersSound'
  BY <1>2, NegotiationSound DEF ElseBought
<1>3. ASSUME NEW p \in Procs, Purchase(p), UNCHANGED <<wanted, price, serviceVars, transferred>>
      PROVE  ServiceSound' /\ BuyersSound'
  <2>1. ElseBought /\ UNCHANGED <<offers, operation, authorised>>
    BY <1>3 DEF Purchase, ElseBought
  <2>2. ASSUME NEW r \in Runs, Open(p, r) \/ TokenBegin(p, r) PROVE ServiceSound' /\ BuyersSound'
    BY <2>1, <2>2, OpenSound, TokenBeginSound
  <2>3. CASE Intend(p) \/ TokenIntend(p) \/ Sign(p) \/ TokenSign(p)
    BY <2>1, <2>3, IntendSound, SignSound
  <2>4. CASE Send(p) \/ TokenSend(p) \/ Stop(p)
    BY <2>1, <2>4, SendSound, StopSound
  <2>5. CASE Settled(p) \/ TokenReceived(p) \/ TokenSettled(p) \/ Recover(p)
    BY <2>1, <2>5, SettledSound, TokenReceivedSound, TokenEndsSound
  <2> QED BY <1>3, <2>2, <2>3, <2>4, <2>5 DEF Purchase
<1>4. ASSUME NEW r \in Runs, MandateExpires(r) PROVE ServiceSound' /\ BuyersSound'
  BY <1>4, MandateExpiresSound
<1> QED BY <1>1, <1>2, <1>3, <1>4 DEF PurchasesNext, Buyer

-----------------------------------------------------------------------------
(* What was paid stays paid, and no journal goes back.                     *)

LEMMA PaymentsOnlyGrow ==
  ASSUME ServiceSound, BuyersSound, PurchasesNext
  PROVE  PaymentsGrow /\ RowsGrow /\ transferred \subseteq transferred'
<1>1. CASE Service /\ UNCHANGED buyerVars
  <2>1. CASE ChangePrice \/ \E i \in 1 .. MaxOffers : OfferExpires(i)
    BY <2>1 DEF ChangePrice, OfferExpires, serviceVars, PaymentsGrow, RowsGrow
  <2>2. ASSUME NEW s \in Handlers, Request(s)
        PROVE  PaymentsGrow /\ RowsGrow /\ transferred \subseteq transferred'
    BY <2>2, RequestSound, BuyerFacts DEF ElseServed, PaymentsGrow
  <2>3. ASSUME NEW t \in Txs, Transfer(t)
        PROVE  PaymentsGrow /\ RowsGrow /\ transferred \subseteq transferred'
    BY <2>3 DEF Transfer, serviceVars, PaymentsGrow, RowsGrow
  <2> QED BY <1>1, <2>1, <2>2, <2>3 DEF Service
<1>2. ASSUME NEW p \in Procs, Buyer(p)
      PROVE  PaymentsGrow /\ RowsGrow /\ transferred \subseteq transferred'
  <2>1. RowsGrow /\ transferred \subseteq transferred'
    BY <1>2 DEF Buyer, serviceVars, RowsGrow
  <2>2. CASE UNCHANGED payments
    BY <2>1, <2>2 DEF PaymentsGrow
  <2>3. CASE SaveSigned(p)
    <3>1. /\ payments' = Append(payments, [run |-> proc[p].run, offer |-> proc[p].offer,
                                            amount |-> proc[p].amount])
      BY <2>3 DEF SaveSigned
    <3>2. [run |-> proc[p].run, offer |-> proc[p].offer, amount |-> proc[p].amount] \in Payment
      BY KeyFacts DEF Payment
    <3>3. PaymentsGrow
      BY <3>1, <3>2, ServiceFacts DEF PaymentsGrow
    <3> QED BY <2>1, <3>3
  <2>4. UNCHANGED payments \/ SaveSigned(p)
    BY <1>2 DEF Buyer, Negotiation, Purchase, Open, TokenBegin, Intend, TokenIntend, Sign,
                TokenSign, Send, TokenSend, Settled, TokenReceived, TokenSettled, Recover, Stop
  <2> QED BY <2>2, <2>3, <2>4
<1>3. ASSUME NEW r \in Runs, MandateExpires(r)
      PROVE  PaymentsGrow /\ RowsGrow /\ transferred \subseteq transferred'
  BY <1>3 DEF MandateExpires, serviceVars, PaymentsGrow, RowsGrow
<1> QED BY <1>1, <1>2, <1>3 DEF PurchasesNext

\* One journal moves forward, and all others rest.
LEMMA NotedForward ==
  ASSUME BuyersSound, NEW p \in Procs, NEW status \in Status, Note(Key(p), status),
         Order[journal[Key(p)].status] <= Order[status]
  PROVE  JournalsMoveForward
<1>1. /\ Key(p) \in Runs \X (0 .. MaxOffers)
      /\ \A k \in Runs \X (0 .. MaxOffers) : /\ journal[k] \in JournalRecords(DOMAIN payments)
                                             /\ journal[k].status \in Status
  BY KeyFacts, BuyerFacts DEF JournalRecords
<1>2. journal'[Key(p)] = [journal[Key(p)] EXCEPT !.status = status]
      /\ \A k \in Runs \X (0 .. MaxOffers) : k # Key(p) => journal'[k] = journal[k]
  BY <1>1, BuyerFacts DEF Note
<1>3. journal'[Key(p)].status = status /\ journal'[Key(p)].tx = journal[Key(p)].tx
  BY <1>1, <1>2 DEF JournalRecords
<1>4. \A s \in Status : Order[s] \in Nat
  BY DEF Status, Order
<1> SUFFICES ASSUME NEW k \in Runs \X (0 .. MaxOffers)
             PROVE  /\ Order[journal[k].status] <= Order[journal'[k].status]
                    /\ journal[k].tx # 0 => journal'[k].tx = journal[k].tx
  BY DEF JournalsMoveForward, Journals
<1>5. CASE k = Key(p)
  BY <1>3, <1>5
<1>6. CASE k # Key(p)
  BY <1>1, <1>2, <1>4, <1>6
<1> QED BY <1>5, <1>6

LEMMA RestingForward ==
  ASSUME BuyersSound, UNCHANGED journal
  PROVE  JournalsMoveForward
<1>1. \A k \in Runs \X (0 .. MaxOffers) : journal[k].status \in Status
  BY BuyerFacts DEF JournalRecords
<1>2. \A s \in Status : Order[s] \in Nat
  BY DEF Status, Order
<1> QED BY <1>1, <1>2 DEF JournalsMoveForward, Journals

LEMMA JournalsForward ==
  ASSUME ServiceSound, BuyersSound, PurchasesNext
  PROVE  JournalsMoveForward
<1>1. CASE UNCHANGED journal
  BY <1>1, RestingForward
<1>2. ASSUME NEW p \in Procs, Intend(p) \/ TokenIntend(p) PROVE JournalsMoveForward
  <2>1. journal[Key(p)].status = "none" /\ Note(Key(p), "intent")
    BY <1>2 DEF Intend, TokenIntend
  <2> QED BY <2>1, NotedForward DEF Status, Order
<1>3. ASSUME NEW p \in Procs, TokenReceived(p) PROVE JournalsMoveForward
  <2>1. journal[Key(p)].status = "signed" /\ Note(Key(p), "received")
    BY <1>3, KeyFacts DEF TokenReceived, Working, ProcSound
  <2> QED BY <2>1, NotedForward DEF Status, Order
<1>4. ASSUME NEW p \in Procs, Settled(p) \/ TokenSettled(p) \/ Recover(p)
      PROVE  JournalsMoveForward
  <2>1. Note(Key(p), "settled") /\ journal[Key(p)].status \in Status
    BY <1>4, KeyFacts DEF Settled, TokenSettled, Recover
  <2> QED BY <2>1, NotedForward DEF Status, Order
<1>5. ASSUME NEW p \in Procs, Sign(p) \/ TokenSign(p) PROVE JournalsMoveForward
  <2>1. /\ Key(p) = <<proc[p].run, proc[p].offer>> /\ Key(p) \in Runs \X (0 .. MaxOffers)
        /\ ProcSound(p) /\ JournalSound(proc[p].run, proc[p].offer)
    BY KeyFacts
  <2>2. journal[Key(p)].status = "intent" /\ journal[Key(p)].tx = 0
    BY <1>5, <2>1 DEF Sign, TokenSign, Working, ProcSound, JournalSound
  <2>3. journal' = [journal EXCEPT ![Key(p)] = [status |-> "signed", tx |-> Len(payments) + 1]]
    BY <1>5 DEF Sign, TokenSign, SaveSigned
  <2>4. /\ journal'[Key(p)].status = "signed"
        /\ \A k \in Runs \X (0 .. MaxOffers) : k # Key(p) => journal'[k] = journal[k]
    BY <2>1, <2>3, BuyerFacts
  <2>5. \A k \in Runs \X (0 .. MaxOffers) : journal[k].status \in Status
    BY BuyerFacts DEF JournalRecords
  <2>6. \A s \in Status : Order[s] \in Nat
    BY DEF Status, Order
  <2> SUFFICES ASSUME NEW k \in Runs \X (0 .. MaxOffers)
               PROVE  /\ Order[journal[k].status] <= Order[journal'[k].status]
                      /\ journal[k].tx # 0 => journal'[k].tx = journal[k].tx
    BY DEF JournalsMoveForward, Journals
  <2>7. CASE k = Key(p)
    BY <2>2, <2>4, <2>7 DEF Order
  <2>8. CASE k # Key(p)
    BY <2>4, <2>5, <2>6, <2>8
  <2> QED BY <2>7, <2>8
<1>6. \/ UNCHANGED journal
      \/ \E p \in Procs : \/ Intend(p) \/ TokenIntend(p) \/ TokenReceived(p) \/ Settled(p)
                          \/ TokenSettled(p) \/ Recover(p) \/ Sign(p) \/ TokenSign(p)
  BY DEF PurchasesNext, buyerVars, Buyer, Negotiation, Purchase, Open, TokenBegin, Send,
         TokenSend, Stop, MandateExpires
<1> QED BY <1>1, <1>2, <1>3, <1>4, <1>5, <1>6

\* A negotiated transfer is handed over while its offer is in time.
LEMMA SubmittedInTime ==
  ASSUME ServiceSound, BuyersSound, PurchasesNext
  PROVE  SettledInTime
<1>1. CASE UNCHANGED submitted
  BY <1>1 DEF SettledInTime
<1>2. ASSUME NEW s \in Handlers, Settle(s) PROVE SettledInTime
  BY <1>2 DEF Settle, SettledInTime
<1>3. ASSUME NEW s \in Handlers, SettleAlone(s) PROVE SettledInTime
  <2>1. standalone /\ handler[s].at = "reserved" /\ submitted' = submitted \cup {handler[s].tx}
    BY <1>3 DEF SettleAlone
  <2>2. handler[s].tx \in DOMAIN payments
    BY <2>1, ServiceFacts DEF HandlerSound
  <2>3. payments[handler[s].tx].offer = 0
    BY <2>1, <2>2, BuyerFacts DEF PaymentSound, ServiceSound
  <2> QED BY <2>1, <2>3 DEF SettledInTime, InTime
<1>4. UNCHANGED submitted \/ \E s \in Handlers : Settle(s) \/ SettleAlone(s)
  BY DEF PurchasesNext, Service, ChangePrice, OfferExpires, Request, Transfer, Buyer, MandateExpires,
         serviceVars, Admit, AdmitAlone, Reserve, CreateFile, Answer, AnswerAlone, Abandon
<1> QED BY <1>1, <1>2, <1>3, <1>4

-----------------------------------------------------------------------------
(* The operator's steps.                                                   *)

WorkerRecords == [at : {"idle", "signing", "saved", "dispatched", "recovering", "created",
                        "published"}, op : Operations]

LEMMA OperationFacts ==
  ASSUME OperationsSound
  PROVE  /\ worker \in [Operators -> WorkerRecords]
         /\ intent \in [Operations -> {"none", "signed", "done"}]
         /\ opLock \in [Operations -> {"free", "held", "dead"}]
         /\ dispatches \in [Operations -> Nat]
         /\ confirmed \subseteq Operations /\ refused \subseteq Operations
         /\ refused \cap confirmed = {}
         /\ due \subseteq Rounds /\ published \subseteq Rounds /\ calm \in BOOLEAN
         /\ executed \subseteq Rounds /\ delivered \subseteq executed
         /\ request \in [Deliveries -> [at : {"free", "proven"}, op : Operations]]
         /\ \A p \in Operators : WorkerSound(p) /\ worker[p].op \in Operations
         /\ \A o \in Operations : IntentSound(o)
         /\ Rounds \subseteq Operations
<1>1. \A p \in Operators : worker[p].op \in Operations
  BY DEF OperationsSound, OperationsTypeOK
<1> QED BY <1>1, OperationAssumption DEF OperationsSound, OperationsTypeOK, WorkerRecords

LEMMA OffDutyIsRecord ==
  /\ OffDuty \in WorkerRecords /\ OffDuty.at = "idle"
  /\ Unasked \in [at : {"free", "proven"}, op : Operations] /\ Unasked.at = "free"
<1>1. \E o \in Operations : TRUE
  BY OperationAssumption
<1>2. (CHOOSE o \in Operations : TRUE) \in Operations
  BY <1>1
<1> QED BY <1>2 DEF OffDuty, Unasked, WorkerRecords

\* A purchase's step proves more and disproves nothing.
LEMMA ProofsGrow ==
  ASSUME ServiceSound, PaymentsGrow, RowsGrow, transferred \subseteq transferred', NEW r
  PROVE  /\ AuditProven(r) => AuditProven(r)'
         /\ PaidAndServed(r) => PaidAndServed(r)'
<1>1. transferred \subseteq DOMAIN payments /\ transferred \subseteq Txs
  BY ServiceFacts
<1> QED BY <1>1 DEF PaymentsGrow, RowsGrow, AuditProven, PaidAndServed

LEMMA OperationsKept ==
  ASSUME ServiceSound, OperationsSound, UNCHANGED <<operationVars, roundVars>>,
         PaymentsGrow, RowsGrow, transferred \subseteq transferred'
  PROVE  OperationsSound'
<1>1. \A o \in Operations : Permitted(o) => Permitted(o)'
  BY ProofsGrow DEF Permitted, FailureProven, operationVars
<1>2. OperationsTypeOK' /\ WorkersExclude'
  BY DEF OperationsSound, OperationsTypeOK, WorkersExclude, operationVars, roundVars
<1>3. \A p \in Operators : WorkerSound(p)'
  BY <1>1, OperationFacts DEF WorkerSound, operationVars
<1>4. \A o \in Operations : IntentSound(o)'
  BY <1>1, OperationFacts DEF IntentSound, operationVars
<1> QED BY <1>2, <1>3, <1>4 DEF OperationsSound, roundVars

\* A step changes the journal, the lock and the count of at most one operation,
OnlyTouches(o) ==
  /\ intent' \in [Operations -> {"none", "signed", "done"}]
  /\ opLock' \in [Operations -> {"free", "held", "dead"}]
  /\ dispatches' \in [Operations -> Nat] /\ published' \subseteq Rounds
  /\ \A n \in Operations \ {o} : /\ intent'[n] = intent[n] /\ opLock'[n] = opLock[n]
                                 /\ dispatches'[n] = dispatches[n]

\* and nobody else works on it.
OnlyHis(p, o) == \A q \in Operators \ {p} : worker[q].at \in Busy => worker[q].op # o

\* A worker moves, and with it at most the journal, the lock and the count of an operation
\* that is its own.
LEMMA WorkerMoves ==
  ASSUME OperationsSound, UNCHANGED <<payments, transferred, confirmed, refused, roundVars>>,
         NEW p \in Operators, NEW x \in WorkerRecords, worker' = [worker EXCEPT ![p] = x],
         NEW o \in Operations,
         OnlyTouches(o), OnlyHis(p, o),
         x.at \in Busy => x.op = o,
         WorkerSound(p)', IntentSound(o)'
  PROVE  OperationsSound'
<1>1. /\ worker' \in [Operators -> WorkerRecords] /\ worker'[p] = x
      /\ \A q \in Operators \ {p} : worker'[q] = worker[q]
  BY OperationFacts
<1>2. \A n \in Operations : Permitted(n)' = Permitted(n)
  BY DEF Permitted, AuditProven, FailureProven
<1>3. OperationsTypeOK'
  BY <1>1 DEF OperationsSound, OperationsTypeOK, WorkerRecords, OnlyTouches, roundVars
<1>4. WorkersExclude'
  BY <1>1 DEF OperationsSound, WorkersExclude, OnlyHis
<1>5. ASSUME NEW q \in Operators, q # p PROVE WorkerSound(q)'
  <2>1. worker'[q] = worker[q] /\ WorkerSound(q) /\ worker[q].op \in Operations
    BY <1>1, <1>5, OperationFacts
  <2>2. worker[q].at \in Busy => worker[q].op # o
    BY <1>5 DEF OnlyHis
  <2> QED BY <1>2, <2>1, <2>2 DEF WorkerSound, Busy, OnlyTouches
<1>6. \A n \in Operations : IntentSound(n)'
  BY <1>2, OperationFacts DEF IntentSound, OnlyTouches
<1>7. (\A d \in Deliveries : request[d].at = "proven" => request[d].op \in Rounds \cap executed)'
      /\ (delivered \subseteq executed)'
  BY DEF OperationsSound, roundVars
<1> QED BY <1>3, <1>4, <1>5, <1>6, <1>7 DEF OperationsSound

LEMMA WorkerFacts ==
  ASSUME OperationsSound, NEW p \in Operators, NEW at \in {"idle", "signing", "saved",
           "dispatched", "recovering", "created", "published"}
  PROVE  /\ worker[p] \in WorkerRecords /\ worker[p].op \in Operations
         /\ WorkerSound(p) /\ IntentSound(worker[p].op)
         /\ [at |-> at, op |-> worker[p].op] \in WorkerRecords
         /\ [worker EXCEPT ![p].at = at] = [worker EXCEPT ![p] = [at |-> at, op |-> worker[p].op]]
         /\ \A n : n = worker[p].op /\ worker[p].at \in Busy => OnlyHis(p, n)
<1>1. worker[p] \in WorkerRecords /\ worker \in [Operators -> WorkerRecords]
  BY OperationFacts
<1>2. [worker[p] EXCEPT !.at = at] = [at |-> at, op |-> worker[p].op]
  BY <1>1 DEF WorkerRecords
<1>3. [worker EXCEPT ![p].at = at] = [worker EXCEPT ![p] = [worker[p] EXCEPT !.at = at]]
  BY <1>1
<1>4. worker[p].op \in Operations /\ [at |-> at, op |-> worker[p].op] \in WorkerRecords
  BY <1>1 DEF WorkerRecords
<1>5. \A n : n = worker[p].op /\ worker[p].at \in Busy => OnlyHis(p, n)
  BY DEF OperationsSound, WorkersExclude, OnlyHis
<1> QED BY <1>1, <1>2, <1>3, <1>4, <1>5, OperationFacts

\* The lock admits one worker.
LEMMA BeginOperationSound ==
  ASSUME OperationsSound, UNCHANGED <<payments, transferred, roundVars>>, NEW p \in Operators,
         NEW o \in Operations, BeginOperation(p, o)
  PROVE  OperationsSound'
<1>1. /\ opLock[o] # "held" /\ Permitted(o)
      /\ opLock' = [opLock EXCEPT ![o] = "held"]
      /\ UNCHANGED <<intent, dispatches, confirmed, refused, published>>
  BY DEF BeginOperation, Ready
<1>2. PICK at \in {"signing", "recovering"} :
        /\ worker' = [worker EXCEPT ![p] = [at |-> at, op |-> o]]
        /\ at = "signing" <=> intent[o] = "none"
  BY DEF BeginOperation
<1>3. PICK x \in WorkerRecords : x.at = at /\ x.op = o /\ worker' = [worker EXCEPT ![p] = x]
  BY <1>2 DEF WorkerRecords
<1>4. worker'[p] = x
  BY <1>3, OperationFacts
<1>5. OnlyHis(p, o)
  BY <1>1, OperationFacts DEF WorkerSound, OnlyHis
<1>6. /\ opLock' \in [Operations -> {"free", "held", "dead"}] /\ opLock'[o] = "held"
      /\ \A n \in Operations \ {o} : opLock'[n] = opLock[n]
  BY <1>1, OperationFacts
<1>7. Permitted(o)'
  BY <1>1 DEF Permitted, AuditProven, FailureProven
<1>8. WorkerSound(p)'
  BY <1>1, <1>2, <1>3, <1>4, <1>6, <1>7 DEF WorkerSound, Busy
<1>9. IntentSound(o)'
  BY <1>1, <1>7, OperationFacts DEF IntentSound
<1>10. OnlyTouches(o)
  BY <1>1, <1>6, OperationFacts DEF OnlyTouches
<1> QED BY <1>1, <1>3, <1>5, <1>8, <1>9, <1>10, WorkerMoves

\* Signed bytes are saved before they are dispatched, and dispatched once.
LEMMA DispatchSound ==
  ASSUME OperationsSound, UNCHANGED <<payments, transferred, roundVars>>, NEW p \in Operators,
         SaveIntent(p) \/ Dispatch(p)
  PROVE  OperationsSound'
<1> DEFINE o == worker[p].op
<1>1. o \in Operations /\ WorkerSound(p) /\ IntentSound(o)
  BY OperationFacts
<1>2. UNCHANGED <<opLock, confirmed, refused, published>>
  BY DEF SaveIntent, Dispatch
<1>3. CASE SaveIntent(p)
  <2>1. /\ worker[p].at = "signing" /\ intent' = [intent EXCEPT ![o] = "signed"]
        /\ worker' = [worker EXCEPT ![p].at = "saved"] /\ UNCHANGED dispatches
    BY <1>3 DEF SaveIntent
  <2>2. PICK x \in WorkerRecords : x.at = "saved" /\ x.op = o /\ worker' = [worker EXCEPT ![p] = x]
    BY <2>1, WorkerFacts
  <2>3. worker'[p] = x
    BY <2>2, OperationFacts
  <2>4. /\ intent' \in [Operations -> {"none", "signed", "done"}] /\ intent'[o] = "signed"
        /\ \A n \in Operations \ {o} : intent'[n] = intent[n]
    BY <1>1, <2>1, OperationFacts
  <2>5. intent[o] = "none" /\ dispatches[o] = 0 /\ Permitted(o) /\ opLock[o] = "held"
    BY <1>1, <2>1 DEF WorkerSound, IntentSound, Busy
  <2>6. PICK n \in Operations : n = o
    BY <1>1
  <2>7. Permitted(n)'
    BY <1>2, <2>5, <2>6 DEF Permitted, AuditProven, FailureProven
  <2>8. IntentSound(n)'
    BY <1>1, <1>2, <2>1, <2>4, <2>5, <2>6, <2>7 DEF IntentSound
  <2>9. WorkerSound(p)'
    BY <1>2, <2>1, <2>2, <2>3, <2>4, <2>5, <2>6, <2>7 DEF WorkerSound
  <2>10. OnlyHis(p, n)
    BY <2>1, <2>6, WorkerFacts DEF Busy
  <2>11. OnlyTouches(n)
    BY <1>2, <2>1, <2>4, <2>6, OperationFacts DEF OnlyTouches
  <2>12. x.op = n
    BY <2>2, <2>6
  <2> HIDE DEF o
  <2> QED BY <1>2, <2>2, <2>8, <2>9, <2>10, <2>11, <2>12, WorkerMoves
<1>4. CASE Dispatch(p)
  <2>1. /\ worker[p].at = "saved" /\ dispatches' = [dispatches EXCEPT ![o] = @ + 1]
        /\ worker' = [worker EXCEPT ![p].at = "dispatched"] /\ UNCHANGED intent
    BY <1>4 DEF Dispatch
  <2>2. PICK x \in WorkerRecords : x.at = "dispatched" /\ x.op = o /\ worker' = [worker EXCEPT ![p] = x]
    BY <2>1, WorkerFacts
  <2>3. worker'[p] = x
    BY <2>2, OperationFacts
  <2>4. intent[o] = "signed" /\ dispatches[o] = 0 /\ Permitted(o) /\ opLock[o] = "held"
    BY <1>1, <2>1 DEF WorkerSound, Busy
  <2>5. /\ dispatches' \in [Operations -> Nat] /\ dispatches'[o] = 1
        /\ \A n \in Operations \ {o} : dispatches'[n] = dispatches[n]
    BY <1>1, <2>1, <2>4, OperationFacts
  <2>6. PICK n \in Operations : n = o
    BY <1>1
  <2>7. Permitted(n)'
    BY <1>2, <2>4, <2>6 DEF Permitted, AuditProven, FailureProven
  <2>8. IntentSound(n)'
    BY <1>1, <1>2, <2>1, <2>4, <2>5, <2>6, <2>7 DEF IntentSound
  <2>9. WorkerSound(p)'
    BY <1>2, <2>1, <2>2, <2>3, <2>4, <2>6, <2>7 DEF WorkerSound
  <2>10. OnlyHis(p, n)
    BY <2>1, <2>6, WorkerFacts DEF Busy
  <2>11. OnlyTouches(n)
    BY <1>2, <2>1, <2>5, <2>6, OperationFacts DEF OnlyTouches
  <2>12. x.op = n
    BY <2>2, <2>6
  <2> HIDE DEF o
  <2> QED BY <1>2, <2>2, <2>8, <2>9, <2>10, <2>11, <2>12, WorkerMoves
<1> QED BY <1>3, <1>4

-----------------------------------------------------------------------------
\* What was confirmed is done, and the operation's lock is given back.
LEMMA ConfirmSound ==
  ASSUME OperationsSound, UNCHANGED <<payments, transferred, roundVars>>, NEW p \in Operators,
         Confirm(p)
  PROVE  OperationsSound'
<1> DEFINE o == worker[p].op
<1>1. o \in Operations /\ WorkerSound(p) /\ IntentSound(o)
  BY OperationFacts
<1>2. /\ worker[p].at \in {"dispatched", "recovering"} /\ o \in confirmed
      /\ intent' = [intent EXCEPT ![o] = "done"] /\ opLock' = [opLock EXCEPT ![o] = "free"]
      /\ UNCHANGED <<dispatches, confirmed, refused, published>>
  BY DEF Confirm, Seen
<1>3. PICK x \in WorkerRecords : /\ worker' = [worker EXCEPT ![p] = x]
                                 /\ \/ x.at = "created" /\ x.op = o /\ o \in Rounds
                                    \/ x.at = "idle"
  <2>1. CASE o \in Rounds
    <3>1. worker' = [worker EXCEPT ![p] = [@ EXCEPT !.at = "created"]]
      BY <2>1 DEF Confirm
    <3>2. [worker[p] EXCEPT !.at = "created"] = [at |-> "created", op |-> o]
      BY OperationFacts DEF WorkerRecords
    <3>3. worker' = [worker EXCEPT ![p] = [at |-> "created", op |-> o]]
      BY <3>1, <3>2, OperationFacts
    <3>4. PICK y \in WorkerRecords : y = [at |-> "created", op |-> o]
      BY <1>1 DEF WorkerRecords
    <3> QED BY <2>1, <3>3, <3>4
  <2>2. CASE o \notin Rounds
    BY <2>2, OffDutyIsRecord DEF Confirm
  <2> QED BY <2>1, <2>2
<1>4. worker'[p] = x
  BY <1>3, OperationFacts
<1>5. intent[o] # "none" /\ Permitted(o) /\ dispatches[o] > 0
  BY <1>1, <1>2 DEF WorkerSound, IntentSound, Busy
<1>6. PICK n \in Operations : n = o
  BY <1>1
<1>7. /\ intent' \in [Operations -> {"none", "signed", "done"}] /\ intent'[n] = "done"
      /\ opLock' \in [Operations -> {"free", "held", "dead"}]
      /\ \A k \in Operations \ {n} : intent'[k] = intent[k] /\ opLock'[k] = opLock[k]
  BY <1>2, <1>6, OperationFacts
<1>8. Permitted(n)'
  BY <1>2, <1>5, <1>6 DEF Permitted, AuditProven, FailureProven
<1>9. IntentSound(n)'
  BY <1>1, <1>2, <1>5, <1>6, <1>7, <1>8 DEF IntentSound
<1>10. WorkerSound(p)'
  BY <1>3, <1>4 DEF WorkerSound, Busy
<1>11. OnlyHis(p, n)
  BY <1>2, <1>6, WorkerFacts DEF Busy
<1>12. OnlyTouches(n)
  BY <1>2, <1>7, OperationFacts DEF OnlyTouches
<1>13. x.at \in Busy => x.op = n
  BY <1>3, <1>6 DEF Busy
<1> HIDE DEF o
<1> QED BY <1>2, <1>3, <1>9, <1>10, <1>11, <1>12, <1>13, WorkerMoves

\* A worker moves that holds no operation, nor will.
LEMMA WorkerRests ==
  ASSUME OperationsSound, NEW p \in Operators, NEW x \in WorkerRecords, x.at \notin Busy,
         UNCHANGED <<payments, transferred, roundVars, intent, opLock, dispatches, confirmed, refused>>,
         worker' = [worker EXCEPT ![p] = x], published' \subseteq Rounds, WorkerSound(p)'
  PROVE  OperationsSound'
<1>1. /\ worker' \in [Operators -> WorkerRecords] /\ worker'[p] = x
      /\ \A q \in Operators \ {p} : worker'[q] = worker[q]
  BY OperationFacts
<1>2. \A n \in Operations : Permitted(n)' = Permitted(n)
  BY DEF Permitted, AuditProven, FailureProven
<1>3. OperationsTypeOK'
  BY <1>1 DEF OperationsSound, OperationsTypeOK, WorkerRecords, roundVars
<1>4. WorkersExclude'
  BY <1>1 DEF OperationsSound, WorkersExclude
<1>5. ASSUME NEW q \in Operators, q # p PROVE WorkerSound(q)'
  <2>1. worker'[q] = worker[q] /\ WorkerSound(q) /\ worker[q].op \in Operations
    BY <1>1, <1>5, OperationFacts
  <2> QED BY <1>2, <2>1 DEF WorkerSound, Busy
<1>6. \A n \in Operations : IntentSound(n)'
  BY <1>2, OperationFacts DEF IntentSound
<1>7. (\A d \in Deliveries : request[d].at = "proven" => request[d].op \in Rounds \cap executed)'
      /\ (delivered \subseteq executed)'
  BY DEF OperationsSound, roundVars
<1> QED BY <1>3, <1>4, <1>5, <1>6, <1>7 DEF OperationsSound

LEMMA PublishSound ==
  ASSUME OperationsSound, UNCHANGED <<payments, transferred, roundVars>>, NEW p \in Operators,
         Publish(p)
  PROVE  OperationsSound'
<1>1. /\ worker[p].at = "created" /\ published' = Needs[worker[p].op] \cup {worker[p].op}
      /\ worker' = [worker EXCEPT ![p].at = "published"]
      /\ UNCHANGED <<intent, opLock, dispatches, confirmed, refused>>
  BY DEF Publish
<1>2. PICK x \in WorkerRecords : /\ x.at = "published" /\ x.op = worker[p].op
                                 /\ worker' = [worker EXCEPT ![p] = x]
  BY <1>1, WorkerFacts
<1>3. worker'[p] = x
  BY <1>2, OperationFacts
<1>4. worker[p].op \in Rounds
  BY <1>1, OperationFacts DEF WorkerSound
<1>5. published' \subseteq Rounds
  BY <1>1, <1>4, OperationAssumption
<1>6. WorkerSound(p)'
  BY <1>2, <1>3, <1>4 DEF WorkerSound, Busy
<1> QED BY <1>1, <1>2, <1>5, <1>6, WorkerRests DEF Busy

\* A command that ends or dies leaves its operation to whoever comes next.
LEMMA StopOperationSound ==
  ASSUME OperationsSound, UNCHANGED <<payments, transferred, roundVars>>, NEW p \in Operators,
         StopOperation(p)
  PROVE  OperationsSound'
<1>1. /\ worker' = [worker EXCEPT ![p] = OffDuty] /\ worker[p].at # "idle"
      /\ UNCHANGED <<intent, dispatches, confirmed, refused, published>>
  BY DEF StopOperation
<1>2. worker'[p] = OffDuty
  BY <1>1, OperationFacts
<1>3. WorkerSound(p)'
  BY <1>2, OffDutyIsRecord DEF WorkerSound, Busy
<1>4. CASE worker[p].at \in {"created", "published"}
  <2>1. UNCHANGED opLock
    BY <1>4 DEF StopOperation
  <2> QED BY <1>1, <1>3, <2>1, OffDutyIsRecord, OperationFacts, WorkerRests DEF Busy
<1>5. CASE worker[p].at \in Busy
  <2>1. PICK left \in {"free", "dead"} : opLock' = [opLock EXCEPT ![worker[p].op] = left]
    BY <1>5 DEF StopOperation, Busy
  <2>2. PICK n \in Operations : n = worker[p].op
    BY OperationFacts
  <2>3. /\ opLock' \in [Operations -> {"free", "held", "dead"}]
        /\ \A k \in Operations \ {n} : opLock'[k] = opLock[k]
    BY <2>1, <2>2, OperationFacts
  <2>4. Permitted(n) => Permitted(n)'
    BY <1>1 DEF Permitted, AuditProven, FailureProven
  <2>5. IntentSound(n)'
    BY <1>1, <2>4, OperationFacts DEF IntentSound
  <2>6. OnlyHis(p, n) /\ OnlyTouches(n)
    BY <1>1, <1>5, <2>2, <2>3, OperationFacts, WorkerFacts DEF OnlyTouches
  <2>7. OffDuty.at \notin Busy
    BY OffDutyIsRecord DEF Busy
  <2> QED BY <1>1, <1>3, <2>5, <2>6, <2>7, OffDutyIsRecord, WorkerMoves
<1>6. worker[p].at \in Busy \cup {"created", "published"}
  BY <1>1, OperationFacts DEF WorkerRecords, Busy
<1> QED BY <1>4, <1>5, <1>6

\* The network executes what was dispatched, or proves that it will not.
LEMMA NetworkSound ==
  ASSUME OperationsSound, UNCHANGED <<payments, transferred, roundVars>>, NEW o \in Operations,
         Consensus(o) \/ InsufficientFee(o)
  PROVE  OperationsSound'
<1>1. /\ dispatches[o] > 0 /\ o \notin confirmed \cup refused
      /\ UNCHANGED <<worker, intent, opLock, dispatches, published>>
      /\ \/ confirmed' = confirmed \cup {o} /\ refused' = refused
         \/ confirmed' = confirmed /\ refused' = refused \cup {o}
  BY DEF Consensus, InsufficientFee
<1>2. \A n \in Operations : Permitted(n) => Permitted(n)'
  BY <1>1 DEF Permitted, AuditProven, FailureProven
<1>3. /\ confirmed' \subseteq Operations /\ refused' \subseteq Operations \ confirmed'
  BY <1>1, OperationFacts
<1>4. OperationsTypeOK' /\ WorkersExclude'
  BY <1>1, <1>3 DEF OperationsSound, OperationsTypeOK, WorkersExclude, roundVars
<1>5. \A p \in Operators : WorkerSound(p)'
  BY <1>1, <1>2, OperationFacts DEF WorkerSound
<1>6. \A n \in Operations : IntentSound(n)'
  BY <1>1, <1>2, OperationFacts DEF IntentSound
<1> QED BY <1>4, <1>5, <1>6 DEF OperationsSound, roundVars

\* A round's time, and the platform's deliveries.
LEMMA RoundsSound ==
  ASSUME OperationsSound, UNCHANGED <<payments, transferred, operationVars>>,
         due' \subseteq Rounds, calm' \in BOOLEAN, executed' \subseteq Rounds,
         executed \subseteq executed', delivered' \subseteq executed',
         request' \in [Deliveries -> [at : {"free", "proven"}, op : Operations]],
         \A d \in Deliveries : request'[d].at = "proven" => request'[d].op \in Rounds \cap executed'
  PROVE  OperationsSound'
<1>1. \A n \in Operations : Permitted(n)' = Permitted(n)
  BY DEF Permitted, AuditProven, FailureProven, operationVars
<1>2. OperationsTypeOK' /\ WorkersExclude'
  BY DEF OperationsSound, OperationsTypeOK, WorkersExclude, operationVars
<1>3. \A p \in Operators : WorkerSound(p)'
  BY <1>1, OperationFacts DEF WorkerSound, operationVars
<1>4. \A n \in Operations : IntentSound(n)'
  BY <1>1, OperationFacts DEF IntentSound, operationVars
<1> QED BY <1>2, <1>3, <1>4 DEF OperationsSound

LEMMA RoundIsDueSound ==
  ASSUME OperationsSound, UNCHANGED <<payments, transferred, operationVars>>, NEW o \in Rounds,
         RoundIsDue(o)
  PROVE  OperationsSound'
BY OperationFacts, RoundsSound DEF RoundIsDue, OperationsSound

\* Only an executed round becomes a delivery.
LEMMA DeliverySound ==
  ASSUME OperationsSound, UNCHANGED <<payments, transferred, operationVars>>, NEW d \in Deliveries,
         Delivery(d)
  PROVE  OperationsSound'
<1>1. ASSUME NEW x \in [at : {"free", "proven"}, op : Operations],
             request' = [request EXCEPT ![d] = x],
             x.at = "proven" => x.op \in Rounds \cap executed,
             UNCHANGED <<due, executed, calm>>, delivered' \subseteq executed
      PROVE  OperationsSound'
  <2>1. /\ request' \in [Deliveries -> [at : {"free", "proven"}, op : Operations]]
        /\ request'[d] = x /\ \A e \in Deliveries \ {d} : request'[e] = request[e]
    BY <1>1, OperationFacts
  <2>2. \A e \in Deliveries : request'[e].at = "proven" => request'[e].op \in Rounds \cap executed'
    BY <1>1, <2>1 DEF OperationsSound
  <2> QED BY <1>1, <2>1, <2>2, OperationFacts, RoundsSound
<1>2. ASSUME NEW o \in Rounds, RequestDelivery(d, o) PROVE OperationsSound'
  <2>1. PICK x \in [at : {"free", "proven"}, op : Operations] : x = [at |-> "proven", op |-> o]
    BY OperationFacts
  <2>2. x.op = o /\ o \in executed
    BY <1>2, <2>1 DEF RequestDelivery, Proven
  <2> QED BY <1>1, <1>2, <2>1, <2>2, OperationFacts DEF RequestDelivery
<1>3. CASE RecordDelivery(d)
  <2>1. request[d].op \in executed
    BY <1>3 DEF RecordDelivery, OperationsSound
  <2> QED BY <1>1, <1>3, <2>1, OffDutyIsRecord, OperationFacts DEF RecordDelivery
<1>4. CASE StopDelivery(d)
  BY <1>1, <1>4, OffDutyIsRecord, OperationFacts DEF StopDelivery
<1> QED BY <1>2, <1>3, <1>4 DEF Delivery

\* What was confirmed, paid or delivered stays so.
ProofsKept == /\ confirmed \subseteq confirmed' /\ executed \subseteq executed'
              /\ delivered \subseteq delivered'

LEMMA OperationsStep ==
  ASSUME OperationsSound, OperationsNext, UNCHANGED <<payments, transferred>>
  PROVE  OperationsSound' /\ ProofsKept
<1>1. ASSUME NEW p \in Operators, Operator(p) PROVE OperationsSound' /\ ProofsKept
  <2>1. ProofsKept
    BY <1>1 DEF Operator, BeginOperation, SaveIntent, Dispatch, Confirm, Publish, StopOperation,
                roundVars, ProofsKept
  <2>2. ASSUME NEW o \in Operations, BeginOperation(p, o) PROVE OperationsSound'
    BY <1>1, <2>2, BeginOperationSound DEF Operator
  <2> QED BY <1>1, <2>1, <2>2, DispatchSound, ConfirmSound, PublishSound, StopOperationSound
          DEF Operator
<1>2. ASSUME NEW o \in Operations, Consensus(o) \/ InsufficientFee(o), UNCHANGED roundVars
      PROVE  OperationsSound' /\ ProofsKept
  BY <1>2, NetworkSound DEF Consensus, InsufficientFee, roundVars, ProofsKept
<1>3. ASSUME NEW o \in Rounds, RoundIsDue(o), UNCHANGED operationVars
      PROVE  OperationsSound' /\ ProofsKept
  BY <1>3, RoundIsDueSound DEF RoundIsDue, operationVars, ProofsKept
<1>4. ASSUME NEW d \in Deliveries, Delivery(d) PROVE OperationsSound' /\ ProofsKept
  <2>1. ProofsKept
    BY <1>4 DEF Delivery, RequestDelivery, RecordDelivery, StopDelivery, operationVars, ProofsKept
  <2> QED BY <1>4, <2>1, DeliverySound DEF Delivery
<1>5. CASE Calm /\ UNCHANGED operationVars
  <2>1. ProofsKept
    BY <1>5 DEF Calm, operationVars, ProofsKept
  <2>2. \A d \in Deliveries : request'[d].at = "proven" => request'[d].op \in Rounds \cap executed'
    BY <1>5 DEF Calm, OperationsSound
  <2> QED BY <1>5, <2>1, <2>2, OperationFacts, RoundsSound DEF Calm
<1> QED BY <1>1, <1>2, <1>3, <1>4, <1>5 DEF OperationsNext

-----------------------------------------------------------------------------
(* Publication.                                                            *)

LEMMA NothingIsSound ==
  /\ Nothing \in Release /\ \A k \in Sections : Nothing[k] = {}
  /\ PartsSound(Nothing)
BY DEF Nothing, Release, Sections, PartsSound

LEMMA PartsKept ==
  ASSUME ServiceSound, PaymentsGrow, RowsGrow, transferred \subseteq transferred', ProofsKept,
         NEW x, PartsSound(x)
  PROVE  PartsSound(x)'
<1>1. \A r : PaidAndServed(r) => PaidAndServed(r)'
  BY ProofsGrow
<1> QED BY <1>1 DEF PartsSound, ProofsKept

LEMMA PublicationKept ==
  ASSUME ServiceSound, PublicationSound, UNCHANGED publicationVars,
         PaymentsGrow, RowsGrow, transferred \subseteq transferred', ProofsKept
  PROVE  PublicationSound'
<1>1. PartsSound(release)'
  <2>1. PICK x : x = release
    OBVIOUS
  <2>2. PartsSound(x)'
    BY <2>1, PartsKept DEF PublicationSound
  <2> QED BY <2>1, <2>2 DEF PartsSound, publicationVars
<1>2. ASSUME NEW q \in Publishers PROVE PartsSound(publisher[q].parts)'
  <2>1. PICK x : x = publisher[q].parts
    OBVIOUS
  <2>2. PartsSound(x)'
    BY <2>1, PartsKept DEF PublicationSound
  <2> QED BY <2>1, <2>2 DEF PartsSound, publicationVars
<1> QED BY <1>1, <1>2 DEF PublicationSound, publicationVars

\* A complete journal, the service's row and the mirror's transfer are of one payment.
LEMMA SettledIsServed ==
  ASSUME ServiceSound, BuyersSound, NEW r \in Runs, SettledAtService(r)
  PROVE  PaidAndServed(r)
<1>1. PICK i \in 0 .. MaxOffers : /\ journal[<<r, i>>].status = "settled"
                                  /\ row[journal[<<r, i>>].tx] = "settled"
                                  /\ journal[<<r, i>>].tx \in transferred
  BY DEF SettledAtService, Mirrored
<1>2. JournalSound(r, i)
  BY BuyerFacts
<1> QED BY <1>1, <1>2 DEF JournalSound, PaidAndServed

\* What is verified before publication is proven.
LEMMA PreparedIsSound ==
  ASSUME ServiceSound, BuyersSound, OperationsSound, NEW parts \in Prepared
  PROVE  PartsSound(parts)
<1>1. /\ parts \in [a2a : UpToOne({r \in Negotiated : NegotiationProven(r)}),
                    hts : UpToOne({r \in TokenRuns : TokenPurchaseProven(r)}),
                    schedules : IF PlanProven THEN {{}, Rounds} ELSE {{}},
                    audit : UpToOne(DOMAIN Anchored)]
      /\ \A o \in parts.audit : AnchorProven(o, parts.a2a \cup parts.hts)
  BY DEF Prepared
<1>2. \A r \in parts["a2a"] \cup parts["hts"] : r \in Runs /\ SettledAtService(r)
  BY <1>1, RunFacts DEF UpToOne, NegotiationProven, TokenPurchaseProven
<1>3. \A r \in parts["a2a"] \cup parts["hts"] : PaidAndServed(r)
  BY <1>2, SettledIsServed
<1>4. parts["schedules"] \subseteq Rounds \cap executed \cap delivered
  BY <1>1 DEF PlanProven
<1>5. parts["audit"] \subseteq DOMAIN Anchored /\ \A o \in parts["audit"] : intent[o] = "done"
  BY <1>1 DEF UpToOne, AnchorProven
<1>6. parts["audit"] \subseteq Operations \cap confirmed
  BY <1>5, OperationFacts, OperationAssumption DEF IntentSound
<1>7. parts \in Release
  <2>1. parts = [k \in Sections |-> parts[k]]
    BY <1>1 DEF Sections
  <2>2. \A k \in Sections : parts[k] \subseteq Runs \cup Operations
    BY <1>2, <1>4, <1>6, OperationFacts DEF Sections
  <2> QED BY <2>1, <2>2 DEF Release
<1> QED BY <1>3, <1>4, <1>5, <1>6, <1>7 DEF PartsSound

\* The merged release keeps what was proven before and adds what is proven now.
LEMMA MergedIsSound ==
  ASSUME NEW old, NEW parts, PartsSound(old), PartsSound(parts)
  PROVE  PartsSound(Merged(old, parts))
<1>1. PICK m : m = Merged(old, parts)
  OBVIOUS
<1>2. m \in Release /\ \A k \in Sections : m[k] = IF parts[k] = {} THEN old[k] ELSE parts[k]
  BY <1>1 DEF Merged, PartsSound, Release
<1>3. PartsSound(m)
  BY <1>2 DEF PartsSound, Sections
<1> QED BY <1>1, <1>3

LEMMA PublicationStep ==
  ASSUME ServiceSound, BuyersSound, OperationsSound, PublicationSound, Publication,
         UNCHANGED <<vars, operationVars, roundVars>>
  PROVE  PublicationSound'
<1>1. ASSUME NEW x, PartsSound(x) PROVE PartsSound(x)'
  BY <1>1 DEF PartsSound, PaidAndServed, vars, serviceVars, operationVars, roundVars
<1>2. \A q \in Publishers : /\ publisher[q].at \in {"idle", "prepared"}
                            /\ publisher[q].parts \in Release
                            /\ publisher[q].replace \in BOOLEAN
                            /\ PartsSound(publisher[q].parts)
  BY DEF PublicationSound
<1>3. ASSUME NEW q \in Publishers,
             NEW x \in [at : {"idle", "prepared"}, parts : Release, replace : BOOLEAN],
             publisher' = [publisher EXCEPT ![q] = x], PartsSound(x.parts)
      PROVE  /\ publisher' \in [Publishers -> [at : {"idle", "prepared"}, parts : Release,
                                               replace : BOOLEAN]]
             /\ \A u \in Publishers : PartsSound(publisher[u].parts)'
  <2>1. publisher' \in [Publishers -> [at : {"idle", "prepared"}, parts : Release,
                                       replace : BOOLEAN]]
    BY <1>3 DEF PublicationSound
  <2>2. ASSUME NEW u \in Publishers PROVE PartsSound(publisher[u].parts)'
    <3>1. PICK y : y = publisher'[u].parts
      OBVIOUS
    <3>2. y = IF u = q THEN x.parts ELSE publisher[u].parts
      BY <1>3, <3>1 DEF PublicationSound
    <3>3. PartsSound(y)
      BY <1>2, <1>3, <3>2
    <3>4. PartsSound(y)'
      BY <1>1, <3>3
    <3> QED BY <3>1, <3>4 DEF PartsSound
  <2> QED BY <2>1, <2>2
<1>4. ASSUME NEW x, release' = x, PartsSound(x) PROVE PartsSound(release)'
  <2>1. PartsSound(x)'
    BY <1>1, <1>4
  <2> QED BY <1>4, <2>1 DEF PartsSound
<1>5. ASSUME NEW q \in Publishers, Prepare(q) PROVE PublicationSound'
  <2>1. PICK parts \in Prepared, replace \in BOOLEAN :
          publisher' = [publisher EXCEPT ![q] = [at |-> "prepared", parts |-> parts,
                                                 replace |-> replace]]
    BY <1>5 DEF Prepare
  <2>2. PartsSound(parts) /\ parts \in Release
    BY PreparedIsSound DEF PartsSound
  <2>3. PICK x : x = [at |-> "prepared", parts |-> parts, replace |-> replace]
    OBVIOUS
  <2>4. x \in [at : {"idle", "prepared"}, parts : Release, replace : BOOLEAN] /\ x.parts = parts
    BY <2>2, <2>3
  <2>5. PartsSound(release)'
    BY <1>4, <1>5 DEF PublicationSound, Prepare
  <2> QED BY <1>3, <2>1, <2>2, <2>3, <2>4, <2>5 DEF PublicationSound
<1>6. ASSUME NEW q \in Publishers, PublishRelease(q) \/ StopPublication(q) PROVE PublicationSound'
  <2>1. PICK x : x = [at |-> "idle", parts |-> Nothing, replace |-> FALSE]
    OBVIOUS
  <2>2. /\ x \in [at : {"idle", "prepared"}, parts : Release, replace : BOOLEAN]
        /\ PartsSound(x.parts)
    BY <2>1, NothingIsSound
  <2>3. publisher' = [publisher EXCEPT ![q] = x]
    BY <1>6, <2>1 DEF PublishRelease, StopPublication
  <2>4. PICK y : y = release'
    OBVIOUS
  <2>5. y \in {release, publisher[q].parts, Merged(release, publisher[q].parts)}
    BY <1>6, <2>4 DEF PublishRelease, StopPublication
  <2>6. PartsSound(y)
    BY <1>2, <2>5, MergedIsSound DEF PublicationSound
  <2>7. PartsSound(release)'
    BY <1>4, <2>4, <2>6
  <2> QED BY <1>3, <2>2, <2>3, <2>7 DEF PublicationSound
<1> QED BY <1>5, <1>6 DEF Publication

-----------------------------------------------------------------------------
(* The invariant holds.                                                    *)

LEMMA InitSound == Init => IInv
<1> SUFFICES ASSUME Init PROVE IInv
  OBVIOUS
<1>1. ServiceSound
  <2>1. /\ offers = << >> /\ payments = << >> /\ posted = {} /\ submitted = {}
        /\ transferred = {} /\ answered = {} /\ row = [t \in Txs |-> "none"]
        /\ handler = [s \in Handlers |-> Free]
        /\ wanted \in Wishes /\ standalone \in BOOLEAN /\ price \in Prices
        /\ standalone => wanted \subseteq Runs \ (TokenRuns \cup DOMAIN RequestOf)
    BY DEF Init, PurchasesInit, ServiceInit
  <2>2. ServiceTypeOK
    BY <2>1, RunFacts DEF ServiceTypeOK, Free
  <2>3. \A s \in Handlers : HandlerSound(s)
    BY <2>1 DEF HandlerSound, Free
  <2>4. \A t \in Txs : RowSound(t)
    BY <2>1 DEF RowSound
  <2>5. standalone => wanted \cap Negotiated = {}
    BY <2>1, RunFacts
  <2> QED BY <2>2, <2>3, <2>4, <2>5 DEF ServiceSound
<1>2. BuyersSound
  <2>1. /\ proc = [p \in Procs |-> Resting] /\ operation = [r \in Negotiated |-> "none"]
        /\ journal = [k \in Runs \X (0 .. MaxOffers) |-> [status |-> "none", tx |-> 0]]
        /\ lock = [r \in TokenRuns |-> "free"] /\ authorised = Runs
        /\ payments = << >>
    BY DEF Init, PurchasesInit, BuyerInit, ServiceInit, Journals
  <2>2. Resting \in ProcRecords /\ Resting.at = "idle"
    BY RestingIsRecord
  <2>3. BuyerTypeOK
    BY <2>1, <2>2 DEF BuyerTypeOK, ProcRecords, Journals, Status
  <2>4. ProcsExclude /\ OperationsSettled
    BY <2>1, <2>2 DEF ProcsExclude, OperationsSettled, Idle
  <2>5. \A r \in Runs, i \in 0 .. MaxOffers : JournalSound(r, i)
    BY <2>1 DEF JournalSound
  <2>6. \A p \in Procs : ProcSound(p)
    BY <2>1, <2>2 DEF ProcSound, Early
  <2> QED BY <2>1, <2>3, <2>4, <2>5, <2>6 DEF BuyersSound
<1>3. OperationsSound
  <2>1. /\ worker = [p \in Operators |-> OffDuty] /\ intent = [o \in Operations |-> "none"]
        /\ opLock = [o \in Operations |-> "free"] /\ dispatches = [o \in Operations |-> 0]
        /\ confirmed = {} /\ refused = {} /\ published = {} /\ due = Rounds /\ executed = {}
        /\ request = [d \in Deliveries |-> Unasked] /\ delivered = {} /\ calm = FALSE
    BY DEF Init, OperationsInit
  <2>2. OperationsTypeOK
    BY <2>1, OffDutyIsRecord DEF OperationsTypeOK, WorkerRecords
  <2>3. WorkersExclude /\ \A p \in Operators : WorkerSound(p)
    BY <2>1, OffDutyIsRecord DEF WorkersExclude, WorkerSound, Busy
  <2>4. \A o \in Operations : IntentSound(o)
    BY <2>1 DEF IntentSound
  <2> QED BY <2>1, <2>2, <2>3, <2>4, OffDutyIsRecord DEF OperationsSound
<1>4. PublicationSound
  BY NothingIsSound DEF Init, PublicationInit, PublicationSound
<1> QED BY <1>1, <1>2, <1>3, <1>4 DEF IInv

LEMMA NextSound ==
  ASSUME IInv, [Next]_exchange
  PROVE  IInv'
<1>1. CASE PurchasesNext /\ UNCHANGED <<operationVars, roundVars, publicationVars>>
  <2>1. ServiceSound' /\ BuyersSound' /\ PaymentsGrow /\ RowsGrow /\ transferred \subseteq transferred'
    BY <1>1, PurchasesStep, PaymentsOnlyGrow DEF IInv
  <2>2. OperationsSound'
    BY <1>1, <2>1, OperationsKept DEF IInv
  <2>3. ProofsKept
    BY <1>1 DEF ProofsKept, operationVars, roundVars
  <2>4. PublicationSound'
    BY <1>1, <2>1, <2>3, PublicationKept DEF IInv
  <2> QED BY <2>1, <2>2, <2>4 DEF IInv
<1>2. CASE UNCHANGED vars
  <2>1. PaymentsGrow /\ RowsGrow /\ transferred \subseteq transferred'
    BY <1>2 DEF vars, serviceVars, PaymentsGrow, RowsGrow
  <2>2. ServiceSound'
    BY <1>2 DEF IInv, vars, serviceVars, ServiceSound, ServiceTypeOK, HandlerSound, RowSound
  <2>3. OffersGrow
    BY <1>2 DEF vars, OffersGrow
  <2>4. BuyersSound'
    BY <1>2, <2>1, <2>3, BuyersKept, BuyerFacts DEF IInv, vars, buyerVars
  <2>5. CASE OperationsNext /\ UNCHANGED publicationVars
    <3>1. OperationsSound' /\ ProofsKept
      BY <1>2, <2>5, OperationsStep DEF IInv, vars
    <3> QED BY <2>1, <2>2, <2>4, <2>5, <3>1, PublicationKept DEF IInv
  <2>6. CASE UNCHANGED <<operationVars, roundVars>>
    <3>1. OperationsSound'
      BY <2>1, <2>6, OperationsKept DEF IInv
    <3>2. ProofsKept
      BY <2>6 DEF ProofsKept, operationVars, roundVars
    <3>3. CASE Publication
      BY <1>2, <2>2, <2>4, <2>6, <3>1, <3>3, PublicationStep DEF IInv
    <3>4. CASE UNCHANGED publicationVars
      BY <2>1, <2>2, <2>4, <3>1, <3>2, <3>4, PublicationKept DEF IInv
    <3> QED BY <1>1, <2>5, <3>3, <3>4 DEF Next, exchange
  <2> QED BY <1>1, <2>5, <2>6 DEF Next, exchange
<1> QED BY <1>1, <1>2 DEF Next, exchange

-----------------------------------------------------------------------------
(* What the invariant says.                                                *)

LEMMA NothingTwiceMeaning == IInv => NothingTwice
<1> SUFFICES ASSUME IInv PROVE NothingTwice
  OBVIOUS
<1>1. TypeOK
  <2>1. ServiceTypeOK /\ BuyerTypeOK /\ OperationsTypeOK
    BY DEF IInv, ServiceSound, BuyersSound, OperationsSound
  <2>2. PublicationTypeOK
    BY DEF IInv, PublicationSound, PartsSound, PublicationTypeOK, Release
  <2> QED BY <2>1, <2>2 DEF TypeOK
<1>2. SignedOnce
  <2> SUFFICES ASSUME NEW t \in DOMAIN payments, NEW u \in DOMAIN payments,
                      payments[t].run = payments[u].run
               PROVE  t = u
    BY DEF SignedOnce
  <2>1. PICK r \in Runs, i \in 0 .. MaxOffers, k \in 0 .. MaxOffers :
          /\ payments[t].run = r /\ payments[t].offer = i
          /\ payments[u].run = r /\ payments[u].offer = k
    <3>1. payments[t] \in Payment /\ payments[u] \in Payment
      BY ServiceFacts DEF IInv
    <3>2. /\ payments[t].run \in Runs /\ payments[t].offer \in 0 .. MaxOffers
          /\ payments[u].offer \in 0 .. MaxOffers
      BY <3>1 DEF Payment
    <3> QED BY <3>2
  <2>2. journal[<<r, i>>].tx = t /\ journal[<<r, k>>].tx = u /\ t # 0 /\ u # 0
        /\ (i = 0 <=> r \notin Negotiated) /\ (k = 0 <=> r \notin Negotiated)
    BY <2>1, BuyerFacts, ServiceFacts DEF IInv, PaymentSound
  <2>3. r \in Negotiated => i = k
    BY <2>2, BuyerFacts DEF IInv, JournalSound
  <2> QED BY <2>2, <2>3
<1>3. RequestSettledOnce
  BY ServiceFacts DEF IInv, RequestSettledOnce, RowSound
<1>4. DispatchedOnce
  <2>1. ASSUME NEW o \in DOMAIN Retries \cap confirmed PROVE Retries[o] \notin confirmed
    <3>1. o \in Operations /\ Permitted(o)
      BY <2>1, OperationFacts DEF IInv, IntentSound
    <3> QED BY <2>1, <3>1, OperationFacts DEF IInv, Permitted, FailureProven
  <2> QED BY <2>1, OperationFacts DEF IInv, IntentSound, DispatchedOnce
<1> QED BY <1>1, <1>2, <1>3, <1>4 DEF NothingTwice

LEMMA PaymentsMeaning == IInv => PaymentsAreTrue
<1> SUFFICES ASSUME IInv PROVE PaymentsAreTrue
  OBVIOUS
<1>1. PaidAsAgreed
  BY ServiceFacts, BuyerFacts DEF IInv, PaidAsAgreed, PaymentSound
<1>2. SettledIsPaid
  <2>1. \A k \in Journals : journal[k].status \in {"received", "settled"} =>
          row[journal[k].tx] = "settled" /\ journal[k].tx \in transferred
    BY BuyerFacts DEF IInv, Journals, JournalSound
  <2> QED BY <2>1 DEF IInv, BuyersSound, OperationsSettled, SettledIsPaid
<1>3. AnchorsAreTrue
  <2> SUFFICES ASSUME NEW o \in DOMAIN Anchored \cap confirmed PROVE AuditProven(Anchored[o])
    BY DEF AnchorsAreTrue
  <2>1. o \in Operations /\ IntentSound(o)
    BY OperationFacts DEF IInv
  <2>2. Permitted(o)
    BY <2>1, OperationFacts DEF IInv, IntentSound
  <2> QED BY <2>2 DEF Permitted
<1>4. ReleaseIsProven
  <2>1. PartsSound(release)
    BY DEF IInv, PublicationSound
  <2> QED BY <1>3, <2>1 DEF PartsSound, PaidAndServed, ReleaseIsProven, AnchorsAreTrue
<1> QED BY <1>1, <1>2, <1>3, <1>4 DEF PaymentsAreTrue

\* A publication that does not replace the release leaves no section empty that was not.
LEMMA ReleaseKept ==
  ASSUME PublicationSound, [Next]_exchange
  PROVE  ReleaseIsKept
<1>1. CASE UNCHANGED release
  BY <1>1 DEF ReleaseIsKept
<1>2. ASSUME NEW q \in Publishers, PublishRelease(q) PROVE ReleaseIsKept
  <2>1. CASE publisher[q].replace
    <3>1. PICK x : x = [at |-> "idle", parts |-> Nothing, replace |-> FALSE]
      OBVIOUS
    <3>2. publisher'[q] = x /\ x.at = "idle" /\ publisher[q].at = "prepared"
      BY <1>2, <3>1 DEF PublishRelease, PublicationSound
    <3>3. publisher'[q] # publisher[q]
      BY <3>2
    <3> QED BY <2>1, <3>3 DEF ReleaseIsKept
  <2>2. CASE ~publisher[q].replace
    BY <1>2, <2>2 DEF PublishRelease, Merged, ReleaseIsKept
  <2> QED BY <2>1, <2>2
<1>3. UNCHANGED release \/ \E q \in Publishers : PublishRelease(q)
  BY DEF Next, exchange, Publication, Prepare, StopPublication, publicationVars
<1> QED BY <1>1, <1>2, <1>3

LEMMA NothingUndoneStep ==
  ASSUME IInv, [Next]_exchange
  PROVE  [SettledInTime /\ JournalsMoveForward /\ ReleaseIsKept]_exchange
<1>1. ReleaseIsKept
  BY ReleaseKept DEF IInv
<1>2. CASE PurchasesNext
  BY <1>1, <1>2, SubmittedInTime, JournalsForward DEF IInv
<1>3. CASE UNCHANGED vars
  <2>1. SettledInTime
    BY <1>3 DEF vars, serviceVars, SettledInTime
  <2>2. JournalsMoveForward
    BY <1>3, RestingForward DEF IInv, vars, buyerVars
  <2> QED BY <1>1, <2>1, <2>2
<1> QED BY <1>2, <1>3 DEF Next, exchange

-----------------------------------------------------------------------------
\* Nothing uncertain is done again: a purchase is signed for once, through every crash and
\* rerun of purchaseHederaData and purchaseHtsRepositories; the unique indexes of
\* platform_service_payments let one negotiated request settle once; and an operation of
\* hedera-register.ts is dispatched once, its repetition after a proven failure included.
THEOREM NothingIsTwice == Spec => []NothingTwice
<1>1. IInv /\ [Next]_exchange => IInv'
  BY NextSound
<1> QED BY InitSound, <1>1, NothingTwiceMeaning, PTL DEF Spec

\* What is paid was agreed to, and what a journal holds as settled, an anchor claims or the
\* public release of hedera-publish-evidence.ts shows was paid and served.
THEOREM PaymentsTrue == Spec => []PaymentsAreTrue
<1>1. IInv /\ [Next]_exchange => IInv'
  BY NextSound
<1> QED BY InitSound, <1>1, PaymentsMeaning, PTL DEF Spec

\* The service hands no transfer over under an expired offer, a buyer's journal never goes
\* back or changes its transaction, and only a replacing publication empties a section.
THEOREM NothingUndone == Spec => NothingLateOrUndone
<1>1. IInv /\ [Next]_exchange => IInv'
  BY NextSound
<1>2. IInv /\ [Next]_exchange => [SettledInTime /\ JournalsMoveForward /\ ReleaseIsKept]_exchange
  BY NothingUndoneStep
<1> QED BY InitSound, <1>1, <1>2, PTL DEF Spec, NothingLateOrUndone
=============================================================================
