----------------------- MODULE EconomyExecutorProofs -----------------------
(***************************************************************************)
(* The inductive invariant of EconomyExecutor and what follows from it.    *)
(***************************************************************************)
EXTENDS EconomyExecutor, TLAPS

OpLabels == {"submit", "call", "answer", "confirm", "missing"}
HeldPhases == {"approving", "approved", "paying"}
KindPhase(k) ==
  CASE k = "approve" -> "approving"
    [] k = "pay"     -> "paying"
    [] k = "ack"     -> "acknowledging"
    [] k = "abort"   -> "aborting"

\* executor.lock: only its owner runs, and a running call has an order.
Mutex ==
  \A p \in Procs : ~At(p, "off") => lock = p /\ Order(p) \in Orders

\* What a process knows of the files at each point of its call.
KnowsAt(p) ==
  /\ proc[p].pc \notin {"off", "load"} => reservation \in {None, Order(p)}
  /\ proc[p].pc \in OpLabels =>
       /\ proc[p].kind \in Kinds
       /\ phase[Order(p)] = KindPhase(proc[p].kind)
       /\ proc[p].kind = "abort" => abortRevokeRequired[Order(p)]
  /\ At(p, "call") => op[Order(p)][proc[p].kind] = "submitting"
                      /\ calls[Order(p)][proc[p].kind] = 0
  /\ proc[p].pc \in {"answer", "confirm"} => op[Order(p)][proc[p].kind] # "none"
  /\ At(p, "missing") => proc[p].kind \in {"approve", "pay"}
  /\ At(p, "revoked") => phase[Order(p)] = "aborting" /\ tx[Order(p)]["abort"] = "success"
  /\ At(p, "ready") => phase[Order(p)] \in {"prepared", "approving", "approved"}
  /\ At(p, "mark") => phase[Order(p)] = "prepared" /\ reservation = Order(p)
  /\ At(p, "free_end") => phase[Order(p)] \in {"aborted", "prepared"}
  /\ At(p, "free_retry") => phase[Order(p)] = "prepared"
  /\ proc[p].pc \in {"verify", "free_paid", "deliver"} => phase[Order(p)] \in PaidPhases
  /\ At(p, "recover_ack") => phase[Order(p)] = "acknowledging"

Labelled == \A p \in Procs : KnowsAt(p)

\* One submission per journal, one journal per phase that has reached it.
Journal(o) ==
  /\ \A k \in Kinds :
       /\ calls[o][k] <= 1
       /\ op[o][k] = "none" => calls[o][k] = 0
       /\ calls[o][k] = 0 => tx[o][k] = "none"
  /\ op[o]["approve"] # "none" => phase[o] \in HeldPhases \cup AbortPhases \cup PaidPhases
  /\ op[o]["pay"] # "none" => phase[o] \in {"paying"} \cup PaidPhases
  /\ op[o]["abort"] # "none" => phase[o] \in AbortPhases /\ abortRevokeRequired[o]
  /\ op[o]["ack"] # "none" => phase[o] \in {"acknowledging", "completed"}

\* What a phase says about the chain and about the reservation.
PhaseMeans(o) ==
  /\ phase[o] \in {"approved", "paying"} \cup PaidPhases => tx[o]["approve"] = "success"
  /\ phase[o] \in AbortPhases /\ op[o]["approve"] # "none" => tx[o]["approve"] = "success"
  /\ phase[o] \in PaidPhases => tx[o]["pay"] = "success"
  /\ phase[o] \in HeldPhases => reservation = o
  /\ phase[o] = "aborting" /\ abortRevokeRequired[o] => reservation = o
  /\ phase[o] = "aborted" /\ abortRevokeRequired[o] => tx[o]["abort"] = "success"
  /\ settled[o] = IF tx[o]["pay"] = "success" THEN 1 ELSE 0
  /\ phase[o] = "delivered" => output[o] # None
  /\ phase[o] \in {"acknowledging", "completed"} => output[o] # None /\ output[o] = attested[o]
  /\ phase[o] = "completed" => acked[o]

Journalled == \A o \in Orders : Journal(o) /\ PhaseMeans(o)

\* The allowance is zero, or it is the reserved order's and still unspent.
Spendable(o) ==
  /\ allowance = Amount[o]
  /\ tx[o]["approve"] = "success"
  /\ tx[o]["pay"] # "success" /\ tx[o]["abort"] # "success"
  /\ phase[o] \in HeldPhases \cup {"aborting"}
  /\ phase[o] = "aborting" => abortRevokeRequired[o]

Reserved == allowance # 0 => reservation \in Orders /\ Spendable(reservation)

\* The inductive invariant.
IInv == TypeOK /\ Mutex /\ Labelled /\ Journalled /\ Reserved
-----------------------------------------------------------------------------
(* What the three ways to move control do to the processes                 *)

\* Goto moves only p, and keeps its order and operation.
LEMMA GotoMoves ==
  ASSUME proc \in [Procs -> Activation], NEW p \in Procs, NEW l \in Labels, Goto(p, l)
  PROVE  /\ proc' \in [Procs -> Activation] /\ lock' = lock
         /\ proc'[p].pc = l /\ proc'[p].order = proc[p].order
         /\ proc'[p].kind = proc[p].kind
         /\ \A q \in Procs \ {p} : proc'[q] = proc[q]
BY DEF Goto, Activation

\* Perform hands p an operation and moves nobody else.
LEMMA PerformMoves ==
  ASSUME proc \in [Procs -> Activation], NEW p \in Procs, NEW k \in Kinds, Perform(p, k)
  PROVE  /\ proc' \in [Procs -> Activation] /\ lock' = lock
         /\ proc'[p].pc = "submit" /\ proc'[p].order = proc[p].order
         /\ proc'[p].kind = k
         /\ \A q \in Procs \ {p} : proc'[q] = proc[q]
BY DEF Perform, Activation, Labels

\* Exit turns p off, frees the lock and moves nobody else.
LEMMA ExitMoves ==
  ASSUME proc \in [Procs -> Activation], NEW p \in Procs, Exit(p)
  PROVE  /\ proc' \in [Procs -> Activation] /\ lock' = None
         /\ proc'[p].pc = "off"
         /\ \A q \in Procs \ {p} : proc'[q] = proc[q]
BY DEF Exit, Activation, Off, Labels

\* The others are off, so a step of p only has to account for p.
LEMMA OneRuns ==
  ASSUME IInv, NEW p \in Procs, ~At(p, "off"),
         \A q \in Procs \ {p} : proc'[q] = proc[q],
         At(p, "off")' \/ (lock' = p /\ Order(p)' \in Orders),
         KnowsAt(p)'
  PROVE  Mutex' /\ Labelled'
<1>1. \A q \in Procs \ {p} : proc'[q].pc = "off"
  BY DEF IInv, Mutex, At
<1>2. Mutex'
  BY <1>1 DEF Mutex, At
<1>3. ASSUME NEW q \in Procs \ {p} PROVE KnowsAt(q)'
  BY <1>1 DEF KnowsAt, At, OpLabels
<1> QED BY <1>2, <1>3 DEF Labelled

\* A process that is off is bound by nothing.
LEMMA OffKnows ==
  ASSUME NEW p \in Procs, proc'[p].pc = "off"
  PROVE  KnowsAt(p)'
BY DEF KnowsAt, At, OpLabels

\* recover: the operation exists, its transaction succeeded, and no journal appears.
LEMMA RecoveredMeans ==
  ASSUME TypeOK, NEW o \in Orders, NEW k \in Kinds, Recovered(o, k)
  PROVE  /\ op[o][k] # "none" /\ tx[o][k] = "success"
         /\ op' \in [Orders -> [Kinds -> OpStatus]]
         /\ \A x \in Orders, y \in Kinds : op'[x][y] = "none" <=> op[x][y] = "none"
BY DEF TypeOK, Recovered, Present, Kinds, OpStatus

\* prepareAbort: no payment can exist, and an approval has reached the chain.
LEMMA AbortSafeMeans ==
  ASSUME TypeOK, NEW o \in Orders, AbortSafe(o)
  PROVE  /\ op[o]["pay"] = "none" /\ settled[o] = 0
         /\ op[o]["approve"] # "none" => tx[o]["approve"] = "success"
         /\ op' \in [Orders -> [Kinds -> OpStatus]]
         /\ \A x \in Orders, y \in Kinds : op'[x][y] = "none" <=> op[x][y] = "none"
<1>1. CASE op[o]["approve"] = "none" /\ UNCHANGED op
  BY <1>1 DEF AbortSafe, Absent, TypeOK
<1>2. CASE Recovered(o, "approve")
  BY <1>2, RecoveredMeans DEF AbortSafe, Absent, Kinds
<1> QED BY <1>1, <1>2 DEF AbortSafe

-----------------------------------------------------------------------------
(* Each action preserves the invariant                                     *)

\* What p may count on while it runs.
Running(p) ==
  /\ proc \in [Procs -> Activation] /\ ~At(p, "off") /\ lock = p /\ Order(p) \in Orders
  /\ KnowsAt(p) /\ (proc[p].pc \in OpLabels => proc[p].kind \in Kinds)

\* Mutual exclusion and typing of the process that runs.
LEMMA RunningWhenOn ==
  ASSUME IInv, NEW p \in Procs, ~At(p, "off")
  PROVE  Running(p)
BY DEF Running, IInv, TypeOK, Mutex, Labelled, KnowsAt

\* The sets of names, the tuples of variables and the accessors are open to every step.
USE ConstantsAssumption
    DEF At, Order, Running, procVars, fileVars, circleVars, chainVars, Kinds, Phases,
        UnpaidPhases, AbortPhases, PaidPhases, HeldPhases, Labels, OpLabels, OpStatus, TxStatus

\* Taking executor.lock: nobody else is running.
LEMMA InvokeKeeps ==
  ASSUME IInv, NEW p \in Procs, NEW o \in Orders, NEW abortUnpaid \in BOOLEAN,
         Invoke(p, o, abortUnpaid)
  PROVE  IInv'
<1> USE DEF IInv, Invoke, TypeOK, Activation, Off
<1>1. TypeOK' OBVIOUS
<1>2. Mutex' BY DEF Mutex
<1>3. Labelled' BY DEF Mutex, Labelled, KnowsAt, KindPhase, Journalled, Journal
<1>4. Journalled' BY DEF Mutex, Labelled, KnowsAt, KindPhase,
                     Journalled, Journal, PhaseMeans, Reserved, Spendable
<1>5. Reserved' BY DEF Mutex, Labelled, KnowsAt, KindPhase,
                   Journalled, Journal, PhaseMeans, Reserved, Spendable
<1> QED BY <1>1, <1>2, <1>3, <1>4, <1>5

\* A journal is created or read; the reservation is this order's or nobody's.
LEMMA LoadKeeps ==
  ASSUME IInv, NEW p \in Procs, Load(p)
  PROVE  IInv'
<1> USE DEF Load, Persist, Accepted
<1>0. Running(p)
  BY RunningWhenOn
<1>1. /\ proc' \in [Procs -> Activation] /\ lock' \in {p, None}
      /\ \A q \in Procs \ {p} : proc'[q] = proc[q]
      /\ At(p, "off")' \/ (lock' = p /\ Order(p)' = Order(p))
  BY <1>0, GotoMoves
<1>2. TypeOK'
  BY <1>0, <1>1 DEF IInv, TypeOK
<1>3. KnowsAt(p)'
  BY <1>0, GotoMoves DEF IInv, TypeOK, KnowsAt, KindPhase, Journalled, Journal
<1>4. Mutex' /\ Labelled'
  BY <1>0, <1>1, <1>3, OneRuns
<1>5. Journalled'
  BY <1>0 DEF IInv, TypeOK, KnowsAt, KindPhase, Journalled, Journal, PhaseMeans,
     Reserved, Spendable
<1>6. Reserved'
  BY <1>0 DEF IInv, TypeOK, KnowsAt, KindPhase, Journalled, Journal, PhaseMeans,
     Reserved, Spendable
<1> QED BY <1>2, <1>4, <1>5, <1>6 DEF IInv

\* An abort begins only with no payment operation and a settled approval, so a
\* nonzero allowance is the one to revoke.
LEMMA BeginAbortKeeps ==
  ASSUME IInv, NEW p \in Procs, BeginAbort(p)
  PROVE  IInv'
<1> USE DEF BeginAbort
<1>0. Running(p)
  BY RunningWhenOn
<1>1. /\ proc' \in [Procs -> Activation] /\ lock' \in {p, None}
      /\ \A q \in Procs \ {p} : proc'[q] = proc[q]
      /\ At(p, "off")' \/ (lock' = p /\ Order(p)' = Order(p))
  BY <1>0, GotoMoves
<1>a. /\ op[Order(p)]["pay"] = "none" /\ settled[Order(p)] = 0
      /\ op[Order(p)]["approve"] # "none" => tx[Order(p)]["approve"] = "success"
      /\ op' \in [Orders -> [Kinds -> OpStatus]]
      /\ \A x \in Orders, y \in Kinds : op'[x][y] = "none" <=> op[x][y] = "none"
  BY <1>0, AbortSafeMeans DEF IInv
<1>b. allowance # 0 => reservation = Order(p) /\ op[Order(p)]["approve"] # "none"
  BY <1>0 DEF IInv, TypeOK, KnowsAt, Journalled, Journal, Reserved, Spendable
<1>c. /\ abortRevokeRequired'[Order(p)] <=> allowance # 0
      /\ phase'[Order(p)] = "aborting"
  BY <1>0, <1>b DEF IInv, TypeOK
<1>2. TypeOK'
  <2>1. phase' \in [Orders -> Phases] /\ abortRevokeRequired' \in [Orders -> BOOLEAN]
    BY <1>0, <1>a DEF IInv, TypeOK
  <2>2. output' \in [Orders -> Outputs \cup {None}] /\ reservation' \in Orders \cup {None}
    BY <1>0, <1>a DEF IInv, TypeOK
  <2>3. op' \in [Orders -> [Kinds -> OpStatus]]
    BY <1>0, <1>a DEF IInv, TypeOK
  <2>4. tx' \in [Orders -> [Kinds -> TxStatus]] /\ calls' \in [Orders -> [Kinds -> Nat]]
    BY <1>0, <1>a DEF IInv, TypeOK
  <2>5. allowance' \in Nat /\ settled' \in [Orders -> Nat] /\ voided' \in SUBSET Orders
    BY <1>0, <1>a DEF IInv, TypeOK
  <2>6. /\ attested' \in [Orders -> Outputs \cup {None}] /\ acked' \in [Orders -> BOOLEAN]
        /\ served' \in [Orders -> Outputs \cup {None}]
    BY <1>0, <1>a DEF IInv, TypeOK
  <2> QED BY <1>0, <1>1, <2>1, <2>2, <2>3, <2>4, <2>5, <2>6 DEF TypeOK
<1>3. KnowsAt(p)'
  BY <1>0, <1>a, GotoMoves DEF IInv, TypeOK, KnowsAt, KindPhase, Journalled, Journal
<1>4. Mutex' /\ Labelled'
  BY <1>0, <1>1, <1>3, OneRuns
<1>5. Journalled'
  <2> SUFFICES ASSUME NEW x \in Orders PROVE Journal(x)' /\ PhaseMeans(x)'
    BY DEF Journalled
  <2>1. CASE x = Order(p)
    <3>1. Journal(x)'
      BY <1>0, <1>a, <1>b, <1>c, <2>1 DEF IInv, TypeOK, KnowsAt, KindPhase,
         Journalled, Journal, PhaseMeans, Reserved, Spendable
    <3>2. PhaseMeans(x)'
      BY <1>0, <1>a, <1>b, <1>c, <2>1 DEF IInv, TypeOK, KnowsAt, KindPhase,
         Journalled, Journal, PhaseMeans, Reserved, Spendable
    <3> QED BY <3>1, <3>2
  <2>2. CASE x # Order(p)
    <3>1. Journal(x)'
      BY <1>0, <1>a, <2>2 DEF IInv, TypeOK, KnowsAt, KindPhase, Journalled, Journal,
         PhaseMeans, Reserved, Spendable
    <3>2. PhaseMeans(x)'
      BY <1>0, <1>a, <2>2 DEF IInv, TypeOK, KnowsAt, KindPhase, Journalled, Journal,
         PhaseMeans, Reserved, Spendable
    <3> QED BY <3>1, <3>2
  <2> QED BY <2>1, <2>2
<1>6. Reserved'
  BY <1>0, <1>a, <1>b, <1>c DEF IInv, TypeOK, KnowsAt, KindPhase, Journalled,
     Journal, PhaseMeans, Reserved, Spendable
<1> QED BY <1>2, <1>4, <1>5, <1>6 DEF IInv

\* The revocation is recovered, or checked again and handed to Circle.
LEMMA RevokeKeeps ==
  ASSUME IInv, NEW p \in Procs, Revoke(p)
  PROVE  IInv'
<1> USE DEF Revoke, Absent
<1>0. Running(p)
  BY RunningWhenOn
<1>1. /\ proc' \in [Procs -> Activation] /\ lock' \in {p, None}
      /\ \A q \in Procs \ {p} : proc'[q] = proc[q]
      /\ At(p, "off")' \/ (lock' = p /\ Order(p)' = Order(p))
  BY <1>0, GotoMoves, PerformMoves
<1>a. /\ op' \in [Orders -> [Kinds -> OpStatus]]
      /\ \A x \in Orders, y \in Kinds : op'[x][y] = "none" <=> op[x][y] = "none"
      /\ At(p, "revoked")' => tx[Order(p)]["abort"] = "success"
  <2>1. CASE Recovered(Order(p), "abort") /\ Goto(p, "revoked")
    BY <1>0, <2>1, RecoveredMeans DEF IInv
  <2>2. CASE AbortSafe(Order(p)) /\ Perform(p, "abort")
    BY <1>0, <2>2, AbortSafeMeans, PerformMoves DEF IInv
  <2> QED BY <2>1, <2>2
<1>2. TypeOK'
  <2>1. phase' \in [Orders -> Phases] /\ abortRevokeRequired' \in [Orders -> BOOLEAN]
    BY <1>0, <1>a DEF IInv, TypeOK
  <2>2. output' \in [Orders -> Outputs \cup {None}] /\ reservation' \in Orders \cup {None}
    BY <1>0, <1>a DEF IInv, TypeOK
  <2>3. op' \in [Orders -> [Kinds -> OpStatus]]
    BY <1>0, <1>a DEF IInv, TypeOK
  <2>4. tx' \in [Orders -> [Kinds -> TxStatus]] /\ calls' \in [Orders -> [Kinds -> Nat]]
    BY <1>0, <1>a DEF IInv, TypeOK
  <2>5. allowance' \in Nat /\ settled' \in [Orders -> Nat] /\ voided' \in SUBSET Orders
    BY <1>0, <1>a DEF IInv, TypeOK
  <2>6. /\ attested' \in [Orders -> Outputs \cup {None}] /\ acked' \in [Orders -> BOOLEAN]
        /\ served' \in [Orders -> Outputs \cup {None}]
    BY <1>0, <1>a DEF IInv, TypeOK
  <2> QED BY <1>0, <1>1, <2>1, <2>2, <2>3, <2>4, <2>5, <2>6 DEF TypeOK
<1>3. KnowsAt(p)'
  BY <1>0, <1>a, GotoMoves, PerformMoves DEF IInv, TypeOK, KnowsAt, KindPhase,
     Journalled, Journal
<1>4. Mutex' /\ Labelled'
  BY <1>0, <1>1, <1>3, OneRuns
<1>5. Journalled'
  <2> SUFFICES ASSUME NEW x \in Orders PROVE Journal(x)' /\ PhaseMeans(x)'
    BY DEF Journalled
  <2>1. CASE x = Order(p)
    <3>1. Journal(x)'
      BY <1>0, <1>a, <2>1 DEF IInv, TypeOK, KnowsAt, KindPhase, Journalled, Journal,
         PhaseMeans, Reserved, Spendable
    <3>2. PhaseMeans(x)'
      BY <1>0, <1>a, <2>1 DEF IInv, TypeOK, KnowsAt, KindPhase, Journalled, Journal,
         PhaseMeans, Reserved, Spendable
    <3> QED BY <3>1, <3>2
  <2>2. CASE x # Order(p)
    <3>1. Journal(x)'
      BY <1>0, <1>a, <2>2 DEF IInv, TypeOK, KnowsAt, KindPhase, Journalled, Journal,
         PhaseMeans, Reserved, Spendable
    <3>2. PhaseMeans(x)'
      BY <1>0, <1>a, <2>2 DEF IInv, TypeOK, KnowsAt, KindPhase, Journalled, Journal,
         PhaseMeans, Reserved, Spendable
    <3> QED BY <3>1, <3>2
  <2> QED BY <2>1, <2>2
<1>6. Reserved'
  BY <1>0, <1>a DEF IInv, TypeOK, KnowsAt, KindPhase, Journalled, Journal,
     PhaseMeans, Reserved, Spendable
<1> QED BY <1>2, <1>4, <1>5, <1>6 DEF IInv

\* An order becomes aborted with no allowance of its own left.
LEMMA ConfirmAbortKeeps ==
  ASSUME IInv, NEW p \in Procs, ConfirmAbort(p)
  PROVE  IInv'
<1> USE DEF ConfirmAbort, Persist, VerifyAborted, Absent
<1>0. Running(p)
  BY RunningWhenOn
<1>1. /\ proc' \in [Procs -> Activation] /\ lock' \in {p, None}
      /\ \A q \in Procs \ {p} : proc'[q] = proc[q]
      /\ At(p, "off")' \/ (lock' = p /\ Order(p)' = Order(p))
  BY <1>0, GotoMoves
<1>2. TypeOK'
  BY <1>0, <1>1 DEF IInv, TypeOK
<1>3. KnowsAt(p)'
  BY <1>0, GotoMoves DEF IInv, TypeOK, KnowsAt, KindPhase, Journalled, Journal
<1>4. Mutex' /\ Labelled'
  BY <1>0, <1>1, <1>3, OneRuns
<1>5. Journalled'
  BY <1>0 DEF IInv, TypeOK, KnowsAt, KindPhase, Journalled, Journal, PhaseMeans,
     Reserved, Spendable
<1>6. Reserved'
  BY <1>0 DEF IInv, TypeOK, KnowsAt, KindPhase, Journalled, Journal, PhaseMeans,
     Reserved, Spendable
<1> QED BY <1>2, <1>4, <1>5, <1>6 DEF IInv

\* Rerunning an aborted order checks it again and gives the reservation back.
LEMMA ReplayAbortedKeeps ==
  ASSUME IInv, NEW p \in Procs, ReplayAborted(p)
  PROVE  IInv'
<1> USE DEF ReplayAborted
<1>0. Running(p)
  BY RunningWhenOn
<1>1. /\ proc' \in [Procs -> Activation] /\ lock' \in {p, None}
      /\ \A q \in Procs \ {p} : proc'[q] = proc[q]
      /\ At(p, "off")' \/ (lock' = p /\ Order(p)' = Order(p))
  BY <1>0, GotoMoves
<1>2. TypeOK'
  BY <1>0, <1>1 DEF IInv, TypeOK
<1>3. KnowsAt(p)'
  BY <1>0, GotoMoves DEF IInv, TypeOK, KnowsAt, KindPhase, Journalled, Journal
<1>4. Mutex' /\ Labelled'
  BY <1>0, <1>1, <1>3, OneRuns
<1>5. Journalled'
  BY <1>0 DEF IInv, TypeOK, KnowsAt, KindPhase, Journalled, Journal, PhaseMeans,
     Reserved, Spendable
<1>6. Reserved'
  BY <1>0 DEF IInv, TypeOK, KnowsAt, KindPhase, Journalled, Journal, PhaseMeans,
     Reserved, Spendable
<1> QED BY <1>2, <1>4, <1>5, <1>6 DEF IInv

\* The reservation is only dropped when its order has no allowance.
LEMMA ReleaseKeeps ==
  ASSUME IInv, NEW p \in Procs, Release(p)
  PROVE  IInv'
<1> USE DEF Release
<1>0. Running(p)
  BY RunningWhenOn
<1>1. /\ proc' \in [Procs -> Activation] /\ lock' \in {p, None}
      /\ \A q \in Procs \ {p} : proc'[q] = proc[q]
      /\ At(p, "off")' \/ (lock' = p /\ Order(p)' = Order(p))
  BY <1>0, GotoMoves, ExitMoves, OffKnows
<1>2. TypeOK'
  BY <1>0, <1>1 DEF IInv, TypeOK
<1>3. KnowsAt(p)'
  BY <1>0, GotoMoves, ExitMoves, OffKnows DEF IInv, TypeOK, KnowsAt, KindPhase,
     Journalled, Journal
<1>4. Mutex' /\ Labelled'
  BY <1>0, <1>1, <1>3, OneRuns
<1>5. Journalled'
  BY <1>0 DEF IInv, TypeOK, KnowsAt, KindPhase, Journalled, Journal, PhaseMeans,
     Reserved, Spendable
<1>6. Reserved'
  BY <1>0 DEF IInv, TypeOK, KnowsAt, KindPhase, Journalled, Journal, PhaseMeans,
     Reserved, Spendable
<1> QED BY <1>2, <1>4, <1>5, <1>6 DEF IInv

\* A phase is undone only when its operation was never written.
LEMMA RollBackKeeps ==
  ASSUME IInv, NEW p \in Procs, RollBack(p)
  PROVE  IInv'
<1> USE DEF RollBack, Persist, Absent
<1>0. Running(p)
  BY RunningWhenOn
<1>1. /\ proc' \in [Procs -> Activation] /\ lock' \in {p, None}
      /\ \A q \in Procs \ {p} : proc'[q] = proc[q]
      /\ At(p, "off")' \/ (lock' = p /\ Order(p)' = Order(p))
  BY <1>0, GotoMoves
<1>2. TypeOK'
  <2>0. Order(p) \in Orders /\ phase \in [Orders -> Phases]
    BY <1>0 DEF IInv, TypeOK
  <2>1. phase' \in [Orders -> Phases] /\ abortRevokeRequired' \in [Orders -> BOOLEAN]
    <3>1. \E v \in Phases : phase' = [phase EXCEPT ![Order(p)] = v]
      BY DEF Phases
    <3>2. abortRevokeRequired' \in [Orders -> BOOLEAN]
      BY <1>0 DEF IInv, TypeOK
    <3>3. PICK v \in Phases : phase' = [phase EXCEPT ![Order(p)] = v]
      BY <3>1
    <3>4. phase' \in [Orders -> Phases]
      <4> HIDE DEF RollBack, Persist, Absent
      <4> QED BY <2>0, <3>3
    <3> QED BY <3>2, <3>4
  <2>2. output' \in [Orders -> Outputs \cup {None}] /\ reservation' \in Orders \cup {None}
    BY <1>0 DEF IInv, TypeOK
  <2>3. op' \in [Orders -> [Kinds -> OpStatus]]
    BY <1>0 DEF IInv, TypeOK
  <2>4. tx' \in [Orders -> [Kinds -> TxStatus]] /\ calls' \in [Orders -> [Kinds -> Nat]]
    BY <1>0 DEF IInv, TypeOK
  <2>5. allowance' \in Nat /\ settled' \in [Orders -> Nat] /\ voided' \in SUBSET Orders
    BY <1>0 DEF IInv, TypeOK
  <2>6. /\ attested' \in [Orders -> Outputs \cup {None}] /\ acked' \in [Orders -> BOOLEAN]
        /\ served' \in [Orders -> Outputs \cup {None}]
    BY <1>0 DEF IInv, TypeOK
  <2> QED BY <1>0, <1>1, <2>1, <2>2, <2>3, <2>4, <2>5, <2>6 DEF TypeOK
<1>3. KnowsAt(p)'
  BY <1>0, GotoMoves DEF IInv, TypeOK, KnowsAt, KindPhase, Journalled, Journal
<1>4. Mutex' /\ Labelled'
  BY <1>0, <1>1, <1>3, OneRuns
<1>5. Journalled'
  <2> SUFFICES ASSUME NEW x \in Orders PROVE Journal(x)' /\ PhaseMeans(x)'
    BY DEF Journalled
  <2>1. CASE x = Order(p)
    <3>1. Journal(x)'
      BY <1>0, <2>1 DEF IInv, TypeOK, KnowsAt, KindPhase, Journalled, Journal,
         PhaseMeans, Reserved, Spendable
    <3>2. PhaseMeans(x)'
      BY <1>0, <2>1 DEF IInv, TypeOK, KnowsAt, KindPhase, Journalled, Journal,
         PhaseMeans, Reserved, Spendable
    <3> QED BY <3>1, <3>2
  <2>2. CASE x # Order(p)
    <3>1. Journal(x)'
      BY <1>0, <2>2 DEF IInv, TypeOK, KnowsAt, KindPhase, Journalled, Journal,
         PhaseMeans, Reserved, Spendable
    <3>2. PhaseMeans(x)'
      BY <1>0, <2>2 DEF IInv, TypeOK, KnowsAt, KindPhase, Journalled, Journal,
         PhaseMeans, Reserved, Spendable
    <3> QED BY <3>1, <3>2
  <2> QED BY <2>1, <2>2
<1>6. Reserved'
  BY <1>0 DEF IInv, TypeOK, KnowsAt, KindPhase, Journalled, Journal, PhaseMeans,
     Reserved, Spendable
<1> QED BY <1>2, <1>4, <1>5, <1>6 DEF IInv

\* The chain is read; nothing is written.
LEMMA PreflightKeeps ==
  ASSUME IInv, NEW p \in Procs, Preflight(p)
  PROVE  IInv'
<1> USE DEF Preflight
<1>0. Running(p)
  BY RunningWhenOn
<1>1. /\ proc' \in [Procs -> Activation] /\ lock' \in {p, None}
      /\ \A q \in Procs \ {p} : proc'[q] = proc[q]
      /\ At(p, "off")' \/ (lock' = p /\ Order(p)' = Order(p))
  BY <1>0, GotoMoves
<1>2. TypeOK'
  BY <1>0, <1>1 DEF IInv, TypeOK
<1>3. KnowsAt(p)'
  BY <1>0, GotoMoves DEF IInv, TypeOK, KnowsAt, KindPhase, Journalled, Journal
<1>4. Mutex' /\ Labelled'
  BY <1>0, <1>1, <1>3, OneRuns
<1>5. Journalled'
  BY <1>0 DEF IInv, TypeOK, KnowsAt, KindPhase, Journalled, Journal, PhaseMeans,
     Reserved, Spendable
<1>6. Reserved'
  BY <1>0 DEF IInv, TypeOK, KnowsAt, KindPhase, Journalled, Journal, PhaseMeans,
     Reserved, Spendable
<1> QED BY <1>2, <1>4, <1>5, <1>6 DEF IInv

\* A recovered approval has reached the chain.
LEMMA RecoverApprovalKeeps ==
  ASSUME IInv, NEW p \in Procs, RecoverApproval(p)
  PROVE  IInv'
<1> USE DEF RecoverApproval, Persist, Recovered, Present
<1>0. Running(p)
  BY RunningWhenOn
<1>1. /\ proc' \in [Procs -> Activation] /\ lock' \in {p, None}
      /\ \A q \in Procs \ {p} : proc'[q] = proc[q]
      /\ At(p, "off")' \/ (lock' = p /\ Order(p)' = Order(p))
  BY <1>0
<1>2. TypeOK'
  BY <1>0, <1>1 DEF IInv, TypeOK
<1>3. KnowsAt(p)'
  BY <1>0 DEF IInv, TypeOK, KnowsAt, KindPhase, Journalled, Journal
<1>4. Mutex' /\ Labelled'
  BY <1>0, <1>1, <1>3, OneRuns
<1>5. Journalled'
  BY <1>0 DEF IInv, TypeOK, KnowsAt, KindPhase, Journalled, Journal, PhaseMeans,
     Reserved, Spendable
<1>6. Reserved'
  BY <1>0 DEF IInv, TypeOK, KnowsAt, KindPhase, Journalled, Journal, PhaseMeans,
     Reserved, Spendable
<1> QED BY <1>2, <1>4, <1>5, <1>6 DEF IInv

\* The reservation precedes the first operation, with the allowance at zero.
LEMMA ReserveKeeps ==
  ASSUME IInv, NEW p \in Procs, Reserve(p)
  PROVE  IInv'
<1> USE DEF Reserve
<1>0. Running(p)
  BY RunningWhenOn
<1>1. /\ proc' \in [Procs -> Activation] /\ lock' \in {p, None}
      /\ \A q \in Procs \ {p} : proc'[q] = proc[q]
      /\ At(p, "off")' \/ (lock' = p /\ Order(p)' = Order(p))
  BY <1>0, GotoMoves
<1>2. TypeOK'
  BY <1>0, <1>1 DEF IInv, TypeOK
<1>3. KnowsAt(p)'
  BY <1>0, GotoMoves DEF IInv, TypeOK, KnowsAt, KindPhase, Journalled, Journal
<1>4. Mutex' /\ Labelled'
  BY <1>0, <1>1, <1>3, OneRuns
<1>5. Journalled'
  BY <1>0 DEF IInv, TypeOK, KnowsAt, KindPhase, Journalled, Journal, PhaseMeans,
     Reserved, Spendable
<1>6. Reserved'
  BY <1>0 DEF IInv, TypeOK, KnowsAt, KindPhase, Journalled, Journal, PhaseMeans,
     Reserved, Spendable
<1> QED BY <1>2, <1>4, <1>5, <1>6 DEF IInv

\* The phase precedes the approval.
LEMMA MarkApprovingKeeps ==
  ASSUME IInv, NEW p \in Procs, MarkApproving(p)
  PROVE  IInv'
<1> USE DEF MarkApproving, Persist
<1>0. Running(p)
  BY RunningWhenOn
<1>1. /\ proc' \in [Procs -> Activation] /\ lock' \in {p, None}
      /\ \A q \in Procs \ {p} : proc'[q] = proc[q]
      /\ At(p, "off")' \/ (lock' = p /\ Order(p)' = Order(p))
  BY <1>0, PerformMoves
<1>2. TypeOK'
  BY <1>0, <1>1 DEF IInv, TypeOK
<1>3. KnowsAt(p)'
  BY <1>0, PerformMoves DEF IInv, TypeOK, KnowsAt, KindPhase, Journalled, Journal
<1>4. Mutex' /\ Labelled'
  BY <1>0, <1>1, <1>3, OneRuns
<1>5. Journalled'
  BY <1>0 DEF IInv, TypeOK, KnowsAt, KindPhase, Journalled, Journal, PhaseMeans,
     Reserved, Spendable
<1>6. Reserved'
  BY <1>0 DEF IInv, TypeOK, KnowsAt, KindPhase, Journalled, Journal, PhaseMeans,
     Reserved, Spendable
<1> QED BY <1>2, <1>4, <1>5, <1>6 DEF IInv

\* The phase precedes the payment, after the approval reached the chain.
LEMMA MarkPayingKeeps ==
  ASSUME IInv, NEW p \in Procs, MarkPaying(p)
  PROVE  IInv'
<1> USE DEF MarkPaying, Persist
<1>0. Running(p)
  BY RunningWhenOn
<1>1. /\ proc' \in [Procs -> Activation] /\ lock' \in {p, None}
      /\ \A q \in Procs \ {p} : proc'[q] = proc[q]
      /\ At(p, "off")' \/ (lock' = p /\ Order(p)' = Order(p))
  BY <1>0, PerformMoves
<1>2. TypeOK'
  BY <1>0, <1>1 DEF IInv, TypeOK
<1>3. KnowsAt(p)'
  BY <1>0, PerformMoves DEF IInv, TypeOK, KnowsAt, KindPhase, Journalled, Journal
<1>4. Mutex' /\ Labelled'
  BY <1>0, <1>1, <1>3, OneRuns
<1>5. Journalled'
  BY <1>0 DEF IInv, TypeOK, KnowsAt, KindPhase, Journalled, Journal, PhaseMeans,
     Reserved, Spendable
<1>6. Reserved'
  BY <1>0 DEF IInv, TypeOK, KnowsAt, KindPhase, Journalled, Journal, PhaseMeans,
     Reserved, Spendable
<1> QED BY <1>2, <1>4, <1>5, <1>6 DEF IInv

\* An approval or payment that was never written is undone.
LEMMA UndoSubmissionKeeps ==
  ASSUME IInv, NEW p \in Procs, UndoSubmission(p)
  PROVE  IInv'
<1> USE DEF UndoSubmission, Persist, Absent
<1>0. Running(p)
  BY RunningWhenOn
<1>1. /\ proc' \in [Procs -> Activation] /\ lock' \in {p, None}
      /\ \A q \in Procs \ {p} : proc'[q] = proc[q]
      /\ At(p, "off")' \/ (lock' = p /\ Order(p)' = Order(p))
  BY <1>0, GotoMoves, ExitMoves, OffKnows
<1>2. TypeOK'
  <2>1. phase' \in [Orders -> Phases] /\ abortRevokeRequired' \in [Orders -> BOOLEAN]
    BY <1>0 DEF IInv, TypeOK
  <2>2. output' \in [Orders -> Outputs \cup {None}] /\ reservation' \in Orders \cup {None}
    BY <1>0 DEF IInv, TypeOK
  <2>3. op' \in [Orders -> [Kinds -> OpStatus]]
    BY <1>0 DEF IInv, TypeOK
  <2>4. tx' \in [Orders -> [Kinds -> TxStatus]] /\ calls' \in [Orders -> [Kinds -> Nat]]
    BY <1>0 DEF IInv, TypeOK
  <2>5. allowance' \in Nat /\ settled' \in [Orders -> Nat] /\ voided' \in SUBSET Orders
    BY <1>0 DEF IInv, TypeOK
  <2>6. /\ attested' \in [Orders -> Outputs \cup {None}] /\ acked' \in [Orders -> BOOLEAN]
        /\ served' \in [Orders -> Outputs \cup {None}]
    BY <1>0 DEF IInv, TypeOK
  <2> QED BY <1>0, <1>1, <2>1, <2>2, <2>3, <2>4, <2>5, <2>6 DEF TypeOK
<1>3. KnowsAt(p)'
  BY <1>0, GotoMoves, ExitMoves, OffKnows DEF IInv, TypeOK, KnowsAt, KindPhase,
     Journalled, Journal
<1>4. Mutex' /\ Labelled'
  BY <1>0, <1>1, <1>3, OneRuns
<1>5. Journalled'
  <2> SUFFICES ASSUME NEW x \in Orders PROVE Journal(x)' /\ PhaseMeans(x)'
    BY DEF Journalled
  <2>1. CASE x = Order(p)
    <3>1. Journal(x)'
      BY <1>0, <2>1 DEF IInv, TypeOK, KnowsAt, KindPhase, Journalled, Journal,
         PhaseMeans, Reserved, Spendable
    <3>2. PhaseMeans(x)'
      BY <1>0, <2>1 DEF IInv, TypeOK, KnowsAt, KindPhase, Journalled, Journal,
         PhaseMeans, Reserved, Spendable
    <3> QED BY <3>1, <3>2
  <2>2. CASE x # Order(p)
    <3>1. Journal(x)'
      BY <1>0, <2>2 DEF IInv, TypeOK, KnowsAt, KindPhase, Journalled, Journal,
         PhaseMeans, Reserved, Spendable
    <3>2. PhaseMeans(x)'
      BY <1>0, <2>2 DEF IInv, TypeOK, KnowsAt, KindPhase, Journalled, Journal,
         PhaseMeans, Reserved, Spendable
    <3> QED BY <3>1, <3>2
  <2> QED BY <2>1, <2>2
<1>6. Reserved'
  BY <1>0 DEF IInv, TypeOK, KnowsAt, KindPhase, Journalled, Journal, PhaseMeans,
     Reserved, Spendable
<1> QED BY <1>2, <1>4, <1>5, <1>6 DEF IInv

\* A recovered payment has settled.
LEMMA RecoverPaymentKeeps ==
  ASSUME IInv, NEW p \in Procs, RecoverPayment(p)
  PROVE  IInv'
<1> USE DEF RecoverPayment, Persist, Recovered, Present
<1>0. Running(p)
  BY RunningWhenOn
<1>1. /\ proc' \in [Procs -> Activation] /\ lock' \in {p, None}
      /\ \A q \in Procs \ {p} : proc'[q] = proc[q]
      /\ At(p, "off")' \/ (lock' = p /\ Order(p)' = Order(p))
  BY <1>0, GotoMoves
<1>2. TypeOK'
  BY <1>0, <1>1 DEF IInv, TypeOK
<1>3. KnowsAt(p)'
  BY <1>0, GotoMoves DEF IInv, TypeOK, KnowsAt, KindPhase, Journalled, Journal
<1>4. Mutex' /\ Labelled'
  BY <1>0, <1>1, <1>3, OneRuns
<1>5. Journalled'
  BY <1>0 DEF IInv, TypeOK, KnowsAt, KindPhase, Journalled, Journal, PhaseMeans,
     Reserved, Spendable
<1>6. Reserved'
  BY <1>0 DEF IInv, TypeOK, KnowsAt, KindPhase, Journalled, Journal, PhaseMeans,
     Reserved, Spendable
<1> QED BY <1>2, <1>4, <1>5, <1>6 DEF IInv

\* A paid phase has its payment on the chain.
LEMMA VerifyPaymentKeeps ==
  ASSUME IInv, NEW p \in Procs, VerifyPayment(p)
  PROVE  IInv'
<1> USE DEF VerifyPayment, PaidRun
<1>0. Running(p)
  BY RunningWhenOn
<1>1. /\ proc' \in [Procs -> Activation] /\ lock' \in {p, None}
      /\ \A q \in Procs \ {p} : proc'[q] = proc[q]
      /\ At(p, "off")' \/ (lock' = p /\ Order(p)' = Order(p))
  BY <1>0, GotoMoves
<1>2. TypeOK'
  BY <1>0, <1>1 DEF IInv, TypeOK
<1>3. KnowsAt(p)'
  BY <1>0, GotoMoves DEF IInv, TypeOK, KnowsAt, KindPhase, Journalled, Journal
<1>4. Mutex' /\ Labelled'
  BY <1>0, <1>1, <1>3, OneRuns
<1>5. Journalled'
  BY <1>0 DEF IInv, TypeOK, KnowsAt, KindPhase, Journalled, Journal, PhaseMeans,
     Reserved, Spendable
<1>6. Reserved'
  BY <1>0 DEF IInv, TypeOK, KnowsAt, KindPhase, Journalled, Journal, PhaseMeans,
     Reserved, Spendable
<1> QED BY <1>2, <1>4, <1>5, <1>6 DEF IInv

\* The output is stored with the phase.
LEMMA DeliverKeeps ==
  ASSUME IInv, NEW p \in Procs, Deliver(p)
  PROVE  IInv'
<1> USE DEF Deliver
<1>0. Running(p)
  BY RunningWhenOn
<1>1. /\ proc' \in [Procs -> Activation] /\ lock' \in {p, None}
      /\ \A q \in Procs \ {p} : proc'[q] = proc[q]
      /\ At(p, "off")' \/ (lock' = p /\ Order(p)' = Order(p))
  BY <1>0
<1>2. TypeOK'
  BY <1>0, <1>1 DEF IInv, TypeOK
<1>3. KnowsAt(p)'
  BY <1>0 DEF IInv, TypeOK, KnowsAt, KindPhase, Journalled, Journal
<1>4. Mutex' /\ Labelled'
  BY <1>0, <1>1, <1>3, OneRuns
<1>5. Journalled'
  BY <1>0 DEF IInv, TypeOK, KnowsAt, KindPhase, Journalled, Journal, PhaseMeans,
     Reserved, Spendable
<1>6. Reserved'
  BY <1>0 DEF IInv, TypeOK, KnowsAt, KindPhase, Journalled, Journal, PhaseMeans,
     Reserved, Spendable
<1> QED BY <1>2, <1>4, <1>5, <1>6 DEF IInv

\* Acknowledging starts, or is found finished, with the attested output on file.
LEMMA VerifyDeliveryKeeps ==
  ASSUME IInv, NEW p \in Procs, VerifyDelivery(p)
  PROVE  IInv'
<1> USE DEF VerifyDelivery, Persist
<1>0. Running(p)
  BY RunningWhenOn
<1>1. /\ proc' \in [Procs -> Activation] /\ lock' \in {p, None}
      /\ \A q \in Procs \ {p} : proc'[q] = proc[q]
      /\ At(p, "off")' \/ (lock' = p /\ Order(p)' = Order(p))
  BY <1>0, GotoMoves, PerformMoves, ExitMoves, OffKnows
<1>2. TypeOK'
  BY <1>0, <1>1 DEF IInv, TypeOK
<1>3. KnowsAt(p)'
  BY <1>0, GotoMoves, PerformMoves, ExitMoves, OffKnows DEF IInv, TypeOK, KnowsAt,
     KindPhase, Journalled, Journal
<1>4. Mutex' /\ Labelled'
  BY <1>0, <1>1, <1>3, OneRuns
<1>5. Journalled'
  BY <1>0 DEF IInv, TypeOK, KnowsAt, KindPhase, Journalled, Journal, PhaseMeans,
     Reserved, Spendable
<1>6. Reserved'
  BY <1>0 DEF IInv, TypeOK, KnowsAt, KindPhase, Journalled, Journal, PhaseMeans,
     Reserved, Spendable
<1> QED BY <1>2, <1>4, <1>5, <1>6 DEF IInv

\* A recovered acknowledgment is on the ledger.
LEMMA RecoverAckKeeps ==
  ASSUME IInv, NEW p \in Procs, RecoverAck(p)
  PROVE  IInv'
<1> USE DEF RecoverAck, Persist, Recovered, Present
<1>0. Running(p)
  BY RunningWhenOn
<1>1. /\ proc' \in [Procs -> Activation] /\ lock' \in {p, None}
      /\ \A q \in Procs \ {p} : proc'[q] = proc[q]
      /\ At(p, "off")' \/ (lock' = p /\ Order(p)' = Order(p))
  BY <1>0, ExitMoves, OffKnows
<1>2. TypeOK'
  BY <1>0, <1>1 DEF IInv, TypeOK
<1>3. KnowsAt(p)'
  BY <1>0, ExitMoves, OffKnows DEF IInv, TypeOK, KnowsAt, KindPhase, Journalled, Journal
<1>4. Mutex' /\ Labelled'
  BY <1>0, <1>1, <1>3, OneRuns
<1>5. Journalled'
  BY <1>0 DEF IInv, TypeOK, KnowsAt, KindPhase, Journalled, Journal, PhaseMeans,
     Reserved, Spendable
<1>6. Reserved'
  BY <1>0 DEF IInv, TypeOK, KnowsAt, KindPhase, Journalled, Journal, PhaseMeans,
     Reserved, Spendable
<1> QED BY <1>2, <1>4, <1>5, <1>6 DEF IInv

\* The journal of an operation is written before Circle is called.
LEMMA SubmitKeeps ==
  ASSUME IInv, NEW p \in Procs, Submit(p)
  PROVE  IInv'
<1> USE DEF Submit
<1>0. Running(p)
  BY RunningWhenOn
<1>1. /\ proc' \in [Procs -> Activation] /\ lock' \in {p, None}
      /\ \A q \in Procs \ {p} : proc'[q] = proc[q]
      /\ At(p, "off")' \/ (lock' = p /\ Order(p)' = Order(p))
  BY <1>0, GotoMoves
<1>2. TypeOK'
  BY <1>0, <1>1 DEF IInv, TypeOK
<1>3. KnowsAt(p)'
  BY <1>0, GotoMoves DEF IInv, TypeOK, KnowsAt, KindPhase, Journalled, Journal
<1>4. Mutex' /\ Labelled'
  BY <1>0, <1>1, <1>3, OneRuns
<1>5. Journalled'
  BY <1>0 DEF IInv, TypeOK, KnowsAt, KindPhase, Journalled, Journal, PhaseMeans,
     Reserved, Spendable
<1>6. Reserved'
  BY <1>0 DEF IInv, TypeOK, KnowsAt, KindPhase, Journalled, Journal, PhaseMeans,
     Reserved, Spendable
<1> QED BY <1>2, <1>4, <1>5, <1>6 DEF IInv

\* Circle is called once, right after the journal was written.
LEMMA CallKeeps ==
  ASSUME IInv, NEW p \in Procs, Call(p)
  PROVE  IInv'
<1> USE DEF Call
<1>0. Running(p)
  BY RunningWhenOn
<1>1. /\ proc' \in [Procs -> Activation] /\ lock' \in {p, None}
      /\ \A q \in Procs \ {p} : proc'[q] = proc[q]
      /\ At(p, "off")' \/ (lock' = p /\ Order(p)' = Order(p))
  BY <1>0, GotoMoves
<1>2. TypeOK'
  BY <1>0, <1>1 DEF IInv, TypeOK
<1>3. KnowsAt(p)'
  BY <1>0, GotoMoves DEF IInv, TypeOK, KnowsAt, KindPhase, Journalled, Journal
<1>4. Mutex' /\ Labelled'
  BY <1>0, <1>1, <1>3, OneRuns
<1>5. Journalled'
  BY <1>0 DEF IInv, TypeOK, KnowsAt, KindPhase, Journalled, Journal, PhaseMeans,
     Reserved, Spendable
<1>6. Reserved'
  BY <1>0 DEF IInv, TypeOK, KnowsAt, KindPhase, Journalled, Journal, PhaseMeans,
     Reserved, Spendable
<1> QED BY <1>2, <1>4, <1>5, <1>6 DEF IInv

\* A usable answer, or an uncertain one: the journal stays.
LEMMA AnswerKeeps ==
  ASSUME IInv, NEW p \in Procs, Answer(p)
  PROVE  IInv'
<1> USE DEF Answer
<1>0. Running(p)
  BY RunningWhenOn
<1>1. /\ proc' \in [Procs -> Activation] /\ lock' \in {p, None}
      /\ \A q \in Procs \ {p} : proc'[q] = proc[q]
      /\ At(p, "off")' \/ (lock' = p /\ Order(p)' = Order(p))
  BY <1>0, GotoMoves, ExitMoves, OffKnows
<1>a. proc[p].kind \in Kinds /\ op \in [Orders -> [Kinds -> OpStatus]]
  BY <1>0 DEF IInv, TypeOK
<1>2. TypeOK'
  <2>1. phase' \in [Orders -> Phases] /\ abortRevokeRequired' \in [Orders -> BOOLEAN]
    BY <1>0 DEF IInv, TypeOK
  <2>2. output' \in [Orders -> Outputs \cup {None}] /\ reservation' \in Orders \cup {None}
    BY <1>0 DEF IInv, TypeOK
  <2>3. op' \in [Orders -> [Kinds -> OpStatus]]
    <3>1. CASE op' = [op EXCEPT ![Order(p)][proc[p].kind] = "submitted"]
      BY <1>0, <1>a, <3>1
    <3>2. CASE op' = [op EXCEPT ![Order(p)][proc[p].kind] = "uncertain"]
      BY <1>0, <1>a, <3>2
    <3> QED BY <3>1, <3>2
  <2>4. tx' \in [Orders -> [Kinds -> TxStatus]] /\ calls' \in [Orders -> [Kinds -> Nat]]
    BY <1>0 DEF IInv, TypeOK
  <2>5. allowance' \in Nat /\ settled' \in [Orders -> Nat] /\ voided' \in SUBSET Orders
    BY <1>0 DEF IInv, TypeOK
  <2>6. /\ attested' \in [Orders -> Outputs \cup {None}] /\ acked' \in [Orders -> BOOLEAN]
        /\ served' \in [Orders -> Outputs \cup {None}]
    BY <1>0 DEF IInv, TypeOK
  <2> QED BY <1>0, <1>1, <2>1, <2>2, <2>3, <2>4, <2>5, <2>6 DEF TypeOK
<1>3. KnowsAt(p)'
  BY <1>0, GotoMoves, ExitMoves, OffKnows DEF IInv, TypeOK, KnowsAt, KindPhase,
     Journalled, Journal
<1>4. Mutex' /\ Labelled'
  BY <1>0, <1>1, <1>3, OneRuns
<1>5. Journalled'
  <2> SUFFICES ASSUME NEW x \in Orders PROVE Journal(x)' /\ PhaseMeans(x)'
    BY DEF Journalled
  <2>1. CASE x = Order(p)
    <3>1. Journal(x)'
      BY <1>0, <2>1 DEF IInv, TypeOK, KnowsAt, KindPhase, Journalled, Journal,
         PhaseMeans, Reserved, Spendable
    <3>2. PhaseMeans(x)'
      BY <1>0, <2>1 DEF IInv, TypeOK, KnowsAt, KindPhase, Journalled, Journal,
         PhaseMeans, Reserved, Spendable
    <3> QED BY <3>1, <3>2
  <2>2. CASE x # Order(p)
    <3>1. Journal(x)'
      BY <1>0, <2>2 DEF IInv, TypeOK, KnowsAt, KindPhase, Journalled, Journal,
         PhaseMeans, Reserved, Spendable
    <3>2. PhaseMeans(x)'
      BY <1>0, <2>2 DEF IInv, TypeOK, KnowsAt, KindPhase, Journalled, Journal,
         PhaseMeans, Reserved, Spendable
    <3> QED BY <3>1, <3>2
  <2> QED BY <2>1, <2>2
<1>6. Reserved'
  BY <1>0 DEF IInv, TypeOK, KnowsAt, KindPhase, Journalled, Journal, PhaseMeans,
     Reserved, Spendable
<1> QED BY <1>2, <1>4, <1>5, <1>6 DEF IInv

\* A finalized receipt moves the phase on.
LEMMA ConfirmKeeps ==
  ASSUME IInv, NEW p \in Procs, Confirm(p)
  PROVE  IInv'
<1> USE DEF Confirm, Persist, Recovered, Present
<1>0. Running(p)
  BY RunningWhenOn
<1>1. /\ proc' \in [Procs -> Activation] /\ lock' \in {p, None}
      /\ \A q \in Procs \ {p} : proc'[q] = proc[q]
      /\ At(p, "off")' \/ (lock' = p /\ Order(p)' = Order(p))
  BY <1>0, GotoMoves, ExitMoves, OffKnows
<1>2. TypeOK'
  BY <1>0, <1>1 DEF IInv, TypeOK
<1>3. KnowsAt(p)'
  BY <1>0, GotoMoves, ExitMoves, OffKnows DEF IInv, TypeOK, KnowsAt, KindPhase,
     Journalled, Journal
<1>4. Mutex' /\ Labelled'
  BY <1>0, <1>1, <1>3, OneRuns
<1>5. Journalled'
  BY <1>0 DEF IInv, TypeOK, KnowsAt, KindPhase, Journalled, Journal, PhaseMeans,
     Reserved, Spendable
<1>6. Reserved'
  BY <1>0 DEF IInv, TypeOK, KnowsAt, KindPhase, Journalled, Journal, PhaseMeans,
     Reserved, Spendable
<1> QED BY <1>2, <1>4, <1>5, <1>6 DEF IInv

\* The call failed before the journal existed.
LEMMA SubmitFailsKeeps ==
  ASSUME IInv, NEW p \in Procs, SubmitFails(p)
  PROVE  IInv'
<1> USE DEF SubmitFails
<1>0. Running(p)
  BY RunningWhenOn
<1>1. /\ proc' \in [Procs -> Activation] /\ lock' \in {p, None}
      /\ \A q \in Procs \ {p} : proc'[q] = proc[q]
      /\ At(p, "off")' \/ (lock' = p /\ Order(p)' = Order(p))
  BY <1>0, GotoMoves, ExitMoves, OffKnows
<1>2. TypeOK'
  BY <1>0, <1>1 DEF IInv, TypeOK
<1>3. KnowsAt(p)'
  BY <1>0, GotoMoves, ExitMoves, OffKnows DEF IInv, TypeOK, KnowsAt, KindPhase,
     Journalled, Journal
<1>4. Mutex' /\ Labelled'
  BY <1>0, <1>1, <1>3, OneRuns
<1>5. Journalled'
  BY <1>0 DEF IInv, TypeOK, KnowsAt, KindPhase, Journalled, Journal, PhaseMeans,
     Reserved, Spendable
<1>6. Reserved'
  BY <1>0 DEF IInv, TypeOK, KnowsAt, KindPhase, Journalled, Journal, PhaseMeans,
     Reserved, Spendable
<1> QED BY <1>2, <1>4, <1>5, <1>6 DEF IInv

\* Leaving through the finally block writes nothing.
LEMMA ThrowsKeeps ==
  ASSUME IInv, NEW p \in Procs, Throws(p)
  PROVE  IInv'
<1> USE DEF Throws
<1>0. Running(p)
  BY RunningWhenOn
<1>1. /\ proc' \in [Procs -> Activation] /\ lock' \in {p, None}
      /\ \A q \in Procs \ {p} : proc'[q] = proc[q]
      /\ At(p, "off")' \/ (lock' = p /\ Order(p)' = Order(p))
  BY <1>0, ExitMoves, OffKnows
<1>2. TypeOK'
  BY <1>0, <1>1 DEF IInv, TypeOK
<1>3. KnowsAt(p)'
  BY <1>0, ExitMoves, OffKnows DEF IInv, TypeOK, KnowsAt, KindPhase, Journalled, Journal
<1>4. Mutex' /\ Labelled'
  BY <1>0, <1>1, <1>3, OneRuns
<1>5. Journalled'
  BY <1>0 DEF IInv, TypeOK, KnowsAt, KindPhase, Journalled, Journal, PhaseMeans,
     Reserved, Spendable
<1>6. Reserved'
  BY <1>0 DEF IInv, TypeOK, KnowsAt, KindPhase, Journalled, Journal, PhaseMeans,
     Reserved, Spendable
<1> QED BY <1>2, <1>4, <1>5, <1>6 DEF IInv

\* A crash leaves every file and the lock.
LEMMA CrashKeeps ==
  ASSUME IInv, NEW p \in Procs, Crash(p)
  PROVE  IInv'
<1> USE DEF IInv, Crash, TypeOK, Activation, Off
<1>1. TypeOK' OBVIOUS
<1>2. Mutex' BY DEF Mutex
<1>3. Labelled' BY DEF Mutex, Labelled, KnowsAt, KindPhase, Journalled, Journal
<1>4. Journalled' BY DEF Mutex, Labelled, KnowsAt, KindPhase,
                     Journalled, Journal, PhaseMeans, Reserved, Spendable
<1>5. Reserved' BY DEF Mutex, Labelled, KnowsAt, KindPhase,
                   Journalled, Journal, PhaseMeans, Reserved, Spendable
<1> QED BY <1>1, <1>2, <1>3, <1>4, <1>5

\* The lock of a dead process is removed.
LEMMA RemoveStaleLockKeeps ==
  ASSUME IInv, RemoveStaleLock
  PROVE  IInv'
<1> USE DEF IInv, RemoveStaleLock, TypeOK, Activation, Off
<1>1. TypeOK' OBVIOUS
<1>2. Mutex' BY DEF Mutex
<1>3. Labelled' BY DEF Mutex, Labelled, KnowsAt, KindPhase, Journalled, Journal
<1>4. Journalled' BY DEF Mutex, Labelled, KnowsAt, KindPhase,
                     Journalled, Journal, PhaseMeans, Reserved, Spendable
<1>5. Reserved' BY DEF Mutex, Labelled, KnowsAt, KindPhase,
                   Journalled, Journal, PhaseMeans, Reserved, Spendable
<1> QED BY <1>1, <1>2, <1>3, <1>4, <1>5

\* Only a started submission becomes a transaction.
LEMMA CircleAcceptsKeeps ==
  ASSUME IInv, NEW o \in Orders, NEW k \in Kinds, CircleAccepts(o, k)
  PROVE  IInv'
<1> USE DEF IInv, CircleAccepts, TypeOK, Activation, Off
<1>1. TypeOK' OBVIOUS
<1>2. Mutex' BY DEF Mutex
<1>3. Labelled' BY DEF Mutex, Labelled, KnowsAt, KindPhase, Journalled, Journal
<1>4. Journalled' BY DEF Mutex, Labelled, KnowsAt, KindPhase,
                     Journalled, Journal, PhaseMeans, Reserved, Spendable
<1>5. Reserved' BY DEF Mutex, Labelled, KnowsAt, KindPhase,
                   Journalled, Journal, PhaseMeans, Reserved, Spendable
<1> QED BY <1>1, <1>2, <1>3, <1>4, <1>5

\* Reconciling never removes a journal.
LEMMA ReconcileKeeps ==
  ASSUME IInv, NEW o \in Orders, NEW k \in Kinds, Reconcile(o, k)
  PROVE  IInv'
<1> USE DEF IInv, Reconcile, TypeOK, Activation, Off
<1>1. TypeOK' OBVIOUS
<1>2. Mutex' BY DEF Mutex
<1>3. Labelled' BY DEF Mutex, Labelled, KnowsAt, KindPhase, Journalled, Journal
<1>4. Journalled' BY DEF Mutex, Labelled, KnowsAt, KindPhase,
                     Journalled, Journal, PhaseMeans, Reserved, Spendable
<1>5. Reserved' BY DEF Mutex, Labelled, KnowsAt, KindPhase,
                   Journalled, Journal, PhaseMeans, Reserved, Spendable
<1> QED BY <1>1, <1>2, <1>3, <1>4, <1>5

\* A rejected transaction never succeeds.
LEMMA RejectKeeps ==
  ASSUME IInv, NEW o \in Orders, NEW k \in Kinds, Reject(o, k)
  PROVE  IInv'
<1> USE DEF IInv, Reject, TypeOK, Activation, Off
<1>1. TypeOK' OBVIOUS
<1>2. Mutex' BY DEF Mutex
<1>3. Labelled' BY DEF Mutex, Labelled, KnowsAt, KindPhase, Journalled, Journal
<1>4. Journalled' BY DEF Mutex, Labelled, KnowsAt, KindPhase,
                     Journalled, Journal, PhaseMeans, Reserved, Spendable
<1>5. Reserved' BY DEF Mutex, Labelled, KnowsAt, KindPhase,
                   Journalled, Journal, PhaseMeans, Reserved, Spendable
<1> QED BY <1>1, <1>2, <1>3, <1>4, <1>5

\* An approval that lands belongs to the reserved order.
LEMMA MineApprovalKeeps ==
  ASSUME IInv, NEW o \in Orders, MineApproval(o)
  PROVE  IInv'
<1> USE DEF IInv, MineApproval, TypeOK, Activation, Off
<1>1. TypeOK' OBVIOUS
<1>2. Mutex' BY DEF Mutex
<1>3. Labelled' BY DEF Mutex, Labelled, KnowsAt, KindPhase, Journalled, Journal
<1>4. Journalled' BY DEF Mutex, Labelled, KnowsAt, KindPhase,
                     Journalled, Journal, PhaseMeans, Reserved, Spendable
<1>5. Reserved' BY DEF Mutex, Labelled, KnowsAt, KindPhase,
                   Journalled, Journal, PhaseMeans, Reserved, Spendable
<1> QED BY <1>1, <1>2, <1>3, <1>4, <1>5

\* A revocation leaves no allowance.
LEMMA MineRevocationKeeps ==
  ASSUME IInv, NEW o \in Orders, MineRevocation(o)
  PROVE  IInv'
<1> USE DEF IInv, MineRevocation, TypeOK, Activation, Off
<1>1. TypeOK' OBVIOUS
<1>2. Mutex' BY DEF Mutex
<1>3. Labelled' BY DEF Mutex, Labelled, KnowsAt, KindPhase, Journalled, Journal
<1>4. Journalled' BY DEF Mutex, Labelled, KnowsAt, KindPhase,
                     Journalled, Journal, PhaseMeans, Reserved, Spendable
<1>5. Reserved' BY DEF Mutex, Labelled, KnowsAt, KindPhase,
                   Journalled, Journal, PhaseMeans, Reserved, Spendable
<1> QED BY <1>1, <1>2, <1>3, <1>4, <1>5

\* A payment that lands spends the reserved order's whole allowance.
LEMMA MinePaymentKeeps ==
  ASSUME IInv, NEW o \in Orders, MinePayment(o)
  PROVE  IInv'
<1> USE DEF MinePayment
<1>0. /\ tx' \in [Orders -> [Kinds -> TxStatus]]
      /\ \A x \in Orders : tx'[x]["abort"] = tx[x]["abort"]
      /\ \A x \in Orders, k \in Kinds \ {"pay"} : tx'[x][k] = tx[x][k]
  <2>1. CASE tx' = [tx EXCEPT ![o]["pay"] = "success"]
    BY <2>1 DEF IInv, TypeOK
  <2>2. CASE tx' = [tx EXCEPT ![o]["pay"] = "reverted"]
    BY <2>2 DEF IInv, TypeOK
  <2> QED BY <2>1, <2>2
<1>1. /\ proc' \in [Procs -> Activation] /\ lock' \in Procs \cup {None}
      /\ proc' = proc /\ lock' = lock
  BY DEF IInv, TypeOK
<1>2. TypeOK'
  <2>1. phase' \in [Orders -> Phases] /\ abortRevokeRequired' \in [Orders -> BOOLEAN]
    BY <1>0 DEF IInv, TypeOK
  <2>2. output' \in [Orders -> Outputs \cup {None}] /\ reservation' \in Orders \cup {None}
    BY <1>0 DEF IInv, TypeOK
  <2>3. op' \in [Orders -> [Kinds -> OpStatus]]
    BY <1>0 DEF IInv, TypeOK
  <2>4. tx' \in [Orders -> [Kinds -> TxStatus]] /\ calls' \in [Orders -> [Kinds -> Nat]]
    BY <1>0 DEF IInv, TypeOK
  <2>5. allowance' \in Nat
    <3>1. CASE allowance >= Amount[o] /\ allowance' = allowance - Amount[o]
      BY <3>1 DEF IInv, TypeOK
    <3>2. CASE UNCHANGED allowance
      BY <3>2 DEF IInv, TypeOK
    <3> QED BY <3>1, <3>2
  <2>7. settled' \in [Orders -> Nat] /\ voided' \in SUBSET Orders
    BY <1>0 DEF IInv, TypeOK
  <2>6. /\ attested' \in [Orders -> Outputs \cup {None}] /\ acked' \in [Orders -> BOOLEAN]
        /\ served' \in [Orders -> Outputs \cup {None}]
    BY <1>0 DEF IInv, TypeOK
  <2> QED BY <1>0, <1>1, <2>1, <2>2, <2>3, <2>4, <2>5, <2>6, <2>7 DEF TypeOK
<1>4. Mutex' /\ Labelled'
  BY <1>0, <1>1 DEF IInv, TypeOK, Mutex, Labelled, KnowsAt, KindPhase, Journalled, Journal
<1>5. Journalled'
  <2> SUFFICES ASSUME NEW x \in Orders PROVE Journal(x)' /\ PhaseMeans(x)'
    BY DEF Journalled
  <2>1. CASE x = o
    <3>1. Journal(x)'
      BY <1>0, <2>1 DEF IInv, TypeOK, KnowsAt, KindPhase, Journalled, Journal,
         PhaseMeans, Reserved, Spendable
    <3>2. PhaseMeans(x)'
      BY <1>0, <2>1 DEF IInv, TypeOK, KnowsAt, KindPhase, Journalled, Journal,
         PhaseMeans, Reserved, Spendable
    <3> QED BY <3>1, <3>2
  <2>2. CASE x # o
    <3>1. Journal(x)'
      BY <1>0, <2>2 DEF IInv, TypeOK, KnowsAt, KindPhase, Journalled, Journal,
         PhaseMeans, Reserved, Spendable
    <3>2. PhaseMeans(x)'
      BY <1>0, <2>2 DEF IInv, TypeOK, KnowsAt, KindPhase, Journalled, Journal,
         PhaseMeans, Reserved, Spendable
    <3> QED BY <3>1, <3>2
  <2> QED BY <2>1, <2>2
<1>6. Reserved'
  <2>1. CASE allowance >= Amount[o] /\ allowance' = allowance - Amount[o]
    <3>1. phase[o] = "paying" /\ reservation = o
      BY <1>0 DEF IInv, TypeOK, KnowsAt, KindPhase, Journalled, Journal, PhaseMeans,
         Reserved, Spendable
    <3>2. allowance = Amount[o]
      BY <2>1, <3>1 DEF IInv, TypeOK, KnowsAt, KindPhase, Journalled, Journal,
         PhaseMeans, Reserved, Spendable
    <3> QED BY <2>1, <3>2 DEF IInv, TypeOK, KnowsAt, KindPhase, Journalled,
               Journal, PhaseMeans, Reserved, Spendable
  <2>2. CASE UNCHANGED <<settled, allowance>> /\ tx' = [tx EXCEPT ![o]["pay"] = "reverted"]
    BY <1>0, <2>2 DEF IInv, TypeOK, KnowsAt, KindPhase, Journalled, Journal,
       PhaseMeans, Reserved, Spendable
  <2> QED BY <2>1, <2>2
<1> QED BY <1>2, <1>4, <1>5, <1>6 DEF IInv

\* An acknowledgment lands for the attested output.
LEMMA MineAckKeeps ==
  ASSUME IInv, NEW o \in Orders, MineAck(o)
  PROVE  IInv'
<1> USE DEF MineAck
<1>0. /\ tx' \in [Orders -> [Kinds -> TxStatus]]
      /\ \A x \in Orders : tx'[x]["abort"] = tx[x]["abort"]
      /\ \A x \in Orders, k \in Kinds \ {"ack"} : tx'[x][k] = tx[x][k]
  <2>1. CASE tx' = [tx EXCEPT ![o]["ack"] = "success"]
    BY <2>1 DEF IInv, TypeOK
  <2>2. CASE tx' = [tx EXCEPT ![o]["ack"] = "reverted"]
    BY <2>2 DEF IInv, TypeOK
  <2> QED BY <2>1, <2>2
<1>1. /\ proc' \in [Procs -> Activation] /\ lock' \in Procs \cup {None}
      /\ proc' = proc /\ lock' = lock
  BY DEF IInv, TypeOK
<1>2. TypeOK'
  <2>1. phase' \in [Orders -> Phases] /\ abortRevokeRequired' \in [Orders -> BOOLEAN]
    BY <1>0 DEF IInv, TypeOK
  <2>2. output' \in [Orders -> Outputs \cup {None}] /\ reservation' \in Orders \cup {None}
    BY <1>0 DEF IInv, TypeOK
  <2>3. op' \in [Orders -> [Kinds -> OpStatus]]
    BY <1>0 DEF IInv, TypeOK
  <2>4. tx' \in [Orders -> [Kinds -> TxStatus]] /\ calls' \in [Orders -> [Kinds -> Nat]]
    BY <1>0 DEF IInv, TypeOK
  <2>5. allowance' \in Nat /\ settled' \in [Orders -> Nat] /\ voided' \in SUBSET Orders
    BY <1>0 DEF IInv, TypeOK
  <2>6. /\ attested' \in [Orders -> Outputs \cup {None}] /\ acked' \in [Orders -> BOOLEAN]
        /\ served' \in [Orders -> Outputs \cup {None}]
    BY <1>0 DEF IInv, TypeOK
  <2> QED BY <1>0, <1>1, <2>1, <2>2, <2>3, <2>4, <2>5, <2>6 DEF TypeOK
<1>4. Mutex' /\ Labelled'
  BY <1>0, <1>1 DEF IInv, TypeOK, Mutex, Labelled, KnowsAt, KindPhase, Journalled, Journal
<1>5. Journalled'
  <2> SUFFICES ASSUME NEW x \in Orders PROVE Journal(x)' /\ PhaseMeans(x)'
    BY DEF Journalled
  <2>1. CASE x = o
    <3>1. Journal(x)'
      BY <1>0, <2>1 DEF IInv, TypeOK, KnowsAt, KindPhase, Journalled, Journal,
         PhaseMeans, Reserved, Spendable
    <3>2. PhaseMeans(x)'
      BY <1>0, <2>1 DEF IInv, TypeOK, KnowsAt, KindPhase, Journalled, Journal,
         PhaseMeans, Reserved, Spendable
    <3> QED BY <3>1, <3>2
  <2>2. CASE x # o
    <3>1. Journal(x)'
      BY <1>0, <2>2 DEF IInv, TypeOK, KnowsAt, KindPhase, Journalled, Journal,
         PhaseMeans, Reserved, Spendable
    <3>2. PhaseMeans(x)'
      BY <1>0, <2>2 DEF IInv, TypeOK, KnowsAt, KindPhase, Journalled, Journal,
         PhaseMeans, Reserved, Spendable
    <3> QED BY <3>1, <3>2
  <2> QED BY <2>1, <2>2
<1>6. Reserved'
  BY <1>0 DEF IInv, TypeOK, KnowsAt, KindPhase, Journalled, Journal, PhaseMeans,
     Reserved, Spendable
<1> QED BY <1>2, <1>4, <1>5, <1>6 DEF IInv

\* An acknowledgment by other means.
LEMMA AcknowledgeElsewhereKeeps ==
  ASSUME IInv, NEW o \in Orders, AcknowledgeElsewhere(o)
  PROVE  IInv'
<1> USE DEF IInv, AcknowledgeElsewhere, TypeOK, Activation, Off
<1>1. TypeOK' OBVIOUS
<1>2. Mutex' BY DEF Mutex
<1>3. Labelled' BY DEF Mutex, Labelled, KnowsAt, KindPhase, Journalled, Journal
<1>4. Journalled' BY DEF Mutex, Labelled, KnowsAt, KindPhase,
                     Journalled, Journal, PhaseMeans, Reserved, Spendable
<1>5. Reserved' BY DEF Mutex, Labelled, KnowsAt, KindPhase,
                   Journalled, Journal, PhaseMeans, Reserved, Spendable
<1> QED BY <1>1, <1>2, <1>3, <1>4, <1>5

\* The seller attests once.
LEMMA AttestKeeps ==
  ASSUME IInv, NEW o \in Orders, Attest(o)
  PROVE  IInv'
<1> USE DEF IInv, Attest, TypeOK, Activation, Off
<1>1. TypeOK' OBVIOUS
<1>2. Mutex' BY DEF Mutex
<1>3. Labelled' BY DEF Mutex, Labelled, KnowsAt, KindPhase, Journalled, Journal
<1>4. Journalled' BY DEF Mutex, Labelled, KnowsAt, KindPhase,
                     Journalled, Journal, PhaseMeans, Reserved, Spendable
<1>5. Reserved' BY DEF Mutex, Labelled, KnowsAt, KindPhase,
                   Journalled, Journal, PhaseMeans, Reserved, Spendable
<1> QED BY <1>1, <1>2, <1>3, <1>4, <1>5

\* The platform serves the output of a paid order.
LEMMA ServeKeeps ==
  ASSUME IInv, NEW o \in Orders, Serve(o)
  PROVE  IInv'
<1> USE DEF IInv, Serve, TypeOK, Activation, Off
<1>1. TypeOK' OBVIOUS
<1>2. Mutex' BY DEF Mutex
<1>3. Labelled' BY DEF Mutex, Labelled, KnowsAt, KindPhase, Journalled, Journal
<1>4. Journalled' BY DEF Mutex, Labelled, KnowsAt, KindPhase,
                     Journalled, Journal, PhaseMeans, Reserved, Spendable
<1>5. Reserved' BY DEF Mutex, Labelled, KnowsAt, KindPhase,
                   Journalled, Journal, PhaseMeans, Reserved, Spendable
<1> QED BY <1>1, <1>2, <1>3, <1>4, <1>5

\* The chain stops accepting an order.
LEMMA VoidKeeps ==
  ASSUME IInv, NEW o \in Orders, Void(o)
  PROVE  IInv'
<1> USE DEF IInv, Void, TypeOK, Activation, Off
<1>1. TypeOK' OBVIOUS
<1>2. Mutex' BY DEF Mutex
<1>3. Labelled' BY DEF Mutex, Labelled, KnowsAt, KindPhase, Journalled, Journal
<1>4. Journalled' BY DEF Mutex, Labelled, KnowsAt, KindPhase,
                     Journalled, Journal, PhaseMeans, Reserved, Spendable
<1>5. Reserved' BY DEF Mutex, Labelled, KnowsAt, KindPhase,
                   Journalled, Journal, PhaseMeans, Reserved, Spendable
<1> QED BY <1>1, <1>2, <1>3, <1>4, <1>5

HIDE DEF At, Order, Running, procVars, fileVars, circleVars, chainVars, Kinds, Phases,
         UnpaidPhases, AbortPhases, PaidPhases, HeldPhases, Labels, OpLabels, OpStatus, TxStatus

-----------------------------------------------------------------------------
(* The invariant is inductive                                              *)

\* No file, no operation, no allowance: the invariant holds.
LEMMA InitEstablishes == Init => IInv
<1> SUFFICES ASSUME Init PROVE IInv
  OBVIOUS
<1> USE ConstantsAssumption
      DEF Init, Off, At, Order, Kinds, Phases, UnpaidPhases, AbortPhases,
          PaidPhases, Labels,
          OpStatus, TxStatus, OpLabels, HeldPhases
<1>1. TypeOK
  BY DEF TypeOK, Activation
<1>2. Mutex /\ Labelled
  BY DEF Mutex, Labelled, KnowsAt
<1>3. Journalled /\ Reserved
  BY DEF Journalled, Journal, PhaseMeans, Reserved
<1> QED BY <1>1, <1>2, <1>3 DEF IInv

\* A step that changes nothing keeps the invariant.
LEMMA StutterKeeps ==
  ASSUME IInv, UNCHANGED vars
  PROVE  IInv'
BY DEF IInv, vars, procVars, fileVars, circleVars, chainVars, TypeOK, Mutex,
   Labelled, KnowsAt,
       Journalled, Journal, PhaseMeans, Reserved, Spendable, At, Order

\* Every step of a process, of the operator, of Circle and of the chain keeps it.
LEMMA NextKeeps ==
  ASSUME IInv, Next
  PROVE  IInv'
<1>1. ASSUME NEW p \in Procs, NEW o \in Orders, NEW abortUnpaid \in BOOLEAN,
             Invoke(p, o, abortUnpaid)
      PROVE  IInv'
  BY <1>1, InvokeKeeps
<1>2. ASSUME NEW p \in Procs, Proceed(p)
      PROVE  IInv'
  BY <1>2, LoadKeeps, BeginAbortKeeps, RevokeKeeps, ConfirmAbortKeeps, ReplayAbortedKeeps,
     ReleaseKeeps, RollBackKeeps, PreflightKeeps, RecoverApprovalKeeps, ReserveKeeps,
     MarkApprovingKeeps, MarkPayingKeeps, UndoSubmissionKeeps, RecoverPaymentKeeps,
     VerifyPaymentKeeps, DeliverKeeps, VerifyDeliveryKeeps, RecoverAckKeeps, SubmitKeeps,
     CallKeeps, AnswerKeeps, ConfirmKeeps DEF Proceed
<1>3. ASSUME NEW p \in Procs, SubmitFails(p) \/ Throws(p) \/ Crash(p)
      PROVE  IInv'
  BY <1>3, SubmitFailsKeeps, ThrowsKeeps, CrashKeeps
<1>4. CASE World
  BY <1>4, RemoveStaleLockKeeps, MineApprovalKeeps, MineRevocationKeeps, MinePaymentKeeps,
     MineAckKeeps, AcknowledgeElsewhereKeeps, AttestKeeps, ServeKeeps, VoidKeeps,
     CircleAcceptsKeeps, ReconcileKeeps, RejectKeeps DEF World
<1> QED BY <1>1, <1>2, <1>3, <1>4 DEF Next

\* The inductive invariant holds in every reachable state, for any orders and processes.
THEOREM Invariance == Spec => []IInv
<1>1. IInv /\ [Next]_vars => IInv'
  BY NextKeeps, StutterKeeps
<1> QED BY InitEstablishes, <1>1, PTL DEF Spec

-----------------------------------------------------------------------------
(* What follows from it                                                    *)

\* Every file, journal and chain value keeps its type.
THEOREM TypeCorrect == Spec => []TypeOK
<1>1. IInv => TypeOK
  BY DEF IInv
<1> QED BY Invariance, <1>1, PTL

\* Circle is called at most once for each operation of an order.
THEOREM SubmittedOnce == Spec => []AtMostOneSubmission
<1>1. IInv => AtMostOneSubmission
  BY DEF IInv, Journalled, Journal, AtMostOneSubmission
<1> QED BY Invariance, <1>1, PTL

\* A settled order is at "paying", with the reservation, or beyond.
THEOREM PaymentJournalled == Spec => []PaymentIsJournalled
<1>1. IInv => PaymentIsJournalled
  BY DEF IInv, TypeOK, Journalled, Journal, PhaseMeans, HeldPhases, Kinds,
     PaymentIsJournalled
<1> QED BY Invariance, <1>1, PTL

\* The allowance on the chain is the reserved order's exact amount, or nothing.
THEOREM AllowanceReserved == Spec => []AllowanceIsReserved
<1>1. IInv => AllowanceIsReserved
  BY ConstantsAssumption DEF IInv, Reserved, Spendable, AllowanceIsReserved
<1> QED BY Invariance, <1>1, PTL

\* The order of every transaction that may still move the allowance holds the reservation.
THEOREM InFlightReserved == Spec => []InFlightIsReserved
<1>1. IInv => InFlightIsReserved
  <2> SUFFICES ASSUME IInv, NEW o \in Orders, NEW k \in {"approve", "pay", "abort"},
                      MayStillLand(o, k)
               PROVE  reservation = o
    BY DEF InFlightIsReserved
  <2> USE DEF IInv, TypeOK, Journalled, Journal, PhaseMeans, MayStillLand,
              HeldPhases, Kinds,
              AbortPhases, PaidPhases
  <2>1. CASE k = "approve"
    BY <2>1
  <2>2. CASE k = "pay"
    BY <2>2
  <2>3. CASE k = "abort"
    BY <2>3
  <2> QED BY <2>1, <2>2, <2>3
<1> QED BY Invariance, <1>1, PTL

\* Spending power and whatever may still change it belong to the reserved order.
THEOREM AllowanceGuarded == Spec => []AllowanceIsGuarded
<1>1. AllowanceIsReserved /\ InFlightIsReserved => AllowanceIsGuarded
  BY DEF AllowanceIsGuarded
<1> QED BY AllowanceReserved, InFlightReserved, <1>1, PTL

\* A completed order was paid once and acknowledged with the output on file.
THEOREM CompletedAcknowledged == Spec => []CompletedIsAcknowledged
<1>1. IInv => CompletedIsAcknowledged
  BY DEF IInv, Journalled, PhaseMeans, PaidPhases, CompletedIsAcknowledged
<1> QED BY Invariance, <1>1, PTL

\* An order's file agrees with what was paid, attested and acknowledged.
THEOREM FilesTrue == Spec => []FilesAreTrue
<1>1. PaymentIsJournalled /\ CompletedIsAcknowledged => FilesAreTrue
  BY DEF FilesAreTrue
<1> QED BY PaymentJournalled, CompletedAcknowledged, <1>1, PTL

-----------------------------------------------------------------------------
(* The executor implements Purchases                                       *)

StatusKept == \A x \in Orders : PurchaseStatus(x)' = PurchaseStatus(x)
StatusMoves(o, s) ==
  /\ PurchaseStatus(o)' = s
  /\ \A x \in Orders \ {o} : PurchaseStatus(x)' = PurchaseStatus(x)

\* No order and no grant changed: a stutter of Purchases.
LEMMA StutterRefines ==
  ASSUME StatusKept, Granted' = Granted
  PROVE  UNCHANGED Purchase!vars
BY DEF StatusKept, Purchase!vars

\* A step that leaves the allowance alone and keeps or releases the reservation.
LEMMA GrantKept ==
  ASSUME IInv, IInv', UNCHANGED allowance, reservation' \in {reservation, None} \/
         allowance = 0
  PROVE  Granted' = Granted
BY ConstantsAssumption DEF IInv, Reserved, Granted

\* An order that was never paid is abandoned.
LEMMA AbandonRefines ==
  ASSUME NEW o \in Orders, PurchaseStatus(o) = "open", StatusMoves(o, "abandoned"),
         Granted # o, Granted' = Granted
  PROVE  Purchase!Next
BY DEF StatusMoves, Purchase!Next, Purchase!Abandon

\* A paid order is finished.
LEMMA FinishRefines ==
  ASSUME NEW o \in Orders, PurchaseStatus(o) = "paid", StatusMoves(o, "finished"),
         Granted' = Granted
  PROVE  Purchase!Next
BY DEF StatusMoves, Purchase!Next, Purchase!Finish

\* The granted order is paid, and its grant is used up.
LEMMA PayRefines ==
  ASSUME NEW o \in Orders, PurchaseStatus(o) = "open", StatusMoves(o, "paid"),
         Granted = o, Granted' = None
  PROVE  Purchase!Next
BY DEF StatusMoves, Purchase!Next, Purchase!Pay

\* Phases before the last change of an order: its file says neither end of the purchase.
LEMMA PersistKeepsStatus ==
  ASSUME IInv, NEW o \in Orders, NEW s \in Phases \ {"aborted", "completed"},
         phase[o] \notin {"aborted", "completed"}, phase' = [phase EXCEPT ![o] = s],
         UNCHANGED settled
  PROVE  StatusKept
BY DEF IInv, TypeOK, StatusKept, PurchaseStatus

\* A step that touches neither phases nor settlements keeps every order's status.
LEMMA SamePhaseKeepsStatus ==
  ASSUME UNCHANGED <<phase, settled>>
  PROVE  StatusKept
BY DEF StatusKept, PurchaseStatus

\* Steps that only move control, a journal, a transaction or the seller's side.
LEMMA QuietRefines ==
  ASSUME IInv, IInv', UNCHANGED <<phase, settled, allowance>>,
         reservation' \in {reservation, None} \/ allowance = 0
  PROVE  UNCHANGED Purchase!vars
BY SamePhaseKeepsStatus, GrantKept, StutterRefines

\* Steps that move an order's file to a phase that is not an end of the purchase.
LEMMA PhaseRefines ==
  ASSUME IInv, IInv', NEW o \in Orders, NEW s \in Phases \ {"aborted", "completed"},
         phase[o] \notin {"aborted", "completed"}, phase' = [phase EXCEPT ![o] = s],
         UNCHANGED <<settled, allowance, reservation>>
  PROVE  UNCHANGED Purchase!vars
BY PersistKeepsStatus, GrantKept, StutterRefines

\* The file of a paid order says completed.
LEMMA CompletionRefines ==
  ASSUME IInv, IInv', NEW o \in Orders, phase[o] \in PaidPhases \ {"completed"},
         phase' = [phase EXCEPT ![o] = "completed"],
         UNCHANGED <<settled, allowance, reservation>>
  PROVE  Purchase!Next
<1>1. settled[o] = 1
  BY DEF IInv, Journalled, PhaseMeans
<1>2. PurchaseStatus(o) = "paid"
  BY <1>1 DEF PurchaseStatus, PaidPhases
<1>3. StatusMoves(o, "finished")
  BY DEF IInv, TypeOK, StatusMoves, PurchaseStatus
<1> QED BY <1>2, <1>3, GrantKept, FinishRefines

\* The file of an unpaid order says aborted.
LEMMA AbortionRefines ==
  ASSUME IInv, IInv', NEW o \in Orders, phase[o] = "aborting", settled[o] = 0,
         phase' = [phase EXCEPT ![o] = "aborted"],
         UNCHANGED <<settled, allowance, reservation>>
  PROVE  Purchase!Next
<1>1. PurchaseStatus(o) = "open"
  BY DEF PurchaseStatus
<1>2. StatusMoves(o, "abandoned")
  BY DEF IInv, TypeOK, StatusMoves, PurchaseStatus
<1>3. Granted # o
  BY ConstantsAssumption DEF IInv, TypeOK, Reserved, Spendable, HeldPhases, Granted
<1> QED BY <1>1, <1>2, <1>3, GrantKept, AbandonRefines

\* An approval reaches the chain: a grant to the reserved order.
LEMMA ApprovalRefines ==
  ASSUME IInv, IInv', NEW o \in Orders, MineApproval(o)
  PROVE  Purchase!Next \/ UNCHANGED Purchase!vars
<1>1. phase[o] = "approving" /\ reservation = o /\ settled[o] = 0
  BY DEF IInv, TypeOK, Journalled, Journal, PhaseMeans, MineApproval, HeldPhases, Kinds,
         AbortPhases, PaidPhases
<1>2. StatusKept
  BY SamePhaseKeepsStatus DEF MineApproval, procVars, fileVars
<1>3. PurchaseStatus(o) = "open"
  BY <1>1 DEF PurchaseStatus
<1>4. Granted' = o
  BY <1>1, ConstantsAssumption DEF MineApproval, fileVars, Granted
<1>5. CASE Granted = None
  BY <1>2, <1>3, <1>4, <1>5 DEF StatusKept, Purchase!Next, Purchase!Grant
<1>6. CASE Granted # None
  BY <1>1, <1>2, <1>4, <1>6, StutterRefines DEF Granted
<1> QED BY <1>5, <1>6

\* A revocation reaches the chain: the grant is withdrawn, if it was there.
LEMMA RevocationRefines ==
  ASSUME IInv, IInv', NEW o \in Orders, MineRevocation(o)
  PROVE  Purchase!Next \/ UNCHANGED Purchase!vars
<1>1. phase[o] = "aborting" /\ reservation = o /\ settled[o] = 0
  BY DEF IInv, TypeOK, Journalled, Journal, PhaseMeans, MineRevocation, Kinds, AbortPhases,
         PaidPhases
<1>2. StatusKept
  BY SamePhaseKeepsStatus DEF MineRevocation, procVars, fileVars
<1>3. PurchaseStatus(o) = "open"
  BY <1>1 DEF PurchaseStatus
<1>4. Granted' = None
  BY DEF MineRevocation, Granted
<1>5. CASE Granted = o
  BY <1>2, <1>3, <1>4, <1>5 DEF StatusKept, Purchase!Next, Purchase!Withdraw
<1>6. CASE Granted # o
  BY <1>1, <1>2, <1>4, <1>6, StutterRefines DEF Granted
<1> QED BY <1>5, <1>6

\* A payment reaches the chain: it settles the granted order, or reverts.
LEMMA PaymentRefines ==
  ASSUME IInv, IInv', NEW o \in Orders, MinePayment(o)
  PROVE  Purchase!Next \/ UNCHANGED Purchase!vars
<1>1. phase[o] = "paying" /\ reservation = o /\ settled[o] = 0
  BY DEF IInv, TypeOK, Journalled, Journal, PhaseMeans, MinePayment, HeldPhases,
     Kinds, PaidPhases
<1>2. UNCHANGED <<phase, reservation>>
  BY DEF MinePayment, fileVars
<1>3. CASE UNCHANGED <<settled, allowance>>
  BY <1>2, <1>3, QuietRefines
<1>4. CASE /\ allowance >= Amount[o] /\ allowance' = allowance - Amount[o]
           /\ settled' = [settled EXCEPT ![o] = @ + 1]
  <2>0. Amount[o] \in Nat \ {0} /\ allowance \in Nat
    BY ConstantsAssumption DEF IInv, TypeOK
  <2>1. allowance = Amount[o]
    BY <1>1, <1>4, <2>0 DEF IInv, Reserved, Spendable
  <2>2. Granted = o /\ Granted' = None
    BY <1>1, <1>4, <2>0, <2>1 DEF Granted
  <2>3. PurchaseStatus(o) = "open"
    BY <1>1 DEF PurchaseStatus
  <2>4. StatusMoves(o, "paid")
    BY <1>1, <1>2, <1>4 DEF IInv, TypeOK, StatusMoves, PurchaseStatus
  <2> QED BY <2>2, <2>3, <2>4, PayRefines
<1> QED BY <1>3, <1>4 DEF MinePayment

\* Every step of a call is a step of Purchases or leaves the purchase alone.
LEMMA ProceedRefines ==
  ASSUME IInv, IInv', NEW p \in Procs, Proceed(p)
  PROVE  Purchase!Next \/ UNCHANGED Purchase!vars
<1> DEFINE o == Order(p)
<1>0. ~At(p, "off") /\ o \in Orders /\ KnowsAt(p) /\ phase \in [Orders -> Phases]
  <2>1. ~At(p, "off")
    BY DEF Proceed, At, Load, BeginAbort, Revoke, ConfirmAbort, ReplayAborted,
       Release, RollBack,
           Preflight, RecoverApproval, Reserve, MarkApproving, MarkPaying, UndoSubmission,
           RecoverPayment, VerifyPayment, PaidRun, Deliver, VerifyDelivery, RecoverAck, Submit,
           Call, Answer, Confirm
  <2> QED BY <2>1 DEF IInv, TypeOK, Mutex, Labelled
<1> USE DEF Persist, fileVars, circleVars, chainVars, KnowsAt, OpLabels, KindPhase, At,
        Phases, UnpaidPhases, AbortPhases, PaidPhases
<1>1. CASE Load(p)
  BY <1>0, <1>1, QuietRefines, PhaseRefines DEF Load
<1>2. CASE BeginAbort(p)
  BY <1>0, <1>2, PhaseRefines DEF BeginAbort
<1>3. CASE Revoke(p) \/ ReplayAborted(p) \/ Preflight(p) \/ VerifyPayment(p)
           \/ Submit(p) \/ Call(p) \/ Answer(p)
  BY <1>3, QuietRefines DEF Revoke, ReplayAborted, Preflight, VerifyPayment, PaidRun, Submit,
     Call, Answer
<1>4. CASE ConfirmAbort(p)
  BY <1>0, <1>4, AbortionRefines DEF ConfirmAbort, VerifyAborted, Absent
<1>5. CASE Release(p) \/ Reserve(p)
  BY <1>5, QuietRefines DEF Release, Reserve
<1>6. CASE RollBack(p) \/ RecoverApproval(p) \/ MarkApproving(p) \/ MarkPaying(p)
  BY <1>0, <1>6, PhaseRefines DEF RollBack, RecoverApproval, MarkApproving, MarkPaying
<1>7. CASE UndoSubmission(p)
  BY <1>0, <1>7, PhaseRefines DEF UndoSubmission
<1>8. CASE RecoverPayment(p) \/ Deliver(p)
  BY <1>0, <1>8, PhaseRefines DEF RecoverPayment, Deliver
<1>9. CASE VerifyDelivery(p)
  BY <1>0, <1>9, QuietRefines, PhaseRefines, CompletionRefines DEF VerifyDelivery
<1>10. CASE RecoverAck(p)
  BY <1>0, <1>10, CompletionRefines DEF RecoverAck
<1>11. CASE Confirm(p)
  BY <1>0, <1>11, QuietRefines, PhaseRefines, CompletionRefines DEF Confirm
<1> QED BY <1>1, <1>2, <1>3, <1>4, <1>5, <1>6, <1>7, <1>8, <1>9, <1>10, <1>11 DEF Proceed

\* Every step is one of Purchases or a stutter.
LEMMA StepRefines ==
  ASSUME IInv, IInv', [Next]_vars
  PROVE  Purchase!Next \/ UNCHANGED Purchase!vars
<1> USE DEF procVars, fileVars, circleVars, chainVars
<1>1. CASE UNCHANGED vars
  BY <1>1, QuietRefines DEF vars
<1>2. ASSUME NEW p \in Procs, NEW o \in Orders, NEW abortUnpaid \in BOOLEAN,
             Invoke(p, o, abortUnpaid)
      PROVE  UNCHANGED Purchase!vars
  BY <1>2, QuietRefines DEF Invoke
<1>3. ASSUME NEW p \in Procs, Proceed(p)
      PROVE  Purchase!Next \/ UNCHANGED Purchase!vars
  BY <1>3, ProceedRefines
<1>4. ASSUME NEW p \in Procs, SubmitFails(p) \/ Throws(p) \/ Crash(p)
      PROVE  UNCHANGED Purchase!vars
  BY <1>4, QuietRefines DEF SubmitFails, Throws, Crash
<1>5. ASSUME NEW o \in Orders, MineApproval(o) \/ MineRevocation(o) \/ MinePayment(o)
      PROVE  Purchase!Next \/ UNCHANGED Purchase!vars
  BY <1>5, ApprovalRefines, RevocationRefines, PaymentRefines
<1>6. ASSUME NEW o \in Orders,
             MineAck(o) \/ AcknowledgeElsewhere(o) \/ Attest(o) \/ Serve(o) \/ Void(o)
      PROVE  UNCHANGED Purchase!vars
  BY <1>6, QuietRefines DEF MineAck, AcknowledgeElsewhere, Attest, Serve, Void
<1>7. ASSUME NEW o \in Orders, NEW k \in Kinds,
             CircleAccepts(o, k) \/ Reconcile(o, k) \/ Reject(o, k)
      PROVE  UNCHANGED Purchase!vars
  BY <1>7, QuietRefines DEF CircleAccepts, Reconcile, Reject
<1>8. CASE RemoveStaleLock
  BY <1>8, QuietRefines DEF RemoveStaleLock
<1> QED BY <1>1, <1>2, <1>3, <1>4, <1>5, <1>6, <1>7, <1>8 DEF Next, World

\* Through every crash, rerun and late transaction each order is paid at most once, from an
\* allowance granted for it alone, and an aborted order is never paid.
THEOREM Refinement == Spec => ImplementsPurchases
<1>1. Init => Purchase!Init
  BY DEF Init, Purchase!Init, PurchaseStatus, Granted
<1>2. IInv /\ IInv' /\ [Next]_vars => [Purchase!Next]_(Purchase!vars)
  BY StepRefines
<1> QED BY <1>1, <1>2, Invariance, PTL DEF Spec, ImplementsPurchases, Purchase!Spec
=============================================================================
