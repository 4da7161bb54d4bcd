------------------------ MODULE GeneralTasksProofs ------------------------
(***************************************************************************)
(* The promises of GeneralTasks for any sets of tasks, plans, outputs,     *)
(* hosts and concurrent requests.  The inductive invariant says what the   *)
(* columns of a row mean together (Meaning), where its results come from   *)
(* (Evidence), who knows its token (Held), and that a session whose        *)
(* snapshot is current may rely on the checks it made (Knows).  Then come  *)
(* the programs of execution hosts (TaskHosts), and last the plans that    *)
(* createTaskPlan accepts (TaskPlans), for any schemas and templates.      *)
(***************************************************************************)
EXTENDS TaskPlans, SumTheorems, FiniteSetTheorems, SequenceTheorems, TLAPS

\* What status, plan, approval, phase and host of a row say of each other.
Meaning(r) ==
  /\ r.approvedPlan # None => r.approvedPlan = r.plan
  /\ r.status \in {"absent", "queued", "planning"} => r.plan = None
  /\ r.status = "absent" => r.claimWorker = None
  /\ r.status = "needs_approval" => r.plan # None /\ r.approvedPlan = None
  /\ r.status = "blocked" /\ r.approvedPlan = None => r.plan = None
  /\ r.status \in {"approved", "running", "completed"} => r.approvedPlan # None
  /\ r.status \in {"running", "completed"} => r.executionWorker # None
  /\ r.status = "cancelled" => r.executionWorker = None
  /\ r.executionWorker # None => r.approvedPlan # None /\ r.claimWorker = r.executionWorker
  /\ r.claimPhase = "execute" <=> r.executionWorker # None
  /\ r.executionWorker = None => r.steps = <<>>
  /\ r.status = "completed" => Len(r.steps) = Steps[r.plan]

Evidence(t) ==
  \A i \in 1..Len(row[t].steps) :
    /\ row[t].approvedPlan # None
    /\ i <= Steps[row[t].approvedPlan]
    /\ row[t].steps[i] = delivered[t][row[t].approvedPlan][i]

Held(t) == holders[t] \subseteq {row[t].claimWorker}

\* What the checks before the UPDATE established about the snapshot.
Checked(s) ==
  LET r == request[s].snapshot
      t == request[s].task
  IN
  /\ request[s].action = "plan" =>
       request[s].plan # None /\ r.claimPhase = "plan" /\ r.status = "planning"
  /\ request[s].action = "blocked" => r.status \in {"planning", "running", "blocked"}
  /\ request[s].action \in {"progress", "complete"} =>
       r.claimPhase = "execute" /\ r.status \in {"running", "completed"}
  /\ request[s].action = "progress" =>
       /\ Len(r.steps) + 1 <= Steps[r.plan]
       /\ delivered[t][r.plan][Len(r.steps) + 1] # None
  /\ request[s].action = "complete" => Len(r.steps) = Steps[r.plan]

Knows(s) ==
  /\ request[s].action # "none" => request[s].task \in Tasks
  /\ request[s].current => /\ request[s].action \notin {"none", "create", "insert"}
                           /\ request[s].snapshot = row[request[s].task]
                           /\ request[s].snapshot.status # "absent"
                           /\ Checked(s)

IInv ==
  /\ TypeOK
  /\ \A t \in Tasks : Meaning(row[t]) /\ Evidence(t) /\ Held(t)
  /\ \A s \in Sessions : Knows(s)

-----------------------------------------------------------------------------
(* The initial state                                                       *)

LEMMA IdleTyped == Idle \in Request /\ Absent \in Row
<1>1. Absent \in Row
  BY DEF Absent, Row, Statuses
<1>. QED  BY <1>1 DEF Idle, Request, Actions

LEMMA InitIInv == Init => IInv
<1>. SUFFICES ASSUME Init PROVE IInv
  OBVIOUS
<1>1. TypeOK
  BY IdleTyped, ConstantsAssumption DEF Init, TypeOK
<1>2. ASSUME NEW t \in Tasks
      PROVE  Meaning(row[t]) /\ Evidence(t) /\ Held(t)
  BY ConstantsAssumption DEF Init, Absent, Meaning, Evidence, Held
<1>3. ASSUME NEW s \in Sessions
      PROVE  Knows(s)
  BY DEF Init, Idle, Knows
<1>. QED  BY <1>1, <1>2, <1>3 DEF IInv

-----------------------------------------------------------------------------
(* Steps that change no row                                                *)

\* A session that starts, counts or gives up disturbs nobody else.
LEMMA SessionKeeps ==
  ASSUME IInv, NEW s \in Sessions, UNCHANGED <<row, holders, times, delivered>>,
         agentLock' \in Sessions \cup {None},
         request' \in [Sessions -> Request],
         \A x \in Sessions \ {s} : request'[x] = request[x],
         Knows(s)'
  PROVE  IInv'
<1>1. TypeOK'
  BY DEF IInv, TypeOK, times
<1>2. \A t \in Tasks : (Meaning(row[t]) /\ Evidence(t) /\ Held(t))'
  BY DEF IInv, Meaning, Evidence, Held
<1>3. ASSUME NEW x \in Sessions
      PROVE  Knows(x)'
  <2>1. CASE x = s
    BY <2>1
  <2>2. CASE x # s
    BY <2>2 DEF IInv, Knows, Checked
  <2>. QED  BY <2>1, <2>2
<1>. QED  BY <1>1, <1>2, <1>3 DEF IInv

LEMMA CreateTaskKeeps ==
  ASSUME IInv, NEW s \in Sessions, NEW t \in Tasks, CreateTask(s, t)
  PROVE  IInv'
<1>1. [Idle EXCEPT !.action = "create", !.task = t] \in Request
  BY IdleTyped DEF Idle, Request, Actions
<1>2. request' \in [Sessions -> Request]
  BY <1>1 DEF CreateTask, IInv, TypeOK
<1>3. Knows(s)'
  BY DEF CreateTask, IInv, TypeOK, Knows, Idle
<1>4. agentLock' \in Sessions \cup {None} /\ UNCHANGED <<row, holders, times, delivered>>
  BY DEF CreateTask, IInv, TypeOK
<1>5. \A x \in Sessions \ {s} : request'[x] = request[x]
  BY DEF CreateTask, IInv, TypeOK
<1>. QED  BY <1>2, <1>3, <1>4, <1>5, SessionKeeps

LEMMA CountOpenKeeps ==
  ASSUME IInv, NEW s \in Sessions, CountOpen(s), Cardinality(Open) \in Nat
  PROVE  IInv'
<1>1. request[s] \in Request
  BY DEF IInv, TypeOK
<1>2. request' \in [Sessions -> Request]
  <2>1. [request[s] EXCEPT !.action = "insert", !.open = Cardinality(Open)] \in Request
    BY <1>1 DEF Request, Actions
  <2>2. request' = [request EXCEPT ![s] =
                      [request[s] EXCEPT !.action = "insert", !.open = Cardinality(Open)]]
    BY DEF CountOpen, IInv, TypeOK
  <2>. QED  BY <2>1, <2>2 DEF IInv, TypeOK
<1>3. Knows(s)'
  <2>1. Knows(s) /\ request[s] \in Request
    BY DEF IInv, TypeOK
  <2>2. ~request[s].current /\ request[s].task \in Tasks
    BY <2>1 DEF CountOpen, Knows
  <2>3. request'[s].current = request[s].current /\ request'[s].task = request[s].task
    BY <2>1 DEF CountOpen, IInv, TypeOK, Request
  <2>. QED  BY <2>2, <2>3 DEF Knows
<1>4. agentLock' \in Sessions \cup {None} /\ UNCHANGED <<row, holders, times, delivered>>
  BY DEF CountOpen, IInv, TypeOK
<1>5. \A x \in Sessions \ {s} : request'[x] = request[x]
  BY DEF CountOpen, IInv, TypeOK
<1>. QED  BY <1>2, <1>3, <1>4, <1>5, SessionKeeps

LEMMA DropKeeps ==
  ASSUME IInv, NEW s \in Sessions, Drop(s)
  PROVE  IInv'
<1>2. request' \in [Sessions -> Request]
  BY IdleTyped DEF Drop, IInv, TypeOK
<1>3. Knows(s)'
  BY DEF Drop, IInv, TypeOK, Knows, Idle
<1>4. agentLock' \in Sessions \cup {None} /\ UNCHANGED <<row, holders, times, delivered>>
  BY DEF Drop, IInv, TypeOK
<1>5. \A x \in Sessions \ {s} : request'[x] = request[x]
  BY DEF Drop, IInv, TypeOK
<1>. QED  BY <1>2, <1>3, <1>4, <1>5, SessionKeeps

LEMMA ReadsKeeps ==
  ASSUME IInv, NEW s \in Sessions, NEW t \in Tasks, NEW action \in Actions,
         NEW plan \in Plans \cup {None}, NEW w \in Workers \cup {None},
         Reads(s, t, action, plan, w),
         action \notin {"none", "create", "insert"},
         row[t].status # "absent",
         Checked(s)'
  PROVE  IInv'
<1>2. request' \in [Sessions -> Request]
  BY DEF Reads, IInv, TypeOK, Request
<1>3. Knows(s)'
  BY DEF Reads, IInv, TypeOK, Knows
<1>4. agentLock' \in Sessions \cup {None} /\ UNCHANGED <<row, holders, times, delivered>>
  BY DEF Reads, IInv, TypeOK
<1>5. \A x \in Sessions \ {s} : request'[x] = request[x]
  BY DEF Reads, IInv, TypeOK
<1>. QED  BY <1>2, <1>3, <1>4, <1>5, SessionKeeps

LEMMA OwnerReadsKeeps ==
  ASSUME IInv, NEW s \in Sessions, NEW t \in Tasks, OwnerReads(s, t)
  PROVE  IInv'
<1>1. row[t].plan \in Plans \cup {None}
  BY DEF IInv, TypeOK, Row
<1>2. ASSUME NEW action \in {"approve", "cancel", "retry"},
             NEW plan \in Plans \cup {None}, Reads(s, t, action, plan, None)
      PROVE  IInv'
  <2>1. Checked(s)'
    BY <1>2 DEF Reads, IInv, TypeOK, Checked
  <2>. QED  BY <1>2, <2>1, ReadsKeeps DEF Actions, OwnerReads
<1>. QED  BY <1>1, <1>2 DEF OwnerReads

LEMMA RunnerReadsKeeps ==
  ASSUME IInv, NEW s \in Sessions, NEW t \in Tasks, NEW w \in Workers, RunnerReads(s, t, w)
  PROVE  IInv'
<1>0. row[t].status # "absent"
  BY ConstantsAssumption DEF RunnerReads, IInv, TypeOK, Meaning, Held
<1>1. CASE /\ row[t].claimPhase = "plan" /\ row[t].status = "planning"
           /\ \E p \in Affordable[t] : Reads(s, t, "plan", p, w)
  <2>1. PICK p \in Affordable[t] : Reads(s, t, "plan", p, w)
    BY <1>1
  <2>2. Checked(s)'
    BY <1>1, <2>1, ConstantsAssumption DEF Reads, IInv, TypeOK, Checked
  <2>3. p \in Plans
    BY <2>1, ConstantsAssumption
  <2>. QED  BY <2>1, <2>2, <2>3, <1>0, ReadsKeeps DEF Actions
<1>2. CASE /\ row[t].status \in {"planning", "running", "blocked"}
           /\ Reads(s, t, "blocked", None, w)
  <2>2. Checked(s)'
    BY <1>2 DEF Reads, IInv, TypeOK, Checked
  <2>. QED  BY <1>2, <2>2, <1>0, ReadsKeeps DEF Actions
<1>3. CASE /\ row[t].claimPhase = "execute" /\ row[t].status \in {"running", "completed"}
           /\ Verified(t, Len(row[t].steps) + 1) /\ Reads(s, t, "progress", None, w)
  <2>1. row[t].steps \in Seq(Outputs) /\ row[t].plan \in Plans \cup {None}
    BY DEF IInv, TypeOK, Row
  <2>2. Len(row[t].steps) + 1 <= Steps[row[t].plan]
    BY <1>3, <2>1, ConstantsAssumption DEF Verified
  <2>3. Checked(s)'
    BY <1>3, <2>2 DEF Reads, IInv, TypeOK, Checked, Verified
  <2>. QED  BY <1>3, <2>3, <1>0, ReadsKeeps DEF Actions
<1>4. CASE /\ row[t].claimPhase = "execute" /\ row[t].status \in {"running", "completed"}
           /\ AllVerified(t) /\ Reads(s, t, "complete", None, w)
  <2>3. Checked(s)'
    BY <1>4 DEF Reads, IInv, TypeOK, Checked, AllVerified
  <2>. QED  BY <1>4, <2>3, <1>0, ReadsKeeps DEF Actions
<1>. QED  BY <1>1, <1>2, <1>3, <1>4 DEF RunnerReads

LEMMA ExpireKeeps ==
  ASSUME IInv, NEW t \in Tasks, ExpireLease(t) \/ ExpireApproval(t)
  PROVE  IInv'
<1>0. UNCHANGED <<row, holders, request, agentLock, delivered>>
  BY DEF ExpireLease, ExpireApproval
<1>1. TypeOK'
  <2>1. leaseLive' \in [Tasks -> BOOLEAN]
    BY DEF IInv, TypeOK, ExpireLease, ExpireApproval, Lease
  <2>2. approvalLive' \in [Tasks -> BOOLEAN]
    BY DEF IInv, TypeOK, ExpireLease, ExpireApproval
  <2>. QED  BY <1>0, <2>1, <2>2 DEF IInv, TypeOK
<1>2. \A x \in Tasks : (Meaning(row[x]) /\ Evidence(x) /\ Held(x))'
  BY <1>0 DEF IInv, Meaning, Evidence, Held
<1>3. \A s \in Sessions : Knows(s)'
  BY <1>0 DEF IInv, Knows, Checked
<1>. QED  BY <1>1, <1>2, <1>3 DEF IInv

LEMMA DeliverKeeps ==
  ASSUME IInv, NEW t \in Tasks, NEW i \in 1..MaxSteps, Deliver(t, i)
  PROVE  IInv'
<1>. DEFINE p == row[t].plan
<1>1. p \in Plans /\ delivered[t][p][i] = None
  BY DEF Deliver, IInv, TypeOK, Row
<1>2. PICK output \in Outputs : delivered' = [delivered EXCEPT ![t][p][i] = output]
  BY DEF Deliver
<1>3. delivered' \in [Tasks -> [Plans -> [1..MaxSteps -> Outputs \cup {None}]]]
  BY <1>1, <1>2 DEF IInv, TypeOK
<1>4. \A x \in Tasks, q \in Plans, j \in 1..MaxSteps :
         delivered[x][q][j] # None => delivered'[x][q][j] = delivered[x][q][j]
  BY <1>1, <1>2 DEF IInv, TypeOK
<1>5. TypeOK'
  BY <1>3 DEF IInv, TypeOK, Deliver, times
<1>6. UNCHANGED <<row, holders, request>>
  BY DEF Deliver
<1>7. ASSUME NEW x \in Tasks
      PROVE  (Meaning(row[x]) /\ Evidence(x) /\ Held(x))'
  <2>1. Meaning(row[x])' /\ Held(x)'
    BY <1>6 DEF IInv, Meaning, Held
  <2>2. row[x].steps \in Seq(Outputs) /\ row[x].approvedPlan \in Plans \cup {None}
    BY DEF IInv, TypeOK, Row
  <2>3. ASSUME NEW j \in 1..Len(row[x].steps)
        PROVE  /\ row[x].approvedPlan # None
               /\ j <= Steps[row[x].approvedPlan]
               /\ row[x].steps[j] = delivered'[x][row[x].approvedPlan][j]
    <3>1. /\ row[x].approvedPlan # None
          /\ j <= Steps[row[x].approvedPlan]
          /\ row[x].steps[j] = delivered[x][row[x].approvedPlan][j]
      BY DEF IInv, Evidence
    <3>2. row[x].steps[j] \in Outputs
      BY <2>2
    <3>3. j \in 1..MaxSteps
      BY <2>2, <3>1, ConstantsAssumption
    <3>. QED  BY <1>4, <2>2, <3>1, <3>2, <3>3, ConstantsAssumption
  <2>. QED  BY <1>6, <2>1, <2>3 DEF Evidence
<1>8. ASSUME NEW s \in Sessions
      PROVE  Knows(s)'
  <2>1. Knows(s)
    BY DEF IInv
  <2>2. CASE request[s].action = "progress" /\ request[s].current
    <3>. DEFINE r == request[s].snapshot
                k == Len(r.steps) + 1
    <3>1. /\ request[s].task \in Tasks /\ r = row[request[s].task] /\ Checked(s)
      BY <2>1, <2>2 DEF Knows
    <3>2. /\ r.claimPhase = "execute" /\ k <= Steps[r.plan]
          /\ delivered[request[s].task][r.plan][k] # None
      BY <2>2, <3>1 DEF Checked
    <3>3. r.plan \in Plans /\ k \in 1..MaxSteps
      <4>1. Meaning(r) /\ r \in Row
        BY <3>1 DEF IInv, TypeOK
      <4>2. r.plan \in Plans
        BY <3>2, <4>1 DEF Meaning, Row
      <4>3. Len(r.steps) \in Nat
        BY <4>1 DEF Row
      <4>4. k <= Steps[r.plan] /\ Steps[r.plan] \in 1..MaxSteps /\ MaxSteps \in Nat
        BY <3>2, <4>2, ConstantsAssumption
      <4>. HIDE DEF r
      <4>5. k \in 1..MaxSteps
        BY <4>3, <4>4
      <4>. QED  BY <4>2, <4>5
    <3>4. delivered'[request[s].task][r.plan][k] # None
      BY <1>4, <3>1, <3>2, <3>3
    <3>. QED  BY <1>6, <2>1, <2>2, <3>1, <3>2, <3>4 DEF Knows, Checked
  <2>3. CASE request[s].action # "progress" \/ ~request[s].current
    BY <1>6, <2>1, <2>3 DEF Knows, Checked
  <2>. QED  BY <2>2, <2>3
<1>. QED  BY <1>5, <1>7, <1>8 DEF IInv

-----------------------------------------------------------------------------
(* Steps that change one row                                               *)

\* The row t becomes new, and no session keeps a current snapshot of it.
LEMMA PutKeeps ==
  ASSUME IInv, NEW t \in Tasks, NEW new \in Row, Put(t, new),
         request' \in [Sessions -> Request],
         \A x \in Sessions :
           \/ request'[x] = Idle
           \/ /\ request'[x] = [request[x] EXCEPT !.current = request'[x].current]
              /\ request'[x].current => request[x].current /\ request[x].task # t,
         holders' \in [Tasks -> SUBSET Workers],
         \A x \in Tasks \ {t} : holders'[x] = holders[x],
         leaseLive' \in [Tasks -> BOOLEAN], approvalLive' \in [Tasks -> BOOLEAN],
         agentLock' \in Sessions \cup {None}, UNCHANGED delivered,
         Meaning(new), Evidence(t)', Held(t)'
  PROVE  IInv'
<1>1. row' \in [Tasks -> Row] /\ row'[t] = new /\ \A x \in Tasks \ {t} : row'[x] = row[x]
  BY DEF Put, IInv, TypeOK
<1>2. TypeOK'
  BY <1>1 DEF IInv, TypeOK
<1>3. ASSUME NEW x \in Tasks
      PROVE  (Meaning(row[x]) /\ Evidence(x) /\ Held(x))'
  BY <1>1 DEF IInv, Evidence, Held, Meaning
<1>4. ASSUME NEW x \in Sessions
      PROVE  Knows(x)'
  <2>1. CASE request'[x] = Idle
    BY <2>1 DEF Knows, Idle
  <2>2. CASE /\ request'[x] = [request[x] EXCEPT !.current = request'[x].current]
             /\ request'[x].current => request[x].current /\ request[x].task # t
    <3>1. Knows(x) /\ request[x] \in Request
      BY DEF IInv, TypeOK
    <3>2. /\ request'[x].action = request[x].action /\ request'[x].task = request[x].task
          /\ request'[x].plan = request[x].plan
          /\ request'[x].snapshot = request[x].snapshot
      BY <2>2, <3>1 DEF Request
    <3>3. request'[x].current => row'[request[x].task] = row[request[x].task]
      BY <1>1, <2>2, <3>1 DEF Knows
    <3>4. Checked(x)' <=> Checked(x)
      BY <3>2 DEF Checked
    <3>. QED  BY <2>2, <3>1, <3>2, <3>3, <3>4 DEF Knows
  <2>. QED  BY <2>1, <2>2
<1>. QED  BY <1>2, <1>3, <1>4 DEF IInv

\* Answer and Outdated leave the requests as PutKeeps expects them.
LEMMA OutdatedMeans ==
  ASSUME IInv, NEW t \in Tasks
  PROVE  /\ Outdated(t) \in [Sessions -> Request]
         /\ \A x \in Sessions :
              /\ Outdated(t)[x] = [request[x] EXCEPT !.current = Outdated(t)[x].current]
              /\ Outdated(t)[x].current => request[x].current /\ request[x].task # t
BY DEF Outdated, IInv, TypeOK, Request

LEMMA AnswerMeans ==
  ASSUME IInv, NEW s \in Sessions, NEW new, Answer(s, new), request[s].task \in Tasks
  PROVE  /\ Put(request[s].task, new)
         /\ request' \in [Sessions -> Request]
         /\ \A x \in Sessions :
              \/ request'[x] = Idle
              \/ /\ request'[x] = [request[x] EXCEPT !.current = request'[x].current]
                 /\ request'[x].current => request[x].current /\ request[x].task # request[s].task
         /\ agentLock' \in Sessions \cup {None} /\ UNCHANGED delivered
<1>. DEFINE t == request[s].task
<1>1. request' = [Outdated(t) EXCEPT ![s] = Idle]
  BY DEF Answer
<1>2. request' \in [Sessions -> Request]
  BY <1>1, OutdatedMeans, IdleTyped
<1>3. \A x \in Sessions : request'[x] = IF x = s THEN Idle ELSE Outdated(t)[x]
  BY <1>1, OutdatedMeans
<1>. QED  BY <1>2, <1>3, OutdatedMeans DEF Answer, IInv, TypeOK

\* A session that may write has a current snapshot, and what it checked still holds.
LEMMA WritesMeans ==
  ASSUME IInv, NEW s \in Sessions, NEW action, Writes(s, action)
  PROVE  /\ request[s].action = action /\ request[s].task \in Tasks
         /\ request[s].snapshot = row[request[s].task]
         /\ row[request[s].task] \in Row /\ Checked(s)
         /\ Meaning(row[request[s].task]) /\ Evidence(request[s].task)
         /\ Held(request[s].task)
BY DEF Writes, IInv, TypeOK, Knows

LEMMA InsertTaskKeeps ==
  ASSUME IInv, NEW s \in Sessions, InsertTask(s)
  PROVE  IInv'
<1>0. PICK t \in Tasks : t = request[s].task
  BY DEF InsertTask, IInv, Knows
<1>. DEFINE new == [Absent EXCEPT !.status = "queued"]
<1>2. request' \in [Sessions -> Request] /\ agentLock' \in Sessions \cup {None}
  BY IdleTyped DEF InsertTask, IInv, TypeOK
<1>3. \A x \in Sessions : request'[x] = IF x = s THEN Idle ELSE request[x]
  BY DEF InsertTask, IInv, TypeOK
<1>4. CASE Put(t, new) /\ row[t].status = "absent"
  <2>0. /\ new \in Row /\ new.status = "queued" /\ new.plan = None
        /\ new.approvedPlan = None /\ new.steps = <<>> /\ new.claimWorker = None
        /\ new.claimPhase = None /\ new.executionWorker = None
    <3>1. new = [status |-> "queued", plan |-> None, approvedPlan |-> None,
                 steps |-> <<>>, claimWorker |-> None, claimPhase |-> None,
                 executionWorker |-> None]
      BY DEF Absent
    <3>. HIDE DEF new
    <3>2. new \in Row
      BY <3>1 DEF Row, Statuses
    <3>. QED  BY <3>1, <3>2
  <2>. HIDE DEF new
  <2>1. Meaning(new)
    BY <2>0, ConstantsAssumption DEF Meaning
  <2>2. row'[t] = new /\ holders' = holders /\ UNCHANGED <<times, delivered>>
    BY <1>0, <1>4 DEF InsertTask, Put, IInv, TypeOK
  <2>3. Evidence(t)'
    BY <2>0, <2>2 DEF Evidence
  <2>4. Held(t)'
    <3>1. holders[t] \subseteq {None} /\ holders[t] \subseteq Workers
      BY <1>0, <1>4 DEF IInv, TypeOK, Held, Meaning
    <3>. QED  BY <2>0, <2>2, <3>1, ConstantsAssumption DEF Held
  <2>5. \A x \in Sessions :
          \/ request'[x] = Idle
          \/ /\ request'[x] = [request[x] EXCEPT !.current = request'[x].current]
             /\ request'[x].current => request[x].current /\ request[x].task # t
    <3>1. \A x \in Sessions : request[x] \in Request /\ (request[x].current => request[x].task # t)
      BY <1>4 DEF IInv, TypeOK, Knows
    <3>. QED  BY <1>3, <3>1 DEF Request
  <2>. QED
    BY <1>0, <1>2, <1>4, <2>0, <2>1, <2>2, <2>3, <2>4, <2>5, PutKeeps DEF IInv, TypeOK, times
<1>5. CASE UNCHANGED row
  <2>1. Knows(s)'
    BY <1>3 DEF Knows, Idle
  <2>. QED  BY <1>2, <1>3, <1>5, <2>1, SessionKeeps DEF InsertTask
<1>. QED  BY <1>0, <1>4, <1>5 DEF InsertTask

LEMMA ApproveKeeps ==
  ASSUME IInv, NEW s \in Sessions, Approve(s)
  PROVE  IInv'
<1>0. PICK t \in Tasks : t = request[s].task
  BY WritesMeans DEF Approve
<1>. DEFINE new == [row[t] EXCEPT !.status = "approved", !.approvedPlan = row[t].plan]
<1>1. row[t] \in Row /\ Meaning(row[t]) /\ Evidence(t) /\ Held(t)
  BY <1>0, WritesMeans DEF Approve
<1>2. Answer(s, new) /\ row[t].status = "needs_approval"
  BY <1>0 DEF Approve
<1>3. /\ new \in Row /\ new.status = "approved" /\ new.plan = row[t].plan
      /\ new.approvedPlan = row[t].plan /\ new.steps = row[t].steps
      /\ new.claimWorker = row[t].claimWorker /\ new.claimPhase = row[t].claimPhase
      /\ new.executionWorker = row[t].executionWorker
  BY <1>1 DEF Row, Statuses
<1>. HIDE DEF new
<1>4. Put(t, new) /\ row'[t] = new /\ UNCHANGED <<holders, delivered>>
  BY <1>0, <1>1, <1>2, AnswerMeans DEF Approve, Put, IInv, TypeOK
<1>5. Meaning(new) /\ new.steps = <<>>
  BY <1>1, <1>2, <1>3, ConstantsAssumption DEF Meaning
<1>6. Evidence(t)' /\ Held(t)'
  BY <1>1, <1>3, <1>4, <1>5 DEF Evidence, Held
<1>7. leaseLive' \in [Tasks -> BOOLEAN] /\ approvalLive' \in [Tasks -> BOOLEAN]
  BY <1>0 DEF Approve, Lease, IInv, TypeOK
<1>. QED
  BY <1>0, <1>1, <1>2, <1>3, <1>4, <1>5, <1>6, <1>7, AnswerMeans, PutKeeps
  DEF IInv, TypeOK

LEMMA CancelKeeps ==
  ASSUME IInv, NEW s \in Sessions, Cancel(s)
  PROVE  IInv'
<1>0. PICK t \in Tasks : t = request[s].task
  BY WritesMeans DEF Cancel
<1>. DEFINE new == [row[t] EXCEPT !.status = "cancelled"]
<1>1. row[t] \in Row /\ Meaning(row[t]) /\ Evidence(t) /\ Held(t)
  BY <1>0, WritesMeans DEF Cancel
<1>2. Answer(s, new) /\ row[t].executionWorker = None
  BY <1>0 DEF Cancel
<1>3. /\ new \in Row /\ new.status = "cancelled" /\ new.plan = row[t].plan
      /\ new.approvedPlan = row[t].approvedPlan /\ new.steps = row[t].steps
      /\ new.claimWorker = row[t].claimWorker /\ new.claimPhase = row[t].claimPhase
      /\ new.executionWorker = row[t].executionWorker
  BY <1>1 DEF Row, Statuses
<1>. HIDE DEF new
<1>4. /\ Put(t, new) /\ row'[t] = new /\ UNCHANGED delivered
      /\ holders' = [holders EXCEPT ![t] = {}]
  BY <1>0, <1>1, <1>2, AnswerMeans DEF Cancel, Put, IInv, TypeOK
<1>5. Meaning(new)
  BY <1>1, <1>2, <1>3 DEF Meaning
<1>6. Evidence(t)' /\ Held(t)'
  BY <1>1, <1>3, <1>4 DEF Evidence, Held, IInv, TypeOK
<1>7. /\ leaseLive' \in [Tasks -> BOOLEAN] /\ approvalLive' \in [Tasks -> BOOLEAN]
      /\ holders' \in [Tasks -> SUBSET Workers]
      /\ \A x \in Tasks \ {t} : holders'[x] = holders[x]
  BY <1>0, <1>4 DEF Cancel, Lease, IInv, TypeOK
<1>. QED
  BY <1>0, <1>1, <1>2, <1>3, <1>4, <1>5, <1>6, <1>7, AnswerMeans, PutKeeps
 

LEMMA RetryKeeps ==
  ASSUME IInv, NEW s \in Sessions, Retry(s)
  PROVE  IInv'
<1>0. PICK t \in Tasks : t = request[s].task
  BY WritesMeans DEF Retry
<1>. DEFINE new == [row[t] EXCEPT !.status =
                      IF row[t].approvedPlan # None THEN "approved" ELSE "queued"]
<1>1. row[t] \in Row /\ Meaning(row[t]) /\ Evidence(t) /\ Held(t)
  BY <1>0, WritesMeans DEF Retry
<1>2. Answer(s, new) /\ row[t].status = "blocked"
  BY <1>0 DEF Retry
<1>3. /\ new \in Row /\ new.plan = row[t].plan
      /\ new.status = IF row[t].approvedPlan # None THEN "approved" ELSE "queued"
      /\ new.approvedPlan = row[t].approvedPlan /\ new.steps = row[t].steps
      /\ new.claimWorker = row[t].claimWorker /\ new.claimPhase = row[t].claimPhase
      /\ new.executionWorker = row[t].executionWorker
  BY <1>1 DEF Row, Statuses
<1>. HIDE DEF new
<1>4. Put(t, new) /\ row'[t] = new /\ UNCHANGED <<holders, delivered>>
  BY <1>0, <1>1, <1>2, AnswerMeans DEF Retry, Put, IInv, TypeOK
<1>5. Meaning(new)
  BY <1>1, <1>2, <1>3 DEF Meaning
<1>6. Evidence(t)' /\ Held(t)'
  BY <1>1, <1>3, <1>4 DEF Evidence, Held
<1>7. leaseLive' \in [Tasks -> BOOLEAN] /\ approvalLive' \in [Tasks -> BOOLEAN]
  BY <1>0 DEF Retry, Lease, IInv, TypeOK
<1>. QED
  BY <1>0, <1>1, <1>2, <1>3, <1>4, <1>5, <1>6, <1>7, AnswerMeans, PutKeeps
  DEF IInv, TypeOK

LEMMA ClaimKeeps ==
  ASSUME IInv, NEW t \in Tasks, NEW w \in Workers, Claim(t, w)
  PROVE  IInv'
<1>. DEFINE execute == row[t].approvedPlan # None
            new == [row[t] EXCEPT
                      !.status = IF execute THEN "running" ELSE "planning",
                      !.claimPhase = IF execute THEN "execute" ELSE "plan",
                      !.claimWorker = w,
                      !.executionWorker = IF execute /\ @ = None THEN w ELSE @]
<1>1. row[t] \in Row /\ Meaning(row[t]) /\ Evidence(t) /\ Held(t)
  BY DEF IInv, TypeOK
<1>2. Put(t, new) /\ Claimable(t, w)
  BY DEF Claim
<1>3. /\ new \in Row
      /\ new.status = IF execute THEN "running" ELSE "planning"
      /\ new.claimPhase = IF execute THEN "execute" ELSE "plan"
      /\ new.plan = row[t].plan /\ new.approvedPlan = row[t].approvedPlan
      /\ new.steps = row[t].steps /\ new.claimWorker = w
      /\ new.executionWorker = IF execute /\ row[t].executionWorker = None
                                 THEN w ELSE row[t].executionWorker
  BY <1>1 DEF Row, Statuses
<1>. HIDE DEF new
<1>4. row'[t] = new /\ UNCHANGED delivered
  BY <1>2 DEF Claim, Put, IInv, TypeOK
<1>5. Meaning(new)
  BY <1>1, <1>2, <1>3, ConstantsAssumption DEF Meaning, Claimable
<1>6. Evidence(t)'
  BY <1>1, <1>3, <1>4 DEF Evidence
<1>7. /\ holders' \in [Tasks -> SUBSET Workers]
      /\ \A x \in Tasks \ {t} : holders'[x] = holders[x]
      /\ holders'[t] \subseteq {w}
  BY <1>1 DEF Claim, Token, IInv, TypeOK, Held
<1>8. Held(t)'
  BY <1>3, <1>4, <1>7 DEF Held
<1>9. leaseLive' \in [Tasks -> BOOLEAN] /\ approvalLive' \in [Tasks -> BOOLEAN]
  BY DEF Claim, Lease, IInv, TypeOK
<1>10. request' = Outdated(t) /\ agentLock' = agentLock
  BY DEF Claim
<1>11. /\ request' \in [Sessions -> Request] /\ agentLock' \in Sessions \cup {None}
       /\ \A x \in Sessions :
            /\ request'[x] = [request[x] EXCEPT !.current = request'[x].current]
            /\ request'[x].current => request[x].current /\ request[x].task # t
  BY <1>10, OutdatedMeans DEF IInv, TypeOK
<1>. QED
  BY <1>2, <1>3, <1>4, <1>5, <1>6, <1>7, <1>8, <1>9, <1>11, PutKeeps

LEMMA AppendMeans ==
  ASSUME NEW q \in Seq(Outputs), NEW output \in Outputs
  PROVE  /\ Append(q, output) \in Seq(Outputs) /\ Len(Append(q, output)) = Len(q) + 1
         /\ Append(q, output)[Len(q) + 1] = output
         /\ \A i \in 1..Len(q) : Append(q, output)[i] = q[i]
OBVIOUS

\* A runner's update, whatever it writes into status, plan and results.
LEMMA RunnerPuts ==
  ASSUME IInv, NEW s \in Sessions, NEW t \in Tasks, t = request[s].task,
         NEW new \in Row, Answer(s, new),
         Lease(t, TRUE), UNCHANGED <<holders, approvalLive>>,
         new.approvedPlan = row[t].approvedPlan, new.claimWorker = row[t].claimWorker,
         Meaning(new),
         \A i \in 1..Len(new.steps) :
           /\ row[t].approvedPlan # None
           /\ i <= Steps[row[t].approvedPlan]
           /\ new.steps[i] = delivered[t][row[t].approvedPlan][i]
  PROVE  IInv'
<1>1. row[t] \in Row /\ Held(t)
  BY DEF IInv, TypeOK
<1>2. Put(t, new) /\ row'[t] = new /\ UNCHANGED <<holders, delivered>>
  BY AnswerMeans DEF Put, IInv, TypeOK
<1>3. Evidence(t)' /\ Held(t)'
  BY <1>1, <1>2 DEF Evidence, Held
<1>4. leaseLive' \in [Tasks -> BOOLEAN] /\ approvalLive' \in [Tasks -> BOOLEAN]
  BY DEF Lease, IInv, TypeOK
<1>5. /\ request' \in [Sessions -> Request] /\ agentLock' \in Sessions \cup {None}
      /\ \A x \in Sessions :
           \/ request'[x] = Idle
           \/ /\ request'[x] = [request[x] EXCEPT !.current = request'[x].current]
              /\ request'[x].current => request[x].current /\ request[x].task # t
  BY AnswerMeans
<1>6. holders' \in [Tasks -> SUBSET Workers] /\ \A x \in Tasks \ {t} : holders'[x] = holders[x]
  BY <1>2 DEF IInv, TypeOK
<1>. QED
  BY <1>2, <1>3, <1>4, <1>5, <1>6, PutKeeps

LEMMA RunnerWritesKeeps ==
  ASSUME IInv, NEW s \in Sessions, RunnerWrites(s)
  PROVE  IInv'
<1>0. PICK t \in Tasks : t = request[s].task
  BY WritesMeans DEF RunnerWrites
<1>1. /\ request[s].snapshot = row[t] /\ row[t] \in Row
      /\ Meaning(row[t]) /\ Evidence(t) /\ Checked(s) /\ request[s] \in Request
  BY <1>0, WritesMeans DEF RunnerWrites, IInv, TypeOK
<1>2. Lease(t, TRUE) /\ UNCHANGED <<holders, approvalLive>>
  BY <1>0 DEF RunnerWrites
<1>3. /\ row[t].plan \in Plans \cup {None} /\ row[t].steps \in Seq(Outputs)
      /\ row[t].status \in Statuses /\ request[s].plan \in Plans \cup {None}
  BY <1>1 DEF Row, Request
<1>. DEFINE New(status, plan, steps) ==
              [row[t] EXCEPT !.status = status, !.plan = plan, !.steps = steps]
<1>4. CASE /\ request[s].action = "plan"
           /\ Answer(s, New("needs_approval", request[s].plan, row[t].steps))
  <2>. DEFINE new == New("needs_approval", request[s].plan, row[t].steps)
  <2>1. /\ row[t].executionWorker = None /\ row[t].approvedPlan = None
        /\ request[s].plan # None
    BY <1>1, <1>4, ConstantsAssumption DEF Meaning, Checked
  <2>2. /\ new \in Row /\ new.status = "needs_approval" /\ new.plan = request[s].plan
        /\ new.steps = row[t].steps /\ new.approvedPlan = row[t].approvedPlan
        /\ new.claimWorker = row[t].claimWorker /\ new.claimPhase = row[t].claimPhase
        /\ new.executionWorker = row[t].executionWorker
    BY <1>1, <1>3 DEF Row, Statuses
  <2>3. Answer(s, new)
    BY <1>4
  <2>. HIDE DEF new
  <2>4. Meaning(new)
    BY <1>1, <2>1, <2>2 DEF Meaning
  <2>5. \A i \in 1..Len(new.steps) :
           /\ row[t].approvedPlan # None
           /\ i <= Steps[row[t].approvedPlan]
           /\ new.steps[i] = delivered[t][row[t].approvedPlan][i]
    BY <1>1, <2>2 DEF Evidence
  <2>. QED  BY <1>0, <1>2, <2>2, <2>3, <2>4, <2>5, RunnerPuts
<1>5. CASE /\ request[s].action = "blocked"
           /\ Answer(s, New("blocked", row[t].plan, row[t].steps))
  <2>. DEFINE new == New("blocked", row[t].plan, row[t].steps)
  <2>1. row[t].status \in {"planning", "running", "blocked"}
    BY <1>1, <1>5 DEF Checked
  <2>2. /\ new \in Row /\ new.status = "blocked" /\ new.plan = row[t].plan
        /\ new.steps = row[t].steps /\ new.approvedPlan = row[t].approvedPlan
        /\ new.claimWorker = row[t].claimWorker /\ new.claimPhase = row[t].claimPhase
        /\ new.executionWorker = row[t].executionWorker
    BY <1>1, <1>3 DEF Row, Statuses
  <2>3. Answer(s, new)
    BY <1>5
  <2>. HIDE DEF new
  <2>4. Meaning(new)
    BY <1>1, <2>1, <2>2 DEF Meaning
  <2>5. \A i \in 1..Len(new.steps) :
           /\ row[t].approvedPlan # None
           /\ i <= Steps[row[t].approvedPlan]
           /\ new.steps[i] = delivered[t][row[t].approvedPlan][i]
    BY <1>1, <2>2 DEF Evidence
  <2>. QED  BY <1>0, <1>2, <2>2, <2>3, <2>4, <2>5, RunnerPuts
<1>6. CASE /\ request[s].action = "progress"
           /\ Answer(s, New(row[t].status, row[t].plan,
                            Append(row[t].steps, NextResult(t, row[t]))))
  <2>. DEFINE k == Len(row[t].steps) + 1
              output == NextResult(t, row[t])
              steps == Append(row[t].steps, output)
              new == New(row[t].status, row[t].plan, steps)
  <2>0. output = delivered[t][row[t].plan][k]
    BY DEF NextResult
  <2>1. /\ row[t].claimPhase = "execute" /\ row[t].status \in {"running", "completed"}
        /\ k <= Steps[row[t].plan] /\ output # None
    BY <1>0, <1>1, <1>6, <2>0 DEF Checked
  <2>2. k \in Nat \ {0}
    BY <1>3
  <2>3. /\ row[t].executionWorker # None /\ row[t].approvedPlan = row[t].plan
        /\ row[t].plan # None
    BY <1>1, <2>1, ConstantsAssumption DEF Meaning
  <2>4. row[t].status # "completed"
    BY <1>1, <1>3, <2>1, <2>3, ConstantsAssumption DEF Meaning
  <2>5. row[t].plan \in Plans /\ k \in 1..MaxSteps
    BY <1>3, <2>1, <2>2, <2>3, ConstantsAssumption
  <2>6. output \in Outputs
    <3>. HIDE DEF k, output
    <3>0. delivered[t] \in [Plans -> [1..MaxSteps -> Outputs \cup {None}]]
      BY DEF IInv, TypeOK
    <3>1. delivered[t][row[t].plan][k] \in Outputs \cup {None}
      BY <2>5, <3>0
    <3>. QED  BY <2>0, <2>1, <3>1
  <2>7. /\ steps \in Seq(Outputs) /\ Len(steps) = k /\ steps[k] = output
        /\ \A i \in 1..Len(row[t].steps) : steps[i] = row[t].steps[i]
    BY <1>3, <2>6, AppendMeans
  <2>. HIDE DEF steps
  <2>8. /\ new \in Row /\ new.status = row[t].status /\ new.plan = row[t].plan
        /\ new.steps = steps /\ new.approvedPlan = row[t].approvedPlan
        /\ new.claimWorker = row[t].claimWorker /\ new.claimPhase = row[t].claimPhase
        /\ new.executionWorker = row[t].executionWorker
    BY <1>1, <1>3, <2>7 DEF Row
  <2>9. Answer(s, new)
    BY <1>6 DEF steps
  <2>. HIDE DEF new, output
  <2>10. Meaning(new)
    BY <1>1, <2>1, <2>3, <2>4, <2>8 DEF Meaning
  <2>11. ASSUME NEW i \in 1..Len(new.steps)
         PROVE  /\ row[t].approvedPlan # None
                /\ i <= Steps[row[t].approvedPlan]
                /\ new.steps[i] = delivered[t][row[t].approvedPlan][i]
    <3>1. CASE i = k
      BY <2>0, <2>1, <2>3, <2>7, <2>8, <3>1
    <3>2. CASE i # k
      <4>1. i \in 1..Len(row[t].steps)
        BY <1>3, <2>7, <2>8, <3>2
      <4>. QED  BY <1>1, <2>7, <2>8, <4>1 DEF Evidence
    <3>. QED  BY <3>1, <3>2
  <2>. QED  BY <1>0, <1>2, <2>8, <2>9, <2>10, <2>11, RunnerPuts
<1>7. CASE /\ request[s].action = "complete"
           /\ Answer(s, New("completed", row[t].plan, row[t].steps))
  <2>. DEFINE new == New("completed", row[t].plan, row[t].steps)
  <2>1. /\ row[t].claimPhase = "execute" /\ row[t].status \in {"running", "completed"}
        /\ Len(row[t].steps) = Steps[row[t].plan]
    BY <1>1, <1>7 DEF Checked
  <2>2. /\ new \in Row /\ new.status = "completed" /\ new.plan = row[t].plan
        /\ new.steps = row[t].steps /\ new.approvedPlan = row[t].approvedPlan
        /\ new.claimWorker = row[t].claimWorker /\ new.claimPhase = row[t].claimPhase
        /\ new.executionWorker = row[t].executionWorker
    BY <1>1, <1>3 DEF Row, Statuses
  <2>3. Answer(s, new)
    BY <1>7
  <2>. HIDE DEF new
  <2>4. Meaning(new)
    BY <1>1, <2>1, <2>2 DEF Meaning
  <2>5. \A i \in 1..Len(new.steps) :
           /\ row[t].approvedPlan # None
           /\ i <= Steps[row[t].approvedPlan]
           /\ new.steps[i] = delivered[t][row[t].approvedPlan][i]
    BY <1>1, <2>2 DEF Evidence
  <2>. QED  BY <1>0, <1>2, <2>2, <2>3, <2>4, <2>5, RunnerPuts
<1>. QED  BY <1>0, <1>1, <1>4, <1>5, <1>6, <1>7 DEF RunnerWrites, Writes

-----------------------------------------------------------------------------
(* What an update does to the row of a task                                *)

Over(r) == IF r.status \in Terminal THEN r.status ELSE "open"

SamePromise(old, new) ==
  /\ new.approvedPlan = old.approvedPlan /\ new.executionWorker = old.executionWorker
  /\ new.steps = old.steps
  /\ old.approvedPlan # None => new.plan = old.plan

\* The row t, no longer absent, becomes new: nothing that TaskPromises speaks of changes,
\* or the task is granted, started, advanced, completed or called off.
Move(t, new) ==
  LET old == row[t] IN
  /\ old.status # "absent" /\ Put(t, new)
  /\ \/ SamePromise(old, new) /\ Over(new) = Over(old) /\ UNCHANGED approvalLive
     \/ /\ old.approvedPlan = None /\ Over(old) = "open" /\ Over(new) = "open"
        /\ old.plan \in Plans /\ new = [old EXCEPT !.status = "approved", !.approvedPlan = old.plan]
        /\ approvalLive' = [approvalLive EXCEPT ![t] = TRUE]
     \/ /\ old.approvedPlan # None /\ approvalLive[t] /\ old.executionWorker = None
        /\ Over(old) = "open" /\ Over(new) = "open" /\ UNCHANGED approvalLive
        /\ new.executionWorker \in Workers /\ new.steps = old.steps
        /\ new.plan = old.plan /\ new.approvedPlan = old.approvedPlan
     \/ /\ old.executionWorker # None /\ Over(old) = "open" /\ Over(new) = "open"
        /\ Len(old.steps) < Steps[old.approvedPlan]
        /\ \E output \in Outputs : new.steps = Append(old.steps, output)
        /\ new.plan = old.plan /\ new.approvedPlan = old.approvedPlan
        /\ new.executionWorker = old.executionWorker /\ UNCHANGED approvalLive
     \/ /\ SamePromise(old, new) /\ Over(old) = "open" /\ UNCHANGED approvalLive
        /\ \/ /\ old.executionWorker # None /\ Len(old.steps) = Steps[old.approvedPlan]
              /\ Over(new) = "completed"
           \/ old.executionWorker = None /\ Over(new) = "cancelled"

LEMMA ApproveMoves ==
  ASSUME IInv, NEW s \in Sessions, Approve(s)
  PROVE  \E t \in Tasks, new \in Row : Move(t, new)
<1>0. PICK t \in Tasks : t = request[s].task
  BY WritesMeans DEF Approve
<1>. DEFINE new == [row[t] EXCEPT !.status = "approved", !.approvedPlan = row[t].plan]
<1>1. row[t] \in Row /\ Meaning(row[t]) /\ row[t].status = "needs_approval"
  BY <1>0, WritesMeans DEF Approve
<1>2. Put(t, new) /\ approvalLive' = [approvalLive EXCEPT ![t] = TRUE]
  BY <1>0 DEF Approve, Answer
<1>3. new \in Row /\ new.status = "approved"
  BY <1>1 DEF Row, Statuses
<1>4. row[t].approvedPlan = None /\ row[t].plan \in Plans
  BY <1>1 DEF Meaning, Row
<1>5. Over(row[t]) = "open" /\ Over(new) = "open"
  BY <1>1, <1>3 DEF Over, Terminal
<1>6. Move(t, new)
  BY <1>1, <1>2, <1>4, <1>5 DEF Move
<1>. QED  BY <1>3, <1>6

LEMMA CancelMoves ==
  ASSUME IInv, NEW s \in Sessions, Cancel(s)
  PROVE  \E t \in Tasks, new \in Row : Move(t, new)
<1>0. PICK t \in Tasks : t = request[s].task
  BY WritesMeans DEF Cancel
<1>. DEFINE new == [row[t] EXCEPT !.status = "cancelled"]
<1>1. row[t] \in Row /\ row[t].executionWorker = None /\ row[t].status \notin Terminal
  BY <1>0, WritesMeans DEF Cancel
<1>2. Put(t, new) /\ UNCHANGED approvalLive /\ row[t].status # "absent"
  BY <1>0 DEF Cancel, Answer, Writes, IInv, Knows
<1>3. new \in Row /\ new.status = "cancelled" /\ SamePromise(row[t], new)
  BY <1>1 DEF Row, Statuses, SamePromise
<1>5. Over(row[t]) = "open" /\ Over(new) = "cancelled"
  BY <1>1, <1>3 DEF Over, Terminal
<1>6. Move(t, new)
  BY <1>1, <1>2, <1>3, <1>5 DEF Move
<1>. QED  BY <1>3, <1>6

LEMMA RetryMoves ==
  ASSUME IInv, NEW s \in Sessions, Retry(s)
  PROVE  \E t \in Tasks, new \in Row : Move(t, new)
<1>0. PICK t \in Tasks : t = request[s].task
  BY WritesMeans DEF Retry
<1>. DEFINE new == [row[t] EXCEPT !.status =
                      IF row[t].approvedPlan # None THEN "approved" ELSE "queued"]
<1>1. row[t] \in Row /\ row[t].status = "blocked"
  BY <1>0, WritesMeans DEF Retry
<1>2. Put(t, new) /\ UNCHANGED approvalLive
  BY <1>0 DEF Retry, Answer
<1>3. new \in Row /\ new.status \in {"approved", "queued"} /\ SamePromise(row[t], new)
  BY <1>1 DEF Row, Statuses, SamePromise
<1>5. Over(row[t]) = "open" /\ Over(new) = "open"
  BY <1>1, <1>3 DEF Over, Terminal
<1>6. Move(t, new)
  BY <1>1, <1>2, <1>3, <1>5 DEF Move
<1>. QED  BY <1>3, <1>6

LEMMA ClaimMoves ==
  ASSUME IInv, NEW t \in Tasks, NEW w \in Workers, Claim(t, w)
  PROVE  \E new \in Row : Move(t, new)
<1>. DEFINE execute == row[t].approvedPlan # None
            new == [row[t] EXCEPT
                      !.status = IF execute THEN "running" ELSE "planning",
                      !.claimPhase = IF execute THEN "execute" ELSE "plan",
                      !.claimWorker = w,
                      !.executionWorker = IF execute /\ @ = None THEN w ELSE @]
<1>1. row[t] \in Row /\ Meaning(row[t])
  BY DEF IInv, TypeOK
<1>2. Put(t, new) /\ Claimable(t, w) /\ UNCHANGED approvalLive
  BY DEF Claim
<1>3. /\ new \in Row /\ new.status \in {"running", "planning"}
      /\ new.plan = row[t].plan /\ new.approvedPlan = row[t].approvedPlan
      /\ new.steps = row[t].steps
      /\ new.executionWorker = IF execute /\ row[t].executionWorker = None
                                 THEN w ELSE row[t].executionWorker
  BY <1>1 DEF Row, Statuses
<1>. HIDE DEF new
<1>4. row[t].status \in {"queued", "planning", "approved", "running"}
  BY <1>2 DEF Claimable
<1>5. Over(row[t]) = "open" /\ Over(new) = "open"
  BY <1>3, <1>4 DEF Over, Terminal
<1>6. CASE execute /\ row[t].executionWorker = None
  <2>1. approvalLive[t]
    BY <1>1, <1>2, <1>6 DEF Claimable, Meaning
  <2>. QED  BY <1>2, <1>3, <1>4, <1>5, <1>6, <2>1 DEF Move
<1>7. CASE ~(execute /\ row[t].executionWorker = None)
  <2>1. SamePromise(row[t], new)
    BY <1>3, <1>7 DEF SamePromise
  <2>. QED  BY <1>2, <1>3, <1>4, <1>5, <2>1 DEF Move
<1>. QED  BY <1>6, <1>7

LEMMA RunnerMoves ==
  ASSUME IInv, NEW s \in Sessions, RunnerWrites(s)
  PROVE  \E t \in Tasks, new \in Row : Move(t, new)
<1>0. PICK t \in Tasks : t = request[s].task
  BY WritesMeans DEF RunnerWrites
<1>1. /\ request[s].snapshot = row[t] /\ row[t] \in Row /\ row[t].status # "absent"
      /\ Meaning(row[t]) /\ Checked(s) /\ request[s] \in Request
  BY <1>0, WritesMeans DEF RunnerWrites, Writes, IInv, TypeOK, Knows
<1>2. UNCHANGED approvalLive
  BY DEF RunnerWrites
<1>3. /\ row[t].plan \in Plans \cup {None} /\ row[t].steps \in Seq(Outputs)
      /\ row[t].status \in Statuses /\ request[s].plan \in Plans \cup {None}
  BY <1>1 DEF Row, Request
<1>. DEFINE New(status, plan, steps) ==
              [row[t] EXCEPT !.status = status, !.plan = plan, !.steps = steps]
<1>4. CASE /\ request[s].action = "plan"
           /\ Put(t, New("needs_approval", request[s].plan, row[t].steps))
  <2>. DEFINE new == New("needs_approval", request[s].plan, row[t].steps)
  <2>1. row[t].approvedPlan = None /\ row[t].status = "planning"
    BY <1>1, <1>4, ConstantsAssumption DEF Meaning, Checked
  <2>2. new \in Row /\ new.status = "needs_approval" /\ SamePromise(row[t], new)
    BY <1>1, <1>3, <2>1 DEF Row, Statuses, SamePromise
  <2>3. Put(t, new)
    BY <1>4
  <2>. HIDE DEF new
  <2>4. Over(row[t]) = "open" /\ Over(new) = "open"
    BY <2>1, <2>2 DEF Over, Terminal
  <2>. QED  BY <1>1, <1>2, <2>2, <2>3, <2>4 DEF Move
<1>5. CASE /\ request[s].action = "blocked"
           /\ Put(t, New("blocked", row[t].plan, row[t].steps))
  <2>. DEFINE new == New("blocked", row[t].plan, row[t].steps)
  <2>1. row[t].status \in {"planning", "running", "blocked"}
    BY <1>1, <1>5 DEF Checked
  <2>2. new \in Row /\ new.status = "blocked" /\ SamePromise(row[t], new)
    BY <1>1, <1>3, <2>1 DEF Row, Statuses, SamePromise
  <2>3. Put(t, new)
    BY <1>5
  <2>. HIDE DEF new
  <2>4. Over(row[t]) = "open" /\ Over(new) = "open"
    BY <2>1, <2>2 DEF Over, Terminal
  <2>. QED  BY <1>1, <1>2, <2>2, <2>3, <2>4 DEF Move
<1>6. CASE /\ request[s].action = "progress"
           /\ Put(t, New(row[t].status, row[t].plan,
                         Append(row[t].steps, NextResult(t, row[t]))))
  <2>. DEFINE k == Len(row[t].steps) + 1
              output == NextResult(t, row[t])
              steps == Append(row[t].steps, output)
              new == New(row[t].status, row[t].plan, steps)
  <2>1. /\ row[t].claimPhase = "execute" /\ row[t].status \in {"running", "completed"}
        /\ k <= Steps[row[t].plan] /\ output # None
    BY <1>0, <1>1, <1>6 DEF Checked, NextResult
  <2>2. k \in Nat \ {0}
    BY <1>3
  <2>3. /\ row[t].executionWorker # None /\ row[t].approvedPlan = row[t].plan
        /\ row[t].plan # None
    BY <1>1, <2>1, ConstantsAssumption DEF Meaning
  <2>4. row[t].status = "running" /\ Len(row[t].steps) < Steps[row[t].approvedPlan]
    BY <1>1, <1>3, <2>1, <2>3, ConstantsAssumption DEF Meaning
  <2>5. row[t].plan \in Plans /\ k \in 1..MaxSteps
    BY <1>3, <2>1, <2>2, <2>3, ConstantsAssumption
  <2>6. output \in Outputs
    <3>0. delivered[t] \in [Plans -> [1..MaxSteps -> Outputs \cup {None}]]
      BY DEF IInv, TypeOK
    <3>. HIDE DEF k
    <3>1. delivered[t][row[t].plan][k] \in Outputs \cup {None}
      BY <2>5, <3>0
    <3>2. output = delivered[t][row[t].plan][k]
      BY DEF NextResult, k
    <3>. QED  BY <2>1, <3>1, <3>2
  <2>7. steps \in Seq(Outputs)
    BY <1>3, <2>6, AppendMeans
  <2>. HIDE DEF steps
  <2>8. /\ new \in Row /\ new.status = row[t].status /\ new.plan = row[t].plan
        /\ new.steps = steps /\ new.approvedPlan = row[t].approvedPlan
        /\ new.executionWorker = row[t].executionWorker
    BY <1>1, <1>3, <2>7 DEF Row
  <2>9. Put(t, new)
    BY <1>6 DEF steps
  <2>. HIDE DEF new, output
  <2>10. Over(row[t]) = "open" /\ Over(new) = "open"
    BY <2>4, <2>8 DEF Over, Terminal
  <2>11. \E x \in Outputs : new.steps = Append(row[t].steps, x)
    BY <2>6, <2>8 DEF steps
  <2>. QED  BY <1>1, <1>2, <2>3, <2>4, <2>8, <2>9, <2>10, <2>11 DEF Move
<1>7. CASE /\ request[s].action = "complete"
           /\ Put(t, New("completed", row[t].plan, row[t].steps))
  <2>. DEFINE new == New("completed", row[t].plan, row[t].steps)
  <2>1. /\ row[t].claimPhase = "execute" /\ row[t].status \in {"running", "completed"}
        /\ Len(row[t].steps) = Steps[row[t].plan]
    BY <1>1, <1>7 DEF Checked
  <2>2. new \in Row /\ new.status = "completed" /\ SamePromise(row[t], new)
    BY <1>1, <1>3 DEF Row, Statuses, SamePromise
  <2>3. Put(t, new)
    BY <1>7
  <2>. HIDE DEF new
  <2>4. Over(new) = "completed" /\ Over(row[t]) \in {"open", "completed"}
    BY <2>1, <2>2 DEF Over, Terminal
  <2>5. row[t].executionWorker # None /\ Len(row[t].steps) = Steps[row[t].approvedPlan]
    BY <1>1, <2>1 DEF Meaning
  <2>. QED  BY <1>1, <1>2, <2>2, <2>3, <2>4, <2>5 DEF Move
<1>. QED  BY <1>0, <1>1, <1>4, <1>5, <1>6, <1>7 DEF RunnerWrites, Writes, Answer

LEMMA InsertMoves ==
  ASSUME IInv, NEW s \in Sessions, InsertTask(s)
  PROVE  /\ UNCHANGED approvalLive
         /\ \/ UNCHANGED row
            \/ \E t \in Tasks, new \in Row :
                 /\ Put(t, new) /\ row[t].status = "absent"
                 /\ SamePromise(row[t], new) /\ Over(new) = Over(row[t])
<1>. SUFFICES ASSUME row' # row
              PROVE  \E t \in Tasks, new \in Row :
                        /\ Put(t, new) /\ row[t].status = "absent"
                        /\ SamePromise(row[t], new) /\ Over(new) = Over(row[t])
  BY DEF InsertTask, times
<1>0. PICK t \in Tasks : t = request[s].task
  BY DEF InsertTask, IInv, Knows
<1>. DEFINE new == [Absent EXCEPT !.status = "queued"]
<1>1. Put(t, new) /\ row[t].status = "absent"
  BY <1>0 DEF InsertTask
<1>2. Meaning(row[t]) /\ row[t] \in Row
  BY DEF IInv, TypeOK
<1>3. /\ row[t].plan = None /\ row[t].approvedPlan = None
      /\ row[t].executionWorker = None /\ row[t].steps = <<>>
  BY <1>1, <1>2 DEF Meaning, Row
<1>4. new = [status |-> "queued", plan |-> None, approvedPlan |-> None,
             steps |-> <<>>, claimWorker |-> None, claimPhase |-> None,
             executionWorker |-> None]
  BY DEF Absent
<1>. HIDE DEF new
<1>5. new \in Row
  BY <1>4 DEF Row, Statuses
<1>6. SamePromise(row[t], new) /\ Over(new) = Over(row[t])
  BY <1>1, <1>3, <1>4 DEF SamePromise, Over, Terminal
<1>. QED  BY <1>1, <1>5, <1>6

LEMMA StepMoves ==
  ASSUME IInv, [Next]_vars
  PROVE  \/ UNCHANGED <<row, approvalLive>>
         \/ \E t \in Tasks, new \in Row : Move(t, new)
         \/ \E s \in Sessions : InsertTask(s)
         \/ \E t \in Tasks : ExpireApproval(t)
<1>. USE DEF times
<1>1. CASE UNCHANGED vars
  BY <1>1 DEF vars
<1>2. ASSUME NEW s \in Sessions, CountOpen(s) \/ Drop(s)
      PROVE  UNCHANGED <<row, approvalLive>>
  BY <1>2 DEF CountOpen, Drop
<1>3. ASSUME NEW s \in Sessions, Approve(s) \/ Cancel(s) \/ Retry(s) \/ RunnerWrites(s)
      PROVE  \E t \in Tasks, new \in Row : Move(t, new)
  BY <1>3, ApproveMoves, CancelMoves, RetryMoves, RunnerMoves
<1>4. ASSUME NEW s \in Sessions, NEW t \in Tasks,
             \/ CreateTask(s, t) \/ OwnerReads(s, t)
             \/ \E w \in Workers : RunnerReads(s, t, w)
      PROVE  UNCHANGED <<row, approvalLive>>
  BY <1>4 DEF CreateTask, OwnerReads, RunnerReads, Reads
<1>5. ASSUME NEW t \in Tasks, NEW w \in Workers, Claim(t, w)
      PROVE  \E new \in Row : Move(t, new)
  BY <1>5, ClaimMoves
<1>6. ASSUME NEW t \in Tasks, ExpireLease(t)
      PROVE  UNCHANGED <<row, approvalLive>>
  BY <1>6 DEF ExpireLease
<1>7. ASSUME NEW t \in Tasks, NEW i, Deliver(t, i)
      PROVE  UNCHANGED <<row, approvalLive>>
  BY <1>7 DEF Deliver
<1>. QED  BY <1>1, <1>2, <1>3, <1>4, <1>5, <1>6, <1>7 DEF Next, Serve

-----------------------------------------------------------------------------
(* The limit on open tasks                                                 *)

\* The session that has counted holds the agent's lock, so its count is not exceeded.
Booked ==
  /\ IsFiniteSet(Open) /\ OpenLimit
  /\ \A s \in Sessions : request[s].action = "insert" =>
       agentLock = s /\ Cardinality(Open) <= request[s].open

LEMMA InitBooked == Init => Booked
<1>. SUFFICES ASSUME Init PROVE Booked
  OBVIOUS
<1>1. Open = {}
  BY DEF Init, Open, Absent
<1>. QED
  BY <1>1, FS_EmptySet, ConstantsAssumption DEF Init, Idle, Booked, OpenLimit

LEMMA MoveShrinks ==
  ASSUME IInv, NEW t \in Tasks, NEW new \in Row, Move(t, new)
  PROVE  Open' \subseteq Open
<1>1. row'[t] = new /\ \A x \in Tasks \ {t} : row'[x] = row[x]
  BY DEF Move, Put, IInv, TypeOK
<1>2. new.status \notin {"absent"} \cup Terminal => row[t].status \notin {"absent"} \cup Terminal
  <2>1. Over(new) = "open" => Over(row[t]) = "open"
    BY DEF Move
  <2>. QED  BY <2>1 DEF Move, Over, Terminal
<1>. QED  BY <1>1, <1>2 DEF Open

\* A step that opens no task, starts no insertion and takes no lock away.
LEMMA ShrinkKeeps ==
  ASSUME Booked, Open' \subseteq Open, request \in [Sessions -> Request],
         \A x \in Sessions : request'[x].action = "insert" =>
           /\ request[x].action = "insert" /\ request'[x].open = request[x].open
           /\ agentLock' = agentLock
  PROVE  Booked'
<1>1. /\ IsFiniteSet(Open) /\ Cardinality(Open) \in Nat
      /\ Cardinality(Open) <= MaxOpen
  BY FS_CardinalityType DEF Booked, OpenLimit
<1>2. /\ IsFiniteSet(Open') /\ Cardinality(Open') <= Cardinality(Open)
      /\ Cardinality(Open') \in Nat
  BY <1>1, FS_Subset, FS_CardinalityType
<1>3. Cardinality(Open)' = Cardinality(Open')
  OBVIOUS
<1>4. OpenLimit'
  BY <1>1, <1>2, ConstantsAssumption DEF OpenLimit
<1>5. ASSUME NEW x \in Sessions, request'[x].action = "insert"
      PROVE  agentLock' = x /\ Cardinality(Open') <= request'[x].open
  <2>1. /\ agentLock = x /\ Cardinality(Open) <= request[x].open
        /\ request'[x].open = request[x].open /\ agentLock' = agentLock
    BY <1>5 DEF Booked
  <2>2. request[x].open \in Nat
    BY DEF Request
  <2>. QED  BY <1>1, <1>2, <2>1, <2>2
<1>. QED  BY <1>2, <1>4, <1>5 DEF Booked

\* The second statement: the count is still right, and the insertion fits.
LEMMA InsertTaskBooked ==
  ASSUME IInv, Booked, NEW s \in Sessions, InsertTask(s)
  PROVE  Booked'
<1>1. /\ agentLock = s /\ Cardinality(Open) <= request[s].open
      /\ \A x \in Sessions \ {s} : request[x].action # "insert"
  BY DEF InsertTask, Booked
<1>2. \A x \in Sessions : request'[x] = IF x = s THEN Idle ELSE request[x]
  BY DEF InsertTask, IInv, TypeOK
<1>3. \A x \in Sessions : request'[x].action # "insert"
  BY <1>1, <1>2 DEF Idle
<1>4. /\ IsFiniteSet(Open) /\ Cardinality(Open) \in Nat /\ Cardinality(Open) <= MaxOpen
  BY FS_CardinalityType DEF Booked, OpenLimit
<1>5. CASE UNCHANGED row
  BY <1>3, <1>5, ShrinkKeeps DEF Open, IInv, TypeOK
<1>6. CASE row' # row
  <2>0. PICK t \in Tasks : t = request[s].task
    BY DEF InsertTask, IInv, Knows
  <2>1. request[s].open < MaxOpen /\ \A x \in Tasks \ {t} : row'[x] = row[x]
    BY <1>6, <2>0 DEF InsertTask, Put, IInv, TypeOK
  <2>2. Open' \subseteq Open \cup {t}
    BY <2>1 DEF Open
  <2>3. request[s].open \in Nat
    BY DEF IInv, TypeOK, Request
  <2>4. /\ IsFiniteSet(Open \cup {t}) /\ Cardinality(Open \cup {t}) \in Nat
        /\ Cardinality(Open \cup {t}) <= MaxOpen
    <3>1. /\ IsFiniteSet(Open \cup {t})
          /\ Cardinality(Open \cup {t}) = Cardinality(Open)
             \/ Cardinality(Open \cup {t}) = Cardinality(Open) + 1
      BY <1>4, FS_AddElement
    <3>2. Cardinality(Open) < MaxOpen
      BY <1>1, <1>4, <2>1, <2>3, ConstantsAssumption
    <3>. QED  BY <1>4, <3>1, <3>2, ConstantsAssumption
  <2>5. /\ IsFiniteSet(Open') /\ Cardinality(Open') <= Cardinality(Open \cup {t})
        /\ Cardinality(Open') \in Nat
    BY <2>2, <2>4, FS_Subset, FS_CardinalityType
  <2>6. OpenLimit'
    BY <2>4, <2>5, ConstantsAssumption DEF OpenLimit
  <2>. QED  BY <1>3, <2>5, <2>6 DEF Booked
<1>. QED  BY <1>5, <1>6

LEMMA CountOpenBooked ==
  ASSUME IInv, Booked, NEW s \in Sessions, CountOpen(s)
  PROVE  Booked'
<1>1. \A x \in Sessions : request[x].action # "insert"
  BY ConstantsAssumption DEF CountOpen, Booked
<1>2. Open' = Open /\ agentLock' = s
  BY DEF CountOpen, Open
<1>3. \A x \in Sessions \ {s} : request'[x] = request[x]
  BY DEF CountOpen, IInv, TypeOK
<1>4. request'[s].open = Cardinality(Open)
  BY DEF CountOpen, IInv, TypeOK, Request
<1>5. Cardinality(Open) \in Nat
  BY FS_CardinalityType DEF Booked
<1>. QED  BY <1>1, <1>2, <1>3, <1>4, <1>5 DEF Booked, OpenLimit

\* Nobody but the holder of the lock is about to insert.
LEMMA DropBooked ==
  ASSUME IInv, Booked, NEW s \in Sessions, Drop(s)
  PROVE  Booked'
<1>1. \A x \in Sessions : request'[x] = IF x = s THEN Idle ELSE request[x]
  BY DEF Drop, IInv, TypeOK
<1>2. \A x \in Sessions \ {s} : request[x].action = "insert" => agentLock' = agentLock
  BY DEF Drop, Booked
<1>. QED  BY <1>1, <1>2, ShrinkKeeps DEF Drop, Open, Idle, IInv, TypeOK

\* An update or a claim touches neither the lock nor a pending insertion.
LEMMA MoveBooked ==
  ASSUME IInv, Booked, NEW t \in Tasks, NEW new \in Row, Move(t, new), agentLock' = agentLock,
         \A x \in Sessions :
           \/ request'[x] = Idle
           \/ request'[x] = [request[x] EXCEPT !.current = request'[x].current]
  PROVE  Booked'
<1>1. Open' \subseteq Open
  BY MoveShrinks
<1>2. ASSUME NEW x \in Sessions, request'[x].action = "insert"
      PROVE  request[x].action = "insert" /\ request'[x].open = request[x].open
  <2>1. request[x] \in Request /\ request'[x] # Idle
    BY <1>2 DEF IInv, TypeOK, Idle
  <2>. QED  BY <1>2, <2>1 DEF Request
<1>3. request \in [Sessions -> Request]
  BY DEF IInv, TypeOK
<1>. QED  BY <1>1, <1>2, <1>3, ShrinkKeeps

LEMMA BookedKeeps ==
  ASSUME IInv, Booked, [Next]_vars
  PROVE  Booked'
<1>1. CASE UNCHANGED vars
  BY <1>1 DEF vars, Booked, Open, OpenLimit
<1>2. ASSUME NEW s \in Sessions,
             Approve(s) \/ Cancel(s) \/ Retry(s) \/ RunnerWrites(s)
      PROVE  Booked'
  <2>1. PICK t \in Tasks, new \in Row : Move(t, new)
    BY <1>2, ApproveMoves, CancelMoves, RetryMoves, RunnerMoves
  <2>2. PICK answer : Answer(s, answer)
    BY <1>2 DEF Approve, Cancel, Retry, RunnerWrites
  <2>3. request[s].task \in Tasks
    BY <1>2, WritesMeans DEF Approve, Cancel, Retry, RunnerWrites
  <2>4. /\ agentLock' = agentLock
        /\ \A x \in Sessions :
             \/ request'[x] = Idle
             \/ request'[x] = [request[x] EXCEPT !.current = request'[x].current]
    BY <2>2, <2>3, AnswerMeans DEF Answer
  <2>. QED  BY <2>1, <2>4, MoveBooked
<1>3. ASSUME NEW t \in Tasks, NEW w \in Workers, Claim(t, w)
      PROVE  Booked'
  <2>1. PICK new \in Row : Move(t, new)
    BY <1>3, ClaimMoves
  <2>2. agentLock' = agentLock /\ request' = Outdated(t)
    BY <1>3 DEF Claim
  <2>3. \A x \in Sessions :
          request'[x] = [request[x] EXCEPT !.current = request'[x].current]
    BY <2>2, OutdatedMeans
  <2>. QED  BY <2>1, <2>2, <2>3, MoveBooked
<1>4. ASSUME NEW s \in Sessions, NEW t \in Tasks, CreateTask(s, t)
      PROVE  Booked'
  <2>1. \A x \in Sessions : request'[x].action = "insert" => request'[x] = request[x]
    BY <1>4 DEF CreateTask, Idle, IInv, TypeOK
  <2>. QED  BY <1>4, <2>1, ShrinkKeeps DEF CreateTask, Open, IInv, TypeOK
<1>5. ASSUME NEW s \in Sessions, NEW t \in Tasks,
             NEW action \in Actions \ {"insert"}, NEW plan, NEW w, Reads(s, t, action, plan, w)
      PROVE  Booked'
  <2>1. \A x \in Sessions : request'[x].action = "insert" => request'[x] = request[x]
    BY <1>5 DEF Reads, IInv, TypeOK
  <2>. QED  BY <1>5, <2>1, ShrinkKeeps DEF Reads, Open, IInv, TypeOK
<1>6. ASSUME NEW s \in Sessions, NEW t \in Tasks,
             OwnerReads(s, t) \/ \E w \in Workers : RunnerReads(s, t, w)
      PROVE  Booked'
  <2>1. PICK action \in Actions \ {"insert"} : \E plan, w : Reads(s, t, action, plan, w)
    <3>1. CASE OwnerReads(s, t)
      BY <3>1 DEF OwnerReads, Actions
    <3>2. CASE \E w \in Workers : RunnerReads(s, t, w)
      BY <3>2 DEF RunnerReads, Actions
    <3>. QED  BY <1>6, <3>1, <3>2
  <2>. QED  BY <1>5, <2>1
<1>7. ASSUME NEW t \in Tasks, ExpireLease(t) \/ ExpireApproval(t) \/ \E i \in Nat : Deliver(t, i)
      PROVE  Booked'
  BY <1>7 DEF ExpireLease, ExpireApproval, Deliver, Booked, Open, OpenLimit
<1>8. ASSUME NEW p \in Plans, NEW i \in 1..Steps[p]
      PROVE  i \in Nat
  BY ConstantsAssumption
<1>. QED
  BY <1>1, <1>2, <1>3, <1>4, <1>6, <1>7, <1>8, InsertTaskBooked, CountOpenBooked, DropBooked
  DEF Next, Serve

-----------------------------------------------------------------------------
(* Every step keeps the invariant                                          *)

LEMMA NextKeeps ==
  ASSUME IInv, Booked, [Next]_vars
  PROVE  IInv'
<1>1. CASE UNCHANGED vars
  <2>1. TypeOK'
    BY <1>1 DEF vars, times, IInv, TypeOK
  <2>2. \A t \in Tasks : (Meaning(row[t]) /\ Evidence(t) /\ Held(t))'
    BY <1>1 DEF vars, IInv, Meaning, Evidence, Held
  <2>3. \A s \in Sessions : Knows(s)'
    BY <1>1 DEF vars, IInv, Knows, Checked
  <2>. QED  BY <2>1, <2>2, <2>3 DEF IInv
<1>2. ASSUME NEW s \in Sessions, Serve(s)
      PROVE  IInv'
  <2>1. Cardinality(Open) \in Nat
    BY FS_CardinalityType DEF Booked
  <2>. QED
    BY <1>2, <2>1, CountOpenKeeps, InsertTaskKeeps, ApproveKeeps, CancelKeeps, RetryKeeps,
       RunnerWritesKeeps, DropKeeps DEF Serve
<1>3. ASSUME NEW s \in Sessions, NEW t \in Tasks,
             \/ CreateTask(s, t) \/ OwnerReads(s, t)
             \/ \E w \in Workers : RunnerReads(s, t, w)
      PROVE  IInv'
  BY <1>3, CreateTaskKeeps, OwnerReadsKeeps, RunnerReadsKeeps
<1>4. ASSUME NEW t \in Tasks, NEW w \in Workers, Claim(t, w)
      PROVE  IInv'
  BY <1>4, ClaimKeeps
<1>5. ASSUME NEW t \in Tasks, ExpireLease(t) \/ ExpireApproval(t)
      PROVE  IInv'
  BY <1>5, ExpireKeeps
<1>6. ASSUME NEW t \in Tasks, NEW p \in Plans, NEW i \in 1..Steps[p], Deliver(t, i)
      PROVE  IInv'
  <2>1. i \in 1..MaxSteps
    BY ConstantsAssumption
  <2>. QED  BY <1>6, <2>1, DeliverKeeps
<1>. QED  BY <1>1, <1>2, <1>3, <1>4, <1>5, <1>6 DEF Next

\* The inductive invariant holds throughout.
THEOREM Invariance == Spec => [](IInv /\ Booked)
<1>1. Init => IInv /\ Booked
  BY InitIInv, InitBooked
<1>2. (IInv /\ Booked) /\ [Next]_vars => (IInv /\ Booked)'
  BY NextKeeps, BookedKeeps
<1>. QED  BY <1>1, <1>2, PTL DEF Spec

-----------------------------------------------------------------------------
(* What follows from it                                                    *)

\* Every variable has its type.
THEOREM TypeCorrect == Spec => []TypeOK
<1>1. IInv => TypeOK
  BY DEF IInv
<1>. QED  BY Invariance, <1>1, PTL

\* No statement of the service fails on a CHECK constraint of platform_tasks.
THEOREM ConstraintsHold == Spec => []Constraints
<1>1. IInv => Constraints
  BY DEF IInv, Meaning, Constraints
<1>. QED  BY Invariance, <1>1, PTL

\* At most one host holds a task's claim token, and the host that executes it keeps it.
THEOREM HolderIsUnique == Spec => []OneHolder
<1>1. IInv => OneHolder
  BY DEF IInv, Meaning, Held, OneHolder
<1>. QED  BY Invariance, <1>1, PTL

\* Rows keep their constraints, and their claims and executions one host.
THEOREM RowsSound == Spec => []RowsAreSound
<1>1. Constraints /\ OneHolder => RowsAreSound
  BY DEF RowsAreSound
<1>. QED  BY ConstraintsHold, HolderIsUnique, <1>1, PTL

\* Every recorded result is the output of the fulfilled order of its step.
THEOREM ResultsHaveEvidence == Spec => []ResultsAreDelivered
<1>1. IInv => ResultsAreDelivered
  BY DEF IInv, Evidence, ResultsAreDelivered
<1>. QED  BY Invariance, <1>1, PTL

\* Concurrent creates never overbook the open-task limit of an agent.
THEOREM LimitIsKept == Spec => []OpenLimit
<1>1. Booked => OpenLimit
  BY DEF Booked
<1>. QED  BY Invariance, <1>1, PTL

-----------------------------------------------------------------------------
(* What no step does                                                       *)

LEMMA MoveIsAllowed ==
  ASSUME IInv, NEW t \in Tasks, NEW new \in Row, Move(t, new)
  PROVE  TriggerAllows(row[t], new)
<1>1. row[t] \in Row /\ Meaning(row[t])
  BY DEF IInv, TypeOK
<1>2. row[t].steps \in Seq(Outputs)
  BY <1>1 DEF Row
<1>3. CASE SamePromise(row[t], new)
  BY <1>2, <1>3 DEF SamePromise, TriggerAllows
<1>4. CASE /\ row[t].approvedPlan = None
           /\ new = [row[t] EXCEPT !.status = "approved", !.approvedPlan = row[t].plan]
  <2>1. /\ new.plan = row[t].plan /\ new.steps = row[t].steps
        /\ new.executionWorker = row[t].executionWorker
    BY <1>1, <1>4 DEF Row
  <2>. QED  BY <1>2, <1>4, <2>1 DEF TriggerAllows
<1>5. CASE /\ row[t].executionWorker = None /\ new.steps = row[t].steps
           /\ new.plan = row[t].plan /\ new.approvedPlan = row[t].approvedPlan
  BY <1>2, <1>5 DEF TriggerAllows
<1>6. CASE /\ \E output \in Outputs : new.steps = Append(row[t].steps, output)
           /\ new.plan = row[t].plan /\ new.approvedPlan = row[t].approvedPlan
           /\ new.executionWorker = row[t].executionWorker
  <2>1. PICK output \in Outputs : new.steps = Append(row[t].steps, output)
    BY <1>6
  <2>2. /\ Len(new.steps) >= Len(row[t].steps)
        /\ \A i \in 1..Len(row[t].steps) : new.steps[i] = row[t].steps[i]
    BY <1>2, <2>1
  <2>. QED  BY <1>6, <2>2 DEF TriggerAllows
<1>. QED  BY <1>3, <1>4, <1>5, <1>6 DEF Move

LEMMA StepIsAllowed ==
  ASSUME IInv, [Next]_vars, NEW x \in Tasks
  PROVE  TriggerAllows(row[x], row'[x])
<1>1. row[x].steps \in Seq(Outputs)
  BY DEF IInv, TypeOK, Row
<1>2. TriggerAllows(row[x], row[x])
  BY <1>1 DEF TriggerAllows
<1>3. ASSUME NEW t \in Tasks, NEW new \in Row, Put(t, new), TriggerAllows(row[t], new)
      PROVE  TriggerAllows(row[x], row'[x])
  <2>1. row'[x] = IF x = t THEN new ELSE row[x]
    BY <1>3 DEF Put, IInv, TypeOK
  <2>. QED  BY <1>2, <1>3, <2>1
<1>4. ASSUME NEW t \in Tasks, NEW new \in Row, Move(t, new)
      PROVE  TriggerAllows(row[x], row'[x])
  BY <1>3, <1>4, MoveIsAllowed DEF Move
<1>5. ASSUME NEW s \in Sessions, InsertTask(s)
      PROVE  TriggerAllows(row[x], row'[x])
  <2>0. CASE row' = row
    BY <1>2, <2>0
  <2>1. CASE row' # row
    <3>1. PICK t \in Tasks, new \in Row : Put(t, new) /\ SamePromise(row[t], new)
      BY <1>5, <2>1, InsertMoves
    <3>2. row[t].steps \in Seq(Outputs)
      BY DEF IInv, TypeOK, Row
    <3>3. TriggerAllows(row[t], new)
      BY <3>1, <3>2 DEF SamePromise, TriggerAllows
    <3>. QED  BY <1>3, <3>1, <3>3
  <2>. QED  BY <2>0, <2>1
<1>6. ASSUME NEW t \in Tasks, ExpireApproval(t)
      PROVE  row' = row
  BY <1>6 DEF ExpireApproval
<1>. QED  BY <1>2, <1>4, <1>5, <1>6, StepMoves

\* No UPDATE of the service makes the immutability trigger raise.
THEOREM TriggerIsQuiet == Spec => TriggerNeverRaises
<1>1. IInv /\ [Next]_vars => [\A t \in Tasks : TriggerAllows(row[t], row'[t])]_row
  BY StepIsAllowed
<1>. QED  BY Invariance, <1>1, PTL DEF Spec, TriggerNeverRaises

-----------------------------------------------------------------------------
(* The service implements TaskPromises                                     *)

Granted == [t \in Tasks |-> row[t].approvedPlan]
Host == [t \in Tasks |-> row[t].executionWorker]
Results == [t \in Tasks |-> row[t].steps]
Ended == [t \in Tasks |-> Over(row[t])]

\* What the abstract variables become when one row does.
LEMMA PutMeans ==
  ASSUME IInv, NEW t \in Tasks, NEW new \in Row, Put(t, new)
  PROVE  /\ Granted' = [Granted EXCEPT ![t] = new.approvedPlan]
         /\ Host' = [Host EXCEPT ![t] = new.executionWorker]
         /\ Results' = [Results EXCEPT ![t] = new.steps]
         /\ Ended' = [Ended EXCEPT ![t] = Over(new)]
         /\ new.approvedPlan = row[t].approvedPlan => Granted' = Granted
         /\ new.executionWorker = row[t].executionWorker => Host' = Host
         /\ new.steps = row[t].steps => Results' = Results
         /\ Over(new) = Over(row[t]) => Ended' = Ended
<1>1. \A x \in Tasks : row'[x] = IF x = t THEN new ELSE row[x]
  BY DEF Put, IInv, TypeOK
<1>2. /\ Granted' = [Granted EXCEPT ![t] = new.approvedPlan]
      /\ new.approvedPlan = row[t].approvedPlan => Granted' = Granted
  BY <1>1 DEF Granted
<1>3. /\ Host' = [Host EXCEPT ![t] = new.executionWorker]
      /\ new.executionWorker = row[t].executionWorker => Host' = Host
  BY <1>1 DEF Host
<1>4. /\ Results' = [Results EXCEPT ![t] = new.steps]
      /\ new.steps = row[t].steps => Results' = Results
  BY <1>1 DEF Results
<1>5. /\ Ended' = [Ended EXCEPT ![t] = Over(new)]
      /\ Over(new) = Over(row[t]) => Ended' = Ended
  BY <1>1 DEF Ended, Over
<1>. QED  BY <1>2, <1>3, <1>4, <1>5

\* The steps of TaskPromises, in these terms.
LEMMA PromiseSteps ==
  ASSUME NEW t \in Tasks
  PROVE  /\ UNCHANGED <<Granted, approvalLive, Host, Results, Ended>>
              => UNCHANGED Promise!vars
         /\ \A p \in Plans :
              /\ row[t].approvedPlan = None /\ Over(row[t]) = "open"
              /\ Granted' = [Granted EXCEPT ![t] = p]
              /\ approvalLive' = [approvalLive EXCEPT ![t] = TRUE]
              /\ UNCHANGED <<Host, Results, Ended>>
              => Promise!Grant(t, p)
         /\ \A w \in Workers :
              /\ row[t].approvedPlan # None /\ approvalLive[t]
              /\ row[t].executionWorker = None /\ Over(row[t]) = "open"
              /\ Host' = [Host EXCEPT ![t] = w]
              /\ UNCHANGED <<Granted, approvalLive, Results, Ended>>
              => Promise!Start(t, w)
         /\ \A output \in Outputs :
              /\ row[t].executionWorker # None /\ Over(row[t]) = "open"
              /\ Len(row[t].steps) < Steps[row[t].approvedPlan]
              /\ Results' = [Results EXCEPT ![t] = Append(row[t].steps, output)]
              /\ UNCHANGED <<Granted, approvalLive, Host, Ended>>
              => Promise!Record(t, output)
         /\ /\ row[t].executionWorker # None /\ Over(row[t]) = "open"
            /\ Len(row[t].steps) = Steps[row[t].approvedPlan]
            /\ Ended' = [Ended EXCEPT ![t] = "completed"]
            /\ UNCHANGED <<Granted, approvalLive, Host, Results>>
            => Promise!Complete(t)
         /\ /\ row[t].executionWorker = None /\ Over(row[t]) = "open"
            /\ Ended' = [Ended EXCEPT ![t] = "cancelled"]
            /\ UNCHANGED <<Granted, approvalLive, Host, Results>>
            => Promise!CallOff(t)
<1>. USE DEF Granted, Host, Results, Ended, Over
<1>1. UNCHANGED <<Granted, approvalLive, Host, Results, Ended>> => UNCHANGED Promise!vars
  BY DEF Promise!vars
<1>2. ASSUME NEW p \in Plans, row[t].approvedPlan = None, Over(row[t]) = "open",
             Granted' = [Granted EXCEPT ![t] = p],
             approvalLive' = [approvalLive EXCEPT ![t] = TRUE],
             UNCHANGED <<Host, Results, Ended>>
      PROVE  Promise!Grant(t, p)
  BY <1>2 DEF Promise!Grant
<1>3. ASSUME NEW w \in Workers, row[t].approvedPlan # None, approvalLive[t],
             row[t].executionWorker = None, Over(row[t]) = "open",
             Host' = [Host EXCEPT ![t] = w],
             UNCHANGED <<Granted, approvalLive, Results, Ended>>
      PROVE  Promise!Start(t, w)
  BY <1>3 DEF Promise!Start
<1>4. ASSUME NEW output \in Outputs, row[t].executionWorker # None, Over(row[t]) = "open",
             Len(row[t].steps) < Steps[row[t].approvedPlan],
             Results' = [Results EXCEPT ![t] = Append(row[t].steps, output)],
             UNCHANGED <<Granted, approvalLive, Host, Ended>>
      PROVE  Promise!Record(t, output)
  BY <1>4 DEF Promise!Record
<1>5. ASSUME row[t].executionWorker # None, Over(row[t]) = "open",
             Len(row[t].steps) = Steps[row[t].approvedPlan],
             Ended' = [Ended EXCEPT ![t] = "completed"],
             UNCHANGED <<Granted, approvalLive, Host, Results>>
      PROVE  Promise!Complete(t)
  BY <1>5 DEF Promise!Complete
<1>6. ASSUME row[t].executionWorker = None, Over(row[t]) = "open",
             Ended' = [Ended EXCEPT ![t] = "cancelled"],
             UNCHANGED <<Granted, approvalLive, Host, Results>>
      PROVE  Promise!CallOff(t)
  BY <1>6 DEF Promise!CallOff
<1>. HIDE DEF Granted, Host, Results, Ended, Over
<1>. QED  BY <1>1, <1>2, <1>3, <1>4, <1>5, <1>6

LEMMA MoveRefines ==
  ASSUME IInv, NEW t \in Tasks, NEW new \in Row, Move(t, new)
  PROVE  Promise!Next \/ UNCHANGED Promise!vars
<1>0. row[t] \in Row
  BY DEF IInv, TypeOK
<1>1. Put(t, new)
  BY DEF Move
<1>2. CASE SamePromise(row[t], new) /\ Over(new) = Over(row[t]) /\ UNCHANGED approvalLive
  BY <1>1, <1>2, PutMeans, PromiseSteps DEF SamePromise
<1>3. CASE /\ row[t].approvedPlan = None /\ Over(row[t]) = "open" /\ Over(new) = "open"
           /\ row[t].plan \in Plans
           /\ new = [row[t] EXCEPT !.status = "approved", !.approvedPlan = row[t].plan]
           /\ approvalLive' = [approvalLive EXCEPT ![t] = TRUE]
  <2>0. PICK p \in Plans :
           /\ p = row[t].plan /\ row[t].approvedPlan = None
           /\ Over(row[t]) = "open" /\ Over(new) = "open"
           /\ approvalLive' = [approvalLive EXCEPT ![t] = TRUE]
    BY <1>3
  <2>1. /\ new.approvedPlan = p /\ new.steps = row[t].steps
        /\ new.executionWorker = row[t].executionWorker
    BY <1>0, <1>3, <2>0 DEF Row
  <2>2. /\ Granted' = [Granted EXCEPT ![t] = p]
        /\ UNCHANGED <<Host, Results, Ended>>
    BY <1>1, <2>0, <2>1, PutMeans
  <2>3. Promise!Grant(t, p)
    BY <2>0, <2>2, PromiseSteps
  <2>. QED  BY <2>3 DEF Promise!Next
<1>4. CASE /\ row[t].approvedPlan # None /\ approvalLive[t] /\ row[t].executionWorker = None
           /\ Over(row[t]) = "open" /\ Over(new) = "open" /\ UNCHANGED approvalLive
           /\ new.executionWorker \in Workers /\ new.steps = row[t].steps
           /\ new.approvedPlan = row[t].approvedPlan
  <2>1. Promise!Start(t, new.executionWorker)
    BY <1>1, <1>4, PutMeans, PromiseSteps
  <2>. QED  BY <1>4, <2>1 DEF Promise!Next
<1>5. CASE /\ row[t].executionWorker # None /\ Over(row[t]) = "open" /\ Over(new) = "open"
           /\ Len(row[t].steps) < Steps[row[t].approvedPlan]
           /\ \E output \in Outputs : new.steps = Append(row[t].steps, output)
           /\ new.approvedPlan = row[t].approvedPlan
           /\ new.executionWorker = row[t].executionWorker /\ UNCHANGED approvalLive
  <2>1. PICK output \in Outputs : new.steps = Append(row[t].steps, output)
    BY <1>5
  <2>2. Promise!Record(t, output)
    BY <1>1, <1>5, <2>1, PutMeans, PromiseSteps
  <2>. QED  BY <2>2 DEF Promise!Next
<1>6. CASE /\ SamePromise(row[t], new) /\ Over(row[t]) = "open" /\ UNCHANGED approvalLive
           /\ row[t].executionWorker # None /\ Len(row[t].steps) = Steps[row[t].approvedPlan]
           /\ Over(new) = "completed"
  <2>1. Promise!Complete(t)
    BY <1>1, <1>6, PutMeans, PromiseSteps DEF SamePromise
  <2>. QED  BY <2>1 DEF Promise!Next
<1>7. CASE /\ SamePromise(row[t], new) /\ Over(row[t]) = "open" /\ UNCHANGED approvalLive
           /\ row[t].executionWorker = None /\ Over(new) = "cancelled"
  <2>1. Promise!CallOff(t)
    BY <1>1, <1>7, PutMeans, PromiseSteps DEF SamePromise
  <2>. QED  BY <2>1 DEF Promise!Next
<1>. QED  BY <1>2, <1>3, <1>4, <1>5, <1>6, <1>7 DEF Move

\* One grant, a start only while it is live, one host, results only added, a completed task
\* with all of them, and no cancellation of a task that has started.
THEOREM Refinement == Spec => ImplementsPromises
<1>1. Init => Promise!Init
  BY DEF Init, Absent, Terminal, Promise!Init
<1>2. IInv /\ [Next]_vars => [Promise!Next]_(Promise!vars)
  <2>. SUFFICES ASSUME IInv, [Next]_vars
                PROVE  Promise!Next \/ UNCHANGED Promise!vars
    OBVIOUS
  <2>1. CASE UNCHANGED <<row, approvalLive>>
    BY <2>1 DEF Promise!vars
  <2>2. CASE \E t \in Tasks, new \in Row : Move(t, new)
    BY <2>2, MoveRefines
  <2>3. CASE \E s \in Sessions : InsertTask(s)
    <3>1. PICK s \in Sessions : InsertTask(s)
      BY <2>3
    <3>2. CASE UNCHANGED row
      BY <3>1, <3>2, InsertMoves DEF Promise!vars
    <3>3. CASE row' # row
      <4>1. PICK t \in Tasks, new \in Row :
              Put(t, new) /\ SamePromise(row[t], new) /\ Over(new) = Over(row[t])
        BY <3>1, <3>3, InsertMoves
      <4>2. UNCHANGED approvalLive
        BY <3>1, InsertMoves
      <4>. QED  BY <4>1, <4>2, PutMeans, PromiseSteps DEF SamePromise
    <3>. QED  BY <3>2, <3>3
  <2>4. CASE \E t \in Tasks : ExpireApproval(t)
    <3>1. PICK t \in Tasks : ExpireApproval(t)
      BY <2>4
    <3>2. Promise!Expire(t)
      BY <3>1 DEF ExpireApproval, Promise!Expire
    <3>. QED  BY <3>2 DEF Promise!Next
  <2>. QED  BY <2>1, <2>2, <2>3, <2>4, StepMoves
<1>. QED  BY Invariance, <1>1, <1>2, PTL DEF Spec, ImplementsPromises, Promise!Spec

-----------------------------------------------------------------------------
(***************************************************************************)
(* The programs of execution hosts only do what GeneralTasks allows hosts  *)
(* to do, so that its theorems hold of them; and for any sets of tasks,    *)
(* plans, hosts and requests, they pay for the approved steps in order and *)
(* for nothing else.  The inductive invariant ties a host's journals to    *)
(* the row (Bought), what its program does to both (Busy), and every       *)
(* report of a step, sent, served or recorded, to the completed order it   *)
(* is about (Reported, Served, Recorded).                                  *)
(***************************************************************************)

-----------------------------------------------------------------------------
(* What the programs do is what hosts may do                               *)

LEMMA HostedStep ==
  ASSUME IInv, [HostNext]_hostVars
  PROVE  [Next]_vars
<1>1. CASE UNCHANGED hostVars
  BY <1>1 DEF hostVars
<1>2. CASE ~hosted /\ Next
  BY <1>2
<1>3. ASSUME NEW s \in Sessions, Owner(s) \/ HostWrites(s)
      PROVE  Next
  BY <1>3, HostsAssumption DEF Owner, HostWrites, Next, Serve
<1>4. ASSUME NEW s \in Sessions, NEW t \in HostedTasks, NEW w \in Workers, HostReads(s, t, w)
      PROVE  Next
  BY <1>4, HostsAssumption DEF HostReads, Next
<1>5. ASSUME NEW w \in Workers, HostRuns(w)
      PROVE  [Next]_vars
  <2>1. CASE \E t \in HostedTasks : HostClaims(w, t)
    BY <2>1, HostsAssumption DEF HostClaims, Next
  <2>2. CASE ~\E t \in HostedTasks : HostClaims(w, t)
    BY <1>5, <2>2 DEF HostRuns, PlanTask, PlanAnswered, EnterStep, Purchase, ReportStep,
                      StepReplayed, Fails
  <2>. QED  BY <2>1, <2>2
<1>6. ASSUME NEW t \in HostedTasks, Elapses(t)
      PROVE  Next
  BY <1>6, HostsAssumption DEF Elapses, Next
<1>7. ASSUME NEW t \in HostedTasks, NEW i \in 1..MaxSteps, DeliverPaid(t, i)
      PROVE  Next
  <2>1. row[t].plan \in Plans /\ t \in Tasks /\ i \in 1..Steps[row[t].plan] /\ Deliver(t, i)
    BY <1>7, HostsAssumption DEF DeliverPaid, Deliver, IInv, TypeOK, Row
  <2>. QED  BY <2>1 DEF Next
<1>. QED  BY <1>1, <1>2, <1>3, <1>4, <1>5, <1>6, <1>7 DEF HostNext, HostedNext

\* The programs of the hosts are hosts of GeneralTasks: whatever is proved of the service
\* and any callers holds of them (pollTaskOnce calls nothing else).
THEOREM HostsAreCallers == HostSpec => Spec
<1>1. HostInit => Init
  BY DEF HostInit
<1>2. IInv /\ Booked /\ [HostNext]_hostVars => [Next]_vars
  BY HostedStep
<1>3. Init => IInv /\ Booked
  BY InitIInv, InitBooked
<1>4. IInv /\ Booked /\ [Next]_vars => (IInv /\ Booked)'
  BY NextKeeps, BookedKeeps
<1>. QED  BY <1>1, <1>2, <1>3, <1>4, PTL DEF HostSpec, Spec

-----------------------------------------------------------------------------
(* The invariant                                                           *)

Phases == {"off", "planning", "plan", "executing", "purchasing", "progress", "complete"}
AtSteps == {"executing", "purchasing", "progress", "complete"}
Said == {"plan", "blocked", "progress", "complete"} \X (Plans \cup {None} \cup 0..MaxSteps)
Stages == {"unpaid", "paying", "paid", "completed"}

HostTypeOK ==
  /\ hosted \in BOOLEAN
  /\ host \in [Workers -> [at : Phases, task : Tasks \cup {None}, step : 0..MaxSteps]]
  /\ planned \in [Workers -> [Tasks -> Plans \cup {None}]]
  /\ bound \in [Workers -> [Tasks -> Plans \cup {None}]]
  /\ file \in [Workers -> [Tasks -> [1..MaxSteps -> Stages]]]
  /\ sent \in [Workers -> [Tasks -> Said \cup {None}]]

\* Free hosts do not run the programs.
Fresh == ~hosted => \A w \in Workers :
  /\ host[w].at = "off"
  /\ \A t \in Tasks : sent[w][t] = None /\ bound[w][t] = None

\* What a host has bound is what the owner approved and this host executes; what it has
\* begun to pay is a step of it, and all before are recorded.
Bought(w, t) ==
  /\ bound[w][t] # None => row[t].executionWorker = w /\ row[t].approvedPlan = bound[w][t]
  /\ \A i \in 1..MaxSteps : file[w][t][i] # "unpaid" =>
       bound[w][t] # None /\ i <= Steps[bound[w][t]] /\ i <= Len(row[t].steps) + 1

\* A program at a step is at one of the bound plan, all before it are recorded, and it
\* reports what is completed.
Busy(w) ==
  LET t == host[w].task
      i == host[w].step
  IN
  /\ host[w].at # "off" => t \in Tasks
  /\ host[w].at \in AtSteps =>
       bound[w][t] # None /\ i \in 1..Steps[bound[w][t]] /\ i <= Len(row[t].steps) + 1
  /\ host[w].at = "progress" => file[w][t][i] = "completed"

\* A report of a step is sent, served and recorded of a completed order only.
Reported(w, t) ==
  \A i \in 1..MaxSteps : sent[w][t] = <<"progress", i>> => file[w][t][i] = "completed"

Served(s) ==
  LET i == Len(request[s].snapshot.steps) + 1 IN
  request[s].action = "progress" /\ request[s].current =>
    /\ request[s].worker \in Workers /\ i \in 1..MaxSteps
    /\ file[request[s].worker][request[s].task][i] = "completed"

Recorded(t) ==
  \A i \in 1..Len(row[t].steps) : file[row[t].executionWorker][t][i] = "completed"

HInv ==
  /\ HostTypeOK /\ Fresh
  /\ \A w \in Workers : Busy(w) /\ \A t \in Tasks : Bought(w, t) /\ Reported(w, t)
  /\ hosted => (\A s \in Sessions : Served(s)) /\ (\A t \in Tasks : Recorded(t))

LEMMA InvariantMeans == IInv /\ HInv => HostsPayInOrder
<1>. SUFFICES ASSUME IInv, HInv, NEW t \in HostedTasks PROVE
       /\ \A w \in Workers : \A i \in 1..MaxSteps :
            file[w][t][i] # "unpaid" =>
              /\ row[t].executionWorker = w /\ row[t].approvedPlan = bound[w][t]
              /\ i <= Steps[row[t].approvedPlan] /\ i <= Len(row[t].steps) + 1
              /\ row[t].status # "cancelled"
       /\ hosted => \A i \in 1..Len(row[t].steps) : file[row[t].executionWorker][t][i] = "completed"
  BY DEF HostsPayInOrder
<1>1. t \in Tasks /\ Meaning(row[t])
  BY HostsAssumption DEF IInv
<1>2. ASSUME NEW w \in Workers, NEW i \in 1..MaxSteps, file[w][t][i] # "unpaid"
      PROVE  /\ row[t].executionWorker = w /\ row[t].approvedPlan = bound[w][t]
             /\ i <= Steps[row[t].approvedPlan] /\ i <= Len(row[t].steps) + 1
             /\ row[t].status # "cancelled"
  <2>1. Bought(w, t) /\ w # None
    BY <1>1, ConstantsAssumption DEF HInv
  <2>. QED  BY <1>1, <1>2, <2>1 DEF Bought, Meaning
<1>3. hosted => Recorded(t)
  BY <1>1 DEF HInv
<1>. QED  BY <1>2, <1>3 DEF Recorded

LEMMA InitHInv == HostInit => HInv
<1>. SUFFICES ASSUME HostInit PROVE HInv
  OBVIOUS
<1>1. HostTypeOK
  BY ConstantsAssumption DEF HostInit, HostTypeOK, Off, Phases, Stages
<1>2. Fresh
  BY DEF HostInit, Fresh, Off
<1>3. ASSUME NEW w \in Workers PROVE Busy(w)
  BY DEF HostInit, Busy, Off, AtSteps
<1>4. ASSUME NEW w \in Workers, NEW t \in Tasks PROVE Bought(w, t) /\ Reported(w, t)
  <2>1. ASSUME NEW i \in 1..MaxSteps PROVE None # <<"progress", i>>
    BY HostsAssumption
  <2>. QED  BY <2>1 DEF HostInit, Bought, Reported
<1>5. ASSUME NEW s \in Sessions PROVE Served(s)
  BY DEF HostInit, Init, Idle, Served
<1>6. ASSUME NEW t \in Tasks PROVE Recorded(t)
  BY DEF HostInit, Init, Absent, Recorded
<1>. QED  BY <1>1, <1>2, <1>3, <1>4, <1>5, <1>6 DEF HInv

-----------------------------------------------------------------------------
(* What the service does to results and requests                           *)

\* The steps that are neither a runner's request nor its update.
ServiceOnly ==
  \/ UNCHANGED <<row, request>>
  \/ \E s \in Sessions :
       \/ CountOpen(s) \/ InsertTask(s) \/ Approve(s) \/ Cancel(s) \/ Retry(s) \/ Drop(s)
       \/ \E t \in Tasks : CreateTask(s, t) \/ OwnerReads(s, t)
  \/ \E t \in Tasks, w \in Workers : Claim(t, w)

\* They leave the results of all tasks alone.
LEMMA StepsStay ==
  ASSUME IInv, ServiceOnly, NEW t \in Tasks
  PROVE  row'[t].steps = row[t].steps
<1>0. row[t] \in Row /\ row \in [Tasks -> Row]
  BY DEF IInv, TypeOK
<1>1. ASSUME row' = row PROVE row'[t].steps = row[t].steps
  BY <1>1
<1>2. ASSUME NEW x \in Tasks, NEW new, Put(x, new), new.steps = row[x].steps
      PROVE  row'[t].steps = row[t].steps
  BY <1>0, <1>2 DEF Put
<1>3. ASSUME NEW s \in Sessions, InsertTask(s)
      PROVE  row'[t].steps = row[t].steps
  BY <1>1, <1>2, <1>3, InsertMoves DEF SamePromise
<1>4. ASSUME NEW s \in Sessions, Approve(s) \/ Cancel(s) \/ Retry(s)
      PROVE  row'[t].steps = row[t].steps
  <2>1. PICK x \in Tasks : x = request[s].task
    BY <1>4, WritesMeans DEF Approve, Cancel, Retry
  <2>2. row[x] \in Row
    BY DEF IInv, TypeOK
  <2>3. CASE Approve(s)
    <3>. DEFINE new == [row[x] EXCEPT !.status = "approved", !.approvedPlan = row[x].plan]
    <3>1. Put(x, new) /\ new.steps = row[x].steps
      BY <2>1, <2>2, <2>3 DEF Approve, Answer, Row
    <3>. HIDE DEF new
    <3>. QED  BY <1>2, <3>1
  <2>4. CASE Cancel(s)
    <3>. DEFINE new == [row[x] EXCEPT !.status = "cancelled"]
    <3>1. Put(x, new) /\ new.steps = row[x].steps
      BY <2>1, <2>2, <2>4 DEF Cancel, Answer, Row
    <3>. HIDE DEF new
    <3>. QED  BY <1>2, <3>1
  <2>5. CASE Retry(s)
    <3>. DEFINE new == [row[x] EXCEPT !.status =
                          IF row[x].approvedPlan # None THEN "approved" ELSE "queued"]
    <3>1. Put(x, new) /\ new.steps = row[x].steps
      BY <2>1, <2>2, <2>5 DEF Retry, Answer, Row
    <3>. HIDE DEF new
    <3>. QED  BY <1>2, <3>1
  <2>. QED  BY <1>4, <2>3, <2>4, <2>5
<1>5. ASSUME NEW x \in Tasks, NEW w \in Workers, Claim(x, w)
      PROVE  row'[t].steps = row[t].steps
  <2>1. row[x] \in Row
    BY DEF IInv, TypeOK
  <2>. DEFINE execute == row[x].approvedPlan # None
              new == [row[x] EXCEPT
                !.status = IF execute THEN "running" ELSE "planning",
                !.claimPhase = IF execute THEN "execute" ELSE "plan",
                !.claimWorker = w,
                !.executionWorker = IF execute /\ @ = None THEN w ELSE @]
  <2>2. Put(x, new) /\ new.steps = row[x].steps
    BY <1>5, <2>1 DEF Claim, Row
  <2>. HIDE DEF new
  <2>. QED  BY <1>2, <2>2
<1>6. ASSUME NEW s \in Sessions, CountOpen(s) \/ Drop(s) PROVE row' = row
  BY <1>6 DEF CountOpen, Drop
<1>7. ASSUME NEW s \in Sessions, NEW x \in Tasks, CreateTask(s, x) \/ OwnerReads(s, x)
      PROVE  row' = row
  BY <1>7 DEF CreateTask, OwnerReads, Reads
<1>. QED  BY <1>1, <1>3, <1>4, <1>5, <1>6, <1>7 DEF ServiceOnly

\* They make no report, and no outdated one current.
LEMMA RequestsStay ==
  ASSUME IInv, ServiceOnly \/ (\E x \in Sessions : RunnerWrites(x)), NEW s \in Sessions,
         request'[s].action = "progress", request'[s].current
  PROVE  request'[s] = request[s]
<1>0. request \in [Sessions -> Request] /\ request[s] \in Request
  BY DEF IInv, TypeOK
<1>2. ASSUME NEW x \in Sessions, NEW t \in Tasks, CreateTask(x, t)
      PROVE  request'[s] = request[s]
  BY <1>0, <1>2 DEF CreateTask, Idle
<1>3. ASSUME NEW x \in Sessions, CountOpen(x)
      PROVE  request'[s] = request[s]
  BY <1>0, <1>3 DEF CountOpen, Request
<1>4. ASSUME NEW x \in Sessions, InsertTask(x) \/ Drop(x)
      PROVE  request'[s] = request[s]
  BY <1>0, <1>4 DEF InsertTask, Drop, Idle
<1>5. ASSUME NEW t \in Tasks, request' = Outdated(t)
      PROVE  request'[s] = request[s]
  BY <1>0, <1>5 DEF Outdated, Request
<1>6. ASSUME NEW x \in Sessions, NEW t \in Tasks, request' = [Outdated(t) EXCEPT ![x] = Idle]
      PROVE  request'[s] = request[s]
  <2>1. CASE x = s
    BY <1>6, <2>1 DEF Outdated, Idle
  <2>2. CASE x # s
    BY <1>0, <1>6, <2>2 DEF Outdated, Request
  <2>. QED  BY <2>1, <2>2
<1>7. ASSUME NEW x \in Sessions, Approve(x) \/ Cancel(x) \/ Retry(x) \/ RunnerWrites(x)
      PROVE  request'[s] = request[s]
  <2>1. request[x].task \in Tasks
    BY <1>7, WritesMeans DEF Approve, Cancel, Retry, RunnerWrites
  <2>2. request' = [Outdated(request[x].task) EXCEPT ![x] = Idle]
    BY <1>7 DEF Approve, Cancel, Retry, RunnerWrites, Answer
  <2>. QED  BY <1>6, <2>1, <2>2
<1>8. ASSUME NEW x \in Sessions, NEW t \in Tasks, OwnerReads(x, t)
      PROVE  request'[s] = request[s]
  BY <1>0, <1>8 DEF OwnerReads, Reads
<1>9. ASSUME NEW t \in Tasks, NEW w \in Workers, Claim(t, w)
      PROVE  request'[s] = request[s]
  BY <1>5, <1>9 DEF Claim
<1>. QED  BY <1>2, <1>3, <1>4, <1>7, <1>8, <1>9 DEF ServiceOnly

\* A runner's update adds the result of the step it reports, or none.
LEMMA StepsWritten ==
  ASSUME IInv, NEW s \in Sessions, RunnerWrites(s), NEW t \in Tasks
  PROVE  \/ row'[t].steps = row[t].steps
         \/ /\ request[s].task = t /\ request[s].action = "progress" /\ request[s].current
            /\ Len(row'[t].steps) = Len(row[t].steps) + 1
<1>1. PICK x \in Tasks : x = request[s].task
  BY WritesMeans DEF RunnerWrites
<1>2. /\ row \in [Tasks -> Row] /\ row[x] \in Row /\ row[x].steps \in Seq(Outputs)
      /\ request[s].snapshot = row[x]
  BY <1>1, WritesMeans DEF RunnerWrites, IInv, TypeOK, Row
<1>3. CASE x # t
  BY <1>1, <1>2, <1>3 DEF RunnerWrites, Answer, Put
<1>. DEFINE New(status, plan, steps) ==
              [row[x] EXCEPT !.status = status, !.plan = plan, !.steps = steps]
<1>4. \A status, plan, steps : New(status, plan, steps).steps = steps
  BY <1>2 DEF Row
<1>5. \/ Put(x, New("needs_approval", request[s].plan, row[x].steps))
      \/ Put(x, New("blocked", row[x].plan, row[x].steps))
      \/ Put(x, New("completed", row[x].plan, row[x].steps))
      \/ /\ request[s].action = "progress" /\ request[s].current
         /\ Put(x, New(row[x].status, row[x].plan,
                       Append(row[x].steps, NextResult(x, row[x]))))
  BY <1>1, <1>2 DEF RunnerWrites, Writes, Answer
<1>6. \A e : Len(Append(row[x].steps, e)) = Len(row[x].steps) + 1
  BY <1>2
<1>. HIDE DEF New
<1>7. CASE x = t
  <2>1. ASSUME NEW status, NEW plan, NEW steps, Put(x, New(status, plan, steps))
        PROVE  row'[t].steps = steps
    BY <1>2, <1>4, <1>7, <2>1 DEF Put
  <2>2. CASE \/ Put(x, New("needs_approval", request[s].plan, row[x].steps))
             \/ Put(x, New("blocked", row[x].plan, row[x].steps))
             \/ Put(x, New("completed", row[x].plan, row[x].steps))
    <3>1. row'[t].steps = row[x].steps
      BY <2>1, <2>2
    <3>. QED  BY <1>7, <3>1
  <2>3. ASSUME Put(x, New(row[x].status, row[x].plan, Append(row[x].steps, NextResult(x, row[x]))))
        PROVE  Len(row'[t].steps) = Len(row[t].steps) + 1
    <3>1. row'[t].steps = Append(row[x].steps, NextResult(x, row[x]))
      BY <2>1, <2>3
    <3>. QED  BY <1>6, <1>7, <3>1
  <2>4. request[s].task = t
    BY <1>1, <1>7
  <2>5. CASE /\ request[s].action = "progress" /\ request[s].current
             /\ Put(x, New(row[x].status, row[x].plan, Append(row[x].steps, NextResult(x, row[x]))))
    BY <2>3, <2>4, <2>5
  <2>. QED  BY <1>5, <2>2, <2>5
<1>. QED  BY <1>3, <1>7

\* A report that is written is the row's last result.
LEMMA ProgressWritten ==
  ASSUME IInv, NEW s \in Sessions, RunnerWrites(s), request[s].action = "progress"
  PROVE  Len(row'[request[s].task].steps) = Len(row[request[s].task].steps) + 1
<1>. DEFINE x == request[s].task
            new == [row[x] EXCEPT !.status = row[x].status, !.plan = row[x].plan,
                                  !.steps = Append(row[x].steps, NextResult(x, row[x]))]
<1>1. /\ row \in [Tasks -> Row] /\ row[x] \in Row /\ row[x].steps \in Seq(Outputs)
      /\ request[s].snapshot = row[x] /\ x \in Tasks
  BY WritesMeans DEF RunnerWrites, IInv, TypeOK, Row
<1>2. Put(x, new)
  BY <1>1 DEF RunnerWrites, Writes, Answer
<1>3. new.steps = Append(row[x].steps, NextResult(x, row[x]))
  BY <1>1 DEF Row
<1>. HIDE DEF new
<1>4. row'[x] = new
  BY <1>1, <1>2 DEF Put
<1>. QED  BY <1>1, <1>3, <1>4

\* A claim of an approved plan makes the claiming host its execution host.
LEMMA ClaimExecutes ==
  ASSUME IInv, NEW t \in Tasks, NEW w \in Workers, Claim(t, w), row'[t].approvedPlan # None
  PROVE  row'[t].executionWorker = w
<1>. DEFINE execute == row[t].approvedPlan # None
            new == [row[t] EXCEPT
              !.status = IF execute THEN "running" ELSE "planning",
              !.claimPhase = IF execute THEN "execute" ELSE "plan",
              !.claimWorker = w,
              !.executionWorker = IF execute /\ @ = None THEN w ELSE @]
<1>1. row[t] \in Row /\ row \in [Tasks -> Row] /\ Put(t, new)
  BY DEF IInv, TypeOK, Claim
<1>2. /\ new.approvedPlan = row[t].approvedPlan
      /\ new.executionWorker =
           IF execute /\ row[t].executionWorker = None THEN w ELSE row[t].executionWorker
  BY <1>1 DEF Row
<1>. HIDE DEF new
<1>3. row'[t] = new
  BY <1>1 DEF Put
<1>4. Meaning(row[t]) /\ (execute => row[t].executionWorker \in {None, w})
  BY DEF IInv, Claim, Claimable, Meaning
<1>. QED  BY <1>2, <1>3, <1>4

-----------------------------------------------------------------------------
(* What keeps the parts of the invariant                                   *)

\* Completed orders stay completed.
FilesGrow ==
  \A w \in Workers, t \in Tasks, i \in 1..MaxSteps :
    file[w][t][i] = "completed" => file'[w][t][i] = "completed"

LEMMA RowsGrow ==
  ASSUME IInv, IInv', [Next]_vars, NEW t \in Tasks
  PROVE  /\ row[t].approvedPlan # None => row'[t].approvedPlan = row[t].approvedPlan
         /\ row[t].executionWorker # None => row'[t].executionWorker = row[t].executionWorker
         /\ Len(row[t].steps) \in Nat /\ Len(row'[t].steps) \in Nat
         /\ Len(row'[t].steps) >= Len(row[t].steps)
<1>1. row[t].steps \in Seq(Outputs) /\ row'[t].steps \in Seq(Outputs)
  BY DEF IInv, TypeOK, Row
<1>. QED  BY <1>1, StepIsAllowed DEF TriggerAllows

LEMMA BoughtKept ==
  ASSUME IInv, IInv', [Next]_vars, HostTypeOK, NEW w \in Workers, NEW t \in Tasks,
         Bought(w, t), bound'[w][t] = bound[w][t], file'[w][t] = file[w][t]
  PROVE  Bought(w, t)'
<1>1. w # None
  BY ConstantsAssumption
<1>2. bound[w][t] # None => Steps[bound[w][t]] \in Nat
  BY ConstantsAssumption DEF HostTypeOK
<1>. QED  BY <1>1, <1>2, RowsGrow DEF Bought

LEMMA BusyKept ==
  ASSUME IInv, IInv', [Next]_vars, HostTypeOK, NEW w \in Workers, Busy(w), FilesGrow,
         host'[w] = host[w], \A t \in Tasks : bound[w][t] # None => bound'[w][t] = bound[w][t]
  PROVE  Busy(w)'
<1>1. CASE host[w].at = "off"
  BY <1>1 DEF Busy, AtSteps
<1>2. CASE host[w].at # "off"
  <2>. DEFINE t == host[w].task
              i == host[w].step
  <2>1. t \in Tasks /\ i \in Nat
    BY <1>2, ConstantsAssumption DEF Busy, HostTypeOK
  <2>2. host[w].at \in AtSteps => i \in 1..MaxSteps
    BY <2>1, ConstantsAssumption DEF Busy, HostTypeOK
  <2>3. host[w].at = "progress" => file'[w][t][i] = "completed"
    BY <2>1, <2>2 DEF Busy, FilesGrow, AtSteps
  <2>4. /\ Len(row[t].steps) \in Nat /\ Len(row'[t].steps) \in Nat
        /\ Len(row'[t].steps) >= Len(row[t].steps)
    BY <2>1, RowsGrow
  <2>5. host[w].at \in AtSteps =>
          bound'[w][t] # None /\ i \in 1..Steps[bound'[w][t]] /\ i <= Len(row'[t].steps) + 1
    <3>. SUFFICES ASSUME host[w].at \in AtSteps
                  PROVE  /\ bound'[w][t] # None /\ i \in 1..Steps[bound'[w][t]]
                         /\ i <= Len(row'[t].steps) + 1
      OBVIOUS
    <3>1. bound[w][t] # None /\ i \in 1..Steps[bound[w][t]] /\ i <= Len(row[t].steps) + 1
      BY DEF Busy
    <3>2. bound'[w][t] = bound[w][t]
      BY <2>1, <3>1
    <3>. HIDE DEF t, i
    <3>. QED  BY <2>1, <2>4, <3>1, <3>2
  <2>. QED  BY <2>1, <2>3, <2>5 DEF Busy
<1>. QED  BY <1>1, <1>2

LEMMA ReportedKept ==
  ASSUME FilesGrow, HostTypeOK, NEW w \in Workers, NEW t \in Tasks, Reported(w, t),
         sent'[w][t] \in {sent[w][t], None}
  PROVE  Reported(w, t)'
<1>1. ASSUME NEW i \in 1..MaxSteps PROVE None # <<"progress", i>>
  BY HostsAssumption
<1>. QED  BY <1>1 DEF Reported, FilesGrow

LEMMA RecordedKept ==
  ASSUME IInv, IInv', [Next]_vars, FilesGrow, NEW t \in Tasks, Recorded(t),
         row'[t].steps = row[t].steps
  PROVE  Recorded(t)'
<1>. SUFFICES ASSUME NEW i \in 1..Len(row[t].steps)
              PROVE  file'[row'[t].executionWorker][t][i] = "completed"
  BY DEF Recorded
<1>1. row[t] \in Row /\ row[t].steps \in Seq(Outputs) /\ Meaning(row[t]) /\ Evidence(t)
  BY DEF IInv, TypeOK, Row
<1>2. row[t].steps # <<>>
  BY <1>1
<1>3. row[t].executionWorker \in Workers /\ row[t].executionWorker # None
  BY <1>1, <1>2, ConstantsAssumption DEF Meaning, Row
<1>4. row[t].approvedPlan \in Plans /\ i <= Steps[row[t].approvedPlan]
  BY <1>1 DEF Evidence, Row
<1>5. i \in 1..MaxSteps
  BY <1>1, <1>4, ConstantsAssumption
<1>6. row'[t].executionWorker = row[t].executionWorker
  BY <1>3, RowsGrow
<1>. QED  BY <1>3, <1>5, <1>6 DEF Recorded, FilesGrow

LEMMA ServedKept ==
  ASSUME IInv, FilesGrow, NEW s \in Sessions, Served(s),
         request'[s].action = "progress" /\ request'[s].current => request'[s] = request[s]
  PROVE  Served(s)'
<1>. SUFFICES ASSUME request'[s].action = "progress", request'[s].current
              PROVE  Served(s)'
  BY DEF Served
<1>1. request'[s] = request[s] /\ request[s].action = "progress" /\ request[s].current
  OBVIOUS
<1>2. request[s].task \in Tasks
  BY <1>1 DEF IInv, Knows
<1>. DEFINE w == request[s].worker
            t == request[s].task
            i == Len(request[s].snapshot.steps) + 1
<1>3. w \in Workers /\ i \in 1..MaxSteps /\ file[w][t][i] = "completed"
  BY <1>1 DEF Served
<1>4. file'[w][t][i] = "completed"
  BY <1>2, <1>3 DEF FilesGrow
<1>. QED  BY <1>1, <1>3, <1>4 DEF Served

\* Steps of the service that no program takes part in.
LEMMA ServiceKeeps ==
  ASSUME IInv, IInv', HInv, [Next]_vars, ServiceOnly, UNCHANGED <<hosted, programs>>
  PROVE  HInv'
<1>1. HostTypeOK' /\ Fresh' /\ FilesGrow
  BY DEF HInv, HostTypeOK, Fresh, FilesGrow, programs
<1>2. ASSUME NEW w \in Workers PROVE Busy(w)'
  BY <1>1, <1>2, BusyKept DEF HInv, programs
<1>3. ASSUME NEW w \in Workers, NEW t \in Tasks PROVE Bought(w, t)'
  BY <1>3, BoughtKept DEF HInv, programs
<1>4. ASSUME NEW w \in Workers, NEW t \in Tasks PROVE Reported(w, t)'
  BY <1>1, <1>4, ReportedKept DEF HInv, programs
<1>5. ASSUME hosted, NEW s \in Sessions PROVE Served(s)'
  BY <1>1, <1>5, RequestsStay, ServedKept DEF HInv
<1>6. ASSUME hosted, NEW t \in Tasks PROVE Recorded(t)'
  BY <1>1, <1>6, StepsStay, RecordedKept DEF HInv
<1>. QED  BY <1>1, <1>2, <1>3, <1>4, <1>5, <1>6 DEF HInv, programs

\* Steps of free hosts, which have no journals.
LEMMA FreeKeeps ==
  ASSUME IInv, IInv', HInv, [Next]_vars, ~hosted, UNCHANGED <<hosted, programs>>
  PROVE  HInv'
<1>1. HostTypeOK' /\ Fresh'
  BY DEF HInv, HostTypeOK, Fresh, programs
<1>2. ASSUME NEW w \in Workers PROVE Busy(w)'
  BY <1>1 DEF Fresh, Busy, AtSteps, programs
<1>3. ASSUME NEW w \in Workers, NEW t \in Tasks PROVE Bought(w, t)'
  BY <1>3, BoughtKept DEF HInv, programs
<1>4. ASSUME NEW w \in Workers, NEW t \in Tasks PROVE Reported(w, t)'
  BY <1>4 DEF HInv, Reported, programs
<1>. QED  BY <1>1, <1>2, <1>3, <1>4 DEF HInv

-----------------------------------------------------------------------------
(* Steps of one program that the service does not see                      *)

LEMMA Sends ==
  ASSUME HostTypeOK, NEW w \in Workers, host[w].task \in Tasks, NEW what \in Said, Send(w, what)
  PROVE  /\ sent' \in [Workers -> [Tasks -> Said \cup {None}]]
         /\ \A x \in Workers \ {w} : sent'[x] = sent[x]
         /\ \A t \in Tasks : sent'[w][t] = IF t = host[w].task THEN what ELSE sent[w][t]
<1>1. sent \in [Workers -> [Tasks -> Said \cup {None}]]
  BY DEF HostTypeOK
<1>. HIDE DEF HostTypeOK, Said
<1>. QED  BY <1>1 DEF Send

LEMMA Walks ==
  ASSUME HostTypeOK, NEW w \in Workers, NEW at \in Phases, Goes(w, at)
  PROVE  /\ host' \in [Workers -> [at : Phases, task : Tasks \cup {None}, step : 0..MaxSteps]]
         /\ \A x \in Workers \ {w} : host'[x] = host[x]
         /\ host'[w] = [at |-> at, task |-> host[w].task, step |-> host[w].step]
BY DEF HostTypeOK, Goes

LEMMA Ends ==
  ASSUME HostTypeOK, NEW w \in Workers, Stops(w)
  PROVE  /\ host' \in [Workers -> [at : Phases, task : Tasks \cup {None}, step : 0..MaxSteps]]
         /\ \A x \in Workers \ {w} : host'[x] = host[x]
         /\ host'[w] = Off
BY ConstantsAssumption DEF HostTypeOK, Stops, Off, Phases

\* What the step of one program must show.
LEMMA ProgramKeeps ==
  ASSUME IInv, IInv', HInv, UNCHANGED vars, hosted, hosted', NEW w \in Workers,
         HostTypeOK', FilesGrow, UNCHANGED bound, Busy(w)',
         \A x \in Workers \ {w} : host'[x] = host[x] /\ sent'[x] = sent[x] /\ file'[x] = file[x],
         \A t \in Tasks : Bought(w, t)' /\ Reported(w, t)'
  PROVE  HInv'
<1>. HostTypeOK /\ [Next]_vars
  BY DEF HInv
<1>1. ServiceOnly
  BY DEF ServiceOnly, vars
<1>2. Fresh'
  BY DEF Fresh
<1>3. ASSUME NEW x \in Workers \ {w} PROVE Busy(x)'
  BY <1>3, BusyKept DEF HInv
<1>4. ASSUME NEW x \in Workers \ {w}, NEW t \in Tasks PROVE Bought(x, t)'
  BY <1>4, BoughtKept DEF HInv
<1>5. ASSUME NEW x \in Workers \ {w}, NEW t \in Tasks PROVE Reported(x, t)'
  BY <1>5, ReportedKept DEF HInv
<1>6. ASSUME NEW s \in Sessions PROVE Served(s)'
  BY <1>1, <1>6, RequestsStay, ServedKept DEF HInv
<1>7. ASSUME NEW t \in Tasks PROVE Recorded(t)'
  BY <1>1, <1>7, StepsStay, RecordedKept DEF HInv
<1>. QED  BY <1>2, <1>3, <1>4, <1>5, <1>6, <1>7 DEF HInv

\* No word but "progress" reports a step.
LEMMA OtherWords ==
  ASSUME IInv, HInv, NEW w \in Workers, host[w].task \in Tasks, NEW what \in Said, Send(w, what),
         \A i \in 1..MaxSteps : what # <<"progress", i>>, UNCHANGED file
  PROVE  \A t \in Tasks : Reported(w, t)'
<1>. SUFFICES ASSUME NEW t \in Tasks PROVE Reported(w, t)'
  OBVIOUS
<1>1. HostTypeOK /\ Reported(w, t)
  BY DEF HInv
<1>2. sent'[w][t] = IF t = host[w].task THEN what ELSE sent[w][t]
  BY <1>1, Sends
<1>. QED  BY <1>1, <1>2 DEF Reported

LEMMA BlockedSaid ==
  /\ Blocked \in Said
  /\ \A i \in 1..MaxSteps : Blocked # <<"progress", i>>
BY DEF Blocked, Said

LEMMA PlanTaskKeeps ==
  ASSUME IInv, IInv', HInv, hosted, hosted', NEW w \in Workers, PlanTask(w)
  PROVE  HInv'
<1>. DEFINE t == host[w].task
<1>1. HostTypeOK /\ Busy(w) /\ t \in Tasks
  BY DEF HInv, Busy, PlanTask, At
<1>2. UNCHANGED <<vars, hosted, bound, file>>
  BY DEF PlanTask
<1>3. Affordable[t] \subseteq Plans /\ None \notin Plans
  BY <1>1, ConstantsAssumption
<1>4. PICK what, result : /\ what \in Said /\ Send(w, what)
                          /\ \A i \in 1..MaxSteps : what # <<"progress", i>>
                          /\ result \in Plans \cup {None}
                          /\ \/ planned' = [planned EXCEPT ![w][t] = result]
                             \/ planned' = planned
                          /\ Goes(w, "plan") \/ Stops(w)
  <2>1. \A p \in Plans \cup {None} : /\ <<"plan", p>> \in Said
                                     /\ \A i \in 1..MaxSteps : <<"plan", p>> # <<"progress", i>>
    BY DEF Said
  <2>2. CASE Accepted(t, planned[w][t]) /\ Send(w, <<"plan", planned[w][t]>>) /\ Goes(w, "plan")
              /\ UNCHANGED planned
    BY <1>3, <2>1, <2>2 DEF Accepted
  <2>3. CASE \E p \in PlannerAnswers(t) :
               /\ planned' = [planned EXCEPT ![w][t] = p]
               /\ IF p = None THEN Send(w, Blocked) /\ Stops(w)
                              ELSE Send(w, <<"plan", p>>) /\ Goes(w, "plan")
    <3>1. PICK p \in PlannerAnswers(t) :
               /\ planned' = [planned EXCEPT ![w][t] = p]
               /\ IF p = None THEN Send(w, Blocked) /\ Stops(w)
                              ELSE Send(w, <<"plan", p>>) /\ Goes(w, "plan")
      BY <2>3
    <3>2. p \in Plans \cup {None}
      BY DEF PlannerAnswers
    <3>. QED  BY <2>1, <3>1, <3>2, BlockedSaid
  <2>4. CASE Send(w, Blocked) /\ Stops(w) /\ UNCHANGED planned
    BY <2>4, BlockedSaid
  <2>. QED  BY <2>2, <2>3, <2>4 DEF PlanTask
<1>5. /\ sent' \in [Workers -> [Tasks -> Said \cup {None}]]
      /\ \A x \in Workers \ {w} : sent'[x] = sent[x]
  BY <1>1, <1>4, Sends
<1>6. /\ host' \in [Workers -> [at : Phases, task : Tasks \cup {None}, step : 0..MaxSteps]]
      /\ \A x \in Workers \ {w} : host'[x] = host[x]
      /\ host'[w] = Off \/ host'[w] = [at |-> "plan", task |-> t, step |-> host[w].step]
  BY <1>1, <1>4, Walks, Ends DEF Phases
<1>7. HostTypeOK'
  <2>1. planned' \in [Workers -> [Tasks -> Plans \cup {None}]]
    <3>1. CASE planned' = [planned EXCEPT ![w][t] = result]
      BY <1>1, <1>4, <3>1 DEF HostTypeOK
    <3>2. CASE planned' = planned
      BY <1>1, <3>2 DEF HostTypeOK
    <3>. QED  BY <1>4, <3>1, <3>2
  <2>. QED  BY <1>1, <1>2, <1>5, <1>6, <2>1 DEF HostTypeOK
<1>8. Busy(w)'
  BY <1>1, <1>6 DEF Busy, Off, AtSteps
<1>9. \A x \in Tasks : Reported(w, x)'
  BY <1>1, <1>2, <1>4, OtherWords
<1>10. \A x \in Tasks : Bought(w, x)'
  BY <1>1, <1>2, BoughtKept DEF HInv
<1>. QED  BY <1>2, <1>5, <1>6, <1>7, <1>8, <1>9, <1>10, ProgramKeeps DEF FilesGrow

\* A program that ends, perhaps after it said that the task is blocked.
LEMMA StopKeeps ==
  ASSUME IInv, IInv', HInv, hosted, hosted', NEW w \in Workers, PlanAnswered(w) \/ Fails(w)
  PROVE  HInv'
<1>1. HostTypeOK /\ host[w].task \in Tasks
  BY DEF HInv, Busy, PlanAnswered, Fails, At
<1>2. UNCHANGED <<vars, hosted, bound, file, planned>>
  BY DEF PlanAnswered, Fails
<1>3. Send(w, Blocked) \/ UNCHANGED sent
  BY DEF PlanAnswered, Fails
<1>4. /\ sent' \in [Workers -> [Tasks -> Said \cup {None}]]
      /\ \A x \in Workers \ {w} : sent'[x] = sent[x]
  BY <1>1, <1>3, Sends, BlockedSaid DEF HostTypeOK
<1>5. /\ host' \in [Workers -> [at : Phases, task : Tasks \cup {None}, step : 0..MaxSteps]]
      /\ \A x \in Workers \ {w} : host'[x] = host[x]
      /\ host'[w] = Off
  BY <1>1, Ends DEF PlanAnswered, Fails
<1>6. HostTypeOK'
  BY <1>1, <1>2, <1>4, <1>5 DEF HostTypeOK
<1>7. Busy(w)'
  BY <1>5 DEF Busy, Off, AtSteps
<1>8. \A x \in Tasks : Reported(w, x)'
  <2>1. CASE Send(w, Blocked)
    BY <1>1, <1>2, <2>1, OtherWords, BlockedSaid
  <2>2. CASE UNCHANGED sent
    BY <1>2, <2>2 DEF HInv, Reported
  <2>. QED  BY <1>3, <2>1, <2>2
<1>9. \A x \in Tasks : Bought(w, x)'
  BY <1>1, <1>2, BoughtKept DEF HInv
<1>. QED  BY <1>2, <1>4, <1>5, <1>6, <1>7, <1>8, <1>9, ProgramKeeps DEF FilesGrow

LEMMA EnterStepKeeps ==
  ASSUME IInv, IInv', HInv, hosted, hosted', NEW w \in Workers, EnterStep(w)
  PROVE  HInv'
<1>1. HostTypeOK /\ Busy(w) /\ host[w].at = "executing" /\ host[w].task \in Tasks
  BY DEF HInv, Busy, EnterStep, At
<1>2. UNCHANGED <<vars, hosted, bound, file, planned, sent>> /\ Goes(w, "purchasing")
  BY DEF EnterStep
<1>3. /\ host' \in [Workers -> [at : Phases, task : Tasks \cup {None}, step : 0..MaxSteps]]
      /\ \A x \in Workers \ {w} : host'[x] = host[x]
      /\ host'[w] = [at |-> "purchasing", task |-> host[w].task, step |-> host[w].step]
  BY <1>1, <1>2, Walks DEF Phases
<1>4. HostTypeOK'
  BY <1>1, <1>2, <1>3 DEF HostTypeOK
<1>5. Busy(w)'
  BY <1>1, <1>2, <1>3 DEF Busy, AtSteps, vars
<1>6. \A x \in Tasks : Bought(w, x)' /\ Reported(w, x)'
  BY <1>2 DEF HInv, Bought, Reported, vars
<1>. QED  BY <1>2, <1>3, <1>4, <1>5, <1>6, ProgramKeeps DEF FilesGrow

\* An order is begun at an approved step whose predecessors are recorded, and none leaves
\* the completed stage.
LEMMA PurchaseKeeps ==
  ASSUME IInv, IInv', HInv, hosted, hosted', NEW w \in Workers, Purchase(w)
  PROVE  HInv'
<1>. DEFINE t == host[w].task
            i == host[w].step
<1>1. HostTypeOK /\ Busy(w) /\ host[w].at = "purchasing" /\ t \in Tasks /\ Bought(w, t)
  BY DEF HInv, Busy, Purchase, At
<1>2. UNCHANGED <<vars, hosted, bound, host, planned, sent>>
  BY DEF Purchase
<1>3. bound[w][t] # None /\ i \in 1..Steps[bound[w][t]] /\ i <= Len(row[t].steps) + 1
  BY <1>1 DEF Busy, AtSteps
<1>4. i \in 1..MaxSteps
  BY <1>1, <1>3, ConstantsAssumption DEF HostTypeOK
<1>5. PICK stage \in Stages : Reaches(w, stage)
  BY DEF Purchase, Stages
<1>6. file \in [Workers -> [Tasks -> [1..MaxSteps -> Stages]]]
  BY <1>1 DEF HostTypeOK
<1>. DEFINE F == [file EXCEPT ![w][t][i] = stage]
<1>7. file' = F
  BY <1>5 DEF Reaches
<1>8. F \in [Workers -> [Tasks -> [1..MaxSteps -> Stages]]]
  BY <1>1, <1>4, <1>6
<1>9. \A x \in Workers \ {w} : F[x] = file[x]
  BY <1>6
<1>10. \A x \in Tasks, k \in 1..MaxSteps : x # t \/ k # i => F[w][x][k] = file[w][x][k]
  BY <1>1, <1>4, <1>6
<1>11. file[w][t][i] # "completed"
  BY DEF Purchase, Stage
<1>. HIDE DEF F, t, i
<1>12. FilesGrow
  BY <1>7, <1>9, <1>10, <1>11 DEF FilesGrow
<1>13. HostTypeOK'
  BY <1>1, <1>2, <1>7, <1>8 DEF HostTypeOK
<1>14. Busy(w)'
  BY <1>1, <1>2, BusyKept, <1>12 DEF HInv, vars
<1>15. ASSUME NEW x \in Tasks PROVE Bought(w, x)'
  <2>1. Bought(w, x)
    BY DEF HInv
  <2>2. ASSUME NEW k \in 1..MaxSteps, F[w][x][k] # "unpaid"
        PROVE  bound[w][x] # None /\ k <= Steps[bound[w][x]] /\ k <= Len(row[x].steps) + 1
    <3>1. CASE x = t /\ k = i
      <4>1. Steps[bound[w][t]] \in Nat
        BY <1>1, <1>3, ConstantsAssumption DEF HostTypeOK
      <4>. QED  BY <1>3, <3>1, <4>1
    <3>2. CASE x # t \/ k # i
      BY <1>10, <2>1, <2>2, <3>2 DEF Bought
    <3>. QED  BY <3>1, <3>2
  <2>. QED  BY <1>2, <1>7, <2>1, <2>2 DEF Bought, vars
<1>16. ASSUME NEW x \in Tasks PROVE Reported(w, x)'
  BY <1>1, <1>2, <1>12, ReportedKept DEF HInv
<1>. QED  BY <1>2, <1>7, <1>9, <1>12, <1>13, <1>14, <1>15, <1>16, ProgramKeeps

LEMMA ReportStepKeeps ==
  ASSUME IInv, IInv', HInv, hosted, hosted', NEW w \in Workers, ReportStep(w)
  PROVE  HInv'
<1>. DEFINE t == host[w].task
            i == host[w].step
<1>1. HostTypeOK /\ Busy(w) /\ host[w].at = "purchasing" /\ t \in Tasks
  BY DEF HInv, Busy, ReportStep, At
<1>2. UNCHANGED <<vars, hosted, bound, file, planned>> /\ Goes(w, "progress")
      /\ Send(w, <<"progress", i>>) /\ file[w][t][i] = "completed"
  BY DEF ReportStep, Stage
<1>3. <<"progress", i>> \in Said
  BY <1>1 DEF HostTypeOK, Said
<1>4. /\ sent' \in [Workers -> [Tasks -> Said \cup {None}]]
      /\ \A x \in Workers \ {w} : sent'[x] = sent[x]
      /\ \A x \in Tasks : sent'[w][x] = IF x = t THEN <<"progress", i>> ELSE sent[w][x]
  BY <1>1, <1>2, <1>3, Sends
<1>5. /\ host' \in [Workers -> [at : Phases, task : Tasks \cup {None}, step : 0..MaxSteps]]
      /\ \A x \in Workers \ {w} : host'[x] = host[x]
      /\ host'[w] = [at |-> "progress", task |-> t, step |-> i]
  BY <1>1, <1>2, Walks DEF Phases
<1>6. HostTypeOK'
  BY <1>1, <1>2, <1>4, <1>5 DEF HostTypeOK
<1>7. Busy(w)'
  BY <1>1, <1>2, <1>5 DEF Busy, AtSteps, vars
<1>8. ASSUME NEW x \in Tasks PROVE Reported(w, x)'
  BY <1>2, <1>4 DEF HInv, Reported
<1>9. \A x \in Tasks : Bought(w, x)'
  BY <1>1, <1>2, BoughtKept DEF HInv
<1>. QED  BY <1>2, <1>4, <1>5, <1>6, <1>7, <1>8, <1>9, ProgramKeeps DEF FilesGrow

\* The program goes on to a step whose predecessors are recorded, or has finished.
LEMMA NextStep ==
  ASSUME HostTypeOK, NEW w \in Workers, Busy(w), host[w].at = "progress", StepRecorded(w),
         UNCHANGED <<bound, file>>, Len(row'[host[w].task].steps) \in Nat,
         host[w].step <= Len(row'[host[w].task].steps)
  PROVE  /\ host' \in [Workers -> [at : Phases, task : Tasks \cup {None}, step : 0..MaxSteps]]
         /\ \A x \in Workers \ {w} : host'[x] = host[x] /\ sent'[x] = sent[x]
         /\ Busy(w)'
         /\ sent' \in [Workers -> [Tasks -> Said \cup {None}]]
         /\ \A x \in Tasks : sent'[w][x] \in {sent[w][x], <<"complete", None>>}
<1>. DEFINE t == host[w].task
            i == host[w].step
<1>1. t \in Tasks /\ bound[w][t] # None /\ i \in 1..Steps[bound[w][t]]
  BY DEF Busy, AtSteps
<1>2. Steps[bound[w][t]] \in 1..MaxSteps /\ i \in Nat
  BY <1>1, ConstantsAssumption DEF HostTypeOK
<1>3. CASE i < Steps[bound[w][t]]
  <2>. DEFINE new == [host[w] EXCEPT !.at = "executing", !.step = i + 1]
  <2>1. host' = [host EXCEPT ![w] = new] /\ UNCHANGED sent
    BY <1>3 DEF StepRecorded, HostTypeOK
  <2>3. i + 1 \in 0..MaxSteps
    BY <1>2, <1>3, ConstantsAssumption
  <2>4. /\ new \in [at : Phases, task : Tasks \cup {None}, step : 0..MaxSteps]
        /\ new.at = "executing" /\ new.task = t /\ new.step = i + 1
    <3>1. host[w] \in [at : Phases, task : Tasks \cup {None}, step : 0..MaxSteps]
      BY DEF HostTypeOK
    <3>2. "executing" \in Phases
      BY DEF Phases
    <3>. QED  BY <2>3, <3>1, <3>2
  <2>. HIDE DEF new, t, i
  <2>5. /\ host' \in [Workers -> [at : Phases, task : Tasks \cup {None}, step : 0..MaxSteps]]
        /\ \A x \in Workers \ {w} : host'[x] = host[x]
        /\ host'[w] = new
    BY <2>1, <2>4 DEF HostTypeOK
  <2>6. t = host[w].task /\ i = host[w].step
    BY DEF t, i
  <2>7. Busy(w)'
    BY <1>1, <1>2, <1>3, <2>4, <2>5, <2>6 DEF Busy, AtSteps
  <2>. QED  BY <2>1, <2>5, <2>7 DEF HostTypeOK
<1>4. CASE ~(i < Steps[bound[w][t]])
  <2>1. Goes(w, "complete") /\ Send(w, <<"complete", None>>)
    BY <1>4 DEF StepRecorded
  <2>2. <<"complete", None>> \in Said
    BY DEF Said
  <2>3. /\ sent' \in [Workers -> [Tasks -> Said \cup {None}]]
        /\ \A x \in Workers \ {w} : sent'[x] = sent[x]
        /\ \A x \in Tasks : sent'[w][x] = IF x = t THEN <<"complete", None>> ELSE sent[w][x]
    BY <1>1, <2>1, <2>2, Sends
  <2>4. /\ host' \in [Workers -> [at : Phases, task : Tasks \cup {None}, step : 0..MaxSteps]]
        /\ \A x \in Workers \ {w} : host'[x] = host[x]
        /\ host'[w] = [at |-> "complete", task |-> t, step |-> i]
    BY <2>1, Walks DEF Phases
  <2>5. Busy(w)'
    BY <1>1, <1>2, <2>4 DEF Busy, AtSteps
  <2>. QED  BY <2>3, <2>4, <2>5
<1>. QED  BY <1>3, <1>4

LEMMA StepReplayedKeeps ==
  ASSUME IInv, IInv', HInv, hosted, hosted', NEW w \in Workers, StepReplayed(w)
  PROVE  HInv'
<1>1. HostTypeOK /\ Busy(w) /\ host[w].at = "progress" /\ host[w].task \in Tasks
  BY DEF HInv, Busy, StepReplayed, At
<1>2. UNCHANGED <<vars, hosted, bound, file, planned>> /\ StepRecorded(w)
      /\ host[w].step <= Len(row'[host[w].task].steps)
  BY DEF StepReplayed, vars
<1>3. Len(row'[host[w].task].steps) \in Nat
  <2>1. row'[host[w].task].steps \in Seq(Outputs)
    BY <1>1 DEF IInv, TypeOK, Row
  <2>. QED  BY <2>1
<1>4. /\ host' \in [Workers -> [at : Phases, task : Tasks \cup {None}, step : 0..MaxSteps]]
      /\ \A x \in Workers \ {w} : host'[x] = host[x] /\ sent'[x] = sent[x]
      /\ Busy(w)'
      /\ sent' \in [Workers -> [Tasks -> Said \cup {None}]]
      /\ \A x \in Tasks : sent'[w][x] \in {sent[w][x], <<"complete", None>>}
  BY <1>1, <1>2, <1>3, NextStep
<1>5. HostTypeOK'
  BY <1>1, <1>2, <1>4 DEF HostTypeOK
<1>6. ASSUME NEW x \in Tasks PROVE Reported(w, x)'
  <2>1. \A k \in 1..MaxSteps : <<"complete", None>> # <<"progress", k>>
    OBVIOUS
  <2>2. Reported(w, x) /\ sent'[w][x] \in {sent[w][x], <<"complete", None>>}
    BY <1>4 DEF HInv
  <2>. QED  BY <1>2, <2>1, <2>2 DEF Reported
<1>7. \A x \in Tasks : Bought(w, x)'
  BY <1>1, <1>2, BoughtKept DEF HInv
<1>. QED  BY <1>2, <1>4, <1>5, <1>6, <1>7, ProgramKeeps DEF FilesGrow

-----------------------------------------------------------------------------
(* Steps of a program and the service                                      *)

LEMMA HostReadsKeeps ==
  ASSUME IInv, IInv', HInv, [Next]_vars, hosted, UNCHANGED hosted,
         NEW s \in Sessions, NEW t \in Tasks, NEW w \in Workers, HostReads(s, t, w)
  PROVE  HInv'
<1>1. HostTypeOK /\ UNCHANGED <<host, planned, bound, file, row>>
  BY DEF HInv, HostReads, RunnerReads, Reads
<1>2. FilesGrow
  BY <1>1 DEF FilesGrow
<1>3. /\ sent' \in [Workers -> [Tasks -> Said \cup {None}]]
      /\ \A x \in Workers, y \in Tasks : sent'[x][y] \in {sent[x][y], None}
  BY <1>1 DEF HostTypeOK, HostReads
<1>4. HostTypeOK' /\ Fresh'
  BY <1>1, <1>3 DEF HostTypeOK, Fresh
<1>5. ASSUME NEW x \in Workers PROVE Busy(x)'
  BY <1>1, <1>2, <1>5, BusyKept DEF HInv
<1>6. ASSUME NEW x \in Workers, NEW y \in Tasks PROVE Bought(x, y)' /\ Reported(x, y)'
  BY <1>1, <1>2, <1>3, <1>6, BoughtKept, ReportedKept DEF HInv
<1>7. ASSUME NEW x \in Tasks PROVE Recorded(x)'
  BY <1>1, <1>7 DEF HInv, Recorded
<1>8. /\ \A z \in Sessions \ {s} : request'[z] = request[z]
      /\ request'[s].snapshot = row[t] /\ request'[s].task = t /\ request'[s].worker = w
  BY DEF HostReads, RunnerReads, Reads, IInv, TypeOK
<1>9. ASSUME NEW z \in Sessions PROVE Served(z)'
  <2>1. CASE z # s
    BY <1>2, <1>8, <2>1, ServedKept DEF HInv
  <2>2. CASE z = s
    <3>. DEFINE i == Len(row[t].steps) + 1
    <3>. SUFFICES ASSUME request'[s].action = "progress"
                  PROVE  i \in 1..MaxSteps /\ file[w][t][i] = "completed"
      BY <1>1, <1>8, <2>2 DEF Served
    <3>1. Verified(t, i)
      BY DEF HostReads, RunnerReads, Reads, IInv, TypeOK
    <3>2. i \in 1..MaxSteps
      BY <3>1, ConstantsAssumption DEF Verified, IInv, TypeOK, Row
    <3>3. sent[w][t] = <<"progress", i>>
      BY <1>8 DEF HostReads, SentAs
    <3>. QED  BY <3>2, <3>3 DEF HInv, Reported
  <2>. QED  BY <2>1, <2>2
<1>. QED  BY <1>4, <1>5, <1>6, <1>7, <1>9 DEF HInv

\* The host that is served executes the task, so that its completed order is the evidence of
\* the result it adds.
LEMMA HostWritesKeeps ==
  ASSUME IInv, IInv', HInv, [Next]_vars, hosted, UNCHANGED hosted,
         NEW s \in Sessions, HostWrites(s)
  PROVE  HInv'
<1>1. HostTypeOK /\ RunnerWrites(s) /\ UNCHANGED <<planned, bound, file>>
  BY DEF HInv, HostWrites
<1>0. PICK v \in Workers, y \in Tasks : v = request[s].worker /\ y = request[s].task
  BY <1>1, WritesMeans DEF RunnerWrites, Writes, IInv, TypeOK
<1>2. FilesGrow
  BY <1>1 DEF FilesGrow
<1>3. y \in Tasks /\ v \in holders[y] /\ v \in Workers /\ request[s].current
      /\ request[s].snapshot = row[y] /\ Checked(s) /\ Meaning(row[y]) /\ Held(y)
  BY <1>0, <1>1, WritesMeans DEF RunnerWrites, Writes, IInv, TypeOK, Knows
<1>4. \A x \in Tasks : row[x].steps \in Seq(Outputs) /\ row'[x].steps \in Seq(Outputs)
  BY DEF IInv, TypeOK, Row
<1>5. request[s].action = "progress" =>
        /\ row[y].executionWorker = v
        /\ Len(row[y].steps) + 1 \in 1..MaxSteps
        /\ file[v][y][Len(row[y].steps) + 1] = "completed"
  <2>1. hosted => Served(s)
    BY DEF HInv
  <2>2. request[s].action = "progress" => row[y].executionWorker # None
    BY <1>0, <1>3 DEF Checked, Meaning
  <2>. QED  BY <1>0, <1>3, <2>1, <2>2 DEF Served, Meaning, Held
<1>6. ASSUME NEW x \in Tasks PROVE Recorded(x)'
  <2>1. CASE row'[x].steps = row[x].steps
    BY <1>2, <1>6, <2>1, RecordedKept DEF HInv
  <2>2. CASE /\ y = x /\ request[s].action = "progress"
             /\ Len(row'[x].steps) = Len(row[x].steps) + 1
    <3>1. row'[x].executionWorker = v /\ row[x].executionWorker = v
      BY <1>3, <1>5, <2>2, RowsGrow, ConstantsAssumption
    <3>2. Recorded(x)
      BY DEF HInv
    <3>3. ASSUME NEW k \in 1..Len(row'[x].steps) PROVE file[v][x][k] = "completed"
      <4>1. CASE k <= Len(row[x].steps)
        BY <1>4, <3>1, <3>2, <4>1 DEF Recorded
      <4>2. CASE k = Len(row[x].steps) + 1
        BY <1>5, <2>2, <4>2
      <4>. QED  BY <1>4, <2>2, <4>1, <4>2
    <3>. QED  BY <1>1, <3>1, <3>3 DEF Recorded
  <2>. QED  BY <1>0, <1>1, <2>1, <2>2, StepsWritten
<1>7. ASSUME NEW z \in Sessions PROVE Served(z)'
  BY <1>1, <1>2, <1>7, RequestsStay, ServedKept DEF HInv
<1>8. ASSUME NEW x \in Workers, NEW z \in Tasks PROVE Bought(x, z)'
  BY <1>1, <1>8, BoughtKept DEF HInv
<1>9. /\ host' \in [Workers -> [at : Phases, task : Tasks \cup {None}, step : 0..MaxSteps]]
      /\ sent' \in [Workers -> [Tasks -> Said \cup {None}]]
      /\ \A x \in Workers : Busy(x)' /\ \A z \in Tasks :
           sent'[x][z] \in {sent[x][z], <<"complete", None>>}
  <2>1. \A x \in Workers : host'[x] = host[x] => Busy(x)'
    BY <1>1, <1>2, BusyKept DEF HInv
  <2>2. CASE UNCHANGED <<host, sent>>
    BY <1>1, <2>1, <2>2 DEF HostTypeOK
  <2>3. CASE Awaits(v, request[s]) /\ At(v, "progress") /\ StepRecorded(v)
    <3>1. host[v].task = y /\ host[v].at = "progress" /\ request[s].action = "progress"
          /\ host[v].step = Len(row[y].steps) + 1
      BY <1>0, <1>3, <2>3 DEF Awaits, At
    <3>2. host[v].step <= Len(row'[y].steps) /\ Len(row'[y].steps) \in Nat
      BY <1>0, <1>1, <1>3, <1>4, <3>1, ProgressWritten
    <3>3. Busy(v)
      BY <1>3 DEF HInv
    <3>4. /\ host' \in [Workers -> [at : Phases, task : Tasks \cup {None}, step : 0..MaxSteps]]
          /\ \A x \in Workers \ {v} : host'[x] = host[x] /\ sent'[x] = sent[x]
          /\ Busy(v)'
          /\ sent' \in [Workers -> [Tasks -> Said \cup {None}]]
          /\ \A x \in Tasks : sent'[v][x] \in {sent[v][x], <<"complete", None>>}
      BY <1>1, <1>3, <2>3, <3>1, <3>2, <3>3, NextStep
    <3>. QED  BY <2>1, <3>4
  <2>4. CASE Stops(v) /\ UNCHANGED sent
    <3>1. /\ host' \in [Workers -> [at : Phases, task : Tasks \cup {None}, step : 0..MaxSteps]]
          /\ \A x \in Workers \ {v} : host'[x] = host[x]
          /\ host'[v] = Off
      BY <1>1, <1>3, <2>4, Ends
    <3>2. Busy(v)'
      BY <3>1 DEF Busy, Off, AtSteps
    <3>. QED  BY <1>1, <2>1, <2>4, <3>1, <3>2 DEF HostTypeOK
  <2>. QED  BY <1>0, <2>2, <2>3, <2>4 DEF HostWrites
<1>10. HostTypeOK' /\ Fresh'
  BY <1>1, <1>9 DEF HostTypeOK, Fresh
<1>11. ASSUME NEW x \in Workers, NEW z \in Tasks PROVE Reported(x, z)'
  BY <1>1, <1>9 DEF HInv, Reported
<1>. QED  BY <1>6, <1>7, <1>8, <1>9, <1>10, <1>11 DEF HInv

\* A claim binds the approved plan to the host that executes it.
LEMMA HostClaimsKeeps ==
  ASSUME IInv, IInv', HInv, [Next]_vars, hosted, UNCHANGED hosted,
         NEW w \in Workers, NEW t \in Tasks, HostClaims(w, t)
  PROVE  HInv'
<1>1. HostTypeOK /\ Claim(t, w) /\ At(w, "off") /\ UNCHANGED <<planned, file>>
  BY DEF HInv, HostClaims
<1>2. FilesGrow /\ ServiceOnly
  BY <1>1 DEF FilesGrow, ServiceOnly
<1>3. /\ sent' \in [Workers -> [Tasks -> Said \cup {None}]]
      /\ \A x \in Workers, y \in Tasks : sent'[x][y] \in {sent[x][y], None}
  <2>1. CASE sent' = sent
    BY <1>1, <2>1 DEF HostTypeOK
  <2>2. CASE sent' = [v \in Workers |-> [sent[v] EXCEPT ![t] = None]]
    BY <1>1, <2>2 DEF HostTypeOK
  <2>. QED  BY <2>1, <2>2 DEF HostClaims
<1>4. row[t] \in Row /\ row'[t] \in Row
  BY DEF IInv, TypeOK
<1>. DEFINE Types == /\ host' \in [Workers -> [at : Phases, task : Tasks \cup {None},
                                               step : 0..MaxSteps]]
                     /\ bound' \in [Workers -> [Tasks -> Plans \cup {None}]]
            Others == \A x \in Workers : x # w =>
                        host'[x] = host[x] /\ \A y \in Tasks : bound'[x][y] = bound[x][y]
            Binds == \A y \in Tasks : bound'[w][y] # bound[w][y] =>
                       /\ y = t /\ bound[w][t] = None
                       /\ row'[t].executionWorker = w /\ row'[t].approvedPlan = bound'[w][t]
<1>5. Types /\ Others /\ Binds /\ Busy(w)'
  <2>1. CASE UNCHANGED <<host, bound>>
    <3>1. Busy(w)'
      BY <1>1, <2>1 DEF Busy, At, AtSteps
    <3>2. Types /\ Others /\ Binds
      BY <1>1, <2>1 DEF HostTypeOK
    <3>. QED  BY <3>1, <3>2
  <2>2. CASE /\ host' = [host EXCEPT ![w] = [at |-> "planning", task |-> t, step |-> 0]]
             /\ UNCHANGED bound
    <3>1. [at |-> "planning", task |-> t, step |-> 0]
            \in [at : Phases, task : Tasks \cup {None}, step : 0..MaxSteps]
      BY ConstantsAssumption DEF Phases
    <3>2. /\ host' \in [Workers -> [at : Phases, task : Tasks \cup {None}, step : 0..MaxSteps]]
          /\ \A x \in Workers \ {w} : host'[x] = host[x]
          /\ host'[w] = [at |-> "planning", task |-> t, step |-> 0]
      BY <1>1, <2>2, <3>1 DEF HostTypeOK
    <3>3. Busy(w)'
      BY <3>2 DEF Busy, AtSteps
    <3>4. Types /\ Others /\ Binds
      BY <1>1, <2>2, <3>2 DEF HostTypeOK
    <3>. QED  BY <3>3, <3>4
  <2>3. CASE /\ row'[t].claimPhase = "execute" /\ MayExecute(w, t, row'[t])
             /\ host' = [host EXCEPT ![w] = [at |-> "executing", task |-> t, step |-> 1]]
             /\ bound' = [bound EXCEPT ![w][t] = row'[t].approvedPlan]
    <3>. DEFINE p == row'[t].approvedPlan
    <3>1. p \in Plans /\ p # None /\ Steps[p] \in 1..MaxSteps /\ bound[w][t] \in {None, p}
      BY <1>4, <2>3, ConstantsAssumption DEF MayExecute, Row
    <3>2. [at |-> "executing", task |-> t, step |-> 1]
            \in [at : Phases, task : Tasks \cup {None}, step : 0..MaxSteps]
      BY <3>1, ConstantsAssumption DEF Phases
    <3>3. /\ host' \in [Workers -> [at : Phases, task : Tasks \cup {None}, step : 0..MaxSteps]]
          /\ \A x \in Workers \ {w} : host'[x] = host[x]
          /\ host'[w] = [at |-> "executing", task |-> t, step |-> 1]
      BY <1>1, <2>3, <3>2 DEF HostTypeOK
    <3>4. /\ bound' \in [Workers -> [Tasks -> Plans \cup {None}]]
          /\ bound'[w][t] = p
          /\ \A x \in Workers, y \in Tasks : x # w \/ y # t => bound'[x][y] = bound[x][y]
      BY <1>1, <2>3, <3>1 DEF HostTypeOK
    <3>5. row'[t].executionWorker = w
      BY <1>1, ClaimExecutes, <2>3, ConstantsAssumption DEF MayExecute
    <3>6. Len(row'[t].steps) \in Nat
      <4>1. row'[t].steps \in Seq(Outputs)
        BY <1>4 DEF Row
      <4>. QED  BY <4>1
    <3>7. Busy(w)'
      <4>1. bound'[w][t] # None /\ 1 \in 1..Steps[bound'[w][t]] /\ 1 <= Len(row'[t].steps) + 1
        BY <3>1, <3>4, <3>6, ConstantsAssumption
      <4>. HIDE DEF p
      <4>. QED  BY <3>3, <4>1 DEF Busy, AtSteps
    <3>. HIDE DEF p
    <3>8. row'[t].approvedPlan = p
      BY DEF p
    <3>9. Types /\ Others
      BY <3>3, <3>4
    <3>10. Binds
      BY <3>1, <3>4, <3>5, <3>8
    <3>. QED  BY <3>7, <3>9, <3>10
  <2>. QED  BY <2>1, <2>2, <2>3 DEF HostClaims
<1>6. HostTypeOK' /\ Fresh'
  BY <1>1, <1>3, <1>5 DEF HostTypeOK, Fresh
<1>7. ASSUME NEW x \in Workers PROVE Busy(x)'
  <2>1. CASE x = w
    BY <1>5, <2>1
  <2>2. CASE x # w
    BY <1>1, <1>2, <1>5, <2>2, BusyKept DEF HInv
  <2>. QED  BY <2>1, <2>2
<1>8. ASSUME NEW x \in Workers, NEW y \in Tasks PROVE Bought(x, y)'
  <2>1. CASE bound'[x][y] = bound[x][y]
    BY <1>1, <2>1, BoughtKept DEF HInv
  <2>2. CASE bound'[x][y] # bound[x][y]
    <3>1. x = w /\ y = t /\ bound[w][t] = None /\ row'[t].executionWorker = w
          /\ row'[t].approvedPlan = bound'[w][t]
      BY <1>5, <2>2
    <3>2. \A k \in 1..MaxSteps : file'[w][t][k] = "unpaid"
      BY <1>1, <3>1 DEF HInv, Bought
    <3>. QED  BY <3>1, <3>2 DEF Bought
  <2>. QED  BY <2>1, <2>2
<1>9. ASSUME NEW x \in Workers, NEW y \in Tasks PROVE Reported(x, y)'
  BY <1>1, <1>2, <1>3, ReportedKept DEF HInv
<1>10. ASSUME NEW s \in Sessions PROVE Served(s)'
  BY <1>2, <1>10, RequestsStay, ServedKept DEF HInv
<1>11. ASSUME NEW x \in Tasks PROVE Recorded(x)'
  BY <1>2, <1>11, StepsStay, RecordedKept DEF HInv
<1>. QED  BY <1>6, <1>7, <1>8, <1>9, <1>10, <1>11 DEF HInv

LEMMA HostKeeps ==
  ASSUME IInv, IInv', HInv, [Next]_vars, [HostNext]_hostVars
  PROVE  HInv'
<1>1. CASE UNCHANGED hostVars
  <2>1. ServiceOnly /\ UNCHANGED <<hosted, programs>>
    BY <1>1 DEF ServiceOnly, hostVars, vars
  <2>. QED  BY <2>1, ServiceKeeps
<1>2. CASE ~hosted /\ UNCHANGED <<hosted, programs>>
  BY <1>2, FreeKeeps
<1>3. CASE hosted /\ HostedNext /\ UNCHANGED hosted
  <2>1. ASSUME NEW s \in Sessions, Owner(s) PROVE HInv'
    <3>1. ServiceOnly /\ UNCHANGED programs
      BY <2>1, HostsAssumption DEF ServiceOnly, Owner
    <3>. QED  BY <1>3, <3>1, ServiceKeeps
  <2>2. ASSUME NEW s \in Sessions, HostWrites(s) PROVE HInv'
    BY <1>3, <2>2, HostWritesKeeps
  <2>3. ASSUME NEW s \in Sessions, NEW t \in HostedTasks, NEW w \in Workers, HostReads(s, t, w)
        PROVE  HInv'
    BY <1>3, <2>3, HostReadsKeeps, HostsAssumption
  <2>4. ASSUME NEW w \in Workers, HostRuns(w) PROVE HInv'
    <3>1. hosted /\ hosted'
      BY <1>3
    <3>2. ASSUME NEW t \in HostedTasks, HostClaims(w, t) PROVE HInv'
      BY <1>3, <3>2, HostClaimsKeeps, HostsAssumption
    <3>. QED  BY <2>4, <3>1, <3>2, PlanTaskKeeps, StopKeeps, EnterStepKeeps, PurchaseKeeps,
                 ReportStepKeeps, StepReplayedKeeps DEF HostRuns
  <2>5. ASSUME NEW t \in HostedTasks, Elapses(t) \/ (\E i \in 1..MaxSteps : DeliverPaid(t, i))
        PROVE  HInv'
    <3>1. ServiceOnly /\ UNCHANGED programs
      BY <2>5 DEF ServiceOnly, Elapses, ExpireLease, ExpireApproval, DeliverPaid, Deliver
    <3>. QED  BY <1>3, <3>1, ServiceKeeps
  <2>. QED  BY <1>3, <2>1, <2>2, <2>3, <2>4, <2>5 DEF HostedNext
<1>. QED  BY <1>1, <1>2, <1>3 DEF HostNext

\* Hosts pay for the approved steps in order and for nothing else, and the row records what
\* they bought (executeTask): for any plans, hosts, requests and interleaving of them.
THEOREM HostsPay == HostSpec => []HostsPayInOrder
<1>1. HostInit => Init /\ HInv
  BY InitHInv DEF HostInit
<1>2. Init => IInv /\ Booked
  BY InitIInv, InitBooked
<1>3. IInv /\ Booked /\ HInv /\ [HostNext]_hostVars => (IInv /\ Booked /\ HInv)'
  BY HostedStep, NextKeeps, BookedKeeps, HostKeeps
<1>4. IInv /\ HInv => HostsPayInOrder
  BY InvariantMeans
<1>. QED  BY <1>1, <1>2, <1>3, <1>4, PTL DEF HostSpec

-----------------------------------------------------------------------------
(* Accepted plans (TaskPlans)                                              *)

\* Counting up to n, in a set that has each number with the one before it.
LEMMA CountingUp ==
  ASSUME NEW n \in Nat, NEW S \in SUBSET (0 .. n), 0 \in S,
         \A i \in S : i + 1 \in 0 .. n => i + 1 \in S
  PROVE  n \in S
<1>. DEFINE F == {T \in SUBSET (0 .. n) : \A k \in 0 .. n : T = 0 .. k => k \in S}
<1>1. IsFiniteSet(0 .. n)
  BY FS_Interval
<1>2. ASSUME NEW T \in SUBSET (0 .. n), \A U \in SUBSET T : U # T => U \in F
      PROVE  T \in F
  <2>1. ASSUME NEW k \in 0 .. n, T = 0 .. k
        PROVE  k \in S
    <3>1. CASE k = 0
      BY <3>1
    <3>2. CASE k # 0
      <4>1. k - 1 \in 0 .. n /\ 0 .. k - 1 \in SUBSET T /\ 0 .. k - 1 # T
        BY <2>1, <3>2
      <4>2. k - 1 \in S
        BY <1>2, <4>1
      <4>. QED  BY <4>1, <4>2
    <3>. QED  BY <3>1, <3>2
  <2>. QED  BY <2>1
<1>3. \A T \in SUBSET (0 .. n) : T \in F
  <2>. HIDE DEF F
  <2>1. PICK I : I = 0 .. n
    OBVIOUS
  <2>2. \A T \in SUBSET I : (\A U \in SUBSET T : U # T => U \in F) => T \in F
    BY <1>2, <2>1, Zenon
  <2>3. \A T \in SUBSET I : T \in F
    <3>1. IsFiniteSet(I)
      BY <1>1, <2>1
    <3>. QED  BY <2>2, <3>1, SubsetInduction
  <2>. QED  BY <2>1, <2>3, Zenon
<1>. QED  BY <1>3

-----------------------------------------------------------------------------
(* Paths                                                                   *)

LEMMA PathIsFunction ==
  ASSUME NEW p \in Paths
  PROVE  /\ Len(p) \in Nat /\ DOMAIN p = 1 .. Len(p)
         /\ \A i \in 1 .. Len(p) : p[i] \in Fields \cup Nat
BY DEF Paths

LEMMA ConcatIsPath ==
  ASSUME NEW p \in Paths, NEW q \in Paths
  PROVE  /\ p \o q \in Paths /\ Len(p \o q) = Len(p) + Len(q)
         /\ \A i \in 1 .. Len(p) + Len(q) :
              (p \o q)[i] = IF i <= Len(p) THEN p[i] ELSE q[i - Len(p)]
<1>1. PICK X : X = Fields \cup Nat
  OBVIOUS
<1>2. p \in Seq(X) /\ q \in Seq(X) /\ Paths = Seq(X)
  BY <1>1, Zenon DEF Paths
<1>. QED  BY <1>2, ConcatProperties

LEMMA PathsAreEqual ==
  ASSUME NEW p \in Paths, NEW q \in Paths, Len(p) = Len(q),
         \A i \in 1 .. Len(p) : p[i] = q[i]
  PROVE  p = q
<1>1. PICK X : X = Fields \cup Nat
  OBVIOUS
<1>2. p \in Seq(X) /\ q \in Seq(X)
  BY <1>1, Zenon DEF Paths
<1>. QED  BY <1>2, SeqEqual

LEMMA PartIsPath ==
  ASSUME NEW p \in Paths, NEW m \in 1 .. Len(p) + 1, NEW n \in m - 1 .. Len(p)
  PROVE  /\ SubSeq(p, m, n) \in Paths /\ Len(SubSeq(p, m, n)) = n - m + 1
         /\ \A i \in 1 .. n - m + 1 : SubSeq(p, m, n)[i] = p[m + i - 1]
<1>1. PICK X : X = Fields \cup Nat
  OBVIOUS
<1>2. p \in Seq(X) /\ Paths = Seq(X)
  BY <1>1, Zenon DEF Paths
<1>3. m \in Int /\ n \in Int /\ \A i \in m .. n : p[i] \in X
  BY <1>2
<1>4. n - m + 1 = IF m <= n THEN n - m + 1 ELSE 0
  BY <1>2
<1>. QED  BY <1>2, <1>3, <1>4, SubSeqProperties

LEMMA EmptyIsPath == <<>> \in Paths
BY DEF Paths

LEMMA SchemaPathIsPath ==
  ASSUME NEW p \in Paths
  PROVE  /\ SchemaPath(p) \in Paths /\ Len(SchemaPath(p)) = Len(p)
         /\ \A i \in 1 .. Len(p) :
              SchemaPath(p)[i] = IF p[i] \in Fields THEN p[i] ELSE Item
<1>1. Len(p) \in Nat /\ DOMAIN p = 1 .. Len(p)
  BY DEF Paths
<1>2. SchemaPath(p) \in [1 .. Len(p) -> Fields \cup Nat]
  BY <1>1 DEF SchemaPath, Item
<1>3. SchemaPath(p) \in Paths /\ Len(SchemaPath(p)) = Len(p)
  BY <1>1, <1>2, IsASeq DEF Paths
<1>. QED  BY <1>1, <1>3 DEF SchemaPath

LEMMA SchemaPathOfConcat ==
  ASSUME NEW p \in Paths, NEW q \in Paths
  PROVE  SchemaPath(p \o q) = SchemaPath(p) \o SchemaPath(q)
<1>1. PICK a, b, c : a = SchemaPath(p) /\ b = SchemaPath(q) /\ c = p \o q
  OBVIOUS
<1>2. /\ Len(p) \in Nat /\ Len(q) \in Nat
      /\ c \in Paths /\ Len(c) = Len(p) + Len(q)
      /\ \A i \in 1 .. Len(p) + Len(q) : c[i] = IF i <= Len(p) THEN p[i] ELSE q[i - Len(p)]
  BY <1>1, ConcatIsPath, PathIsFunction
<1>3. /\ a \in Paths /\ Len(a) = Len(p) /\ b \in Paths /\ Len(b) = Len(q)
      /\ \A i \in 1 .. Len(p) : a[i] = IF p[i] \in Fields THEN p[i] ELSE Item
      /\ \A i \in 1 .. Len(q) : b[i] = IF q[i] \in Fields THEN q[i] ELSE Item
  BY <1>1, SchemaPathIsPath
<1>5. PICK d, e : d = SchemaPath(c) /\ e = a \o b
  OBVIOUS
<1>4. /\ e \in Paths /\ Len(e) = Len(p) + Len(q)
      /\ \A i \in 1 .. Len(p) + Len(q) : e[i] = IF i <= Len(p) THEN a[i] ELSE b[i - Len(p)]
  <2>1. a \in Paths /\ b \in Paths /\ Len(a) = Len(p) /\ Len(b) = Len(q)
    BY <1>3
  <2>2. /\ e \in Paths /\ Len(e) = Len(a) + Len(b)
        /\ \A i \in 1 .. Len(a) + Len(b) : e[i] = IF i <= Len(a) THEN a[i] ELSE b[i - Len(a)]
    BY <1>5, <2>1, ConcatIsPath
  <2>. QED  BY <2>1, <2>2
<1>6. /\ d \in Paths /\ Len(d) = Len(c)
      /\ \A i \in 1 .. Len(c) : d[i] = IF c[i] \in Fields THEN c[i] ELSE Item
  BY <1>2, <1>5, SchemaPathIsPath
<1>7. ASSUME NEW i \in 1 .. Len(d)
      PROVE  d[i] = e[i]
  <2>1. i \in 1 .. Len(p) + Len(q) /\ i \in Int
    BY <1>2, <1>6, <1>7
  <2>2. CASE i <= Len(p)
    <3>1. i \in 1 .. Len(p)
      BY <1>2, <2>1, <2>2
    <3>2. c[i] = p[i] /\ e[i] = a[i]
      BY <1>2, <1>4, <1>5, <2>1, <2>2
    <3>. QED  BY <1>2, <1>3, <1>6, <2>1, <3>1, <3>2
  <2>3. CASE ~ (i <= Len(p))
    <3>1. i - Len(p) \in 1 .. Len(q)
      BY <1>2, <2>1, <2>3
    <3>2. c[i] = q[i - Len(p)] /\ e[i] = b[i - Len(p)]
      BY <1>2, <1>4, <1>5, <2>1, <2>3
    <3>. QED  BY <1>2, <1>3, <1>6, <2>1, <3>1, <3>2
  <2>. QED  BY <2>2, <2>3
<1>8. d = e
  BY <1>2, <1>4, <1>5, <1>6, <1>7, PathsAreEqual
<1>. QED  BY <1>1, <1>5, <1>8

LEMMA SchemaPathOfFields ==
  ASSUME NEW p \in Paths, \A i \in DOMAIN p : p[i] \in Fields
  PROVE  SchemaPath(p) = p
<1>1. DOMAIN p = 1 .. Len(p) /\ SchemaPath(p) \in Paths /\ Len(SchemaPath(p)) = Len(p)
  BY SchemaPathIsPath, PathIsFunction
<1>2. \A i \in 1 .. Len(p) : SchemaPath(p)[i] = p[i]
  BY <1>1, SchemaPathIsPath
<1>. QED  BY <1>1, <1>2, PathsAreEqual

LEMMA BelowMeans ==
  ASSUME NEW tree, \A p \in DOMAIN tree : p \in Paths, NEW at \in Paths
  PROVE  \A p : p \in Below(tree, at) <=> p \in Paths /\ at \o p \in DOMAIN tree
<1>1. ASSUME NEW p \in Below(tree, at)
      PROVE  p \in Paths /\ at \o p \in DOMAIN tree
  <2>1. PICK q \in DOMAIN tree :
          Len(at) <= Len(q) /\ SubSeq(q, 1, Len(at)) = at /\ p = SubSeq(q, Len(at) + 1, Len(q))
    BY DEF Below
  <2>2. q \in Paths /\ Len(q) \in Nat /\ Len(at) \in Nat
    BY <2>1, PathIsFunction
  <2>3. Len(at) + 1 \in 1 .. Len(q) + 1 /\ Len(q) \in (Len(at) + 1) - 1 .. Len(q)
    BY <2>1, <2>2
  <2>4. /\ p \in Paths /\ Len(p) = Len(q) - Len(at)
        /\ \A i \in 1 .. Len(q) - Len(at) : p[i] = q[Len(at) + i]
    <3>1. /\ p \in Paths /\ Len(p) = Len(q) - (Len(at) + 1) + 1
          /\ \A i \in 1 .. Len(q) - (Len(at) + 1) + 1 : p[i] = q[(Len(at) + 1) + i - 1]
      BY <2>1, <2>2, <2>3, PartIsPath
    <3>. QED  BY <2>2, <3>1
  <2>5. \A i \in 1 .. Len(at) : at[i] = q[i]
    <3>1. 1 \in 1 .. Len(q) + 1 /\ Len(at) \in 1 - 1 .. Len(q)
      BY <2>1, <2>2
    <3>2. \A i \in 1 .. Len(at) - 1 + 1 : at[i] = q[1 + i - 1]
      BY <2>1, <2>2, <3>1, PartIsPath
    <3>. QED  BY <2>2, <3>2
  <2>6. PICK r : r = at \o p
    OBVIOUS
  <2>7. /\ r \in Paths /\ Len(r) = Len(at) + Len(p)
        /\ \A i \in 1 .. Len(at) + Len(p) : r[i] = IF i <= Len(at) THEN at[i] ELSE p[i - Len(at)]
    BY <2>4, <2>6, ConcatIsPath
  <2>8. ASSUME NEW i \in 1 .. Len(r)
        PROVE  r[i] = q[i]
    <3>1. CASE i <= Len(at)
      BY <2>2, <2>4, <2>5, <2>7, <2>8, <3>1
    <3>2. CASE ~ (i <= Len(at))
      <4>1. i - Len(at) \in 1 .. Len(q) - Len(at) /\ Len(at) + (i - Len(at)) = i
        BY <2>2, <2>4, <2>7, <2>8, <3>2
      <4>2. r[i] = p[i - Len(at)]
        BY <2>2, <2>4, <2>7, <2>8, <3>2
      <4>. QED  BY <2>4, <4>1, <4>2
    <3>. QED  BY <3>1, <3>2
  <2>9. r = q
    BY <2>2, <2>4, <2>7, <2>8, PathsAreEqual
  <2>. QED  BY <2>1, <2>4, <2>6, <2>9
<1>2. ASSUME NEW p \in Paths, at \o p \in DOMAIN tree
      PROVE  p \in Below(tree, at)
  <2>1. PICK q : q = at \o p
    OBVIOUS
  <2>2. /\ q \in Paths /\ Len(q) = Len(at) + Len(p) /\ Len(at) \in Nat /\ Len(p) \in Nat
        /\ \A i \in 1 .. Len(at) + Len(p) : q[i] = IF i <= Len(at) THEN at[i] ELSE p[i - Len(at)]
    BY <2>1, ConcatIsPath, PathIsFunction
  <2>3. SubSeq(q, 1, Len(at)) = at
    <3>1. PICK r : r = SubSeq(q, 1, Len(at))
      OBVIOUS
    <3>2. 1 \in 1 .. Len(q) + 1 /\ Len(at) \in 1 - 1 .. Len(q)
      BY <2>2
    <3>3. /\ r \in Paths /\ Len(r) = Len(at) - 1 + 1
          /\ \A i \in 1 .. Len(at) - 1 + 1 : r[i] = q[1 + i - 1]
      BY <2>2, <3>1, <3>2, PartIsPath
    <3>4. Len(r) = Len(at) /\ \A i \in 1 .. Len(r) : r[i] = at[i]
      BY <2>2, <3>3
    <3>. QED  BY <3>1, <3>3, <3>4, PathsAreEqual
  <2>4. SubSeq(q, Len(at) + 1, Len(q)) = p
    <3>1. PICK r : r = SubSeq(q, Len(at) + 1, Len(q))
      OBVIOUS
    <3>2. Len(at) + 1 \in 1 .. Len(q) + 1 /\ Len(q) \in (Len(at) + 1) - 1 .. Len(q)
      BY <2>2
    <3>3. /\ r \in Paths /\ Len(r) = Len(q) - (Len(at) + 1) + 1
          /\ \A i \in 1 .. Len(q) - (Len(at) + 1) + 1 : r[i] = q[(Len(at) + 1) + i - 1]
      BY <2>2, <3>1, <3>2, PartIsPath
    <3>4. Len(r) = Len(p) /\ \A i \in 1 .. Len(r) : r[i] = p[i]
      <4>1. Len(r) = Len(p)
        BY <2>2, <3>3
      <4>2. ASSUME NEW i \in 1 .. Len(r)
            PROVE  r[i] = p[i]
        <5>1. r[i] = q[Len(at) + i]
          BY <2>2, <3>3, <4>1, <4>2
        <5>2. Len(at) + i \in 1 .. Len(at) + Len(p) /\ ~ (Len(at) + i <= Len(at))
              /\ Len(at) + i - Len(at) = i
          BY <2>2, <4>1, <4>2
        <5>. QED  BY <2>2, <5>1, <5>2
      <4>. QED  BY <4>1, <4>2
    <3>. QED  BY <3>1, <3>3, <3>4, PathsAreEqual
  <2>5. Len(at) <= Len(q)
    BY <2>2
  <2>. QED  BY <1>2, <2>1, <2>3, <2>4, <2>5 DEF Below
<1>. QED  BY <1>1, <1>2

\* What a schema guarantees is below objects, all the way.
LEMMA GuaranteedNames ==
  ASSUME NEW s, IsTree(s, SchemaNodes), NEW path \in Paths, Guaranteed(s, path)
  PROVE  \A i \in 1 .. Len(path) :
           LET p == SubSeq(path, 1, i - 1) IN
           /\ p \in DOMAIN s /\ p \in Paths /\ SchemaPath(p) = p
           /\ s[p].type = "object" /\ path[i] \in s[p].required /\ path[i] \in Fields
<1>1. Len(path) \in Nat /\ DOMAIN path = 1 .. Len(path) /\ path \in Seq(Fields \cup Nat)
  BY DEF Paths
<1>2. ASSUME NEW i \in 1 .. Len(path), NEW p, p = SubSeq(path, 1, i - 1)
      PROVE  /\ p \in DOMAIN s /\ p \in Paths
             /\ s[p].type = "object" /\ path[i] \in s[p].required /\ path[i] \in Fields
  <2>1. p \in DOMAIN s /\ p \in Paths /\ s[p] \in SchemaNodes
    <3>1. i - 1 \in 0 .. Len(path) /\ path \in DOMAIN s
      BY <1>1 DEF Guaranteed
    <3>. QED  BY <1>2, <3>1 DEF IsTree
  <2>2. s[p].type = "object" /\ path[i] \in s[p].required
    BY <1>1, <1>2 DEF Guaranteed
  <2>3. s[p].required \in SUBSET Fields
    BY <2>1, <2>2 DEF SchemaNodes
  <2>. QED  BY <2>1, <2>2, <2>3
<1>4. ASSUME NEW k \in 1 .. Len(path)
      PROVE  path[k] \in Fields
  <2>1. PICK p : p = SubSeq(path, 1, k - 1)
    OBVIOUS
  <2>. QED  BY <1>2, <2>1
<1>3. ASSUME NEW i \in 1 .. Len(path), NEW p, p = SubSeq(path, 1, i - 1)
      PROVE  SchemaPath(p) = p
  <2>1. p \in Paths
    BY <1>2, <1>3
  <2>2. \A k \in DOMAIN p : p[k] \in Fields
    <3>1. \A k \in 1 .. i - 1 : path[k] \in Fields
      BY <1>1, <1>4
    <3>2. Len(p) = i - 1 /\ \A k \in 1 .. i - 1 : p[k] = path[k]
      <4>1. \A k \in 1 .. i - 1 : path[k] \in Fields \cup Nat
        BY <1>1
      <4>. QED  BY <1>3, <4>1, SubSeqProperties
    <3>3. DOMAIN p = 1 .. i - 1
      BY <2>1, <3>2 DEF Paths
    <3>. QED  BY <3>1, <3>2, <3>3
  <2>. QED  BY <2>1, <2>2, SchemaPathOfFields
<1>. QED  BY <1>2, <1>3

\* So it is there in every value that matches.
LEMMA GuaranteedIsThere ==
  ASSUME NEW s, IsTree(s, SchemaNodes), NEW path \in Paths, Guaranteed(s, path),
         NEW v, IsTree(v, ValueNodes), MatchesSchema(v, s)
  PROVE  path \in DOMAIN v /\ SchemaPath(path) = path
<1>1. Len(path) \in Nat /\ DOMAIN path = 1 .. Len(path) /\ path \in Seq(Fields \cup Nat)
  BY DEF Paths
<1>2. PICK n : n = Len(path)
  OBVIOUS
<1>. DEFINE There == {i \in 0 .. n : SubSeq(path, 1, i) \in DOMAIN v}
<1>3. 0 \in There
  <2>1. SubSeq(path, 1, 0) = <<>>
    BY SubSeqEmpty
  <2>2. <<>> \in DOMAIN v
    BY DEF IsTree
  <2>3. 0 \in 0 .. n
    BY <1>1, <1>2
  <2>. QED  BY <2>1, <2>2, <2>3
<1>4. ASSUME NEW i \in There, i + 1 \in 0 .. n
      PROVE  i + 1 \in There
  <2>1. PICK p : p = SubSeq(path, 1, i)
    OBVIOUS
  <2>2. i + 1 \in 1 .. Len(path) /\ (i + 1) - 1 = i
    BY <1>1, <1>2, <1>4
  <2>3. /\ p \in DOMAIN s /\ p \in Paths /\ SchemaPath(p) = p
        /\ s[p].type = "object" /\ path[i + 1] \in s[p].required /\ path[i + 1] \in Fields
    BY <2>1, <2>2, GuaranteedNames
  <2>4. NodeMatches(v, p, s[p]) /\ p \in DOMAIN v
    BY <2>1, <2>3 DEF MatchesSchema
  <2>5. Append(p, path[i + 1]) \in DOMAIN v
    BY <2>3, <2>4 DEF NodeMatches
  <2>6. Append(p, path[i + 1]) = SubSeq(path, 1, i + 1)
    <3>1. SubSeq(path, 1, i + 1) = SubSeq(path, 1, (i + 1) - 1) \o <<path[i + 1]>>
      BY <1>1, <2>2, SubSeqRecursiveSecond
    <3>2. Append(p, path[i + 1]) = p \o <<path[i + 1]>>
      BY <2>3, AppendIsConcat DEF Paths
    <3>. QED  BY <2>1, <2>2, <3>1, <3>2
  <2>. QED  BY <1>4, <2>5, <2>6
<1>5. n \in There
  <2>1. There \in SUBSET (0 .. n) /\ n \in Nat
    BY <1>1, <1>2
  <2>2. PICK S : S = There
    OBVIOUS
  <2>3. 0 \in S /\ \A i \in S : i + 1 \in 0 .. n => i + 1 \in S
    <3>. HIDE DEF There
    <3>. QED  BY <1>3, <1>4, <2>2
  <2>4. n \in S
    <3>. HIDE DEF There
    <3>. QED  BY <2>1, <2>2, <2>3, CountingUp
  <2>. QED  BY <2>2, <2>4
<1>6. path \in DOMAIN v
  BY <1>1, <1>2, <1>5, SubSeqFull
<1>7. \A i \in DOMAIN path : path[i] \in Fields
  BY <1>1, GuaranteedNames
<1>. QED  BY <1>6, <1>7, SchemaPathOfFields

LEMMA AppendToConcat ==
  ASSUME NEW p \in Paths, NEW q \in Paths, NEW f \in Fields
  PROVE  /\ Append(q, f) \in Paths
         /\ Append(p \o q, f) = p \o Append(q, f)
<1>1. PICK X : X = Fields \cup Nat
  OBVIOUS
<1>2. p \in Seq(X) /\ q \in Seq(X) /\ <<f>> \in Seq(X) /\ f \in X /\ Paths = Seq(X)
  BY <1>1 DEF Paths
<1>3. PICK c : c = p \o q
  OBVIOUS
<1>4. c \in Seq(X)
  BY <1>2, <1>3, ConcatProperties
<1>5. Append(q, f) \in Seq(X) /\ Append(q, f) = q \o <<f>>
  BY <1>2, AppendProperties, AppendIsConcat
<1>6. Append(c, f) = c \o <<f>>
  BY <1>2, <1>4, AppendIsConcat
<1>7. (p \o q) \o <<f>> = p \o (q \o <<f>>)
  BY <1>2, ConcatAssociative
<1>. QED  BY <1>2, <1>3, <1>5, <1>6, <1>7

\* A node that is copied together with the fields below it fits what it fitted.
LEMMA CopyMatches ==
  ASSUME NEW s \in SchemaNodes, NEW v, NEW p, NEW w, NEW r, NodeMatches(v, p, s),
         w[r] = v[p], \A f \in Fields : Append(p, f) \in DOMAIN v => Append(r, f) \in DOMAIN w
  PROVE  NodeMatches(w, r, s)
<1>1. CASE s.type = "object"
  <2>1. s.required \subseteq Fields
    BY <1>1 DEF SchemaNodes
  <2>2. v[p].kind = "object" /\ \A f \in s.required : Append(p, f) \in DOMAIN v
    BY <1>1 DEF NodeMatches
  <2>3. w[r].kind = "object" /\ \A f \in s.required : Append(r, f) \in DOMAIN w
    BY <2>1, <2>2
  <2>. QED  BY <1>1, <2>3 DEF NodeMatches
<1>2. CASE s.type # "object"
  BY <1>2 DEF NodeMatches
<1>. QED  BY <1>1, <1>2

\* What fits a schema fits every schema that it is compatible with.
LEMMA CompatibleMatches ==
  ASSUME NEW s \in SchemaNodes, NEW t \in SchemaNodes, NodeCompatible(s, t),
         NEW v, NEW p, v[p] \in ValueNodes, NodeMatches(v, p, s)
  PROVE  NodeMatches(v, p, t)
<1>1. CASE t.type = "object"
  <2>1. s.type = "object" /\ t.required \subseteq s.required
    BY <1>1 DEF NodeCompatible
  <2>2. v[p].kind = "object" /\ \A f \in s.required : Append(p, f) \in DOMAIN v
    BY <2>1 DEF NodeMatches
  <2>. QED  BY <1>1, <2>1, <2>2 DEF NodeMatches
<1>2. CASE t.type = "array"
  <2>1. s.type = "array" /\ s.maxItems <= t.maxItems
    BY <1>2 DEF NodeCompatible
  <2>2. s.maxItems \in Nat /\ t.maxItems \in Nat
    BY <1>2, <2>1 DEF SchemaNodes
  <2>3. v[p].kind = "array" /\ v[p].length <= s.maxItems
    BY <2>1 DEF NodeMatches
  <2>4. v[p].length \in Nat
    BY <2>3 DEF ValueNodes
  <2>5. v[p].length <= t.maxItems
    BY <2>1, <2>2, <2>3, <2>4
  <2>. QED  BY <1>2, <2>3, <2>5 DEF NodeMatches
<1>3. CASE t.type = "string"
  <2>1. s.type = "string" /\ \A b \in t.maxLength : \E c \in s.maxLength : c <= b
    BY <1>3 DEF NodeCompatible
  <2>2. s.maxLength \subseteq Nat /\ t.maxLength \subseteq Nat
    BY <1>3, <2>1 DEF SchemaNodes
  <2>3. v[p].kind = "string" /\ \A b \in s.maxLength : v[p].length <= b
    BY <2>1 DEF NodeMatches, AtMost
  <2>4. v[p].length \in Nat
    BY <2>3 DEF ValueNodes
  <2>5. \A b \in t.maxLength : v[p].length <= b
    BY <2>1, <2>2, <2>3, <2>4
  <2>. QED  BY <1>3, <2>3, <2>5 DEF NodeMatches, AtMost
<1>4. CASE t.type \in {"number", "integer"}
  <2>1. /\ s.type \in {"number", "integer"} /\ (t.type = "integer" => s.type = "integer")
        /\ \A b \in t.minimum : \E c \in s.minimum : c >= b
        /\ \A b \in t.maximum : \E c \in s.maximum : c <= b
    BY <1>4 DEF NodeCompatible
  <2>2. /\ s.minimum \subseteq Int /\ t.minimum \subseteq Int
        /\ s.maximum \subseteq Int /\ t.maximum \subseteq Int
    BY <1>4, <2>1 DEF SchemaNodes
  <2>3. /\ v[p].kind = "number" /\ (s.type = "integer" => v[p].twice % 2 = 0)
        /\ \A b \in s.minimum : v[p].twice >= b
        /\ \A b \in s.maximum : v[p].twice <= b
    BY <2>1 DEF NodeMatches, AtMost, AtLeast
  <2>4. v[p].twice \in Int
    BY <2>3 DEF ValueNodes
  <2>5. \A b \in t.minimum : v[p].twice >= b
    BY <2>1, <2>2, <2>3, <2>4
  <2>6. \A b \in t.maximum : v[p].twice <= b
    BY <2>1, <2>2, <2>3, <2>4
  <2>. QED  BY <1>4, <2>1, <2>3, <2>5, <2>6 DEF NodeMatches, AtMost, AtLeast
<1>5. CASE t.type \in {"boolean", "null"}
  <2>1. s.type = t.type
    BY <1>5 DEF NodeCompatible
  <2>2. v[p].kind = s.type
    BY <1>5, <2>1 DEF NodeMatches
  <2>. QED  BY <1>5, <2>1, <2>2 DEF NodeMatches
<1>6. t.type \in {"object", "array", "string", "number", "integer", "boolean", "null"}
  BY DEF SchemaNodes
<1>. QED  BY <1>1, <1>2, <1>3, <1>4, <1>5, <1>6

-----------------------------------------------------------------------------
(* The input of a step                                                     *)

\* The parts that a template refers to.
PartsAreThere(template, outputs) ==
  \A p \in Referring(template) :
    /\ template[p].path \in DOMAIN outputs[template[p].index]
    /\ IsTree(outputs[template[p].index], ValueNodes)

\* The template's own nodes, and for each reference a part of an output.
IsMadeOf(input, template, outputs) ==
  /\ DOMAIN template \subseteq DOMAIN input
  /\ \A p \in Referring(template) : \A q \in Paths :
       template[p].path \o q \in DOMAIN outputs[template[p].index] => p \o q \in DOMAIN input
  /\ \A r \in DOMAIN input :
       \/ r \in DOMAIN template \ Referring(template) /\ input[r] = template[r]
       \/ \E p \in Referring(template), q \in Paths :
            /\ template[p].path \o q \in DOMAIN outputs[template[p].index]
            /\ r = p \o q
            /\ input[r] = outputs[template[p].index][template[p].path \o q]

\* resolveTaskInput.
LEMMA ResolvedInput ==
  ASSUME NEW template, NEW outputs, IsTree(template, TemplateNodes),
         PartsAreThere(template, outputs),
         NEW input, input = ResolveTaskInput(template, outputs)
  PROVE  IsMadeOf(input, template, outputs)
<1>. DEFINE Part(p) == Below(outputs[template[p].index], template[p].path)
            written == DOMAIN template \ Referring(template)
            taken == UNION {{<<p, q>> : q \in Part(p)} : p \in Referring(template)}
            Source(r) == CHOOSE pair \in taken : pair[1] \o pair[2] = r
            Copy(pair) == outputs[template[pair[1]].index][template[pair[1]].path \o pair[2]]
<1>1. ASSUME NEW p \in Referring(template)
      PROVE  /\ p \in DOMAIN template /\ p \in Paths /\ template[p].path \in Paths
             /\ \A q : q \in Part(p) <=>
                  q \in Paths /\ template[p].path \o q \in DOMAIN outputs[template[p].index]
  <2>1. p \in DOMAIN template /\ p \in Paths /\ template[p].kind = "from"
        /\ template[p] \in ValueNodes \cup References
    BY DEF Referring, IsTree, TemplateNodes
  <2>2. template[p].path \in Paths
    BY <2>1 DEF ValueNodes, References
  <2>3. PICK o : o = outputs[template[p].index]
    OBVIOUS
  <2>4. \A q \in DOMAIN o : q \in Paths
    BY <2>3 DEF IsTree, PartsAreThere
  <2>. QED  BY <2>1, <2>2, <2>3, <2>4, BelowMeans
<1>2. /\ DOMAIN input = written \cup {pair[1] \o pair[2] : pair \in taken}
      /\ \A r \in DOMAIN input :
           input[r] = IF r \in written THEN template[r] ELSE Copy(Source(r))
  BY DEF ResolveTaskInput
<1>3. ASSUME NEW p \in Referring(template), NEW q \in Paths,
             template[p].path \o q \in DOMAIN outputs[template[p].index]
      PROVE  p \o q \in DOMAIN input
  <2>1. q \in Part(p)
    BY <1>1, <1>3
  <2>2. <<p, q>> \in taken
    <3>. HIDE DEF Part
    <3>. QED  BY <2>1
  <2>3. p \o q \in {pair[1] \o pair[2] : pair \in taken}
    <3>1. PICK pair : pair = <<p, q>>
      OBVIOUS
    <3>2. pair[1] \o pair[2] = p \o q
      BY <3>1
    <3>. HIDE DEF taken
    <3>. QED  BY <2>2, <3>1, <3>2, Zenon
  <2>. QED  BY <1>2, <2>3
<1>4. DOMAIN template \subseteq DOMAIN input
  <2>1. ASSUME NEW p \in Referring(template)
        PROVE  p \in DOMAIN input
    <3>1. p \in Paths /\ template[p].path \in Paths
      BY <1>1
    <3>2. p \o <<>> = p /\ template[p].path \o <<>> = template[p].path
      BY <3>1 DEF Paths
    <3>3. template[p].path \o <<>> \in DOMAIN outputs[template[p].index]
      BY <3>2 DEF PartsAreThere
    <3>4. p \o <<>> \in DOMAIN input
      BY <1>3, <3>3, EmptyIsPath
    <3>. QED  BY <3>2, <3>4
  <2>. QED  BY <1>2, <2>1
<1>5. ASSUME NEW r \in DOMAIN input, r \notin written
      PROVE  \E p \in Referring(template), q \in Paths :
               /\ template[p].path \o q \in DOMAIN outputs[template[p].index]
               /\ r = p \o q
               /\ input[r] = outputs[template[p].index][template[p].path \o q]
  <2>1. PICK pair : pair = Source(r)
    OBVIOUS
  <2>2. pair \in taken /\ pair[1] \o pair[2] = r
    <3>1. \E e \in taken : e[1] \o e[2] = r
      BY <1>2, <1>5
    <3>. HIDE DEF taken
    <3>. QED  BY <2>1, <3>1
  <2>3. PICK p \in Referring(template) : \E q \in Part(p) : pair = <<p, q>>
    <3>. HIDE DEF Part
    <3>. QED  BY <2>2
  <2>4. PICK q \in Part(p) : pair = <<p, q>>
    BY <2>3
  <2>5. pair[1] = p /\ pair[2] = q
    BY <2>4
  <2>6. input[r] = outputs[template[p].index][template[p].path \o q]
    <3>1. input[r] = Copy(pair)
      <4>. HIDE DEF Copy, Source
      <4>. QED  BY <1>2, <1>5, <2>1
    <3>. QED  BY <2>5, <3>1
  <2>7. q \in Paths /\ template[p].path \o q \in DOMAIN outputs[template[p].index]
    BY <1>1, <2>4
  <2>. QED  BY <2>2, <2>5, <2>6, <2>7
<1>. QED  BY <1>2, <1>3, <1>4, <1>5 DEF IsMadeOf

\* createTaskPlan, resolveTaskInput: an accepted template fits whatever the earlier steps deliver.
LEMMA AcceptedTemplateFits ==
  ASSUME NEW s, IsTree(s, SchemaNodes),
         NEW template, IsTree(template, TemplateNodes),
         NEW earlier, NEW outputs, Len(earlier) \in Nat, Len(outputs) = Len(earlier),
         \A j \in 1 .. Len(earlier) :
           /\ IsTree(earlier[j], SchemaNodes) /\ IsTree(outputs[j], ValueNodes)
           /\ MatchesSchema(outputs[j], earlier[j]),
         ValidTemplate(template, s, earlier)
  PROVE  /\ Resolves(template, outputs)
         /\ MatchesSchema(ResolveTaskInput(template, outputs), s)
<1>1. ASSUME NEW p \in Referring(template), NEW j, j = template[p].index,
             NEW a, a = template[p].path
      PROVE  /\ p \in Paths /\ j \in 1 .. Len(earlier) /\ a \in Paths
             /\ a \in DOMAIN outputs[j] /\ SchemaPath(a) = a
             /\ CompatibleSchema(earlier[j], a, s, SchemaPath(p))
  <2>1. p \in DOMAIN template /\ p \in Paths /\ template[p].kind = "from"
        /\ template[p] \in ValueNodes \cup References
    BY DEF Referring, IsTree, TemplateNodes
  <2>2. a \in Paths /\ j \in Nat \ {0}
    BY <1>1, <2>1 DEF ValueNodes, References
  <2>3. /\ j <= Len(earlier) /\ Guaranteed(earlier[j], a)
        /\ CompatibleSchema(earlier[j], a, s, SchemaPath(p))
    BY <1>1, <2>1 DEF ValidTemplate
  <2>4. j \in 1 .. Len(earlier)
    BY <2>2, <2>3
  <2>5. PICK e, o : e = earlier[j] /\ o = outputs[j]
    OBVIOUS
  <2>6. IsTree(e, SchemaNodes) /\ IsTree(o, ValueNodes) /\ MatchesSchema(o, e) /\ Guaranteed(e, a)
    BY <2>3, <2>4, <2>5
  <2>7. a \in DOMAIN o /\ SchemaPath(a) = a
    BY <2>2, <2>6, GuaranteedIsThere
  <2>. QED  BY <2>1, <2>2, <2>3, <2>4, <2>5, <2>7
<1>2. Resolves(template, outputs)
  <2>1. ASSUME NEW p \in Referring(template)
        PROVE  /\ template[p].index <= Len(outputs)
               /\ template[p].path \in DOMAIN outputs[template[p].index]
    BY <1>1
  <2>. QED  BY <2>1 DEF Resolves
<1>3. PICK input : input = ResolveTaskInput(template, outputs)
  OBVIOUS
<1>4. IsMadeOf(input, template, outputs)
  <2>1. PartsAreThere(template, outputs)
    <3>1. ASSUME NEW p \in Referring(template)
          PROVE  /\ template[p].path \in DOMAIN outputs[template[p].index]
                 /\ IsTree(outputs[template[p].index], ValueNodes)
      BY <1>1
    <3>. QED  BY <3>1 DEF PartsAreThere
  <2>. QED  BY <1>3, <2>1, ResolvedInput
<1>5. ASSUME NEW r \in DOMAIN template \ Referring(template), input[r] = template[r]
      PROVE  SchemaPath(r) \in DOMAIN s /\ NodeMatches(input, r, s[SchemaPath(r)])
  <2>1. PICK node : node = s[SchemaPath(r)]
    OBVIOUS
  <2>2. r \in DOMAIN template /\ template[r].kind # "from"
    BY DEF Referring
  <2>3. SchemaPath(r) \in DOMAIN s /\ NodeMatches(template, r, node)
    BY <2>1, <2>2 DEF ValidTemplate
  <2>4. node \in SchemaNodes
    BY <2>1, <2>3 DEF IsTree
  <2>5. NodeMatches(input, r, node)
    BY <1>4, <1>5, <2>3, <2>4, CopyMatches DEF IsMadeOf
  <2>. QED  BY <2>1, <2>3, <2>5
<1>6. ASSUME NEW p \in Referring(template), NEW q \in Paths,
             NEW j, j = template[p].index, NEW a, a = template[p].path,
             a \o q \in DOMAIN outputs[j], NEW r, r = p \o q, input[r] = outputs[j][a \o q]
      PROVE  SchemaPath(r) \in DOMAIN s /\ NodeMatches(input, r, s[SchemaPath(r)])
  <2>1. /\ p \in Paths /\ j \in 1 .. Len(earlier) /\ a \in Paths /\ SchemaPath(a) = a
        /\ CompatibleSchema(earlier[j], a, s, SchemaPath(p))
    BY <1>1, <1>6
  <2>2. PICK e, o, b, at, to : /\ e = earlier[j] /\ o = outputs[j] /\ b = a \o q
                               /\ at = SchemaPath(q) /\ to = SchemaPath(p)
    OBVIOUS
  <2>3. /\ IsTree(e, SchemaNodes) /\ IsTree(o, ValueNodes) /\ MatchesSchema(o, e)
        /\ CompatibleSchema(e, a, s, to) /\ b \in DOMAIN o /\ at \in Paths
    BY <1>6, <2>1, <2>2, SchemaPathIsPath
  <2>4. SchemaPath(b) = a \o at /\ SchemaPath(r) = to \o at
    BY <1>6, <2>1, <2>2, SchemaPathOfConcat
  <2>5. PICK source, target : source = e[a \o at] /\ target = s[to \o at]
    OBVIOUS
  <2>6. a \o at \in DOMAIN e /\ NodeMatches(o, b, source)
    BY <2>3, <2>4, <2>5 DEF MatchesSchema
  <2>7. at \in Below(e, a)
    <3>1. \A x \in DOMAIN e : x \in Paths
      BY <2>3 DEF IsTree
    <3>. QED  BY <2>1, <2>3, <2>6, <3>1, BelowMeans
  <2>8. to \o at \in DOMAIN s /\ NodeCompatible(source, target)
    BY <2>3, <2>5, <2>7 DEF CompatibleSchema
  <2>9. source \in SchemaNodes /\ target \in SchemaNodes /\ o[b] \in ValueNodes
    BY <2>3, <2>5, <2>6, <2>8 DEF IsTree
  <2>10. NodeMatches(o, b, target)
    BY <2>6, <2>8, <2>9, CompatibleMatches
  <2>11. ASSUME NEW f \in Fields, Append(b, f) \in DOMAIN o
         PROVE  Append(r, f) \in DOMAIN input
    <3>1. /\ Append(q, f) \in Paths
          /\ Append(b, f) = a \o Append(q, f) /\ Append(r, f) = p \o Append(q, f)
      BY <1>6, <2>1, <2>2, AppendToConcat
    <3>2. template[p].path \o Append(q, f) \in DOMAIN outputs[template[p].index]
      BY <1>6, <2>2, <2>11, <3>1
    <3>. QED  BY <1>4, <3>1, <3>2 DEF IsMadeOf
  <2>12. input[r] = o[b]
    BY <1>6, <2>2
  <2>13. NodeMatches(input, r, target)
    BY <2>9, <2>10, <2>11, <2>12, CopyMatches
  <2>. QED  BY <2>4, <2>5, <2>8, <2>13
<1>7. ASSUME NEW r \in DOMAIN input
      PROVE  SchemaPath(r) \in DOMAIN s /\ NodeMatches(input, r, s[SchemaPath(r)])
  <2>1. CASE r \in DOMAIN template \ Referring(template) /\ input[r] = template[r]
    BY <1>5, <2>1
  <2>2. ASSUME NEW p \in Referring(template), NEW q \in Paths,
               template[p].path \o q \in DOMAIN outputs[template[p].index],
               r = p \o q, input[r] = outputs[template[p].index][template[p].path \o q]
        PROVE  SchemaPath(r) \in DOMAIN s /\ NodeMatches(input, r, s[SchemaPath(r)])
    BY <1>6, <2>2
  <2>. QED  BY <1>4, <1>7, <2>1, <2>2 DEF IsMadeOf
<1>8. MatchesSchema(input, s)
  BY <1>7 DEF MatchesSchema
<1>. QED  BY <1>2, <1>3, <1>8

-----------------------------------------------------------------------------
(* A plan from its acceptance to its end                                   *)

\* The inductive invariant: the plan was accepted, and every output fits its service's schema.
TrialInv ==
  trial # None =>
    /\ trial \in [steps : Proposals, outputs : Seq(Values)]
    /\ PlanAccepted(trial.steps)
    /\ Len(trial.outputs) <= Len(trial.steps)
    /\ \A j \in 1 .. Len(trial.outputs) :
         MatchesSchema(trial.outputs[j], Services[trial.steps[j].service].outputSchema)

LEMMA StepFits ==
  ASSUME TrialInv, trial # None, ~AllDelivered
  PROVE  InputIsFit
<1>1. PICK steps, outputs, n : steps = trial.steps /\ outputs = trial.outputs
                               /\ n = Len(outputs) + 1
  OBVIOUS
<1>2. /\ steps \in Proposals /\ outputs \in Seq(Values) /\ PlanAccepted(steps)
      /\ Len(outputs) <= Len(steps) /\ Len(outputs) # Len(steps)
      /\ \A j \in 1 .. Len(outputs) :
           MatchesSchema(outputs[j], Services[steps[j].service].outputSchema)
  BY <1>1 DEF TrialInv, AllDelivered
<1>3. /\ Len(steps) \in Nat /\ DOMAIN steps = 1 .. Len(steps)
      /\ \A i \in DOMAIN steps : IsTree(steps[i].input, TemplateNodes)
  BY <1>2, PlansAssumption
<1>4. Len(outputs) \in Nat /\ \A j \in 1 .. Len(outputs) : outputs[j] \in Values
  BY <1>2
<1>5. n \in DOMAIN steps /\ n - 1 = Len(outputs) /\ \A j \in 1 .. Len(outputs) : j \in DOMAIN steps
  BY <1>1, <1>2, <1>3, <1>4
<1>6. PICK earlier : earlier = [j \in 1 .. n - 1 |-> Services[steps[j].service].outputSchema]
  OBVIOUS
<1>7. Len(earlier) = Len(outputs)
  <2>1. n - 1 \in Nat /\ DOMAIN earlier = 1 .. n - 1
    BY <1>4, <1>5, <1>6
  <2>2. earlier \in Seq({earlier[j] : j \in 1 .. n - 1}) /\ Len(earlier) = n - 1
    BY <1>6, <2>1, IsASeq
  <2>. QED  BY <1>5, <2>2
<1>8. /\ steps[n].service \in DOMAIN Services
      /\ ValidTemplate(steps[n].input, Services[steps[n].service].inputSchema, earlier)
  BY <1>2, <1>5, <1>6 DEF PlanAccepted
<1>9. ASSUME NEW j \in 1 .. Len(earlier)
      PROVE  /\ IsTree(earlier[j], SchemaNodes) /\ IsTree(outputs[j], ValueNodes)
             /\ MatchesSchema(outputs[j], earlier[j])
  <2>1. j \in 1 .. Len(outputs) /\ j \in DOMAIN steps
    BY <1>5, <1>7
  <2>2. earlier[j] = Services[steps[j].service].outputSchema
    BY <1>5, <1>6, <2>1
  <2>3. steps[j].service \in DOMAIN Services
    BY <1>2, <2>1 DEF PlanAccepted
  <2>. QED  BY <1>2, <1>4, <2>1, <2>2, <2>3, PlansAssumption
<1>10. /\ IsTree(Services[steps[n].service].inputSchema, SchemaNodes)
       /\ IsTree(steps[n].input, TemplateNodes)
  BY <1>3, <1>5, <1>8, PlansAssumption
<1>11. /\ Resolves(steps[n].input, outputs)
       /\ MatchesSchema(ResolveTaskInput(steps[n].input, outputs),
                        Services[steps[n].service].inputSchema)
  <2>1. PICK s, template : s = Services[steps[n].service].inputSchema
                           /\ template = steps[n].input
    OBVIOUS
  <2>2. /\ IsTree(s, SchemaNodes) /\ IsTree(template, TemplateNodes)
        /\ ValidTemplate(template, s, earlier)
    BY <1>8, <1>10, <2>1
  <2>3. Len(earlier) \in Nat /\ Len(outputs) = Len(earlier)
    BY <1>4, <1>7
  <2>4. Resolves(template, outputs) /\ MatchesSchema(ResolveTaskInput(template, outputs), s)
    BY <1>9, <2>2, <2>3, AcceptedTemplateFits
  <2>. QED  BY <2>1, <2>4
<1>. QED  BY <1>1, <1>11 DEF InputIsFit, Coming

LEMMA DeliveryKeepsTrial ==
  ASSUME TrialInv, StepDelivers
  PROVE  TrialInv'
<1>1. PICK v \in Values :
        /\ MatchesSchema(v, Services[Coming.service].outputSchema)
        /\ trial' = [trial EXCEPT !.outputs = Append(@, v)]
  BY DEF StepDelivers
<1>2. PICK steps, outputs : steps = trial.steps /\ outputs = trial.outputs
  OBVIOUS
<1>3. /\ trial \in [steps : Proposals, outputs : Seq(Values)] /\ PlanAccepted(steps)
      /\ Len(outputs) <= Len(steps) /\ Len(outputs) # Len(steps)
      /\ \A j \in 1 .. Len(outputs) :
           MatchesSchema(outputs[j], Services[steps[j].service].outputSchema)
  BY <1>2 DEF StepDelivers, TrialInv, AllDelivered
<1>4. steps \in Proposals /\ outputs \in Seq(Values)
  BY <1>2, <1>3
<1>5. /\ trial'.steps = steps /\ trial'.outputs = Append(outputs, v)
      /\ trial' \in [steps : Proposals, outputs : Seq(Values)]
  <2>1. PICK after : after = Append(outputs, v)
    OBVIOUS
  <2>2. after \in Seq(Values)
    BY <1>4, <2>1, AppendProperties
  <2>3. trial' = [trial EXCEPT !.outputs = after]
    BY <1>1, <1>2, <2>1
  <2>. QED  BY <1>2, <1>3, <2>1, <2>2, <2>3
<1>6. PICK after : after = Append(outputs, v)
  OBVIOUS
<1>7. /\ Len(outputs) \in Nat /\ Len(after) = Len(outputs) + 1
      /\ \A j \in 1 .. Len(outputs) : after[j] = outputs[j]
      /\ after[Len(outputs) + 1] = v
  BY <1>4, <1>6, AppendProperties
<1>8. Len(steps) \in Nat
  BY <1>4, PlansAssumption
<1>9. Len(after) <= Len(steps)
  BY <1>3, <1>7, <1>8
<1>10. ASSUME NEW j \in 1 .. Len(after)
       PROVE  MatchesSchema(after[j], Services[steps[j].service].outputSchema)
  <2>1. CASE j \in 1 .. Len(outputs)
    BY <1>3, <1>7, <2>1
  <2>2. CASE j = Len(outputs) + 1
    BY <1>1, <1>2, <1>7, <2>2 DEF Coming
  <2>. QED  BY <1>7, <1>10, <2>1, <2>2
<1>. QED  BY <1>3, <1>5, <1>6, <1>9, <1>10 DEF TrialInv

LEMMA InitTrial == TasksInit => TrialInv
<1>. SUFFICES ASSUME TasksInit, trial # None
              PROVE  TrialInv
  BY DEF TrialInv
<1>1. PICK steps \in Proposals : PlanAccepted(steps) /\ trial = [steps |-> steps, outputs |-> <<>>]
  BY DEF TasksInit
<1>2. trial.steps = steps /\ trial.outputs = <<>> /\ Len(<<>>) = 0 /\ <<>> \in Seq(Values)
  BY <1>1
<1>3. Len(steps) \in Nat
  BY PlansAssumption
<1>4. trial \in [steps : Proposals, outputs : Seq(Values)]
  BY <1>1, <1>2
<1>. QED  BY <1>1, <1>2, <1>3, <1>4 DEF TrialInv

\* createTaskPlan, resolveTaskInput: an accepted plan never fails on its own data, for any
\* schemas, any templates and whatever the paid services deliver.
THEOREM PlansRun == TasksSpec => []AcceptedPlansRun
<1>1. TasksInit => TrialInv
  BY InitTrial
<1>2. TrialInv /\ [TasksNext]_<<hostVars, trial>> => TrialInv'
  <2>. SUFFICES ASSUME TrialInv, [TasksNext]_<<hostVars, trial>>
                PROVE  TrialInv'
    OBVIOUS
  <2>1. CASE trial' = trial
    BY <2>1 DEF TrialInv
  <2>2. CASE trial' = None
    BY <2>2 DEF TrialInv
  <2>3. CASE StepDelivers
    BY <2>3, DeliveryKeepsTrial
  <2>. QED  BY <2>1, <2>2, <2>3 DEF TasksNext, PlanEnds
<1>3. TrialInv => AcceptedPlansRun
  BY StepFits DEF AcceptedPlansRun
<1>. QED  BY <1>1, <1>2, <1>3, PTL DEF TasksSpec

\* tasks/runner.ts: plans are tried apart from the service, so all that is proved of the
\* service with its hosts holds of it here.
THEOREM ServiceIsHosted == TasksSpec => HostSpec
<1>1. TasksInit => HostInit
  BY DEF TasksInit
<1>2. [TasksNext]_<<hostVars, trial>> => [HostNext]_hostVars
  BY DEF TasksNext
<1>. QED  BY <1>1, <1>2, PTL DEF TasksSpec, HostSpec
=============================================================================
