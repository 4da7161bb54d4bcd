--------------------------- MODULE GeneralTasks ---------------------------
(***************************************************************************)
(* The platform's task service: platform/tasks.ts over the table           *)
(* platform_tasks (db/migrations/017_general_tasks.sql), for one agent of  *)
(* one owner.  An update reads a row, decides, and then updates it if its  *)
(* revision is still the one it read; a claim is a single statement.       *)
(*                                                                         *)
(* Callers are free: the owner may send any action at any time, a host any *)
(* action on a task whose claim token it was given.  Requests may be lost, *)
(* late, or repeated.  A request that the code refuses, or answers without *)
(* a change, is no step.                                                   *)
(***************************************************************************)
EXTENDS Integers, Sequences, FiniteSets

CONSTANTS Tasks,     \* task identities; one stands for its idempotency key and terms
          Plans,     \* plans (equivalently plan hashes)
          Affordable, \* Affordable[t]: plans that createTaskPlan accepts for t's budget
          MaxSteps,  \* 5 in the code
          Steps,     \* Steps[p]: number of steps of a plan
          Outputs,   \* outputs a service may deliver
          Workers,   \* worker ids of execution hosts
          Sessions,  \* requests the platform may be serving at once
          MaxOpen,   \* open tasks per agent, 25 in the code
          None

ASSUME ConstantsAssumption ==
  /\ None \notin Tasks \cup Plans \cup Outputs \cup Workers \cup Sessions
  /\ None \notin {"plan", "execute"}
  /\ Affordable \in [Tasks -> SUBSET Plans]
  /\ MaxSteps \in Nat /\ Steps \in [Plans -> 1..MaxSteps]
  /\ MaxOpen \in Nat

VARIABLES
  row,           \* [Tasks -> Row]: the table
  holders,       \* hosts that were given the row's claim_token; {} when it is NULL
  leaseLive,     \* claim_until > now()
  approvalLive,  \* approval_expires_at > now()
  request,       \* [Sessions -> Request]: what each session has read and will write
  agentLock,     \* the session that locked the agent's row, or None
  delivered      \* economy_orders: output of the fulfilled order of a plan's step, or None

times == <<leaseLive, approvalLive>>
vars == <<row, holders, times, request, agentLock, delivered>>

Statuses == {"absent", "queued", "planning", "needs_approval", "approved", "running",
             "completed", "blocked", "cancelled"}
Terminal == {"completed", "cancelled"}
Row == [status : Statuses, plan : Plans \cup {None}, approvedPlan : Plans \cup {None},
        steps : Seq(Outputs), claimWorker : Workers \cup {None},
        claimPhase : {"plan", "execute", None}, executionWorker : Workers \cup {None}]
Absent == [status |-> "absent", plan |-> None, approvedPlan |-> None, steps |-> <<>>,
           claimWorker |-> None, claimPhase |-> None, executionWorker |-> None]

Actions == {"none", "create", "insert", "approve", "cancel",
            "retry", "plan", "blocked", "progress", "complete"}

\* A session's snapshot is current while no update touched the row: revision = row.revision.
Request == [action : Actions, task : Tasks \cup {None}, plan : Plans \cup {None},
            worker : Workers \cup {None}, snapshot : Row, current : BOOLEAN, open : Nat]
Idle == [action |-> "none", task |-> None, plan |-> None, worker |-> None,
         snapshot |-> Absent, current |-> FALSE, open |-> 0]

Init ==
  /\ row = [t \in Tasks |-> Absent]
  /\ holders = [t \in Tasks |-> {}]
  /\ leaseLive = [t \in Tasks |-> FALSE]
  /\ approvalLive = [t \in Tasks |-> FALSE]
  /\ request = [s \in Sessions |-> Idle]
  /\ agentLock = None
  /\ delivered = [t \in Tasks |-> [p \in Plans |-> [i \in 1..MaxSteps |-> None]]]

Open == {t \in Tasks : row[t].status \notin {"absent"} \cup Terminal}

\* UPDATE: the row changes, and whatever others have read of it is outdated.
Outdated(t) == [s \in Sessions |-> [request[s] EXCEPT !.current = @ /\ request[s].task # t]]
Put(t, new) == row' = [row EXCEPT ![t] = new]

-----------------------------------------------------------------------------
(* createTask: lock the agent, then count and insert in a second statement *)

CreateTask(s, t) ==
  /\ request[s] = Idle
  /\ request' = [request EXCEPT ![s] = [Idle EXCEPT !.action = "create", !.task = t]]
  /\ UNCHANGED <<row, holders, times, agentLock, delivered>>

\* Slip: the agent's row is not locked.
CountOpen_Unlocked(s) ==
  /\ request[s].action = "create"
  /\ agentLock' = s
  /\ request' = [request EXCEPT ![s].action = "insert", ![s].open = Cardinality(Open)]
  /\ UNCHANGED <<row, holders, times, delivered>>

\* FOR UPDATE returns; the second statement's snapshot is taken after it.
CountOpen(s) ==
  /\ request[s].action = "create" /\ agentLock = None
  /\ agentLock' = s
  /\ request' = [request EXCEPT ![s].action = "insert", ![s].open = Cardinality(Open)]
  /\ UNCHANGED <<row, holders, times, delivered>>

\* Commit; an existing key is replayed, and a full agent answers TASK_LIMIT.
InsertTask(s) ==
  /\ request[s].action = "insert"
  /\ agentLock' = None
  /\ request' = [request EXCEPT ![s] = Idle]
  /\ IF request[s].open < MaxOpen /\ row[request[s].task].status = "absent"
       THEN Put(request[s].task, [Absent EXCEPT !.status = "queued"])
       ELSE UNCHANGED row
  /\ UNCHANGED <<holders, times, delivered>>

-----------------------------------------------------------------------------
(* The SELECT of an update, with the checks made before its UPDATE         *)

Reads(s, t, action, plan, w) ==
  /\ request[s] = Idle
  /\ request' = [request EXCEPT ![s] =
       [action |-> action, task |-> t, plan |-> plan, worker |-> w,
        snapshot |-> row[t], current |-> TRUE, open |-> 0]]
  /\ UNCHANGED <<row, holders, times, agentLock, delivered>>

\* updateTask: an approval names the plan the owner has seen.
OwnerReads(s, t) ==
  /\ row[t].status # "absent"
  /\ \/ /\ row[t].plan # None /\ row[t].approvedPlan # row[t].plan
        /\ Reads(s, t, "approve", row[t].plan, None)
     \/ row[t].status # "cancelled" /\ Reads(s, t, "cancel", None, None)
     \/ Reads(s, t, "retry", None, None)

\* verifiedStep: the paid order of the approved plan's step has delivered.
Verified(t, i) ==
  LET r == row[t] IN
  /\ r.plan # None /\ r.approvedPlan = r.plan
  /\ i \in 1..Steps[r.plan]
  /\ delivered[t][r.plan][i] # None

\* Slip: the index is counted from the wrong end.
NextResult_Previous(t, r) == delivered[t][r.plan][IF r.steps = <<>> THEN 1 ELSE Len(r.steps)]

\* What verifyPaidStep returns for the step that follows the snapshot's results.
NextResult(t, r) == delivered[t][r.plan][Len(r.steps) + 1]

\* Slip: any number of verified results completes a task.
AllVerified_Partly(t) == \A i \in 1..Len(row[t].steps) : Verified(t, i)

AllVerified(t) ==
  /\ Len(row[t].steps) = Steps[row[t].plan]
  /\ \A i \in 1..Len(row[t].steps) :
       Verified(t, i) /\ delivered[t][row[t].plan][i] = row[t].steps[i]

\* updateRunnerTask, by a host that has the row's claim token.
RunnerReads(s, t, w) ==
  /\ w \in holders[t]
  /\ \/ /\ row[t].claimPhase = "plan" /\ row[t].status = "planning" /\ leaseLive[t]
        /\ \E p \in Affordable[t] : Reads(s, t, "plan", p, w)
     \/ /\ row[t].status \in {"planning", "running", "blocked"}
        /\ Reads(s, t, "blocked", None, w)
     \/ /\ row[t].claimPhase = "execute" /\ row[t].status \in {"running", "completed"}
        /\ \/ Verified(t, Len(row[t].steps) + 1) /\ Reads(s, t, "progress", None, w)
           \/ AllVerified(t) /\ Reads(s, t, "complete", None, w)

\* The request ends without its UPDATE: an error, a lost connection, a dead server.
Drop(s) ==
  /\ request[s] # Idle
  /\ request' = [request EXCEPT ![s] = Idle]
  /\ agentLock' = IF agentLock = s THEN None ELSE agentLock
  /\ UNCHANGED <<row, holders, times, delivered>>

-----------------------------------------------------------------------------
(* The UPDATE: conditional on the revision, the token and the status       *)

\* Slip: the UPDATE does not ask for the revision that was read.
Writes_AnyRevision(s, action) == request[s].action = action

Writes(s, action) == request[s].action = action /\ request[s].current

\* The row changes as said and the session answers.
Answer(s, new) ==
  /\ Put(request[s].task, new)
  /\ request' = [Outdated(request[s].task) EXCEPT ![s] = Idle]
  /\ UNCHANGED <<agentLock, delivered>>

Lease(t, live) == leaseLive' = [leaseLive EXCEPT ![t] = live]

Approve(s) ==
  LET t == request[s].task IN
  /\ Writes(s, "approve")
  /\ row[t].status = "needs_approval" /\ row[t].plan = request[s].plan
  /\ Answer(s, [row[t] EXCEPT !.status = "approved", !.approvedPlan = row[t].plan])
  /\ approvalLive' = [approvalLive EXCEPT ![t] = TRUE]
  /\ Lease(t, FALSE)
  /\ UNCHANGED holders

\* Slip: a status that the table does not know.
Cancel_Misspelt(s) ==
  LET t == request[s].task IN
  /\ Writes(s, "cancel")
  /\ row[t].executionWorker = None /\ row[t].status \notin Terminal
  /\ Answer(s, [row[t] EXCEPT !.status = "canceled"])
  /\ holders' = [holders EXCEPT ![t] = {}]
  /\ Lease(t, FALSE)
  /\ UNCHANGED approvalLive

Cancel(s) ==
  LET t == request[s].task IN
  /\ Writes(s, "cancel")
  /\ row[t].executionWorker = None /\ row[t].status \notin Terminal
  /\ Answer(s, [row[t] EXCEPT !.status = "cancelled"])
  /\ holders' = [holders EXCEPT ![t] = {}]
  /\ Lease(t, FALSE)
  /\ UNCHANGED approvalLive

Retry(s) ==
  LET t == request[s].task IN
  /\ Writes(s, "retry") /\ row[t].status = "blocked"
  /\ Answer(s, [row[t] EXCEPT !.status =
       IF row[t].approvedPlan # None THEN "approved" ELSE "queued"])
  /\ Lease(t, FALSE)
  /\ UNCHANGED <<holders, approvalLive>>

\* Every runner update writes status, plan and results from its snapshot and renews
\* the lease.
RunnerWrites(s) ==
  LET t == request[s].task
      old == request[s].snapshot
      Sets(status, plan, steps) ==
        Answer(s, [row[t] EXCEPT !.status = status, !.plan = plan, !.steps = steps])
  IN
  /\ request[s].worker # None /\ request[s].worker \in holders[t]
  /\ \/ Writes(s, "plan") /\ Sets("needs_approval", request[s].plan, old.steps)
     \/ Writes(s, "blocked") /\ Sets("blocked", old.plan, old.steps)
     \/ /\ Writes(s, "progress")
        /\ Sets(old.status, old.plan, Append(old.steps, NextResult(t, old)))
     \/ Writes(s, "complete") /\ Sets("completed", old.plan, old.steps)
  /\ Lease(t, TRUE)
  /\ UNCHANGED <<holders, approvalLive>>

-----------------------------------------------------------------------------
(* claimTask                                                               *)

\* Slip: the approval's expiry is not looked at.
Claimable_Expired(t, w) ==
  /\ ~leaseLive[t] \/ row[t].claimWorker = w
  /\ \/ row[t].status \in {"queued", "planning"}
     \/ /\ row[t].status \in {"approved", "running"}
        /\ row[t].executionWorker \in {None, w}

Claimable(t, w) ==
  /\ ~leaseLive[t] \/ row[t].claimWorker = w
  /\ \/ row[t].status \in {"queued", "planning"}
     \/ /\ row[t].status \in {"approved", "running"}
        /\ row[t].executionWorker \in {None, w}
        /\ row[t].executionWorker # None \/ approvalLive[t]

\* Slip: a token once given stays the row's token.
Token_Kept(t, w) == holders' = [holders EXCEPT ![t] = @ \cup {w}]

\* The claiming host keeps the token it has; a new tenure gets a new one.
Token(t, w) ==
  holders' = [holders EXCEPT ![t] = IF row[t].claimWorker = w THEN @ \cup {w} ELSE {w}]

\* One statement.  A row that another statement locks is skipped, so that any
\* claimable row may come first.
Claim(t, w) ==
  LET execute == row[t].approvedPlan # None IN
  /\ Claimable(t, w)
  /\ Put(t, [row[t] EXCEPT
       !.status = IF execute THEN "running" ELSE "planning",
       !.claimPhase = IF execute THEN "execute" ELSE "plan",
       !.claimWorker = w,
       !.executionWorker = IF execute /\ @ = None THEN w ELSE @])
  /\ Token(t, w)
  /\ Lease(t, TRUE)
  /\ request' = Outdated(t)
  /\ UNCHANGED <<approvalLive, agentLock, delivered>>

-----------------------------------------------------------------------------
(* Time, and the marketplace                                               *)

ExpireLease(t) ==
  /\ leaseLive[t] /\ Lease(t, FALSE)
  /\ UNCHANGED <<row, holders, approvalLive, request, agentLock, delivered>>

ExpireApproval(t) ==
  /\ approvalLive[t] /\ approvalLive' = [approvalLive EXCEPT ![t] = FALSE]
  /\ UNCHANGED <<row, holders, leaseLive, request, agentLock, delivered>>

\* The order of a step, whose id hashes the task, the plan and the index, is fulfilled.
Deliver(t, i) ==
  LET p == row[t].plan IN
  /\ p # None /\ i \in 1..Steps[p] /\ delivered[t][p][i] = None
  /\ \E output \in Outputs : delivered' = [delivered EXCEPT ![t][p][i] = output]
  /\ UNCHANGED <<row, holders, times, request, agentLock>>

Serve(s) ==
  \/ CountOpen(s) \/ InsertTask(s) \/ Approve(s) \/ Cancel(s) \/ Retry(s)
  \/ RunnerWrites(s) \/ Drop(s)

Next ==
  \/ \E s \in Sessions :
       \/ Serve(s)
       \/ \E t \in Tasks :
            \/ CreateTask(s, t) \/ OwnerReads(s, t)
            \/ \E w \in Workers : RunnerReads(s, t, w)
  \/ \E t \in Tasks :
       \/ \E w \in Workers : Claim(t, w)
       \/ ExpireLease(t) \/ ExpireApproval(t)
       \/ \E p \in Plans : \E i \in 1..Steps[p] : Deliver(t, i)

Spec == Init /\ [][Next]_vars

-----------------------------------------------------------------------------
(* What the task service promises                                          *)

TypeOK ==
  /\ row \in [Tasks -> Row]
  /\ holders \in [Tasks -> SUBSET Workers]
  /\ leaseLive \in [Tasks -> BOOLEAN]
  /\ approvalLive \in [Tasks -> BOOLEAN]
  /\ request \in [Sessions -> Request]
  /\ agentLock \in Sessions \cup {None}
  /\ delivered \in [Tasks -> [Plans -> [1..MaxSteps -> Outputs \cup {None}]]]

\* The CHECK constraints of platform_tasks: no statement of the service ever fails on one.
Constraints ==
  \A t \in Tasks :
    LET r == row[t] IN
    /\ r.approvedPlan # None => r.approvedPlan = r.plan
    /\ r.status \in {"approved", "running", "completed"} => r.approvedPlan # None
    /\ r.status \in {"running", "completed"} => r.executionWorker # None
    /\ r.status = "completed" => Len(r.steps) = Steps[r.plan]

\* The trigger platform_task_immutable_terms: whatever requests meet, no UPDATE of the
\* service changes an approved plan, moves an execution host or rewrites a result.
TriggerAllows(old, new) ==
  /\ old.approvedPlan # None => new.plan = old.plan /\ new.approvedPlan = old.approvedPlan
  /\ old.executionWorker # None => new.executionWorker = old.executionWorker
  /\ Len(new.steps) >= Len(old.steps)
  /\ \A i \in 1..Len(old.steps) : new.steps[i] = old.steps[i]

TriggerNeverRaises ==
  [][\A t \in Tasks : TriggerAllows(row[t], row'[t])]_row

\* claimTask: "prevent two hosts owning the same claim".  At most one host has the row's
\* token, and once a host executes a task no other has it, however leases expired and
\* requests were delayed while the plan was made.
OneHolder ==
  \A t \in Tasks :
    /\ holders[t] \subseteq {row[t].claimWorker}
    /\ row[t].executionWorker # None => row[t].claimWorker = row[t].executionWorker

\* Both together: rows keep their constraints, and their claims and executions one host.
RowsAreSound == Constraints /\ OneHolder

\* updateRunnerTask: success is derived from paid-order evidence.  Every recorded result is
\* the output of the fulfilled order of that step of the approved plan.
ResultsAreDelivered ==
  \A t \in Tasks : \A i \in 1..Len(row[t].steps) :
    /\ row[t].approvedPlan # None
    /\ i <= Steps[row[t].approvedPlan]
    /\ row[t].steps[i] = delivered[t][row[t].approvedPlan][i]

\* createTask: "concurrent creates cannot overbook the open-task limit".
OpenLimit == Cardinality(Open) <= MaxOpen

Promise == INSTANCE TaskPromises WITH
  granted <- [t \in Tasks |-> row[t].approvedPlan],
  live    <- approvalLive,
  host    <- [t \in Tasks |-> row[t].executionWorker],
  results <- [t \in Tasks |-> row[t].steps],
  over    <- [t \in Tasks |-> IF row[t].status \in Terminal THEN row[t].status ELSE "open"]

\* The service implements TaskPromises: one grant, a start only under a live grant, one
\* host, results only added, and no cancellation of a task that may have spent money.
ImplementsPromises == Promise!Spec
=============================================================================
