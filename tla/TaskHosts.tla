----------------------------- MODULE TaskHosts -----------------------------
(***************************************************************************)
(* The programs of execution hosts: tasks/runner.ts under                  *)
(* services/task-runner.ts, on top of the task service of GeneralTasks,    *)
(* whose hosts call in any order.  Here a host claims a task, plans it     *)
(* once, or buys the steps of its approved plan one after the other, each  *)
(* by an executor (EconomyExecutor, of which only the stages that this     *)
(* program looks at are kept).                                             *)
(*                                                                         *)
(* A program may die between any two steps; its lock stays, and an operator *)
(* takes it away before the next start.  A request that it sent is served late or not at   *)
(* all, and its answer may be lost.  Both shapes of a system are           *)
(* behaviours: hosted, or with the free hosts of GeneralTasks.             *)
(***************************************************************************)
EXTENDS GeneralTasks

CONSTANT HostedTasks   \* the tasks that exist when the hosts run these programs

\* None is not what a program sends.
ASSUME HostsAssumption ==
  /\ HostedTasks \subseteq Tasks
  /\ None \notin {"plan", "blocked", "progress", "complete"}
                   \X (Plans \cup {None} \cup 0..MaxSteps)

VARIABLES
  hosted,    \* the hosts run these programs
  host,      \* host[w]: what the program of w does
  planned,   \* planned[w][t]: the plan of journal.planning, or None
  bound,     \* bound[w][t]: the plan of journal.execution, or None
  file,      \* file[w][t][i]: stage of the executor's journal of a step's order
  sent       \* sent[w][t]: the host's last request, if it may still arrive, or None

programs == <<host, planned, bound, file, sent>>
hostVars == <<vars, hosted, programs>>

Off == [at |-> "off", task |-> None, step |-> 0]
At(w, at) == host[w].at = at
Goes(w, at) == host' = [host EXCEPT ![w].at = at]
Stops(w) == host' = [host EXCEPT ![w] = Off]

HostInit ==
  /\ Init
  /\ hosted \in BOOLEAN
  /\ host = [w \in Workers |-> Off]
  /\ planned = [w \in Workers |-> [t \in Tasks |-> None]]
  /\ bound = [w \in Workers |-> [t \in Tasks |-> None]]
  /\ file = [w \in Workers |-> [t \in Tasks |-> [i \in 1..MaxSteps |-> "unpaid"]]]
  /\ sent = [w \in Workers |-> [t \in Tasks |-> None]]

\* A bound: a request is lost when the next one is sent.
Send(w, what) == sent' = [sent EXCEPT ![w][host[w].task] = what]
Blocked == <<"blocked", None>>

-----------------------------------------------------------------------------
(* A poll: the claim, and what the journal makes of it                     *)

\* bindExecution, with the immutable execution of the journal.
MayExecute(w, t, r) ==
  /\ r.status \in {"approved", "running"} /\ r.approvedPlan # None
  /\ bound[w][t] \in {None, r.approvedPlan}

\* A token of a new tenure makes the requests of earlier ones invalid.  The answer may be
\* lost, and a claim that the journal contradicts ends the program.
HostClaims(w, t) ==
  /\ At(w, "off") /\ Claim(t, w)
  /\ sent' = IF row[t].claimWorker = w THEN sent ELSE [v \in Workers |-> [sent[v] EXCEPT ![t] = None]]
  /\ \/ UNCHANGED <<host, bound>>
     \/ /\ row'[t].claimPhase = "plan" /\ bound[w][t] = None
        /\ host' = [host EXCEPT ![w] = [at |-> "planning", task |-> t, step |-> 0]]
        /\ UNCHANGED bound
     \/ /\ row'[t].claimPhase = "execute" /\ MayExecute(w, t, row'[t])
        /\ host' = [host EXCEPT ![w] = [at |-> "executing", task |-> t, step |-> 1]]
        /\ bound' = [bound EXCEPT ![w][t] = row'[t].approvedPlan]
  /\ UNCHANGED <<planned, file>>

\* createTaskPlan: registered services, valid inputs, within the budget.
Accepted(t, p) == p \in Affordable[t]

\* planGeneralTask: a plan of the pinned catalog, or None when it declines.
PlannerAnswers(t) == {p \in Plans : Accepted(t, p)} \cup {None}

\* A plan of the journal is used again while it is still accepted; otherwise the planner is
\* asked.  Any failure reports that the task is blocked.
PlanTask(w) ==
  LET t == host[w].task
      Keep(result) == planned' = [planned EXCEPT ![w][t] = result]
  IN
  /\ At(w, "planning")
  /\ \/ /\ Accepted(t, planned[w][t])
        /\ Send(w, <<"plan", planned[w][t]>>) /\ Goes(w, "plan") /\ UNCHANGED planned
     \/ \E p \in PlannerAnswers(t) :
          /\ Keep(p)
          /\ IF p = None THEN Send(w, Blocked) /\ Stops(w) ELSE Send(w, <<"plan", p>>) /\ Goes(w, "plan")
     \/ Send(w, Blocked) /\ Stops(w) /\ UNCHANGED planned
  /\ UNCHANGED <<vars, bound, file>>

\* The platform finds that the catalog changed, or that the host's plan is the row's.
PlanAnswered(w) ==
  LET r == row[host[w].task] IN
  /\ At(w, "plan") /\ w \in holders[host[w].task]
  /\ \/ r.status \in {"planning", "needs_approval"} /\ Send(w, Blocked)
     \/ r.status = "needs_approval" /\ r.plan = planned[w][host[w].task] /\ UNCHANGED sent
  /\ Stops(w)
  /\ UNCHANGED <<vars, planned, bound, file>>

-----------------------------------------------------------------------------
(* The steps of the approved plan                                          *)

Stage(w) == file[w][host[w].task][host[w].step]
Reaches(w, stage) == file' = [file EXCEPT ![w][host[w].task][host[w].step] = stage]
Authority(w) == MayExecute(w, host[w].task, row[host[w].task])
Unexpired(w) == approvalLive[host[w].task]

\* The owner's approval is read again, and nothing unpaid starts after it expired.
EnterStep(w) ==
  /\ At(w, "executing") /\ Authority(w)
  /\ Unexpired(w) \/ Stage(w) # "unpaid"
  /\ Goes(w, "purchasing")
  /\ UNCHANGED <<vars, planned, bound, file, sent>>

\* runEconomyExecutor: preflight and preparePayment look at the expiry again, authenticate
\* at the approval; a payment that was never submitted is prepared again.
Purchase(w) ==
  /\ At(w, "purchasing")
  /\ \/ Stage(w) = "unpaid" /\ Unexpired(w) /\ Authority(w) /\ Reaches(w, "paying")
     \/ Stage(w) = "paying" /\ (Reaches(w, "unpaid") \/ Reaches(w, "paid"))
     \/ /\ Stage(w) = "paid"
        /\ delivered[host[w].task][bound[w][host[w].task]][host[w].step] # None
        /\ Reaches(w, "completed")
  /\ UNCHANGED <<vars, host, planned, bound, sent>>

\* Slip: the report of a step is not waited for.
ReportStep_Unawaited(w) ==
  /\ At(w, "purchasing") /\ Stage(w) = "completed"
  /\ Send(w, <<"progress", host[w].step>>)
  /\ IF host[w].step < Steps[bound[w][host[w].task]]
       THEN host' = [host EXCEPT ![w].at = "executing", ![w].step = @ + 1]
       ELSE Goes(w, "progress")
  /\ UNCHANGED <<vars, planned, bound, file>>

ReportStep(w) ==
  /\ At(w, "purchasing") /\ Stage(w) = "completed"
  /\ Send(w, <<"progress", host[w].step>>)
  /\ Goes(w, "progress")
  /\ UNCHANGED <<vars, planned, bound, file>>

\* update returned: the next step, or the request that completes the task.
StepRecorded(w) ==
  IF host[w].step < Steps[bound[w][host[w].task]]
    THEN /\ host' = [host EXCEPT ![w].at = "executing", ![w].step = @ + 1]
         /\ UNCHANGED sent
    ELSE Goes(w, "complete") /\ Send(w, <<"complete", None>>)

\* A result that the row already has is answered without an update.
StepReplayed(w) ==
  LET t == host[w].task IN
  /\ At(w, "progress") /\ w \in holders[t]
  /\ row[t].claimPhase = "execute" /\ row[t].status \in {"running", "completed"}
  /\ host[w].step <= Len(row[t].steps)
  /\ StepRecorded(w)
  /\ UNCHANGED <<vars, planned, bound, file>>

-----------------------------------------------------------------------------
(* The other end of requests                                               *)

\* What a session read, as it was sent.
SentAs(r) ==
  CASE r.action = "plan"     -> <<"plan", r.plan>>
    [] r.action = "progress" -> <<"progress", Len(r.snapshot.steps) + 1>>
    [] OTHER                 -> <<r.action, None>>

\* A request that was sent reaches the service.
HostReads(s, t, w) ==
  /\ RunnerReads(s, t, w)
  /\ sent[w][t] = SentAs(request'[s])
  /\ sent' = [sent EXCEPT ![w][t] = None]
  /\ UNCHANGED <<host, planned, bound, file>>

\* The request that the program waits for.
Awaits(w, r) ==
  /\ host[w].at = r.action /\ host[w].task = r.task
  /\ r.action = "progress" => Len(r.snapshot.steps) + 1 = host[w].step

HostWrites(s) ==
  LET w == request[s].worker IN
  /\ RunnerWrites(s)
  /\ \/ UNCHANGED <<host, sent>>
     \/ /\ Awaits(w, request[s])
        /\ IF At(w, "progress") THEN StepRecorded(w) ELSE Stops(w) /\ UNCHANGED sent
  /\ UNCHANGED <<planned, bound, file>>

\* An error, a refusal or a time out of 25 seconds: a step reports that the task is
\* blocked, without looking at the answer, and the program ends.  Or the program dies; the
\* next start is after an operator removed its lock.
Fails(w) ==
  /\ ~At(w, "off")
  /\ \/ host[w].at \in {"executing", "purchasing", "progress", "complete"} /\ Send(w, Blocked)
     \/ UNCHANGED sent
  /\ Stops(w)
  /\ UNCHANGED <<vars, planned, bound, file>>

\* Only a paid order is delivered.
DeliverPaid(t, i) ==
  /\ \E w \in Workers : bound[w][t] = row[t].plan /\ file[w][t][i] = "paid"
  /\ Deliver(t, i)
  /\ UNCHANGED programs

HostRuns(w) ==
  \/ \E t \in HostedTasks : HostClaims(w, t)
  \/ PlanTask(w) \/ PlanAnswered(w)
  \/ EnterStep(w) \/ Purchase(w) \/ ReportStep(w) \/ StepReplayed(w)
  \/ Fails(w)

Owner(s) ==
  /\ \/ CountOpen(s) \/ InsertTask(s) \/ Approve(s) \/ Cancel(s) \/ Retry(s) \/ Drop(s)
     \/ \E t \in HostedTasks : CreateTask(s, t) \/ OwnerReads(s, t)
  /\ UNCHANGED programs

Elapses(t) == (ExpireLease(t) \/ ExpireApproval(t)) /\ UNCHANGED programs

\* A bound of the hosted instance: requests are served one at a time.
Alone(s) == \A z \in Sessions \ {s} : request[z] = Idle

HostedNext ==
  \/ \E s \in Sessions :
       /\ Alone(s)
       /\ \/ Owner(s) \/ HostWrites(s)
          \/ \E t \in HostedTasks, w \in Workers : HostReads(s, t, w)
  \/ \E w \in Workers : HostRuns(w)
  \/ \E t \in HostedTasks :
       \/ Elapses(t)
       \/ \E i \in 1..MaxSteps : DeliverPaid(t, i)

HostNext ==
  /\ UNCHANGED hosted
  /\ \/ hosted /\ HostedNext
     \/ ~hosted /\ Next /\ UNCHANGED programs

HostSpec == HostInit /\ [][HostNext]_hostVars

-----------------------------------------------------------------------------
\* Money follows the row.  What a host pays for is a step of the plan that the owner
\* approved, on the one execution host, in a task that was not and will not be called off,
\* and only after the results of all earlier steps are recorded; and whatever the row
\* records was bought by the execution host.  Restarts, late and repeated requests, retries
\* of a blocked task and an approval that expires between two steps change nothing.
HostsPayInOrder ==
  \A t \in HostedTasks :
    /\ \A w \in Workers : \A i \in 1..MaxSteps :
         file[w][t][i] # "unpaid" =>
           /\ row[t].executionWorker = w /\ row[t].approvedPlan = bound[w][t]
           /\ i <= Steps[row[t].approvedPlan] /\ i <= Len(row[t].steps) + 1
           /\ row[t].status # "cancelled"
    /\ hosted => \A i \in 1..Len(row[t].steps) : file[row[t].executionWorker][t][i] = "completed"
=============================================================================
