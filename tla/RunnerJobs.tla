------------------------------- MODULE RunnerJobs -------------------------------
(***************************************************************************)
(* platform/execution.ts for one agent: its paired runner, its signed      *)
(* mandates, its queue of jobs and their results, and the revisions of the *)
(* verification service a mandate may name.  Every transaction locks the   *)
(* agent's row first, so each is one action; what a request read before    *)
(* its transaction is checked again by the transaction's statements.       *)
(***************************************************************************)
EXTENDS Naturals, Sequences, FiniteSets

CONSTANTS
  MaxRuns,       \* the signed limits of runs of the mandates that are prepared
  MaxRunners,    \* bound: pairings
  MaxJobs,       \* bound: idempotency keys of queued runs
  MaxRevisions,  \* bound: edits of the verification service
  Wishes,        \* what may happen besides the work itself, one set per behaviour
  None

VARIABLES
  wanted,     \* the events this behaviour allows
  calm,       \* ... until it is calm
  runner,     \* platform_runners: the state of a credential, last seen in two minutes
  mandate,    \* platform_mandates
  job,        \* platform_jobs, numbered in their order of creation
  revisions   \* platform_market_service_revisions: active or paused

scenario == <<wanted, calm>>
jobVars == <<runner, mandate, job, revisions>>

\* Credentials, mandates and jobs have the numbers of their creation; a job's number
\* stands for its idempotency key too.
Runners == 1 .. MaxRunners
Mandates == 1 .. Len(MaxRuns)
Jobs == 1 .. MaxJobs
Kinds == {"data", "report", "verify"}
Stages == {"mandate", "discovery", "purchase", "report", "verification", "complete"}
Run == [status : {"running", "completed", "failed", "awaiting_approval"},
        stage : Stages, receipts : SUBSET {"data", "verify"},
        checked : BOOLEAN, uncertain : BOOLEAN]
Statuses == {"none", "queued", "running", "succeeded", "failed", "blocked", "uncertain"}

ASSUME RunnerJobsAssumption ==
  /\ MaxRuns \in Seq(Nat \ {0})
  /\ {MaxRunners, MaxJobs, MaxRevisions} \subseteq Nat \ {0}
  /\ None \notin Nat \cup Run

May(event) == event \in wanted /\ ~calm
Created == {i \in Jobs : job[i].status # "none"}

\* The number of the next credential, mandate or job.
IsNext(n, made) == n = Cardinality(made) + 1

Approved(m) == mandate[m].approved /\ ~mandate[m].revoked
Current(m) == Approved(m) /\ mandate[m].live
Online == \E r \in Runners : runner[r] = [paired |-> "yes", seen |-> TRUE]

\* The terms of a mandate: no service, or the service at the revision it was signed
\* for.  An edit makes a new revision, and price and recipient belong to one.
Unchanged(m) ==
  mandate[m].terms \in {0, Len(revisions)} /\ (mandate[m].terms > 0 => revisions[Len(revisions)])

JobsInit ==
  /\ wanted \in Wishes /\ calm = FALSE
  /\ runner = [r \in Runners |-> [paired |-> "no", seen |-> FALSE]]
  /\ mandate = [m \in Mandates |->
       [made |-> FALSE, approved |-> FALSE, revoked |-> FALSE, live |-> TRUE,
        terms |-> 0, reserved |-> 0]]
  /\ job = [i \in Jobs |->
       [status |-> "none", mandate |-> None, runner |-> None, result |-> None]]
  /\ revisions = <<TRUE>>

-----------------------------------------------------------------------------
(* The owner.                                                              *)

Revoked(s) == [r \in Runners |-> IF r \in s THEN [runner[r] EXCEPT !.paired = "revoked"]
                                            ELSE runner[r]]
Paired == {r \in Runners : runner[r].paired = "yes"}

PairRunner(r) ==
  /\ IsNext(r, {x \in Runners : runner[x].paired # "no"})
  /\ r > 1 => May("pair")
  /\ runner' = [Revoked(Paired) EXCEPT ![r] = [paired |-> "yes", seen |-> FALSE]]
  /\ UNCHANGED <<mandate, job, revisions>>

RevokeRunner ==
  /\ May("revoke") /\ Paired # {}
  /\ runner' = Revoked(Paired)
  /\ UNCHANGED <<mandate, job, revisions>>

WithdrawMandates(s) ==
  [m \in Mandates |-> IF m \in s THEN [mandate[m] EXCEPT !.revoked = TRUE] ELSE mandate[m]]
Unrevoked == {m \in Mandates : mandate[m].made /\ ~mandate[m].revoked}

\* The service is read before the transaction: any active revision it ever had.
PrepareMandate(m, terms) ==
  /\ IsNext(m, {x \in Mandates : mandate[x].made})
  /\ m > 1 => May("sign")
  /\ terms > 0 => terms \in DOMAIN revisions /\ revisions[terms]
  /\ mandate' = [WithdrawMandates({x \in Unrevoked : ~mandate[x].approved})
                   EXCEPT ![m].made = TRUE, ![m].terms = terms]
  /\ UNCHANGED <<runner, job, revisions>>

ApproveMandate_Beside(m) ==   \* mutant: the mandate in force is not withdrawn
  /\ mandate[m].made /\ ~mandate[m].approved /\ ~mandate[m].revoked /\ mandate[m].live
  /\ mandate' = [mandate EXCEPT ![m].approved = TRUE]
  /\ UNCHANGED <<runner, job, revisions>>

ApproveMandate(m) ==
  /\ mandate[m].made /\ ~mandate[m].approved /\ ~mandate[m].revoked /\ mandate[m].live
  /\ mandate' = [WithdrawMandates({x \in Unrevoked : mandate[x].approved})
                   EXCEPT ![m].approved = TRUE]
  /\ UNCHANGED <<runner, job, revisions>>

\* Queued jobs are blocked; a running one keeps running until it asks for authority.
RevokeMandate ==
  /\ May("revoke") /\ Unrevoked # {}
  /\ mandate' = WithdrawMandates(Unrevoked)
  /\ job' = [i \in Jobs |-> IF job[i].status = "queued"
                              THEN [job[i] EXCEPT !.status = "blocked"] ELSE job[i]]
  /\ UNCHANGED <<runner, revisions>>

QueueRun_Last(i) ==   \* mutant: one run too many
  /\ IsNext(i, Created) /\ (i > 1 => May("queue"))
  /\ Online
  /\ \E m \in Mandates :
       /\ Current(m) /\ mandate[m].reserved <= MaxRuns[m] /\ Unchanged(m)
       /\ job' = [job EXCEPT ![i] =
                    [status |-> "queued", mandate |-> m, runner |-> None, result |-> None]]
       /\ mandate' = [mandate EXCEPT ![m].reserved = @ + 1]
  /\ UNCHANGED <<runner, revisions>>

\* The insertion and the reservation are one statement; a key that exists inserts
\* nothing and is answered with its job.
QueueRun(i) ==
  /\ IsNext(i, Created) /\ (i > 1 => May("queue"))
  /\ Online
  /\ \E m \in Mandates :
       /\ Current(m) /\ mandate[m].reserved < MaxRuns[m] /\ Unchanged(m)
       /\ job' = [job EXCEPT ![i] =
                    [status |-> "queued", mandate |-> m, runner |-> None, result |-> None]]
       /\ mandate' = [mandate EXCEPT ![m].reserved = @ + 1]
  /\ UNCHANGED <<runner, revisions>>

UpdateMarketService(active) ==
  /\ May("edit") /\ Len(revisions) < MaxRevisions
  /\ revisions' = Append(revisions, active)
  /\ UNCHANGED <<runner, mandate, job>>

-----------------------------------------------------------------------------
(* The runner's requests.  A credential that was revoked after it was      *)
(* authenticated finds that out in the transaction.                        *)

Active(r) == runner[r].paired = "yes"

Stale == {i \in Jobs : job[i].status = "queued" /\ (mandate[job[i].mandate].revoked
                                                     \/ ~mandate[job[i].mandate].live)}
Claimable(r) == {i \in Jobs \ Stale : Active(r) /\ job[i].status = "queued"
                                       /\ mandate[job[i].mandate].approved}
Oldest(s) == CHOOSE i \in s : \A j \in s : i <= j

ClaimJob(r) ==
  /\ runner' = IF Active(r) THEN [runner EXCEPT ![r].seen = TRUE] ELSE runner
  /\ job' = [i \in Jobs |->
       IF i \in Stale THEN [job[i] EXCEPT !.status = "blocked"]
       ELSE IF Claimable(r) # {} /\ i = Oldest(Claimable(r))
       THEN [job[i] EXCEPT !.status = "running", !.runner = r] ELSE job[i]]
  /\ UNCHANGED <<mandate, revisions>>

Authorized(r, i) ==
  /\ job[i].status = "running" /\ job[i].runner = r
  /\ Active(r) /\ Current(job[i].mandate) /\ Unchanged(job[i].mandate)

Classified_Late(run, proven) ==   \* mutant: a stop at the verification is negative
  IF run.status = "completed" THEN "succeeded"
  ELSE IF run.status = "awaiting_approval" THEN "blocked"
  ELSE IF run.stage = "verification" THEN "failed"
  ELSE IF run.uncertain \/ run.stage = "purchase" THEN "uncertain" ELSE "failed"

\* classifyRunnerStatus: a stop at a paid stage is uncertain unless both payments are
\* proven and the checks on file failed.
Classified(run, proven) ==
  IF run.status = "completed" THEN "succeeded"
  ELSE IF run.status = "awaiting_approval" THEN "blocked"
  ELSE IF run.uncertain THEN "uncertain"
  ELSE IF run.stage = "verification" /\ run.checked
          /\ proven /\ run.receipts = {"data", "verify"} THEN "failed"
  ELSE IF run.stage \in {"purchase", "verification"} THEN "uncertain"
  ELSE "failed"

\* validateRunnerResult: what a result claims belongs together.
Consistent(run) ==
  /\ "verify" \in run.receipts => "data" \in run.receipts
  /\ run.status = "completed" => run.receipts = {"data", "verify"} /\ run.checked

\* The receipts of a mandate that names a service are proven before the transaction.
\* A result on file is never replaced; the same one is accepted again.
SaveRunnerResult(r, i, run, proven) ==
  /\ Consistent(run) /\ job[i].runner = r
  /\ \/ /\ job[i].status = "running" /\ job[i].result = None /\ Active(r)
        /\ job' = [job EXCEPT ![i].status = Classified(run, proven), ![i].result = run]
     \/ job[i].result = run /\ UNCHANGED job
  /\ UNCHANGED <<runner, mandate, revisions>>

-----------------------------------------------------------------------------
(* Time.                                                                   *)

RunnerGoesQuiet(r) ==
  /\ May("quiet") /\ Active(r) /\ runner[r].seen
  /\ runner' = [runner EXCEPT ![r].seen = FALSE]
  /\ UNCHANGED <<mandate, job, revisions>>

MandateExpires(m) ==
  /\ May("expiry") /\ mandate[m].made /\ mandate[m].live
  /\ mandate' = [mandate EXCEPT ![m].live = FALSE]
  /\ UNCHANGED <<runner, job, revisions>>

JobsNext ==
  \/ \E r \in Runners : PairRunner(r) \/ RunnerGoesQuiet(r)
  \/ RevokeRunner \/ RevokeMandate
  \/ \E m \in Mandates : ApproveMandate(m) \/ MandateExpires(m)
                         \/ \E terms \in 0 .. Len(revisions) : PrepareMandate(m, terms)
  \/ \E i \in Jobs : QueueRun(i)
  \/ \E active \in BOOLEAN : UpdateMarketService(active)

JobsTypeOK ==
  /\ runner \in [Runners -> [paired : {"no", "yes", "revoked"}, seen : BOOLEAN]]
  /\ mandate \in [Mandates -> [made : BOOLEAN, approved : BOOLEAN, revoked : BOOLEAN,
                               live : BOOLEAN, terms : 0 .. MaxRevisions, reserved : Nat]]
  /\ job \in [Jobs -> [status : Statuses, mandate : Mandates \cup {None},
                       runner : Runners \cup {None}, result : Run \cup {None}]]
  /\ revisions \in Seq(BOOLEAN) /\ Len(revisions) \in 1 .. MaxRevisions

\* Whatever the owner's and the runner's requests interleave to, one mandate at most is
\* in force, so approveMandate never meets the index platform_one_active_mandate, and no
\* mandate has more jobs than its owner signed for (queueRun inserts and reserves in one
\* statement).
OneActiveMandate == \A m, n \in Mandates : Approved(m) /\ Approved(n) => m = n
RunsAreReserved ==
  \A m \in Mandates :
    /\ Cardinality({i \in Created : job[i].mandate = m}) = mandate[m].reserved
    /\ mandate[m].reserved <= MaxRuns[m]
=============================================================================
