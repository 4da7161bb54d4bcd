------------------------------- MODULE AgentRunner -------------------------------
(***************************************************************************)
(* The private research runner: services/agent-runner.ts with its journal, *)
(* its gateway and the run engine.  It claims a job, executes its stages   *)
(* through the broker, each after a fresh authorization, and uploads the   *)
(* result.  What a crash interrupts is never executed again.               *)
(***************************************************************************)
EXTENDS Broker

VARIABLES
  host,      \* the process: its credential, the job it executes and the run in memory
  hostLock,  \* runner.lock: free, held, or left by a crash
  disk,      \* journal.json
  stopping,  \* SIGTERM was received
  late       \* history: capabilities a job used after its authority was withdrawn

hostVars == <<host, hostLock, disk, stopping, late>>

createRun == [status |-> "running", stage |-> "mandate", receipts |-> {},
              checked |-> FALSE, uncertain |-> FALSE]
stopUncertain(run) == [run EXCEPT !.status = "failed", !.uncertain = TRUE]

HostInit ==
  /\ host = [at |-> "off", job |-> 1, runner |-> None, run |-> createRun]
  /\ hostLock = "free"
  /\ disk = [i \in Jobs |-> [state |-> "none", run |-> createRun]]
  /\ stopping = FALSE
  /\ late = [i \in Jobs |-> 0]

KindOf(stage) ==
  CASE stage = "purchase" -> "data" [] stage = "report" -> "report" [] OTHER -> "verify"
Kind == KindOf(host.run.stage)
PaidStages == {"purchase", "report", "verification"}

At(step) == host.at = step
Move(step) == host' = [host EXCEPT !.at = step]
Turns(state) == host' = [at |-> state, job |-> 1, runner |-> host.runner, run |-> createRun]
Polls == Turns("poll")

-----------------------------------------------------------------------------
(* The journal.                                                            *)

Open_AsLeft(r) ==   \* mutant: what was started is left to be reconciled
  /\ At("off") /\ hostLock = "free" /\ Active(r)
  /\ hostLock' = "held"
  /\ host' = [at |-> "poll", job |-> 1, runner |-> r, run |-> createRun]
  /\ UNCHANGED <<disk, jobVars, marketVars, brokerVars, stopping, late>>

\* The lock file is created exclusively.  What was started has been interrupted.
Open(r) ==
  /\ At("off") /\ hostLock = "free" /\ Active(r)
  /\ hostLock' = "held"
  /\ disk' = [i \in Jobs |-> IF disk[i].state = "started"
                THEN [state |-> "finished", run |-> stopUncertain(disk[i].run)] ELSE disk[i]]
  /\ host' = [at |-> "poll", job |-> 1, runner |-> r, run |-> createRun]
  /\ UNCHANGED <<jobVars, marketVars, brokerVars, stopping, late>>

Pending == {i \in Jobs : disk[i].state = "finished"}

\* verifyHostedSettlement: the receipts of a mandate that names a service are matched
\* with the settled purchase and the fulfilled order.
Provable(i, run) ==
  AtMarket(i) => /\ "data" \in run.receipts => i \in bought
                 /\ "verify" \in run.receipts => order[i].status = "fulfilled"

\* flushResults: the oldest finished result, before anything else is done.  Its answer
\* may be lost.
Upload ==
  LET i == Oldest(Pending)
  IN /\ At("poll") /\ Pending # {} /\ Provable(i, disk[i].run)
     /\ SaveRunnerResult(host.runner, i, disk[i].run, AtMarket(i))
     /\ \/ host' = [host EXCEPT !.at = "acknowledge", !.job = i]
        \/ May("lost") /\ UNCHANGED host
     /\ UNCHANGED <<marketVars, brokerVars, hostLock, disk, stopping, late>>

Acknowledge ==
  /\ At("acknowledge")
  /\ disk' = [disk EXCEPT ![host.job].state = "acknowledged"] /\ Polls
  /\ UNCHANGED <<jobVars, marketVars, brokerVars, hostLock, stopping, late>>

\* A healthy broker first.  A lost answer leaves a running job nobody executes.
Claim ==
  LET r == host.runner
  IN /\ At("poll") /\ Pending = {} /\ ~stopping /\ broker.at # "off"
     /\ ClaimJob(r)
     /\ IF Claimable(r) # {}
        THEN \/ host' = [host EXCEPT !.at = "claimed", !.job = Oldest(Claimable(r))]
             \/ May("lost") /\ UNCHANGED host
        ELSE UNCHANGED host
     /\ UNCHANGED <<marketVars, brokerVars, hostLock, disk, stopping, late>>

SameMandate(i) == {j \in Jobs : disk[j].state # "none" /\ job[j].mandate = job[i].mandate}

\* The signed mandate and its run count are checked again against the journal.
Start ==
  LET i == host.job
  IN /\ At("claimed")
     /\ IF disk[i].state = "none" /\ Live(i)
             /\ Cardinality(SameMandate(i)) < MaxRuns[job[i].mandate]
        THEN /\ disk' = [disk EXCEPT ![i] = [state |-> "started", run |-> createRun]]
             /\ host' = [host EXCEPT !.at = "advance", !.run = createRun]
        ELSE Polls /\ UNCHANGED disk
     /\ UNCHANGED <<jobVars, marketVars, brokerVars, hostLock, stopping, late>>

\* Every stage is saved; a run that is over is finished.
Checkpoint ==
  /\ At("checkpoint")
  /\ disk' = [disk EXCEPT ![host.job].run = host.run]
  /\ Move(IF host.run.status = "running" THEN "advance" ELSE "finish")
  /\ UNCHANGED <<jobVars, marketVars, brokerVars, hostLock, stopping, late>>

Finish ==
  /\ At("finish") \/ (At("advance") /\ stopping)
  /\ disk' = [disk EXCEPT ![host.job] =
       [state |-> "finished",
        run |-> IF At("finish") THEN host.run ELSE stopUncertain(host.run)]]
  /\ Polls
  /\ UNCHANGED <<jobVars, marketVars, brokerVars, hostLock, stopping, late>>

-----------------------------------------------------------------------------
(* advanceRun through the mandated gateway.                                *)

Stands(run) == host' = [host EXCEPT !.at = "checkpoint", !.run = run]
Fails(uncertain) == Stands([host.run EXCEPT !.status = "failed", !.uncertain = uncertain])
Reaches(stage) == Stands([host.run EXCEPT !.stage = stage])

\* Accepting the mandate and discovering providers cost nothing.
Discover ==
  /\ At("advance") /\ ~stopping /\ host.run.stage \in {"mandate", "discovery"}
  /\ \/ Live(host.job) /\ Reaches(IF host.run.stage = "mandate" THEN "discovery" ELSE "purchase")
     \/ (~Live(host.job) \/ May("provider")) /\ Fails(FALSE)
  /\ UNCHANGED <<jobVars, marketVars, brokerVars, hostLock, disk, stopping, late>>

\* The current quote exceeds the mandate: the runner never approves the increase.
AwaitApproval ==
  /\ At("advance") /\ ~stopping /\ host.run.stage = "purchase" /\ May("price")
  /\ Stands([host.run EXCEPT !.status = "awaiting_approval"])
  /\ UNCHANGED <<jobVars, marketVars, brokerVars, hostLock, disk, stopping, late>>

AskAuthority_Once ==   \* mutant: only the purchase is authorized
  /\ At("advance") /\ ~stopping /\ host.run.stage \in PaidStages
  /\ \/ (host.run.stage = "purchase" => Authorized(host.runner, host.job)) /\ Live(host.job)
        /\ Move("authorized")
     \/ (~Authorized(host.runner, host.job) \/ May("lost")) /\ Fails(FALSE)
  /\ UNCHANGED <<jobVars, marketVars, brokerVars, hostLock, disk, stopping, late>>

\* The platform is asked before each paid capability.
AskAuthority ==
  /\ At("advance") /\ ~stopping /\ host.run.stage \in PaidStages
  /\ \/ Authorized(host.runner, host.job) /\ Live(host.job) /\ Move("authorized")
     \/ (~Authorized(host.runner, host.job) \/ May("lost")) /\ Fails(FALSE)
  /\ UNCHANGED <<jobVars, marketVars, brokerVars, hostLock, disk, stopping, late>>

\* The scope and expiry are checked once more; the broker may refuse or be away.
Use ==
  LET i == host.job
  IN /\ At("authorized")
     /\ IF Live(i) /\ Acceptable(i, Kind)
        THEN /\ Enqueue(i, Kind) /\ Move("waiting")
             /\ late' = [late EXCEPT ![i] = IF Authorized(host.runner, i) THEN @ ELSE @ + 1]
        ELSE Fails(Live(i)) /\ UNCHANGED <<asked, late>>
     /\ UNCHANGED <<jobVars, marketVars, broker, brokerLock, intent, checkpoint, bought,
                    hostLock, disk, stopping>>

\* The broker's answer.  Checks that were paid for may have failed.
Receive ==
  LET run == host.run
      paid == [run EXCEPT !.receipts = @ \cup {Kind}]
  IN /\ At("waiting") /\ ~InProgress(host.job, Kind)
     /\ IF intent[host.job][Kind] # "settled" THEN Fails(TRUE)
        ELSE CASE Kind = "data" -> Stands([paid EXCEPT !.stage = "report"])
               [] Kind = "report" -> Reaches("verification")
               [] Kind = "verify" ->
                    \/ Stands([paid EXCEPT !.checked = TRUE, !.stage = "complete",
                                           !.status = "completed"])
                    \/ May("checks") /\ Stands([paid EXCEPT !.checked = TRUE,
                                                            !.status = "failed"])
     /\ UNCHANGED <<jobVars, marketVars, brokerVars, hostLock, disk, stopping, late>>

\* Five minutes passed, the answer was lost, or the process is told to stop.
GiveUp ==
  /\ At("waiting") /\ (stopping \/ May("lost"))
  /\ Fails(TRUE)
  /\ UNCHANGED <<jobVars, marketVars, brokerVars, hostLock, disk, stopping, late>>

-----------------------------------------------------------------------------
(* The process.                                                            *)

Signal ==
  /\ May("stop") /\ ~At("off") /\ ~stopping
  /\ stopping' = TRUE
  /\ UNCHANGED <<jobVars, marketVars, brokerVars, host, hostLock, disk, late>>

Close ==
  /\ At("poll") /\ stopping
  /\ hostLock' = "free" /\ stopping' = FALSE /\ Turns("off")
  /\ UNCHANGED <<jobVars, marketVars, brokerVars, disk, late>>

\* A hard crash, or a journal that cannot be written, leaves the lock.
Crash ==
  /\ May("crash") /\ ~At("off")
  /\ hostLock' = "left" /\ stopping' = FALSE
  /\ Turns("off")
  /\ UNCHANGED <<jobVars, marketVars, brokerVars, disk, late>>

ReconcileHost ==
  /\ May("reconcile") /\ hostLock = "left"
  /\ hostLock' = "free"
  /\ UNCHANGED <<jobVars, marketVars, brokerVars, host, disk, stopping, late>>

HostWork ==
  \/ \E r \in Runners : Open(r)
  \/ Upload \/ Acknowledge \/ Claim \/ Start \/ Checkpoint \/ Finish
  \/ Discover \/ AskAuthority \/ Use \/ Receive \/ Close

HostNext == HostWork \/ AwaitApproval \/ GiveUp \/ Signal \/ Crash \/ ReconcileHost

HostTypeOK ==
  /\ host \in [at : {"off", "poll", "acknowledge", "claimed", "advance", "authorized",
                     "waiting", "checkpoint", "finish"},
               job : Jobs, runner : Runners \cup {None}, run : Run]
  /\ hostLock \in {"free", "held", "left"}
  /\ disk \in [Jobs -> [state : {"none", "started", "finished", "acknowledged"}, run : Run]]
  /\ stopping \in BOOLEAN
  /\ late \in [Jobs -> Nat]

\* Revocation, expiry, a new pairing or an edited service stops a job at its next
\* capability: one capability at most, the one authorized just before, still starts.
LateIsOne == \A i \in Jobs : late[i] <= 1

\* What the platform shows of a job is true of its money, whatever crashed, timed out or
\* was repeated: success means both purchases are settled, a known negative or blocked
\* result leaves no payment in doubt, and a result is forgotten by the runner only when
\* the platform has exactly that result.
StatusIsTrue ==
  \A i \in Jobs :
    /\ job[i].status = "succeeded" =>
         /\ i \in bought /\ \A k \in Kinds : intent[i][k] = "settled"
         /\ AtMarket(i) => order[i].status = "fulfilled"
         /\ ~AtMarket(i) => transfer[i] \in {"mined", "late"}
    /\ job[i].status \in {"failed", "blocked"} =>
         \A k \in {"data", "verify"} : intent[i][k] # "pending" /\ ~InProgress(i, k)
    /\ disk[i].state = "acknowledged" => job[i].result = disk[i].run
=============================================================================
