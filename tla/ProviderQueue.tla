------------------------------ MODULE ProviderQueue ------------------------------
(***************************************************************************)
(* The reference seller: economy/provider-queue.ts on the platform and     *)
(* services/economy-provider.ts on a private host, with the signed         *)
(* transactions of scripts/economy-eoa.ts.  The queue's statements are     *)
(* atomic; the worker's requests are lost, answered in vain or arrive      *)
(* after it gave up waiting, and it dies between any two of its steps.     *)
(***************************************************************************)
EXTENDS Scenario, Naturals, FiniteSets

CONSTANTS
  MaxOrders,   \* paid orders of the seller's services, numbered as their files are listed
  Catalogues,  \* the possible categories of the orders' services
  MaxWork      \* bound: executions of one order's work; then the operator reopens none

Orders == 1 .. MaxOrders

\* Reading work (data, compute, verification) may be repeated by the operator.
Categories == {"read", "inference", "storage"}

ASSUME ProviderQueueAssumption ==
  /\ MaxOrders \in Nat \ {0} /\ MaxWork \in Nat \ {0}
  /\ Catalogues \subseteq [Orders -> Categories]

VARIABLES
  category,   \* the category of each order's service
  job,        \* economy_provider_jobs
  file,       \* the worker's file of an order
  claimFile,  \* claim.json: the id of a claim whose answer was not filed
  worker,     \* the process
  signed,     \* transactions/delivery-<order>: the output its signed attestation names
  attested,   \* the output attested on the ledger
  worked,     \* executions of an order's work, the number of one stands for its output
  delayed     \* a request the worker no longer waits for and the platform has not seen

scenario == <<wanted, calm, category>>
queueVars == <<job, file, claimFile, worker, signed, attested, worked, delayed>>

\* A claim id is a UUID: one that nothing names any more is as good as a new one.
ClaimIds == 1 .. MaxOrders + 2
Least(s) == CHOOSE o \in s : \A p \in s : o <= p
States == {"none", "queued", "running", "completed", "failed"}
Stages == {"none", "claimed", "executing", "output", "completed", "failed"}

QueueInit ==
  /\ ScenarioInit /\ category \in Catalogues
  /\ job = [o \in Orders |-> [state |-> "none", claim |-> 0, output |-> 0, over |-> FALSE]]
  /\ file = [o \in Orders |-> [stage |-> "none", claim |-> 0, output |-> 0, sent |-> FALSE]]
  /\ claimFile = 0
  /\ worker = [at |-> "off", order |-> 1]
  /\ signed = [o \in Orders |-> 0] /\ attested = signed /\ worked = signed
  /\ delayed = {}

-----------------------------------------------------------------------------
(* The platform's side.                                                    *)

\* queuePaidProviderWork: the first request queues the job.
QueuePaidWork(o) ==
  job' = [job EXCEPT ![o].state = IF @ = "none" THEN "queued" ELSE @]

Holding(id) == {o \in Orders : job[o].claim = id}
Queued == {o \in Orders : job[o].state = "queued"}

\* providerWorkAction, claim: the id's own job first, else a queued one (the oldest that no
\* other transaction holds, here any).  The hour of a storage service starts with it.
Claimed(id, o) ==
  IF Holding(id) # {} THEN o \in Holding(id) /\ UNCHANGED job
  ELSE o \in Queued /\ job' = [job EXCEPT ![o].state = "running", ![o].claim = id]
NothingToClaim(id) == Holding(id) = {} /\ Queued = {} /\ UNCHANGED job

\* failed: only a running job fails.
Failed(o, id) ==
  job' = IF job[o].claim = id /\ job[o].state = "running"
         THEN [job EXCEPT ![o].state = "failed"] ELSE job

\* complete: a completed job accepts the same output again; a storage service is not
\* completed after its hour; the attestation is on the ledger.
\* Mutant: a completed job accepts no output.
Same_Never(o) == FALSE

Same(o) == job[o].state = "completed" /\ job[o].output = file[o].output
Over(o) == category[o] = "storage" /\ job[o].over
Expired(o) == job[o].state # "completed" /\ Over(o)
Completable(o) == job[o].state = "running" /\ ~Expired(o) /\ attested[o] = file[o].output
Completed(o) ==
  job' = IF Completable(o)
         THEN [job EXCEPT ![o].state = "completed", ![o].output = file[o].output] ELSE job

\* retry-read: failed reading work without an output is reopened, once more at most.
Reopenable(o) ==
  category[o] = "read" /\ job[o].state \in {"failed", "running"} /\ job[o].output = 0
Reopened(o) == job' = [job EXCEPT ![o].state = "running"]

StorageHourEnds(o) ==
  /\ May("hour") /\ category[o] = "storage" /\ job[o].claim # 0 /\ ~job[o].over
  /\ job' = [job EXCEPT ![o].over = TRUE]
  /\ UNCHANGED <<file, claimFile, worker, signed, attested, worked, delayed>>

-----------------------------------------------------------------------------
(* The worker.                                                             *)

At(step) == worker.at = step
Goto(step) == worker' = [worker EXCEPT !.at = step]
Turn(step, o) == worker' = [at |-> step, order |-> o]
\* Every exception ends the cycle; the next one starts over.
NextCycle == Turn("scan", 1)
Save(o, stage) == file' = [file EXCEPT ![o].stage = stage]

Unfinished == {o \in Orders : file[o].stage \notin {"none", "completed", "failed"}}

\* A request is lost, or overtaken by the end of the worker's patience (one at a time).
RequestFails(request, late) ==
  /\ \/ May("lost") /\ UNCHANGED delayed
     \/ May(late) /\ delayed = {} /\ delayed' = {request}
  /\ NextCycle /\ UNCHANGED <<job, file, claimFile>>

\* The process lock of a dead worker is recovered (ProcessLock).
Start ==
  /\ At("off") /\ NextCycle
  /\ UNCHANGED <<job, file, claimFile, signed, attested, worked, delayed>>

\* --retry-read of a worker that is stopped.
StartAgain(o) ==
  /\ At("off") /\ May("retry-read") /\ worked[o] < MaxWork
  /\ file[o].stage = "failed" /\ category[o] = "read"
  /\ file[o].output = 0 /\ ~file[o].sent
  /\ Turn("reopen", o)
  /\ UNCHANGED <<job, file, claimFile, signed, attested, worked, delayed>>

Reopen ==
  LET o == worker.order
  IN /\ At("reopen") /\ Reopenable(o)
     /\ \/ Reopened(o) /\ Goto("reopened")
        \/ May("lost") /\ (Reopened(o) \/ UNCHANGED job) /\ Turn("off", 1)
     /\ UNCHANGED <<file, claimFile, signed, attested, worked, delayed>>

SaveReopened ==
  /\ At("reopened")
  /\ Save(worker.order, "claimed") /\ NextCycle
  /\ UNCHANGED <<job, claimFile, signed, attested, worked, delayed>>

\* Mutant: interrupted work is done again.
TakeUp_Again ==
  LET o == Least(Unfinished)
  IN /\ At("scan") /\ Unfinished # {}
     /\ IF file[o].stage \in {"claimed", "executing"}
        THEN worked[o] < MaxWork /\ Turn("work", o) /\ Save(o, "executing")
        ELSE Turn("output", o) /\ UNCHANGED file
     /\ UNCHANGED <<job, claimFile, signed, attested, worked, delayed>>

\* Files are taken up in the order of their names.  Work that was interrupted may have
\* been charged: it is reported as failed, not repeated.
TakeUp ==
  LET o == Least(Unfinished)
  IN /\ At("scan") /\ Unfinished # {}
     /\ CASE file[o].stage = "executing" -> Turn("tell", o) /\ UNCHANGED file
          [] file[o].stage = "claimed" -> Turn("work", o) /\ Save(o, "executing")
          [] OTHER -> Turn("output", o) /\ UNCHANGED file
     /\ UNCHANGED <<job, claimFile, signed, attested, worked, delayed>>

\* executeProviderWork: the source, the model or the hour may fail it.
Work ==
  LET o == worker.order
  IN /\ At("work")
     /\ \/ /\ ~Over(o)
           /\ worked' = [worked EXCEPT ![o] = @ + 1] /\ Goto("worked")
        \/ (Over(o) \/ May("failure")) /\ Goto("tell") /\ UNCHANGED worked
        \/ May("failure") /\ category[o] # "storage"
           /\ worked' = [worked EXCEPT ![o] = @ + 1] /\ Goto("tell")
     /\ UNCHANGED <<job, file, claimFile, signed, attested, delayed>>

SaveOutput ==
  LET o == worker.order
  IN /\ At("worked")
     /\ file' = [file EXCEPT ![o].stage = "output", ![o].output = worked[o]]
     /\ Goto("output")
     /\ UNCHANGED <<job, claimFile, signed, attested, worked, delayed>>

\* Mutant: an expired storage service fails although its completion may have been sent.
Attest_Late ==
  LET o == worker.order
  IN /\ At("output")
     /\ IF Over(o)
        THEN Goto("tell") /\ UNCHANGED <<signed, file>>
        ELSE /\ signed' = [signed EXCEPT ![o] = IF @ = 0 THEN file[o].output ELSE @]
             /\ IF attested[o] = file[o].output
                THEN Goto("complete") /\ file' = [file EXCEPT ![o].sent = TRUE]
                ELSE NextCycle /\ UNCHANGED file
     /\ UNCHANGED <<job, claimFile, attested, worked, delayed>>

\* Storage that expired before it was attested has failed.  Otherwise the attestation
\* is signed once, its bytes kept and sent until the ledger has it.
Attest ==
  LET o == worker.order
  IN /\ At("output")
     /\ IF Over(o) /\ ~file[o].sent
        THEN Goto("tell") /\ UNCHANGED <<signed, file>>
        ELSE /\ signed' = [signed EXCEPT ![o] = IF @ = 0 THEN file[o].output ELSE @]
             /\ IF attested[o] = file[o].output
                THEN Goto("complete") /\ file' = [file EXCEPT ![o].sent = TRUE]
                ELSE NextCycle /\ UNCHANGED file
     /\ UNCHANGED <<job, claimFile, attested, worked, delayed>>

\* A job that is in another state is a conflict, in this cycle and in every later one.
Complete ==
  LET o == worker.order
  IN /\ At("complete")
     /\ \/ /\ Completed(o)
           /\ \/ IF Same(o) \/ Completable(o) THEN Goto("completed")
                 ELSE IF Expired(o) THEN Goto("tell") ELSE NextCycle
              \/ May("lost") /\ NextCycle
           /\ UNCHANGED <<file, claimFile, delayed>>
        \/ RequestFails(<<"complete", o, file[o].claim>>, "late complete")
     /\ UNCHANGED <<signed, attested, worked>>

Tell ==
  LET o == worker.order
  IN /\ At("tell")
     /\ \/ /\ Failed(o, file[o].claim)
           /\ Goto("told") \/ (May("lost") /\ NextCycle)
           /\ UNCHANGED <<file, claimFile, delayed>>
        \/ RequestFails(<<"failed", o, file[o].claim>>, "late failed")
     /\ UNCHANGED <<signed, attested, worked>>

Conclude ==
  /\ At("completed") \/ At("told")
  /\ Save(worker.order, IF At("told") THEN "failed" ELSE "completed") /\ NextCycle
  /\ UNCHANGED <<job, claimFile, signed, attested, worked, delayed>>

\* The id is on disk before it is sent, and stays until its answer is filed.
MakeClaim ==
  /\ At("scan") /\ Unfinished = {}
  /\ claimFile' = IF claimFile # 0 THEN claimFile
                  ELSE Least(ClaimIds \ ({job[o].claim : o \in Orders}
                                          \cup {request[3] : request \in delayed}))
  /\ Goto("claim")
  /\ UNCHANGED <<job, file, signed, attested, worked, delayed>>

\* Mutant: claim.json is removed before the order's file is saved.
Claim_Unlinked ==
  /\ At("claim")
  /\ \/ \E o \in Orders : Claimed(claimFile, o) /\ Turn("claimed", o)
     \/ NothingToClaim(claimFile) /\ Goto("unlink")
  /\ claimFile' = 0
  /\ UNCHANGED <<file, signed, attested, worked, delayed>>

Claim ==
  /\ At("claim")
  /\ \/ /\ \/ \E o \in Orders : Claimed(claimFile, o) /\ Turn("claimed", o)
           \/ NothingToClaim(claimFile) /\ Goto("unlink")
           \/ /\ May("lost") /\ NextCycle
              /\ (\E o \in Orders : Claimed(claimFile, o)) \/ NothingToClaim(claimFile)
        /\ UNCHANGED <<file, claimFile, delayed>>
     \/ RequestFails(<<"claim", 1, claimFile>>, "late claim")
  /\ UNCHANGED <<signed, attested, worked>>

FileClaim ==
  LET o == worker.order
  IN /\ At("claimed")
     /\ file' = IF file[o].stage # "none" THEN file
                ELSE [file EXCEPT ![o].stage = "claimed", ![o].claim = claimFile]
     /\ Goto("unlink")
     /\ UNCHANGED <<job, claimFile, signed, attested, worked, delayed>>

Unlink ==
  /\ At("unlink")
  /\ claimFile' = 0 /\ NextCycle
  /\ UNCHANGED <<job, file, signed, attested, worked, delayed>>

Crash ==
  /\ May("crash") /\ ~At("off")
  /\ Turn("off", 1)
  /\ UNCHANGED <<job, file, claimFile, signed, attested, worked, delayed>>

\* The ledger accepts the seller's signed attestation.
Mine(o) ==
  /\ signed[o] # 0 /\ attested[o] = 0
  /\ attested' = [attested EXCEPT ![o] = signed[o]]
  /\ UNCHANGED <<job, file, claimFile, worker, signed, worked, delayed>>

\* A delayed request is served all the same; nobody reads the answer.
Arrive(request) ==
  /\ delayed' = delayed \ {request}
  /\ CASE request[1] = "claim" ->
            (\E o \in Orders : Claimed(request[3], o)) \/ NothingToClaim(request[3])
       [] request[1] = "failed" -> Failed(request[2], request[3])
       [] request[1] = "complete" -> Completed(request[2])
  /\ UNCHANGED <<file, claimFile, worker, signed, attested, worked>>

WorkerWork ==
  \/ Start \/ Reopen \/ SaveReopened \/ TakeUp \/ Work \/ SaveOutput \/ Attest \/ Complete
  \/ Tell \/ Conclude \/ MakeClaim \/ Claim \/ FileClaim \/ Unlink

QueueNext ==
  \/ WorkerWork \/ Crash
  \/ \E o \in Orders : StorageHourEnds(o) \/ StartAgain(o) \/ Mine(o)
  \/ \E request \in delayed : Arrive(request)

QueueTypeOK ==
  /\ category \in [Orders -> Categories]
  /\ job \in [Orders -> [state : States, claim : {0} \cup ClaimIds, output : 0 .. MaxWork,
                         over : BOOLEAN]]
  /\ file \in [Orders -> [stage : Stages, claim : {0} \cup ClaimIds, output : 0 .. MaxWork,
                          sent : BOOLEAN]]
  /\ claimFile \in {0} \cup ClaimIds
  /\ worker \in [at : {"off", "reopen", "reopened", "scan", "work", "worked", "output",
                       "complete", "completed", "tell", "told", "claim", "claimed", "unlink"},
                 order : Orders]
  /\ {signed, attested, worked} \subseteq [Orders -> 0 .. MaxWork]
  /\ delayed \subseteq {"claim", "failed", "complete"} \X Orders \X ClaimIds

\* A running job nobody works on: the worker has neither its file nor its claim id.
Orphaned(o) ==
  job[o].state = "running" /\ file[o].stage = "none" /\ job[o].claim # claimFile

\* Whatever answer to a claim was lost, the same id finds the job again (docs/economy/
\* live-provider.md: "Stable claim IDs recover lost claim responses").
ClaimsAreRecovered == \A o \in Orders : ~Orphaned(o)
=============================================================================
