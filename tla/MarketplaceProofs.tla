--------------------------- MODULE MarketplaceProofs ---------------------------
(***************************************************************************)
(* Proofs about Marketplace, for any number of orders, any catalogues, any *)
(* histories of settled orders and any set of events: WorkIsTrue and       *)
(* BooksAreTrue are invariants.                                            *)
(***************************************************************************)
EXTENDS Marketplace, SumTheorems

-----------------------------------------------------------------------------
(* The delivery of paid orders.                                            *)

Jobs == [state : States, claim : {0} \cup ClaimIds, output : 0 .. MaxWork, over : BOOLEAN]
Files == [stage : Stages, claim : {0} \cup ClaimIds, output : 0 .. MaxWork, sent : BOOLEAN]
Programs == [at : {"off", "reopen", "reopened", "scan", "work", "worked", "output",
                   "complete", "completed", "tell", "told", "claim", "claimed", "unlink"},
             order : Orders]
Requests == {"claim", "failed", "complete"} \X Orders \X ClaimIds
Orderings == [state : {"none", "paid", "delivering", "fulfilled"},
              token : {0} \cup Attempts, leased : BOOLEAN, output : 0 .. MaxWork]
Asking == [at : {"none", "asking", "answered", "refused"}, output : 0 .. MaxWork]

\* TypeOK, set by set.
Types ==
  /\ category \in [Orders -> Categories]
  /\ job \in [Orders -> Jobs]
  /\ file \in [Orders -> Files]
  /\ claimFile \in {0} \cup ClaimIds
  /\ worker \in Programs
  /\ signed \in [Orders -> 0 .. MaxWork]
  /\ attested \in [Orders -> 0 .. MaxWork]
  /\ worked \in [Orders -> 0 .. MaxWork]
  /\ delayed \in SUBSET Requests
  /\ order \in [Orders -> Orderings]
  /\ attempt \in [Orders -> [Attempts -> Asking]]

\* A job has a claim id from the moment it runs, and no other job has it; the order's file
\* names the same.
Ids ==
  /\ \A o \in Orders :
       /\ job[o].claim = 0 <=> job[o].state \in {"none", "queued"}
       /\ file[o].stage # "none" => file[o].claim = job[o].claim /\ job[o].claim # 0
       /\ file[o].stage = "none" => job[o].state \in {"none", "queued", "running"}
  /\ \A o, p \in Orders : job[o].claim = job[p].claim /\ job[o].claim # 0 => o = p

\* A claim is under way only with its id on disk.
OnDisk ==
  /\ At("claim") => claimFile # 0
  /\ At("claimed") => claimFile # 0 /\ job[worker.order].claim = claimFile

\* What a delayed request says was true when it was sent, and there is one at most.
Sent ==
  /\ \A d \in delayed : d[1] # "claim" => file[d[2]].stage # "none" /\ job[d[2]].claim = d[3]
  /\ \A d \in delayed : d[1] = "complete" => file[d[2]].sent
  /\ \A d, e \in delayed : d = e

\* Without a late claim, a job that has no file has its id on disk, until the file is
\* there.
Recovered ==
  "late claim" \notin wanted =>
    /\ \A d \in delayed : d[1] # "claim"
    /\ \A o \in Orders : job[o].claim # 0 /\ file[o].stage = "none" => job[o].claim = claimFile
    /\ At("unlink") =>
         \A o \in Orders : job[o].claim = claimFile /\ claimFile # 0 => file[o].stage # "none"

\* An order that has failed at its seller can no longer be completed: no completion was
\* sent, or the hour is over.
Doomed(o) == job[o].state # "completed" /\ (file[o].sent => Over(o))

\* An output is one and the same in file, signature, ledger and job.
Outputs(o) ==
  /\ file[o].stage \in {"none", "claimed", "executing"} => file[o].output = 0
  /\ file[o].stage \in {"output", "completed"} => file[o].output # 0
  /\ signed[o] \in {0, file[o].output}
  /\ attested[o] \in {0, signed[o]}
  /\ file[o].sent => file[o].output # 0 /\ attested[o] = file[o].output
  /\ job[o].state = "completed" => job[o].output = file[o].output /\ file[o].sent
  /\ job[o].state # "completed" => job[o].output = 0
  /\ file[o].stage = "completed" => job[o].state = "completed"
  /\ file[o].stage = "failed" => Doomed(o)

\* Work that is not reading is done once.
Charged(o) ==
  /\ category[o] # "read" => worked[o] <= 1
  /\ file[o].stage = "none" => worked[o] = 0
  /\ file[o].stage = "claimed" => worked[o] < MaxWork /\ (category[o] # "read" => worked[o] = 0)

\* What each place in the worker's cycle knows of the order at hand.
Cycle ==
  LET o == worker.order IN
  /\ At("work") => /\ file[o].stage = "executing" /\ worked[o] < MaxWork
                   /\ category[o] # "read" => worked[o] = 0
  /\ At("worked") => file[o].stage = "executing" /\ worked[o] # 0
  /\ At("output") => file[o].stage = "output"
  /\ At("complete") => file[o].stage = "output" /\ file[o].sent
  /\ At("completed") => file[o].stage = "output" /\ job[o].state = "completed"
  /\ At("tell") \/ At("told") => file[o].stage \in {"executing", "output"} /\ Doomed(o)
  /\ At("reopen") \/ At("reopened") =>
       /\ file[o].stage = "failed" /\ file[o].output = 0 /\ ~file[o].sent
       /\ category[o] = "read" /\ worked[o] < MaxWork

\* What an attempt was answered, and what the buyer was given, is the job's output.
Given(o) ==
  /\ (order[o].state = "fulfilled") = (order[o].output # 0)
  /\ order[o].state = "fulfilled" =>
       order[o].token = 0 /\ job[o].state = "completed" /\ order[o].output = job[o].output
  /\ \A k \in Attempts : attempt[o][k].at = "answered" =>
       job[o].state = "completed" /\ attempt[o][k].output = job[o].output

IInv ==
  /\ Types /\ Ids /\ OnDisk /\ Sent /\ Recovered /\ Cycle
  /\ \A o \in Orders : Outputs(o) /\ Charged(o) /\ Given(o)

-----------------------------------------------------------------------------
\* A set of orders that is not empty has a first one.
LEMMA LeastIsMember ==
  ASSUME NEW S \in SUBSET Nat, S # {}
  PROVE  Least(S) \in S
<1> DEFINE R == {ss \in Nat \X Nat : ss[1] < ss[2]}
<1>1. IsWellFoundedOn(R, Nat)
  BY NatLessThanWellFounded DEF OpToRel
<1>2. \E x \in S : \A y \in S : ~ (<<y, x>> \in R)
  <2> HIDE DEF R
  <2> QED BY <1>1, WFMin
<1>3. \E x \in S : \A y \in S : x <= y
  <2>1. PICK x \in S : \A y \in S : ~ (<<y, x>> \in R)
    BY <1>2
  <2>2. ASSUME NEW y \in S PROVE x <= y
    <3>1. x \in Nat /\ y \in Nat /\ <<y, x>> \in Nat \X Nat
      OBVIOUS
    <3>2. ~ (y < x)
      BY <2>1, <3>1
    <3>3. QED
      BY <3>1, <3>2
  <2>3. QED
    BY <2>2
<1>4. QED
  BY <1>3 DEF Least

\* There are more ids than jobs and a delayed request can name.
LEMMA FreshClaimId ==
  ASSUME NEW f \in [Orders -> Nat], NEW ids, \A x, y \in ids : x = y,
         MaxOrders \in Nat
  PROVE  ClaimIds \ ({f[o] : o \in Orders} \cup ids) # {}
<1> DEFINE used == {f[o] : o \in Orders}
<1>1. IsFiniteSet(Orders) /\ Cardinality(Orders) = MaxOrders
  BY FS_Interval DEF Orders
<1>2. IsFiniteSet(used) /\ Cardinality(used) <= MaxOrders /\ Cardinality(used) \in Nat
  <2>1. f \in Surjection(Orders, used)
    BY DEF Surjection
  <2>2. QED
    BY <1>1, <2>1, FS_Surjection, FS_CardinalityType
<1>3. IsFiniteSet(ids) /\ Cardinality(ids) \in Nat /\ Cardinality(ids) <= 1
  <2>1. CASE ids = {}
    BY <2>1, FS_EmptySet
  <2>2. CASE ids # {}
    <3>1. PICK x : x \in ids
      BY <2>2
    <3>2. ids = {x}
      BY <3>1
    <3>3. IsFiniteSet({x}) /\ Cardinality({x}) = 1
      BY FS_Singleton
    <3>4. QED
      BY <3>2, <3>3
  <2>3. QED
    BY <2>1, <2>2
<1>4. /\ IsFiniteSet(used \cup ids) /\ Cardinality(used \cup ids) \in Nat
      /\ Cardinality(used \cup ids) <= MaxOrders + 1
  <2>1. IsFiniteSet(used \cap ids) /\ Cardinality(used \cap ids) \in Nat
    BY <1>2, FS_Intersection, FS_CardinalityType
  <2>2. /\ IsFiniteSet(used \cup ids)
        /\ Cardinality(used \cup ids) = Cardinality(used) + Cardinality(ids) - Cardinality(used \cap ids)
    BY <1>2, <1>3, FS_Union
  <2>3. QED
    BY <1>2, <1>3, <2>1, <2>2, FS_CardinalityType
<1>5. IsFiniteSet(ClaimIds) /\ Cardinality(ClaimIds) = MaxOrders + 2
  BY FS_Interval DEF ClaimIds
<1>6. ASSUME ClaimIds \subseteq used \cup ids PROVE FALSE
  <2>1. Cardinality(ClaimIds) <= Cardinality(used \cup ids)
    BY <1>4, <1>6, FS_Subset
  <2>2. QED
    BY <1>4, <1>5, <2>1
<1>7. QED
  BY <1>6

-----------------------------------------------------------------------------
(* What the platform does to a job.                                        *)

\* A job keeps its claim, its output, its end and its hour; and it is completed only with
\* the attested output, which was sent.
Kept(p) ==
  /\ job'[p].claim = job[p].claim
  /\ job[p].over => job'[p].over
  /\ job'[p].state \in {"none", "queued"} <=> job[p].state \in {"none", "queued"}
  /\ \/ job'[p].state = job[p].state /\ job'[p].output = job[p].output
     \/ /\ job[p].state # "completed" /\ job'[p].output = job[p].output
        /\ job'[p].state \in {"queued", "running", "failed"}
        /\ job'[p].state = "failed" => file[p].stage # "none"
     \/ job'[p].state = "completed" /\ job'[p].output = file[p].output
        /\ file[p].sent /\ Completable(p)

Keeping == job' \in [Orders -> Jobs] /\ \A p \in Orders : Kept(p)

LEMMA NothingKeeps ==
  ASSUME Types, UNCHANGED job PROVE Keeping
BY DEF Types, Keeping, Kept

LEMMA FailedKeeps ==
  ASSUME IInv, NEW o \in Orders, NEW id, file[o].stage # "none", Failed(o, id)
  PROVE  Keeping
<1>1. CASE UNCHANGED job
  BY <1>1, NothingKeeps DEF IInv
<1>2. CASE job' = [job EXCEPT ![o].state = "failed"] /\ job[o].state = "running"
  BY <1>2 DEF IInv, Types, Jobs, States, Keeping, Kept
<1>3. QED
  BY <1>1, <1>2 DEF Failed

LEMMA CompletedKeeps ==
  ASSUME IInv, NEW o \in Orders, file[o].sent, Completed(o)
  PROVE  Keeping
<1>1. CASE UNCHANGED job
  BY <1>1, NothingKeeps DEF IInv
<1>2. CASE Completable(o) /\ job' = [job EXCEPT ![o].state = "completed", ![o].output = file[o].output]
  <2>1. ASSUME NEW p \in Orders PROVE Kept(p)
    BY <1>2, <2>1 DEF IInv, Types, Jobs, Files, Kept, Completable
  <2>2. [job[o] EXCEPT !.state = "completed", !.output = file[o].output] \in Jobs
    <3>1. job[o] \in Jobs /\ file[o].output \in 0 .. MaxWork
      BY DEF IInv, Types, Files
    <3>2. QED
      BY <3>1 DEF Jobs, States
  <2>3. job' \in [Orders -> Jobs]
    BY <1>2, <2>2 DEF IInv, Types
  <2>4. QED
    BY <2>1, <2>3 DEF Keeping
<1>3. QED
  BY <1>1, <1>2 DEF Completed

LEMMA ReopenedKeeps ==
  ASSUME IInv, NEW o \in Orders, Reopenable(o), Reopened(o)
  PROVE  Keeping
BY DEF IInv, Types, Jobs, States, Keeping, Kept, Reopenable, Reopened

LEMMA QueueKeeps ==
  ASSUME IInv, NEW o \in Orders, QueuePaidWork(o)
  PROVE  Keeping
BY DEF IInv, Types, Jobs, States, Keeping, Kept, QueuePaidWork

\* While files and the ledger stay, what was true of ids, requests and outputs stays true.
LEMMA KeepingSound ==
  ASSUME IInv, Keeping,
         UNCHANGED <<category, file, signed, attested, worked>>
  PROVE  /\ Ids'
         /\ \A p \in Orders : Outputs(p)' /\ Charged(p)'
         /\ \A p \in Orders : Doomed(p) => Doomed(p)'
<1>1. Ids'
  <2>1. ASSUME NEW p \in Orders, file[p].stage = "none" PROVE ~file[p].sent
    BY <2>1 DEF IInv, Outputs
  <2>2. ASSUME NEW p \in Orders, file[p].stage = "none", ~file[p].sent
        PROVE  job'[p].state \in {"none", "queued", "running"}
    BY <2>2 DEF IInv, Ids, Keeping, Kept
  <2>3. \A p \in Orders : job'[p].claim = job[p].claim
    BY DEF Keeping, Kept
  <2>4. ASSUME NEW p \in Orders
        PROVE  /\ job'[p].claim = 0 <=> job'[p].state \in {"none", "queued"}
               /\ file'[p].stage # "none" => file'[p].claim = job'[p].claim /\ job'[p].claim # 0
    BY DEF IInv, Ids, Keeping, Kept
  <2>5. \A o, p \in Orders : job'[o].claim = job'[p].claim /\ job'[o].claim # 0 => o = p
    BY <2>3 DEF IInv, Ids
  <2>6. QED
    BY <2>1, <2>2, <2>4, <2>5 DEF Ids
<1>2. ASSUME NEW p \in Orders, Doomed(p), file[p].sent PROVE ~Completable(p)
  BY <1>2 DEF Doomed, Completable, Expired
<1>3. ASSUME NEW p \in Orders, Doomed(p) PROVE Doomed(p)'
  BY <1>2, <1>3 DEF IInv, Types, Jobs, Keeping, Kept, Doomed, Over
<1>4. ASSUME NEW p \in Orders PROVE Charged(p)'
  BY DEF IInv, Charged
<1>5. ASSUME NEW p \in Orders PROVE Outputs(p)'
  BY <1>3 DEF IInv, Outputs, Keeping, Kept
<1>6. QED
  BY <1>1, <1>3, <1>4, <1>5

LEMMA KeepingGiven ==
  ASSUME IInv, Keeping, UNCHANGED <<order, attempt>>
  PROVE  \A p \in Orders : Given(p)'
BY DEF IInv, Given, Keeping, Kept, Completable

LEMMA KeepingSent ==
  ASSUME IInv, Keeping, UNCHANGED file, delayed' \subseteq delayed
  PROVE  Sent'
BY DEF IInv, Types, Requests, Sent, Keeping, Kept

\* Claims stay recoverable while no file vanishes and no late claim is sent.
LEMMA StaysRecovered ==
  ASSUME IInv, UNCHANGED <<wanted, claimFile>>, worker'.at # "unlink",
         \A p \in Orders : /\ job'[p].claim = job[p].claim
                           /\ file'[p].stage = "none" => file[p].stage = "none",
         \A d \in delayed' : d \in delayed \/ d[1] # "claim" \/ "late claim" \in wanted
  PROVE  Recovered'
BY DEF IInv, Recovered, At

-----------------------------------------------------------------------------
(* The worker's steps.                                                     *)

Alone == UNCHANGED <<scenario, order, attempt>>

\* Where only the worker moves, the invariant asks what it knows there.
LEMMA MovesSound ==
  ASSUME IInv, Alone, UNCHANGED <<job, file, claimFile, signed, attested, worked, delayed>>,
         worker' \in Programs, OnDisk', Cycle', worker'.at # "unlink"
  PROVE  IInv'
<1>1. Types' /\ Ids' /\ Sent'
  BY DEF IInv, Types, Ids, Sent, Alone, scenario
<1>2. Recovered'
  BY StaysRecovered DEF Alone, scenario
<1>3. ASSUME NEW p \in Orders PROVE Outputs(p)' /\ Charged(p)' /\ Given(p)'
  BY DEF IInv, Outputs, Charged, Given, Doomed, Over, Alone, scenario
<1>4. QED
  BY <1>1, <1>2, <1>3 DEF IInv

LEMMA StartSound ==
  ASSUME IInv, Alone, Start \/ Crash
  PROVE  IInv'
<1>1. /\ worker' \in Programs /\ worker'.at \in {"scan", "off"}
      /\ UNCHANGED <<job, file, claimFile, signed, attested, worked, delayed>>
  BY ProviderQueueAssumption DEF IInv, Types, Programs, Orders, Start, Crash, NextCycle, Turn
<1>2. OnDisk' /\ Cycle'
  BY <1>1 DEF OnDisk, Cycle, At
<1>3. QED
  BY <1>1, <1>2, MovesSound

LEMMA StartAgainSound ==
  ASSUME IInv, Alone, NEW o \in Orders, StartAgain(o)
  PROVE  IInv'
<1>1. /\ worker' = [at |-> "reopen", order |-> o]
      /\ UNCHANGED <<job, file, claimFile, signed, attested, worked, delayed, category>>
  BY DEF StartAgain, Turn, Alone, scenario
<1>2. OnDisk' /\ Cycle' /\ worker' \in Programs
  BY <1>1 DEF OnDisk, Cycle, At, Programs, StartAgain
<1>3. QED
  BY <1>1, <1>2, MovesSound

LEMMA ReopenSound ==
  ASSUME IInv, Alone, Reopen
  PROVE  IInv'
<1>1. worker.order \in Orders
  BY DEF IInv, Types, Programs
<1>2. Keeping
  BY <1>1, ReopenedKeeps, NothingKeeps DEF IInv, Reopen
<1>3. /\ worker' \in Programs
      /\ worker' = [worker EXCEPT !.at = "reopened"] \/ worker' = [at |-> "off", order |-> 1]
      /\ UNCHANGED <<file, claimFile, signed, attested, worked, delayed>>
  BY ProviderQueueAssumption DEF IInv, Types, Programs, Orders, Reopen, Goto, Turn
<1>4. Types'
  BY <1>2, <1>3 DEF IInv, Types, Keeping, Alone, scenario
<1>5. Ids' /\ \A p \in Orders : Outputs(p)' /\ Charged(p)'
  BY <1>2, <1>3, KeepingSound DEF Alone, scenario
<1>6. Sent' /\ \A p \in Orders : Given(p)'
  BY <1>2, <1>3, KeepingSent, KeepingGiven DEF Alone, scenario
<1>7. Recovered'
  <2>1. worker'.at # "unlink"
    BY <1>3 DEF IInv, Types, Programs
  <2>2. QED
    BY <1>2, <1>3, <2>1, StaysRecovered DEF Alone, scenario, Keeping, Kept
<1>8. OnDisk' /\ Cycle'
  BY <1>3 DEF IInv, Types, Programs, OnDisk, Cycle, At, Reopen, Alone, scenario
<1>9. QED
  BY <1>4, <1>5, <1>6, <1>7, <1>8 DEF IInv

LEMMA SaveReopenedSound ==
  ASSUME IInv, Alone, SaveReopened
  PROVE  IInv'
<1> DEFINE o == worker.order
<1>1. /\ o \in Orders /\ At("reopened")
      /\ file' = [file EXCEPT ![o].stage = "claimed"] /\ worker' = [at |-> "scan", order |-> 1]
      /\ UNCHANGED <<category, job, claimFile, signed, attested, worked, delayed, order, attempt, wanted>>
  BY DEF IInv, Types, Programs, SaveReopened, Save, NextCycle, Turn, Alone, scenario
<1>2. /\ file[o].stage = "failed" /\ file[o].output = 0 /\ ~file[o].sent
      /\ category[o] = "read" /\ worked[o] < MaxWork
  BY <1>1 DEF IInv, Cycle, At
<1> HIDE DEF o
<1>3. Types'
  <2>1. file' \in [Orders -> Files]
    BY <1>1 DEF IInv, Types, Files, Stages
  <2>2. worker' \in Programs
    BY <1>1, ProviderQueueAssumption DEF Programs, Orders
  <2>3. QED
    BY <1>1, <2>1, <2>2 DEF IInv, Types
<1>4. Ids' /\ Sent'
  BY <1>1, <1>2 DEF IInv, Types, Files, Requests, Ids, Sent
<1>5. OnDisk' /\ Cycle'
  BY <1>1 DEF OnDisk, Cycle, At
<1>6. Recovered'
  <2>1. \A p \in Orders : file'[p].stage = "none" => file[p].stage = "none"
    BY <1>1, <1>2 DEF IInv, Types, Files
  <2>2. QED
    BY <1>1, <2>1, StaysRecovered
<1>7. ASSUME NEW p \in Orders PROVE Outputs(p)' /\ Charged(p)' /\ Given(p)'
  BY <1>1, <1>2 DEF IInv, Types, Files, Outputs, Charged, Given, Doomed, Over
<1>8. QED
  BY <1>3, <1>4, <1>5, <1>6, <1>7 DEF IInv

LEMMA TakeUpSound ==
  ASSUME IInv, Alone, TakeUp
  PROVE  IInv'
<1>1. PICK o \in Orders :
        /\ file[o].stage \notin {"none", "completed", "failed"}
        /\ CASE file[o].stage = "executing" -> Turn("tell", o) /\ UNCHANGED file
             [] file[o].stage = "claimed" -> Turn("work", o) /\ Save(o, "executing")
             [] OTHER -> Turn("output", o) /\ UNCHANGED file
  <2>1. Unfinished \in SUBSET Nat /\ Unfinished # {} /\ Unfinished \subseteq Orders
    BY DEF TakeUp, Unfinished, Orders
  <2>2. Least(Unfinished) \in Unfinished
    BY <2>1, LeastIsMember
  <2>3. QED
    BY <2>1, <2>2 DEF TakeUp, Unfinished
<1>2. UNCHANGED <<category, job, claimFile, signed, attested, worked, delayed, order, attempt, wanted>>
  BY DEF TakeUp, Alone, scenario
<1>3. file[o] \in Files
  BY DEF IInv, Types
<1>4. CASE file[o].stage = "executing"
  <2>1. worker' = [at |-> "tell", order |-> o] /\ UNCHANGED file
    BY <1>1, <1>4 DEF Turn
  <2>2. Doomed(o)
    BY <1>4 DEF IInv, Outputs, Doomed
  <2>3. OnDisk' /\ Cycle' /\ worker' \in Programs
    BY <1>2, <1>4, <2>1, <2>2 DEF OnDisk, Cycle, At, Programs, Doomed, Over
  <2>4. QED
    BY <1>2, <2>1, <2>3, MovesSound
<1>5. CASE file[o].stage = "output"
  <2>1. worker' = [at |-> "output", order |-> o] /\ UNCHANGED file
    BY <1>1, <1>5 DEF Turn
  <2>2. OnDisk' /\ Cycle' /\ worker' \in Programs
    BY <1>2, <1>5, <2>1 DEF OnDisk, Cycle, At, Programs
  <2>3. QED
    BY <1>2, <2>1, <2>2, MovesSound
<1>6. CASE file[o].stage = "claimed"
  <2>1. worker' = [at |-> "work", order |-> o] /\ file' = [file EXCEPT ![o].stage = "executing"]
    BY <1>1, <1>6 DEF Turn, Save
  <2>2. worked[o] < MaxWork /\ (category[o] # "read" => worked[o] = 0)
    BY <1>6 DEF IInv, Charged
  <2>3. Types'
    <3>1. [file[o] EXCEPT !.stage = "executing"] \in Files
      BY <1>3 DEF Files, Stages
    <3>2. file' \in [Orders -> Files]
      BY <2>1, <3>1 DEF IInv, Types
    <3>3. worker' \in Programs
      BY <2>1 DEF Programs
    <3>4. QED
      BY <1>2, <3>2, <3>3 DEF IInv, Types
  <2>4. Ids' /\ Sent'
    BY <1>2, <1>6, <2>1 DEF IInv, Types, Files, Requests, Ids, Sent
  <2>5. OnDisk' /\ Cycle'
    BY <1>2, <2>1, <2>2 DEF IInv, Types, Files, OnDisk, Cycle, At
  <2>6. Recovered'
    <3>1. \A p \in Orders : file'[p].stage = "none" => file[p].stage = "none"
      BY <1>6, <2>1 DEF IInv, Types, Files
    <3>2. QED
      BY <1>2, <2>1, <3>1, StaysRecovered
  <2>7. ASSUME NEW p \in Orders PROVE Outputs(p)' /\ Charged(p)' /\ Given(p)'
    BY <1>2, <1>6, <2>1 DEF IInv, Types, Files, Outputs, Charged, Given, Doomed, Over
  <2>8. QED
    BY <2>3, <2>4, <2>5, <2>6, <2>7 DEF IInv
<1>7. QED
  BY <1>1, <1>3, <1>4, <1>5, <1>6 DEF Files, Stages

LEMMA WorkSound ==
  ASSUME IInv, Alone, Work
  PROVE  IInv'
<1>1. PICK o \in Orders : o = worker.order
  BY DEF IInv, Types, Programs
<1>2. At("work") /\ UNCHANGED <<category, job, file, claimFile, signed, attested, delayed, order, attempt, wanted>>
  BY DEF Work, Alone, scenario
<1>3. /\ file[o].stage = "executing" /\ worked[o] < MaxWork
      /\ category[o] # "read" => worked[o] = 0
  BY <1>1, <1>2 DEF IInv, Cycle
<1>4. Doomed(o)
  BY <1>3 DEF IInv, Outputs, Doomed
<1>5. /\ worked' \in {worked, [worked EXCEPT ![o] = @ + 1]}
      /\ worker' \in {[worker EXCEPT !.at = "worked"], [worker EXCEPT !.at = "tell"]}
      /\ worker'.at = "worked" => worked' = [worked EXCEPT ![o] = @ + 1]
  BY <1>1, <1>2 DEF IInv, Types, Programs, Work, Goto, At
<1>6. worker' \in Programs /\ worker'.order = o /\ worker'.at \in {"worked", "tell"}
  BY <1>1, <1>5 DEF IInv, Types, Programs
<1>7. /\ worked' \in [Orders -> 0 .. MaxWork]
      /\ worker'.at = "worked" => worked'[o] # 0
      /\ category[o] # "read" => worked'[o] <= 1
      /\ \A p \in Orders \ {o} : worked'[p] = worked[p]
  BY <1>3, <1>5, ProviderQueueAssumption DEF IInv, Types
<1>8. Types'
  BY <1>2, <1>6, <1>7 DEF IInv, Types
<1>9. Ids' /\ Sent' /\ OnDisk'
  BY <1>2, <1>6 DEF IInv, Ids, Sent, OnDisk, At
<1>10. Cycle'
  BY <1>2, <1>3, <1>4, <1>6, <1>7 DEF Cycle, At, Doomed, Over
<1>11. Recovered'
  BY <1>2, <1>6, StaysRecovered
<1>12. ASSUME NEW p \in Orders PROVE Outputs(p)' /\ Charged(p)' /\ Given(p)'
  BY <1>2, <1>3, <1>7 DEF IInv, Outputs, Charged, Given, Doomed, Over
<1>13. QED
  BY <1>8, <1>9, <1>10, <1>11, <1>12 DEF IInv

LEMMA SaveOutputSound ==
  ASSUME IInv, Alone, SaveOutput
  PROVE  IInv'
<1>1. PICK o \in Orders : o = worker.order
  BY DEF IInv, Types, Programs
<1>2. /\ At("worked") /\ worker' = [worker EXCEPT !.at = "output"]
      /\ file' = [file EXCEPT ![o].stage = "output", ![o].output = worked[o]]
      /\ UNCHANGED <<category, job, claimFile, signed, attested, worked, delayed, order, attempt, wanted>>
  BY <1>1 DEF SaveOutput, Goto, Alone, scenario
<1>3. file[o].stage = "executing" /\ worked[o] # 0
  BY <1>1, <1>2 DEF IInv, Cycle
<1>4. /\ file[o].output = 0 /\ ~file[o].sent /\ job[o].state # "completed"
      /\ signed[o] = 0 /\ attested[o] = 0
  BY <1>3 DEF IInv, Outputs
<1>5. /\ file'[o].stage = "output" /\ file'[o].output = worked[o] /\ ~file'[o].sent
      /\ file'[o].claim = file[o].claim
      /\ \A p \in Orders \ {o} : file'[p] = file[p]
  BY <1>2, <1>4 DEF IInv, Types, Files
<1>6. file' \in [Orders -> Files]
  <2>1. [file[o] EXCEPT !.stage = "output", !.output = worked[o]] \in Files
    BY DEF IInv, Types, Files, Stages
  <2>2. QED
    BY <1>2, <2>1 DEF IInv, Types
<1>7. worker' \in Programs /\ worker'.at = "output" /\ worker'.order = o
  BY <1>1, <1>2 DEF IInv, Types, Programs
<1>8. Types'
  BY <1>2, <1>6, <1>7 DEF IInv, Types
<1>9. Ids' /\ Sent'
  BY <1>2, <1>3, <1>4, <1>5 DEF IInv, Types, Requests, Ids, Sent
<1>10. OnDisk' /\ Cycle'
  BY <1>5, <1>7 DEF OnDisk, Cycle, At
<1>11. Recovered'
  <2>1. \A p \in Orders : file'[p].stage = "none" => file[p].stage = "none"
    BY <1>5
  <2>2. QED
    BY <1>2, <1>7, <2>1, StaysRecovered
<1>12. ASSUME NEW p \in Orders PROVE Outputs(p)' /\ Charged(p)' /\ Given(p)'
  <2>1. Charged(p)' /\ Given(p)'
    BY <1>2, <1>5 DEF IInv, Charged, Given
  <2>2. CASE p = o
    <3>1. /\ signed'[p] = 0 /\ attested'[p] = 0
          /\ job'[p].state # "completed" /\ job'[p].output = 0
      BY <1>2, <1>4, <2>2 DEF IInv, Outputs
    <3>2. /\ file'[p].stage = "output" /\ file'[p].output # 0 /\ ~file'[p].sent
      BY <1>3, <1>5, <2>2
    <3>3. Outputs(p)'
      BY <3>1, <3>2 DEF Outputs
    <3>4. QED
      BY <2>1, <3>3
  <2>3. CASE p # o
    <3>1. /\ file'[p] = file[p] /\ signed'[p] = signed[p] /\ attested'[p] = attested[p]
          /\ job'[p] = job[p] /\ (Doomed(p) => Doomed(p)')
      BY <1>2, <1>5, <2>3 DEF Doomed, Over
    <3>2. Outputs(p)
      BY DEF IInv
    <3>3. Outputs(p)'
      BY <3>1, <3>2 DEF Outputs
    <3>4. QED
      BY <2>1, <3>3
  <2>4. QED
    BY <2>2, <2>3
<1>13. QED
  BY <1>8, <1>9, <1>10, <1>11, <1>12 DEF IInv

LEMMA AttestSound ==
  ASSUME IInv, Alone, Attest
  PROVE  IInv'
<1>1. PICK o \in Orders : o = worker.order
  BY DEF IInv, Types, Programs
<1>2. /\ At("output")
      /\ UNCHANGED <<category, job, claimFile, attested, worked, delayed, order, attempt, wanted>>
  BY DEF Attest, Alone, scenario
<1>3. file[o].stage = "output" /\ file[o].output # 0
  BY <1>1, <1>2 DEF IInv, Cycle, Outputs
<1>4. CASE Over(o) /\ ~file[o].sent
  <2>1. worker' = [worker EXCEPT !.at = "tell"] /\ UNCHANGED <<signed, file>>
    BY <1>1, <1>4 DEF Attest, Goto
  <2>2. Doomed(o)
    BY <1>4 DEF IInv, Outputs, Doomed
  <2>3. worker' \in Programs /\ worker'.at = "tell" /\ worker'.order = o
    BY <1>1, <2>1 DEF IInv, Types, Programs
  <2>4. OnDisk' /\ Cycle'
    BY <1>2, <1>3, <2>1, <2>2, <2>3 DEF OnDisk, Cycle, At, Doomed, Over
  <2>5. QED
    BY <1>2, <2>1, <2>3, <2>4, MovesSound
<1>5. CASE ~(Over(o) /\ ~file[o].sent)
  <2>1. /\ signed' = [signed EXCEPT ![o] = IF @ = 0 THEN file[o].output ELSE @]
        /\ IF attested[o] = file[o].output
           THEN worker' = [worker EXCEPT !.at = "complete"] /\ file' = [file EXCEPT ![o].sent = TRUE]
           ELSE worker' = [at |-> "scan", order |-> 1] /\ UNCHANGED file
    BY <1>1, <1>5 DEF Attest, Goto, NextCycle, Turn
  <2>2. /\ signed' \in [Orders -> 0 .. MaxWork] /\ signed'[o] = file[o].output
        /\ \A p \in Orders \ {o} : signed'[p] = signed[p]
    BY <2>1 DEF IInv, Types, Files, Outputs
  <2>3. /\ file' \in [Orders -> Files]
        /\ \A p \in Orders : /\ file'[p].stage = file[p].stage /\ file'[p].output = file[p].output
                             /\ file'[p].claim = file[p].claim
                             /\ file[p].sent => file'[p].sent
        /\ \A p \in Orders \ {o} : file'[p] = file[p]
        /\ file'[o].sent => file[o].sent \/ attested[o] = file[o].output
    <3>1. CASE UNCHANGED file
      BY <3>1 DEF IInv, Types
    <3>2. CASE file' = [file EXCEPT ![o].sent = TRUE] /\ attested[o] = file[o].output
      BY <3>2 DEF IInv, Types, Files
    <3>3. QED
      BY <2>1, <3>1, <3>2
  <2>4. /\ worker' \in Programs
        /\ worker'.at = "scan" \/ (worker'.at = "complete" /\ worker'.order = o /\ file'[o].sent)
    BY <1>1, <2>1, ProviderQueueAssumption DEF IInv, Types, Files, Programs, Orders
  <2>5. Types'
    BY <1>2, <2>2, <2>3, <2>4 DEF IInv, Types
  <2>6. Ids' /\ Sent'
    <3>1. Ids'
      BY <1>2, <2>3 DEF IInv, Ids
    <3>2. Sent'
      BY <1>2, <2>3 DEF IInv, Types, Requests, Sent
    <3>3. QED
      BY <3>1, <3>2
  <2>7. OnDisk' /\ Cycle'
    BY <1>3, <2>3, <2>4 DEF OnDisk, Cycle, At
  <2>8. Recovered'
    BY <1>2, <2>3, <2>4, StaysRecovered
  <2>9. ASSUME NEW p \in Orders PROVE Outputs(p)' /\ Charged(p)' /\ Given(p)'
    BY <1>2, <1>3, <2>2, <2>3 DEF IInv, Outputs, Charged, Given, Doomed, Over
  <2>10. QED
    BY <2>5, <2>6, <2>7, <2>8, <2>9 DEF IInv
<1>6. QED
  BY <1>4, <1>5

LEMMA ConcludeSound ==
  ASSUME IInv, Alone, Conclude
  PROVE  IInv'
<1>1. PICK o \in Orders : o = worker.order
  BY DEF IInv, Types, Programs
<1>2. PICK stage \in {"failed", "completed"} :
        /\ stage = IF At("told") THEN "failed" ELSE "completed"
        /\ file' = [file EXCEPT ![o].stage = stage]
  BY <1>1 DEF Conclude, Save
<1>3. /\ At("completed") \/ At("told")
      /\ worker' = [at |-> "scan", order |-> 1]
      /\ UNCHANGED <<category, job, claimFile, signed, attested, worked, delayed, order, attempt, wanted>>
  BY DEF Conclude, NextCycle, Turn, Alone, scenario
<1>4. /\ file[o].stage \in {"executing", "output"}
      /\ stage = "completed" => file[o].stage = "output" /\ job[o].state = "completed"
      /\ stage = "failed" => Doomed(o)
  BY <1>1, <1>2, <1>3 DEF IInv, Cycle, At
<1>5. /\ file' \in [Orders -> Files] /\ file'[o].stage = stage
      /\ \A p \in Orders : /\ file'[p].output = file[p].output
                           /\ file'[p].claim = file[p].claim /\ file'[p].sent = file[p].sent
      /\ \A p \in Orders \ {o} : file'[p] = file[p]
  <2>1. file[o] \in Files
    BY DEF IInv, Types
  <2>2. PICK f \in Files : f = [file[o] EXCEPT !.stage = stage]
    BY <2>1 DEF Files, Stages
  <2>3. /\ f.stage = stage /\ f.output = file[o].output
        /\ f.claim = file[o].claim /\ f.sent = file[o].sent
    BY <2>1, <2>2 DEF Files
  <2>4. file' = [file EXCEPT ![o] = f]
    BY <1>2, <2>2
  <2>5. /\ file' \in [Orders -> Files] /\ file'[o] = f
        /\ \A p \in Orders \ {o} : file'[p] = file[p]
    BY <2>4 DEF IInv, Types
  <2>6. QED
    BY <2>3, <2>5
<1>6. worker' \in Programs /\ worker'.at = "scan"
  BY <1>3, ProviderQueueAssumption DEF Programs, Orders
<1>7. Types'
  BY <1>3, <1>5, <1>6 DEF IInv, Types
<1>8. Ids' /\ Sent'
  <2>1. \A p \in Orders : file'[p].stage = "none" <=> file[p].stage = "none"
    BY <1>4, <1>5
  <2>2. Ids'
    BY <1>3, <1>5, <2>1 DEF IInv, Ids
  <2>3. Sent'
    BY <1>3, <1>5, <2>1 DEF IInv, Types, Requests, Sent
  <2>4. QED
    BY <2>2, <2>3
<1>9. OnDisk' /\ Cycle'
  BY <1>6 DEF OnDisk, Cycle, At
<1>10. Recovered'
  <2>1. \A p \in Orders : file'[p].stage = "none" => file[p].stage = "none"
    BY <1>5
  <2>2. QED
    BY <1>3, <1>6, <2>1, StaysRecovered
<1>11. ASSUME NEW p \in Orders PROVE Outputs(p)' /\ Charged(p)' /\ Given(p)'
  BY <1>3, <1>4, <1>5 DEF IInv, Outputs, Charged, Given, Doomed, Over
<1>12. QED
  BY <1>7, <1>8, <1>9, <1>10, <1>11 DEF IInv

\* A request that fails is the worker's only, or is delayed.
LEMMA RequestSound ==
  ASSUME IInv, Alone, Keeping, UNCHANGED <<file, claimFile, signed, attested, worked>>,
         worker' \in Programs, worker'.at \notin {"unlink", "claim", "claimed"}, Cycle',
         delayed' \in SUBSET Requests,
         \/ delayed' = delayed
         \/ \E d : /\ delayed' = {d}
                   /\ d[1] = "claim" => "late claim" \in wanted
                   /\ d[1] # "claim" => file[d[2]].stage # "none" /\ job[d[2]].claim = d[3]
                   /\ d[1] = "complete" => file[d[2]].sent
  PROVE  IInv'
<1>1. UNCHANGED <<category, order, attempt, wanted>>
  BY DEF Alone, scenario
<1>2. Types'
  BY <1>1 DEF IInv, Types, Keeping
<1>3. Ids' /\ \A p \in Orders : Outputs(p)' /\ Charged(p)' /\ Given(p)'
  BY <1>1, KeepingSound, KeepingGiven
<1>4. Sent'
  <2>1. CASE delayed' = delayed
    BY <2>1, KeepingSent
  <2>2. CASE delayed' # delayed
    <3>1. PICK d : /\ delayed' = {d}
                   /\ d[1] # "claim" => file[d[2]].stage # "none" /\ job[d[2]].claim = d[3]
                   /\ d[1] = "complete" => file[d[2]].sent
      BY <2>2
    <3>2. d[2] \in Orders
      BY <3>1 DEF Requests
    <3>3. QED
      BY <3>1, <3>2 DEF Sent, Keeping, Kept
  <2>3. QED
    BY <2>1, <2>2
<1>5. OnDisk'
  BY DEF OnDisk, At
<1>6. Recovered'
  <2>1. \A p \in Orders : job'[p].claim = job[p].claim
    BY DEF Keeping, Kept
  <2>2. \A d \in delayed' : d \in delayed \/ d[1] # "claim" \/ "late claim" \in wanted
    OBVIOUS
  <2>3. QED
    BY <1>1, <2>1, <2>2, StaysRecovered
<1>7. QED
  BY <1>2, <1>3, <1>4, <1>5, <1>6 DEF IInv

LEMMA CompleteSound ==
  ASSUME IInv, Alone, Complete
  PROVE  IInv'
<1>1. PICK o \in Orders : o = worker.order
  BY DEF IInv, Types, Programs
<1>2. At("complete") /\ UNCHANGED <<signed, attested, worked, category>>
  BY DEF Complete, Alone, scenario
<1>3. /\ file[o].stage = "output" /\ file[o].sent /\ job[o].claim = file[o].claim
      /\ file[o].claim \in ClaimIds
  BY <1>1, <1>2 DEF IInv, Types, Files, Cycle, Ids
<1>4. CASE RequestFails(<<"complete", o, file[o].claim>>, "late complete")
  <2>1. /\ UNCHANGED <<job, file, claimFile>> /\ worker' = [at |-> "scan", order |-> 1]
        /\ delayed' = delayed \/ delayed' = {<<"complete", o, file[o].claim>>}
    BY <1>4 DEF RequestFails, NextCycle, Turn
  <2>2. worker' \in Programs /\ Cycle'
    BY <2>1, ProviderQueueAssumption DEF Programs, Orders, Cycle, At
  <2>3. delayed' \in SUBSET Requests
    BY <1>3, <2>1 DEF IInv, Types, Requests
  <2>4. Keeping
    BY <2>1, NothingKeeps DEF IInv
  <2>5. \/ delayed' = delayed
        \/ \E d : /\ delayed' = {d}
                  /\ d[1] = "claim" => "late claim" \in wanted
                  /\ d[1] # "claim" => file[d[2]].stage # "none" /\ job[d[2]].claim = d[3]
                  /\ d[1] = "complete" => file[d[2]].sent
    <3> DEFINE d == <<"complete", o, file[o].claim>>
    <3>1. d[1] = "complete" /\ d[2] = o /\ d[3] = file[o].claim
      OBVIOUS
    <3> HIDE DEF d
    <3>2. delayed' = delayed \/ delayed' = {d}
      BY <2>1 DEF d
    <3>3. QED
      BY <1>3, <3>1, <3>2
  <2>6. QED
    BY <1>2, <2>1, <2>2, <2>3, <2>4, <2>5, RequestSound
<1>5. CASE /\ Completed(o)
           /\ \/ IF Same(o) \/ Completable(o) THEN Goto("completed")
                 ELSE IF Expired(o) THEN Goto("tell") ELSE NextCycle
              \/ May("lost") /\ NextCycle
           /\ UNCHANGED <<file, claimFile, delayed>>
  <2>1. Keeping
    BY <1>3, <1>5, CompletedKeeps
  <2>2. /\ worker' \in Programs
        /\ worker'.at \in {"scan", "completed", "tell"}
        /\ worker'.at # "scan" => worker'.order = o
        /\ worker'.at = "completed" => Same(o) \/ Completable(o)
        /\ worker'.at = "tell" => Expired(o) /\ ~Same(o) /\ ~Completable(o)
    BY <1>1, <1>5, ProviderQueueAssumption DEF IInv, Types, Programs, Orders, Goto, NextCycle, Turn
  <2>3. Same(o) \/ Completable(o) => job'[o].state = "completed"
    BY <1>5 DEF IInv, Types, Jobs, Same, Completable, Completed
  <2>4. Expired(o) => Doomed(o)
    BY DEF Expired, Doomed
  <2>5. Expired(o) => Doomed(o)'
    BY <1>2, <1>5, <2>1, <2>4, KeepingSound
  <2>6. Cycle'
    BY <1>3, <1>5, <2>2, <2>3, <2>5 DEF Cycle, At
  <2>7. delayed' \in SUBSET Requests
    BY <1>5 DEF IInv, Types
  <2>8. QED
    BY <1>2, <1>5, <2>1, <2>2, <2>6, <2>7, RequestSound
<1>6. QED
  BY <1>1, <1>4, <1>5 DEF Complete

LEMMA TellSound ==
  ASSUME IInv, Alone, Tell
  PROVE  IInv'
<1>1. PICK o \in Orders : o = worker.order
  BY DEF IInv, Types, Programs
<1>2. At("tell") /\ UNCHANGED <<signed, attested, worked, category>>
  BY DEF Tell, Alone, scenario
<1>3. /\ file[o].stage \in {"executing", "output"} /\ Doomed(o)
      /\ job[o].claim = file[o].claim /\ file[o].claim \in ClaimIds
  BY <1>1, <1>2 DEF IInv, Types, Files, Cycle, Ids
<1>4. CASE RequestFails(<<"failed", o, file[o].claim>>, "late failed")
  <2>1. /\ UNCHANGED <<job, file, claimFile>> /\ worker' = [at |-> "scan", order |-> 1]
        /\ delayed' = delayed \/ delayed' = {<<"failed", o, file[o].claim>>}
    BY <1>4 DEF RequestFails, NextCycle, Turn
  <2>2. worker' \in Programs /\ Cycle'
    BY <2>1, ProviderQueueAssumption DEF Programs, Orders, Cycle, At
  <2>3. delayed' \in SUBSET Requests
    BY <1>3, <2>1 DEF IInv, Types, Requests
  <2>4. Keeping
    BY <2>1, NothingKeeps DEF IInv
  <2>5. \/ delayed' = delayed
        \/ \E d : /\ delayed' = {d}
                  /\ d[1] = "claim" => "late claim" \in wanted
                  /\ d[1] # "claim" => file[d[2]].stage # "none" /\ job[d[2]].claim = d[3]
                  /\ d[1] = "complete" => file[d[2]].sent
    <3> DEFINE d == <<"failed", o, file[o].claim>>
    <3>1. d[1] = "failed" /\ d[2] = o /\ d[3] = file[o].claim
      OBVIOUS
    <3> HIDE DEF d
    <3>2. delayed' = delayed \/ delayed' = {d}
      BY <2>1 DEF d
    <3>3. QED
      BY <1>3, <3>1, <3>2
  <2>6. QED
    BY <1>2, <2>1, <2>2, <2>3, <2>4, <2>5, RequestSound
<1>5. CASE /\ Failed(o, file[o].claim)
           /\ Goto("told") \/ (May("lost") /\ NextCycle)
           /\ UNCHANGED <<file, claimFile, delayed>>
  <2>1. Keeping
    BY <1>3, <1>5, FailedKeeps
  <2>2. /\ worker' \in Programs
        /\ worker'.at = "scan" \/ (worker'.at = "told" /\ worker'.order = o)
    BY <1>1, <1>5, ProviderQueueAssumption DEF IInv, Types, Programs, Orders, Goto, NextCycle, Turn
  <2>3. Doomed(o)'
    BY <1>2, <1>3, <1>5, <2>1, KeepingSound
  <2>4. Cycle'
    BY <1>3, <1>5, <2>2, <2>3 DEF Cycle, At
  <2>5. delayed' \in SUBSET Requests
    BY <1>5 DEF IInv, Types
  <2>6. QED
    BY <1>2, <1>5, <2>1, <2>2, <2>4, <2>5, RequestSound
<1>6. QED
  BY <1>1, <1>4, <1>5 DEF Tell

LEMMA MakeClaimSound ==
  ASSUME IInv, Alone, MakeClaim
  PROVE  IInv'
<1>1. /\ worker' = [worker EXCEPT !.at = "claim"]
      /\ UNCHANGED <<category, job, file, signed, attested, worked, delayed, order, attempt, wanted>>
  BY DEF MakeClaim, Goto, Alone, scenario
<1>2. claimFile' \in ClaimIds /\ (claimFile # 0 => claimFile' = claimFile)
  <2>1. CASE claimFile # 0
    BY <2>1 DEF MakeClaim, IInv, Types
  <2>2. CASE claimFile = 0
    <3> DEFINE claims == [o \in Orders |-> job[o].claim]
               named == {request[3] : request \in delayed}
               fresh == ClaimIds \ ({claims[o] : o \in Orders} \cup named)
    <3>1. claims \in [Orders -> Nat]
      BY DEF IInv, Types, Jobs, ClaimIds
    <3>2. \A x, y \in named : x = y
      BY DEF IInv, Sent
    <3>3. MaxOrders \in Nat /\ ClaimIds \subseteq Nat
      BY ProviderQueueAssumption DEF ClaimIds
    <3>4. {job[o].claim : o \in Orders} = {claims[o] : o \in Orders}
      OBVIOUS
    <3>5. claimFile' = Least(fresh)
      BY <2>2, <3>4 DEF MakeClaim
    <3> HIDE DEF claims, named
    <3>6. fresh # {} /\ fresh \in SUBSET Nat
      BY <3>1, <3>2, <3>3, FreshClaimId
    <3> HIDE DEF fresh
    <3>7. Least(fresh) \in fresh
      BY <3>6, LeastIsMember
    <3>8. QED
      BY <2>2, <3>5, <3>7 DEF fresh
  <2>3. QED
    BY <2>1, <2>2
<1>3. worker' \in Programs /\ worker'.at = "claim"
  BY <1>1 DEF IInv, Types, Programs
<1>4. Types'
  BY <1>1, <1>2, <1>3 DEF IInv, Types
<1>5. Ids' /\ Sent'
  BY <1>1 DEF IInv, Ids, Sent
<1>6. OnDisk' /\ Cycle'
  BY <1>2, <1>3 DEF OnDisk, Cycle, At, ClaimIds
<1>7. Recovered'
  BY <1>1, <1>2, <1>3 DEF IInv, Recovered, At
<1>8. ASSUME NEW p \in Orders PROVE Outputs(p)' /\ Charged(p)' /\ Given(p)'
  BY <1>1 DEF IInv, Outputs, Charged, Given, Doomed, Over
<1>9. QED
  BY <1>4, <1>5, <1>6, <1>7, <1>8 DEF IInv

\* claimed is the one job that the id has, found or given.
LEMMA ClaimedHas ==
  ASSUME IInv, NEW id \in ClaimIds, NEW o \in Orders, Claimed(id, o)
  PROVE  /\ job' \in [Orders -> Jobs] /\ job'[o].claim = id /\ job'[o].state # "queued"
         /\ \A p \in Orders \ {o} : job'[p] = job[p] /\ job[p].claim # id
         /\ \/ job' = job
            \/ /\ job[o].state = "queued" /\ job'[o].state = "running"
               /\ job'[o].output = job[o].output /\ job'[o].over = job[o].over
<1>1. id # 0
  BY DEF ClaimIds
<1>2. CASE Holding(id) # {}
  <2>1. job' = job /\ job[o].claim = id
    BY <1>2 DEF Claimed, Holding
  <2>2. job[o].state # "queued"
    BY <1>1, <2>1 DEF IInv, Ids
  <2>3. \A p \in Orders \ {o} : job[p].claim # id
    BY <1>1, <2>1 DEF IInv, Ids
  <2>4. QED
    BY <2>1, <2>2, <2>3 DEF IInv, Types
<1>3. CASE Holding(id) = {}
  <2>1. /\ job[o].state = "queued"
        /\ job' = [job EXCEPT ![o].state = "running", ![o].claim = id]
    BY <1>3 DEF Claimed, Queued
  <2>2. \A p \in Orders : job[p].claim # id
    BY <1>3 DEF Holding
  <2>3. [job[o] EXCEPT !.state = "running", !.claim = id] \in Jobs
    BY DEF IInv, Types, Jobs, States
  <2>4. job' \in [Orders -> Jobs]
    BY <2>1, <2>3 DEF IInv, Types
  <2>5. /\ job'[o].claim = id /\ job'[o].state = "running"
        /\ job'[o].output = job[o].output /\ job'[o].over = job[o].over
    BY <2>1 DEF IInv, Types, Jobs
  <2>6. \A p \in Orders \ {o} : job'[p] = job[p]
    BY <2>1 DEF IInv, Types
  <2>7. QED
    BY <2>1, <2>2, <2>4, <2>5, <2>6
<1>4. QED
  BY <1>2, <1>3

\* A claim touches no order that has a file or an output.
LEMMA ClaimedKeeps ==
  ASSUME IInv, NEW id \in ClaimIds, NEW o \in Orders, Claimed(id, o),
         UNCHANGED <<category, file, signed, attested, worked, order, attempt>>
  PROVE  /\ Ids'
         /\ \A p \in Orders : Outputs(p)' /\ Charged(p)' /\ Given(p)'
<1>1. id # 0
  BY DEF ClaimIds
<1>2. CASE job' = job
  BY <1>2 DEF IInv, Ids, Outputs, Charged, Given, Doomed, Over
<1>3. CASE job' # job
  <2>1. /\ job'[o].claim = id
        /\ \A p \in Orders \ {o} : job'[p] = job[p] /\ job[p].claim # id
        /\ job[o].state = "queued" /\ job'[o].state = "running"
        /\ job'[o].output = job[o].output /\ job'[o].over = job[o].over
    BY <1>3, ClaimedHas
  <2>2. file[o].stage = "none"
    BY <2>1 DEF IInv, Ids
  <2>3. Ids'
    BY <1>1, <2>1, <2>2 DEF IInv, Ids
  <2>4. ASSUME NEW p \in Orders PROVE Outputs(p)' /\ Charged(p)' /\ Given(p)'
    BY <2>1, <2>2 DEF IInv, Outputs, Charged, Given, Doomed, Over
  <2>5. QED
    BY <2>3, <2>4
<1>4. QED
  BY <1>2, <1>3

LEMMA ClaimSound ==
  ASSUME IInv, Alone, Claim
  PROVE  IInv'
<1>1. /\ At("claim") /\ claimFile \in ClaimIds /\ worker.order \in Orders
      /\ UNCHANGED <<category, signed, attested, worked, order, attempt, wanted>>
  BY DEF IInv, Types, Programs, OnDisk, Claim, Alone, scenario
<1>2. CASE RequestFails(<<"claim", 1, claimFile>>, "late claim")
  <2>1. /\ UNCHANGED <<job, file, claimFile>> /\ worker' = [at |-> "scan", order |-> 1]
        /\ delayed' = delayed \/ (delayed' = {<<"claim", 1, claimFile>>} /\ "late claim" \in wanted)
    BY <1>2 DEF RequestFails, NextCycle, Turn, May
  <2> 1 \in Orders
    BY ProviderQueueAssumption DEF Orders
  <2>2. worker' \in Programs /\ Cycle'
    BY <2>1 DEF Programs, Cycle, At
  <2>3. delayed' \in SUBSET Requests
    <3>1. <<"claim", 1, claimFile>> \in Requests
      BY <1>1 DEF Requests
    <3>2. delayed \in SUBSET Requests
      BY DEF IInv, Types
    <3>3. QED
      BY <2>1, <3>1, <3>2
  <2>4. Keeping
    BY <2>1, NothingKeeps DEF IInv
  <2>5. \/ delayed' = delayed
        \/ \E d : /\ delayed' = {d}
                  /\ d[1] = "claim" => "late claim" \in wanted
                  /\ d[1] # "claim" => file[d[2]].stage # "none" /\ job[d[2]].claim = d[3]
                  /\ d[1] = "complete" => file[d[2]].sent
    <3> DEFINE d == <<"claim", 1, claimFile>>
    <3>1. d[1] = "claim"
      OBVIOUS
    <3> HIDE DEF d
    <3>2. delayed' = delayed \/ (delayed' = {d} /\ "late claim" \in wanted)
      BY <2>1 DEF d
    <3>3. QED
      BY <3>1, <3>2
  <2>6. QED
    BY <1>1, <2>1, <2>2, <2>3, <2>4, <2>5, RequestSound
<1>3. ASSUME NEW o \in Orders, Claimed(claimFile, o), UNCHANGED <<file, claimFile, delayed>>,
             Turn("claimed", o) \/ NextCycle
      PROVE  IInv'
  <2>1. /\ job' \in [Orders -> Jobs] /\ job'[o].claim = claimFile
        /\ \A p \in Orders \ {o} : job'[p] = job[p]
        /\ job' = job \/ job[o].state = "queued"
    BY <1>1, <1>3, ClaimedHas
  <2>2. Ids' /\ \A p \in Orders : Outputs(p)' /\ Charged(p)' /\ Given(p)'
    BY <1>1, <1>3, ClaimedKeeps
  <2>3. worker' \in Programs /\ (worker' = [at |-> "claimed", order |-> o] \/ worker'.at = "scan")
    BY <1>3, ProviderQueueAssumption DEF Programs, Orders, Turn, NextCycle
  <2>4. Types'
    BY <1>1, <1>3, <2>1, <2>3 DEF IInv, Types
  <2>5. OnDisk' /\ Cycle'
    BY <1>1, <1>3, <2>1, <2>3 DEF OnDisk, Cycle, At, ClaimIds
  <2>6. Sent'
    <3>1. ASSUME NEW d \in delayed, d[1] # "claim" PROVE job'[d[2]].claim = d[3]
      <4>1. d[2] \in Orders /\ d[3] \in ClaimIds /\ job[d[2]].claim = d[3]
        BY <3>1 DEF IInv, Types, Requests, Sent
      <4>2. job[o].state = "queued" => job[o].claim = 0
        BY DEF IInv, Ids
      <4>3. QED
        BY <2>1, <4>1, <4>2 DEF ClaimIds
    <3>2. QED
      BY <1>3, <3>1 DEF IInv, Sent
  <2>7. Recovered'
    <3>1. worker'.at # "unlink"
      BY <2>3
    <3>2. ASSUME "late claim" \notin wanted,
                 NEW p \in Orders, job'[p].claim # 0, file[p].stage = "none"
          PROVE  job'[p].claim = claimFile
      <4>1. CASE p = o
        BY <2>1, <4>1
      <4>2. CASE p # o
        BY <2>1, <3>2, <4>2 DEF IInv, Recovered
      <4>3. QED
        BY <4>1, <4>2
    <3>3. "late claim" \notin wanted => \A d \in delayed' : d[1] # "claim"
      BY <1>3 DEF IInv, Recovered
    <3>4. QED
      BY <1>1, <1>3, <3>1, <3>2, <3>3 DEF Recovered, At
  <2>8. QED
    BY <2>2, <2>4, <2>5, <2>6, <2>7 DEF IInv
<1>4. CASE NothingToClaim(claimFile) /\ UNCHANGED <<file, claimFile, delayed>>
           /\ (Goto("unlink") \/ NextCycle)
  <2>1. /\ UNCHANGED job /\ \A o \in Orders : job[o].claim # claimFile
        /\ worker' \in Programs /\ worker'.at \in {"unlink", "scan"}
    BY <1>4, ProviderQueueAssumption
       DEF NothingToClaim, Holding, IInv, Types, Programs, Orders, Goto, NextCycle, Turn
  <2>2. Types' /\ Ids' /\ Sent'
    BY <1>1, <1>4, <2>1 DEF IInv, Types, Ids, Sent
  <2>3. OnDisk' /\ Cycle'
    BY <2>1 DEF OnDisk, Cycle, At
  <2>4. Recovered'
    BY <1>1, <1>4, <2>1 DEF IInv, Recovered
  <2>5. ASSUME NEW p \in Orders PROVE Outputs(p)' /\ Charged(p)' /\ Given(p)'
    BY <1>1, <1>4, <2>1 DEF IInv, Outputs, Charged, Given, Doomed, Over
  <2>6. QED
    BY <2>2, <2>3, <2>4, <2>5 DEF IInv
<1>5. QED
  BY <1>2, <1>3, <1>4 DEF Claim

LEMMA FileClaimSound ==
  ASSUME IInv, Alone, FileClaim
  PROVE  IInv'
<1>1. PICK o \in Orders : o = worker.order
  BY DEF IInv, Types, Programs
<1>2. /\ At("claimed") /\ claimFile # 0 /\ job[o].claim = claimFile /\ claimFile \in ClaimIds
      /\ UNCHANGED <<category, job, claimFile, signed, attested, worked, delayed, order, attempt, wanted>>
      /\ worker' = [worker EXCEPT !.at = "unlink"]
  BY <1>1 DEF IInv, Types, OnDisk, FileClaim, Goto, Alone, scenario
<1>3. /\ file' \in [Orders -> Files]
      /\ \A p \in Orders \ {o} : file'[p] = file[p]
      /\ \/ file' = file /\ file[o].stage # "none"
         \/ /\ file[o].stage = "none" /\ file'[o].stage = "claimed" /\ file'[o].claim = claimFile
            /\ file'[o].output = file[o].output /\ file'[o].sent = file[o].sent
  <2>1. CASE file[o].stage # "none"
    BY <1>1, <2>1 DEF FileClaim, IInv, Types
  <2>2. CASE file[o].stage = "none"
    <3>1. file' = [file EXCEPT ![o].stage = "claimed", ![o].claim = claimFile]
      BY <1>1, <2>2 DEF FileClaim
    <3>2. [file[o] EXCEPT !.stage = "claimed", !.claim = claimFile] \in Files
      BY <1>2 DEF IInv, Types, Files, Stages
    <3>3. file' \in [Orders -> Files]
      BY <3>1, <3>2 DEF IInv, Types
    <3>4. /\ file'[o].stage = "claimed" /\ file'[o].claim = claimFile
          /\ file'[o].output = file[o].output /\ file'[o].sent = file[o].sent
          /\ \A p \in Orders \ {o} : file'[p] = file[p]
      BY <3>1 DEF IInv, Types, Files
    <3>5. QED
      BY <2>2, <3>3, <3>4
  <2>3. QED
    BY <2>1, <2>2
<1>4. worker' \in Programs /\ worker'.at = "unlink"
  BY <1>2 DEF IInv, Types, Programs
<1>5. Types'
  BY <1>2, <1>3, <1>4 DEF IInv, Types
<1>6. Ids' /\ Sent'
  <2>1. ASSUME NEW p \in Orders
        PROVE  /\ file'[p].stage # "none" => file'[p].claim = job[p].claim /\ job[p].claim # 0
               /\ file'[p].stage = "none" => file[p].stage = "none"
    BY <1>2, <1>3 DEF IInv, Ids
  <2>2. Ids'
    BY <1>2, <2>1 DEF IInv, Ids
  <2>3. \A p \in Orders : file'[p].sent = file[p].sent
    BY <1>3
  <2>4. Sent'
    BY <1>2, <2>1, <2>3 DEF IInv, Types, Requests, Sent
  <2>5. QED
    BY <2>2, <2>4
<1>7. OnDisk' /\ Cycle'
  BY <1>4 DEF OnDisk, Cycle, At
<1>8. Recovered'
  <2>1. \A p \in Orders : file'[p].stage = "none" => file[p].stage = "none"
    BY <1>3
  <2>2. \A p \in Orders : job[p].claim = claimFile => file'[p].stage # "none"
    BY <1>2, <1>3 DEF IInv, Ids
  <2>3. QED
    BY <1>2, <2>1, <2>2 DEF IInv, Recovered
<1>9. ASSUME NEW p \in Orders PROVE Outputs(p)' /\ Charged(p)' /\ Given(p)'
  <2>1. CASE file'[p] = file[p]
    BY <1>2, <2>1 DEF IInv, Outputs, Charged, Given, Doomed, Over
  <2>2. CASE file'[p] # file[p]
    <3>1. /\ p = o /\ file[p].stage = "none" /\ file'[p].stage = "claimed"
          /\ file'[p].output = file[p].output /\ file'[p].sent = file[p].sent
      BY <1>3, <2>2
    <3>2. worked[p] = 0 /\ 0 < MaxWork
      BY <3>1, ProviderQueueAssumption DEF IInv, Charged
    <3>3. Charged(p)'
      BY <1>2, <3>1, <3>2 DEF Charged
    <3>4. Outputs(p)' /\ Given(p)'
      BY <1>2, <3>1 DEF IInv, Outputs, Given
    <3>5. QED
      BY <3>3, <3>4
  <2>3. QED
    BY <2>1, <2>2
<1>10. QED
  BY <1>5, <1>6, <1>7, <1>8, <1>9 DEF IInv

LEMMA UnlinkSound ==
  ASSUME IInv, Alone, Unlink
  PROVE  IInv'
<1>1. /\ At("unlink") /\ claimFile' = 0 /\ worker' = [at |-> "scan", order |-> 1]
      /\ UNCHANGED <<category, job, file, signed, attested, worked, delayed, order, attempt, wanted>>
  BY DEF Unlink, NextCycle, Turn, Alone, scenario
<1>2. worker' \in Programs
  BY <1>1, ProviderQueueAssumption DEF Programs, Orders
<1>3. Types' /\ Ids' /\ Sent'
  BY <1>1, <1>2 DEF IInv, Types, Ids, Sent
<1>4. OnDisk' /\ Cycle'
  BY <1>1 DEF OnDisk, Cycle, At
<1>5. Recovered'
  BY <1>1 DEF IInv, Recovered, At
<1>6. ASSUME NEW p \in Orders PROVE Outputs(p)' /\ Charged(p)' /\ Given(p)'
  BY <1>1 DEF IInv, Outputs, Charged, Given, Doomed, Over
<1>7. QED
  BY <1>3, <1>4, <1>5, <1>6 DEF IInv

-----------------------------------------------------------------------------
(* The ledger, the hour and late requests.                                 *)

LEMMA MineSound ==
  ASSUME IInv, Alone, NEW o \in Orders, Mine(o)
  PROVE  IInv'
<1>1. /\ signed[o] # 0 /\ attested[o] = 0
      /\ attested' = [attested EXCEPT ![o] = signed[o]]
      /\ UNCHANGED <<category, job, file, claimFile, worker, signed, worked, delayed, order, attempt, wanted>>
  BY DEF Mine, Alone, scenario
<1>2. /\ attested' \in [Orders -> 0 .. MaxWork] /\ attested'[o] = signed[o]
      /\ \A p \in Orders \ {o} : attested'[p] = attested[p]
  BY <1>1 DEF IInv, Types
<1>3. ~file[o].sent
  BY <1>1 DEF IInv, Outputs
<1>4. Types' /\ Ids' /\ Sent' /\ OnDisk'
  BY <1>1, <1>2 DEF IInv, Types, Ids, Sent, OnDisk, At
<1>5. Recovered' /\ Cycle'
  BY <1>1 DEF IInv, Recovered, Cycle, At, Doomed, Over
<1>6. ASSUME NEW p \in Orders PROVE Outputs(p)' /\ Charged(p)' /\ Given(p)'
  BY <1>1, <1>2, <1>3 DEF IInv, Outputs, Charged, Given, Doomed, Over
<1>7. QED
  BY <1>4, <1>5, <1>6 DEF IInv

\* What a platform's step that is not the worker's keeps.
LEMMA ServedSound ==
  ASSUME IInv, Keeping, delayed' \subseteq delayed,
         UNCHANGED <<scenario, file, claimFile, worker, signed, attested, worked>>,
         order' \in [Orders -> Orderings], attempt' \in [Orders -> [Attempts -> Asking]],
         \A p \in Orders : Given(p)'
  PROVE  IInv'
<1>1. UNCHANGED <<category, wanted>>
  BY DEF scenario
<1>2. Types'
  BY <1>1 DEF IInv, Types, Keeping
<1>3. Ids' /\ \A p \in Orders : Outputs(p)' /\ Charged(p)' /\ (Doomed(p) => Doomed(p)')
  BY <1>1, KeepingSound
<1>4. Sent'
  BY KeepingSent
<1>5. worker.order \in Orders
  BY DEF IInv, Types, Programs
<1>6. \A p \in Orders : /\ job'[p].claim = job[p].claim
                        /\ job[p].state = "completed" => job'[p].state = "completed"
  BY DEF Keeping, Kept, Completable
<1>7. OnDisk' /\ Cycle'
  BY <1>1, <1>3, <1>5, <1>6 DEF IInv, OnDisk, Cycle, At
<1>8. Recovered'
  BY <1>1, <1>6 DEF IInv, Recovered, At
<1>9. QED
  BY <1>2, <1>3, <1>4, <1>7, <1>8 DEF IInv

LEMMA HourSound ==
  ASSUME IInv, Alone, NEW o \in Orders, StorageHourEnds(o)
  PROVE  IInv'
<1>1. /\ job' = [job EXCEPT ![o].over = TRUE]
      /\ UNCHANGED <<scenario, file, claimFile, worker, signed, attested, worked, delayed, order, attempt>>
  BY DEF StorageHourEnds, Alone
<1>2. Keeping
  BY <1>1 DEF IInv, Types, Jobs, Keeping, Kept
<1>3. \A p \in Orders : Given(p)'
  BY <1>1, <1>2, KeepingGiven
<1>4. QED
  BY <1>1, <1>2, <1>3, ServedSound DEF IInv, Types

\* The request that arrives is the only one; a job is claimed, failed or completed as if
\* the worker were waiting.
LEMMA ArriveSound ==
  ASSUME IInv, Alone, NEW d \in delayed, Arrive(d)
  PROVE  IInv'
<1>1. UNCHANGED <<scenario, category, wanted, file, claimFile, worker, signed, attested, worked,
                  order, attempt>>
  BY DEF Arrive, Alone, scenario
<1>2. delayed' = {}
  BY DEF Arrive, IInv, Sent
<1>3. d[1] \in {"claim", "failed", "complete"} /\ d[2] \in Orders /\ d[3] \in ClaimIds
  BY DEF IInv, Types, Requests
<1>4. ASSUME Keeping PROVE IInv'
  <2>1. \A p \in Orders : Given(p)'
    BY <1>1, <1>4, KeepingGiven
  <2>2. QED
    BY <1>1, <1>2, <1>4, <2>1, ServedSound DEF IInv, Types
<1>5. CASE d[1] = "failed"
  <2>1. Failed(d[2], d[3]) /\ file[d[2]].stage # "none"
    BY <1>5 DEF Arrive, IInv, Sent
  <2>2. QED
    BY <1>3, <1>4, <2>1, FailedKeeps
<1>6. CASE d[1] = "complete"
  <2>1. Completed(d[2]) /\ file[d[2]].sent
    BY <1>6 DEF Arrive, IInv, Sent
  <2>2. QED
    BY <1>3, <1>4, <2>1, CompletedKeeps
<1>7. CASE d[1] = "claim" /\ NothingToClaim(d[3])
  BY <1>4, <1>7, NothingKeeps DEF NothingToClaim, IInv
<1>8. CASE d[1] = "claim" /\ \E o \in Orders : Claimed(d[3], o)
  <2>1. PICK o \in Orders : Claimed(d[3], o)
    BY <1>8
  <2>2. /\ job' \in [Orders -> Jobs]
        /\ \A p \in Orders \ {o} : job'[p] = job[p]
        /\ \/ job' = job
           \/ job[o].state = "queued"
    BY <1>3, <2>1, ClaimedHas
  <2>3. Ids' /\ \A p \in Orders : Outputs(p)' /\ Charged(p)' /\ Given(p)'
    BY <1>1, <1>3, <2>1, ClaimedKeeps
  <2>4. Types' /\ Sent'
    BY <1>1, <1>2, <2>2 DEF IInv, Types, Sent
  <2>5. Recovered'
    BY <1>1, <1>8 DEF IInv, Recovered
  <2>6. worker.order \in Orders
    BY DEF IInv, Types, Programs
  <2>7. job[o].state = "queued" => job[o].claim = 0 /\ file[o].stage = "none"
    BY DEF IInv, Ids
  <2>8. OnDisk'
    BY <1>1, <2>2, <2>6, <2>7 DEF IInv, OnDisk, At
  <2>9. Cycle'
    BY <1>1, <2>2, <2>6, <2>7 DEF IInv, Cycle, At, Doomed, Over
  <2>10. QED
    BY <2>3, <2>4, <2>5, <2>8, <2>9 DEF IInv
<1>9. QED
  BY <1>3, <1>5, <1>6, <1>7, <1>8 DEF Arrive

-----------------------------------------------------------------------------
(* The buyers' requests.                                                   *)

LEMMA OrderSound ==
  ASSUME IInv, UNCHANGED <<scenario, queueVars>>,
         order' \in [Orders -> Orderings], attempt' \in [Orders -> [Attempts -> Asking]],
         \A p \in Orders : Given(p)'
  PROVE  IInv'
BY NothingKeeps, ServedSound DEF IInv, queueVars

\* An attempt that ends says nothing any more.
LEMMA EndsSound ==
  ASSUME IInv, NEW o \in Orders, NEW k \in Attempts, Ends(o, k)
  PROVE  /\ attempt' \in [Orders -> [Attempts -> Asking]]
         /\ \A p \in Orders, l \in Attempts :
              attempt'[p][l].at = "answered" => attempt'[p][l] = attempt[p][l]
<1>1. NoAttempt \in Asking /\ NoAttempt.at = "none"
  BY ProviderQueueAssumption DEF NoAttempt, Asking
<1>2. attempt' = [attempt EXCEPT ![o] = [attempt[o] EXCEPT ![k] = NoAttempt]]
  BY DEF Ends
<1>3. [attempt[o] EXCEPT ![k] = NoAttempt] \in [Attempts -> Asking]
  BY <1>1 DEF IInv, Types
<1>4. attempt' \in [Orders -> [Attempts -> Asking]]
  BY <1>2, <1>3 DEF IInv, Types
<1>5. ASSUME NEW p \in Orders, NEW l \in Attempts, attempt'[p][l].at = "answered"
      PROVE  attempt'[p][l] = attempt[p][l]
  BY <1>1, <1>2, <1>5 DEF IInv, Types
<1>6. QED
  BY <1>4, <1>5

\* One order changes, and it was not fulfilled before nor is after.
LEMMA UnfulfilledSound ==
  ASSUME IInv, UNCHANGED job, NEW o \in Orders, NEW r \in Orderings,
         order' = [order EXCEPT ![o] = r], r.state # "fulfilled", r.output = 0,
         \A p \in Orders, k \in Attempts :
           attempt'[p][k].at = "answered" => attempt'[p][k] = attempt[p][k]
  PROVE  order' \in [Orders -> Orderings] /\ \A p \in Orders : Given(p)'
<1>1. order' \in [Orders -> Orderings] /\ order'[o] = r
      /\ \A p \in Orders \ {o} : order'[p] = order[p]
  BY DEF IInv, Types
<1>2. ASSUME NEW p \in Orders PROVE Given(p)'
  <2>1. CASE p = o
    BY <1>1, <2>1 DEF IInv, Given
  <2>2. CASE p # o
    BY <1>1, <2>2 DEF IInv, Given
  <2>3. QED
    BY <2>1, <2>2
<1>3. QED
  BY <1>1, <1>2

LEMMA PlaceSound ==
  ASSUME IInv, NEW o \in Orders, Place(o)
  PROVE  IInv'
<1>1. PICK r : r = [order[o] EXCEPT !.state = "paid"]
  OBVIOUS
<1>2. /\ order[o].state = "none" /\ order' = [order EXCEPT ![o] = r]
      /\ UNCHANGED <<scenario, queueVars, attempt>>
  BY <1>1 DEF Place
<1>3. r \in Orderings /\ r.state # "fulfilled" /\ r.output = 0
  BY <1>1, <1>2 DEF IInv, Types, Orderings, Given
<1>4. order' \in [Orders -> Orderings] /\ \A p \in Orders : Given(p)'
  BY <1>2, <1>3, UnfulfilledSound DEF queueVars
<1>5. QED
  BY <1>2, <1>4, OrderSound DEF IInv, Types

LEMMA ClaimDeliverySound ==
  ASSUME IInv, NEW o \in Orders, NEW k \in Attempts, ClaimDelivery(o, k)
  PROVE  IInv'
<1>1. PICK r : r = [order[o] EXCEPT !.state = "delivering", !.token = k, !.leased = TRUE]
  OBVIOUS
<1>2. PICK a : a = [attempt[o][k] EXCEPT !.at = "asking"]
  OBVIOUS
<1>3. /\ order[o].state # "fulfilled" /\ order' = [order EXCEPT ![o] = r]
      /\ attempt' = [attempt EXCEPT ![o] = [attempt[o] EXCEPT ![k] = a]]
      /\ UNCHANGED <<scenario, queueVars>>
  BY <1>1, <1>2 DEF ClaimDelivery
<1>4. r \in Orderings /\ r.state # "fulfilled" /\ r.output = 0
  BY <1>1, <1>3 DEF IInv, Types, Orderings, Given
<1>5. a \in Asking /\ a.at = "asking"
  <2>1. attempt[o][k] \in Asking
    BY DEF IInv, Types
  <2>2. QED
    BY <1>2, <2>1 DEF Asking
<1>6. [attempt[o] EXCEPT ![k] = a] \in [Attempts -> Asking]
  BY <1>5 DEF IInv, Types
<1>7. attempt' \in [Orders -> [Attempts -> Asking]]
  BY <1>3, <1>6 DEF IInv, Types
<1>8. ASSUME NEW p \in Orders, NEW l \in Attempts, attempt'[p][l].at = "answered"
      PROVE  attempt'[p][l] = attempt[p][l]
  BY <1>3, <1>5, <1>8 DEF IInv, Types
<1>9. order' \in [Orders -> Orderings] /\ \A p \in Orders : Given(p)'
  BY <1>3, <1>4, <1>8, UnfulfilledSound DEF queueVars
<1>10. QED
  BY <1>3, <1>7, <1>9, OrderSound

LEMMA AskSound ==
  ASSUME IInv, NEW o \in Orders, NEW k \in Attempts, Ask(o, k)
  PROVE  IInv'
<1>1. PICK a \in Asking :
        /\ attempt' = [attempt EXCEPT ![o] = [attempt[o] EXCEPT ![k] = a]]
        /\ a.at = "answered" => job[o].state = "completed" /\ a.output = job[o].output
  <2>1. CASE /\ job[o].state = "completed"
             /\ attempt' = [attempt EXCEPT ![o][k] = [at |-> "answered", output |-> job[o].output]]
    <3>1. [at |-> "answered", output |-> job[o].output] \in Asking
      BY DEF IInv, Types, Jobs, Asking
    <3>2. QED
      BY <2>1, <3>1
  <2>2. CASE attempt' = [attempt EXCEPT ![o][k].at = "refused"]
    <3>1. PICK a : a = [attempt[o][k] EXCEPT !.at = "refused"]
      OBVIOUS
    <3>2. a \in Asking /\ a.at = "refused"
      <4>1. attempt[o][k] \in Asking
        BY DEF IInv, Types
      <4>2. QED
        BY <3>1, <4>1 DEF Asking
    <3>3. attempt' = [attempt EXCEPT ![o] = [attempt[o] EXCEPT ![k] = a]]
      BY <2>2, <3>1
    <3>4. QED
      BY <3>2, <3>3
  <2>3. QED
    BY <2>1, <2>2 DEF Ask
<1>2. UNCHANGED <<scenario, file, claimFile, worker, signed, attested, worked, delayed, order>>
  BY DEF Ask
<1>3. [attempt[o] EXCEPT ![k] = a] \in [Attempts -> Asking]
  BY DEF IInv, Types
<1>4. attempt' \in [Orders -> [Attempts -> Asking]]
  BY <1>1, <1>3 DEF IInv, Types
<1>5. Keeping
  BY QueueKeeps DEF Ask
<1>6. \A p \in Orders : job[p].state = "completed" =>
        job'[p].state = "completed" /\ job'[p].output = job[p].output
  BY <1>5 DEF Keeping, Kept, Completable
<1>7. ASSUME NEW p \in Orders PROVE Given(p)'
  <2>1. ASSUME NEW l \in Attempts, attempt'[p][l].at = "answered"
        PROVE  job[p].state = "completed" /\ attempt'[p][l].output = job[p].output
    <3>1. CASE p = o /\ l = k
      BY <1>1, <2>1, <3>1 DEF IInv, Types
    <3>2. CASE ~(p = o /\ l = k)
      <4>1. attempt'[p][l] = attempt[p][l]
        BY <1>1, <3>2 DEF IInv, Types
      <4>2. QED
        BY <2>1, <4>1 DEF IInv, Given
    <3>3. QED
      BY <3>1, <3>2
  <2>2. QED
    BY <1>2, <1>6, <2>1 DEF IInv, Given
<1>8. QED
  BY <1>2, <1>4, <1>5, <1>7, ServedSound DEF IInv, Types

LEMMA FinishSound ==
  ASSUME IInv, NEW o \in Orders, NEW k \in Attempts, Finish(o, k)
  PROVE  IInv'
<1>1. UNCHANGED <<scenario, queueVars, job>> /\ Ends(o, k) /\ attempt[o][k].at = "answered"
  BY DEF Finish, queueVars
<1>2. /\ attempt' \in [Orders -> [Attempts -> Asking]]
      /\ \A p \in Orders, l \in Attempts :
           attempt'[p][l].at = "answered" => attempt'[p][l] = attempt[p][l]
  BY <1>1, EndsSound
<1>3. PICK n : n = attempt[o][k].output
  OBVIOUS
<1>4. job[o].state = "completed" /\ n = job[o].output /\ n # 0 /\ n \in 0 .. MaxWork
  <2>1. job[o].state = "completed" /\ n = job[o].output
    BY <1>1, <1>3 DEF IInv, Given
  <2>2. job[o].output # 0
    BY <2>1 DEF IInv, Outputs
  <2>3. job[o].output \in 0 .. MaxWork
    BY DEF IInv, Types, Jobs
  <2>4. QED
    BY <2>1, <2>2, <2>3
<1>5. CASE order' = order
  <2>1. \A p \in Orders : Given(p)'
    BY <1>1, <1>2, <1>5 DEF IInv, Given
  <2>2. QED
    BY <1>1, <1>2, <1>5, <2>1, OrderSound DEF IInv, Types
<1>6. CASE order' # order
  <2>1. PICK r \in Orderings :
          /\ r = [state |-> "fulfilled", token |-> 0, leased |-> FALSE, output |-> n]
          /\ order' = [order EXCEPT ![o] = r]
    BY <1>3, <1>4, <1>6 DEF Finish, Orderings
  <2>2. /\ order' \in [Orders -> Orderings] /\ order'[o] = r
        /\ \A p \in Orders \ {o} : order'[p] = order[p]
    BY <2>1 DEF IInv, Types
  <2>3. ASSUME NEW p \in Orders PROVE Given(p)'
    <3>1. CASE p = o
      BY <1>1, <1>2, <1>4, <2>1, <2>2, <3>1 DEF IInv, Given
    <3>2. CASE p # o
      BY <1>1, <1>2, <2>2, <3>2 DEF IInv, Given
    <3>3. QED
      BY <3>1, <3>2
  <2>4. QED
    BY <1>1, <1>2, <2>2, <2>3, OrderSound
<1>7. QED
  BY <1>5, <1>6

\* Only an attempt that holds the order gives it back; a fulfilled order is nobody's.
LEMMA GiveUpSound ==
  ASSUME IInv, NEW o \in Orders, NEW k \in Attempts, GiveUp(o, k) \/ Die(o, k)
  PROVE  IInv'
<1>1. UNCHANGED <<scenario, queueVars, job>> /\ Ends(o, k)
  BY DEF GiveUp, Die, queueVars
<1>2. /\ attempt' \in [Orders -> [Attempts -> Asking]]
      /\ \A p \in Orders, l \in Attempts :
           attempt'[p][l].at = "answered" => attempt'[p][l] = attempt[p][l]
  BY <1>1, EndsSound
<1>3. CASE order' = order
  <2>1. \A p \in Orders : Given(p)'
    BY <1>1, <1>2, <1>3 DEF IInv, Given
  <2>2. QED
    BY <1>1, <1>2, <1>3, <2>1, OrderSound DEF IInv, Types
<1>4. CASE order' # order
  <2>1. PICK r : r = [order[o] EXCEPT !.state = "paid", !.token = 0, !.leased = FALSE]
    OBVIOUS
  <2>2. order[o].token = k /\ order' = [order EXCEPT ![o] = r]
    BY <1>4, <2>1 DEF GiveUp, Die, Holds
  <2>3. order[o].state # "fulfilled"
    BY <2>2 DEF IInv, Given, Attempts
  <2>4. r \in Orderings /\ r.state # "fulfilled" /\ r.output = 0
    BY <2>1, <2>3 DEF IInv, Types, Orderings, Given
  <2>5. order' \in [Orders -> Orderings] /\ \A p \in Orders : Given(p)'
    BY <1>1, <1>2, <2>2, <2>4, UnfulfilledSound
  <2>6. QED
    BY <1>1, <1>2, <2>5, OrderSound
<1>5. QED
  BY <1>3, <1>4

LEMMA LeaseEndsSound ==
  ASSUME IInv, NEW o \in Orders, LeaseEnds(o)
  PROVE  IInv'
<1>1. order' = [order EXCEPT ![o].leased = FALSE] /\ UNCHANGED <<scenario, queueVars, attempt, job>>
  BY DEF LeaseEnds, queueVars
<1>2. /\ order' \in [Orders -> Orderings]
      /\ \A p \in Orders : /\ order'[p].state = order[p].state /\ order'[p].token = order[p].token
                           /\ order'[p].output = order[p].output
  BY <1>1 DEF IInv, Types, Orderings
<1>3. \A p \in Orders : Given(p)'
  BY <1>1, <1>2 DEF IInv, Given
<1>4. QED
  BY <1>1, <1>2, <1>3, OrderSound DEF IInv, Types

-----------------------------------------------------------------------------
(* Every behaviour.                                                        *)

LEMMA InitSound ==
  ASSUME Init PROVE IInv
<1>1. /\ category \in [Orders -> Categories] /\ 1 \in Orders /\ 0 \in 0 .. MaxWork
      /\ job = [o \in Orders |-> [state |-> "none", claim |-> 0, output |-> 0, over |-> FALSE]]
      /\ file = [o \in Orders |-> [stage |-> "none", claim |-> 0, output |-> 0, sent |-> FALSE]]
      /\ claimFile = 0 /\ worker = [at |-> "off", order |-> 1] /\ delayed = {}
      /\ signed = [o \in Orders |-> 0] /\ attested = signed /\ worked = signed
      /\ order = [o \in Orders |-> [state |-> "none", token |-> 0, leased |-> FALSE, output |-> 0]]
      /\ attempt = [o \in Orders |-> [k \in Attempts |-> NoAttempt]]
  BY ProviderQueueAssumption DEF Init, QueueInit, Orders
<1>2. Types
  <2>1. job \in [Orders -> Jobs] /\ file \in [Orders -> Files] /\ worker \in Programs
    BY <1>1 DEF Jobs, Files, States, Stages, Programs
  <2>2. order \in [Orders -> Orderings]
    BY <1>1 DEF Orderings
  <2>3. NoAttempt \in Asking
    BY <1>1 DEF NoAttempt, Asking
  <2>4. attempt \in [Orders -> [Attempts -> Asking]]
    BY <1>1, <2>3
  <2>5. QED
    BY <1>1, <2>1, <2>2, <2>4 DEF Types
<1>3. Ids /\ OnDisk /\ Sent /\ Recovered /\ Cycle
  BY <1>1 DEF Ids, OnDisk, Sent, Recovered, Cycle, At
<1>4. ASSUME NEW o \in Orders PROVE Outputs(o) /\ Charged(o) /\ Given(o)
  BY <1>1 DEF Outputs, Charged, Given, NoAttempt
<1>5. QED
  BY <1>2, <1>3, <1>4 DEF IInv

LEMMA QueueSound ==
  ASSUME IInv, Alone, QueueNext
  PROVE  IInv'
<1>1. CASE WorkerWork
  <2>1. CASE Start
    BY <2>1, StartSound
  <2>2. CASE Reopen
    BY <2>2, ReopenSound
  <2>3. CASE SaveReopened
    BY <2>3, SaveReopenedSound
  <2>4. CASE TakeUp
    BY <2>4, TakeUpSound
  <2>5. CASE Work
    BY <2>5, WorkSound
  <2>6. CASE SaveOutput
    BY <2>6, SaveOutputSound
  <2>7. CASE Attest
    BY <2>7, AttestSound
  <2>8. CASE Complete
    BY <2>8, CompleteSound
  <2>9. CASE Tell
    BY <2>9, TellSound
  <2>10. CASE Conclude
    BY <2>10, ConcludeSound
  <2>11. CASE MakeClaim
    BY <2>11, MakeClaimSound
  <2>12. CASE Claim
    BY <2>12, ClaimSound
  <2>13. CASE FileClaim
    BY <2>13, FileClaimSound
  <2>14. CASE Unlink
    BY <2>14, UnlinkSound
  <2>15. QED
    BY <1>1, <2>1, <2>2, <2>3, <2>4, <2>5, <2>6, <2>7, <2>8, <2>9, <2>10, <2>11, <2>12,
       <2>13, <2>14 DEF WorkerWork
<1>2. CASE Crash
  BY <1>2, StartSound
<1>3. CASE \E o \in Orders : StorageHourEnds(o) \/ StartAgain(o) \/ Mine(o)
  BY <1>3, HourSound, StartAgainSound, MineSound
<1>4. CASE \E request \in delayed : Arrive(request)
  BY <1>4, ArriveSound
<1>5. QED
  BY <1>1, <1>2, <1>3, <1>4 DEF QueueNext

LEMMA SettlesSound ==
  ASSUME IInv, Settles
  PROVE  IInv'
<1>1. UNCHANGED <<category, queueVars, order, attempt, wanted>>
  BY DEF Settles, Settle
<1>2. Types' /\ Ids' /\ Sent' /\ OnDisk'
  BY <1>1 DEF IInv, Types, Ids, Sent, OnDisk, At, queueVars
<1>3. Recovered' /\ Cycle'
  BY <1>1 DEF IInv, Recovered, Cycle, At, Doomed, Over, queueVars
<1>4. ASSUME NEW p \in Orders PROVE Outputs(p)' /\ Charged(p)' /\ Given(p)'
  BY <1>1 DEF IInv, Outputs, Charged, Given, Doomed, Over, queueVars
<1>5. QED
  BY <1>2, <1>3, <1>4 DEF IInv

LEMMA NextSound ==
  ASSUME IInv, [Next]_vars
  PROVE  IInv'
<1>1. CASE QueueNext /\ UNCHANGED <<scenario, order, attempt>>
  BY <1>1, QueueSound DEF Alone
<1>2. CASE \E o \in Orders : Place(o) \/ LeaseOfTheDeadEnds(o) \/ LeaseOfTheLateEnds(o)
  BY <1>2, PlaceSound, LeaseEndsSound DEF LeaseOfTheDeadEnds, LeaseOfTheLateEnds
<1>3. CASE \E o \in Orders, k \in Attempts : Deliver(o, k) \/ Die(o, k)
  BY <1>3, ClaimDeliverySound, AskSound, FinishSound, GiveUpSound DEF Deliver
<1>4. CASE Settles
  BY <1>4, SettlesSound
<1>5. CASE UNCHANGED vars
  <2>1. UNCHANGED <<scenario, queueVars, order, attempt, job>>
    BY <1>5 DEF vars, queueVars
  <2>2. \A p \in Orders : Given(p)'
    BY <2>1 DEF IInv, Given
  <2>3. QED
    BY <2>1, <2>2, OrderSound DEF IInv, Types
<1>6. QED
  BY <1>1, <1>2, <1>3, <1>4, <1>5 DEF Next

LEMMA IInvMeans ==
  ASSUME IInv PROVE WorkIsTrue
<1>1. TypeOK
  <2>1. QueueTypeOK
    BY DEF IInv, Types, Jobs, Files, Programs, Requests, QueueTypeOK
  <2>2. QED
    BY <2>1 DEF IInv, Types, Orderings, Asking, TypeOK
<1>2. DeliveryIsTrue /\ ChargedOnce
  BY DEF IInv, Outputs, Charged, Given, Doomed, DeliveryIsTrue, ChargedOnce
<1>3. "late claim" \in wanted \/ ClaimsAreRecovered
  BY DEF IInv, Ids, Recovered, ClaimsAreRecovered, Orphaned
<1>4. QED
  BY <1>1, <1>2, <1>3 DEF WorkIsTrue

\* So it is when orders are delivered, ...
LEMMA DeliveryCorrect == Spec => []WorkIsTrue
<1>1. Init => IInv
  BY InitSound
<1>2. IInv /\ [Next]_vars => IInv'
  BY NextSound
<1>3. IInv => WorkIsTrue
  BY IInvMeans
<1>4. QED
  BY <1>1, <1>2, <1>3, PTL DEF Spec

\* ... and next to the records they are delivered as if alone.
LEMMA DeliversMeanwhile == MarketplaceSpec => Spec
<1>1. MarketplaceInit => Init
  BY DEF MarketplaceInit
<1>2. [MarketplaceNext]_allVars => [Next]_vars
  <2>. SUFFICES ASSUME MarketplaceNext PROVE Next \/ UNCHANGED vars
    BY DEF allVars
  <2>1. CASE Next
    BY <2>1
  <2>2. CASE RecordsNext /\ UNCHANGED <<wanted, category, queueVars, order, attempt>>
    BY <2>2 DEF RecordsNext, vars, scenario
  <2>3. CASE Settle /\ UNCHANGED <<wanted, category, queueVars, order, attempt>>
    BY <2>3 DEF Next, Settles
  <2>. QED  BY <2>1, <2>2, <2>3 DEF MarketplaceNext
<1>. QED  BY <1>1, <1>2, PTL DEF MarketplaceSpec, Spec

\* deliverEconomyOrder, providerWorkAction and the worker's journal: however requests are
\* lost, late or overtaken and wherever the worker dies, a buyer is given what was made
\* once, attested and stored, work is charged once, and a claim whose answer was lost is
\* found again unless it reaches the platform late.
THEOREM WorkCorrect == MarketplaceSpec => []WorkIsTrue
BY DeliveryCorrect, DeliversMeanwhile, PTL

-----------------------------------------------------------------------------
(* The records.  A request checks under its lock and inserts later: what   *)
(* it checked stays true, because rows and blocks are only added, and what *)
(* it found free stays free, because who could take it waits for the lock. *)
(* The indexer reads valuations before the accounts they bind.             *)

Accounts == [table : {"accounts"}, order : Settled, inputs : [Settled -> 0 .. Principal],
             issued : Nat]
Valuations == [table : {"evidence"}, order : Settled, bound : BOOLEAN, issued : Nat]
Refunds == [table : {"refunds"}, order : Settled, transfer : DOMAIN trade.transfer]
Reviews == [table : {"reviews"}, order : Settled, reviewer : Reviewers]
Disputes == [table : {"disputes"}, order : Settled]
Rows == Accounts \cup Valuations \cup Refunds \cup Reviews \cup Disputes

\* RecordsTypeOK, set by set.
RecordTypes ==
  /\ trade \in Histories /\ final \in Blocks /\ trusted \subseteq Reviewers
  /\ rows \in SUBSET Rows /\ IsFiniteSet(rows) /\ open \in SUBSET Rows
  /\ index \in [cursor : 0 .. final, seen : SUBSET rows, trusted : SUBSET Reviewers,
                complete : BOOLEAN]
  /\ indexer \in [at : 0 .. 4, final : 0 .. final, seen : SUBSET rows,
                  trusted : SUBSET Reviewers]

\* A request that goes on has the lock that its check was made under.
OneEach == \A a, b \in open : SameLock(a, b) => a = b

\* What a row was checked for stays true: blocks and rows are only added.
Checked(row) ==
  /\ row.table = "accounts" =>
       /\ Acknowledged(row.order) <= index.cursor
       /\ \A i \in Consumed(row) :
            Acknowledged(i) <= index.cursor /\ Acknowledged(i) < Delivered(row.order)
  /\ row.table = "evidence" /\ row.bound => Binds(row.order, row.issued)

\* What a request found free is still free, because it holds the lock.
HasRoom(row) ==
  /\ row.table = "accounts" =>
       \A i \in Settled : Allocated(rows, i) + row.inputs[i] <= Principal
  /\ row.table = "refunds" => Refunded(rows, row.order) + Amount(row.transfer) <= Principal

\* Every valuation in a set is there with the account it binds.
Closed(set) ==
  \A v \in set : v.table = "evidence" /\ v.bound =>
    \E account \in set :
      account.table = "accounts" /\ account.order = v.order /\ v.issued >= account.issued

RecordsInv ==
  /\ RecordTypes
  /\ OneEach
  /\ \A row \in rows \cup open : Checked(row)
  /\ \A row \in open : HasRoom(row)
  /\ \A a, b \in rows : SameKey(a, b) => a = b
  /\ \A i \in Settled : Allocated(rows, i) <= Principal /\ Refunded(rows, i) <= Principal
  /\ Closed(index.seen) /\ (indexer.at = 4 => Closed(indexer.seen))

-----------------------------------------------------------------------------

LEMMA BlocksAreNat ==
  ASSUME trade \in Histories
  PROVE  /\ Len(trade.log) \in Nat /\ Blocks = 0 .. Len(trade.log)
         /\ \A o : Paid(o) \in Nat /\ Delivered(o) \in Nat /\ Acknowledged(o) \in Nat
<1>1. trade.log \in Seq(Range(trade.log))
  BY RecordsAssumption
<1>2. Len(trade.log) \in Nat /\ DOMAIN trade.log = 1 .. Len(trade.log)
  BY <1>1
<1>3. ASSUME NEW event PROVE BlockOf(event) \in Nat
  <2>1. CASE \E b \in DOMAIN trade.log : trade.log[b] = event
    BY <1>2, <2>1 DEF BlockOf
  <2>2. CASE ~\E b \in DOMAIN trade.log : trade.log[b] = event
    BY <1>2, <2>2 DEF BlockOf
  <2>. QED  BY <2>1, <2>2
<1>. QED  BY <1>2, <1>3 DEF Blocks, Paid, Delivered, Acknowledged

\* The amounts that accounts state of one input, and that transfers give back.
Stated(i) == [account \in Accounts |-> account.inputs[i]]
GivenBack == [refund \in Refunds |-> Amount(refund.transfer)]

LEMMA StatedIsNat ==
  ASSUME NEW i \in Settled, NEW account \in Accounts
  PROVE  Stated(i)[account] = account.inputs[i] /\ Stated(i)[account] \in Nat
BY RecordsAssumption DEF Stated, Accounts

LEMMA GivenBackIsNat ==
  ASSUME trade \in Histories, NEW refund \in Refunds
  PROVE  GivenBack[refund] = Amount(refund.transfer) /\ GivenBack[refund] \in Nat
BY RecordsAssumption DEF GivenBack, Refunds, Amount

LEMMA AllocatedIsSum ==
  ASSUME NEW T, IsFiniteSet(T), Of("accounts", T) \in SUBSET Accounts, NEW i \in Settled
  PROVE  Allocated(T, i) = SumFunctionOnSet(Stated(i), Of("accounts", T))
<1>. DEFINE S == Of("accounts", T)
            Rec(g) == g = [s \in SUBSET S |-> IF s = {} THEN 0
                            ELSE One(s).inputs[i] + g[s \ {One(s)}]]
            it == CHOOSE g : Rec(g)
<1>0. IsFiniteSet(S)
  BY FS_Subset DEF Of
<1>1. PICK g : SumsAre(Stated(i), g, S) /\ SumFunctionOnSet(Stated(i), S) = g[S]
  BY <1>0, SumMeans
<1>2. \A s \in SUBSET S : s # {} => Stated(i)[One(s)] = One(s).inputs[i]
  <2>. HIDE DEF S
  <2>. QED  BY OneIsMember, StatedIsNat DEF S
<1>3. Rec(it)
  <2>1. Rec(g)
    BY <1>1, <1>2 DEF SumsAre
  <2>. HIDE DEF Rec
  <2>. QED  BY <2>1, Zenon
<1>4. Allocated(T, i) = it[S]
  BY Zenon DEF Allocated, Uses, MapThenSumSet, MapThenFoldSet, One
<1>5. SumsAre(Stated(i), it, S)
  <2>. HIDE DEF it
  <2>. QED  BY <1>2, <1>3 DEF SumsAre
<1>6. it[S] = g[S]
  <2>. HIDE DEF it, S
  <2>. QED  BY <1>0, <1>1, <1>5, SumsAreOne
<1>. QED  BY <1>1, <1>4, <1>6

Paying(T, o) == {refund \in Of("refunds", T) : refund.order = o}

LEMMA RefundedIsSum ==
  ASSUME trade \in Histories, NEW T, IsFiniteSet(T), Of("refunds", T) \in SUBSET Refunds, NEW o
  PROVE  Refunded(T, o) = SumFunctionOnSet(GivenBack, Paying(T, o))
<1>. DEFINE S == Paying(T, o)
            Rec(g) == g = [s \in SUBSET S |-> IF s = {} THEN 0
                            ELSE Amount(One(s).transfer) + g[s \ {One(s)}]]
            it == CHOOSE g : Rec(g)
<1>0. IsFiniteSet(S) /\ S \in SUBSET Refunds
  BY FS_Subset DEF Paying, Of
<1>1. PICK g : SumsAre(GivenBack, g, S) /\ SumFunctionOnSet(GivenBack, S) = g[S]
  BY <1>0, SumMeans
<1>2. \A s \in SUBSET S : s # {} => GivenBack[One(s)] = Amount(One(s).transfer)
  <2>. HIDE DEF S
  <2>. QED  BY <1>0, OneIsMember, GivenBackIsNat
<1>3. Rec(it)
  <2>1. Rec(g)
    BY <1>1, <1>2 DEF SumsAre
  <2>. HIDE DEF Rec
  <2>. QED  BY <2>1, Zenon
<1>4. Refunded(T, o) = it[S]
  BY Zenon DEF Refunded, Paying, MapThenSumSet, MapThenFoldSet, One
<1>5. SumsAre(GivenBack, it, S)
  <2>. HIDE DEF it
  <2>. QED  BY <1>2, <1>3 DEF SumsAre
<1>6. it[S] = g[S]
  <2>. HIDE DEF it, S
  <2>. QED  BY <1>0, <1>1, <1>5, SumsAreOne
<1>. QED  BY <1>1, <1>4, <1>6

LEMMA RowsOf ==
  ASSUME NEW T \in SUBSET Rows
  PROVE  Of("accounts", T) \in SUBSET Accounts /\ Of("refunds", T) \in SUBSET Refunds
         /\ \A o : Paying(T, o) \in SUBSET Refunds
BY DEF Of, Paying, Rows, Accounts, Valuations, Refunds, Reviews, Disputes

\* What one more row adds to the sums.
LEMMA AllocatedWithOne ==
  ASSUME NEW T \in SUBSET Rows, IsFiniteSet(T), NEW row \in Rows, row \notin T, NEW i \in Settled
  PROVE  /\ Allocated(T, i) \in Nat
         /\ row.table # "accounts" => Allocated(T \cup {row}, i) = Allocated(T, i)
         /\ row.table = "accounts" => /\ row.inputs[i] \in Nat
              /\ Allocated(T \cup {row}, i) = Allocated(T, i) + row.inputs[i]
<1>1. PICK S, U : S = Of("accounts", T) /\ U = Of("accounts", T \cup {row})
  OBVIOUS
<1>2. /\ S \in SUBSET Accounts /\ IsFiniteSet(S) /\ row \notin S
      /\ U \in SUBSET Accounts /\ T \cup {row} \in SUBSET Rows
  <2>1. T \cup {row} \in SUBSET Rows
    OBVIOUS
  <2>2. S \in SUBSET Accounts /\ U \in SUBSET Accounts
    BY <1>1, <2>1, RowsOf
  <2>. QED  BY <1>1, <2>1, <2>2, FS_Subset DEF Of
<1>3. IsFiniteSet(T \cup {row})
  BY FS_AddElement
<1>4. /\ Allocated(T, i) = SumFunctionOnSet(Stated(i), S)
      /\ Allocated(T \cup {row}, i) = SumFunctionOnSet(Stated(i), U)
  BY <1>1, <1>2, <1>3, AllocatedIsSum
<1>5. \A a \in S : Stated(i)[a] \in Nat
  BY <1>2, StatedIsNat
<1>6. SumFunctionOnSet(Stated(i), S) \in Nat
  BY <1>2, <1>5, SumIsNat
<1>7. ASSUME row.table # "accounts"
      PROVE  Allocated(T \cup {row}, i) = Allocated(T, i)
  <2>1. U = S
    BY <1>1, <1>7 DEF Of
  <2>. QED  BY <1>4, <2>1, Zenon
<1>8. ASSUME row.table = "accounts"
      PROVE  /\ row.inputs[i] \in Nat
             /\ Allocated(T \cup {row}, i) = Allocated(T, i) + row.inputs[i]
  <2>1. U = S \cup {row}
    BY <1>1, <1>8 DEF Of
  <2>2. row \in Accounts
    BY <1>2, <2>1
  <2>3. Stated(i)[row] = row.inputs[i] /\ row.inputs[i] \in Nat
    BY <2>2, StatedIsNat
  <2>4. SumFunctionOnSet(Stated(i), S \cup {row}) = SumFunctionOnSet(Stated(i), S) + Stated(i)[row]
    <3>1. \A a \in S \cup {row} : Stated(i)[a] \in Nat
      BY <1>5, <2>3
    <3>. QED  BY <1>2, <3>1, SumWithOne
  <2>. QED  BY <1>4, <2>1, <2>3, <2>4, Zenon
<1>. QED  BY <1>4, <1>6, <1>7, <1>8

LEMMA RefundedWithOne ==
  ASSUME trade \in Histories, NEW T \in SUBSET Rows, IsFiniteSet(T), NEW row \in Rows, row \notin T,
         NEW o
  PROVE  /\ Refunded(T, o) \in Nat
         /\ ~ (row.table = "refunds" /\ row.order = o) => Refunded(T \cup {row}, o) = Refunded(T, o)
         /\ row.table = "refunds" /\ row.order = o => /\ Amount(row.transfer) \in Nat
              /\ Refunded(T \cup {row}, o) = Refunded(T, o) + Amount(row.transfer)
<1>1. PICK S, U : S = Paying(T, o) /\ U = Paying(T \cup {row}, o)
  OBVIOUS
<1>2. /\ S \in SUBSET Refunds /\ IsFiniteSet(S) /\ row \notin S /\ U \in SUBSET Refunds
      /\ Of("refunds", T) \in SUBSET Refunds /\ Of("refunds", T \cup {row}) \in SUBSET Refunds
  <2>1. T \cup {row} \in SUBSET Rows
    OBVIOUS
  <2>2. /\ S \in SUBSET Refunds /\ U \in SUBSET Refunds
        /\ Of("refunds", T) \in SUBSET Refunds /\ Of("refunds", T \cup {row}) \in SUBSET Refunds
    BY <1>1, <2>1, RowsOf
  <2>. QED  BY <1>1, <2>2, FS_Subset DEF Of, Paying
<1>3. IsFiniteSet(T \cup {row})
  BY FS_AddElement
<1>4. /\ Refunded(T, o) = SumFunctionOnSet(GivenBack, S)
      /\ Refunded(T \cup {row}, o) = SumFunctionOnSet(GivenBack, U)
  BY <1>1, <1>2, <1>3, RefundedIsSum
<1>5. \A a \in S : GivenBack[a] \in Nat
  BY <1>2, GivenBackIsNat
<1>6. SumFunctionOnSet(GivenBack, S) \in Nat
  BY <1>2, <1>5, SumIsNat
<1>7. ASSUME ~ (row.table = "refunds" /\ row.order = o)
      PROVE  Refunded(T \cup {row}, o) = Refunded(T, o)
  <2>1. U = S
    BY <1>1, <1>7 DEF Of, Paying
  <2>. QED  BY <1>4, <2>1, Zenon
<1>8. ASSUME row.table = "refunds", row.order = o
      PROVE  /\ Amount(row.transfer) \in Nat
             /\ Refunded(T \cup {row}, o) = Refunded(T, o) + Amount(row.transfer)
  <2>1. U = S \cup {row}
    BY <1>1, <1>8 DEF Of, Paying
  <2>2. row \in Refunds
    BY <1>2, <2>1
  <2>3. GivenBack[row] = Amount(row.transfer) /\ GivenBack[row] \in Nat
    BY <2>2, GivenBackIsNat
  <2>4. SumFunctionOnSet(GivenBack, S \cup {row}) = SumFunctionOnSet(GivenBack, S) + GivenBack[row]
    <3>1. \A a \in S \cup {row} : GivenBack[a] \in Nat
      BY <1>5, <2>3
    <3>. QED  BY <1>2, <3>1, SumWithOne
  <2>. QED  BY <1>4, <2>1, <2>3, <2>4, Zenon
<1>. QED  BY <1>4, <1>6, <1>7, <1>8

LEMMA AllocatedIsNat ==
  ASSUME NEW T \in SUBSET Rows, IsFiniteSet(T), NEW i \in Settled
  PROVE  Allocated(T, i) \in Nat
<1>1. Of("accounts", T) \in SUBSET Accounts /\ IsFiniteSet(Of("accounts", T))
  BY RowsOf, FS_Subset DEF Of
<1>2. \A a \in Of("accounts", T) : Stated(i)[a] \in Nat
  BY <1>1, StatedIsNat
<1>3. SumFunctionOnSet(Stated(i), Of("accounts", T)) \in Nat
  BY <1>1, <1>2, SumIsNat
<1>. QED  BY <1>1, <1>3, AllocatedIsSum

LEMMA NothingSummed ==
  ASSUME trade \in Histories
  PROVE  \A i \in Settled : Allocated({}, i) = 0 /\ Refunded({}, i) = 0
<1>. TAKE i \in Settled
<1>1. Of("accounts", {}) = {} /\ Of("refunds", {}) = {} /\ Paying({}, i) = {}
  BY DEF Of, Paying
<1>2. IsFiniteSet({})
  BY FS_EmptySet
<1>3. Allocated({}, i) = SumFunctionOnSet(Stated(i), Of("accounts", {}))
  BY <1>1, <1>2, AllocatedIsSum
<1>4. Refunded({}, i) = SumFunctionOnSet(GivenBack, Paying({}, i))
  BY <1>1, <1>2, RefundedIsSum
<1>. QED  BY <1>1, <1>3, <1>4, SumOfNone, Zenon

LEMMA RecordsStart == RecordsInit => RecordsInv
<1>. SUFFICES ASSUME RecordsInit PROVE RecordsInv
  OBVIOUS
<1>1. trade \in Histories /\ rows = {} /\ open = {} /\ final = trade.start /\ trusted = Reviewers
  BY DEF RecordsInit
<1>2. /\ Len(trade.log) \in Nat /\ Blocks = 0 .. Len(trade.log)
      /\ trade.start \in 1 .. Len(trade.log)
  BY <1>1, BlocksAreNat, RecordsAssumption
<1>3. /\ index = [cursor |-> final - 1, seen |-> {}, trusted |-> trusted, complete |-> TRUE]
      /\ indexer = [at |-> 0, final |-> 0, seen |-> {}, trusted |-> {}]
  BY DEF RecordsInit
<1>4. RecordTypes
  <2>1. final - 1 \in 0 .. final /\ 0 \in 0 .. final /\ final \in Blocks
    BY <1>1, <1>2
  <2>2. /\ index \in [cursor : 0 .. final, seen : SUBSET rows, trusted : SUBSET Reviewers,
                      complete : BOOLEAN]
        /\ indexer \in [at : 0 .. 4, final : 0 .. final, seen : SUBSET rows,
                        trusted : SUBSET Reviewers]
    BY <1>1, <1>3, <2>1
  <2>. QED  BY <1>1, <2>1, <2>2, FS_EmptySet DEF RecordTypes
<1>5. \A i \in Settled : Allocated(rows, i) <= Principal /\ Refunded(rows, i) <= Principal
  <2>1. Principal \in Nat
    BY RecordsAssumption
  <2>2. \A i \in Settled : Allocated(rows, i) = 0 /\ Refunded(rows, i) = 0
    BY <1>1, NothingSummed
  <2>. QED  BY <2>1, <2>2
<1>6. OneEach /\ Closed(index.seen) /\ indexer.at = 0
  BY <1>1, <1>3 DEF OneEach, Closed
<1>. QED  BY <1>1, <1>4, <1>5, <1>6 DEF RecordsInv

\* What the history and the records say stays the same while neither changes.
LEMMA SameTrade ==
  ASSUME UNCHANGED trade
  PROVE  /\ Rows' = Rows /\ Settled' = Settled /\ Blocks' = Blocks
         /\ \A o : Acknowledged(o)' = Acknowledged(o) /\ Delivered(o)' = Delivered(o)
         /\ \A account : Consumed(account)' = Consumed(account)
         /\ \A t : Amount(t)' = Amount(t)
BY DEF Rows, Accounts, Valuations, Refunds, Reviews, Disputes, Settled, Blocks, Acknowledged,
       Delivered, BlockOf, Consumed, Uses, Amount

\* The sums are those of the same history.
LEMMA SameSums ==
  ASSUME UNCHANGED trade, NEW T, rows' = T, NEW i
  PROVE  Allocated(rows, i)' = Allocated(T, i) /\ Refunded(rows, i)' = Refunded(T, i)
<1>1. rows' = T /\ trade' = trade
  OBVIOUS
<1>2. Allocated(rows, i)' = Allocated(T, i)
  BY <1>1, Zenon
<1>3. Refunded(rows, i)' = Refunded(T, i)
  BY <1>1, SMT DEF Refunded, Of, Amount, MapThenSumSet, MapThenFoldSet
<1>. QED  BY <1>2, <1>3

\* A step that leaves the tables and their requests alone, and the published snapshot closed.
LEMMA TablesKept ==
  ASSUME RecordsInv, UNCHANGED <<trade, rows>>, RecordTypes', open' \in SUBSET open,
         index.cursor <= index'.cursor,
         Closed(index.seen)', (indexer.at = 4 => Closed(indexer.seen))'
  PROVE  RecordsInv'
<1>1. /\ trade \in Histories /\ rows \in SUBSET Rows /\ open \in SUBSET Rows
      /\ index.cursor \in Nat /\ index'.cursor \in Nat
  <2>1. index.cursor \in 0 .. final /\ index'.cursor \in 0 .. final'
    BY DEF RecordsInv, RecordTypes
  <2>. QED  BY <2>1 DEF RecordsInv, RecordTypes
<1>2. OneEach'
  BY DEF RecordsInv, OneEach, SameLock, Recovery
<1>3. ASSUME NEW row \in rows' \cup open'
      PROVE  Checked(row)'
  <2>1. Checked(row) /\ row \in Rows
    BY <1>1 DEF RecordsInv
  <2>2. Binds(row.order, row.issued) => Binds(row.order, row.issued)'
    BY DEF Binds, Of
  <2>3. \A o : Acknowledged(o) <= index.cursor => Acknowledged(o)' <= index'.cursor
    BY <1>1, SameTrade, BlocksAreNat
  <2>4. /\ Consumed(row)' = Consumed(row)
        /\ \A o : Acknowledged(o)' = Acknowledged(o) /\ Delivered(o)' = Delivered(o)
    BY SameTrade
  <2>. QED  BY <2>1, <2>2, <2>3, <2>4 DEF Checked
<1>4. /\ Settled' = Settled
      /\ \A i : Allocated(rows, i)' = Allocated(rows, i) /\ Refunded(rows, i)' = Refunded(rows, i)
  <2>1. PICK T : T = rows
    OBVIOUS
  <2>2. ASSUME NEW i
        PROVE  Allocated(rows, i)' = Allocated(T, i) /\ Refunded(rows, i)' = Refunded(T, i)
    BY <2>1, SameSums
  <2>. QED  BY <2>1, <2>2, SameTrade, Zenon
<1>5. \A row \in open' : HasRoom(row)'
  BY <1>4, SameTrade DEF RecordsInv, HasRoom
<1>6. \A a, b \in rows' : SameKey(a, b)' => a = b
  BY DEF RecordsInv, SameKey
<1>7. \A i \in Settled' : Allocated(rows, i)' <= Principal /\ Refunded(rows, i)' <= Principal
  BY <1>4 DEF RecordsInv
<1>. QED  BY <1>2, <1>3, <1>5, <1>6, <1>7 DEF RecordsInv

\* A request that found its row to be true and with room.
LEMMA CheckKeeps ==
  ASSUME RecordsInv, NEW row \in Rows, Checked(row), HasRoom(row), Check(row)
  PROVE  RecordsInv'
<1>1. /\ open' = open \cup {row} /\ UNCHANGED <<trade, final, trusted, rows, index, indexer>>
      /\ ~\E other \in open : SameLock(row, other)
  BY DEF Check
<1>2. RecordTypes /\ OneEach
  BY DEF RecordsInv
<1>3. RecordTypes'
  <2>1. Rows' = Rows /\ Blocks' = Blocks
    BY <1>1, SameTrade
  <2>. QED  BY <1>1, <1>2, <2>1 DEF RecordTypes
<1>4. OneEach'
  BY <1>1, <1>2 DEF OneEach, SameLock, Recovery
<1>5. PICK T : T = rows
  OBVIOUS
<1>6. /\ Settled' = Settled
      /\ \A i : Allocated(rows, i)' = Allocated(rows, i) /\ Refunded(rows, i)' = Refunded(rows, i)
  <2>1. ASSUME NEW i
        PROVE  Allocated(rows, i)' = Allocated(T, i) /\ Refunded(rows, i)' = Refunded(T, i)
    BY <1>1, <1>5, SameSums
  <2>. QED  BY <1>1, <1>5, <2>1, SameTrade, Zenon
<1>7. \A r : Checked(r) => Checked(r)'
  BY <1>1, SameTrade DEF Checked, Binds, Of
<1>8. \A r : HasRoom(r) => HasRoom(r)'
  BY <1>1, <1>6, SameTrade DEF HasRoom
<1>9. \A a, b \in rows' : SameKey(a, b)' => a = b
  BY <1>1 DEF RecordsInv, SameKey
<1>10. Closed(index.seen)' /\ (indexer.at = 4 => Closed(indexer.seen))'
  BY <1>1 DEF RecordsInv, Closed
<1>11. \A i \in Settled' : Allocated(rows, i)' <= Principal /\ Refunded(rows, i)' <= Principal
  BY <1>6 DEF RecordsInv
<1>12. (\A r \in rows \cup open : Checked(r)) /\ (\A r \in open : HasRoom(r))
  BY DEF RecordsInv
<1>13. (\A r \in (rows \cup open)' : Checked(r)') /\ (\A r \in open' : HasRoom(r)')
  BY <1>1, <1>7, <1>8, <1>12
<1>. QED  BY <1>3, <1>4, <1>9, <1>10, <1>11, <1>13 DEF RecordsInv

LEMMA StateAccountKeeps ==
  ASSUME RecordsInv, NEW o \in Settled, StateAccount(o)
  PROVE  RecordsInv'
<1>1. PICK inputs, issued, account :
        /\ inputs \in [Settled -> 0 .. Principal] /\ issued \in Now
        /\ account = [table |-> "accounts", order |-> o, inputs |-> inputs, issued |-> issued]
        /\ Acknowledged(o) <= index.cursor
        /\ \A i \in Consumed(account) :
             Consumable(o, i) /\ Allocated(rows, i) + inputs[i] <= Principal
        /\ Check(account)
  BY Zenon DEF StateAccount
<1>2. /\ account.table = "accounts" /\ account.order = o /\ account.inputs = inputs
      /\ account.issued = issued
  BY <1>1
<1>3. trade \in Histories /\ final \in Nat /\ rows \in SUBSET Rows /\ IsFiniteSet(rows)
  BY BlocksAreNat DEF RecordsInv, RecordTypes
<1>4. account \in Accounts
  BY <1>1, <1>3 DEF Accounts, Now
<1>5. account \in Rows
  BY <1>4 DEF Rows
<1>6. Checked(account)
  <2>1. \A i \in Consumed(account) :
          Acknowledged(i) <= index.cursor /\ Acknowledged(i) < Delivered(o)
    BY <1>1 DEF Consumable
  <2>. QED  BY <1>1, <1>2, <2>1 DEF Checked
<1>7. HasRoom(account)
  <2>1. ASSUME NEW i \in Settled PROVE Allocated(rows, i) + account.inputs[i] <= Principal
    <3>1. CASE i \in Consumed(account)
      BY <1>1, <1>2, <3>1
    <3>2. CASE i \notin Consumed(account)
      <4>1. inputs[i] \in 0 .. Principal /\ ~ (inputs[i] > 0) /\ Principal \in Nat
        BY <1>1, <1>2, <3>2, RecordsAssumption DEF Consumed, Uses
      <4>2. Allocated(rows, i) <= Principal /\ Allocated(rows, i) \in Nat
        BY <1>3, AllocatedIsNat DEF RecordsInv
      <4>. QED  BY <1>2, <4>1, <4>2
    <3>. QED  BY <3>1, <3>2
  <2>. QED  BY <1>2, <2>1 DEF HasRoom
<1>. QED  BY <1>1, <1>5, <1>6, <1>7, CheckKeeps

LEMMA ValueKeeps ==
  ASSUME RecordsInv, NEW o \in Settled, NEW bound \in BOOLEAN, Value(o, bound)
  PROVE  RecordsInv'
<1>1. PICK issued, v :
        /\ issued \in Now
        /\ v = [table |-> "evidence", order |-> o, bound |-> bound, issued |-> issued]
        /\ bound => Binds(o, issued)
        /\ Check(v)
  BY Zenon DEF Value, SigningTimes
<1>2. final \in Nat
  BY BlocksAreNat DEF RecordsInv, RecordTypes
<1>3. v \in Valuations
  BY <1>1, <1>2 DEF Valuations, Now
<1>4. v \in Rows
  BY <1>3 DEF Rows
<1>5. v.table = "evidence" /\ v.order = o /\ v.bound = bound /\ v.issued = issued
  BY <1>1
<1>6. Checked(v) /\ HasRoom(v)
  BY <1>1, <1>5 DEF Checked, HasRoom
<1>. QED  BY <1>1, <1>4, <1>6, CheckKeeps

LEMMA RefundKeeps ==
  ASSUME RecordsInv, NEW o \in Settled, NEW t \in DOMAIN trade.transfer, Refund(o, t)
  PROVE  RecordsInv'
<1>1. PICK v : v = [table |-> "refunds", order |-> o, transfer |-> t]
  OBVIOUS
<1>2. v.table = "refunds" /\ v.order = o /\ v.transfer = t
  BY <1>1
<1>3. v \in Refunds
  BY <1>1 DEF Refunds
<1>4. v \in Rows
  BY <1>3 DEF Rows
<1>5. Refunded(rows, o) + Amount(t) <= Principal /\ Check(v)
  BY <1>1 DEF Refund
<1>6. Checked(v) /\ HasRoom(v)
  BY <1>2, <1>5 DEF Checked, HasRoom
<1>. QED  BY <1>4, <1>5, <1>6, CheckKeeps

LEMMA ReviewKeeps ==
  ASSUME RecordsInv, NEW o \in Settled, NEW r \in Reviewers, Review(o, r)
  PROVE  RecordsInv'
<1>1. PICK v : v = [table |-> "reviews", order |-> o, reviewer |-> r]
  OBVIOUS
<1>2. v \in Reviews /\ Check(v)
  BY <1>1 DEF Reviews, Review
<1>3. v \in Rows /\ v.table = "reviews"
  BY <1>1, <1>2 DEF Rows
<1>4. Checked(v) /\ HasRoom(v)
  BY <1>3 DEF Checked, HasRoom
<1>. QED  BY <1>2, <1>3, <1>4, CheckKeeps

LEMMA DisputeKeeps ==
  ASSUME RecordsInv, NEW o \in Settled, Dispute(o)
  PROVE  RecordsInv'
<1>1. PICK v : v = [table |-> "disputes", order |-> o]
  OBVIOUS
<1>2. v \in Disputes /\ Check(v)
  BY <1>1 DEF Disputes, Dispute
<1>3. v \in Rows /\ v.table = "disputes"
  BY <1>1, <1>2 DEF Rows
<1>4. Checked(v) /\ HasRoom(v)
  BY <1>3 DEF Checked, HasRoom
<1>. QED  BY <1>2, <1>3, <1>4, CheckKeeps

LEMMA InsertKeeps ==
  ASSUME RecordsInv, NEW row \in open, Insert(row)
  PROVE  RecordsInv'
<1>1. /\ open' = open \ {row} /\ UNCHANGED <<trade, final, trusted, index, indexer>>
      /\ rows' = IF Recorded(row) THEN rows ELSE rows \cup {row}
  BY DEF Insert
<1>2. RecordTypes /\ OneEach /\ trade \in Histories
  BY DEF RecordsInv, RecordTypes
<1>3. Rows' = Rows /\ Blocks' = Blocks /\ Settled' = Settled
  BY <1>1, SameTrade
<1>4. CASE Recorded(row)
  <2>1. UNCHANGED <<trade, rows>> /\ open' \in SUBSET open /\ index.cursor <= index'.cursor
    BY <1>1, <1>2, <1>4 DEF RecordTypes
  <2>2. RecordTypes'
    BY <1>1, <1>2, <1>3, <2>1 DEF RecordTypes
  <2>3. Closed(index.seen)' /\ (indexer.at = 4 => Closed(indexer.seen))'
    BY <1>1 DEF RecordsInv, Closed
  <2>. QED  BY <2>1, <2>2, <2>3, TablesKept
<1>5. CASE ~Recorded(row)
  <2>1. PICK T : T = rows \cup {row}
    OBVIOUS
  <2>2. rows' = T
    BY <1>1, <1>5, <2>1
  <2>3. /\ rows \in SUBSET Rows /\ IsFiniteSet(rows) /\ row \in Rows /\ open \in SUBSET Rows
        /\ T \in SUBSET Rows /\ IsFiniteSet(T)
    BY <1>2, <2>1, FS_AddElement DEF RecordTypes
  <2>4. row \notin rows
    BY <1>5 DEF Recorded, SameKey
  <2>5. RecordTypes'
    <3>1. index' \in [cursor : 0 .. final, seen : SUBSET T, trusted : SUBSET Reviewers,
                      complete : BOOLEAN]
      BY <1>1, <1>2, <2>1 DEF RecordTypes
    <3>2. indexer' \in [at : 0 .. 4, final : 0 .. final, seen : SUBSET T,
                        trusted : SUBSET Reviewers]
      BY <1>1, <1>2, <2>1 DEF RecordTypes
    <3>3. final' \in Blocks' /\ trade' \in Histories /\ trusted' \subseteq Reviewers
      BY <1>1, <1>2, <1>3 DEF RecordTypes
    <3>4. open' \in SUBSET Rows
      BY <1>1, <2>3
    <3>. QED  BY <1>1, <1>3, <2>2, <2>3, <3>1, <3>2, <3>3, <3>4 DEF RecordTypes
  <2>6. OneEach'
    BY <1>1, <1>2 DEF OneEach, SameLock, Recovery
  <2>7. ASSUME NEW r \in rows' \cup open' PROVE Checked(r)'
    <3>1. Checked(r)
      BY <1>1, <2>1, <2>2, <2>7 DEF RecordsInv
    <3>2. Binds(r.order, r.issued) => Binds(r.order, r.issued)'
      BY <2>1, <2>2 DEF Binds, Of
    <3>. QED  BY <1>1, <3>1, <3>2, SameTrade DEF Checked
  <2>8. ASSUME NEW i
        PROVE  Allocated(rows, i)' = Allocated(T, i) /\ Refunded(rows, i)' = Refunded(T, i)
    BY <1>1, <2>2, SameSums
  <2>9. ASSUME NEW i \in Settled
        PROVE  /\ row.table # "accounts" => Allocated(rows, i)' = Allocated(rows, i)
               /\ row.table = "accounts" => Allocated(rows, i)' = Allocated(rows, i) + row.inputs[i]
    BY <2>1, <2>3, <2>4, <2>8, AllocatedWithOne, Zenon
  <2>10. ASSUME NEW i
         PROVE  /\ ~ (row.table = "refunds" /\ row.order = i) =>
                     Refunded(rows, i)' = Refunded(rows, i)
                /\ row.table = "refunds" /\ row.order = i
                     => Refunded(rows, i)' = Refunded(rows, i) + Amount(row.transfer)
    BY <1>2, <2>1, <2>3, <2>4, <2>8, RefundedWithOne, Zenon
  <2>11. ASSUME NEW r \in open' PROVE HasRoom(r)'
    <3>1. r \in open /\ r # row /\ HasRoom(r) /\ ~SameLock(r, row)
      BY <1>1, <1>2, <2>11 DEF RecordsInv, OneEach
    <3>2. r.table = "accounts" => row.table # "accounts"
      BY <3>1 DEF SameLock
    <3>3. r.table = "refunds" => ~ (row.table = "refunds" /\ row.order = r.order)
      BY <3>1 DEF SameLock, Recovery
    <3>4. ASSUME r.table = "accounts", NEW i \in Settled
          PROVE  Allocated(rows, i)' + r.inputs[i] <= Principal
      BY <2>9, <3>1, <3>2, <3>4 DEF HasRoom
    <3>5. ASSUME r.table = "refunds"
          PROVE  Refunded(rows, r.order)' + Amount(r.transfer) <= Principal
      BY <2>10, <3>1, <3>3, <3>5 DEF HasRoom
    <3>6. Amount(r.transfer)' = Amount(r.transfer)
      BY <1>1, SameTrade
    <3>. QED  BY <1>3, <3>4, <3>5, <3>6 DEF HasRoom
  <2>12. \A a, b \in rows' : SameKey(a, b)' => a = b
    <3>1. \A a \in rows : ~SameKey(row, a) /\ ~SameKey(a, row)
      BY <1>5 DEF Recorded, SameKey
    <3>2. \A a, b : SameKey(a, b)' <=> SameKey(a, b)
      BY DEF SameKey
    <3>3. \A a, b \in rows : SameKey(a, b) => a = b
      BY DEF RecordsInv
    <3>4. \A a \in rows' : a \in rows \/ a = row
      BY <2>1, <2>2
    <3>. QED  BY <3>1, <3>2, <3>3, <3>4
  <2>13. ASSUME NEW i \in Settled'
         PROVE  Allocated(rows, i)' <= Principal /\ Refunded(rows, i)' <= Principal
    <3>1. /\ i \in Settled /\ HasRoom(row)
          /\ Allocated(rows, i) <= Principal /\ Refunded(rows, i) <= Principal
      BY <1>3, <2>13 DEF RecordsInv
    <3>2. Allocated(rows, i)' <= Principal
      BY <2>9, <3>1 DEF HasRoom
    <3>3. Refunded(rows, i)' <= Principal
      BY <2>10, <3>1 DEF HasRoom
    <3>. QED  BY <3>2, <3>3
  <2>14. Closed(index.seen)' /\ (indexer.at = 4 => Closed(indexer.seen))'
    BY <1>1 DEF RecordsInv, Closed
  <2>. QED  BY <2>5, <2>6, <2>7, <2>11, <2>12, <2>13, <2>14 DEF RecordsInv
<1>. QED  BY <1>4, <1>5

\* Requests and the indexer end, blocks are finalized, reviewers are no longer trusted.
LEMMA OthersKeep ==
  ASSUME RecordsInv,
         \/ \E row \in open : RollBack(row)
         \/ StartIndexing \/ IndexingFails \/ Finalize \/ Distrust
         \/ UNCHANGED recordVars
  PROVE  RecordsInv'
<1>1. RecordTypes /\ trade \in Histories
  BY DEF RecordsInv, RecordTypes
<1>2. /\ UNCHANGED <<trade, rows, index>> /\ open' \in SUBSET open
      /\ indexer' \in {indexer, [at |-> 1, final |-> final, seen |-> {}, trusted |-> trusted], Free}
      /\ final' = final \/ (final < Len(trade.log) /\ final' = final + 1 /\ UNCHANGED indexer)
      /\ trusted' \in {trusted, {}}
  BY DEF RollBack, StartIndexing, IndexingFails, Finalize, Distrust, recordVars
<1>3. /\ Len(trade.log) \in Nat /\ Blocks = 0 .. Len(trade.log) /\ final \in 0 .. Len(trade.log)
  BY <1>1, BlocksAreNat DEF RecordTypes
<1>4. final' \in Blocks /\ final <= final' /\ final' \in Nat
  BY <1>2, <1>3
<1>5. RecordTypes'
  <2>1. index' \in [cursor : 0 .. final', seen : SUBSET rows, trusted : SUBSET Reviewers,
                    complete : BOOLEAN]
    BY <1>1, <1>2, <1>3, <1>4 DEF RecordTypes
  <2>2. indexer' \in [at : 0 .. 4, final : 0 .. final', seen : SUBSET rows,
                      trusted : SUBSET Reviewers]
    <3>1. CASE indexer' = indexer
      BY <1>1, <1>3, <1>4, <3>1 DEF RecordTypes
    <3>2. CASE indexer' # indexer
      BY <1>1, <1>2, <1>3, <1>4, <3>2 DEF RecordTypes, Free
    <3>. QED  BY <3>1, <3>2
  <2>3. Rows' = Rows /\ Blocks' = Blocks
    BY <1>2, SameTrade
  <2>. QED  BY <1>1, <1>2, <1>4, <2>1, <2>2, <2>3 DEF RecordTypes
<1>6. index.cursor <= index'.cursor
  BY <1>1, <1>2 DEF RecordTypes
<1>7. Closed(index.seen)' /\ (indexer.at = 4 => Closed(indexer.seen))'
  <2>1. indexer'.at = 4 => indexer' = indexer
    BY <1>2 DEF Free
  <2>. QED  BY <1>2, <2>1 DEF RecordsInv, Closed
<1>. QED  BY <1>2, <1>5, <1>6, <1>7, TablesKept

LEMMA ReadTableKeeps ==
  ASSUME RecordsInv, ReadTable
  PROVE  RecordsInv'
<1>1. RecordTypes /\ trade \in Histories
  BY DEF RecordsInv, RecordTypes
<1>2. indexer.at \in 1 .. 3
  BY DEF ReadTable, Tables
<1>3. PICK k, S : k = indexer.at /\ S = RowsIn(Tables[k])
  OBVIOUS
<1>4. /\ indexer' = [indexer EXCEPT !.at = k + 1, !.seen = indexer.seen \cup S]
      /\ UNCHANGED <<trade, final, trusted, rows, open, index>>
  BY <1>3 DEF ReadTable
<1>5. S \subseteq rows
  BY <1>3 DEF RowsIn
<1>6. indexer' = [at |-> k + 1, final |-> indexer.final, seen |-> indexer.seen \cup S,
                  trusted |-> indexer.trusted]
  BY <1>1, <1>4 DEF RecordTypes
<1>7. RecordTypes'
  <2>1. indexer' \in [at : 0 .. 4, final : 0 .. final, seen : SUBSET rows,
                      trusted : SUBSET Reviewers]
    <3>1. k + 1 \in 0 .. 4
      BY <1>2, <1>3
    <3>2. /\ indexer.final \in 0 .. final /\ indexer.seen \cup S \in SUBSET rows
          /\ indexer.trusted \in SUBSET Reviewers
      BY <1>1, <1>5 DEF RecordTypes
    <3>. QED  BY <1>6, <3>1, <3>2
  <2>2. Rows' = Rows /\ Blocks' = Blocks
    BY <1>4, SameTrade
  <2>. QED  BY <1>1, <1>4, <2>1, <2>2 DEF RecordTypes
<1>8. ASSUME indexer'.at = 4
      PROVE  Closed(indexer'.seen)
  <2>1. k = 3 /\ S = {row \in rows : row.table = "accounts"}
    <3>1. k = 3
      BY <1>2, <1>3, <1>6, <1>8
    <3>. QED  BY <1>3, <3>1 DEF Tables, RowsIn
  <2>2. ASSUME NEW v \in indexer'.seen, v.table = "evidence", v.bound
        PROVE  \E account \in indexer'.seen :
                 account.table = "accounts" /\ account.order = v.order /\ v.issued >= account.issued
    <3>1. v \in rows
      BY <1>7, <2>2, <1>4 DEF RecordTypes
    <3>2. Binds(v.order, v.issued)
      BY <2>2, <3>1 DEF RecordsInv, Checked
    <3>. QED  BY <1>6, <2>1, <3>2 DEF Binds, Of
  <2>. QED  BY <2>2 DEF Closed
<1>9. index.cursor <= index'.cursor /\ Closed(index.seen)'
  BY <1>1, <1>4 DEF RecordsInv, RecordTypes, Closed
<1>10. (indexer.at = 4 => Closed(indexer.seen))'
  BY <1>8 DEF Closed
<1>. QED  BY <1>4, <1>7, <1>9, <1>10, TablesKept

LEMMA PublishKeeps ==
  ASSUME RecordsInv, Publish
  PROVE  RecordsInv'
<1>1. RecordTypes /\ trade \in Histories
  BY DEF RecordsInv, RecordTypes
<1>2. indexer.at = 4 /\ indexer' = Free /\ UNCHANGED <<trade, final, trusted, rows, open>>
  BY DEF Publish, Tables
<1>3. Rows' = Rows /\ Blocks' = Blocks
  BY <1>2, SameTrade
<1>4. Closed(index.seen) /\ Closed(indexer.seen)
  BY <1>2 DEF RecordsInv
<1>5. final \in Nat
  BY <1>1, BlocksAreNat DEF RecordTypes
<1>6. /\ index' \in [cursor : 0 .. final, seen : SUBSET rows, trusted : SUBSET Reviewers,
                     complete : BOOLEAN]
      /\ index.cursor <= index'.cursor
      /\ Closed(index'.seen)
  <2>1. CASE UNCHANGED index
    BY <1>1, <1>4, <1>5, <2>1 DEF RecordTypes
  <2>2. ASSUME NEW to \in Reach, NEW complete \in Completeness, index' = Snapshot(to, complete)
        PROVE  /\ index' \in [cursor : 0 .. final, seen : SUBSET rows, trusted : SUBSET Reviewers,
                              complete : BOOLEAN]
               /\ index.cursor <= index'.cursor
               /\ Closed(index'.seen)
    <3>1. complete \in BOOLEAN
      BY DEF Completeness
    <3>2. /\ index.cursor \in 0 .. final /\ indexer.final \in 0 .. final
          /\ indexer.seen \in SUBSET rows /\ indexer.trusted \in SUBSET Reviewers
      BY <1>1 DEF RecordTypes
    <3>3. to \in 0 .. final /\ index.cursor <= to
      BY <1>5, <3>2 DEF Reach
    <3>4. index' = [cursor |-> to, seen |-> indexer.seen, trusted |-> indexer.trusted,
                    complete |-> complete]
      BY <2>2 DEF Snapshot
    <3>5. Closed(index'.seen)
      BY <1>4, <3>4
    <3>. QED  BY <3>1, <3>2, <3>3, <3>4, <3>5
  <2>. QED  BY <2>1, <2>2 DEF Publish
<1>7. RecordTypes'
  <2>1. Free \in [at : 0 .. 4, final : 0 .. final, seen : SUBSET rows, trusted : SUBSET Reviewers]
    BY <1>5 DEF Free
  <2>. QED  BY <1>1, <1>2, <1>3, <1>6, <2>1 DEF RecordTypes
<1>8. (indexer.at = 4 => Closed(indexer.seen))' /\ Closed(index.seen)'
  BY <1>2, <1>6 DEF Free, Closed
<1>. QED  BY <1>2, <1>6, <1>7, <1>8, TablesKept

LEMMA RecordsMean == RecordsInv => BooksAreTrue
<1>. SUFFICES ASSUME RecordsInv PROVE BooksAreTrue
  OBVIOUS
<1>1. RecordTypes /\ trade \in Histories
  BY DEF RecordsInv, RecordTypes
<1>2. /\ rows \in SUBSET Rows /\ open \in SUBSET Rows /\ index.seen \in SUBSET rows
      /\ indexer.seen \in SUBSET rows /\ index.complete \in BOOLEAN /\ indexer.at \in 0 .. 4
      /\ index.cursor \in 0 .. final /\ final \in Blocks /\ trusted \subseteq Reviewers
  BY <1>1 DEF RecordTypes
<1>3. \A row \in rows : Checked(row)
  BY DEF RecordsInv
<1>4. RecordsTypeOK
  <2>1. Len(Tables) = 3
    BY DEF Tables
  <2>2. index.cursor \in Blocks
    BY <1>1, <1>2, BlocksAreNat
  <2>3. ASSUME NEW row \in Rows PROVE row.table \in UNION Range(Tables)
    <3>1. /\ row.table \in Tables[1] \/ row.table \in Tables[2] \/ row.table \in Tables[3]
          /\ DOMAIN Tables = 1 .. 3
      BY DEF Tables, Recovery, Rows, Accounts, Valuations, Refunds, Reviews, Disputes
    <3>2. Tables[1] \in Range(Tables) /\ Tables[2] \in Range(Tables) /\ Tables[3] \in Range(Tables)
      <4>. HIDE DEF Tables
      <4>. QED  BY <3>1 DEF Range
    <3>. QED  BY <3>1, <3>2, Zenon
  <2>4. \A row \in rows \cup open : row.table \in UNION Range(Tables)
    BY <1>2, <2>3, Zenon
  <2>. QED  BY <1>2, <2>1, <2>2, <2>4 DEF RecordsTypeOK
<1>5. RecordsAreTrue
  <2>1. ASSUME NEW account \in Of("accounts", rows), NEW i \in Consumed(account)
        PROVE  Acknowledged(i) < Delivered(account.order)
    <3>1. account.table = "accounts" /\ account \in rows
      BY DEF Of
    <3>. QED  BY <1>3, <3>1 DEF Checked
  <2>2. /\ \A a, b \in rows : SameKey(a, b) => a = b
        /\ \A i \in Settled : Allocated(rows, i) <= Principal /\ Refunded(rows, i) <= Principal
    BY DEF RecordsInv
  <2>. QED  BY <2>1, <2>2, Zenon DEF RecordsAreTrue
<1>6. SnapshotIsClosed
  <2>1. index.cursor \in Nat
    BY <1>1, <1>2, BlocksAreNat
  <2>2. ASSUME NEW v \in Projected("evidence"), v.bound
        PROVE  \E account \in Projected("accounts") : account.order = v.order
    <3>1. v \in index.seen /\ v.table = "evidence" /\ v.issued <= index.cursor
      BY DEF Projected, Of
    <3>2. PICK account \in index.seen :
            account.table = "accounts" /\ account.order = v.order /\ v.issued >= account.issued
      BY <2>2, <3>1 DEF RecordsInv, Closed
    <3>3. v \in Rows /\ account \in Rows
      BY <1>2, <3>1, <3>2
    <3>4. v.issued \in Nat /\ account.issued \in Nat
      BY <3>1, <3>2, <3>3 DEF Rows, Accounts, Valuations, Refunds, Reviews, Disputes
    <3>5. account.issued <= index.cursor
      BY <2>1, <3>1, <3>2, <3>4
    <3>. QED  BY <3>2, <3>5 DEF Projected, Of
  <2>3. ASSUME NEW account \in Projected("accounts"),
               NEW o \in {account.order} \cup Consumed(account)
        PROVE  Acknowledged(o) <= index.cursor
    <3>1. account \in rows /\ account.table = "accounts"
      BY <1>2 DEF Projected, Of
    <3>2. Checked(account)
      BY <1>3, <3>1
    <3>. QED  BY <2>3, <3>1, <3>2, Zenon DEF Checked
  <2>. QED  BY <2>2, <2>3, Zenon DEF SnapshotIsClosed
<1>. QED  BY <1>4, <1>5, <1>6 DEF BooksAreTrue

LEMMA RecordsInductive == RecordsInv /\ [MarketplaceNext]_allVars => RecordsInv'
<1>. SUFFICES ASSUME RecordsInv, [MarketplaceNext]_allVars PROVE RecordsInv'
  OBVIOUS
<1>1. CASE UNCHANGED recordVars
  BY <1>1, OthersKeep
<1>2. CASE RecordsNext
  <2>1. CASE Record
    <3>1. PICK o \in Settled :
            \/ StateAccount(o) \/ Dispute(o)
            \/ \E bound \in BOOLEAN : Value(o, bound)
            \/ \E t \in DOMAIN trade.transfer : Refund(o, t)
            \/ \E r \in Reviewers : Review(o, r)
      BY <2>1 DEF Record
    <3>2. CASE StateAccount(o)
      BY <3>2, StateAccountKeeps
    <3>3. CASE Dispute(o)
      BY <3>3, DisputeKeeps
    <3>4. CASE \E bound \in BOOLEAN : Value(o, bound)
      BY <3>4, ValueKeeps
    <3>5. CASE \E t \in DOMAIN trade.transfer : Refund(o, t)
      BY <3>5, RefundKeeps
    <3>6. CASE \E r \in Reviewers : Review(o, r)
      BY <3>6, ReviewKeeps
    <3>. QED  BY <3>1, <3>2, <3>3, <3>4, <3>5, <3>6
  <2>2. CASE InsertAny
    BY <2>2, InsertKeeps DEF InsertAny
  <2>3. CASE ReadTable
    BY <2>3, ReadTableKeeps
  <2>4. CASE Publish
    BY <2>4, PublishKeeps
  <2>5. CASE \/ StartIndexing \/ IndexingFails \/ Finalize \/ Distrust
             \/ \E row \in open : RollBack(row)
    BY <2>5, OthersKeep
  <2>. QED  BY <1>2, <2>1, <2>2, <2>3, <2>4, <2>5 DEF RecordsNext, IndexEconomy
<1>3. UNCHANGED recordVars \/ RecordsNext
  BY DEF MarketplaceNext, allVars
<1>. QED  BY <1>1, <1>2, <1>3

\* recordProductionAccount, ingestEvidence, recoveryAction and indexEconomy: whatever is
\* finalized, requested, read and rolled back in between, no purchase is consumed twice or
\* before it was there, no more is refunded than was paid, and the published snapshot shows
\* no valuation without its account and no account without its sale and its inputs.
THEOREM RecordsCorrect == MarketplaceSpec => []BooksAreTrue
<1>1. MarketplaceInit => RecordsInv
  BY RecordsStart DEF MarketplaceInit
<1>. QED  BY <1>1, RecordsInductive, RecordsMean, PTL DEF MarketplaceSpec
==============================================================================
