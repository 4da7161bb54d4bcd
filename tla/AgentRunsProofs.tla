------------------------------ MODULE AgentRunsProofs ------------------------------
(***************************************************************************)
(* Proofs about AgentRuns, for any number of runners, mandates, jobs,      *)
(* requests, wallets, visitors and calls, any limits and budgets, and any  *)
(* set of events: AuthorityIsKept and OutcomesAreTrue are invariants.      *)
(***************************************************************************)
EXTENDS AgentRuns, FiniteSetTheorems, WellFoundedInduction, TLAPS

-----------------------------------------------------------------------------
(* The invariant: the platform.                                            *)

\* A set of numbers that were given out one after another.
Numbered(s) == s = 1 .. Cardinality(s)

Made == {m \in Mandates : mandate[m].made}
EverPaired == {r \in Runners : runner[r].paired # "no"}
JobsOf(m) == {i \in Created : job[i].mandate = m}

JobsNumbered == Numbered(Created) /\ Numbered(Made) /\ Numbered(EverPaired)

JobSound(i) ==
  /\ i \in Created => job[i].mandate \in Made
  /\ i \notin Created => job[i].mandate = None
  /\ job[i].status \in {"none", "queued"} => job[i].runner = None
  /\ job[i].status \in {"none", "queued", "running"} => job[i].result = None
  /\ job[i].status = "running" => job[i].runner # None /\ mandate[job[i].mandate].approved
  /\ job[i].runner # None => job[i].runner \in EverPaired

MandateSound(m) ==
  /\ mandate[m].approved => mandate[m].made
  /\ ~mandate[m].made => mandate[m].terms = 0
  /\ mandate[m].terms <= Len(revisions)
  /\ Cardinality(JobsOf(m)) = mandate[m].reserved
  /\ mandate[m].reserved <= MaxRuns[m]

JobsSound ==
  /\ JobsTypeOK /\ JobsNumbered /\ OneActiveMandate
  /\ \A i \in Jobs : JobSound(i)
  /\ \A m \in Mandates : MandateSound(m)

\* A job that was used after its authority was withdrawn never has it again.
Begun(i) == job[i].status \notin {"none", "queued"}
Withdrawn(i) == Begun(i) /\ ~Authorized(job[i].runner, i)
LateSound ==
  /\ late \in [Jobs -> {0, 1}]
  /\ \A i \in Jobs : late[i] = 1 => Withdrawn(i)
  /\ At("authorized") => late[host.job] = 0

-----------------------------------------------------------------------------
(* The market and the broker.                                              *)

\* Attempts of one order have tokens of their own; the one whose ninety seconds run
\* holds the order's until the order is fulfilled.
Asks(h) == attempt[h].at = "asking"
AttemptSound(h) ==
  LET o == order[attempt[h].job] IN
  /\ attempt[h].at = "idle" => attempt[h].by = "gone"
  /\ attempt[h].ok => o.status = "fulfilled"
  /\ Asks(h) => attempt[h].token \in 1 .. o.attempts
  /\ Asks(h) /\ attempt[h].fresh /\ o.status = "paid" => o.leased /\ o.token = attempt[h].token

TokensDiffer ==
  \A g, h \in Handlers :
    Asks(g) /\ Asks(h) /\ attempt[g].job = attempt[h].job /\ g # h =>
      attempt[g].token # attempt[h].token

MarketSound ==
  /\ MarketTypeOK /\ TokensDiffer /\ AttemptsExclude /\ OrdersArePaid
  /\ \A h \in Handlers : AttemptSound(h)
  /\ \A i \in Jobs :
       /\ order[i].status # "none" => i \in Created /\ AtMarket(i)
       /\ order[i].status \in {"none", "quoted"} => order[i].attempts = 0

\* The broker listens to the one attempt that is its own.
Listens ==
  /\ \A g, h \in Handlers : attempt[g].by = "broker" /\ attempt[h].by = "broker" => g = h
  /\ \A h \in Handlers : attempt[h].by = "broker" =>
       broker.at = "confirming" /\ attempt[h].job = broker.job

\* What a job's money has come to.
Verified(i) == IF AtMarket(i) THEN order[i].status = "fulfilled" ELSE transfer[i] \in {"mined", "late"}

IntentSound(i) ==
  /\ intent[i]["data"] = "settled" => i \in bought
  /\ i \in bought => intent[i]["data"] # "none"
  /\ \A k \in Kinds : intent[i][k] # "none" \/ <<i, k>> \in asked =>
       /\ i \in Created
       /\ k # "data" => intent[i]["data"] = "settled"
       /\ k = "verify" => intent[i]["report"] = "settled"
  /\ intent[i]["verify"] = "settled" => Verified(i)
  /\ transfer[i] # "none" =>
       /\ intent[i]["verify"] # "none"
       /\ AtMarket(i) => order[i].status # "none" /\ checkpoint[i] \notin {"none", "quoted"}

\* What each step of the broker's operation knows.
Verifying == {"quoted", "submitting", "sent", "submitted", "paid", "confirming"}
OperationSound ==
  LET i == broker.job IN
  /\ broker.at \in Operations => intent[i][broker.kind] = "pending"
  /\ broker.at \in Verifying => broker.kind = "verify"
  /\ broker.at \in {"quoted", "submitting", "paid", "confirming"} =>
       AtMarket(i) /\ order[i].status # "none"
  /\ broker.at = "submitting" => checkpoint[i] = "submitting"
  /\ broker.at \in {"sent", "submitted"} => transfer[i] # "none"
  /\ broker.at = "settle" /\ broker.kind = "data" => i \in bought
  /\ broker.at = "settle" /\ broker.kind = "verify" => Verified(i)

BudgetKept == \A k \in {"data", "verify"} : Reserved(k) <= Budget[k]

BrokerSound ==
  /\ BrokerTypeOK /\ Listens /\ OperationSound /\ BudgetKept
  /\ \A i \in Jobs : IntentSound(i)

-----------------------------------------------------------------------------
(* The runner.                                                             *)

Untouched(i, k) == intent[i][k] = "none" /\ <<i, k>> \notin asked
Done(i, k) == intent[i][k] = "settled" /\ <<i, k>> \notin asked

\* The capabilities before and after the one of a stage.
Earlier(stage) ==
  CASE stage = "report" -> {"data"} [] stage = "verification" -> {"data", "report"}
    [] stage = "complete" -> Kinds [] OTHER -> {}
ToCome(stage) ==
  CASE stage \in {"mandate", "discovery"} -> Kinds [] stage = "purchase" -> {"report", "verify"}
    [] stage = "report" -> {"verify"} [] OTHER -> {}

\* A run's record tells which capabilities its job has had.
Tells(i, run) ==
  /\ \A k \in Earlier(run.stage) \cup run.receipts : Done(i, k)
  /\ \A k \in ToCome(run.stage) : Untouched(i, k)
  /\ run.status = "completed" => run.stage = "complete"
  /\ run.status = "awaiting_approval" => run.stage = "purchase" /\ Untouched(i, "data")

DiskSound(i) ==
  /\ disk[i].state = "none" => \A k \in Kinds : Untouched(i, k)
  /\ disk[i].state # "none" => Begun(i) /\ Tells(i, disk[i].run)
  /\ disk[i].state = "started" => job[i].status = "running"
  /\ disk[i].state = "acknowledged" => job[i].result = disk[i].run

StatusSound(i) ==
  /\ job[i].status = "succeeded" => \A k \in Kinds : Done(i, k)
  /\ job[i].status \in {"failed", "blocked"} =>
       \A k \in {"data", "verify"} : Untouched(i, k) \/ Done(i, k)

\* What each place in the runner's cycle knows of the job at hand.
Executing == {"advance", "authorized", "waiting", "checkpoint", "finish"}
CycleSound ==
  LET i == host.job IN
  /\ At("off") \/ host.runner \in Runners
  /\ At("authorized") \/ At("waiting") => host.run.stage \in PaidStages
  /\ At("claimed") \/ host.at \in Executing => job[i].status = "running" /\ job[i].runner = host.runner
  /\ host.at \in Executing => disk[i].state = "started"
  /\ host.at \in {"advance", "authorized", "waiting"} =>
       host.run = disk[i].run /\ host.run.status = "running"
  /\ host.at \in {"checkpoint", "finish"} => Tells(i, host.run)
  /\ At("finish") => host.run.status # "running"
  /\ At("advance") \/ At("authorized") \/ (At("checkpoint") /\ host.run.status = "running") =>
       (host.run.stage \in PaidStages => Untouched(i, Kind))
  /\ At("acknowledge") => disk[i].state = "finished" /\ job[i].result = disk[i].run

HostSound ==
  /\ HostTypeOK /\ CycleSound
  /\ \A i \in Jobs : DiskSound(i) /\ StatusSound(i)

WorkSound == JobsSound /\ LateSound /\ MarketSound /\ BrokerSound /\ HostSound

-----------------------------------------------------------------------------
(* Hosted runs.                                                            *)

HostedRun == [owner : Visitors, status : {"ready", "running", "paused", "awaiting_approval",
                                          "failed", "completed"},
              stage : Stages, receipts : SUBSET {"data", "verify"},
              version : 1 .. MaxVersions, marked : BOOLEAN]

VisitsTypes ==
  /\ hosted \in Seq(HostedRun) /\ Len(hosted) <= ServerRuns
  /\ visit \in [Visits -> [at : {"idle", "acting", "waiting"}, run : Nat, does : Does,
                           copy : HostedRun \cup {{}}]]
  /\ begun \in [1 .. ServerRuns -> [Kinds -> Nat]]

\* A run's operations are those of the stages it has left behind.
Fits(i, run) ==
  /\ \A k \in Kinds : begun[i][k] = IF k \in Earlier(run.stage) THEN 1 ELSE 0
  /\ run.receipts = Earlier(run.stage) \ {"report"}

VisitSound(h) ==
  LET i == visit[h].run
      run == visit[h].copy
  IN visit[h].at # "idle" =>
       /\ i \in DOMAIN hosted /\ hosted[i].marked /\ run \in HostedRun
       /\ visit[h].at = "acting" /\ run.status # "failed" => Fits(i, run)
       /\ visit[h].at = "waiting" =>
            /\ run.stage \in PaidStages /\ run.status = "running"
            /\ \A k \in Kinds :
                 begun[i][k] = IF k \in Earlier(run.stage) \cup {KindOf(run.stage)} THEN 1 ELSE 0
            /\ run.receipts = Earlier(run.stage) \ {"report"}

RunSound(i) ==
  /\ \A k \in Kinds : begun[i][k] <= 1
  /\ i \in DOMAIN hosted /\ ~hosted[i].marked /\ hosted[i].status # "failed" => Fits(i, hosted[i])
  /\ i \notin DOMAIN hosted => \A k \in Kinds : begun[i][k] = 0

VisitsSound ==
  /\ VisitsTypes
  /\ \A h \in Visits : VisitSound(h)
  /\ \A g, h \in Visits : g # h /\ visit[g].at # "idle" /\ visit[h].at # "idle" =>
       Serverless /\ visit[g].run # visit[h].run
  /\ \A i \in 1 .. ServerRuns : RunSound(i)

-----------------------------------------------------------------------------
(* Accounts.                                                               *)

Challenge == [wallet : Wallets, state : {"live", "used", "expired"}]
Session == [wallet : Wallets, from : Nat, live : BOOLEAN]
Key == [agent : Nat, for : Wallets, state : {"active", "revoked", "expired"}]
Call == [does : {"none", "redeem", "agent", "key", "insert agent", "insert key"}, on : Nat,
         wallet : Wallets \cup {""}, room : BOOLEAN]

AccountsTypes ==
  /\ challenge \in Seq(Challenge) /\ session \in Seq(Session)
  /\ owner \in Seq(Wallets) /\ key \in Seq(Key)
  /\ call \in [Calls -> Call]

SessionsSound ==
  /\ \A s \in DOMAIN session : session[s].from \in DOMAIN challenge
  /\ OneSessionPerChallenge

CallSound(h) ==
  LET c == call[h] IN
  /\ c.does = "redeem" => c.on \in DOMAIN challenge
  /\ c.does \in {"agent", "insert agent"} => c.wallet \in Wallets
  /\ c.does \in {"key", "insert key"} =>
       c.on \in DOMAIN owner /\ c.wallet \in Wallets /\ owner[c.on] = c.wallet
  /\ c.does = "insert agent" /\ c.room => Cardinality(AgentsOf(c.wallet)) < AgentLimit
  /\ c.does = "insert key" /\ c.room => Cardinality(ActiveKeys(c.on)) < KeyLimit

LocksHeld ==
  \A g, h \in Calls : g # h =>
    /\ call[g].does = "insert agent" /\ call[h].does = "insert agent" => call[g].wallet # call[h].wallet
    /\ call[g].does = "insert key" /\ call[h].does = "insert key" => call[g].on # call[h].on

AccountsSound ==
  /\ AccountsTypes /\ SessionsSound /\ LocksHeld /\ QuotasHold
  /\ \A k \in DOMAIN key : key[k].agent \in DOMAIN owner
  /\ \A h \in Calls : CallSound(h)

IInv == WorkSound /\ VisitsSound /\ AccountsSound

-----------------------------------------------------------------------------
(* Numbers that were given out.                                            *)

LEMMA NumberedIsInterval ==
  ASSUME NEW N \in Nat, NEW s \in SUBSET (1 .. N), Numbered(s)
  PROVE  \E n \in Nat : n = Cardinality(s) /\ s = 1 .. n
<1>1. IsFiniteSet(1 .. N)
  BY FS_Interval
<1>2. IsFiniteSet(s)
  BY <1>1, FS_Subset
<1>3. Cardinality(s) \in Nat
  BY <1>2, FS_CardinalityType
<1> QED BY <1>3 DEF Numbered

LEMMA IntervalGrows ==
  ASSUME NEW n \in Nat
  PROVE  /\ (1 .. n) \cup {n + 1} = 1 .. n + 1
         /\ n + 1 \notin 1 .. n
         /\ Cardinality(1 .. n + 1) = n + 1
<1>1. n + 1 \in Nat
  OBVIOUS
<1>2. Cardinality(1 .. n + 1) = n + 1
  BY <1>1, FS_Interval
<1>3. (1 .. n) \cup {n + 1} = 1 .. n + 1
  OBVIOUS
<1> QED BY <1>2, <1>3

LEMMA NextIsNew ==
  ASSUME NEW N \in Nat, NEW s \in SUBSET (1 .. N), Numbered(s), NEW i \in Nat, IsNext(i, s)
  PROVE  i \notin s /\ Numbered(s \cup {i})
<1>2. PICK n \in Nat : n = Cardinality(s) /\ s = 1 .. n
  BY NumberedIsInterval
<1>3. i = n + 1
  BY <1>2 DEF IsNext
<1>4. s \cup {i} = 1 .. n + 1 /\ i \notin s
  BY <1>2, <1>3, IntervalGrows
<1> QED BY <1>4, IntervalGrows DEF Numbered

-----------------------------------------------------------------------------
(* What no request to the platform takes back.                             *)

JobsKept ==
  \A i \in Jobs :
    /\ i \in Created => i \in Created' /\ job'[i].mandate = job[i].mandate
    /\ Begun(i) => job'[i] = job[i]
    /\ ~Begun(i) => job'[i].status \in {"none", "queued", "blocked", "running"}
MandatesKept ==
  \A m \in Made :
    /\ m \in Made' /\ mandate'[m].terms = mandate[m].terms
    /\ mandate[m].approved => mandate'[m].approved
    /\ mandate[m].revoked => mandate'[m].revoked
    /\ mandate'[m].live => mandate[m].live
RunnersKept ==
  \A r \in EverPaired : r \in EverPaired' /\ (Active(r)' => Active(r))
RevisionsKept ==
  revisions' = revisions \/ \E active \in BOOLEAN : revisions' = Append(revisions, active)
Kept == JobsKept /\ MandatesKept /\ RunnersKept /\ RevisionsKept

\* Terms that no longer hold do not hold again.
LEMMA ChangedStays ==
  ASSUME JobsSound, Kept, NEW m \in Made, Unchanged(m)'
  PROVE  Unchanged(m)
<1>1. mandate[m].terms \in Nat /\ mandate[m].terms <= Len(revisions) /\ Len(revisions) \in Nat
      /\ mandate'[m].terms = mandate[m].terms /\ revisions \in Seq(BOOLEAN)
  BY DEF JobsSound, MandateSound, JobsTypeOK, Kept, MandatesKept, Made
<1>2. CASE revisions' = revisions
  BY <1>1, <1>2 DEF Unchanged
<1>3. ASSUME NEW active \in BOOLEAN, revisions' = Append(revisions, active)
      PROVE  Unchanged(m)
  <2>1. Len(revisions') = Len(revisions) + 1
    BY <1>1, <1>3
  <2>2. mandate'[m].terms \in {0, Len(revisions')}
    BY DEF Unchanged
  <2>3. mandate[m].terms = 0
    BY <1>1, <2>1, <2>2
  <2> QED BY <2>3 DEF Unchanged
<1> QED BY <1>2, <1>3 DEF Kept, RevisionsKept

LEMMA EndedStays ==
  ASSUME JobsSound, Kept, NEW m \in Made, mandate[m].approved, Current(m)'
  PROVE  Current(m)
<1>1. mandate'[m].live /\ ~mandate'[m].revoked
  BY DEF Current, Approved
<1>2. mandate[m].live /\ ~mandate[m].revoked
  BY <1>1 DEF Kept, MandatesKept
<1> QED BY <1>2 DEF Current, Approved

\* Authority that is gone does not come back.
LEMMA WithdrawnStays ==
  ASSUME JobsSound, Kept, NEW i \in Jobs, Withdrawn(i)
  PROVE  Withdrawn(i)'
<1>1. Begun(i) /\ job'[i] = job[i]
  BY DEF Kept, JobsKept, Withdrawn
<1>2. Begun(i)'
  BY <1>1 DEF Begun
<1>3. ASSUME Authorized(job[i].runner, i)' PROVE Authorized(job[i].runner, i)
  <2>1. PICK m, r : m = job[i].mandate /\ r = job[i].runner
    OBVIOUS
  <2>2. job[i].status = "running" /\ Active(r)' /\ Current(m)' /\ Unchanged(m)'
    BY <1>1, <1>3, <2>1 DEF Authorized
  <2>3. m \in Made /\ mandate[m].approved /\ r \in EverPaired
    BY <2>1, <2>2 DEF JobsSound, JobSound, Created
  <2>4. Active(r)
    BY <2>2, <2>3 DEF Kept, RunnersKept
  <2>5. Current(m)
    BY <2>2, <2>3, EndedStays
  <2>6. Unchanged(m)
    BY <2>2, <2>3, ChangedStays
  <2> QED BY <2>1, <2>2, <2>4, <2>5, <2>6 DEF Authorized
<1> QED BY <1>2, <1>3 DEF Withdrawn

\* A set of numbers that is not empty has an oldest member.
LEMMA OldestIsMember ==
  ASSUME NEW s \in SUBSET Nat, s # {}
  PROVE  Oldest(s) \in s
<1> DEFINE R == {ss \in Nat \X Nat : ss[1] < ss[2]}
<1>1. IsWellFoundedOn(R, Nat)
  BY NatLessThanWellFounded DEF OpToRel
<1>2. \E x \in s : \A y \in s : ~ (<<y, x>> \in R)
  <2> HIDE DEF R
  <2> QED BY <1>1, WFMin
<1>3. PICK x \in s : \A y \in s : ~ (<<y, x>> \in R)
  BY <1>2
<1>4. ASSUME NEW y \in s PROVE x <= y
  <2>1. x \in Nat /\ y \in Nat /\ <<y, x>> \in Nat \X Nat
    OBVIOUS
  <2>2. ~ (y < x)
    BY <1>3, <2>1
  <2> QED BY <2>1, <2>2
<1> QED BY <1>4 DEF Oldest

-----------------------------------------------------------------------------
(* The steps of the platform.                                              *)

\* A step that changes credentials only.
LEMMA RunnersChange ==
  ASSUME JobsSound, UNCHANGED <<mandate, job, revisions>>,
         runner' \in [Runners -> [paired : {"no", "yes", "revoked"}, seen : BOOLEAN]],
         Numbered(EverPaired)', RunnersKept
  PROVE  JobsSound' /\ Kept
<1>1. JobsTypeOK' /\ JobsNumbered' /\ OneActiveMandate'
  BY DEF JobsSound, JobsTypeOK, JobsNumbered, Created, Made, OneActiveMandate, Approved
<1>2. ASSUME NEW i \in Jobs PROVE JobSound(i)'
  <2>1. JobSound(i) /\ (job[i].runner \in EverPaired => job[i].runner \in EverPaired')
    BY DEF JobsSound, RunnersKept
  <2> QED BY <2>1 DEF JobSound, Created, Made
<1>3. ASSUME NEW m \in Mandates PROVE MandateSound(m)'
  BY DEF JobsSound, MandateSound, JobsOf, Created
<1>4. Kept
  BY DEF Kept, JobsKept, MandatesKept, RevisionsKept, Begun, Statuses, Created, Made, JobsSound,
         JobsTypeOK
<1> QED BY <1>1, <1>2, <1>3, <1>4 DEF JobsSound

LEMMA PairRunnerSound ==
  ASSUME JobsSound, NEW r \in Runners, PairRunner(r)
  PROVE  JobsSound' /\ Kept
<1>1. /\ UNCHANGED <<mandate, job, revisions>>
      /\ runner' = [Revoked(Paired) EXCEPT ![r] = [paired |-> "yes", seen |-> FALSE]]
      /\ IsNext(r, EverPaired)
  BY DEF PairRunner, EverPaired
<1>2. runner \in [Runners -> [paired : {"no", "yes", "revoked"}, seen : BOOLEAN]]
  BY DEF JobsSound, JobsTypeOK
<1>3. Revoked(Paired) \in [Runners -> [paired : {"no", "yes", "revoked"}, seen : BOOLEAN]]
  BY <1>2 DEF Revoked
<1>4. runner' \in [Runners -> [paired : {"no", "yes", "revoked"}, seen : BOOLEAN]]
  BY <1>1, <1>3
<1>5. r \notin EverPaired /\ Numbered(EverPaired \cup {r})
  <2>1. EverPaired \in SUBSET (1 .. MaxRunners) /\ MaxRunners \in Nat /\ r \in Nat
    BY RunnerJobsAssumption DEF EverPaired, Runners
  <2>2. Numbered(EverPaired)
    BY DEF JobsSound, JobsNumbered
  <2> QED BY <1>1, <2>1, <2>2, NextIsNew
<1>6. ASSUME NEW x \in Runners
      PROVE  /\ runner'[x].paired # "no" <=> runner[x].paired # "no" \/ x = r
             /\ x # r => runner'[x].paired # "yes"
  BY <1>1, <1>2 DEF Revoked, Paired
<1>7. EverPaired' = EverPaired \cup {r}
  BY <1>6 DEF EverPaired
<1>8. RunnersKept
  BY <1>5, <1>6, <1>7 DEF RunnersKept, EverPaired, Active
<1>9. Numbered(EverPaired)'
  BY <1>5, <1>7 DEF Numbered
<1> QED BY <1>1, <1>4, <1>8, <1>9, RunnersChange

LEMMA RevokeRunnerSound ==
  ASSUME JobsSound, RevokeRunner
  PROVE  JobsSound' /\ Kept
<1>1. UNCHANGED <<mandate, job, revisions>> /\ runner' = Revoked(Paired)
  BY DEF RevokeRunner
<1>2. runner \in [Runners -> [paired : {"no", "yes", "revoked"}, seen : BOOLEAN]]
  BY DEF JobsSound, JobsTypeOK
<1>3. runner' \in [Runners -> [paired : {"no", "yes", "revoked"}, seen : BOOLEAN]]
  BY <1>1, <1>2 DEF Revoked
<1>4. ASSUME NEW x \in Runners
      PROVE  runner'[x].paired # "yes" /\ (runner'[x].paired # "no" <=> runner[x].paired # "no")
  BY <1>1, <1>2 DEF Revoked, Paired
<1>5. EverPaired' = EverPaired
  BY <1>4 DEF EverPaired
<1>6. RunnersKept
  BY <1>4, <1>5 DEF RunnersKept, EverPaired, Active
<1>7. Numbered(EverPaired)'
  BY <1>5 DEF Numbered, JobsSound, JobsNumbered
<1> QED BY <1>1, <1>3, <1>6, <1>7, RunnersChange

LEMMA RunnerGoesQuietSound ==
  ASSUME JobsSound, NEW r \in Runners, RunnerGoesQuiet(r)
  PROVE  JobsSound' /\ Kept
<1>1. UNCHANGED <<mandate, job, revisions>> /\ runner' = [runner EXCEPT ![r].seen = FALSE]
  BY DEF RunnerGoesQuiet
<1>2. runner \in [Runners -> [paired : {"no", "yes", "revoked"}, seen : BOOLEAN]]
  BY DEF JobsSound, JobsTypeOK
<1>3. runner' \in [Runners -> [paired : {"no", "yes", "revoked"}, seen : BOOLEAN]]
  BY <1>1, <1>2
<1>4. ASSUME NEW x \in Runners PROVE runner'[x].paired = runner[x].paired
  BY <1>1, <1>2
<1>5. EverPaired' = EverPaired
  BY <1>4 DEF EverPaired
<1>6. RunnersKept
  BY <1>4, <1>5 DEF RunnersKept, EverPaired, Active
<1>7. Numbered(EverPaired)'
  BY <1>5 DEF Numbered, JobsSound, JobsNumbered
<1> QED BY <1>1, <1>3, <1>6, <1>7, RunnersChange

\* A step that changes mandates only, and reserves nothing.
MandateRecords == [made : BOOLEAN, approved : BOOLEAN, revoked : BOOLEAN, live : BOOLEAN,
                   terms : 0 .. MaxRevisions, reserved : Nat]
LEMMA MandatesChange ==
  ASSUME JobsSound, UNCHANGED <<runner, job, revisions>>,
         mandate' \in [Mandates -> MandateRecords],
         Numbered(Made)', OneActiveMandate', MandatesKept,
         \A m \in Mandates :
           /\ mandate'[m].reserved = mandate[m].reserved
           /\ mandate'[m].approved => mandate'[m].made
           /\ ~mandate'[m].made => mandate'[m].terms = 0
           /\ mandate'[m].terms <= Len(revisions)
  PROVE  JobsSound' /\ Kept
<1>1. JobsTypeOK' /\ JobsNumbered' /\ OneActiveMandate'
  BY DEF JobsSound, JobsTypeOK, JobsNumbered, Created, EverPaired, MandateRecords
<1>2. ASSUME NEW i \in Jobs PROVE JobSound(i)'
  <2>1. JobSound(i)
    BY DEF JobsSound
  <2>2. PICK m : m = job[i].mandate
    OBVIOUS
  <2>3. m \in Made => m \in Made' /\ (mandate[m].approved => mandate'[m].approved)
    BY DEF MandatesKept
  <2>4. job[i].status = "running" => i \in Created
    BY DEF Created
  <2> QED BY <2>1, <2>2, <2>3, <2>4 DEF JobSound, Created, EverPaired
<1>3. ASSUME NEW m \in Mandates PROVE MandateSound(m)'
  BY DEF JobsSound, MandateSound, JobsOf, Created
<1>4. Kept
  BY DEF Kept, JobsKept, RunnersKept, RevisionsKept, Begun, Statuses, Created, EverPaired, Active,
         JobsSound, JobsTypeOK
<1> QED BY <1>1, <1>2, <1>3, <1>4 DEF JobsSound

LEMMA MandateFacts ==
  ASSUME JobsSound
  PROVE  /\ mandate \in [Mandates -> MandateRecords]
         /\ Numbered(Made)
         /\ Made \in SUBSET (1 .. Len(MaxRuns)) /\ Len(MaxRuns) \in Nat
         /\ revisions \in Seq(BOOLEAN) /\ Len(revisions) \in 1 .. MaxRevisions /\ MaxRevisions \in Nat
         /\ \A m \in Mandates : /\ mandate[m].approved => mandate[m].made
                                /\ ~mandate[m].made => mandate[m].terms = 0
                                /\ mandate[m].terms <= Len(revisions)
BY RunnerJobsAssumption
   DEF JobsSound, JobsTypeOK, MandateRecords, JobsNumbered, MandateSound, Made, Mandates

LEMMA PrepareMandateSound ==
  ASSUME JobsSound, NEW m \in Mandates, NEW terms \in 0 .. Len(revisions),
         PrepareMandate(m, terms)
  PROVE  JobsSound' /\ Kept
<1>1. /\ UNCHANGED <<runner, job, revisions>>
      /\ IsNext(m, Made)
      /\ mandate' = [WithdrawMandates({x \in Unrevoked : ~mandate[x].approved})
                       EXCEPT ![m].made = TRUE, ![m].terms = terms]
  BY DEF PrepareMandate, Made
<1> DEFINE M == WithdrawMandates({x \in Unrevoked : ~mandate[x].approved})
<1>2. M \in [Mandates -> MandateRecords]
  BY MandateFacts DEF WithdrawMandates, MandateRecords
<1>3. ASSUME NEW x \in Mandates
      PROVE  /\ M[x].made = mandate[x].made /\ M[x].approved = mandate[x].approved
             /\ M[x].terms = mandate[x].terms /\ M[x].reserved = mandate[x].reserved
             /\ M[x].live = mandate[x].live
             /\ M[x].revoked = (mandate[x].revoked \/ (x \in Unrevoked /\ ~mandate[x].approved))
  BY MandateFacts DEF WithdrawMandates, MandateRecords, Unrevoked
<1>4. mandate' = [M EXCEPT ![m].made = TRUE, ![m].terms = terms]
  BY <1>1
<1>5. M[m] \in MandateRecords /\ terms \in 0 .. MaxRevisions
  BY <1>2, MandateFacts
<1> HIDE DEF M
<1>6. mandate' \in [Mandates -> MandateRecords]
  BY <1>2, <1>4, <1>5 DEF MandateRecords
<1>7. /\ mandate'[m].made = TRUE /\ mandate'[m].terms = terms
      /\ mandate'[m].approved = M[m].approved /\ mandate'[m].reserved = M[m].reserved
      /\ mandate'[m].live = M[m].live /\ mandate'[m].revoked = M[m].revoked
  BY <1>2, <1>4, <1>5 DEF MandateRecords
<1>8. ASSUME NEW x \in Mandates, x # m PROVE mandate'[x] = M[x]
  BY <1>2, <1>4, <1>8 DEF MandateRecords
<1>9. m \notin Made /\ Numbered(Made \cup {m})
  BY <1>1, MandateFacts, NextIsNew DEF Mandates
<1>10. Made' = Made \cup {m}
  BY <1>3, <1>7, <1>8 DEF Made
<1>11. Numbered(Made)'
  BY <1>9, <1>10 DEF Numbered
<1>12. \A x \in Mandates : mandate'[x].approved = mandate[x].approved
                           /\ (mandate[x].revoked => mandate'[x].revoked)
  BY <1>3, <1>7, <1>8
<1>13. OneActiveMandate'
  BY <1>12 DEF OneActiveMandate, Approved, JobsSound
<1>14. MandatesKept
  <2>1. ASSUME NEW x \in Made
        PROVE  /\ x \in Made' /\ mandate'[x].terms = mandate[x].terms
               /\ mandate[x].approved => mandate'[x].approved
               /\ mandate[x].revoked => mandate'[x].revoked
               /\ mandate'[x].live => mandate[x].live
    <3>1. x \in Mandates /\ x # m
      BY <1>9 DEF Made
    <3> QED BY <1>3, <1>8, <1>10, <3>1
  <2> QED BY <2>1 DEF MandatesKept
<1>15. ASSUME NEW x \in Mandates
       PROVE  /\ mandate'[x].reserved = mandate[x].reserved
              /\ mandate'[x].approved => mandate'[x].made
              /\ ~mandate'[x].made => mandate'[x].terms = 0
              /\ mandate'[x].terms <= Len(revisions)
  <2>1. CASE x = m
    BY <2>1, <1>3, <1>7, MandateFacts
  <2>2. CASE x # m
    BY <2>2, <1>3, <1>8, MandateFacts
  <2> QED BY <2>1, <2>2
<1> QED BY <1>1, <1>6, <1>11, <1>13, <1>14, <1>15, MandatesChange

LEMMA ApproveMandateSound ==
  ASSUME JobsSound, NEW m \in Mandates, ApproveMandate(m)
  PROVE  JobsSound' /\ Kept
<1>1. /\ UNCHANGED <<runner, job, revisions>>
      /\ mandate[m].made /\ ~mandate[m].revoked
      /\ mandate' = [WithdrawMandates({x \in Unrevoked : mandate[x].approved})
                       EXCEPT ![m].approved = TRUE]
  BY DEF ApproveMandate
<1> DEFINE M == WithdrawMandates({x \in Unrevoked : mandate[x].approved})
<1>2. M \in [Mandates -> MandateRecords]
  BY MandateFacts DEF WithdrawMandates, MandateRecords
<1>3. ASSUME NEW x \in Mandates
      PROVE  /\ M[x].made = mandate[x].made /\ M[x].approved = mandate[x].approved
             /\ M[x].terms = mandate[x].terms /\ M[x].reserved = mandate[x].reserved
             /\ M[x].live = mandate[x].live
             /\ M[x].revoked = (mandate[x].revoked \/ (x \in Unrevoked /\ mandate[x].approved))
  BY MandateFacts DEF WithdrawMandates, MandateRecords, Unrevoked
<1>4. mandate' = [M EXCEPT ![m].approved = TRUE]
  BY <1>1
<1> HIDE DEF M
<1>6. mandate' \in [Mandates -> MandateRecords]
  BY <1>2, <1>4 DEF MandateRecords
<1>7. /\ mandate'[m].approved = TRUE
      /\ mandate'[m].made = M[m].made /\ mandate'[m].terms = M[m].terms
      /\ mandate'[m].reserved = M[m].reserved
      /\ mandate'[m].live = M[m].live /\ mandate'[m].revoked = M[m].revoked
  BY <1>2, <1>4 DEF MandateRecords
<1>8. ASSUME NEW x \in Mandates, x # m PROVE mandate'[x] = M[x]
  BY <1>2, <1>4, <1>8 DEF MandateRecords
<1>9. \A x \in Mandates : mandate'[x].made = mandate[x].made
  BY <1>3, <1>7, <1>8
<1>10. Made' = Made
  BY <1>9 DEF Made
<1>11. Numbered(Made)'
  BY <1>10, MandateFacts DEF Numbered
<1>12. ASSUME NEW x \in Mandates, Approved(x)' PROVE x = m
  <2>1. SUFFICES ASSUME x # m PROVE FALSE
    OBVIOUS
  <2>2. M[x].approved /\ ~M[x].revoked
    BY <1>8, <1>12, <2>1 DEF Approved
  <2>3. mandate[x].approved /\ ~mandate[x].revoked /\ x \notin Unrevoked
    BY <1>3, <2>2
  <2>4. mandate[x].made
    BY <2>3, MandateFacts
  <2> QED BY <2>3, <2>4 DEF Unrevoked
<1>13. OneActiveMandate'
  BY <1>12 DEF OneActiveMandate
<1>14. MandatesKept
  <2>1. ASSUME NEW x \in Made
        PROVE  /\ x \in Made' /\ mandate'[x].terms = mandate[x].terms
               /\ mandate[x].approved => mandate'[x].approved
               /\ mandate[x].revoked => mandate'[x].revoked
               /\ mandate'[x].live => mandate[x].live
    <3>1. x \in Mandates
      BY DEF Made
    <3>2. CASE x = m
      BY <1>3, <1>7, <1>10, <3>1, <3>2
    <3>3. CASE x # m
      BY <1>3, <1>8, <1>10, <3>1, <3>3
    <3> QED BY <3>2, <3>3
  <2> QED BY <2>1 DEF MandatesKept
<1>15. ASSUME NEW x \in Mandates
       PROVE  /\ mandate'[x].reserved = mandate[x].reserved
              /\ mandate'[x].approved => mandate'[x].made
              /\ ~mandate'[x].made => mandate'[x].terms = 0
              /\ mandate'[x].terms <= Len(revisions)
  <2>1. CASE x = m
    BY <2>1, <1>1, <1>3, <1>7, MandateFacts
  <2>2. CASE x # m
    BY <2>2, <1>3, <1>8, MandateFacts
  <2> QED BY <2>1, <2>2
<1> QED BY <1>1, <1>6, <1>11, <1>13, <1>14, <1>15, MandatesChange

LEMMA MandateExpiresSound ==
  ASSUME JobsSound, NEW m \in Mandates, MandateExpires(m)
  PROVE  JobsSound' /\ Kept
<1>1. UNCHANGED <<runner, job, revisions>> /\ mandate' = [mandate EXCEPT ![m].live = FALSE]
  BY DEF MandateExpires
<1>2. mandate' \in [Mandates -> MandateRecords]
  BY <1>1, MandateFacts DEF MandateRecords
<1>3. ASSUME NEW x \in Mandates
      PROVE  /\ mandate'[x].made = mandate[x].made /\ mandate'[x].approved = mandate[x].approved
             /\ mandate'[x].terms = mandate[x].terms /\ mandate'[x].reserved = mandate[x].reserved
             /\ mandate'[x].revoked = mandate[x].revoked
             /\ mandate'[x].live => mandate[x].live
  BY <1>1, MandateFacts DEF MandateRecords
<1>4. Made' = Made
  BY <1>3 DEF Made
<1>5. Numbered(Made)'
  BY <1>4, MandateFacts DEF Numbered
<1>6. OneActiveMandate'
  BY <1>3 DEF OneActiveMandate, Approved, JobsSound
<1>7. MandatesKept
  BY <1>3, <1>4 DEF MandatesKept, Made
<1>8. \A x \in Mandates :
        /\ mandate'[x].reserved = mandate[x].reserved
        /\ mandate'[x].approved => mandate'[x].made
        /\ ~mandate'[x].made => mandate'[x].terms = 0
        /\ mandate'[x].terms <= Len(revisions)
  BY <1>3, MandateFacts
<1> QED BY <1>1, <1>2, <1>5, <1>6, <1>7, <1>8, MandatesChange

LEMMA UpdateMarketServiceSound ==
  ASSUME JobsSound, NEW active \in BOOLEAN, UpdateMarketService(active)
  PROVE  JobsSound' /\ Kept
<1>1. /\ UNCHANGED <<runner, mandate, job>>
      /\ revisions' = Append(revisions, active) /\ Len(revisions) < MaxRevisions
  BY DEF UpdateMarketService
<1>2. /\ revisions \in Seq(BOOLEAN) /\ Len(revisions) \in 1 .. MaxRevisions /\ MaxRevisions \in Nat
  BY MandateFacts
<1>3. revisions' \in Seq(BOOLEAN) /\ Len(revisions') = Len(revisions) + 1
  BY <1>1, <1>2
<1>4. Len(revisions') \in 1 .. MaxRevisions
  BY <1>1, <1>2, <1>3
<1>5. JobsTypeOK' /\ JobsNumbered' /\ OneActiveMandate'
  BY <1>1, <1>3, <1>4
     DEF JobsSound, JobsTypeOK, JobsNumbered, Created, Made, EverPaired, OneActiveMandate, Approved,
         Numbered
<1>6. ASSUME NEW i \in Jobs PROVE JobSound(i)'
  BY <1>1 DEF JobsSound, JobSound, Created, Made, EverPaired
<1>7. ASSUME NEW m \in Mandates PROVE MandateSound(m)'
  <2>1. MandateSound(m) /\ mandate[m].terms \in Nat
    BY MandateFacts DEF JobsSound, MandateRecords
  <2>2. mandate[m].terms <= Len(revisions')
    BY <1>2, <1>3, <2>1 DEF MandateSound
  <2> QED BY <1>1, <2>1, <2>2 DEF MandateSound, JobsOf, Created
<1>8. JobsKept /\ MandatesKept /\ RunnersKept
  BY <1>1 DEF JobsKept, MandatesKept, RunnersKept, Begun, Statuses, Created, Made, EverPaired,
              Active, JobsSound, JobsTypeOK
<1>9. RevisionsKept
  BY <1>1 DEF RevisionsKept
<1> QED BY <1>5, <1>6, <1>7, <1>8, <1>9 DEF JobsSound, Kept

\* A step that blocks and begins queued jobs, for a runner that is paired.
JobRecords == [status : Statuses, mandate : Mandates \cup {None},
               runner : Runners \cup {None}, result : Run \cup {None}]
Goes(i) ==
  \/ job'[i] = job[i]
  \/ /\ job[i].status = "queued" /\ job'[i].status = "blocked"
     /\ job'[i].mandate = job[i].mandate /\ job'[i].runner = job[i].runner
     /\ job'[i].result = job[i].result
  \/ /\ job[i].status = "queued" /\ job'[i].status = "running"
     /\ job'[i].mandate = job[i].mandate /\ job'[i].runner \in EverPaired
     /\ job'[i].result = job[i].result /\ mandate[job[i].mandate].approved

LEMMA JobFacts ==
  ASSUME JobsSound
  PROVE  /\ job \in [Jobs -> JobRecords]
         /\ Numbered(Created) /\ Created \in SUBSET (1 .. MaxJobs) /\ MaxJobs \in Nat
         /\ \A i \in Jobs : JobSound(i)
         /\ None \notin Nat /\ None \notin Run
BY RunnerJobsAssumption
   DEF JobsSound, JobsTypeOK, JobRecords, JobsNumbered, Created, Jobs

LEMMA JobsChange ==
  ASSUME JobsSound, UNCHANGED revisions, RunnersKept, MandatesKept,
         runner' \in [Runners -> [paired : {"no", "yes", "revoked"}, seen : BOOLEAN]],
         EverPaired' = EverPaired,
         mandate' \in [Mandates -> MandateRecords],
         \A m \in Mandates :
           /\ mandate'[m].made = mandate[m].made /\ mandate'[m].approved = mandate[m].approved
           /\ mandate'[m].terms = mandate[m].terms /\ mandate'[m].reserved = mandate[m].reserved
           /\ mandate[m].revoked => mandate'[m].revoked,
         job' \in [Jobs -> JobRecords],
         \A i \in Jobs : Goes(i)
  PROVE  JobsSound' /\ Kept
<1>1. ASSUME NEW i \in Jobs
      PROVE  job'[i].mandate = job[i].mandate /\ (i \in Created <=> i \in Created')
             /\ job'[i].result = job[i].result
  BY DEF Goes, Created
<1>2. Created' = Created
  BY <1>1 DEF Created
<1>3. Made' = Made
  BY DEF Made
<1>4. JobsTypeOK'
  BY DEF JobsSound, JobsTypeOK, MandateRecords, JobRecords
<1>5. JobsNumbered'
  BY <1>2, <1>3 DEF JobsSound, JobsNumbered, Numbered
<1>6. OneActiveMandate'
  BY DEF JobsSound, OneActiveMandate, Approved
<1>7. ASSUME NEW i \in Jobs PROVE JobSound(i)'
  <2>1. JobSound(i) /\ Goes(i) /\ None \notin EverPaired
    BY JobFacts DEF EverPaired, Runners
  <2>2. job'[i].mandate = job[i].mandate
    BY <1>1
  <2>3. i \in Created' => job'[i].mandate \in Made'
    BY <1>1, <1>2, <1>3, <2>1 DEF JobSound
  <2>4. i \notin Created' => job'[i].mandate = None
    BY <1>1, <1>2, <2>1 DEF JobSound
  <2>5. job'[i].status \in {"none", "queued"} => job'[i].runner = None
    BY <2>1 DEF JobSound, Goes
  <2>6. job'[i].status \in {"none", "queued", "running"} => job'[i].result = None
    BY <2>1 DEF JobSound, Goes
  <2>7. job'[i].status = "running" => job'[i].runner # None
    BY <2>1 DEF JobSound, Goes
  <2>8. job'[i].runner # None => job'[i].runner \in EverPaired'
    BY <2>1 DEF JobSound, Goes
  <2>9. ASSUME job'[i].status = "running" PROVE mandate'[job'[i].mandate].approved
    <3>1. i \in Created /\ mandate[job[i].mandate].approved
      BY <2>1, <2>9 DEF JobSound, Goes, Created
    <3>2. job[i].mandate \in Mandates
      BY <3>1, <2>1 DEF JobSound, Made
    <3> QED BY <2>2, <3>1, <3>2
  <2> QED BY <2>3, <2>4, <2>5, <2>6, <2>7, <2>8, <2>9 DEF JobSound
<1>8. ASSUME NEW m \in Mandates PROVE MandateSound(m)'
  <2>1. JobsOf(m)' = JobsOf(m)
    BY <1>1, <1>2 DEF JobsOf, Created
  <2> QED BY <2>1 DEF MandateSound, JobsSound
<1>9. JobsKept
  BY <1>1, JobFacts DEF JobsKept, Goes, Begun, JobRecords, Statuses, Created
<1>10. RevisionsKept
  BY DEF RevisionsKept
<1> QED BY <1>4, <1>5, <1>6, <1>7, <1>8, <1>9, <1>10 DEF JobsSound, Kept

LEMMA RevokeMandateSound ==
  ASSUME JobsSound, RevokeMandate
  PROVE  JobsSound' /\ Kept
<1>1. /\ UNCHANGED <<runner, revisions>> /\ mandate' = WithdrawMandates(Unrevoked)
      /\ job' = [i \in Jobs |-> IF job[i].status = "queued"
                              THEN [job[i] EXCEPT !.status = "blocked"] ELSE job[i]]
  BY DEF RevokeMandate
<1>2. mandate' \in [Mandates -> MandateRecords]
  BY <1>1, MandateFacts DEF MandateRecords, WithdrawMandates
<1>3. ASSUME NEW x \in Mandates
      PROVE  /\ mandate'[x].made = mandate[x].made /\ mandate'[x].approved = mandate[x].approved
             /\ mandate'[x].terms = mandate[x].terms /\ mandate'[x].reserved = mandate[x].reserved
             /\ mandate'[x].live = mandate[x].live
             /\ mandate[x].revoked => mandate'[x].revoked
  BY <1>1, MandateFacts DEF MandateRecords, WithdrawMandates
<1>4. MandatesKept
  BY <1>3 DEF MandatesKept, Made
<1>5. RunnersKept /\ EverPaired' = EverPaired
  BY <1>1 DEF RunnersKept, EverPaired, Active
<1>6. runner' \in [Runners -> [paired : {"no", "yes", "revoked"}, seen : BOOLEAN]]
  BY <1>1 DEF JobsSound, JobsTypeOK
<1>7. job' \in [Jobs -> JobRecords]
  BY <1>1, JobFacts DEF JobRecords, Statuses
<1>8. ASSUME NEW i \in Jobs PROVE Goes(i)
  BY <1>1, JobFacts DEF Goes, JobRecords
<1> QED BY <1>1, <1>2, <1>3, <1>4, <1>5, <1>6, <1>7, <1>8, JobsChange

LEMMA ClaimJobSound ==
  ASSUME JobsSound, NEW r \in Runners \cup {None}, Claimable(r) # {} => r \in Runners, ClaimJob(r)
  PROVE  JobsSound' /\ Kept
<1>1. /\ UNCHANGED <<mandate, revisions>>
      /\ runner' = IF Active(r) THEN [runner EXCEPT ![r].seen = TRUE] ELSE runner
      /\ job' = [i \in Jobs |->
           IF i \in Stale THEN [job[i] EXCEPT !.status = "blocked"]
           ELSE IF Claimable(r) # {} /\ i = Oldest(Claimable(r))
           THEN [job[i] EXCEPT !.status = "running", !.runner = r] ELSE job[i]]
  BY DEF ClaimJob
<1>2. runner \in [Runners -> [paired : {"no", "yes", "revoked"}, seen : BOOLEAN]]
  BY DEF JobsSound, JobsTypeOK
<1>3. runner' \in [Runners -> [paired : {"no", "yes", "revoked"}, seen : BOOLEAN]]
  BY <1>1, <1>2
<1>4. ASSUME NEW x \in Runners PROVE runner'[x].paired = runner[x].paired
  BY <1>1, <1>2
<1>5. EverPaired' = EverPaired /\ RunnersKept
  BY <1>4 DEF EverPaired, RunnersKept, Active
<1>6. MandatesKept
  BY <1>1 DEF MandatesKept, Made
<1>7. mandate' \in [Mandates -> MandateRecords]
  BY <1>1, MandateFacts
<1>8. ASSUME NEW i \in Jobs, i \notin Stale, Claimable(r) # {}, i = Oldest(Claimable(r))
      PROVE  i \in Claimable(r) /\ r \in EverPaired
  <2>1. \A j \in Claimable(r) : j \in Nat
    BY DEF Claimable, Jobs
  <2>2. Oldest(Claimable(r)) \in Claimable(r)
    BY <1>8, <2>1, OldestIsMember
  <2>3. r \in EverPaired
    BY <1>8, <2>2 DEF Claimable, Active, EverPaired
  <2> QED BY <1>8, <2>2, <2>3
<1>9. ASSUME NEW i \in Jobs
      PROVE  job'[i] \in JobRecords /\ Goes(i)
  <2>1. job[i] \in JobRecords
    BY JobFacts
  <2>2. CASE i \in Stale
    BY <1>1, <2>1, <2>2 DEF Stale, Goes, JobRecords, Statuses
  <2>3. CASE i \notin Stale /\ Claimable(r) # {} /\ i = Oldest(Claimable(r))
    <3>1. i \in Claimable(r) /\ r \in EverPaired
      BY <1>8, <2>3
    <3>2. job'[i] = [job[i] EXCEPT !.status = "running", !.runner = r]
      BY <1>1, <2>3
    <3>3. r \in Runners
      BY <3>1 DEF EverPaired
    <3>4. job[i].status = "queued" /\ mandate[job[i].mandate].approved
      BY <3>1 DEF Claimable
    <3> QED BY <2>1, <3>1, <3>2, <3>3, <3>4 DEF Goes, JobRecords, Statuses
  <2>4. CASE i \notin Stale /\ ~(Claimable(r) # {} /\ i = Oldest(Claimable(r)))
    BY <1>1, <2>1, <2>4 DEF Goes
  <2> QED BY <2>2, <2>3, <2>4
<1>10. job' \in [Jobs -> JobRecords]
  BY <1>1, <1>9
<1> QED BY <1>1, <1>3, <1>5, <1>6, <1>7, <1>9, <1>10, JobsChange

LEMMA QueueRunSound ==
  ASSUME JobsSound, NEW i \in Jobs, QueueRun(i)
  PROVE  JobsSound' /\ Kept
<1>1. IsNext(i, Created) /\ UNCHANGED <<runner, revisions>>
  BY DEF QueueRun
<1>2. PICK m \in Mandates :
        /\ Current(m) /\ mandate[m].reserved < MaxRuns[m] /\ Unchanged(m)
        /\ job' = [job EXCEPT ![i] =
             [status |-> "queued", mandate |-> m, runner |-> None, result |-> None]]
        /\ mandate' = [mandate EXCEPT ![m].reserved = @ + 1]
  BY DEF QueueRun
<1>3. i \notin Created /\ Numbered(Created \cup {i})
  <2>1. i \in Nat /\ Created \in SUBSET (1 .. MaxJobs) /\ MaxJobs \in Nat /\ Numbered(Created)
    BY JobFacts DEF Jobs
  <2> QED BY <1>1, <2>1, NextIsNew
<1>4. job[i].status = "none"
  BY <1>3 DEF Created
<1>5. [status |-> "queued", mandate |-> m, runner |-> None, result |-> None] \in JobRecords
  BY DEF JobRecords, Statuses
<1>6. job' \in [Jobs -> JobRecords]
  BY <1>2, <1>5, JobFacts
<1>7. /\ job'[i] = [status |-> "queued", mandate |-> m, runner |-> None, result |-> None]
      /\ \A j \in Jobs : j # i => job'[j] = job[j]
  BY <1>2, JobFacts
<1>8. Created' = Created \cup {i}
  BY <1>7 DEF Created
<1>9. mandate' \in [Mandates -> MandateRecords]
  <2>1. mandate[m] \in MandateRecords
    BY MandateFacts
  <2>2. [mandate[m] EXCEPT !.reserved = mandate[m].reserved + 1] \in MandateRecords
    BY <2>1 DEF MandateRecords
  <2> QED BY <1>2, <2>2, MandateFacts
<1>10. ASSUME NEW x \in Mandates
       PROVE  /\ mandate'[x].made = mandate[x].made /\ mandate'[x].approved = mandate[x].approved
              /\ mandate'[x].terms = mandate[x].terms /\ mandate'[x].live = mandate[x].live
              /\ mandate'[x].revoked = mandate[x].revoked
              /\ mandate'[x].reserved = IF x = m THEN mandate[x].reserved + 1 ELSE mandate[x].reserved
  BY <1>2, MandateFacts DEF MandateRecords
<1>11. Made' = Made /\ m \in Made
  BY <1>2, <1>10, MandateFacts DEF Made, Current, Approved
<1>12. JobsTypeOK'
  BY <1>1, <1>6, <1>9 DEF JobsSound, JobsTypeOK, JobRecords, MandateRecords
<1>13. JobsNumbered'
  <2>1. Numbered(Created)' /\ Numbered(Made)'
    BY <1>3, <1>8, <1>11, MandateFacts DEF Numbered
  <2>2. Numbered(EverPaired)'
    BY <1>1 DEF JobsSound, JobsNumbered, EverPaired, Numbered
  <2> QED BY <2>1, <2>2 DEF JobsNumbered
<1>14. OneActiveMandate'
  BY <1>10 DEF JobsSound, OneActiveMandate, Approved
<1>15. ASSUME NEW j \in Jobs PROVE JobSound(j)'
  <2>1. CASE j = i
    BY <1>7, <1>8, <1>11, <2>1 DEF JobSound
  <2>2. CASE j # i
    <3>1. JobSound(j) /\ job'[j] = job[j] /\ (j \in Created' <=> j \in Created)
      BY <1>7, <1>8, <2>2, JobFacts
    <3>2. EverPaired' = EverPaired
      BY <1>1 DEF EverPaired
    <3>3. ASSUME job[j].status = "running" PROVE mandate'[job[j].mandate].approved
      <4>1. mandate[job[j].mandate].approved /\ job[j].mandate \in Mandates
        BY <3>1, <3>3 DEF JobSound, Created, Made
      <4> QED BY <1>10, <4>1
    <3> QED BY <1>11, <3>1, <3>2, <3>3 DEF JobSound
  <2> QED BY <2>1, <2>2
<1>16. ASSUME NEW x \in Mandates PROVE MandateSound(x)'
  <2>1. MandateSound(x)
    BY DEF JobsSound
  <2>2. IsFiniteSet(JobsOf(x)) /\ i \notin JobsOf(x)
    <3>1. IsFiniteSet(1 .. MaxJobs) /\ JobsOf(x) \subseteq 1 .. MaxJobs
      BY JobFacts, FS_Interval DEF JobsOf
    <3> QED BY <1>3, <3>1, FS_Subset DEF JobsOf
  <2>3. JobsOf(x)' = IF x = m THEN JobsOf(x) \cup {i} ELSE JobsOf(x)
    <3>1. Created \subseteq Jobs
      BY DEF Created
    <3>2. \A j \in Created : job'[j].mandate = job[j].mandate
      BY <1>3, <1>7, <3>1
    <3>3. job'[i].mandate = m
      BY <1>7
    <3> QED BY <1>8, <3>2, <3>3 DEF JobsOf
  <2>4. CASE x = m
    <3>1. Cardinality(JobsOf(x) \cup {i}) = Cardinality(JobsOf(x)) + 1
      BY <2>2, FS_AddElement
    <3>2. mandate[x].reserved \in Nat /\ MaxRuns[x] \in Nat
      BY MandateFacts, RunnerJobsAssumption DEF MandateRecords, Mandates
    <3>3. Cardinality(JobsOf(x))' = mandate'[x].reserved
      BY <1>10, <2>1, <2>3, <2>4, <3>1 DEF MandateSound
    <3>4. mandate'[x].reserved <= MaxRuns[x]
      BY <1>2, <1>10, <2>4, <3>2
    <3> QED BY <1>1, <1>10, <2>1, <3>3, <3>4 DEF MandateSound
  <2>5. CASE x # m
    BY <1>1, <1>10, <2>1, <2>3, <2>5 DEF MandateSound
  <2> QED BY <2>4, <2>5
<1>17. JobsKept
  <2>1. ASSUME NEW j \in Jobs
        PROVE  /\ j \in Created => j \in Created' /\ job'[j].mandate = job[j].mandate
               /\ Begun(j) => job'[j] = job[j]
               /\ ~Begun(j) => job'[j].status \in {"none", "queued", "blocked", "running"}
    <3>1. CASE j = i
      BY <1>3, <1>4, <1>7, <3>1 DEF Begun
    <3>2. CASE j # i
      BY <1>7, <1>8, <3>2 DEF Begun
    <3> QED BY <3>1, <3>2
  <2> QED BY <2>1 DEF JobsKept
<1>18. MandatesKept
  BY <1>10, <1>11 DEF MandatesKept, Made
<1>19. RunnersKept /\ RevisionsKept
  BY <1>1 DEF RunnersKept, RevisionsKept, EverPaired, Active
<1> QED BY <1>12, <1>13, <1>14, <1>15, <1>16, <1>17, <1>18, <1>19 DEF JobsSound, Kept

LEMMA PlatformSound ==
  ASSUME JobsSound, JobsNext
  PROVE  JobsSound' /\ Kept
<1>1. ASSUME NEW r \in Runners, PairRunner(r) \/ RunnerGoesQuiet(r) PROVE JobsSound' /\ Kept
  BY <1>1, PairRunnerSound, RunnerGoesQuietSound
<1>2. CASE RevokeRunner \/ RevokeMandate
  BY <1>2, RevokeRunnerSound, RevokeMandateSound
<1>3. ASSUME NEW m \in Mandates, ApproveMandate(m) \/ MandateExpires(m) PROVE JobsSound' /\ Kept
  BY <1>3, ApproveMandateSound, MandateExpiresSound
<1>4. ASSUME NEW m \in Mandates, NEW terms \in 0 .. Len(revisions), PrepareMandate(m, terms)
      PROVE  JobsSound' /\ Kept
  BY <1>4, PrepareMandateSound
<1>5. ASSUME NEW i \in Jobs, QueueRun(i) PROVE JobsSound' /\ Kept
  BY <1>5, QueueRunSound
<1>6. ASSUME NEW active \in BOOLEAN, UpdateMarketService(active) PROVE JobsSound' /\ Kept
  BY <1>6, UpdateMarketServiceSound
<1> QED BY <1>1, <1>2, <1>3, <1>4, <1>5, <1>6 DEF JobsNext

-----------------------------------------------------------------------------
(* What a step of the platform leaves as it was.                           *)

LEMMA NothingTakenBack ==
  ASSUME JobsSound, UNCHANGED jobVars
  PROVE  JobsSound' /\ Kept
<1> USE DEF jobVars
<1>1. JobsSound'
  <2>1. Created' = Created /\ Made' = Made /\ EverPaired' = EverPaired
    BY DEF Created, Made, EverPaired
  <2>2. JobsTypeOK'
    BY DEF JobsSound, JobsTypeOK
  <2>3. JobsNumbered'
    BY <2>1 DEF JobsSound, JobsNumbered, Numbered
  <2>4. OneActiveMandate'
    BY DEF JobsSound, OneActiveMandate, Approved
  <2>5. \A i \in Jobs : JobSound(i)'
    BY <2>1 DEF JobsSound, JobSound
  <2>6. \A m \in Mandates : MandateSound(m)'
    <3>1. \A m \in Mandates : JobsOf(m)' = JobsOf(m)
      BY <2>1 DEF JobsOf
    <3> QED BY <3>1 DEF JobsSound, MandateSound
  <2> QED BY <2>2, <2>3, <2>4, <2>5, <2>6 DEF JobsSound
<1>2. Kept
  BY DEF jobVars, Kept, JobsKept, MandatesKept, RunnersKept, RevisionsKept, Begun, Statuses,
         Created, Made, EverPaired, Active, JobsSound, JobsTypeOK
<1> QED BY <1>1, <1>2

\* A result ends one running job and takes back nothing else.
LEMMA SaveRunnerResultSound ==
  ASSUME JobsSound, NEW r, NEW i \in Jobs, NEW run \in Run, NEW proven \in BOOLEAN,
         SaveRunnerResult(r, i, run, proven)
  PROVE  /\ JobsSound' /\ job'[i].result = run
         /\ \/ job' = job
            \/ /\ job[i].status = "running"
               /\ job' = [job EXCEPT ![i].status = Classified(run, proven), ![i].result = run]
<1>1. UNCHANGED <<runner, mandate, revisions>>
  BY DEF SaveRunnerResult
<1>2. CASE job[i].result = run /\ job' = job
  BY <1>1, <1>2, NothingTakenBack DEF jobVars
<1>3. CASE /\ job[i].status = "running"
           /\ job' = [job EXCEPT ![i].status = Classified(run, proven), ![i].result = run]
  <2>1. Classified(run, proven) \in {"succeeded", "blocked", "uncertain", "failed"}
    BY DEF Classified
  <2>2. job[i] \in JobRecords /\ job \in [Jobs -> JobRecords]
    BY JobFacts
  <2>3. job' \in [Jobs -> JobRecords]
    BY <1>3, <2>1, <2>2 DEF JobRecords, Statuses
  <2>4. /\ job'[i].status = Classified(run, proven) /\ job'[i].mandate = job[i].mandate
        /\ job'[i].runner = job[i].runner /\ job'[i].result = run
        /\ \A j \in Jobs : j # i => job'[j] = job[j]
    BY <1>3, <2>2 DEF JobRecords
  <2>5. Created' = Created /\ \A j \in Jobs : job'[j].mandate = job[j].mandate
    BY <1>3, <2>1, <2>4 DEF Created
  <2>6. JobsTypeOK' /\ OneActiveMandate'
    BY <1>1, <2>3 DEF JobsSound, JobsTypeOK, OneActiveMandate, Approved, JobRecords
  <2>7. JobsNumbered'
    BY <1>1, <2>5 DEF JobsSound, JobsNumbered, Made, EverPaired, Numbered
  <2>8. ASSUME NEW j \in Jobs PROVE JobSound(j)'
    <3>1. JobSound(j) /\ Made' = Made /\ EverPaired' = EverPaired
      BY <1>1, JobFacts DEF Made, EverPaired
    <3>2. CASE j = i
      BY <1>1, <1>3, <2>1, <2>4, <2>5, <3>1, <3>2 DEF JobSound
    <3>3. CASE j # i
      BY <1>1, <2>4, <2>5, <3>1, <3>3 DEF JobSound
    <3> QED BY <3>2, <3>3
  <2>9. ASSUME NEW m \in Mandates PROVE MandateSound(m)'
    <3>1. Created \subseteq Jobs /\ MandateSound(m)
      BY DEF Created, JobsSound
    <3>2. JobsOf(m)' = JobsOf(m)
      BY <2>5, <3>1 DEF JobsOf
    <3> QED BY <1>1, <3>1, <3>2 DEF MandateSound
  <2> QED BY <1>3, <2>4, <2>6, <2>7, <2>8, <2>9 DEF JobsSound
<1> QED BY <1>2, <1>3 DEF SaveRunnerResult

\* A job that was created stays with or without a service.
LEMMA MarketStays ==
  ASSUME JobsSound, Kept, NEW i \in Created
  PROVE  i \in Created' /\ AtMarket(i)' = AtMarket(i)
<1>1. PICK m : m = job[i].mandate
  OBVIOUS
<1>2. i \in Jobs /\ m \in Made
  BY <1>1, JobFacts DEF Created, JobSound
<1>3. i \in Created' /\ job'[i].mandate = m /\ mandate'[m].terms = mandate[m].terms
  BY <1>1, <1>2 DEF Kept, JobsKept, MandatesKept
<1> QED BY <1>1, <1>3 DEF AtMarket

LEMMA LateStays ==
  ASSUME JobsSound, Kept, LateSound, UNCHANGED late
  PROVE  late' \in [Jobs -> {0, 1}] /\ \A i \in Jobs : late'[i] = 1 => Withdrawn(i)'
<1>1. late' \in [Jobs -> {0, 1}]
  BY DEF LateSound
<1>2. ASSUME NEW i \in Jobs, late'[i] = 1 PROVE Withdrawn(i)'
  BY <1>2, WithdrawnStays DEF LateSound
<1> QED BY <1>1, <1>2

LEMMA MarketFrame ==
  ASSUME JobsSound, Kept, MarketSound, UNCHANGED marketVars
  PROVE  MarketSound'
<1>1. UNCHANGED <<order, attempt, transfer>>
  BY DEF marketVars
<1>2. MarketTypeOK' /\ TokensDiffer' /\ AttemptsExclude' /\ OrdersArePaid'
  BY <1>1 DEF MarketSound, MarketTypeOK, TokensDiffer, AttemptsExclude, OrdersArePaid, Asks
<1>3. ASSUME NEW h \in Handlers PROVE AttemptSound(h)'
  BY <1>1 DEF MarketSound, AttemptSound, Asks
<1>4. ASSUME NEW i \in Jobs, order'[i].status # "none" PROVE i \in Created' /\ AtMarket(i)'
  BY <1>1, <1>4, MarketStays DEF MarketSound
<1>5. \A i \in Jobs : order'[i].status \in {"none", "quoted"} => order'[i].attempts = 0
  BY <1>1 DEF MarketSound
<1> QED BY <1>2, <1>3, <1>4, <1>5 DEF MarketSound

\* The market moves on: no order and no transfer is undone, and no attempt becomes the
\* broker's.
MarketGrows ==
  /\ \A i \in Jobs :
       /\ order[i].status # "none" => order'[i].status # "none"
       /\ order[i].status = "fulfilled" => order'[i].status = "fulfilled"
       /\ transfer[i] \in {"mined", "late"} => transfer'[i] = transfer[i]
       /\ transfer'[i] # "none" <=> transfer[i] # "none"
  /\ \A h \in Handlers :
       attempt'[h].by = "broker" => attempt[h].by = "broker" /\ attempt'[h].job = attempt[h].job

LEMMA VerifiedStays ==
  ASSUME JobsSound, Kept, NEW i \in Created, Verified(i),
         order[i].status = "fulfilled" => order'[i].status = "fulfilled",
         transfer[i] \in {"mined", "late"} => transfer'[i] = transfer[i]
  PROVE  Verified(i)'
<1>1. AtMarket(i)' = AtMarket(i)
  BY MarketStays
<1>2. CASE AtMarket(i)
  BY <1>1, <1>2 DEF Verified
<1>3. CASE ~AtMarket(i)
  BY <1>1, <1>3 DEF Verified
<1> QED BY <1>2, <1>3

LEMMA IntentChange ==
  ASSUME JobsSound, Kept, NEW i \in Jobs, IntentSound(i), UNCHANGED intent,
         asked' \subseteq asked, bought \subseteq bought',
         i \in bought' => intent[i]["data"] # "none",
         transfer'[i] # "none" =>
           /\ intent[i]["verify"] # "none"
           /\ AtMarket(i) => order'[i].status # "none" /\ checkpoint'[i] \notin {"none", "quoted"},
         order[i].status = "fulfilled" => order'[i].status = "fulfilled",
         transfer[i] \in {"mined", "late"} => transfer'[i] = transfer[i]
  PROVE  IntentSound(i)'
<1>1. i \in Created => i \in Created' /\ AtMarket(i)' = AtMarket(i)
  BY MarketStays
<1>2. \A k \in Kinds : intent[i][k] # "none" => i \in Created
  BY DEF IntentSound
<1>3. intent[i]["verify"] = "settled" => Verified(i)'
  <2>1. SUFFICES ASSUME intent[i]["verify"] = "settled" PROVE Verified(i)'
    OBVIOUS
  <2>2. i \in Created /\ Verified(i)
    BY <1>2, <2>1 DEF Kinds, IntentSound
  <2> QED BY <2>2, VerifiedStays
<1>4. ASSUME transfer'[i] # "none"
      PROVE  /\ intent'[i]["verify"] # "none"
             /\ AtMarket(i)' => order'[i].status # "none" /\ checkpoint'[i] \notin {"none", "quoted"}
  <2>1. intent[i]["verify"] # "none"
    BY <1>4
  <2>2. i \in Created
    BY <1>2, <2>1 DEF Kinds
  <2> QED BY <1>1, <1>4, <2>1, <2>2
<1>5. \A k \in Kinds : intent'[i][k] # "none" \/ <<i, k>> \in asked' =>
       /\ i \in Created'
       /\ k # "data" => intent'[i]["data"] = "settled"
       /\ k = "verify" => intent'[i]["report"] = "settled"
  BY <1>1 DEF IntentSound
<1>6. intent'[i]["data"] = "settled" => i \in bought'
  BY DEF IntentSound
<1> QED BY <1>3, <1>4, <1>5, <1>6 DEF IntentSound

LEMMA IntentFrame ==
  ASSUME JobsSound, Kept, NEW i \in Jobs, IntentSound(i), UNCHANGED <<intent, bought, checkpoint>>,
         asked' \subseteq asked,
         order[i].status # "none" => order'[i].status # "none",
         order[i].status = "fulfilled" => order'[i].status = "fulfilled",
         transfer[i] \in {"mined", "late"} => transfer'[i] = transfer[i],
         transfer'[i] # "none" <=> transfer[i] # "none"
  PROVE  IntentSound(i)'
<1>1. i \in bought' => intent[i]["data"] # "none"
  BY DEF IntentSound
<1>2. transfer'[i] # "none" =>
           /\ intent[i]["verify"] # "none"
           /\ AtMarket(i) => order'[i].status # "none" /\ checkpoint'[i] \notin {"none", "quoted"}
  BY DEF IntentSound
<1> QED BY <1>1, <1>2, IntentChange

LEMMA OperationFrame ==
  ASSUME JobsSound, Kept, BrokerSound, MarketGrows, UNCHANGED brokerVars
  PROVE  OperationSound'
<1>1. PICK i : i = broker.job
  OBVIOUS
<1>2. UNCHANGED <<broker, intent, checkpoint, bought>>
  BY DEF brokerVars
<1>3. i \in Jobs /\ broker.kind \in Kinds
  BY <1>1 DEF BrokerSound, BrokerTypeOK
<1>4. CASE broker.at \in Operations
  <2>1. i \in Created
    BY <1>1, <1>3, <1>4 DEF BrokerSound, OperationSound, IntentSound
  <2>2. AtMarket(i)' = AtMarket(i) /\ (Verified(i) => Verified(i)')
    BY <1>3, <2>1, MarketStays, VerifiedStays DEF MarketGrows
  <2>3. order[i].status # "none" => order'[i].status # "none"
    BY <1>3 DEF MarketGrows
  <2>4. transfer[i] # "none" => transfer'[i] # "none"
    BY <1>3 DEF MarketGrows
  <2> QED BY <1>1, <1>2, <2>2, <2>3, <2>4 DEF BrokerSound, OperationSound
<1>5. CASE broker.at \notin Operations
  BY <1>2, <1>5 DEF OperationSound, Operations, Verifying
<1> QED BY <1>4, <1>5

LEMMA BrokerFrame ==
  ASSUME JobsSound, Kept, BrokerSound, MarketGrows, UNCHANGED brokerVars
  PROVE  BrokerSound'
<1>1. UNCHANGED <<broker, brokerLock, asked, intent, checkpoint, bought>>
  BY DEF brokerVars
<1>2. BrokerTypeOK' /\ BudgetKept'
  BY <1>1 DEF BrokerSound, BrokerTypeOK, BudgetKept, Reserved
<1>3. Listens'
  BY <1>1 DEF BrokerSound, Listens, MarketGrows
<1>4. ASSUME NEW i \in Jobs PROVE IntentSound(i)'
  BY <1>1, IntentFrame DEF BrokerSound, MarketGrows
<1> QED BY <1>2, <1>3, <1>4, OperationFrame DEF BrokerSound

LEMMA MarketRests ==
  ASSUME UNCHANGED marketVars
  PROVE  MarketGrows
BY DEF marketVars, MarketGrows

\* What a run's record tells stays true while its capabilities are left alone.
KindsKept(i) == \A k \in Kinds : /\ Untouched(i, k) => Untouched(i, k)'
                                 /\ Done(i, k) => Done(i, k)'

LEMMA TellsStays ==
  ASSUME NEW i \in Jobs, NEW run \in Run, KindsKept(i), Tells(i, run)
  PROVE  Tells(i, run)'
<1>1. Earlier(run.stage) \cup run.receipts \subseteq Kinds /\ ToCome(run.stage) \subseteq Kinds
  BY DEF Earlier, ToCome, Kinds, Run, Stages
<1>2. \A k \in Earlier(run.stage) \cup run.receipts : Done(i, k)'
  BY <1>1 DEF Tells, KindsKept
<1>3. \A k \in ToCome(run.stage) : Untouched(i, k)'
  BY <1>1 DEF Tells, KindsKept
<1>4. run.status = "awaiting_approval" => run.stage = "purchase" /\ Untouched(i, "data")'
  BY DEF Tells, KindsKept, Kinds
<1>5. Earlier(run.stage)' = Earlier(run.stage) /\ ToCome(run.stage)' = ToCome(run.stage)
  BY DEF Earlier, ToCome
<1> QED BY <1>2, <1>3, <1>4, <1>5 DEF Tells

LEMMA DiskFrame ==
  ASSUME JobsSound, Kept, HostSound, UNCHANGED disk, NEW i \in Jobs, KindsKept(i)
  PROVE  DiskSound(i)' /\ StatusSound(i)'
<1>1. DiskSound(i) /\ StatusSound(i) /\ disk[i].run \in Run
  BY DEF HostSound, HostTypeOK
<1>2. Begun(i) => job'[i] = job[i] /\ Begun(i)'
  BY DEF Kept, JobsKept, Begun
<1>3. DiskSound(i)'
  <2>1. disk[i].state = "none" => \A k \in Kinds : Untouched(i, k)'
    BY <1>1 DEF DiskSound, KindsKept
  <2>2. disk[i].state # "none" => Begun(i)' /\ Tells(i, disk[i].run)' /\ job'[i] = job[i]
    BY <1>1, <1>2, TellsStays DEF DiskSound
  <2> QED BY <1>1, <2>1, <2>2 DEF DiskSound
<1>4. StatusSound(i)'
  <2>1. CASE Begun(i)
    BY <1>1, <1>2, <2>1 DEF StatusSound, KindsKept, Kinds
  <2>2. CASE ~Begun(i)
    <3>1. \A k \in Kinds : Untouched(i, k)'
      BY <1>1, <2>2 DEF DiskSound, KindsKept
    <3>2. job'[i].status \in {"none", "queued", "blocked", "running"}
      BY <2>2 DEF Kept, JobsKept
    <3> QED BY <3>1, <3>2 DEF StatusSound, Kinds
  <2> QED BY <2>1, <2>2
<1> QED BY <1>3, <1>4

LEMMA CycleFrame ==
  ASSUME JobsSound, Kept, HostSound, UNCHANGED <<host, disk>>, KindsKept(host.job)
  PROVE  CycleSound'
<1>1. PICK i : i = host.job
  OBVIOUS
<1>2. i \in Jobs /\ host.run \in Run /\ CycleSound
  BY <1>1 DEF HostSound, HostTypeOK
<1>3. job[i].status \in {"running", "succeeded", "failed", "blocked", "uncertain"} => job'[i] = job[i]
  BY <1>2 DEF Kept, JobsKept, Begun
<1>4. Tells(i, host.run) => Tells(i, host.run)'
  BY <1>1, <1>2, TellsStays
<1>5. host.run.stage \in PaidStages /\ Untouched(i, Kind) => Untouched(i, Kind)'
  BY <1>1 DEF PaidStages, Kind, KindOf, Kinds, KindsKept
<1>6. At("acknowledge") => DiskSound(i) /\ disk[i].state = "finished" /\ job'[i] = job[i]
  BY <1>1, <1>2 DEF HostSound, CycleSound, DiskSound, Kept, JobsKept
<1> QED BY <1>1, <1>2, <1>3, <1>4, <1>5, <1>6 DEF CycleSound, At

LEMMA HostFrame ==
  ASSUME JobsSound, Kept, HostSound, UNCHANGED hostVars, \A i \in Jobs : KindsKept(i)
  PROVE  HostSound'
<1>1. HostTypeOK' /\ host.job \in Jobs
  BY DEF HostSound, HostTypeOK, hostVars
<1> QED BY <1>1, DiskFrame, CycleFrame DEF HostSound, hostVars

LEMMA KindsRest ==
  ASSUME UNCHANGED <<intent, asked>>
  PROVE  \A i \in Jobs : KindsKept(i)
BY DEF KindsKept, Untouched, Done

LEMMA PlatformStep ==
  ASSUME WorkSound, Platform
  PROVE  WorkSound'
<1>1. JobsSound' /\ Kept
  BY PlatformSound DEF WorkSound, Platform
<1>2. UNCHANGED <<marketVars, brokerVars, hostVars>>
  BY DEF Platform
<1>3. LateSound'
  BY <1>1, <1>2, LateStays DEF WorkSound, LateSound, hostVars, At
<1>4. MarketSound'
  BY <1>1, <1>2, MarketFrame DEF WorkSound
<1>5. BrokerSound'
  BY <1>1, <1>2, MarketRests, BrokerFrame DEF WorkSound
<1>6. HostSound'
  BY <1>1, <1>2, KindsRest, HostFrame DEF WorkSound, brokerVars
<1> QED BY <1>1, <1>3, <1>4, <1>5, <1>6 DEF WorkSound

-----------------------------------------------------------------------------
(* The steps of the market.                                                *)

OrderRecords == [status : {"none", "quoted", "paid", "fulfilled"}, open : BOOLEAN,
                 token : Nat, leased : BOOLEAN, attempts : Nat]
AttemptRecords == [at : {"idle", "claiming", "asking", "replied"}, job : Jobs, token : Nat,
                   fresh : BOOLEAN, by : {"gone", "broker", "owner"}, ok : BOOLEAN]

LEMMA MarketFacts ==
  ASSUME MarketSound
  PROVE  /\ order \in [Jobs -> OrderRecords]
         /\ attempt \in [Handlers -> AttemptRecords]
         /\ \A h \in Handlers : AttemptSound(h) /\ attempt[h].job \in Jobs
BY DEF MarketSound, MarketTypeOK, OrderRecords, AttemptRecords

LEMMA ServedIsRecord ==
  Served \in AttemptRecords /\ Served.at = "idle" /\ Served.by = "gone" /\ ~Served.ok
  /\ ~Served.fresh
<1>1. 1 \in Jobs
  BY RunnerJobsAssumption DEF Jobs
<1> QED BY <1>1 DEF Served, AttemptRecords

\* No order is undone, and what a step makes of one is sound.
OrdersGo ==
  \A i \in Jobs :
    /\ order[i].status # "none" => order'[i].status # "none"
    /\ order'[i].status # "none" => i \in Created /\ AtMarket(i)
    /\ order[i].status = "fulfilled" => order'[i].status = "fulfilled"
    /\ order'[i].attempts >= order[i].attempts
    /\ order'[i].status \in {"none", "quoted"} => order'[i].attempts = 0
    /\ order'[i].status \in {"paid", "fulfilled"} => transfer'[i] = "mined"
\* No attempt begins to ask.
NoneBegins ==
  \A g \in Handlers : Asks(g)' =>
    /\ Asks(g) /\ attempt'[g].job = attempt[g].job /\ attempt'[g].token = attempt[g].token
    /\ attempt'[g].fresh => attempt[g].fresh

LEMMA PairsStay ==
  ASSUME MarketSound, NoneBegins
  PROVE  TokensDiffer' /\ AttemptsExclude'
BY DEF MarketSound, NoneBegins, TokensDiffer, AttemptsExclude, Asks

\* An attempt that a step leaves alone.
LEMMA AttemptStays ==
  ASSUME MarketSound, OrdersGo, order' \in [Jobs -> OrderRecords],
         NEW g \in Handlers, attempt'[g] = attempt[g],
         Asks(g) /\ attempt[g].fresh /\ order'[attempt[g].job].status = "paid" =>
           order'[attempt[g].job].leased /\ order'[attempt[g].job].token = attempt[g].token
  PROVE  AttemptSound(g)'
<1>1. PICK i \in Jobs : i = attempt[g].job
  BY MarketFacts
<1>2. AttemptSound(g) /\ order[i] \in OrderRecords /\ order'[i] \in OrderRecords
      /\ attempt[g] \in AttemptRecords
  BY MarketFacts
<1>3. attempt[g].ok => order'[i].status = "fulfilled"
  BY <1>1, <1>2 DEF AttemptSound, OrdersGo
<1>4. Asks(g) => attempt[g].token \in 1 .. order'[i].attempts
  <2>1. order'[i].attempts >= order[i].attempts /\ order'[i].attempts \in Nat
        /\ order[i].attempts \in Nat
    BY <1>2 DEF OrdersGo, OrderRecords
  <2>2. Asks(g) => attempt[g].token \in 1 .. order[i].attempts
    BY <1>1, <1>2 DEF AttemptSound
  <2> QED BY <2>1, <2>2
<1> QED BY <1>1, <1>2, <1>3, <1>4 DEF AttemptSound, Asks

\* A step that leaves every asking attempt its lease, and begins no other.
LEMMA MarketChange ==
  ASSUME JobsSound, UNCHANGED jobVars, MarketSound, MarketTypeOK', OrdersGo, NoneBegins,
         \A g \in Handlers : AttemptSound(g)'
  PROVE  MarketSound'
<1>1. \A i \in Jobs : i \in Created => i \in Created' /\ (AtMarket(i) => AtMarket(i)')
  BY NothingTakenBack, MarketStays
<1>2. \A i \in Jobs : order'[i].status # "none" => i \in Created' /\ AtMarket(i)'
  BY <1>1 DEF OrdersGo
<1>3. OrdersArePaid'
  BY DEF OrdersGo, OrdersArePaid
<1> QED BY <1>2, <1>3, PairsStay DEF MarketSound, OrdersGo

LEMMA OrdersRest ==
  ASSUME MarketSound, UNCHANGED <<order, transfer>>
  PROVE  OrdersGo
<1>1. \A i \in Jobs : order[i].attempts \in Nat
  BY MarketFacts DEF OrderRecords
<1> QED BY <1>1 DEF MarketSound, OrdersGo, OrdersArePaid

LEMMA ReplySound ==
  ASSUME MarketSound, NEW h \in Handlers, NEW ok \in BOOLEAN, Reply(h, ok)
  PROVE  /\ attempt' \in [Handlers -> AttemptRecords]
         /\ \A g \in Handlers : g # h => attempt'[g] = attempt[g]
         /\ attempt'[h].at \in {"idle", "replied"}
         /\ attempt'[h].at = "idle" => attempt'[h].by = "gone"
         /\ attempt'[h].by = "broker" => attempt[h].by = "broker"
         /\ attempt'[h].by = "broker" => attempt'[h].job = attempt[h].job
         /\ attempt'[h].ok => ok /\ attempt'[h].job = attempt[h].job
<1>1. attempt[h] \in AttemptRecords /\ attempt \in [Handlers -> AttemptRecords]
  BY MarketFacts
<1>2. CASE attempt[h].by = "broker"
  <2>1. attempt' = [attempt EXCEPT ![h] = [attempt[h] EXCEPT !.at = "replied", !.ok = ok]]
    BY <1>2 DEF Reply
  <2>2. [attempt[h] EXCEPT !.at = "replied", !.ok = ok] \in AttemptRecords
    BY <1>1 DEF AttemptRecords
  <2>3. attempt'[h] = [attempt[h] EXCEPT !.at = "replied", !.ok = ok]
    BY <1>1, <2>1
  <2>4. attempt'[h].at = "replied" /\ attempt'[h].ok = ok /\ attempt'[h].job = attempt[h].job
    BY <1>1, <2>3 DEF AttemptRecords
  <2> QED BY <1>1, <1>2, <2>1, <2>2, <2>4
<1>3. CASE attempt[h].by # "broker"
  <2>1. attempt' = [attempt EXCEPT ![h] = Served]
    BY <1>3 DEF Reply
  <2> QED BY <1>1, <2>1, ServedIsRecord
<1> QED BY <1>2, <1>3

\* The request of h ends; its order is what it was, or what the holder makes of it.
LEMMA AttemptEnds ==
  ASSUME JobsSound, UNCHANGED jobVars, MarketSound, NEW h \in Handlers, NEW ok \in BOOLEAN,
         Reply(h, ok), UNCHANGED transfer, OrdersGo,
         order' \in [Jobs -> OrderRecords],
         ok => order'[attempt[h].job].status = "fulfilled",
         \A g \in Handlers : g # h /\ Asks(g) /\ attempt[g].fresh
             /\ order'[attempt[g].job].status = "paid" =>
           order'[attempt[g].job].leased /\ order'[attempt[g].job].token = attempt[g].token
  PROVE  MarketSound' /\ MarketGrows
<1>1. MarketTypeOK'
  BY ReplySound DEF MarketSound, MarketTypeOK, AttemptRecords, OrderRecords
<1>2. NoneBegins
  BY ReplySound DEF NoneBegins, Asks
<1>3. ASSUME NEW g \in Handlers PROVE AttemptSound(g)'
  <2>1. CASE g # h
    BY <2>1, ReplySound, AttemptStays
  <2>2. CASE g = h
    <3>1. attempt'[g].ok => order'[attempt'[g].job].status = "fulfilled"
      BY <2>2, ReplySound
    <3>2. ~Asks(g)'
      BY <2>2, ReplySound DEF Asks
    <3>3. attempt'[g].at = "idle" => attempt'[g].by = "gone"
      BY <2>2, ReplySound
    <3> QED BY <3>1, <3>2, <3>3 DEF AttemptSound
  <2> QED BY <2>1, <2>2
<1>4. MarketSound'
  BY <1>1, <1>2, <1>3, MarketChange
<1>5. MarketGrows
  BY ReplySound DEF MarketGrows, OrdersGo
<1> QED BY <1>4, <1>5

\* Whoever does not hold the lease shares no order with a token of its own.
LEMMA OneHolds ==
  ASSUME MarketSound, NEW g \in Handlers, NEW h \in Handlers, g # h, Asks(g), Asks(h),
         attempt[g].fresh, Holds(h), attempt[g].job = attempt[h].job
  PROVE  FALSE
<1>1. order[attempt[h].job].status = "paid" /\ order[attempt[h].job].token = attempt[h].token
  BY DEF Holds
<1>2. order[attempt[g].job].token = attempt[g].token
  BY <1>1, MarketFacts DEF AttemptSound
<1> QED BY <1>1, <1>2 DEF MarketSound, TokensDiffer

\* An order that nobody touches keeps what the attempts know of it.
LEMMA LeaseKept ==
  ASSUME MarketSound, NEW g \in Handlers, Asks(g), attempt[g].fresh,
         order[attempt[g].job].status = "paid"
  PROVE  order[attempt[g].job].leased /\ order[attempt[g].job].token = attempt[g].token
BY MarketFacts DEF AttemptSound

LEMMA CompleteDeliverySound ==
  ASSUME JobsSound, UNCHANGED jobVars, MarketSound, NEW h \in Handlers, CompleteDelivery(h)
  PROVE  MarketSound' /\ MarketGrows
<1>1. PICK i \in Jobs : i = attempt[h].job
  BY MarketFacts
<1>2. /\ Asks(h) /\ UNCHANGED transfer
      /\ order' = IF Holds(h) THEN [order EXCEPT ![i].status = "fulfilled", ![i].token = 0,
                                                ![i].leased = FALSE] ELSE order
      /\ Reply(h, Holds(h) \/ order[i].status = "fulfilled")
  BY <1>1 DEF CompleteDelivery, RequestEnds, Asks
<1>3. CASE ~Holds(h)
  <2>1. order' = order
    BY <1>2, <1>3
  <2>2. OrdersGo
    BY <1>2, <2>1, OrdersRest
  <2>3. order' \in [Jobs -> OrderRecords]
    BY <2>1, MarketFacts
  <2> QED BY <1>1, <1>2, <1>3, <2>1, <2>2, <2>3, LeaseKept, AttemptEnds
<1>4. CASE Holds(h)
  <2>1. order[i] \in OrderRecords /\ order \in [Jobs -> OrderRecords] /\ order[i].status = "paid"
    BY <1>1, <1>4, MarketFacts DEF Holds
  <2>2. order' = [order EXCEPT ![i] = [order[i] EXCEPT !.status = "fulfilled", !.token = 0,
                                                       !.leased = FALSE]]
    BY <1>2, <1>4, <2>1
  <2>3. [order[i] EXCEPT !.status = "fulfilled", !.token = 0, !.leased = FALSE] \in OrderRecords
    BY <2>1 DEF OrderRecords
  <2>4. order' \in [Jobs -> OrderRecords] /\ \A j \in Jobs : j # i => order'[j] = order[j]
    BY <2>1, <2>2, <2>3
  <2>5. order'[i].status = "fulfilled" /\ order'[i].attempts = order[i].attempts
    BY <2>1, <2>2 DEF OrderRecords
  <2>6. \A j \in Jobs : order[j].attempts \in Nat
    BY <2>1 DEF OrderRecords
  <2>7. OrdersGo
    <3>1. transfer[i] = "mined" /\ i \in Created /\ AtMarket(i)
      BY <2>1 DEF MarketSound, OrdersArePaid
    <3> QED BY <1>2, <2>1, <2>4, <2>5, <2>6, <3>1 DEF OrdersGo, MarketSound, OrdersArePaid
  <2>8. ASSUME NEW g \in Handlers, g # h, Asks(g), attempt[g].fresh,
               order'[attempt[g].job].status = "paid"
        PROVE  order'[attempt[g].job].leased /\ order'[attempt[g].job].token = attempt[g].token
    <3>1. attempt[g].job # i /\ attempt[g].job \in Jobs
      BY <2>5, <2>8, MarketFacts
    <3> QED BY <2>4, <2>8, <3>1, LeaseKept
  <2> QED BY <1>1, <1>2, <2>4, <2>5, <2>7, <2>8, AttemptEnds
<1> QED BY <1>3, <1>4

LEMMA FailDeliverySound ==
  ASSUME JobsSound, UNCHANGED jobVars, MarketSound, NEW h \in Handlers, FailDelivery(h)
  PROVE  MarketSound' /\ MarketGrows
<1>1. PICK i \in Jobs : i = attempt[h].job
  BY MarketFacts
<1>2. /\ Asks(h) /\ UNCHANGED transfer
      /\ order' = IF Holds(h) THEN [order EXCEPT ![i].token = 0, ![i].leased = FALSE] ELSE order
      /\ Reply(h, FALSE)
  BY <1>1 DEF FailDelivery, RequestEnds, Asks
<1>3. CASE ~Holds(h)
  <2>1. order' = order
    BY <1>2, <1>3
  <2>2. OrdersGo
    BY <1>2, <2>1, OrdersRest
  <2>3. order' \in [Jobs -> OrderRecords]
    BY <2>1, MarketFacts
  <2> QED BY <1>1, <1>2, <2>1, <2>2, <2>3, LeaseKept, AttemptEnds
<1>4. CASE Holds(h)
  <2>1. order[i] \in OrderRecords /\ order \in [Jobs -> OrderRecords] /\ order[i].status = "paid"
    BY <1>1, <1>4, MarketFacts DEF Holds
  <2>2. order' = [order EXCEPT ![i] = [order[i] EXCEPT !.token = 0, !.leased = FALSE]]
    BY <1>2, <1>4, <2>1
  <2>3. [order[i] EXCEPT !.token = 0, !.leased = FALSE] \in OrderRecords
    BY <2>1 DEF OrderRecords
  <2>4. order' \in [Jobs -> OrderRecords] /\ \A j \in Jobs : j # i => order'[j] = order[j]
    BY <2>1, <2>2, <2>3
  <2>5. order'[i].status = order[i].status /\ order'[i].attempts = order[i].attempts
    BY <2>1, <2>2 DEF OrderRecords
  <2>6. \A j \in Jobs : order[j].attempts \in Nat
    BY <2>1 DEF OrderRecords
  <2>7. OrdersGo
    BY <1>2, <2>4, <2>5, <2>6 DEF OrdersGo, MarketSound, OrdersArePaid
  <2>8. ASSUME NEW g \in Handlers, g # h, Asks(g), attempt[g].fresh,
               order'[attempt[g].job].status = "paid"
        PROVE  order'[attempt[g].job].leased /\ order'[attempt[g].job].token = attempt[g].token
    <3>1. attempt[g].job # i /\ attempt[g].job \in Jobs
      BY <1>1, <1>2, <1>4, <2>8, MarketFacts, OneHolds
    <3> QED BY <2>4, <2>8, <3>1, LeaseKept
  <2> QED BY <1>1, <1>2, <2>4, <2>7, <2>8, AttemptEnds
<1> QED BY <1>3, <1>4

LEMMA LoseRequestSound ==
  ASSUME JobsSound, UNCHANGED jobVars, MarketSound, NEW h \in Handlers, LoseRequest(h)
  PROVE  MarketSound' /\ MarketGrows
<1>1. UNCHANGED <<order, transfer>>
      /\ attempt' = [attempt EXCEPT ![h] = IF attempt[h].by = "broker"
                                           THEN [attempt[h] EXCEPT !.at = "replied"] ELSE Served]
  BY DEF LoseRequest
<1>2. attempt[h] \in AttemptRecords /\ attempt \in [Handlers -> AttemptRecords] /\ AttemptSound(h)
  BY MarketFacts
<1> DEFINE a == IF attempt[h].by = "broker" THEN [attempt[h] EXCEPT !.at = "replied"] ELSE Served
<1>3. PICK b : b = a
  OBVIOUS
<1>4. /\ b \in AttemptRecords /\ b.at \in {"idle", "replied"} /\ (b.at = "idle" => b.by = "gone")
      /\ b.by = "broker" => attempt[h].by = "broker" /\ b.job = attempt[h].job
      /\ b.ok => attempt[h].ok /\ b.job = attempt[h].job
  <2>1. CASE attempt[h].by = "broker"
    BY <1>2, <1>3, <2>1 DEF AttemptRecords
  <2>2. CASE attempt[h].by # "broker"
    BY <1>3, <2>2, ServedIsRecord
  <2> QED BY <2>1, <2>2
<1>5. attempt' = [attempt EXCEPT ![h] = b]
  BY <1>1, <1>3
<1> HIDE DEF a
<1>6. attempt' \in [Handlers -> AttemptRecords] /\ attempt'[h] = b
      /\ \A g \in Handlers : g # h => attempt'[g] = attempt[g]
  BY <1>2, <1>4, <1>5
<1>7. MarketTypeOK'
  BY <1>1, <1>6 DEF MarketSound, MarketTypeOK, AttemptRecords
<1>8. OrdersGo
  BY <1>1, OrdersRest
<1>9. NoneBegins
  BY <1>4, <1>6 DEF NoneBegins, Asks
<1>10. ASSUME NEW g \in Handlers PROVE AttemptSound(g)'
  <2>1. CASE g # h
    BY <1>1, <1>6, <2>1, MarketFacts DEF AttemptSound, Asks
  <2>2. CASE g = h
    BY <1>1, <1>2, <1>4, <1>6, <2>2 DEF AttemptSound, Asks
  <2> QED BY <2>1, <2>2
<1>11. MarketSound'
  BY <1>7, <1>8, <1>9, <1>10, MarketChange
<1>12. MarketGrows
  BY <1>1, <1>4, <1>6 DEF MarketGrows
<1> QED BY <1>11, <1>12

LEMMA LeaseEndsSound ==
  ASSUME JobsSound, UNCHANGED jobVars, MarketSound, NEW h \in Handlers, LeaseEnds(h)
  PROVE  MarketSound' /\ MarketGrows
<1>1. PICK i \in Jobs : i = attempt[h].job
  BY MarketFacts
<1>2. /\ Asks(h) /\ attempt[h].fresh /\ UNCHANGED transfer
      /\ attempt' = [attempt EXCEPT ![h] = [attempt[h] EXCEPT !.fresh = FALSE]]
      /\ order' = IF Holds(h) THEN [order EXCEPT ![i] = [order[i] EXCEPT !.leased = FALSE]] ELSE order
  BY <1>1 DEF LeaseEnds, Asks
<1>3. attempt[h] \in AttemptRecords /\ attempt \in [Handlers -> AttemptRecords] /\ AttemptSound(h)
      /\ order[i] \in OrderRecords /\ order \in [Jobs -> OrderRecords]
  BY <1>1, MarketFacts
<1>4. [attempt[h] EXCEPT !.fresh = FALSE] \in AttemptRecords
      /\ [order[i] EXCEPT !.leased = FALSE] \in OrderRecords
  BY <1>3 DEF AttemptRecords, OrderRecords
<1>5. /\ attempt' \in [Handlers -> AttemptRecords]
      /\ attempt'[h].at = attempt[h].at /\ attempt'[h].job = attempt[h].job
      /\ attempt'[h].token = attempt[h].token /\ attempt'[h].by = attempt[h].by
      /\ attempt'[h].ok = attempt[h].ok /\ ~attempt'[h].fresh
      /\ \A g \in Handlers : g # h => attempt'[g] = attempt[g]
  BY <1>2, <1>3, <1>4 DEF AttemptRecords
<1>6. order' \in [Jobs -> OrderRecords]
  BY <1>2, <1>3, <1>4
<1>7. ASSUME NEW j \in Jobs
      PROVE  /\ order'[j].status = order[j].status /\ order'[j].attempts = order[j].attempts
             /\ order'[j].token = order[j].token /\ order[j].attempts \in Nat
             /\ (j # i \/ ~Holds(h)) => order'[j] = order[j]
  BY <1>2, <1>3 DEF OrderRecords
<1>8. MarketTypeOK'
  BY <1>2, <1>5, <1>6 DEF MarketSound, MarketTypeOK, AttemptRecords, OrderRecords
<1>9. OrdersGo
  BY <1>2, <1>7 DEF MarketSound, OrdersGo, OrdersArePaid
<1>10. NoneBegins
  BY <1>2, <1>5 DEF NoneBegins, Asks
<1>11. ASSUME NEW g \in Handlers PROVE AttemptSound(g)'
  <2>1. CASE g # h
    <3>1. ASSUME Asks(g), attempt[g].fresh, order'[attempt[g].job].status = "paid"
          PROVE  order'[attempt[g].job].leased /\ order'[attempt[g].job].token = attempt[g].token
      <4>1. attempt[g].job \in Jobs /\ order[attempt[g].job].status = "paid"
        BY <1>7, <3>1, MarketFacts
      <4>2. attempt[g].job # i \/ ~Holds(h)
        BY <1>1, <1>2, <2>1, <3>1, OneHolds
      <4> QED BY <1>7, <3>1, <4>1, <4>2, LeaseKept
    <3> QED BY <1>5, <1>6, <1>9, <2>1, <3>1, AttemptStays
  <2>2. CASE g = h
    BY <1>1, <1>3, <1>5, <1>7, <2>2 DEF AttemptSound, Asks
  <2> QED BY <2>1, <2>2
<1>12. MarketSound'
  BY <1>8, <1>9, <1>10, <1>11, MarketChange
<1>13. MarketGrows
  BY <1>2, <1>5, <1>7 DEF MarketGrows
<1> QED BY <1>12, <1>13

LEMMA LeftLeaseEndsSound ==
  ASSUME JobsSound, UNCHANGED jobVars, MarketSound, NEW i \in Jobs, LeftLeaseEnds(i)
  PROVE  MarketSound' /\ MarketGrows
<1>1. /\ UNCHANGED <<attempt, transfer>>
      /\ order' = [order EXCEPT ![i] = [order[i] EXCEPT !.leased = FALSE]]
      /\ \A h \in Handlers : ~(Asks(h) /\ attempt[h].job = i /\ attempt[h].token = order[i].token)
  BY DEF LeftLeaseEnds, Asks
<1>2. order[i] \in OrderRecords /\ order \in [Jobs -> OrderRecords]
  BY MarketFacts
<1>3. [order[i] EXCEPT !.leased = FALSE] \in OrderRecords
  BY <1>2 DEF OrderRecords
<1>4. order' \in [Jobs -> OrderRecords]
  BY <1>1, <1>2, <1>3
<1>5. ASSUME NEW j \in Jobs
      PROVE  /\ order'[j].status = order[j].status /\ order'[j].attempts = order[j].attempts
             /\ order[j].attempts \in Nat
             /\ j # i => order'[j] = order[j]
  BY <1>1, <1>2 DEF OrderRecords
<1>6. MarketTypeOK'
  BY <1>1, <1>4 DEF MarketSound, MarketTypeOK, OrderRecords
<1>7. OrdersGo
  BY <1>1, <1>5 DEF MarketSound, OrdersGo, OrdersArePaid
<1>8. NoneBegins
  BY <1>1 DEF NoneBegins, Asks
<1>9. ASSUME NEW g \in Handlers PROVE AttemptSound(g)'
  <2>1. ASSUME Asks(g), attempt[g].fresh, order'[attempt[g].job].status = "paid"
        PROVE  order'[attempt[g].job].leased /\ order'[attempt[g].job].token = attempt[g].token
    <3>1. attempt[g].job \in Jobs /\ order[attempt[g].job].status = "paid"
      BY <1>5, <2>1, MarketFacts
    <3>2. attempt[g].job # i
      BY <1>1, <2>1, <3>1, LeaseKept
    <3> QED BY <1>5, <2>1, <3>1, <3>2, LeaseKept
  <2> QED BY <1>1, <1>4, <1>7, <2>1, AttemptStays
<1>10. MarketSound'
  BY <1>6, <1>7, <1>8, <1>9, MarketChange
<1>11. MarketGrows
  BY <1>1, <1>5 DEF MarketGrows
<1> QED BY <1>10, <1>11

LEMMA WindowClosesSound ==
  ASSUME JobsSound, UNCHANGED jobVars, MarketSound, NEW i \in Jobs, WindowCloses(i)
  PROVE  MarketSound' /\ MarketGrows
<1>1. /\ UNCHANGED <<attempt, transfer>>
      /\ order' = [order EXCEPT ![i] = [order[i] EXCEPT !.open = FALSE]]
  BY DEF WindowCloses
<1>2. order[i] \in OrderRecords /\ order \in [Jobs -> OrderRecords]
  BY MarketFacts
<1>3. [order[i] EXCEPT !.open = FALSE] \in OrderRecords
  BY <1>2 DEF OrderRecords
<1>4. order' \in [Jobs -> OrderRecords]
  BY <1>1, <1>2, <1>3
<1>5. ASSUME NEW j \in Jobs
      PROVE  /\ order'[j].status = order[j].status /\ order'[j].attempts = order[j].attempts
             /\ order'[j].leased = order[j].leased /\ order'[j].token = order[j].token
             /\ order[j].attempts \in Nat
  BY <1>1, <1>2 DEF OrderRecords
<1>6. MarketTypeOK'
  BY <1>1, <1>4 DEF MarketSound, MarketTypeOK, OrderRecords
<1>7. OrdersGo
  BY <1>1, <1>5 DEF MarketSound, OrdersGo, OrdersArePaid
<1>8. NoneBegins
  BY <1>1 DEF NoneBegins, Asks
<1>9. ASSUME NEW g \in Handlers PROVE AttemptSound(g)'
  <2>1. attempt[g].job \in Jobs
    BY MarketFacts
  <2>2. Asks(g) /\ attempt[g].fresh /\ order'[attempt[g].job].status = "paid" =>
          order'[attempt[g].job].leased /\ order'[attempt[g].job].token = attempt[g].token
    BY <1>5, <2>1, LeaseKept
  <2> QED BY <1>1, <1>4, <1>7, <2>2, AttemptStays
<1>10. MarketSound'
  BY <1>6, <1>7, <1>8, <1>9, MarketChange
<1>11. MarketGrows
  BY <1>1, <1>5 DEF MarketGrows
<1> QED BY <1>10, <1>11

LEMMA MineSound ==
  ASSUME JobsSound, UNCHANGED jobVars, MarketSound, NEW i \in Jobs, Mine(i)
  PROVE  MarketSound' /\ MarketGrows
<1>1. /\ transfer[i] = "pending" /\ UNCHANGED <<order, attempt>>
      /\ \E outcome \in {"mined", "late", "failed"} : transfer' = [transfer EXCEPT ![i] = outcome]
  BY DEF Mine
<1>2. transfer \in [Jobs -> {"none", "pending", "mined", "late", "failed"}]
  BY DEF MarketSound, MarketTypeOK
<1>3. transfer' \in [Jobs -> {"none", "pending", "mined", "late", "failed"}]
      /\ transfer'[i] \in {"mined", "late", "failed"}
      /\ \A j \in Jobs : j # i => transfer'[j] = transfer[j]
  BY <1>1, <1>2
<1>4. MarketTypeOK'
  BY <1>1, <1>3 DEF MarketSound, MarketTypeOK
<1>5. order[i].status \notin {"paid", "fulfilled"}
  BY <1>1 DEF MarketSound, OrdersArePaid
<1>6. OrdersGo
  <2>1. \A j \in Jobs : order[j].attempts \in Nat
    BY MarketFacts DEF OrderRecords
  <2> QED BY <1>1, <1>3, <1>5, <2>1 DEF MarketSound, OrdersGo, OrdersArePaid
<1>7. NoneBegins
  BY <1>1 DEF NoneBegins, Asks
<1>8. \A g \in Handlers : AttemptSound(g)'
  BY <1>1, MarketFacts DEF AttemptSound, Asks
<1>9. MarketSound'
  BY <1>4, <1>6, <1>7, <1>8, MarketChange
<1>10. MarketGrows
  BY <1>1, <1>3 DEF MarketGrows
<1> QED BY <1>9, <1>10

\* A request that takes a free place.
LEMMA RequestBegins ==
  ASSUME JobsSound, UNCHANGED jobVars, MarketSound, NEW h \in Handlers,
         NEW a \in AttemptRecords, attempt' = [attempt EXCEPT ![h] = a],
         a.at \in {"claiming", "replied"}, a.ok => order'[a.job].status = "fulfilled",
         OrdersGo, order' \in [Jobs -> OrderRecords], UNCHANGED transfer,
         \A g \in Handlers : g # h /\ Asks(g) /\ attempt[g].fresh
             /\ order'[attempt[g].job].status = "paid" =>
           order'[attempt[g].job].leased /\ order'[attempt[g].job].token = attempt[g].token
  PROVE  MarketSound'
<1>1. attempt \in [Handlers -> AttemptRecords]
  BY MarketFacts
<1>2. attempt' \in [Handlers -> AttemptRecords] /\ attempt'[h] = a
      /\ \A g \in Handlers : g # h => attempt'[g] = attempt[g]
  BY <1>1
<1>3. MarketTypeOK'
  BY <1>2 DEF MarketSound, MarketTypeOK, AttemptRecords, OrderRecords
<1>4. NoneBegins
  BY <1>2 DEF NoneBegins, Asks
<1>5. ASSUME NEW g \in Handlers PROVE AttemptSound(g)'
  <2>1. CASE g # h
    BY <1>2, <2>1, AttemptStays
  <2>2. CASE g = h
    BY <1>2, <2>2 DEF AttemptSound, Asks
  <2> QED BY <2>1, <2>2
<1> QED BY <1>3, <1>4, <1>5, MarketChange

LEMMA RetryMarketDeliverySound ==
  ASSUME JobsSound, UNCHANGED jobVars, MarketSound, NEW h \in Handlers, NEW i \in Jobs,
         RetryMarketDelivery(h, i)
  PROVE  MarketSound' /\ MarketGrows
<1>1. PICK a : a = [Served EXCEPT !.at = "claiming", !.job = i, !.by = "owner"]
  OBVIOUS
<1>2. UNCHANGED <<order, transfer>> /\ attempt' = [attempt EXCEPT ![h] = a]
  BY <1>1 DEF RetryMarketDelivery
<1>3. a \in AttemptRecords /\ a.at = "claiming" /\ ~a.ok /\ a.by = "owner"
  BY <1>1 DEF Served, AttemptRecords
<1>4. OrdersGo /\ order' \in [Jobs -> OrderRecords]
  BY <1>2, OrdersRest, MarketFacts
<1>5. MarketSound'
  BY <1>2, <1>3, <1>4, LeaseKept, RequestBegins
<1>6. MarketGrows
  BY <1>2, <1>3, MarketFacts DEF MarketGrows
<1> QED BY <1>5, <1>6

\* The lease is taken with a token that no attempt of the order has.
LEMMA ClaimDeliverySound ==
  ASSUME JobsSound, UNCHANGED jobVars, MarketSound, NEW h \in Handlers, ClaimDelivery(h)
  PROVE  MarketSound' /\ MarketGrows
<1>1. PICK i \in Jobs : i = attempt[h].job
  BY MarketFacts
<1>2. attempt[h] \in AttemptRecords /\ attempt \in [Handlers -> AttemptRecords] /\ AttemptSound(h)
      /\ order[i] \in OrderRecords /\ order \in [Jobs -> OrderRecords]
      /\ \A j \in Jobs : order[j].attempts \in Nat
  BY <1>1, MarketFacts DEF OrderRecords
<1>3. PICK token \in Nat : token = order[i].attempts + 1
  BY <1>2
<1>4. attempt[h].at = "claiming" /\ UNCHANGED transfer
  BY DEF ClaimDelivery
<1>5. CASE Reply(h, order[i].status = "fulfilled") /\ UNCHANGED order
  <2>1. OrdersGo /\ order' \in [Jobs -> OrderRecords]
    BY <1>2, <1>4, <1>5, OrdersRest
  <2>2. \A g \in Handlers : g # h /\ Asks(g) /\ attempt[g].fresh
             /\ order'[attempt[g].job].status = "paid" =>
           order'[attempt[g].job].leased /\ order'[attempt[g].job].token = attempt[g].token
    BY <1>5, LeaseKept
  <2> QED BY <1>1, <1>4, <1>5, <2>1, <2>2, AttemptEnds
<1>6. CASE /\ order[i].status = "paid" /\ ~order[i].leased
           /\ order' = [order EXCEPT ![i] = [order[i] EXCEPT !.token = token, !.leased = TRUE,
                                                             !.attempts = token]]
           /\ attempt' = [attempt EXCEPT ![h] = [attempt[h] EXCEPT !.at = "asking",
                                                   !.token = token, !.fresh = TRUE]]
  <2>1. [order[i] EXCEPT !.token = token, !.leased = TRUE, !.attempts = token] \in OrderRecords
    BY <1>2 DEF OrderRecords
  <2>2. [attempt[h] EXCEPT !.at = "asking", !.token = token, !.fresh = TRUE] \in AttemptRecords
    BY <1>2 DEF AttemptRecords
  <2>3. /\ order' \in [Jobs -> OrderRecords]
        /\ order'[i].status = "paid" /\ order'[i].token = token /\ order'[i].leased
        /\ order'[i].attempts = token
        /\ \A j \in Jobs : j # i => order'[j] = order[j]
    BY <1>2, <1>6, <2>1 DEF OrderRecords
  <2>4. /\ attempt' \in [Handlers -> AttemptRecords]
        /\ attempt'[h].at = "asking" /\ attempt'[h].token = token /\ attempt'[h].job = i
        /\ attempt'[h].by = attempt[h].by /\ attempt'[h].ok = attempt[h].ok
        /\ \A g \in Handlers : g # h => attempt'[g] = attempt[g]
    BY <1>1, <1>2, <1>6, <2>2 DEF AttemptRecords
  <2>5. MarketTypeOK'
    BY <1>4, <2>3, <2>4 DEF MarketSound, MarketTypeOK, AttemptRecords, OrderRecords
  <2>6. OrdersGo
    <3>1. ASSUME NEW j \in Jobs
          PROVE /\ order[j].status # "none" => order'[j].status # "none"
                /\ order'[j].status # "none" => j \in Created /\ AtMarket(j)
                /\ order[j].status = "fulfilled" => order'[j].status = "fulfilled"
                /\ order'[j].attempts >= order[j].attempts
                /\ order'[j].status \in {"none", "quoted"} => order'[j].attempts = 0
                /\ order'[j].status \in {"paid", "fulfilled"} => transfer'[j] = "mined"
      <4>1. CASE j = i
        BY <1>2, <1>3, <1>4, <1>6, <2>3, <4>1 DEF MarketSound, OrdersArePaid
      <4>2. CASE j # i
        BY <1>2, <1>4, <2>3, <4>2 DEF MarketSound, OrdersArePaid
      <4> QED BY <4>1, <4>2
    <3> QED BY <3>1 DEF OrdersGo
  <2>7. ASSUME NEW g \in Handlers, g # h, Asks(g), attempt[g].job = i
        PROVE  attempt[g].token # token /\ ~attempt[g].fresh
    <3>1. attempt[g].token \in 1 .. order[i].attempts
      BY <2>7, MarketFacts DEF AttemptSound
    <3>2. ~attempt[g].fresh
      BY <1>6, <2>7, LeaseKept
    <3> QED BY <1>2, <1>3, <3>1, <3>2
  <2>8. ASSUME NEW g \in Handlers PROVE AttemptSound(g)'
    <3>1. CASE g # h
      <4>1. attempt'[g] = attempt[g] /\ attempt[g].job \in Jobs
        BY <2>4, <3>1, MarketFacts
      <4>2. ASSUME Asks(g), attempt[g].fresh, order'[attempt[g].job].status = "paid"
            PROVE  order'[attempt[g].job].leased /\ order'[attempt[g].job].token = attempt[g].token
        <5>1. attempt[g].job # i
          BY <2>7, <3>1, <4>2
        <5> QED BY <2>3, <4>1, <4>2, <5>1, LeaseKept
      <4> QED BY <2>3, <2>6, <4>1, <4>2, AttemptStays
    <3>2. CASE g = h
      <4>1. token \in 1 .. token
        BY <1>2, <1>3
      <4>2. ~attempt[h].ok
        BY <1>1, <1>2, <1>6 DEF AttemptSound
      <4> QED BY <2>3, <2>4, <3>2, <4>1, <4>2 DEF AttemptSound, Asks
    <3> QED BY <3>1, <3>2
  <2>9. TokensDiffer'
    <3>1. ASSUME NEW f \in Handlers, NEW g \in Handlers, f # g, Asks(f)', Asks(g)',
                 attempt'[f].job = attempt'[g].job
          PROVE  attempt'[f].token # attempt'[g].token
      <4>1. CASE f = h
        BY <2>4, <2>7, <3>1, <4>1 DEF Asks
      <4>2. CASE g = h
        BY <2>4, <2>7, <3>1, <4>2 DEF Asks
      <4>3. CASE f # h /\ g # h
        BY <2>4, <3>1, <4>3 DEF MarketSound, TokensDiffer, Asks
      <4> QED BY <4>1, <4>2, <4>3
    <3> QED BY <3>1 DEF TokensDiffer
  <2>10. AttemptsExclude'
    <3>1. ASSUME NEW f \in Handlers, NEW g \in Handlers, f # g, Asks(f)', Asks(g)',
                 attempt'[f].job = attempt'[g].job
          PROVE  ~(attempt'[f].fresh /\ attempt'[g].fresh)
      <4>1. CASE f = h
        BY <2>4, <2>7, <3>1, <4>1 DEF Asks
      <4>2. CASE g = h
        BY <2>4, <2>7, <3>1, <4>2 DEF Asks
      <4>3. CASE f # h /\ g # h
        BY <2>4, <3>1, <4>3 DEF MarketSound, AttemptsExclude, Asks
      <4> QED BY <4>1, <4>2, <4>3
    <3> QED BY <3>1 DEF AttemptsExclude, Asks
  <2>11. \A j \in Jobs : j \in Created => j \in Created' /\ (AtMarket(j) => AtMarket(j)')
    BY NothingTakenBack, MarketStays
  <2>12. \A j \in Jobs : order'[j].status # "none" => j \in Created' /\ AtMarket(j)'
    BY <2>6, <2>11 DEF OrdersGo
  <2>13. OrdersArePaid'
    BY <2>6 DEF OrdersGo, OrdersArePaid
  <2>14. MarketSound'
    BY <2>5, <2>6, <2>8, <2>9, <2>10, <2>12, <2>13 DEF MarketSound, OrdersGo
  <2>15. MarketGrows
    <3>1. \A g \in Handlers :
            attempt'[g].by = "broker" => attempt[g].by = "broker" /\ attempt'[g].job = attempt[g].job
      BY <1>1, <2>4
    <3> QED BY <1>4, <2>6, <3>1 DEF MarketGrows, OrdersGo
  <2> QED BY <2>14, <2>15
<1> QED BY <1>1, <1>3, <1>5, <1>6 DEF ClaimDelivery

LEMMA MarketStep ==
  ASSUME WorkSound, Market
  PROVE  WorkSound'
<1>1. MarketNext /\ UNCHANGED <<jobVars, brokerVars, hostVars>>
  BY DEF Market
<1>2. JobsSound /\ JobsSound' /\ Kept /\ MarketSound
  BY <1>1, NothingTakenBack DEF WorkSound
<1>3. MarketSound' /\ MarketGrows
  BY <1>1, <1>2, ClaimDeliverySound, CompleteDeliverySound, FailDeliverySound, LoseRequestSound,
     LeaseEndsSound, RetryMarketDeliverySound, LeftLeaseEndsSound, WindowClosesSound, MineSound
     DEF MarketNext
<1>4. LateSound'
  BY <1>1, <1>2, LateStays DEF WorkSound, LateSound, hostVars, At
<1>5. BrokerSound'
  BY <1>1, <1>2, <1>3, BrokerFrame DEF WorkSound
<1>6. HostSound'
  BY <1>1, <1>2, KindsRest, HostFrame DEF WorkSound, brokerVars
<1> QED BY <1>2, <1>3, <1>4, <1>5, <1>6 DEF WorkSound

-----------------------------------------------------------------------------
(* The steps of the broker.                                                *)

LEMMA BrokerFacts ==
  ASSUME BrokerSound
  PROVE  /\ broker \in [at : Operations \cup {"off", "idle"}, job : Jobs, kind : Kinds, tries : 0 .. 2]
         /\ broker.job \in Jobs /\ broker.kind \in Kinds
         /\ brokerLock \in {"free", "held", "left"}
         /\ asked \subseteq Jobs \X Kinds
         /\ intent \in [Jobs -> [Kinds -> {"none", "pending", "settled"}]]
         /\ checkpoint \in [Jobs -> Checkpoints]
         /\ bought \subseteq Jobs
         /\ Listens /\ OperationSound /\ BudgetKept
         /\ \A i \in Jobs : IntentSound(i)
BY DEF BrokerSound, BrokerTypeOK

\* Which places the process may be in afterwards.
LEMMA GotoSound ==
  ASSUME BrokerSound, NEW step \in Operations, Goto(step)
  PROVE  /\ broker' \in [at : Operations \cup {"off", "idle"}, job : Jobs, kind : Kinds, tries : 0 .. 2]
         /\ broker'.at = step /\ broker'.job = broker.job /\ broker'.kind = broker.kind
BY BrokerFacts DEF Goto

LEMMA BecomesSound ==
  ASSUME NEW state \in {"off", "idle"}, Becomes(state)
  PROVE  /\ broker' \in [at : Operations \cup {"off", "idle"}, job : Jobs, kind : Kinds, tries : 0 .. 2]
         /\ broker'.at = state /\ OperationSound'
<1>1. 1 \in Jobs
  BY RunnerJobsAssumption DEF Jobs
<1>2. broker' \in [at : Operations \cup {"off", "idle"}, job : Jobs, kind : Kinds, tries : 0 .. 2]
      /\ broker'.at = state
  BY <1>1 DEF Becomes, Kinds
<1> QED BY <1>2 DEF OperationSound, Operations, Verifying

LEMMA NoneListens ==
  ASSUME BrokerSound, broker.at # "confirming", UNCHANGED attempt
  PROVE  Listens'
BY BrokerFacts DEF Listens

LEMMA BudgetRests ==
  ASSUME BrokerSound, UNCHANGED intent
  PROVE  BudgetKept'
BY BrokerFacts DEF BudgetKept, Reserved

\* A step of the process alone that ends its operation or is none of it.
LEMMA ProcessStep ==
  ASSUME JobsSound, BrokerSound, UNCHANGED <<jobVars, marketVars, intent, checkpoint, bought>>,
         asked' \subseteq asked, brokerLock' \in {"free", "held", "left"},
         broker.at # "confirming",
         broker' \in [at : Operations \cup {"off", "idle"}, job : Jobs, kind : Kinds, tries : 0 .. 2],
         OperationSound'
  PROVE  BrokerSound'
<1>1. Kept
  BY NothingTakenBack
<1>2. UNCHANGED <<order, attempt, transfer>>
  BY DEF marketVars
<1>3. BrokerTypeOK'
  BY BrokerFacts DEF BrokerTypeOK
<1>4. ASSUME NEW i \in Jobs PROVE IntentSound(i)'
  BY <1>1, <1>2, BrokerFacts, IntentFrame
<1> QED BY <1>2, <1>3, <1>4, NoneListens, BudgetRests DEF BrokerSound

LEMMA FailSound ==
  ASSUME JobsSound, BrokerSound, UNCHANGED jobVars, Fail
  PROVE  BrokerSound'
<1>1. UNCHANGED <<marketVars, brokerLock, asked, intent, checkpoint, bought>> /\ Becomes("idle")
      /\ broker.at # "confirming"
  BY DEF Fail, Refused, Performs, Rests
<1> QED BY <1>1, BecomesSound, BrokerFacts, ProcessStep

LEMMA BrokerStartSound ==
  ASSUME JobsSound, BrokerSound, UNCHANGED jobVars, BrokerStart
  PROVE  BrokerSound'
<1>1. UNCHANGED <<marketVars, asked, intent, checkpoint, bought>> /\ Becomes("idle")
      /\ broker.at # "confirming" /\ brokerLock' = "held"
  BY DEF BrokerStart, Rests
<1> QED BY <1>1, BecomesSound, BrokerFacts, ProcessStep

LEMMA BrokerStopSound ==
  ASSUME JobsSound, BrokerSound, UNCHANGED jobVars, BrokerStop
  PROVE  BrokerSound'
<1>1. UNCHANGED <<marketVars, asked, intent, checkpoint, bought>> /\ Becomes("off")
      /\ broker.at # "confirming" /\ brokerLock' = "free"
  BY DEF BrokerStop
<1> QED BY <1>1, BecomesSound, BrokerFacts, ProcessStep

LEMMA ReconcileBrokerSound ==
  ASSUME JobsSound, MarketSound, BrokerSound, UNCHANGED jobVars, ReconcileBroker
  PROVE  BrokerSound'
<1>1. UNCHANGED <<marketVars, broker, asked, intent, checkpoint, bought>> /\ brokerLock' = "free"
  BY DEF ReconcileBroker
<1>2. UNCHANGED <<order, attempt, transfer>>
  BY <1>1 DEF marketVars
<1>3. BrokerTypeOK' /\ Listens' /\ BudgetKept'
  BY <1>1, <1>2, BrokerFacts DEF BrokerTypeOK, Listens, BudgetKept, Reserved
<1>4. Kept
  BY NothingTakenBack
<1>5. ASSUME NEW i \in Jobs PROVE IntentSound(i)'
  BY <1>1, <1>2, <1>4, BrokerFacts, IntentFrame
<1>6. AtMarket(broker.job)' = AtMarket(broker.job) /\ Verified(broker.job)' = Verified(broker.job)
  BY <1>1, <1>2 DEF AtMarket, Verified, jobVars
<1>7. OperationSound'
  BY <1>1, <1>2, <1>6, BrokerFacts DEF OperationSound
<1> QED BY <1>3, <1>5, <1>7 DEF BrokerSound

LEMMA WriteReportSound ==
  ASSUME JobsSound, BrokerSound, UNCHANGED jobVars, WriteReport
  PROVE  BrokerSound'
<1>1. UNCHANGED <<marketVars, brokerLock, asked, intent, checkpoint, bought>> /\ Goto("settle")
      /\ broker.at = "operate" /\ broker.kind = "report"
  BY DEF WriteReport, Performs
<1>2. /\ broker' \in [at : Operations \cup {"off", "idle"}, job : Jobs, kind : Kinds, tries : 0 .. 2]
      /\ broker'.at = "settle" /\ broker'.job = broker.job /\ broker'.kind = "report"
  BY <1>1, GotoSound DEF Operations
<1>3. OperationSound'
  BY <1>1, <1>2, BrokerFacts DEF OperationSound, Operations, Verifying
<1> QED BY <1>1, <1>2, <1>3, BrokerFacts, ProcessStep

LEMMA BuyDataSound ==
  ASSUME JobsSound, BrokerSound, UNCHANGED jobVars, BuyData
  PROVE  BrokerSound'
<1>1. /\ UNCHANGED <<marketVars, brokerLock, asked, intent, checkpoint>> /\ Goto("settle")
      /\ broker.at = "operate" /\ broker.kind = "data" /\ bought' = bought \cup {broker.job}
  BY DEF BuyData, Performs
<1>2. /\ broker' \in [at : Operations \cup {"off", "idle"}, job : Jobs, kind : Kinds, tries : 0 .. 2]
      /\ broker'.at = "settle" /\ broker'.job = broker.job /\ broker'.kind = "data"
  BY <1>1, GotoSound DEF Operations
<1>3. intent[broker.job]["data"] = "pending"
  BY <1>1, BrokerFacts DEF OperationSound, Operations
<1>4. OperationSound'
  BY <1>1, <1>2, <1>3 DEF OperationSound, Operations, Verifying
<1>5. UNCHANGED <<order, attempt, transfer>> /\ Kept
  BY <1>1, NothingTakenBack DEF marketVars
<1>6. BrokerTypeOK'
  BY <1>1, <1>2, BrokerFacts DEF BrokerTypeOK
<1>7. ASSUME NEW i \in Jobs PROVE IntentSound(i)'
  <2>1. IntentSound(i)
    BY BrokerFacts
  <2>2. i \in bought' => intent[i]["data"] # "none"
    BY <1>1, <1>3, <2>1 DEF IntentSound
  <2>3. transfer'[i] # "none" =>
           /\ intent[i]["verify"] # "none"
           /\ AtMarket(i) => order'[i].status # "none" /\ checkpoint'[i] \notin {"none", "quoted"}
    BY <1>1, <1>5, <2>1 DEF IntentSound
  <2> QED BY <1>1, <1>5, <2>1, <2>2, <2>3, IntentChange
<1>8. Listens' /\ BudgetKept'
  BY <1>1, <1>5, NoneListens, BudgetRests
<1> QED BY <1>4, <1>6, <1>7, <1>8 DEF BrokerSound

\* A step that writes a checkpoint of a job whose order is on file.
LEMMA CheckpointStep ==
  ASSUME JobsSound, BrokerSound, UNCHANGED <<jobVars, marketVars, brokerLock, asked, intent, bought>>,
         NEW i \in Jobs, NEW stage \in Checkpoints \ {"none", "quoted"},
         checkpoint' = checkpoint \/ Note(i, stage),
         broker.at # "confirming",
         broker' \in [at : Operations \cup {"off", "idle"}, job : Jobs, kind : Kinds, tries : 0 .. 2],
         OperationSound'
  PROVE  BrokerSound'
<1>1. UNCHANGED <<order, attempt, transfer>> /\ Kept
  BY NothingTakenBack DEF marketVars
<1>2. checkpoint' \in [Jobs -> Checkpoints]
      /\ \A j \in Jobs : checkpoint'[j] = checkpoint[j] \/ checkpoint'[j] \notin {"none", "quoted"}
  BY BrokerFacts DEF Note
<1>3. BrokerTypeOK'
  BY <1>2, BrokerFacts DEF BrokerTypeOK
<1>4. ASSUME NEW j \in Jobs PROVE IntentSound(j)'
  <2>1. IntentSound(j)
    BY BrokerFacts
  <2>2. transfer'[j] # "none" =>
           /\ intent[j]["verify"] # "none"
           /\ AtMarket(j) => order'[j].status # "none" /\ checkpoint'[j] \notin {"none", "quoted"}
    BY <1>1, <1>2, <2>1 DEF IntentSound
  <2>3. j \in bought' => intent[j]["data"] # "none"
    BY <2>1 DEF IntentSound
  <2> QED BY <1>1, <2>1, <2>2, <2>3, IntentChange
<1>5. Listens' /\ BudgetKept'
  BY <1>1, NoneListens, BudgetRests
<1> QED BY <1>3, <1>4, <1>5 DEF BrokerSound

LEMMA MarketSame ==
  ASSUME UNCHANGED <<jobVars, marketVars>>, NEW i \in Jobs
  PROVE  /\ AtMarket(i)' = AtMarket(i) /\ Verified(i)' = Verified(i)
         /\ UNCHANGED <<order, attempt, transfer>>
BY DEF AtMarket, Verified, jobVars, marketVars

LEMMA AuthorizeSound ==
  ASSUME JobsSound, BrokerSound, UNCHANGED jobVars, Authorize
  PROVE  BrokerSound'
<1>1. PICK i \in Jobs : i = broker.job
  BY BrokerFacts
<1>2. /\ UNCHANGED <<marketVars, brokerLock, asked, intent, bought>> /\ Goto("submitting")
      /\ broker.at = "quoted" /\ broker.kind = "verify" /\ Note(i, "submitting")
  BY <1>1 DEF Authorize, Performs
<1>3. /\ broker' \in [at : Operations \cup {"off", "idle"}, job : Jobs, kind : Kinds, tries : 0 .. 2]
      /\ broker'.at = "submitting" /\ broker'.job = i /\ broker'.kind = "verify"
  BY <1>1, <1>2, GotoSound DEF Operations
<1>4. AtMarket(i) /\ order[i].status # "none" /\ intent[i]["verify"] = "pending"
  BY <1>1, <1>2, BrokerFacts DEF OperationSound, Operations
<1>5. checkpoint'[i] = "submitting"
  BY <1>2, BrokerFacts DEF Note
<1>6. OperationSound'
  BY <1>2, <1>3, <1>4, <1>5, MarketSame DEF OperationSound, Operations, Verifying
<1>7. "submitting" \in Checkpoints \ {"none", "quoted"}
  BY DEF Checkpoints
<1> QED BY <1>2, <1>3, <1>6, <1>7, CheckpointStep

LEMMA SubmittedSound ==
  ASSUME JobsSound, BrokerSound, UNCHANGED jobVars, Submitted
  PROVE  BrokerSound'
<1>1. PICK i \in Jobs : i = broker.job
  BY BrokerFacts
<1>2. /\ UNCHANGED <<marketVars, brokerLock, asked, intent, bought>> /\ Goto("submitted")
      /\ broker.at = "sent" /\ broker.kind = "verify"
      /\ checkpoint' = checkpoint \/ Note(i, "submitted")
  BY <1>1 DEF Submitted, Performs
<1>3. /\ broker' \in [at : Operations \cup {"off", "idle"}, job : Jobs, kind : Kinds, tries : 0 .. 2]
      /\ broker'.at = "submitted" /\ broker'.job = i /\ broker'.kind = "verify"
  BY <1>1, <1>2, GotoSound DEF Operations
<1>4. transfer[i] # "none" /\ intent[i]["verify"] = "pending"
  BY <1>1, <1>2, BrokerFacts DEF OperationSound, Operations
<1>5. OperationSound'
  BY <1>2, <1>3, <1>4, MarketSame DEF OperationSound, Operations, Verifying
<1>6. "submitted" \in Checkpoints \ {"none", "quoted"}
  BY DEF Checkpoints
<1> QED BY <1>2, <1>3, <1>5, <1>6, CheckpointStep

LEMMA SeeReceiptSound ==
  ASSUME JobsSound, BrokerSound, UNCHANGED jobVars, SeeReceipt
  PROVE  BrokerSound'
<1>1. PICK i \in Jobs : i = broker.job
  BY BrokerFacts
<1>2. /\ UNCHANGED <<marketVars, brokerLock, asked, intent, bought>>
      /\ broker.at = "submitted" /\ broker.kind = "verify" /\ transfer[i] \in {"mined", "late"}
      /\ IF AtMarket(i) THEN Note(i, "paid") /\ Goto("paid")
                        ELSE UNCHANGED checkpoint /\ Goto("settle")
  BY <1>1 DEF SeeReceipt, Performs
<1>3. intent[i]["verify"] = "pending" /\ IntentSound(i)
  BY <1>1, <1>2, BrokerFacts DEF OperationSound, Operations
<1>4. "paid" \in Checkpoints \ {"none", "quoted"} /\ broker.at # "confirming"
  BY <1>2 DEF Checkpoints
<1>5. CASE AtMarket(i)
  <2>1. Note(i, "paid") /\ Goto("paid")
    BY <1>2, <1>5
  <2>2. /\ broker' \in [at : Operations \cup {"off", "idle"}, job : Jobs, kind : Kinds, tries : 0 .. 2]
        /\ broker'.at = "paid" /\ broker'.job = i /\ broker'.kind = "verify"
    BY <1>1, <1>2, <2>1, GotoSound DEF Operations
  <2>3. order[i].status # "none"
    BY <1>2, <1>3, <1>5 DEF IntentSound
  <2>4. OperationSound'
    BY <1>2, <1>3, <1>5, <2>2, <2>3, MarketSame DEF OperationSound, Operations, Verifying
  <2> QED BY <1>2, <1>4, <2>1, <2>2, <2>4, CheckpointStep
<1>6. CASE ~AtMarket(i)
  <2>1. UNCHANGED checkpoint /\ Goto("settle")
    BY <1>2, <1>6
  <2>2. /\ broker' \in [at : Operations \cup {"off", "idle"}, job : Jobs, kind : Kinds, tries : 0 .. 2]
        /\ broker'.at = "settle" /\ broker'.job = i /\ broker'.kind = "verify"
    BY <1>1, <1>2, <2>1, GotoSound DEF Operations
  <2>3. Verified(i)
    BY <1>2, <1>6 DEF Verified
  <2>4. OperationSound'
    BY <1>2, <1>3, <2>2, <2>3, MarketSame DEF OperationSound, Operations, Verifying
  <2> QED BY <1>2, <1>4, <2>1, <2>2, <2>4, CheckpointStep
<1> QED BY <1>5, <1>6

LEMMA ExecuteSound ==
  ASSUME JobsSound, BrokerSound, UNCHANGED jobVars, NEW i \in Jobs, NEW k \in Kinds, Execute(i, k)
  PROVE  BrokerSound' /\ \A j \in Jobs : KindsKept(j)
<1>1. /\ UNCHANGED <<marketVars, brokerLock, checkpoint, bought>>
      /\ broker.at = "idle" /\ <<i, k>> \in asked /\ asked' = asked \ {<<i, k>>}
  BY DEF Execute
<1>2. intent \in [Jobs -> [Kinds -> {"none", "pending", "settled"}]]
  BY BrokerFacts
<1>3. CASE UNCHANGED <<intent, broker>>
  <2>1. OperationSound'
    BY <1>1, <1>3 DEF OperationSound, Operations, Verifying
  <2>2. BrokerSound'
    BY <1>1, <1>3, <2>1, BrokerFacts, ProcessStep
  <2>3. \A j \in Jobs : KindsKept(j)
    BY <1>1, <1>3 DEF KindsKept, Untouched, Done
  <2> QED BY <2>2, <2>3
<1>4. CASE /\ intent[i][k] = "none" /\ (k # "report" => Reserved(k) < Budget[k])
           /\ intent' = [intent EXCEPT ![i][k] = "pending"]
           /\ broker' = [at |-> "operate", job |-> i, kind |-> k, tries |-> 0]
  <2>1. /\ intent' \in [Jobs -> [Kinds -> {"none", "pending", "settled"}]]
        /\ intent'[i][k] = "pending"
        /\ \A j \in Jobs, l \in Kinds : j # i \/ l # k => intent'[j][l] = intent[j][l]
    BY <1>2, <1>4
  <2>2. BrokerTypeOK'
    BY <1>1, <1>4, <2>1, BrokerFacts DEF BrokerTypeOK, Operations
  <2>3. Listens'
    BY <1>1, NoneListens DEF marketVars
  <2>4. OperationSound'
    BY <1>4, <2>1 DEF OperationSound, Operations, Verifying
  <2>5. ASSUME NEW j \in Jobs PROVE IntentSound(j)'
    <3>1. IntentSound(j) /\ UNCHANGED <<order, attempt, transfer>> /\ Kept
          /\ (j \in Created => j \in Created')
      BY <1>1, BrokerFacts, NothingTakenBack, MarketStays DEF marketVars
    <3>2. AtMarket(j)' = AtMarket(j) /\ Verified(j)' = Verified(j)
      BY <1>1, MarketSame
    <3>3. \A l \in Kinds : /\ intent'[j][l] = "settled" <=> intent[j][l] = "settled"
                           /\ intent[j][l] # "none" => intent'[j][l] # "none"
                           /\ intent'[j][l] # "none" \/ <<j, l>> \in asked' =>
                                intent[j][l] # "none" \/ <<j, l>> \in asked
      BY <1>1, <1>4, <2>1
    <3>4. \A l \in Kinds : intent'[j][l] # "none" \/ <<j, l>> \in asked' =>
            /\ j \in Created'
            /\ l # "data" => intent'[j]["data"] = "settled"
            /\ l = "verify" => intent'[j]["report"] = "settled"
      BY <3>1, <3>3 DEF IntentSound, Kinds
    <3>5. intent'[j]["data"] = "settled" => j \in bought'
      BY <1>1, <3>1, <3>3 DEF IntentSound, Kinds
    <3>6. j \in bought' => intent'[j]["data"] # "none"
      BY <1>1, <3>1, <3>3 DEF IntentSound, Kinds
    <3>7. intent'[j]["verify"] = "settled" => Verified(j)'
      BY <3>1, <3>2, <3>3 DEF IntentSound, Kinds
    <3>8. transfer'[j] # "none" =>
            /\ intent'[j]["verify"] # "none"
            /\ AtMarket(j)' => order'[j].status # "none" /\ checkpoint'[j] \notin {"none", "quoted"}
      BY <1>1, <3>1, <3>2, <3>3 DEF IntentSound, Kinds
    <3> QED BY <3>4, <3>5, <3>6, <3>7, <3>8 DEF IntentSound
  <2>6. ASSUME NEW l \in {"data", "verify"} PROVE Reserved(l)' <= Budget[l]
    <3> DEFINE s == {j \in Jobs : intent[j][l] # "none"}
    <3>1. {j \in Jobs : intent'[j][l] # "none"} = IF l = k THEN s \cup {i} ELSE s
      BY <2>1 DEF Kinds
    <3>2. IsFiniteSet(s)
      <4>1. IsFiniteSet(1 .. MaxJobs)
        BY RunnerJobsAssumption, FS_Interval
      <4> QED BY <4>1, FS_Subset DEF Jobs
    <3>3. Cardinality(s) \in Nat /\ Cardinality(s) = Reserved(l) /\ Budget[l] \in Nat
      BY <3>2, FS_CardinalityType, BrokerAssumption DEF Reserved
    <3>4. CASE l = k
      <4>1. i \notin s /\ Cardinality(s) < Budget[l]
        BY <1>4, <3>3, <3>4
      <4>2. Cardinality(s \cup {i}) = Cardinality(s) + 1
        BY <3>2, <4>1, FS_AddElement
      <4>3. Budget'[l] = Budget[l] /\ Reserved(l)' = Cardinality(s \cup {i})
        BY <3>1, <3>4 DEF Reserved
      <4> HIDE DEF s
      <4> QED BY <3>3, <4>1, <4>2, <4>3
    <3>5. CASE l # k
      <4>1. Reserved(l)' = Reserved(l)
        BY <3>1, <3>5 DEF Reserved
      <4> QED BY <4>1, BrokerFacts DEF BudgetKept
    <3> QED BY <3>4, <3>5
  <2>7. BudgetKept'
    BY <2>6 DEF BudgetKept
  <2>8. \A j \in Jobs : KindsKept(j)
    BY <1>1, <1>4, <2>1 DEF KindsKept, Untouched, Done
  <2> QED BY <2>2, <2>3, <2>4, <2>5, <2>7, <2>8 DEF BrokerSound
<1> QED BY <1>3, <1>4 DEF Execute

LEMMA SettleSound ==
  ASSUME JobsSound, BrokerSound, UNCHANGED jobVars, Settle
  PROVE  BrokerSound' /\ \A j \in Jobs : KindsKept(j)
<1>1. PICK i \in Jobs, k \in Kinds : i = broker.job /\ k = broker.kind
  BY BrokerFacts
<1>2. /\ UNCHANGED <<marketVars, brokerLock, asked, checkpoint, bought>> /\ Becomes("idle")
      /\ broker.at = "settle" /\ intent' = [intent EXCEPT ![i][k] = "settled"]
  BY <1>1 DEF Settle, Rests
<1>3. intent \in [Jobs -> [Kinds -> {"none", "pending", "settled"}]]
  BY BrokerFacts
<1>4. intent[i][k] = "pending" /\ (k = "data" => i \in bought) /\ (k = "verify" => Verified(i))
  BY <1>1, <1>2, BrokerFacts DEF OperationSound, Operations
<1>5. /\ intent' \in [Jobs -> [Kinds -> {"none", "pending", "settled"}]]
      /\ intent'[i][k] = "settled"
      /\ \A j \in Jobs, l \in Kinds : j # i \/ l # k => intent'[j][l] = intent[j][l]
  BY <1>2, <1>3
<1>6. BrokerTypeOK' /\ OperationSound'
  BY <1>2, <1>5, BecomesSound, BrokerFacts DEF BrokerTypeOK
<1>7. Listens'
  BY <1>2, NoneListens DEF marketVars
<1>8. ASSUME NEW j \in Jobs PROVE IntentSound(j)'
  <2>1. IntentSound(j) /\ UNCHANGED <<order, attempt, transfer>> /\ Kept
        /\ (j \in Created => j \in Created')
    BY <1>2, BrokerFacts, NothingTakenBack, MarketStays DEF marketVars
  <2>2. AtMarket(j)' = AtMarket(j) /\ Verified(j)' = Verified(j)
    BY <1>2, MarketSame
  <2>3. \A l \in Kinds : /\ intent[j][l] = "settled" => intent'[j][l] = "settled"
                         /\ intent[j][l] # "none" <=> intent'[j][l] # "none"
                         /\ intent'[j][l] = "settled" =>
                              intent[j][l] = "settled" \/ (j = i /\ l = k)
    BY <1>4, <1>5
  <2>4. \A l \in Kinds : intent'[j][l] # "none" \/ <<j, l>> \in asked' =>
          /\ j \in Created'
          /\ l # "data" => intent'[j]["data"] = "settled"
          /\ l = "verify" => intent'[j]["report"] = "settled"
    BY <1>2, <2>1, <2>3 DEF IntentSound, Kinds
  <2>5. intent'[j]["data"] = "settled" => j \in bought'
    BY <1>2, <1>4, <2>1, <2>3 DEF IntentSound, Kinds
  <2>6. j \in bought' => intent'[j]["data"] # "none"
    BY <1>2, <2>1, <2>3 DEF IntentSound, Kinds
  <2>7. intent'[j]["verify"] = "settled" => Verified(j)'
    BY <1>4, <2>1, <2>2, <2>3 DEF IntentSound, Kinds
  <2>8. transfer'[j] # "none" =>
          /\ intent'[j]["verify"] # "none"
          /\ AtMarket(j)' => order'[j].status # "none" /\ checkpoint'[j] \notin {"none", "quoted"}
    BY <1>2, <2>1, <2>2, <2>3 DEF IntentSound, Kinds
  <2> QED BY <2>4, <2>5, <2>6, <2>7, <2>8 DEF IntentSound
<1>9. ASSUME NEW l \in {"data", "verify"} PROVE Reserved(l)' <= Budget[l]
  <2>1. \A j \in Jobs : intent'[j][l] # "none" <=> intent[j][l] # "none"
    BY <1>4, <1>5 DEF Kinds
  <2>2. {j \in Jobs : intent'[j][l] # "none"} = {j \in Jobs : intent[j][l] # "none"}
    BY <2>1
  <2> QED BY <2>2, BrokerFacts DEF BudgetKept, Reserved
<1>10. \A j \in Jobs : KindsKept(j)
  BY <1>2, <1>4, <1>5 DEF KindsKept, Untouched, Done
<1> QED BY <1>6, <1>7, <1>8, <1>9, <1>10 DEF BrokerSound, BudgetKept

\* The order of the job that the broker verifies is made; nothing was submitted yet.
LEMMA QuoteSound ==
  ASSUME JobsSound, MarketSound, BrokerSound, UNCHANGED jobVars, Quote
  PROVE  MarketSound' /\ BrokerSound'
<1>1. PICK i \in Jobs : i = broker.job
  BY BrokerFacts
<1>2. /\ UNCHANGED <<attempt, transfer, brokerLock, asked, intent, bought>> /\ Goto("quoted")
      /\ broker.at = "operate" /\ broker.kind = "verify" /\ Note(i, "quoted")
      /\ order[i].status = "none" /\ order' = [order EXCEPT ![i].status = "quoted"]
      /\ i \in Created /\ AtMarket(i)
  BY <1>1 DEF Quote, Performs, CreateMarketOrder, Authorized, Created, AtMarket
<1>3. order[i] \in OrderRecords /\ order \in [Jobs -> OrderRecords]
      /\ \A j \in Jobs : order[j].attempts \in Nat
  BY MarketFacts DEF OrderRecords
<1>4. [order[i] EXCEPT !.status = "quoted"] \in OrderRecords
  BY <1>3 DEF OrderRecords
<1>5. /\ order' \in [Jobs -> OrderRecords]
      /\ order'[i].status = "quoted" /\ order'[i].attempts = order[i].attempts
      /\ \A j \in Jobs : j # i => order'[j] = order[j]
  BY <1>2, <1>3, <1>4 DEF OrderRecords
<1>6. OrdersGo
  <2>1. ASSUME NEW j \in Jobs
        PROVE /\ order[j].status # "none" => order'[j].status # "none"
              /\ order'[j].status # "none" => j \in Created /\ AtMarket(j)
              /\ order[j].status = "fulfilled" => order'[j].status = "fulfilled"
              /\ order'[j].attempts >= order[j].attempts
              /\ order'[j].status \in {"none", "quoted"} => order'[j].attempts = 0
              /\ order'[j].status \in {"paid", "fulfilled"} => transfer'[j] = "mined"
    <3>1. CASE j = i
      BY <1>2, <1>3, <1>5, <3>1 DEF MarketSound
    <3>2. CASE j # i
      BY <1>2, <1>3, <1>5, <3>2 DEF MarketSound, OrdersArePaid
    <3> QED BY <3>1, <3>2
  <2> QED BY <2>1 DEF OrdersGo
<1>7. MarketTypeOK'
  BY <1>2, <1>5 DEF MarketSound, MarketTypeOK, OrderRecords
<1>8. NoneBegins
  BY <1>2 DEF NoneBegins, Asks
<1>9. ASSUME NEW g \in Handlers PROVE AttemptSound(g)'
  <2>1. ASSUME Asks(g), attempt[g].fresh, order'[attempt[g].job].status = "paid"
        PROVE  order'[attempt[g].job].leased /\ order'[attempt[g].job].token = attempt[g].token
    <3>1. attempt[g].job # i /\ attempt[g].job \in Jobs
      BY <1>5, <2>1, MarketFacts
    <3> QED BY <1>5, <2>1, <3>1, LeaseKept
  <2> QED BY <1>2, <1>5, <1>6, <2>1, AttemptStays
<1>10. MarketSound'
  BY <1>6, <1>7, <1>8, <1>9, MarketChange
<1>11. /\ broker' \in [at : Operations \cup {"off", "idle"}, job : Jobs, kind : Kinds, tries : 0 .. 2]
       /\ broker'.at = "quoted" /\ broker'.job = i /\ broker'.kind = "verify"
  BY <1>1, <1>2, GotoSound DEF Operations
<1>12. checkpoint' \in [Jobs -> Checkpoints] /\ \A j \in Jobs : j # i => checkpoint'[j] = checkpoint[j]
  BY <1>2, BrokerFacts DEF Note, Checkpoints
<1>13. BrokerTypeOK'
  BY <1>2, <1>11, <1>12, BrokerFacts DEF BrokerTypeOK
<1>14. Listens' /\ BudgetKept'
  BY <1>2, NoneListens, BudgetRests
<1>15. AtMarket(i)' = AtMarket(i) /\ Kept
  BY NothingTakenBack, <1>2, MarketStays
<1>16. OperationSound'
  <2>1. intent[i]["verify"] = "pending"
    BY <1>1, <1>2, BrokerFacts DEF OperationSound, Operations
  <2> QED BY <1>2, <1>5, <1>11, <1>15, <2>1 DEF OperationSound, Operations, Verifying
<1>17. ASSUME NEW j \in Jobs PROVE IntentSound(j)'
  <2>1. IntentSound(j)
    BY BrokerFacts
  <2>2. transfer'[j] # "none" =>
           /\ intent[j]["verify"] # "none"
           /\ AtMarket(j) => order'[j].status # "none" /\ checkpoint'[j] \notin {"none", "quoted"}
    <3>1. CASE j = i
      BY <1>2, <2>1, <3>1 DEF IntentSound
    <3>2. CASE j # i
      BY <1>2, <1>5, <1>12, <2>1, <3>2 DEF IntentSound
    <3> QED BY <3>1, <3>2
  <2>3. j \in bought' => intent[j]["data"] # "none"
    BY <1>2, <2>1 DEF IntentSound
  <2>4. order[j].status = "fulfilled" => order'[j].status = "fulfilled"
    BY <1>6 DEF OrdersGo
  <2> QED BY <1>2, <1>15, <2>1, <2>2, <2>3, <2>4, IntentChange
<1> QED BY <1>10, <1>13, <1>14, <1>16, <1>17 DEF BrokerSound

\* A transfer is made once the intent, and at the market the order and its checkpoint, are
\* on disk.
LEMMA SubmitSound ==
  ASSUME JobsSound, MarketSound, BrokerSound, UNCHANGED jobVars, Submit
  PROVE  MarketSound' /\ BrokerSound'
<1>1. PICK i \in Jobs : i = broker.job
  BY BrokerFacts
<1>2. /\ UNCHANGED <<order, attempt, brokerLock, asked, intent, checkpoint, bought>> /\ Goto("sent")
      /\ broker.at = "submitting" \/ (broker.at = "operate" /\ ~AtMarket(i))
      /\ broker.kind = "verify"
      /\ transfer' = [transfer EXCEPT ![i] = IF transfer[i] = "none" THEN "pending" ELSE transfer[i]]
  BY <1>1 DEF Submit, Performs
<1>3. /\ intent[i]["verify"] = "pending"
      /\ AtMarket(i) => order[i].status # "none" /\ checkpoint[i] = "submitting"
  BY <1>1, <1>2, BrokerFacts DEF OperationSound, Operations
<1>4. transfer \in [Jobs -> {"none", "pending", "mined", "late", "failed"}]
  BY DEF MarketSound, MarketTypeOK
<1>5. /\ transfer' \in [Jobs -> {"none", "pending", "mined", "late", "failed"}]
      /\ transfer'[i] # "none"
      /\ transfer[i] # "none" => transfer'[i] = transfer[i]
      /\ \A j \in Jobs : j # i => transfer'[j] = transfer[j]
  BY <1>2, <1>4
<1>6. MarketTypeOK'
  BY <1>2, <1>5 DEF MarketSound, MarketTypeOK
<1>7. OrdersGo
  <2>1. \A j \in Jobs : order[j].attempts \in Nat
    BY MarketFacts DEF OrderRecords
  <2>2. \A j \in Jobs : order[j].status \in {"paid", "fulfilled"} => transfer[j] = "mined"
    BY DEF MarketSound, OrdersArePaid
  <2>3. \A j \in Jobs : transfer[j] = "mined" => transfer'[j] = "mined"
    BY <1>5
  <2> QED BY <1>2, <2>1, <2>2, <2>3 DEF MarketSound, OrdersGo
<1>8. NoneBegins
  BY <1>2 DEF NoneBegins, Asks
<1>9. \A g \in Handlers : AttemptSound(g)'
  BY <1>2, MarketFacts DEF AttemptSound, Asks
<1>10. MarketSound'
  BY <1>6, <1>7, <1>8, <1>9, MarketChange
<1>11. /\ broker' \in [at : Operations \cup {"off", "idle"}, job : Jobs, kind : Kinds, tries : 0 .. 2]
       /\ broker'.at = "sent" /\ broker'.job = i /\ broker'.kind = "verify"
  BY <1>1, <1>2, GotoSound DEF Operations
<1>12. BrokerTypeOK'
  BY <1>2, <1>11, BrokerFacts DEF BrokerTypeOK
<1>13. Listens' /\ BudgetKept'
  BY <1>2, NoneListens, BudgetRests
<1>14. OperationSound'
  BY <1>2, <1>3, <1>5, <1>11 DEF OperationSound, Operations, Verifying
<1>15. ASSUME NEW j \in Jobs PROVE IntentSound(j)'
  <2>1. IntentSound(j) /\ Kept
    BY BrokerFacts, NothingTakenBack
  <2>2. transfer'[j] # "none" =>
           /\ intent[j]["verify"] # "none"
           /\ AtMarket(j) => order'[j].status # "none" /\ checkpoint'[j] \notin {"none", "quoted"}
    <3>1. CASE j = i
      BY <1>2, <1>3, <3>1
    <3>2. CASE j # i
      BY <1>2, <1>5, <2>1, <3>2 DEF IntentSound
    <3> QED BY <3>1, <3>2
  <2>3. j \in bought' => intent[j]["data"] # "none"
    BY <1>2, <2>1 DEF IntentSound
  <2>4. transfer[j] \in {"mined", "late"} => transfer'[j] = transfer[j]
    BY <1>5
  <2> QED BY <1>2, <2>1, <2>2, <2>3, <2>4, IntentChange
<1> QED BY <1>10, <1>12, <1>13, <1>14, <1>15 DEF BrokerSound

LEMMA ConfirmSound ==
  ASSUME JobsSound, MarketSound, BrokerSound, UNCHANGED jobVars, NEW h \in Handlers, Confirm(h)
  PROVE  MarketSound' /\ BrokerSound'
<1>1. PICK i \in Jobs : i = broker.job
  BY BrokerFacts
<1>2. PICK paid \in BOOLEAN : paid = (order[i].status = "quoted" /\ transfer[i] = "mined")
  OBVIOUS
<1> DEFINE serve(step) == [Served EXCEPT !.at = step, !.job = i, !.by = "broker"]
<1>3. PICK a : a = IF paid \/ order[i].status = "paid" THEN serve("claiming")
                   ELSE [serve("replied") EXCEPT !.ok = order[i].status = "fulfilled"]
  OBVIOUS
<1>4. /\ broker.at = "paid" /\ broker.kind = "verify" /\ Goto("confirming")
      /\ attempt[h].at = "idle"
      /\ order' = IF paid THEN [order EXCEPT ![i].status = "paid"] ELSE order
      /\ attempt' = [attempt EXCEPT ![h] = a]
      /\ UNCHANGED <<transfer, brokerLock, asked, intent, checkpoint, bought>>
  BY <1>1, <1>2, <1>3 DEF Confirm, ConfirmMarketOrder, Performs, Takes
<1>5. /\ a \in AttemptRecords /\ a.at \in {"claiming", "replied"} /\ a.job = i /\ a.by = "broker"
      /\ a.ok => order[i].status = "fulfilled"
  <2>1. CASE paid \/ order[i].status = "paid"
    BY <1>3, <2>1 DEF Served, AttemptRecords
  <2>2. CASE ~(paid \/ order[i].status = "paid")
    <3>1. PICK ok \in BOOLEAN : ok = (order[i].status = "fulfilled")
      OBVIOUS
    <3>2. a = [at |-> "replied", job |-> i, token |-> 0, fresh |-> FALSE, by |-> "broker", ok |-> ok]
      BY <1>3, <2>2, <3>1 DEF Served
    <3> QED BY <3>1, <3>2 DEF AttemptRecords
  <2> QED BY <2>1, <2>2
<1> HIDE DEF serve
<1>6. order[i] \in OrderRecords /\ order \in [Jobs -> OrderRecords]
      /\ \A j \in Jobs : order[j].attempts \in Nat
  BY MarketFacts DEF OrderRecords
<1>7. [order[i] EXCEPT !.status = "paid"] \in OrderRecords
  BY <1>6 DEF OrderRecords
<1>8. /\ order' \in [Jobs -> OrderRecords]
      /\ \A j \in Jobs : j # i => order'[j] = order[j]
      /\ ~paid => order'[i] = order[i]
      /\ paid => order'[i].status = "paid" /\ order'[i].attempts = order[i].attempts
  BY <1>4, <1>6, <1>7 DEF OrderRecords
<1>9. AtMarket(i) /\ order[i].status # "none"
  BY <1>1, <1>4, BrokerFacts DEF OperationSound
<1>10. OrdersGo
  <2>1. ASSUME NEW j \in Jobs
        PROVE /\ order[j].status # "none" => order'[j].status # "none"
              /\ order'[j].status # "none" => j \in Created /\ AtMarket(j)
              /\ order[j].status = "fulfilled" => order'[j].status = "fulfilled"
              /\ order'[j].attempts >= order[j].attempts
              /\ order'[j].status \in {"none", "quoted"} => order'[j].attempts = 0
              /\ order'[j].status \in {"paid", "fulfilled"} => transfer'[j] = "mined"
    <3>1. CASE j = i /\ paid
      <4>1. order[i].status = "quoted" /\ transfer'[i] = "mined"
        BY <1>2, <1>4, <3>1
      <4>2. order'[i].status = "paid" /\ order'[i].attempts = order[i].attempts
            /\ order[i].attempts \in Nat
        BY <1>6, <1>8, <3>1
      <4>3. i \in Created
        BY <1>9 DEF MarketSound
      <4> QED BY <1>9, <3>1, <4>1, <4>2, <4>3
    <3>2. CASE j # i \/ ~paid
      <4>1. order'[j] = order[j] /\ order[j].attempts \in Nat /\ transfer'[j] = transfer[j]
        BY <1>4, <1>6, <1>8, <3>2
      <4> QED BY <4>1 DEF MarketSound, OrdersArePaid
    <3> QED BY <3>1, <3>2
  <2> QED BY <2>1 DEF OrdersGo
<1>11. ASSUME NEW g \in Handlers, Asks(g), attempt[g].fresh, order'[attempt[g].job].status = "paid"
       PROVE  order'[attempt[g].job].leased /\ order'[attempt[g].job].token = attempt[g].token
  <2>1. attempt[g].job \in Jobs /\ AttemptSound(g)
    BY MarketFacts
  <2>2. attempt[g].job # i \/ ~paid
    <3>1. attempt[g].token \in 1 .. order[attempt[g].job].attempts
      BY <1>11, <2>1 DEF AttemptSound
    <3>2. order[attempt[g].job].attempts # 0
      BY <1>6, <2>1, <3>1
    <3> QED BY <1>2, <3>2 DEF MarketSound
  <2> QED BY <1>8, <1>11, <2>1, <2>2, LeaseKept
<1>12. a.ok => order'[a.job].status = "fulfilled"
  BY <1>5, <1>10 DEF OrdersGo
<1>13. MarketSound'
  BY <1>4, <1>5, <1>8, <1>10, <1>11, <1>12, RequestBegins
<1>14. /\ broker' \in [at : Operations \cup {"off", "idle"}, job : Jobs, kind : Kinds, tries : 0 .. 2]
       /\ broker'.at = "confirming" /\ broker'.job = i /\ broker'.kind = "verify"
  BY <1>1, <1>4, GotoSound DEF Operations
<1>15. BrokerTypeOK' /\ BudgetKept'
  BY <1>4, <1>14, BrokerFacts, BudgetRests DEF BrokerTypeOK
<1>16. Listens'
  <2>1. attempt'[h] = a /\ \A g \in Handlers : g # h => attempt'[g] = attempt[g]
    BY <1>4, MarketFacts
  <2>2. \A g \in Handlers : attempt[g].by # "broker"
    BY <1>4, BrokerFacts DEF Listens
  <2> QED BY <1>5, <1>14, <2>1, <2>2 DEF Listens
<1>17. AtMarket(i)' = AtMarket(i) /\ Kept
  <2>1. i \in Created
    BY <1>9 DEF MarketSound
  <2> QED BY <2>1, NothingTakenBack, MarketStays
<1>18. OperationSound'
  <2>1. intent[i]["verify"] = "pending"
    BY <1>1, <1>4, BrokerFacts DEF OperationSound, Operations
  <2>2. order'[i].status # "none"
    BY <1>9, <1>10 DEF OrdersGo
  <2> QED BY <1>4, <1>9, <1>14, <1>17, <2>1, <2>2 DEF OperationSound, Operations, Verifying
<1>19. ASSUME NEW j \in Jobs PROVE IntentSound(j)'
  BY <1>4, <1>10, <1>17, BrokerFacts, IntentFrame DEF OrdersGo
<1> QED BY <1>13, <1>15, <1>16, <1>18, <1>19 DEF BrokerSound

\* Whoever listened no longer does: the attempt goes on by itself or is forgotten.
LEMMA NobodyListens ==
  ASSUME JobsSound, MarketSound, UNCHANGED <<jobVars, order, transfer>>,
         attempt' \in [Handlers -> AttemptRecords],
         \A g \in Handlers : \/ attempt'[g] = attempt[g] \/ attempt'[g] = Served
                             \/ attempt'[g] = [attempt[g] EXCEPT !.by = "gone"]
  PROVE  MarketSound'
<1>1. \A g \in Handlers : attempt'[g] = Served \/
        /\ attempt'[g].at = attempt[g].at /\ attempt'[g].job = attempt[g].job
        /\ attempt'[g].token = attempt[g].token /\ attempt'[g].fresh = attempt[g].fresh
        /\ attempt'[g].ok = attempt[g].ok /\ attempt'[g].by \in {"gone", attempt[g].by}
  BY MarketFacts DEF AttemptRecords
<1>2. MarketTypeOK'
  BY DEF MarketSound, MarketTypeOK, AttemptRecords
<1>3. OrdersGo
  BY OrdersRest
<1>4. NoneBegins
  BY <1>1, ServedIsRecord DEF NoneBegins, Asks
<1>5. ASSUME NEW g \in Handlers PROVE AttemptSound(g)'
  <2>1. CASE attempt'[g] = Served
    BY <2>1, ServedIsRecord DEF AttemptSound, Asks
  <2>2. CASE attempt'[g] # Served
    <3>1. AttemptSound(g)
      BY MarketFacts
    <3> QED BY <1>1, <2>2, <3>1 DEF AttemptSound, Asks
  <2> QED BY <2>1, <2>2
<1> QED BY <1>2, <1>3, <1>4, <1>5, MarketChange

LEMMA DroppedSound ==
  ASSUME MarketSound, attempt' = Dropped
  PROVE  /\ attempt' \in [Handlers -> AttemptRecords]
         /\ \A g \in Handlers :
              /\ attempt'[g].by # "broker"
              /\ \/ attempt'[g] = attempt[g] \/ attempt'[g] = Served
                 \/ attempt'[g] = [attempt[g] EXCEPT !.by = "gone"]
<1>1. ASSUME NEW g \in Handlers
      PROVE  /\ attempt'[g] \in AttemptRecords /\ attempt'[g].by # "broker"
             /\ \/ attempt'[g] = attempt[g] \/ attempt'[g] = Served
                \/ attempt'[g] = [attempt[g] EXCEPT !.by = "gone"]
  <2>1. attempt[g] \in AttemptRecords
    BY MarketFacts
  <2>2. CASE attempt[g].by # "broker"
    BY <2>1, <2>2 DEF Dropped
  <2>3. CASE attempt[g].by = "broker" /\ attempt[g].at = "replied"
    BY <2>3, ServedIsRecord DEF Dropped
  <2>4. CASE attempt[g].by = "broker" /\ attempt[g].at # "replied"
    <3>1. attempt'[g] = [attempt[g] EXCEPT !.by = "gone"]
      BY <2>4 DEF Dropped
    <3> QED BY <2>1, <3>1 DEF AttemptRecords
  <2> QED BY <2>2, <2>3, <2>4
<1>2. attempt' = [g \in Handlers |-> attempt'[g]]
  BY DEF Dropped
<1> QED BY <1>1, <1>2

LEMMA TryAgainSound ==
  ASSUME BrokerSound, broker.at = "confirming", broker.kind = "verify", TryAgain
  PROVE  /\ broker' \in [at : Operations \cup {"off", "idle"}, job : Jobs, kind : Kinds, tries : 0 .. 2]
         /\ broker'.at = "idle" \/
              (broker'.at = "paid" /\ broker'.job = broker.job /\ broker'.kind = "verify")
<1>1. CASE broker.tries = 2
  <2>1. Becomes("idle")
    BY <1>1 DEF TryAgain, Rests
  <2> QED BY <2>1, BecomesSound
<1>2. CASE broker.tries # 2
  <2>1. broker.tries \in 0 .. 2
    BY BrokerFacts
  <2>2. broker.tries + 1 \in 0 .. 2
    BY <1>2, <2>1
  <2>3. broker' = [broker EXCEPT !.at = "paid", !.tries = broker.tries + 1]
    BY <1>2 DEF TryAgain
  <2>4. broker \in [at : Operations \cup {"off", "idle"}, job : Jobs, kind : Kinds, tries : 0 .. 2]
    BY BrokerFacts
  <2> QED BY <2>2, <2>3, <2>4 DEF Operations
<1> QED BY <1>1, <1>2

\* The broker stops listening and tries again, rests, or settles what was fulfilled.
LEMMA AnswerSound ==
  ASSUME JobsSound, MarketSound, BrokerSound,
         UNCHANGED <<jobVars, order, transfer, brokerLock, asked, intent, bought>>,
         broker.at = "confirming", broker.kind = "verify",
         \A g \in Handlers : attempt'[g].by # "broker",
         NEW i \in Jobs, i = broker.job,
         checkpoint' = checkpoint \/ Note(i, "fulfilled"),
         broker' \in [at : Operations \cup {"off", "idle"}, job : Jobs, kind : Kinds, tries : 0 .. 2],
         \/ broker'.at = "idle"
         \/ broker'.at = "paid" /\ broker'.job = i /\ broker'.kind = "verify"
         \/ broker'.at = "settle" /\ broker'.job = i /\ broker'.kind = "verify"
            /\ order[i].status = "fulfilled"
  PROVE  BrokerSound'
<1>1. AtMarket(i) /\ order[i].status # "none" /\ intent[i]["verify"] = "pending"
  BY BrokerFacts DEF OperationSound, Operations
<1>2. \A j \in Jobs : AtMarket(j)' = AtMarket(j)
  BY DEF AtMarket, jobVars
<1>3. checkpoint' \in [Jobs -> Checkpoints]
      /\ \A j \in Jobs : checkpoint'[j] = checkpoint[j] \/ checkpoint'[j] \notin {"none", "quoted"}
  BY BrokerFacts DEF Note, Checkpoints
<1>4. BrokerTypeOK' /\ BudgetKept' /\ Listens'
  BY <1>3, BrokerFacts, BudgetRests DEF BrokerTypeOK, Listens
<1>5. OperationSound'
  BY <1>1, <1>2 DEF OperationSound, Operations, Verifying, Verified
<1>6. ASSUME NEW j \in Jobs PROVE IntentSound(j)'
  <2>1. IntentSound(j) /\ Kept
    BY BrokerFacts, NothingTakenBack
  <2>2. transfer'[j] # "none" =>
           /\ intent[j]["verify"] # "none"
           /\ AtMarket(j) => order'[j].status # "none" /\ checkpoint'[j] \notin {"none", "quoted"}
    BY <1>3, <2>1 DEF IntentSound
  <2>3. j \in bought' => intent[j]["data"] # "none"
    BY <2>1 DEF IntentSound
  <2> QED BY <2>1, <2>2, <2>3, IntentChange
<1> QED BY <1>4, <1>5, <1>6 DEF BrokerSound

LEMMA HearSound ==
  ASSUME JobsSound, MarketSound, BrokerSound, UNCHANGED jobVars, NEW h \in Handlers, Hear(h)
  PROVE  MarketSound' /\ BrokerSound'
<1>1. PICK i \in Jobs : i = broker.job
  BY BrokerFacts
<1>2. /\ broker.at = "confirming" /\ broker.kind = "verify"
      /\ attempt[h].by = "broker" /\ attempt' = [attempt EXCEPT ![h] = Served]
      /\ IF attempt[h].ok THEN Note(i, "fulfilled") /\ Goto("settle")
                          ELSE UNCHANGED checkpoint /\ TryAgain
      /\ UNCHANGED <<order, transfer, brokerLock, asked, intent, bought>>
  BY <1>1 DEF Hear, Performs
<1>3. /\ attempt' \in [Handlers -> AttemptRecords]
      /\ \A g \in Handlers : attempt'[g] = IF g = h THEN Served ELSE attempt[g]
  BY <1>2, MarketFacts, ServedIsRecord
<1>4. \A g \in Handlers : attempt'[g].by # "broker"
  BY <1>2, <1>3, BrokerFacts, ServedIsRecord DEF Listens
<1>5. MarketSound'
  BY <1>2, <1>3, NobodyListens
<1>6. CASE attempt[h].ok
  <2>1. attempt[h].job = i
    BY <1>1, <1>2, BrokerFacts DEF Listens
  <2>2. order[i].status = "fulfilled"
    BY <1>6, <2>1, MarketFacts DEF AttemptSound
  <2>3. /\ broker' \in [at : Operations \cup {"off", "idle"}, job : Jobs, kind : Kinds, tries : 0 .. 2]
        /\ broker'.at = "settle" /\ broker'.job = i /\ broker'.kind = "verify"
    BY <1>1, <1>2, <1>6, GotoSound DEF Operations
  <2> QED BY <1>1, <1>2, <1>4, <1>5, <1>6, <2>2, <2>3, AnswerSound
<1>7. CASE ~attempt[h].ok
  BY <1>1, <1>2, <1>4, <1>5, <1>7, TryAgainSound, AnswerSound
<1> QED BY <1>6, <1>7

LEMMA HearNothingSound ==
  ASSUME JobsSound, MarketSound, BrokerSound, UNCHANGED jobVars, HearNothing
  PROVE  MarketSound' /\ BrokerSound'
<1>1. /\ broker.at = "confirming" /\ broker.kind = "verify"
      /\ attempt' = Dropped /\ TryAgain
      /\ UNCHANGED <<order, transfer, brokerLock, asked, intent, checkpoint, bought>>
  BY DEF HearNothing, Performs
<1>2. MarketSound'
  BY <1>1, DroppedSound, NobodyListens
<1>3. broker.job \in Jobs
  BY BrokerFacts
<1> QED BY <1>1, <1>2, <1>3, DroppedSound, TryAgainSound, AnswerSound

LEMMA BrokerCrashSound ==
  ASSUME JobsSound, MarketSound, BrokerSound, UNCHANGED jobVars, BrokerCrash
  PROVE  MarketSound' /\ BrokerSound' /\ \A j \in Jobs : KindsKept(j)
<1>1. /\ brokerLock' = "left" /\ asked' = {} /\ Becomes("off") /\ attempt' = Dropped
      /\ UNCHANGED <<order, transfer, intent, checkpoint, bought>>
  BY DEF BrokerCrash
<1>2. MarketSound'
  BY <1>1, DroppedSound, NobodyListens
<1>3. BrokerTypeOK' /\ OperationSound' /\ BudgetKept' /\ Listens'
  BY <1>1, BecomesSound, DroppedSound, BrokerFacts, BudgetRests DEF BrokerTypeOK, Listens
<1>4. ASSUME NEW i \in Jobs PROVE IntentSound(i)'
  BY <1>1, NothingTakenBack, BrokerFacts, IntentFrame
<1>5. \A j \in Jobs : KindsKept(j)
  BY <1>1 DEF KindsKept, Untouched, Done
<1> QED BY <1>2, <1>3, <1>4, <1>5 DEF BrokerSound

\* The steps that leave the market alone.
LEMMA BrokerAlone ==
  ASSUME UNCHANGED jobVars, JobsSound, MarketSound, UNCHANGED marketVars
  PROVE  MarketSound'
BY NothingTakenBack, MarketFrame

LEMMA BrokersSound ==
  ASSUME JobsSound, MarketSound, BrokerSound, UNCHANGED jobVars, BrokerNext
  PROVE  MarketSound' /\ BrokerSound' /\ \A j \in Jobs : KindsKept(j)
<1>1. ASSUME NEW i \in Jobs, NEW k \in Kinds, Execute(i, k)
      PROVE  MarketSound' /\ BrokerSound' /\ \A j \in Jobs : KindsKept(j)
  <2>1. UNCHANGED marketVars
    BY <1>1 DEF Execute
  <2> QED BY <1>1, <2>1, ExecuteSound, BrokerAlone
<1>2. CASE Settle
  <2>1. UNCHANGED marketVars
    BY <1>2 DEF Settle
  <2> QED BY <1>2, <2>1, SettleSound, BrokerAlone
<1>3. CASE BuyData \/ WriteReport \/ Authorize \/ Submitted \/ SeeReceipt \/ Fail \/ BrokerStart
           \/ BrokerStop \/ ReconcileBroker
  <2>1. UNCHANGED marketVars
    BY <1>3 DEF BuyData, WriteReport, Authorize, Submitted, SeeReceipt, Fail, BrokerStart,
                BrokerStop, ReconcileBroker
  <2>2. UNCHANGED <<intent, asked>>
    BY <1>3 DEF BuyData, WriteReport, Authorize, Submitted, SeeReceipt, Fail, BrokerStart,
                BrokerStop, ReconcileBroker
  <2>3. BrokerSound'
    BY <1>3, BuyDataSound, WriteReportSound, AuthorizeSound, SubmittedSound, SeeReceiptSound,
       FailSound, BrokerStartSound, BrokerStopSound, ReconcileBrokerSound
  <2> QED BY <2>1, <2>2, <2>3, BrokerAlone, KindsRest
<1>4. CASE Quote \/ Submit \/ HearNothing
  <2>1. UNCHANGED <<intent, asked>>
    BY <1>4 DEF Quote, Submit, HearNothing
  <2> QED BY <1>4, <2>1, QuoteSound, SubmitSound, HearNothingSound, KindsRest
<1>5. ASSUME NEW h \in Handlers, Confirm(h) \/ Hear(h)
      PROVE  MarketSound' /\ BrokerSound' /\ \A j \in Jobs : KindsKept(j)
  <2>1. UNCHANGED <<intent, asked>>
    BY <1>5 DEF Confirm, Hear
  <2> QED BY <1>5, <2>1, ConfirmSound, HearSound, KindsRest
<1>6. CASE BrokerCrash
  BY <1>6, BrokerCrashSound
<1> QED BY <1>1, <1>2, <1>3, <1>4, <1>5, <1>6 DEF BrokerNext, BrokerWork

LEMMA BrokerStep ==
  ASSUME WorkSound, Brokers
  PROVE  WorkSound'
<1>1. BrokerNext /\ UNCHANGED <<jobVars, hostVars>>
  BY DEF Brokers
<1>2. JobsSound /\ JobsSound' /\ Kept /\ MarketSound /\ BrokerSound
  BY <1>1, NothingTakenBack DEF WorkSound
<1>3. MarketSound' /\ BrokerSound' /\ \A j \in Jobs : KindsKept(j)
  BY <1>1, <1>2, BrokersSound
<1>4. LateSound'
  BY <1>1, <1>2, LateStays DEF WorkSound, LateSound, hostVars, At
<1>5. HostSound'
  BY <1>1, <1>2, <1>3, HostFrame DEF WorkSound
<1> QED BY <1>2, <1>3, <1>4, <1>5 DEF WorkSound

-----------------------------------------------------------------------------
(* The steps of the runner.                                                *)

HostRecords == [at : {"off", "poll", "acknowledge", "claimed", "advance", "authorized",
                      "waiting", "checkpoint", "finish"},
                job : Jobs, runner : Runners \cup {None}, run : Run]
DiskRecords == [state : {"none", "started", "finished", "acknowledged"}, run : Run]

LEMMA HostFacts ==
  ASSUME HostSound
  PROVE  /\ host \in HostRecords
         /\ hostLock \in {"free", "held", "left"} /\ stopping \in BOOLEAN
         /\ disk \in [Jobs -> DiskRecords]
         /\ host.job \in Jobs /\ host.run \in Run
         /\ CycleSound /\ \A i \in Jobs : DiskSound(i) /\ StatusSound(i)
BY DEF HostSound, HostTypeOK, HostRecords, DiskRecords

LEMMA CreateRunIsRun == createRun \in Run
BY DEF createRun, Run, Stages

LEMMA StopIsRun ==
  ASSUME NEW run \in Run
  PROVE  /\ stopUncertain(run) \in Run /\ stopUncertain(run).status = "failed"
         /\ stopUncertain(run).stage = run.stage /\ stopUncertain(run).receipts = run.receipts
BY DEF stopUncertain, Run

\* A stop changes nothing that a record tells.
LEMMA SameTells ==
  ASSUME NEW i, NEW run, NEW other, Tells(i, run), other.stage = run.stage,
         other.receipts = run.receipts, other.status = "failed"
  PROVE  Tells(i, other)
BY DEF Tells

LEMMA DiskRests ==
  ASSUME HostSound, UNCHANGED <<jobVars, brokerVars, disk>>
  PROVE  \A i \in Jobs : DiskSound(i)'
<1>1. UNCHANGED <<job, intent, asked, disk>>
  BY DEF jobVars, brokerVars
<1>2. ASSUME NEW i \in Jobs PROVE DiskSound(i)'
  <2>1. DiskSound(i) /\ disk'[i] = disk[i] /\ job'[i] = job[i]
    BY <1>1, HostFacts
  <2>2. PICK run : run = disk[i].run
    OBVIOUS
  <2>3. Tells(i, run) => Tells(i, run)'
    BY <1>1 DEF Tells, Untouched, Done
  <2>4. \A k \in Kinds : Untouched(i, k) => Untouched(i, k)'
    BY <1>1 DEF Untouched
  <2> QED BY <2>1, <2>2, <2>3, <2>4 DEF DiskSound, Begun
<1> QED BY <1>2

\* A step of the runner that asks the platform and the broker for nothing.
LEMMA HostMoves ==
  ASSUME WorkSound, UNCHANGED <<jobVars, marketVars, brokerVars, late>>,
         host' \in HostRecords, hostLock' \in {"free", "held", "left"}, stopping' \in BOOLEAN,
         disk' \in [Jobs -> DiskRecords], CycleSound', \A i \in Jobs : DiskSound(i)',
         At("authorized")' => late[host'.job] = 0
  PROVE  WorkSound'
<1>1. JobsSound /\ JobsSound' /\ Kept
  BY NothingTakenBack DEF WorkSound
<1>2. MarketSound' /\ BrokerSound'
  BY <1>1, MarketFrame, MarketRests, BrokerFrame DEF WorkSound
<1>3. late' \in [Jobs -> {0, 1}] /\ \A i \in Jobs : late'[i] = 1 => Withdrawn(i)'
  BY <1>1, LateStays DEF WorkSound
<1>4. HostTypeOK'
  <2>1. late' \in [Jobs -> Nat]
    BY <1>3
  <2> QED BY <2>1 DEF HostTypeOK, HostRecords, DiskRecords
<1>5. \A i \in Jobs : StatusSound(i)'
  BY HostFacts DEF WorkSound, StatusSound, jobVars, brokerVars, Untouched, Done
<1>6. HostSound' /\ LateSound'
  BY <1>3, <1>4, <1>5 DEF HostSound, LateSound, At
<1> QED BY <1>1, <1>2, <1>6 DEF WorkSound

LEMMA TurnsSound ==
  ASSUME HostSound, NEW state \in {"off", "poll"}, Turns(state), ~At("off") \/ state = "off"
  PROVE  host' \in HostRecords /\ CycleSound' /\ ~At("authorized")'
<1>1. 1 \in Jobs
  BY RunnerJobsAssumption DEF Jobs
<1>2. host' = [at |-> state, job |-> 1, runner |-> host.runner, run |-> createRun]
  BY DEF Turns
<1>3. host' \in HostRecords
  BY <1>1, <1>2, HostFacts, CreateRunIsRun DEF HostRecords
<1>4. At("off")' \/ host'.runner \in Runners
  BY <1>2, HostFacts DEF CycleSound, At
<1>5. CycleSound'
  BY <1>2, <1>4 DEF CycleSound, At, Executing
<1> QED BY <1>2, <1>3, <1>5 DEF At

LEMMA OpenSound ==
  ASSUME WorkSound, NEW r \in Runners, Open(r)
  PROVE  WorkSound'
<1>1. /\ UNCHANGED <<jobVars, marketVars, brokerVars, stopping, late>> /\ hostLock' = "held"
      /\ disk' = [i \in Jobs |-> IF disk[i].state = "started"
                    THEN [state |-> "finished", run |-> stopUncertain(disk[i].run)] ELSE disk[i]]
      /\ host' = [at |-> "poll", job |-> 1, runner |-> r, run |-> createRun]
  BY DEF Open
<1>2. HostSound /\ 1 \in Jobs
  BY RunnerJobsAssumption DEF WorkSound, Jobs
<1>3. host' \in HostRecords
  BY <1>1, <1>2, CreateRunIsRun DEF HostRecords
<1>4. CycleSound'
  BY <1>1 DEF CycleSound, At, Executing
<1>5. ASSUME NEW i \in Jobs PROVE disk'[i] \in DiskRecords /\ DiskSound(i)'
  <2>1. disk[i] \in DiskRecords /\ DiskSound(i) /\ disk[i].run \in Run
    BY <1>2, HostFacts DEF DiskRecords
  <2>2. UNCHANGED <<job, intent, asked>>
    BY <1>1 DEF jobVars, brokerVars
  <2>3. CASE disk[i].state = "started"
    <3>1. disk'[i] = [state |-> "finished", run |-> stopUncertain(disk[i].run)]
      BY <1>1, <2>3
    <3>2. Tells(i, stopUncertain(disk[i].run)) /\ Begun(i)
      BY <2>1, <2>3, StopIsRun, SameTells DEF DiskSound
    <3>3. PICK run \in Run : run = stopUncertain(disk[i].run)
      BY <2>1, StopIsRun
    <3>4. Tells(i, run)' /\ Begun(i)'
      BY <2>2, <3>2, <3>3 DEF Tells, Untouched, Done, Begun
    <3> QED BY <3>1, <3>3, <3>4 DEF DiskSound, DiskRecords
  <2>4. CASE disk[i].state # "started"
    <3>1. disk'[i] = disk[i]
      BY <1>1, <2>4
    <3> QED BY <2>1, <2>2, <3>1 DEF DiskSound, Begun, Tells, Untouched, Done
  <2> QED BY <2>3, <2>4
<1>6. disk' \in [Jobs -> DiskRecords]
  BY <1>1, <1>5
<1>7. ~At("authorized")'
  BY <1>1 DEF At
<1> QED BY <1>1, <1>2, <1>3, <1>4, <1>5, <1>6, <1>7, HostFacts, HostMoves

\* A step that writes the journal's entry of one job.
LEMMA EntrySound ==
  ASSUME HostSound, UNCHANGED <<jobVars, brokerVars>>, NEW i \in Jobs, NEW d \in DiskRecords,
         disk' = [disk EXCEPT ![i] = d],
         d.state # "none" /\ Begun(i) /\ Tells(i, d.run),
         d.state = "started" => job[i].status = "running",
         d.state = "acknowledged" => job[i].result = d.run
  PROVE  disk' \in [Jobs -> DiskRecords] /\ \A j \in Jobs : DiskSound(j)'
<1>1. disk \in [Jobs -> DiskRecords]
  BY HostFacts
<1>2. UNCHANGED <<job, intent, asked>>
  BY DEF jobVars, brokerVars
<1>3. disk' \in [Jobs -> DiskRecords] /\ disk'[i] = d /\ \A j \in Jobs : j # i => disk'[j] = disk[j]
  BY <1>1
<1>4. PICK run : run = d.run
  OBVIOUS
<1>5. Tells(i, run)' /\ Begun(i)'
  BY <1>2, <1>4 DEF Tells, Untouched, Done, Begun
<1>6. DiskSound(i)'
  BY <1>2, <1>3, <1>4, <1>5 DEF DiskSound
<1>7. ASSUME NEW j \in Jobs, j # i PROVE DiskSound(j)'
  BY <1>2, <1>3, <1>7, HostFacts DEF DiskSound, Begun, Tells, Untouched, Done
<1> QED BY <1>3, <1>6, <1>7

LEMMA AcknowledgeSound ==
  ASSUME WorkSound, Acknowledge
  PROVE  WorkSound'
<1>1. PICK i \in Jobs : i = host.job
  BY HostFacts DEF WorkSound
<1>2. /\ UNCHANGED <<jobVars, marketVars, brokerVars, hostLock, stopping, late>>
      /\ At("acknowledge") /\ Turns("poll")
      /\ disk' = [disk EXCEPT ![i] = [disk[i] EXCEPT !.state = "acknowledged"]]
  BY <1>1 DEF Acknowledge, Polls
<1>3. HostSound /\ disk[i] \in DiskRecords /\ DiskSound(i)
  BY HostFacts DEF WorkSound
<1>4. disk[i].state = "finished" /\ job[i].result = disk[i].run
  BY <1>1, <1>2, <1>3 DEF HostSound, CycleSound
<1>5. PICK d \in DiskRecords : d = [disk[i] EXCEPT !.state = "acknowledged"]
  BY <1>3 DEF DiskRecords
<1>6. d.state = "acknowledged" /\ d.run = disk[i].run
  BY <1>3, <1>5 DEF DiskRecords
<1>7. Begun(i) /\ Tells(i, d.run)
  BY <1>3, <1>4, <1>6 DEF DiskSound
<1>8. disk' \in [Jobs -> DiskRecords] /\ \A j \in Jobs : DiskSound(j)'
  BY <1>2, <1>3, <1>4, <1>5, <1>6, <1>7, EntrySound
<1>9. host' \in HostRecords /\ CycleSound' /\ ~At("authorized")'
  BY <1>2, <1>3, TurnsSound DEF At
<1> QED BY <1>2, <1>3, <1>8, <1>9, HostFacts, HostMoves

LEMMA StartSound ==
  ASSUME WorkSound, Start
  PROVE  WorkSound'
<1>1. PICK i \in Jobs : i = host.job
  BY HostFacts DEF WorkSound
<1>2. UNCHANGED <<jobVars, marketVars, brokerVars, hostLock, stopping, late>> /\ At("claimed")
  BY DEF Start
<1>3. HostSound /\ job[i].status = "running" /\ job[i].runner = host.runner /\ host.runner \in Runners
      /\ host \in HostRecords
  BY <1>1, <1>2, HostFacts DEF WorkSound, HostSound, CycleSound, At
<1>4. CASE Polls /\ UNCHANGED disk
  <2>1. host' \in HostRecords /\ CycleSound' /\ ~At("authorized")'
    BY <1>2, <1>3, <1>4, TurnsSound DEF At, Polls
  <2> QED BY <1>2, <1>3, <1>4, <2>1, DiskRests, HostFacts, HostMoves
<1>5. CASE /\ disk[i].state = "none"
           /\ disk' = [disk EXCEPT ![i] = [state |-> "started", run |-> createRun]]
           /\ host' = [host EXCEPT !.at = "advance", !.run = createRun]
  <2>1. PICK d \in DiskRecords : d = [state |-> "started", run |-> createRun]
    BY CreateRunIsRun DEF DiskRecords
  <2>2. Begun(i) /\ \A k \in Kinds : Untouched(i, k)
    BY <1>3, <1>5, HostFacts DEF Begun, DiskSound
  <2>3. Tells(i, createRun)
    BY <2>2 DEF Tells, createRun, Earlier, ToCome
  <2>4. disk' \in [Jobs -> DiskRecords] /\ \A j \in Jobs : DiskSound(j)'
    BY <1>2, <1>3, <1>5, <2>1, <2>2, <2>3, EntrySound
  <2>5. /\ host' \in HostRecords /\ host'.at = "advance" /\ host'.run = createRun
        /\ host'.job = i /\ host'.runner = host.runner
    BY <1>1, <1>3, <1>5, CreateRunIsRun DEF HostRecords
  <2>6. disk'[i] = [state |-> "started", run |-> createRun]
    BY <1>3, <1>5, HostFacts
  <2>7. CycleSound'
    BY <1>2, <1>3, <2>5, <2>6 DEF CycleSound, At, Executing, createRun, PaidStages, jobVars
  <2>8. ~At("authorized")'
    BY <2>5 DEF At
  <2> QED BY <1>2, <1>3, <2>4, <2>5, <2>7, <2>8, HostFacts, HostMoves
<1> QED BY <1>1, <1>4, <1>5 DEF Start

LEMMA CheckpointSound ==
  ASSUME WorkSound, Checkpoint
  PROVE  WorkSound'
<1>1. PICK i \in Jobs : i = host.job
  BY HostFacts DEF WorkSound
<1>2. /\ UNCHANGED <<jobVars, marketVars, brokerVars, hostLock, stopping, late>> /\ At("checkpoint")
      /\ disk' = [disk EXCEPT ![i] = [disk[i] EXCEPT !.run = host.run]]
      /\ host' = [host EXCEPT !.at = IF host.run.status = "running" THEN "advance" ELSE "finish"]
  BY <1>1 DEF Checkpoint, Move
<1>3. HostSound /\ disk[i] \in DiskRecords /\ host \in HostRecords /\ host.run \in Run
      /\ disk \in [Jobs -> DiskRecords] /\ CycleSound
  BY HostFacts DEF WorkSound
<1>4. /\ job[i].status = "running" /\ job[i].runner = host.runner /\ host.runner \in Runners
      /\ disk[i].state = "started" /\ Tells(i, host.run)
      /\ host.run.status = "running" /\ host.run.stage \in PaidStages => Untouched(i, Kind)
  BY <1>1, <1>2, <1>3 DEF CycleSound, At, Executing
<1>5. PICK d \in DiskRecords : d = [disk[i] EXCEPT !.run = host.run]
  BY <1>3 DEF DiskRecords
<1>6. d.state = "started" /\ d.run = host.run
  BY <1>3, <1>4, <1>5 DEF DiskRecords
<1>7. disk' \in [Jobs -> DiskRecords] /\ \A j \in Jobs : DiskSound(j)'
  BY <1>2, <1>3, <1>4, <1>5, <1>6, EntrySound DEF Begun
<1>8. /\ host' \in HostRecords /\ host'.run = host.run /\ host'.job = i /\ host'.runner = host.runner
      /\ host'.at = IF host.run.status = "running" THEN "advance" ELSE "finish"
  BY <1>1, <1>2, <1>3 DEF HostRecords
<1>9. disk'[i] = d
  BY <1>2, <1>3, <1>5
<1>10. PICK run \in Run : run = host.run
  BY <1>3
<1>11. Tells(i, run)'
  BY <1>2, <1>4, <1>10 DEF Tells, Untouched, Done, brokerVars
<1>12. host.run.stage \in PaidStages /\ Untouched(i, Kind) => Untouched(i, Kind)'
  BY <1>2, <1>8 DEF Kind, Untouched, brokerVars
<1>13. CycleSound'
  BY <1>2, <1>4, <1>6, <1>8, <1>9, <1>10, <1>11, <1>12 DEF CycleSound, At, Executing, jobVars
<1>14. ~At("authorized")'
  BY <1>8 DEF At
<1> QED BY <1>2, <1>3, <1>7, <1>8, <1>13, <1>14, HostFacts, HostMoves

LEMMA FinishSound ==
  ASSUME WorkSound, Finish
  PROVE  WorkSound'
<1>1. PICK i \in Jobs : i = host.job
  BY HostFacts DEF WorkSound
<1>2. PICK run : run = IF At("finish") THEN host.run ELSE stopUncertain(host.run)
  OBVIOUS
<1>3. /\ UNCHANGED <<jobVars, marketVars, brokerVars, hostLock, stopping, late>>
      /\ At("finish") \/ At("advance")
      /\ Turns("poll")
      /\ disk' = [disk EXCEPT ![i] = [state |-> "finished", run |-> run]]
  BY <1>1, <1>2 DEF Finish, Polls
<1>4. HostSound /\ host.run \in Run /\ CycleSound /\ DiskSound(i)
  BY HostFacts DEF WorkSound
<1>5. job[i].status = "running" /\ disk[i].state = "started"
  BY <1>1, <1>3, <1>4 DEF CycleSound, At, Executing
<1>6. Tells(i, host.run)
  BY <1>1, <1>3, <1>4, <1>5 DEF CycleSound, At, DiskSound
<1>7. run \in Run /\ Tells(i, run)
  BY <1>2, <1>4, <1>6, StopIsRun, SameTells
<1>8. PICK d \in DiskRecords : d = [state |-> "finished", run |-> run]
  BY <1>7 DEF DiskRecords
<1>9. disk' \in [Jobs -> DiskRecords] /\ \A j \in Jobs : DiskSound(j)'
  BY <1>3, <1>4, <1>5, <1>7, <1>8, EntrySound DEF Begun
<1>10. host' \in HostRecords /\ CycleSound' /\ ~At("authorized")'
  BY <1>3, <1>4, TurnsSound DEF At
<1> QED BY <1>3, <1>4, <1>9, <1>10, HostFacts, HostMoves

\* The run in memory while the runner executes one.
LEMMA ExecutingFacts ==
  ASSUME WorkSound, host.at \in {"advance", "authorized", "waiting"}
  PROVE  LET i == host.job IN
         /\ HostSound /\ i \in Jobs /\ host \in HostRecords /\ host.run \in Run
         /\ host.runner \in Runners
         /\ job[i].status = "running" /\ job[i].runner = host.runner
         /\ disk[i].state = "started" /\ host.run = disk[i].run /\ host.run.status = "running"
         /\ Tells(i, host.run)
<1>1. HostSound /\ host.job \in Jobs /\ host \in HostRecords /\ host.run \in Run /\ CycleSound
      /\ DiskSound(host.job)
  BY HostFacts DEF WorkSound
<1>2. /\ job[host.job].status = "running" /\ job[host.job].runner = host.runner
      /\ host.runner \in Runners
      /\ disk[host.job].state = "started" /\ host.run = disk[host.job].run
      /\ host.run.status = "running"
  BY <1>1 DEF CycleSound, At, Executing
<1> QED BY <1>1, <1>2 DEF DiskSound

\* A stage is over: what the run in memory tells is true of the job's capabilities.
LEMMA StandsSound ==
  ASSUME WorkSound, host.at \in {"advance", "authorized", "waiting"},
         UNCHANGED <<jobVars, marketVars, brokerVars, hostLock, disk, stopping, late>>,
         NEW run \in Run, Stands(run), Tells(host.job, run),
         run.status = "running" /\ run.stage \in PaidStages => Untouched(host.job, KindOf(run.stage))
  PROVE  WorkSound'
<1>1. PICK i \in Jobs : i = host.job
  BY ExecutingFacts
<1>2. /\ HostSound /\ host \in HostRecords /\ host.runner \in Runners
      /\ job[i].status = "running" /\ job[i].runner = host.runner /\ disk[i].state = "started"
  BY <1>1, ExecutingFacts
<1>3. /\ host' \in HostRecords /\ host'.at = "checkpoint" /\ host'.run = run
      /\ host'.job = i /\ host'.runner = host.runner
  BY <1>1, <1>2 DEF Stands, HostRecords
<1>4. UNCHANGED <<job, intent, asked, disk>>
  BY DEF jobVars, brokerVars
<1>5. Tells(i, run)'
  BY <1>1, <1>4 DEF Tells, Untouched, Done
<1>6. host'.run.status = "running" /\ host'.run.stage \in PaidStages => Untouched(i, Kind)'
  BY <1>1, <1>3, <1>4 DEF Untouched, Kind
<1>7. CycleSound'
  BY <1>2, <1>3, <1>4, <1>5, <1>6 DEF CycleSound, At, Executing
<1>8. ~At("authorized")'
  BY <1>3 DEF At
<1> QED BY <1>2, <1>3, <1>7, <1>8, DiskRests, HostFacts, HostMoves

LEMMA FailsSound ==
  ASSUME WorkSound, host.at \in {"advance", "authorized", "waiting"},
         UNCHANGED <<jobVars, marketVars, brokerVars, hostLock, disk, stopping, late>>,
         NEW uncertain \in BOOLEAN, Fails(uncertain)
  PROVE  WorkSound'
<1>1. host.run \in Run /\ Tells(host.job, host.run)
  BY ExecutingFacts
<1>2. PICK run : run = [host.run EXCEPT !.status = "failed", !.uncertain = uncertain]
  OBVIOUS
<1>3. run \in Run /\ run.status = "failed" /\ run.stage = host.run.stage
      /\ run.receipts = host.run.receipts
  BY <1>1, <1>2 DEF Run
<1>4. Tells(host.job, run)
  BY <1>1, <1>3, SameTells
<1> QED BY <1>2, <1>3, <1>4, StandsSound DEF Fails

LEMMA ReachesSound ==
  ASSUME WorkSound, host.at \in {"advance", "waiting"},
         UNCHANGED <<jobVars, marketVars, brokerVars, hostLock, disk, stopping, late>>,
         NEW stage \in {"discovery", "purchase", "verification"}, Reaches(stage),
         stage \in {"discovery", "purchase"} => host.run.stage \in {"mandate", "discovery"},
         stage = "verification" => host.run.stage = "report" /\ Done(host.job, "report")
  PROVE  WorkSound'
<1>1. PICK i \in Jobs : i = host.job
  BY ExecutingFacts
<1>2. host.run \in Run /\ Tells(i, host.run) /\ host.run.status = "running"
  BY <1>1, ExecutingFacts
<1>3. PICK run : run = [host.run EXCEPT !.stage = stage]
  OBVIOUS
<1>4. run \in Run /\ run.status = "running" /\ run.stage = stage
      /\ run.receipts = host.run.receipts
  BY <1>2, <1>3 DEF Run, Stages
<1>5. CASE stage \in {"discovery", "purchase"}
  <2>1. \A k \in Kinds : Untouched(i, k)
    BY <1>2, <1>5 DEF Tells, ToCome
  <2>2. Tells(i, run)
    BY <1>2, <1>4, <1>5, <2>1 DEF Tells, Earlier, ToCome, Kinds
  <2>3. run.stage \in PaidStages => Untouched(i, KindOf(run.stage))
    BY <1>4, <2>1 DEF KindOf, Kinds
  <2> QED BY <1>1, <1>3, <1>4, <2>2, <2>3, StandsSound DEF Reaches
<1>6. CASE stage = "verification"
  <2>1. Done(i, "data") /\ Done(i, "report") /\ Untouched(i, "verify")
        /\ \A k \in run.receipts : Done(i, k)
    BY <1>1, <1>2, <1>4, <1>6 DEF Tells, Earlier, ToCome
  <2>2. Tells(i, run)
    BY <1>4, <1>6, <2>1 DEF Tells, Earlier, ToCome
  <2>3. run.stage \in PaidStages => Untouched(i, KindOf(run.stage))
    BY <1>4, <1>6, <2>1 DEF KindOf
  <2> QED BY <1>1, <1>3, <1>4, <2>2, <2>3, StandsSound DEF Reaches
<1> QED BY <1>5, <1>6

LEMMA DiscoverSound ==
  ASSUME WorkSound, Discover
  PROVE  WorkSound'
<1>1. /\ host.at \in {"advance", "authorized", "waiting"} /\ host.at = "advance"
      /\ host.run.stage \in {"mandate", "discovery"}
      /\ UNCHANGED <<jobVars, marketVars, brokerVars, hostLock, disk, stopping, late>>
  BY DEF Discover, At
<1>2. CASE Fails(FALSE)
  BY <1>1, <1>2, FailsSound
<1>3. CASE Reaches(IF host.run.stage = "mandate" THEN "discovery" ELSE "purchase")
  BY <1>1, <1>3, ReachesSound
<1> QED BY <1>2, <1>3 DEF Discover

LEMMA AwaitApprovalSound ==
  ASSUME WorkSound, AwaitApproval
  PROVE  WorkSound'
<1>1. /\ host.at \in {"advance", "authorized", "waiting"} /\ At("advance")
      /\ host.run.stage = "purchase"
      /\ UNCHANGED <<jobVars, marketVars, brokerVars, hostLock, disk, stopping, late>>
      /\ Stands([host.run EXCEPT !.status = "awaiting_approval"])
  BY DEF AwaitApproval, At
<1>2. HostSound /\ host.run \in Run /\ Tells(host.job, host.run)
  BY <1>1, ExecutingFacts
<1>3. PICK run : run = [host.run EXCEPT !.status = "awaiting_approval"]
  OBVIOUS
<1>4. run \in Run /\ run.status = "awaiting_approval" /\ run.stage = "purchase"
      /\ run.receipts = host.run.receipts
  BY <1>1, <1>2, <1>3 DEF Run
<1>5. Untouched(host.job, "data")
  BY <1>1, <1>2 DEF HostSound, CycleSound, PaidStages, Kind, KindOf
<1>6. Tells(host.job, run)
  BY <1>1, <1>2, <1>4, <1>5 DEF Tells
<1> QED BY <1>1, <1>3, <1>4, <1>6, StandsSound

\* Authority that is there was never used after it was withdrawn.
LEMMA AskAuthoritySound ==
  ASSUME WorkSound, AskAuthority
  PROVE  WorkSound'
<1>1. /\ host.at \in {"advance", "authorized", "waiting"} /\ At("advance")
      /\ host.run.stage \in PaidStages
      /\ UNCHANGED <<jobVars, marketVars, brokerVars, hostLock, disk, stopping, late>>
  BY DEF AskAuthority, At
<1>2. CASE Fails(FALSE)
  BY <1>1, <1>2, FailsSound
<1>3. CASE Authorized(host.runner, host.job) /\ Move("authorized")
  <2>1. PICK i \in Jobs : i = host.job
    BY <1>1, ExecutingFacts
  <2>2. /\ HostSound /\ host \in HostRecords /\ host.runner \in Runners /\ host.run \in Run
        /\ job[i].status = "running" /\ job[i].runner = host.runner /\ disk[i].state = "started"
        /\ host.run = disk[i].run /\ host.run.status = "running"
    BY <1>1, <2>1, ExecutingFacts
  <2>3. /\ host' \in HostRecords /\ host'.at = "authorized" /\ host'.run = host.run
        /\ host'.job = i /\ host'.runner = host.runner
    BY <1>3, <2>1, <2>2 DEF Move, HostRecords
  <2>4. late[i] = 0
    BY <1>3, <2>1, <2>2 DEF WorkSound, LateSound, Withdrawn
  <2>5. UNCHANGED <<job, intent, asked, disk>>
    BY <1>1 DEF jobVars, brokerVars
  <2>6. Untouched(i, Kind)'
    BY <1>1, <2>1, <2>2, <2>3, <2>5 DEF HostSound, CycleSound, Untouched, Kind
  <2>7. CycleSound'
    BY <1>1, <2>2, <2>3, <2>5, <2>6 DEF CycleSound, At, Executing
  <2> QED BY <1>1, <2>2, <2>3, <2>4, <2>7, DiskRests, HostFacts, HostMoves
<1> QED BY <1>2, <1>3 DEF AskAuthority

LEMMA GiveUpSound ==
  ASSUME WorkSound, GiveUp
  PROVE  WorkSound'
<1>1. /\ host.at \in {"advance", "authorized", "waiting"}
      /\ UNCHANGED <<jobVars, marketVars, brokerVars, hostLock, disk, stopping, late>>
      /\ Fails(TRUE)
  BY DEF GiveUp, At
<1> QED BY <1>1, FailsSound

LEMMA ReceiveSound ==
  ASSUME WorkSound, Receive
  PROVE  WorkSound'
<1>1. /\ host.at \in {"advance", "authorized", "waiting"} /\ At("waiting") /\ host.at = "waiting"
      /\ UNCHANGED <<jobVars, marketVars, brokerVars, hostLock, disk, stopping, late>>
      /\ ~InProgress(host.job, Kind)
  BY DEF Receive, At
<1>2. PICK i \in Jobs : i = host.job
  BY <1>1, ExecutingFacts
<1>3. HostSound /\ host.run \in Run /\ Tells(i, host.run) /\ host.run.status = "running"
      /\ host.run.stage \in PaidStages
  BY <1>1, <1>2, ExecutingFacts DEF HostSound, CycleSound
<1>4. CASE intent[i][Kind] # "settled"
  <2>1. Fails(TRUE)
    BY <1>2, <1>4 DEF Receive
  <2> QED BY <1>1, <2>1, FailsSound
<1>5. CASE intent[i][Kind] = "settled"
  <2>1. Done(i, Kind)
    BY <1>1, <1>2, <1>5 DEF Done, InProgress
  <2>2. CASE host.run.stage = "purchase"
    <3>1. Kind = "data"
      BY <2>2 DEF Kind, KindOf
    <3>2. PICK run : run = [[host.run EXCEPT !.receipts = @ \cup {"data"}] EXCEPT !.stage = "report"]
      OBVIOUS
    <3>3. Stands(run)
      BY <1>2, <1>5, <3>1, <3>2 DEF Receive
    <3>4. run \in Run /\ run.status = "running" /\ run.stage = "report"
          /\ run.receipts = host.run.receipts \cup {"data"}
      BY <1>3, <3>2 DEF Run, Stages
    <3>5. Untouched(i, "report") /\ Untouched(i, "verify")
      BY <1>3, <2>2 DEF Tells, ToCome
    <3>6. Tells(i, run)
      BY <1>3, <2>1, <3>1, <3>4, <3>5 DEF Tells, Earlier, ToCome
    <3> QED BY <1>1, <1>2, <3>3, <3>4, <3>5, <3>6, StandsSound DEF KindOf
  <2>3. CASE host.run.stage = "report"
    <3>1. Kind = "report"
      BY <2>3 DEF Kind, KindOf
    <3>2. Reaches("verification")
      BY <1>2, <1>5, <3>1 DEF Receive
    <3> QED BY <1>1, <1>2, <2>1, <2>3, <3>1, <3>2, ReachesSound
  <2>4. CASE host.run.stage = "verification"
    <3>1. Kind = "verify"
      BY <2>4 DEF Kind, KindOf
    <3>2. PICK run, stop :
            /\ run = [[host.run EXCEPT !.receipts = @ \cup {"verify"}]
                        EXCEPT !.checked = TRUE, !.stage = "complete", !.status = "completed"]
            /\ stop = [[host.run EXCEPT !.receipts = @ \cup {"verify"}]
                        EXCEPT !.checked = TRUE, !.status = "failed"]
      OBVIOUS
    <3>3. Stands(run) \/ Stands(stop)
      BY <1>2, <1>5, <3>1, <3>2 DEF Receive
    <3>4. /\ run \in Run /\ run.status = "completed" /\ run.stage = "complete"
          /\ run.receipts = host.run.receipts \cup {"verify"}
      BY <1>3, <3>2 DEF Run, Stages
    <3>5. /\ stop \in Run /\ stop.status = "failed" /\ stop.stage = "verification"
          /\ stop.receipts = host.run.receipts \cup {"verify"}
      BY <1>3, <2>4, <3>2 DEF Run, Stages
    <3>6. Done(i, "data") /\ Done(i, "report") /\ Done(i, "verify")
          /\ \A k \in host.run.receipts : Done(i, k)
      BY <1>3, <2>1, <2>4, <3>1 DEF Tells, Earlier
    <3>7. Tells(i, run)
      BY <3>4, <3>6 DEF Tells, Earlier, ToCome, Kinds
    <3>8. Tells(i, stop)
      BY <3>5, <3>6 DEF Tells, Earlier, ToCome
    <3> QED BY <1>1, <1>2, <3>3, <3>4, <3>5, <3>7, <3>8, StandsSound
  <2> QED BY <1>3, <2>2, <2>3, <2>4 DEF PaidStages
<1> QED BY <1>4, <1>5

LEMMA CloseSound ==
  ASSUME WorkSound, Close
  PROVE  WorkSound'
<1>1. /\ UNCHANGED <<jobVars, marketVars, brokerVars, disk, late>>
      /\ hostLock' = "free" /\ stopping' = FALSE /\ Turns("off")
  BY DEF Close
<1>2. host' \in HostRecords /\ CycleSound' /\ ~At("authorized")' /\ HostSound
  BY <1>1, TurnsSound DEF WorkSound
<1> QED BY <1>1, <1>2, DiskRests, HostFacts, HostMoves

LEMMA CrashSound ==
  ASSUME WorkSound, Crash
  PROVE  WorkSound'
<1>1. /\ UNCHANGED <<jobVars, marketVars, brokerVars, disk, late>>
      /\ hostLock' = "left" /\ stopping' = FALSE /\ Turns("off")
  BY DEF Crash
<1>2. host' \in HostRecords /\ CycleSound' /\ ~At("authorized")' /\ HostSound
  BY <1>1, TurnsSound DEF WorkSound
<1> QED BY <1>1, <1>2, DiskRests, HostFacts, HostMoves

\* A signal and the operator's reconciliation leave the cycle where it is.
LEMMA HostStays ==
  ASSUME WorkSound, UNCHANGED <<jobVars, marketVars, brokerVars, host, disk, late>>,
         hostLock' \in {"free", "held", "left"}, stopping' \in BOOLEAN
  PROVE  WorkSound'
<1>1. HostSound /\ host.job \in Jobs /\ JobsSound /\ Kept
  BY HostFacts, NothingTakenBack DEF WorkSound
<1>2. \A i \in Jobs : KindsKept(i)
  BY KindsRest DEF brokerVars
<1>3. CycleSound'
  BY <1>1, <1>2, CycleFrame
<1>4. At("authorized")' => late[host'.job] = 0
  BY DEF WorkSound, LateSound, At
<1> QED BY <1>1, <1>3, <1>4, DiskRests, HostFacts, HostMoves

LEMMA SignalSound ==
  ASSUME WorkSound, Signal \/ ReconcileHost
  PROVE  WorkSound'
<1>1. HostSound
  BY DEF WorkSound
<1>2. CASE Signal
  <2>1. UNCHANGED <<jobVars, marketVars, brokerVars, host, disk, late, hostLock>> /\ stopping' = TRUE
    BY <1>2 DEF Signal
  <2> QED BY <1>1, <2>1, HostFacts, HostStays
<1>3. CASE ReconcileHost
  <2>1. /\ UNCHANGED <<jobVars, marketVars, brokerVars, host, disk, late, stopping>>
        /\ hostLock' = "free"
    BY <1>3 DEF ReconcileHost
  <2> QED BY <1>1, <2>1, HostFacts, HostStays
<1> QED BY <1>2, <1>3

\* A job that is claimed is running for the runner.
LEMMA ClaimSound ==
  ASSUME WorkSound, Claim
  PROVE  WorkSound'
<1>1. PICK r : r = host.runner
  OBVIOUS
<1>2. /\ At("poll") /\ ClaimJob(r)
      /\ UNCHANGED <<marketVars, brokerVars, hostLock, disk, stopping, late>>
      /\ \/ Claimable(r) # {} /\ host' = [host EXCEPT !.at = "claimed", !.job = Oldest(Claimable(r))]
         \/ UNCHANGED host
  BY <1>1 DEF Claim
<1>3. JobsSound /\ HostSound /\ host \in HostRecords /\ r \in Runners /\ host.at = "poll"
  BY <1>1, <1>2, HostFacts DEF WorkSound, HostSound, CycleSound, At
<1>4. JobsSound' /\ Kept
  BY <1>2, <1>3, ClaimJobSound
<1>5. MarketSound' /\ BrokerSound'
  BY <1>2, <1>3, <1>4, MarketFrame, MarketRests, BrokerFrame DEF WorkSound
<1>6. \A i \in Jobs : KindsKept(i)
  BY <1>2, KindsRest DEF brokerVars
<1>7. \A i \in Jobs : DiskSound(i)' /\ StatusSound(i)'
  BY <1>2, <1>3, <1>4, <1>6, DiskFrame
<1>8. ASSUME host' = [host EXCEPT !.at = "claimed", !.job = Oldest(Claimable(r))], Claimable(r) # {}
      PROVE  host' \in HostRecords /\ CycleSound' /\ ~At("authorized")'
  <2>1. Claimable(r) \in SUBSET Nat /\ Claimable(r) \subseteq Jobs \ Stale
    BY DEF Claimable, Jobs
  <2>2. PICK i \in Claimable(r) : i = Oldest(Claimable(r))
    BY <1>8, <2>1, OldestIsMember
  <2>3. i \in Jobs /\ i \notin Stale /\ job[i] \in JobRecords
    BY <1>3, <2>1, <2>2, JobFacts
  <2>4. job'[i] = [job[i] EXCEPT !.status = "running", !.runner = r]
    BY <1>2, <1>8, <2>2, <2>3 DEF ClaimJob
  <2>5. job'[i].status = "running" /\ job'[i].runner = r
    BY <2>3, <2>4 DEF JobRecords
  <2>6. /\ host' \in HostRecords /\ host'.at = "claimed" /\ host'.job = i /\ host'.runner = r
    BY <1>1, <1>3, <1>8, <2>2, <2>3 DEF HostRecords
  <2>7. CycleSound' /\ ~At("authorized")'
    BY <1>3, <2>5, <2>6 DEF CycleSound, At, Executing
  <2> QED BY <2>6, <2>7
<1>9. ASSUME UNCHANGED host
      PROVE  host' \in HostRecords /\ CycleSound' /\ ~At("authorized")'
  <2>1. CycleSound' /\ ~At("authorized")'
    BY <1>1, <1>2, <1>3, <1>9 DEF CycleSound, At, Executing
  <2> QED BY <1>3, <1>9, <2>1
<1>10. host' \in HostRecords /\ CycleSound' /\ ~At("authorized")'
  BY <1>2, <1>8, <1>9
<1>11. late' \in [Jobs -> {0, 1}] /\ \A i \in Jobs : late'[i] = 1 => Withdrawn(i)'
  BY <1>2, <1>3, <1>4, LateStays DEF WorkSound
<1>12. HostTypeOK'
  <2>1. late' \in [Jobs -> Nat]
    BY <1>11
  <2> QED BY <1>2, <1>3, <1>10, <2>1, HostFacts DEF HostTypeOK, HostRecords, DiskRecords
<1> QED BY <1>4, <1>5, <1>7, <1>10, <1>11, <1>12 DEF WorkSound, HostSound, LateSound

\* The capability that is requested is the one its record does not tell of yet.
LEMMA UseSound ==
  ASSUME WorkSound, Use
  PROVE  WorkSound'
<1>1. PICK i \in Jobs, k \in Kinds : i = host.job /\ k = Kind
  <2>1. Kind \in Kinds /\ host.job \in Jobs
    BY HostFacts DEF Kind, KindOf, Kinds, WorkSound
  <2> QED BY <2>1
<1>2. /\ At("authorized") /\ host.at = "authorized"
      /\ UNCHANGED <<jobVars, marketVars, broker, brokerLock, intent, checkpoint, bought,
                     hostLock, disk, stopping>>
  BY DEF Use, At
<1>3. /\ JobsSound /\ HostSound /\ host \in HostRecords /\ host.run \in Run
      /\ job[i].status = "running" /\ job[i].runner = host.runner /\ host.runner \in Runners
      /\ disk[i].state = "started" /\ host.run = disk[i].run /\ host.run.status = "running"
      /\ Tells(i, host.run)
  BY <1>1, <1>2, ExecutingFacts DEF WorkSound
<1>4. i \in Created /\ JobsSound' /\ Kept
  BY <1>2, <1>3, NothingTakenBack DEF Created
<1>5. CASE Fails(Live(i)) /\ UNCHANGED <<asked, late>>
  <2>1. Live(i) \in BOOLEAN
    <3>1. job[i].mandate \in Made
      BY <1>3, <1>4, JobFacts DEF JobSound
    <3> QED BY <1>3, <3>1, MandateFacts DEF Live, Made, MandateRecords
  <2>2. UNCHANGED brokerVars
    BY <1>2, <1>5 DEF brokerVars
  <2> QED BY <1>2, <1>5, <2>1, <2>2, FailsSound
<1>6. CASE /\ Acceptable(i, k) /\ Enqueue(i, k) /\ Move("waiting")
           /\ late' = [late EXCEPT ![i] = IF Authorized(host.runner, i) THEN @ ELSE @ + 1]
  <2>1. asked' = asked \cup {<<i, k>>}
    BY <1>6 DEF Enqueue
  <2>2. Untouched(i, k) /\ host.run.stage \in PaidStages /\ k = KindOf(host.run.stage)
    BY <1>1, <1>2, <1>3 DEF HostSound, CycleSound, Kind
  <2>3. /\ host' \in HostRecords /\ host'.at = "waiting" /\ host'.run = host.run
        /\ host'.job = i /\ host'.runner = host.runner
    BY <1>1, <1>3, <1>6 DEF Move, HostRecords
  <2>4. LateSound'
    <3>1. late \in [Jobs -> {0, 1}] /\ late[i] = 0
      BY <1>1, <1>2 DEF WorkSound, LateSound
    <3>2. /\ late'[i] = IF Authorized(host.runner, i) THEN 0 ELSE 1
          /\ \A j \in Jobs : j # i => late'[j] = late[j]
          /\ late' \in [Jobs -> {0, 1}]
      BY <1>6, <3>1
    <3>3. Authorized(host.runner, i)' = Authorized(host.runner, i) /\ UNCHANGED <<job>>
      BY <1>2, <2>3
      DEF jobVars, Authorized, Active, Current, Approved, Unchanged
    <3>4. ASSUME NEW j \in Jobs, late'[j] = 1 PROVE Withdrawn(j)'
      <4>1. CASE j = i
        BY <1>3, <2>3, <3>2, <3>3, <3>4, <4>1 DEF Withdrawn, Begun
      <4>2. CASE j # i
        BY <1>3, <1>4, <3>2, <3>4, <4>2, WithdrawnStays DEF WorkSound, LateSound
      <4> QED BY <4>1, <4>2
    <3>5. ~At("authorized")'
      BY <2>3 DEF At
    <3> QED BY <3>2, <3>4, <3>5 DEF LateSound
  <2>5. MarketSound'
    BY <1>2, <1>4, MarketFrame DEF WorkSound
  <2>6. BrokerSound'
    <3>1. BrokerSound
      BY DEF WorkSound
    <3>2. BrokerTypeOK' /\ Listens' /\ BudgetKept'
      BY <1>2, <2>1, <3>1 DEF BrokerSound, BrokerTypeOK, Listens, BudgetKept, Reserved, marketVars
    <3>3. OperationSound'
      BY <1>2, <3>1 DEF BrokerSound, OperationSound, AtMarket, Verified, marketVars, jobVars
    <3>4. ASSUME NEW j \in Jobs PROVE IntentSound(j)'
      <4>1. IntentSound(j)
        BY <3>1, BrokerFacts
      <4>2. UNCHANGED <<mandate, job, order, transfer, intent, bought, checkpoint>>
        BY <1>2 DEF jobVars, marketVars
      <4>3. \A l \in Kinds : intent'[j][l] # "none" \/ <<j, l>> \in asked' =>
              /\ j \in Created'
              /\ l # "data" => intent'[j]["data"] = "settled"
              /\ l = "verify" => intent'[j]["report"] = "settled"
        <5> SUFFICES ASSUME NEW l \in Kinds, intent[j][l] # "none" \/ <<j, l>> \in asked'
                     PROVE  /\ j \in Created'
                            /\ l # "data" => intent[j]["data"] = "settled"
                            /\ l = "verify" => intent[j]["report"] = "settled"
          BY <4>2
        <5>1. CASE <<j, l>> = <<i, k>>
          BY <1>4, <1>6, <4>2, <5>1 DEF Acceptable, Created
        <5>2. CASE <<j, l>> # <<i, k>>
          BY <2>1, <4>1, <4>2, <5>2 DEF IntentSound, Created
        <5> QED BY <5>1, <5>2
      <4>4. AtMarket(j)' = AtMarket(j) /\ Verified(j)' = Verified(j)
        BY <4>2 DEF AtMarket, Verified
      <4>5. /\ intent'[j]["data"] = "settled" => j \in bought'
            /\ j \in bought' => intent'[j]["data"] # "none"
            /\ intent'[j]["verify"] = "settled" => Verified(j)'
            /\ transfer'[j] # "none" =>
                 /\ intent'[j]["verify"] # "none"
                 /\ AtMarket(j)' => order'[j].status # "none" /\ checkpoint'[j] \notin {"none", "quoted"}
        BY <4>1, <4>2, <4>4 DEF IntentSound
      <4> QED BY <4>3, <4>5 DEF IntentSound
    <3> QED BY <3>2, <3>3, <3>4 DEF BrokerSound
  <2>7. \A j \in Jobs, l \in Kinds :
          <<j, l>> # <<i, k>> => /\ Untouched(j, l) => Untouched(j, l)'
                                 /\ Done(j, l) => Done(j, l)'
    BY <1>2, <2>1 DEF Untouched, Done
  <2>8. ASSUME NEW j \in Jobs PROVE DiskSound(j)' /\ StatusSound(j)'
    <3>1. CASE j # i
      BY <1>2, <1>3, <1>4, <2>7, <3>1, DiskFrame DEF KindsKept
    <3>2. CASE j = i
      <4>1. UNCHANGED <<job, disk, intent>>
        BY <1>2 DEF jobVars
      <4>2. PICK run \in Run : run = host.run
        BY <1>3
      <4>3. k \notin Earlier(run.stage) \cup run.receipts /\ k \notin ToCome(run.stage)
        <5>1. ~Done(i, k)
          BY <2>2 DEF Untouched, Done
        <5>2. k \notin Earlier(run.stage) \cup run.receipts
          BY <1>3, <4>2, <5>1 DEF Tells
        <5>3. k \notin ToCome(run.stage)
          BY <2>2, <4>2 DEF ToCome, KindOf, PaidStages
        <5> QED BY <5>2, <5>3
      <4>4. Earlier(run.stage) \cup run.receipts \subseteq Kinds /\ ToCome(run.stage) \subseteq Kinds
        BY DEF Earlier, ToCome, Kinds, Run, Stages
      <4>5. Tells(i, run)'
        <5>1. \A l \in Earlier(run.stage) \cup run.receipts : Done(i, l)'
          BY <1>3, <2>7, <4>2, <4>3, <4>4 DEF Tells
        <5>2. \A l \in ToCome(run.stage) : Untouched(i, l)'
          BY <1>3, <2>7, <4>2, <4>3, <4>4 DEF Tells
        <5>3. run.status = "running"
          BY <1>3, <4>2
        <5> QED BY <5>1, <5>2, <5>3 DEF Tells, Earlier, ToCome
      <4>6. DiskSound(i)'
        BY <1>3, <4>1, <4>2, <4>5 DEF DiskSound, Begun
      <4>7. StatusSound(i)'
        BY <1>3, <4>1 DEF StatusSound
      <4> QED BY <3>2, <4>6, <4>7
    <3> QED BY <3>1, <3>2
  <2>9. CycleSound'
    BY <1>2, <1>3, <2>2, <2>3 DEF CycleSound, At, Executing, jobVars
  <2>10. HostTypeOK'
    <3>1. late' \in [Jobs -> Nat]
      BY <2>4 DEF LateSound
    <3> QED BY <1>2, <1>3, <2>3, <3>1, HostFacts DEF HostTypeOK, HostRecords, DiskRecords
  <2> QED BY <1>4, <2>4, <2>5, <2>6, <2>8, <2>9, <2>10 DEF WorkSound, HostSound
<1> QED BY <1>1, <1>5, <1>6 DEF Use

\* A result on file classifies what its record tells.
LEMMA ClassifiedIsTrue ==
  ASSUME NEW i \in Jobs, NEW run \in Run, NEW proven \in BOOLEAN, Consistent(run), Tells(i, run)
  PROVE  /\ Classified(run, proven) \in {"succeeded", "blocked", "uncertain", "failed"}
         /\ Classified(run, proven) = "succeeded" => \A k \in Kinds : Done(i, k)
         /\ Classified(run, proven) \in {"failed", "blocked"} =>
              \A k \in {"data", "verify"} : Untouched(i, k) \/ Done(i, k)
<1>1. Classified(run, proven) \in {"succeeded", "blocked", "uncertain", "failed"}
  BY DEF Classified
<1>2. ASSUME Classified(run, proven) = "succeeded" PROVE \A k \in Kinds : Done(i, k)
  <2>1. run.status = "completed"
    BY <1>2 DEF Classified
  <2> QED BY <2>1 DEF Tells, Earlier
<1>3. ASSUME Classified(run, proven) = "blocked"
      PROVE  \A k \in {"data", "verify"} : Untouched(i, k)
  <2>1. run.status = "awaiting_approval"
    BY <1>3 DEF Classified
  <2> QED BY <2>1 DEF Tells, ToCome
<1>4. ASSUME Classified(run, proven) = "failed"
      PROVE  \A k \in {"data", "verify"} : Untouched(i, k) \/ Done(i, k)
  <2>1. \/ run.receipts = {"data", "verify"}
        \/ run.stage \notin {"purchase", "verification"}
    BY <1>4 DEF Classified
  <2>2. CASE run.receipts = {"data", "verify"}
    BY <2>2 DEF Tells
  <2>3. CASE run.stage \in {"mandate", "discovery"}
    BY <2>3 DEF Tells, ToCome, Kinds
  <2>4. CASE run.stage = "report"
    BY <2>4 DEF Tells, ToCome, Earlier
  <2>5. CASE run.stage = "complete"
    BY <2>5 DEF Tells, Earlier, Kinds
  <2> QED BY <2>1, <2>2, <2>3, <2>4, <2>5 DEF Run, Stages
<1> QED BY <1>1, <1>2, <1>3, <1>4

LEMMA UploadSound ==
  ASSUME WorkSound, Upload
  PROVE  WorkSound'
<1>1. HostSound /\ JobsSound /\ host \in HostRecords /\ CycleSound
  BY HostFacts DEF WorkSound
<1>2. PICK i \in Pending : i = Oldest(Pending)
  <2>1. Pending \in SUBSET Nat /\ Pending # {}
    BY DEF Upload, Pending, Jobs
  <2> QED BY <2>1, OldestIsMember
<1>3. PICK run \in Run : run = disk[i].run
  BY <1>1, <1>2, HostFacts DEF Pending, DiskRecords
<1>4. PICK proven \in BOOLEAN : proven = AtMarket(i)
  <2>1. i \in Created
    BY <1>1, <1>2, HostFacts DEF Pending, DiskSound, Begun, Created
  <2>2. job[i].mandate \in Mandates
    BY <1>1, <2>1, JobFacts DEF JobSound, Made, Created
  <2>3. mandate[job[i].mandate].terms \in Nat
    BY <1>1, <2>2, MandateFacts DEF MandateRecords
  <2>4. AtMarket(i) \in BOOLEAN
    BY <2>3 DEF AtMarket
  <2> QED BY <2>4
<1>5. /\ i \in Jobs /\ disk[i].state = "finished" /\ DiskSound(i)
      /\ At("poll") /\ SaveRunnerResult(host.runner, i, run, proven)
      /\ UNCHANGED <<marketVars, brokerVars, hostLock, disk, stopping, late>>
      /\ host' = [host EXCEPT !.at = "acknowledge", !.job = i] \/ UNCHANGED host
  BY <1>1, <1>2, <1>3, <1>4, HostFacts DEF Pending, Upload
<1>6. /\ JobsSound' /\ job'[i].result = run
      /\ \/ job' = job
         \/ /\ job[i].status = "running"
            /\ job' = [job EXCEPT ![i].status = Classified(run, proven), ![i].result = run]
  BY <1>1, <1>5, SaveRunnerResultSound
<1>7. UNCHANGED <<runner, mandate, revisions>> /\ Consistent(run)
  BY <1>5 DEF SaveRunnerResult
<1>8. Tells(i, run) /\ Begun(i)
  BY <1>3, <1>5 DEF DiskSound
<1>9. host' \in HostRecords /\ host'.at \in {"acknowledge", "poll"} /\ host'.runner = host.runner
      /\ (host'.at = "acknowledge" => host'.job = i)
  BY <1>1, <1>5 DEF HostRecords, At
<1>10. CycleSound'
  <2>1. host.runner \in Runners
    BY <1>1, <1>5 DEF CycleSound, At
  <2>2. disk'[i].state = "finished" /\ disk'[i].run = run
    BY <1>3, <1>5
  <2> QED BY <1>6, <1>9, <2>1, <2>2 DEF CycleSound, At, Executing
<1>11. ~At("authorized")'
  BY <1>9 DEF At
<1>12. CASE job' = job
  <2>1. UNCHANGED jobVars
    BY <1>7, <1>12 DEF jobVars
  <2> QED BY <1>1, <1>5, <1>9, <1>10, <1>11, <2>1, DiskRests, HostFacts, HostMoves
<1>13. CASE /\ job[i].status = "running"
            /\ job' = [job EXCEPT ![i].status = Classified(run, proven), ![i].result = run]
  <2>1. Classified(run, proven) \in {"succeeded", "blocked", "uncertain", "failed"}
    BY DEF Classified
  <2>2. /\ job'[i].status = Classified(run, proven) /\ job'[i].mandate = job[i].mandate
        /\ job'[i].runner = job[i].runner
        /\ \A j \in Jobs : j # i => job'[j] = job[j]
    BY <1>1, <1>5, <1>13, JobFacts DEF JobRecords
  <2>3. /\ Created' = Created
        /\ \A j \in Jobs : job'[j].mandate = job[j].mandate /\ AtMarket(j)' = AtMarket(j)
    <3>1. \A j \in Jobs : job'[j].mandate = job[j].mandate
      BY <2>2
    <3>2. Created' = Created
      BY <1>13, <2>1, <2>2 DEF Created
    <3>3. \A j \in Jobs : AtMarket(j)' = AtMarket(j)
      BY <1>7, <3>1 DEF AtMarket
    <3> QED BY <3>1, <3>2, <3>3
  <2>4. UNCHANGED <<order, attempt, transfer, broker, brokerLock, asked, intent, checkpoint, bought>>
    BY <1>5 DEF marketVars, brokerVars
  <2>5. late' \in [Jobs -> {0, 1}] /\ LateSound'
    <3>1. late' \in [Jobs -> {0, 1}]
      BY <1>5 DEF WorkSound, LateSound
    <3>2. ASSUME NEW j \in Jobs, late'[j] = 1 PROVE Withdrawn(j)'
      <4>1. Withdrawn(j)
        BY <1>5, <3>2 DEF WorkSound, LateSound
      <4>2. CASE j = i
        BY <2>1, <2>2, <4>2 DEF Withdrawn, Begun, Authorized
      <4>3. CASE j # i
        BY <1>7, <2>2, <4>1, <4>3
        DEF Withdrawn, Begun, Authorized, Active, Current, Approved, Unchanged
      <4> QED BY <4>2, <4>3
    <3> QED BY <1>11, <3>1, <3>2 DEF LateSound
  <2>6. MarketSound'
    <3>1. MarketSound
      BY DEF WorkSound
    <3>2. MarketTypeOK' /\ TokensDiffer' /\ AttemptsExclude' /\ OrdersArePaid'
      BY <2>4, <3>1 DEF MarketSound, MarketTypeOK, TokensDiffer, AttemptsExclude, OrdersArePaid, Asks
    <3>3. \A h \in Handlers : AttemptSound(h)'
      BY <2>4, <3>1 DEF MarketSound, AttemptSound, Asks
    <3> QED BY <2>3, <2>4, <3>1, <3>2, <3>3 DEF MarketSound
  <2>7. BrokerSound'
    <3>1. BrokerSound
      BY DEF WorkSound
    <3>2. BrokerTypeOK' /\ BudgetKept' /\ Listens'
      BY <2>4, <3>1 DEF BrokerSound, BrokerTypeOK, BudgetKept, Reserved, Listens
    <3>3. \A j \in Jobs : Verified(j)' = Verified(j)
      BY <2>3, <2>4 DEF Verified
    <3>4. OperationSound'
      <4>1. broker.job \in Jobs /\ OperationSound
        BY <3>1, BrokerFacts
      <4> QED BY <2>3, <2>4, <3>3, <4>1 DEF OperationSound
    <3>5. \A j \in Jobs : IntentSound(j)'
      BY <2>3, <2>4, <3>1, <3>3, BrokerFacts DEF IntentSound
    <3> QED BY <3>2, <3>4, <3>5 DEF BrokerSound
  <2>8. ASSUME NEW j \in Jobs PROVE DiskSound(j)' /\ StatusSound(j)'
    <3>1. DiskSound(j) /\ StatusSound(j) /\ disk' = disk
      BY <1>1, <1>5, HostFacts
    <3>2. CASE j # i
      BY <2>2, <2>4, <3>1, <3>2 DEF DiskSound, StatusSound, Begun, Tells, Untouched, Done
    <3>3. CASE j = i
      <4>1. Tells(i, run)' /\ Begun(i)'
        BY <1>8, <2>1, <2>2, <2>4 DEF Tells, Untouched, Done, Begun
      <4>2. DiskSound(i)'
        BY <1>3, <1>5, <3>1, <4>1 DEF DiskSound
      <4>3. \A k \in Kinds : Done(i, k)' = Done(i, k) /\ Untouched(i, k)' = Untouched(i, k)
        BY <2>4 DEF Done, Untouched
      <4>4. StatusSound(i)'
        BY <1>5, <1>7, <1>8, <2>2, <4>3, ClassifiedIsTrue DEF StatusSound, Kinds
      <4> QED BY <3>3, <4>2, <4>4
    <3> QED BY <3>2, <3>3
  <2>9. HostTypeOK'
    <3>1. late' \in [Jobs -> Nat]
      BY <2>5
    <3> QED BY <1>1, <1>5, <1>9, <3>1, HostFacts DEF HostTypeOK, HostRecords, DiskRecords
  <2> QED BY <1>6, <1>10, <2>5, <2>6, <2>7, <2>8, <2>9 DEF WorkSound, HostSound
<1> QED BY <1>6, <1>12, <1>13

LEMMA HostsStep ==
  ASSUME WorkSound, Hosts
  PROVE  WorkSound'
<1>1. HostNext
  BY DEF Hosts
<1>2. ASSUME NEW r \in Runners, Open(r) PROVE WorkSound'
  BY <1>2, OpenSound
<1>3. CASE Upload \/ Acknowledge \/ Claim \/ Start \/ Checkpoint \/ Finish
  BY <1>3, UploadSound, AcknowledgeSound, ClaimSound, StartSound, CheckpointSound, FinishSound
<1>4. CASE Discover \/ AskAuthority \/ Use \/ Receive \/ Close
  BY <1>4, DiscoverSound, AskAuthoritySound, UseSound, ReceiveSound, CloseSound
<1>5. CASE AwaitApproval \/ GiveUp \/ Signal \/ Crash \/ ReconcileHost
  BY <1>5, AwaitApprovalSound, GiveUpSound, SignalSound, CrashSound
<1> QED BY <1>1, <1>2, <1>3, <1>4, <1>5 DEF HostNext, HostWork

\* Steps of accounts and of visitors leave the agent's work alone.
LEMMA WorkRests ==
  ASSUME WorkSound, UNCHANGED working
  PROVE  WorkSound'
<1>1. UNCHANGED <<jobVars, marketVars, brokerVars, host, disk, late, hostLock, stopping>>
  BY DEF working, hostVars
<1>2. HostSound
  BY DEF WorkSound
<1> QED BY <1>1, <1>2, HostFacts, HostStays

-----------------------------------------------------------------------------
(* Hosted runs.                                                            *)

VisitRecords == [at : {"idle", "acting", "waiting"}, run : Nat, does : Does,
                 copy : HostedRun \cup {{}}]

LEMMA VisitsFacts ==
  ASSUME VisitsSound
  PROVE  /\ hosted \in Seq(HostedRun) /\ Len(hosted) \in Nat /\ Len(hosted) <= ServerRuns
         /\ ServerRuns \in Nat /\ MaxVersions \in Nat /\ MaxVersions >= 1
         /\ DOMAIN hosted = 1 .. Len(hosted) /\ DOMAIN hosted \subseteq 1 .. ServerRuns
         /\ \A i \in DOMAIN hosted : hosted[i] \in HostedRun
         /\ visit \in [Visits -> VisitRecords]
         /\ begun \in [1 .. ServerRuns -> [Kinds -> Nat]]
         /\ \A h \in Visits : VisitSound(h)
         /\ \A i \in 1 .. ServerRuns : RunSound(i)
<1>1. ServerRuns \in Nat /\ MaxVersions \in Nat /\ MaxVersions >= 1
  BY HostedAssumption
<1>2. /\ hosted \in Seq(HostedRun) /\ Len(hosted) <= ServerRuns
      /\ visit \in [Visits -> VisitRecords]
      /\ begun \in [1 .. ServerRuns -> [Kinds -> Nat]]
  BY DEF VisitsSound, VisitsTypes, VisitRecords
<1>3. /\ Len(hosted) \in Nat /\ DOMAIN hosted = 1 .. Len(hosted)
      /\ \A i \in DOMAIN hosted : hosted[i] \in HostedRun
  BY <1>2
<1>4. DOMAIN hosted \subseteq 1 .. ServerRuns
  BY <1>1, <1>2, <1>3
<1> QED BY <1>1, <1>2, <1>3, <1>4 DEF VisitsSound

LEMMA NoVisitIsRecord == NoVisit \in VisitRecords /\ NoVisit.at = "idle"
BY DEF NoVisit, VisitRecords, Does

LEMMA StoredRun ==
  ASSUME VisitsSound, NEW i \in DOMAIN hosted, NEW run \in HostedRun,
         hosted' = [hosted EXCEPT ![i] = run]
  PROVE  /\ hosted' \in Seq(HostedRun) /\ Len(hosted') = Len(hosted)
         /\ DOMAIN hosted' = DOMAIN hosted /\ hosted'[i] = run
         /\ \A j \in DOMAIN hosted : j # i => hosted'[j] = hosted[j]
BY VisitsFacts

\* A request ends and stores its run.
LEMMA StoreSound ==
  ASSUME VisitsSound, UNCHANGED <<scenario, begun>>, NEW h \in Visits, visit[h].at # "idle",
         NEW run \in HostedRun,
         ~run.marked /\ run.status # "failed" => Fits(visit[h].run, run),
         hosted' = [hosted EXCEPT ![visit[h].run] = run],
         visit' = [visit EXCEPT ![h] = NoVisit]
  PROVE  VisitsSound'
<1>1. PICK i \in DOMAIN hosted : i = visit[h].run
  BY VisitsFacts DEF VisitSound
<1>2. /\ hosted' \in Seq(HostedRun) /\ Len(hosted') = Len(hosted)
      /\ DOMAIN hosted' = DOMAIN hosted /\ hosted'[i] = run
      /\ \A j \in DOMAIN hosted : j # i => hosted'[j] = hosted[j]
  BY <1>1, StoredRun
<1>3. /\ visit' \in [Visits -> VisitRecords] /\ visit'[h].at = "idle"
      /\ \A g \in Visits : g # h => visit'[g] = visit[g]
  BY VisitsFacts, NoVisitIsRecord
<1>4. VisitsTypes'
  BY <1>2, <1>3, VisitsFacts DEF VisitsTypes, VisitRecords
<1>5. ASSUME NEW g \in Visits PROVE VisitSound(g)'
  <2>1. CASE g = h
    BY <1>3, <2>1 DEF VisitSound
  <2>2. CASE visit[g].at = "idle" /\ g # h
    BY <1>3, <2>2 DEF VisitSound
  <2>3. CASE visit[g].at # "idle" /\ g # h
    <3>1. visit[g].run # i /\ VisitSound(g)
      BY <1>1, <2>3 DEF VisitsSound
    <3> QED BY <1>2, <1>3, <2>3, <3>1 DEF VisitSound, Fits
  <2> QED BY <2>1, <2>2, <2>3
<1>6. \A f, g \in Visits : f # g /\ visit'[f].at # "idle" /\ visit'[g].at # "idle" =>
        Serverless' /\ visit'[f].run # visit'[g].run
  BY <1>3 DEF VisitsSound, Serverless, scenario
<1>7. ASSUME NEW j \in 1 .. ServerRuns PROVE RunSound(j)'
  <2>1. RunSound(j)
    BY VisitsFacts
  <2>2. CASE j = i
    BY <1>1, <1>2, <2>1, <2>2 DEF RunSound, Fits
  <2>3. CASE j # i
    BY <1>2, <2>1, <2>3 DEF RunSound, Fits
  <2> QED BY <2>2, <2>3
<1> QED BY <1>4, <1>5, <1>6, <1>7 DEF VisitsSound

LEMMA SavesSound ==
  ASSUME VisitsSound, UNCHANGED scenario, NEW h \in Visits, visit[h].at # "idle",
         NEW run \in HostedRun, run.status # "failed" => Fits(visit[h].run, run), Saves(h, run)
  PROVE  VisitsSound'
<1>1. PICK saved : saved = [run EXCEPT !.marked = FALSE]
  OBVIOUS
<1>2. saved \in HostedRun /\ saved.status = run.status /\ saved.stage = run.stage
      /\ saved.receipts = run.receipts
  BY <1>1 DEF HostedRun
<1>3. saved.status # "failed" => Fits(visit[h].run, saved)
  BY <1>2 DEF Fits
<1> QED BY <1>1, <1>2, <1>3, StoreSound DEF Saves

LEMMA ThrowsSound ==
  ASSUME VisitsSound, UNCHANGED scenario, NEW h \in Visits, visit[h].at = "acting", Throws(h)
  PROVE  VisitsSound'
<1>1. VisitSound(h) /\ visit[h].copy \in HostedRun
  BY VisitsFacts DEF VisitSound
<1>2. CASE Serverless
  <2>1. PICK run : run = [visit[h].copy EXCEPT !.status = "failed", !.marked = TRUE]
    OBVIOUS
  <2>2. run \in HostedRun /\ run.marked
    BY <1>1, <2>1 DEF HostedRun
  <2> QED BY <1>2, <2>1, <2>2, StoreSound DEF Throws
<1>3. CASE ~Serverless
  BY <1>1, <1>3, SavesSound DEF Throws, VisitSound
<1> QED BY <1>2, <1>3

LEMMA InsertRunSound ==
  ASSUME VisitsSound, UNCHANGED scenario, NEW v \in Visitors, InsertRun(v)
  PROVE  VisitsSound'
<1>1. /\ Len(hosted) < ServerRuns /\ hosted' = Append(hosted, NewRun(v))
      /\ UNCHANGED <<visit, lapsed, begun>>
  BY DEF InsertRun
<1>2. NewRun(v) \in HostedRun
  BY VisitsFacts DEF NewRun, HostedRun, Stages
<1>3. PICK n \in Nat : n = Len(hosted) + 1
  BY VisitsFacts
<1>4. /\ hosted' \in Seq(HostedRun) /\ Len(hosted') = n /\ n \in 1 .. ServerRuns
      /\ DOMAIN hosted' = DOMAIN hosted \cup {n} /\ n \notin DOMAIN hosted
      /\ hosted'[n] = NewRun(v) /\ \A j \in DOMAIN hosted : hosted'[j] = hosted[j]
  BY <1>1, <1>2, <1>3, VisitsFacts
<1>5. VisitsTypes'
  BY <1>1, <1>4, VisitsFacts DEF VisitsTypes, VisitRecords
<1>6. \A h \in Visits : VisitSound(h)'
  BY <1>1, <1>4, VisitsFacts DEF VisitSound, Fits
<1>7. ASSUME NEW j \in 1 .. ServerRuns PROVE RunSound(j)'
  <2>1. RunSound(j)
    BY VisitsFacts
  <2>2. CASE j = n
    <3>1. \A k \in Kinds : begun'[j][k] = 0
      BY <1>1, <1>4, <2>1, <2>2 DEF RunSound
    <3>2. Fits(j, NewRun(v))'
      BY <3>1 DEF Fits, NewRun, Earlier
    <3> QED BY <1>4, <2>2, <3>1, <3>2 DEF RunSound, Fits
  <2>3. CASE j # n
    BY <1>1, <1>4, <2>1, <2>3 DEF RunSound, Fits
  <2> QED BY <2>2, <2>3
<1>8. \A f, g \in Visits : f # g /\ visit'[f].at # "idle" /\ visit'[g].at # "idle" =>
        Serverless' /\ visit'[f].run # visit'[g].run
  BY <1>1 DEF VisitsSound, Serverless, scenario
<1> QED BY <1>5, <1>6, <1>7, <1>8 DEF VisitsSound

\* A run is taken by one request, and what was interrupted has failed.
LEMMA TakeRunSound ==
  ASSUME VisitsSound, UNCHANGED scenario, NEW h \in Visits, NEW i \in DOMAIN hosted,
         NEW does \in Does, TakeRun(h, i, does)
  PROVE  VisitsSound'
<1>1. PICK run, taken : /\ run = Recovered(hosted[i])
                        /\ taken = [Recovered(hosted[i]) EXCEPT !.marked = TRUE]
  OBVIOUS
<1>2. /\ visit[h].at = "idle" /\ AtRest /\ (Serverless => ~hosted[i].marked)
      /\ hosted' = [hosted EXCEPT ![i] = taken]
      /\ visit' = [visit EXCEPT ![h] = [at |-> "acting", run |-> i, does |-> does, copy |-> run]]
      /\ UNCHANGED <<lapsed, begun>>
  BY <1>1 DEF TakeRun
<1>3. hosted[i] \in HostedRun /\ i \in 1 .. ServerRuns /\ i \in Nat
  BY VisitsFacts
<1>4. run \in HostedRun /\ (run.status # "failed" => ~hosted[i].marked /\ run = hosted[i])
  BY <1>1, <1>3 DEF Recovered, HostedRun
<1>5. taken \in HostedRun /\ taken.marked
  BY <1>1, <1>4 DEF HostedRun
<1>6. /\ hosted' \in Seq(HostedRun) /\ Len(hosted') = Len(hosted)
      /\ DOMAIN hosted' = DOMAIN hosted /\ hosted'[i] = taken
      /\ \A j \in DOMAIN hosted : j # i => hosted'[j] = hosted[j]
  BY <1>2, <1>5, StoredRun
<1>7. [at |-> "acting", run |-> i, does |-> does, copy |-> run] \in VisitRecords
  BY <1>3, <1>4 DEF VisitRecords
<1>8. /\ visit' \in [Visits -> VisitRecords]
      /\ visit'[h] = [at |-> "acting", run |-> i, does |-> does, copy |-> run]
      /\ \A g \in Visits : g # h => visit'[g] = visit[g]
  BY <1>2, <1>7, VisitsFacts
<1>9. VisitsTypes'
  BY <1>2, <1>6, <1>8, VisitsFacts DEF VisitsTypes, VisitRecords
<1>10. RunSound(i)
  BY <1>3, VisitsFacts
<1>11. ASSUME NEW g \in Visits, g # h, visit[g].at # "idle"
       PROVE  Serverless /\ visit[g].run # i
  <2>1. Serverless
    BY <1>2, <1>11 DEF AtRest
  <2>2. hosted[visit[g].run].marked
    BY <1>11, VisitsFacts DEF VisitSound
  <2> QED BY <1>2, <2>1, <2>2
<1>12. ASSUME NEW g \in Visits PROVE VisitSound(g)'
  <2>1. CASE g = h
    <3>1. run.status # "failed" => Fits(i, run)
      BY <1>4, <1>10 DEF RunSound
    <3>2. run.status # "failed" => Fits(i, run)'
      BY <1>2, <3>1 DEF Fits
    <3>3. /\ visit'[h].at = "acting" /\ visit'[h].run = i /\ visit'[h].copy = run
      BY <1>8
    <3> QED BY <1>4, <1>5, <1>6, <2>1, <3>2, <3>3 DEF VisitSound, Fits
  <2>2. CASE visit[g].at = "idle" /\ g # h
    BY <1>8, <2>2 DEF VisitSound
  <2>3. CASE visit[g].at # "idle" /\ g # h
    <3>1. visit[g].run # i /\ VisitSound(g)
      BY <1>11, <2>3, VisitsFacts
    <3> QED BY <1>2, <1>6, <1>8, <2>3, <3>1 DEF VisitSound, Fits
  <2> QED BY <2>1, <2>2, <2>3
<1>13. ASSUME NEW f \in Visits, NEW g \in Visits, f # g, visit'[f].at # "idle", visit'[g].at # "idle"
       PROVE  Serverless' /\ visit'[f].run # visit'[g].run
  <2>1. Serverless' = Serverless
    BY DEF Serverless, scenario
  <2>2. CASE f = h
    BY <1>8, <1>11, <1>13, <2>1, <2>2
  <2>3. CASE g = h
    BY <1>8, <1>11, <1>13, <2>1, <2>3
  <2>4. CASE f # h /\ g # h
    BY <1>8, <1>13, <2>1, <2>4 DEF VisitsSound
  <2> QED BY <2>2, <2>3, <2>4
<1>14. ASSUME NEW j \in 1 .. ServerRuns PROVE RunSound(j)'
  <2>1. RunSound(j)
    BY VisitsFacts
  <2>2. CASE j = i
    BY <1>2, <1>5, <1>6, <2>1, <2>2 DEF RunSound
  <2>3. CASE j # i
    BY <1>2, <1>6, <2>1, <2>3 DEF RunSound, Fits
  <2> QED BY <2>2, <2>3
<1> QED BY <1>9, <1>12, <1>13, <1>14 DEF VisitsSound

LEMMA VisitDiesSound ==
  ASSUME VisitsSound, UNCHANGED scenario, NEW h \in Visits, VisitDies(h)
  PROVE  VisitsSound'
<1>1. visit' = [visit EXCEPT ![h] = NoVisit] /\ UNCHANGED <<hosted, lapsed, begun>>
  BY DEF VisitDies
<1>2. /\ visit' \in [Visits -> VisitRecords] /\ visit'[h].at = "idle"
      /\ \A g \in Visits : g # h => visit'[g] = visit[g]
  BY <1>1, VisitsFacts, NoVisitIsRecord
<1>3. VisitsTypes'
  BY <1>1, <1>2, VisitsFacts DEF VisitsTypes, VisitRecords
<1>4. ASSUME NEW g \in Visits PROVE VisitSound(g)'
  <2>1. CASE g = h
    BY <1>2, <2>1 DEF VisitSound
  <2>2. CASE g # h
    BY <1>1, <1>2, <2>2, VisitsFacts DEF VisitSound, Fits
  <2> QED BY <2>1, <2>2
<1>5. \A f, g \in Visits : f # g /\ visit'[f].at # "idle" /\ visit'[g].at # "idle" =>
        Serverless' /\ visit'[f].run # visit'[g].run
  BY <1>2 DEF VisitsSound, Serverless, scenario
<1>6. \A j \in 1 .. ServerRuns : RunSound(j)'
  BY <1>1, VisitsFacts DEF RunSound, Fits
<1> QED BY <1>3, <1>4, <1>5, <1>6 DEF VisitsSound

LEMMA VisitsRest ==
  ASSUME VisitsSound, UNCHANGED <<wanted, hosted, visit, begun>>
  PROVE  VisitsSound'
<1>1. VisitsTypes'
  BY DEF VisitsSound, VisitsTypes
<1>2. \A h \in Visits : VisitSound(h)'
  BY VisitsFacts DEF VisitSound, Fits
<1>3. \A j \in 1 .. ServerRuns : RunSound(j)'
  BY VisitsFacts DEF RunSound, Fits
<1>4. \A f, g \in Visits : f # g /\ visit'[f].at # "idle" /\ visit'[g].at # "idle" =>
        Serverless' /\ visit'[f].run # visit'[g].run
  BY DEF VisitsSound, Serverless
<1> QED BY <1>1, <1>2, <1>3, <1>4 DEF VisitsSound

\* The request to the broker is the one operation of its stage.
LEMMA RequestSound ==
  ASSUME VisitsSound, UNCHANGED scenario, NEW h \in Visits, NEW run \in HostedRun,
         run = visit[h].copy, visit[h].at = "acting", run.status # "failed", run.stage \in PaidStages,
         begun' = [begun EXCEPT ![visit[h].run][KindOf(run.stage)] = @ + 1],
         visit' = [visit EXCEPT ![h].at = "waiting", ![h].copy.status = "running"],
         UNCHANGED <<hosted, lapsed>>
  PROVE  VisitsSound'
<1>1. PICK i \in DOMAIN hosted : i = visit[h].run
  BY VisitsFacts DEF VisitSound
<1>2. PICK kind \in Kinds : kind = KindOf(run.stage)
  BY DEF Kinds, KindOf
<1>3. i \in 1 .. ServerRuns /\ Fits(i, run) /\ hosted[i].marked /\ visit[h] \in VisitRecords
  BY <1>1, VisitsFacts DEF VisitSound
<1>4. kind \notin Earlier(run.stage)
  BY <1>2 DEF KindOf, Earlier, PaidStages
<1>5. begun[i][kind] = 0
  BY <1>3, <1>4 DEF Fits
<1>6. /\ begun' \in [1 .. ServerRuns -> [Kinds -> Nat]] /\ begun'[i][kind] = 1
      /\ \A k \in Kinds : k # kind => begun'[i][k] = begun[i][k]
      /\ \A j \in 1 .. ServerRuns : j # i => begun'[j] = begun[j]
  <2>1. begun' = [begun EXCEPT ![i] = [begun[i] EXCEPT ![kind] = begun[i][kind] + 1]]
    BY <1>1, <1>2
  <2>2. begun[i] \in [Kinds -> Nat]
    BY <1>3, VisitsFacts
  <2>3. [begun[i] EXCEPT ![kind] = begun[i][kind] + 1] = [begun[i] EXCEPT ![kind] = 1]
    BY <1>5
  <2>4. [begun[i] EXCEPT ![kind] = 1] \in [Kinds -> Nat]
    BY <2>2
  <2> QED BY <1>3, <2>1, <2>2, <2>3, <2>4, VisitsFacts
<1>7. PICK copy : copy = [run EXCEPT !.status = "running"]
  OBVIOUS
<1>8. copy \in HostedRun /\ copy.status = "running" /\ copy.stage = run.stage
      /\ copy.receipts = run.receipts
  BY <1>7 DEF HostedRun
<1>9. PICK v : v = [[visit[h] EXCEPT !.at = "waiting"] EXCEPT !.copy = copy]
  OBVIOUS
<1>10. v \in VisitRecords /\ v.at = "waiting" /\ v.run = i /\ v.copy = copy
  BY <1>1, <1>3, <1>8, <1>9 DEF VisitRecords
<1>11. visit' = [visit EXCEPT ![h] = v]
  BY <1>7, <1>9, VisitsFacts DEF VisitRecords
<1>12. visit' \in [Visits -> VisitRecords] /\ visit'[h] = v
       /\ \A g \in Visits : g # h => visit'[g] = visit[g]
  BY <1>10, <1>11, VisitsFacts
<1>13. VisitsTypes'
  BY <1>6, <1>12, VisitsFacts DEF VisitsTypes, VisitRecords
<1>14. \A k \in Kinds : begun'[i][k] = IF k \in Earlier(run.stage) \cup {kind} THEN 1 ELSE 0
  BY <1>3, <1>6 DEF Fits
<1>15. ASSUME NEW g \in Visits PROVE VisitSound(g)'
  <2>1. CASE g = h
    <3>1. visit'[g].at = "waiting" /\ visit'[g].run = i /\ visit'[g].copy = copy
      BY <1>10, <1>12, <2>1
    <3>2. copy.receipts = Earlier(copy.stage) \ {"report"}
      BY <1>3, <1>8 DEF Fits
    <3>3. \A k \in Kinds :
            begun'[i][k] = IF k \in Earlier(copy.stage) \cup {KindOf(copy.stage)} THEN 1 ELSE 0
      BY <1>2, <1>8, <1>14
    <3>4. i \in DOMAIN hosted' /\ hosted'[i].marked
      BY <1>1, <1>3
    <3> QED BY <1>8, <3>1, <3>2, <3>3, <3>4 DEF VisitSound
  <2>2. CASE visit[g].at = "idle" /\ g # h
    BY <1>12, <2>2 DEF VisitSound
  <2>3. CASE visit[g].at # "idle" /\ g # h
    <3>1. visit[g].run # i /\ VisitSound(g) /\ visit[g].run \in 1 .. ServerRuns
      BY <1>1, <2>3, VisitsFacts DEF VisitsSound, VisitSound
    <3>2. begun'[visit[g].run] = begun[visit[g].run]
      BY <1>6, <3>1
    <3> QED BY <1>12, <2>3, <3>1, <3>2 DEF VisitSound, Fits
  <2> QED BY <2>1, <2>2, <2>3
<1>16. \A f, g \in Visits : f # g /\ visit'[f].at # "idle" /\ visit'[g].at # "idle" =>
         Serverless' /\ visit'[f].run # visit'[g].run
  BY <1>1, <1>3, <1>10, <1>12 DEF VisitsSound, Serverless, scenario
<1>17. ASSUME NEW j \in 1 .. ServerRuns PROVE RunSound(j)'
  <2>1. RunSound(j)
    BY VisitsFacts
  <2>2. CASE j = i
    <3>1. \A k \in Kinds : begun'[i][k] <= 1
      BY <1>14
    <3> QED BY <1>1, <1>3, <2>2, <3>1 DEF RunSound
  <2>3. CASE j # i
    BY <1>6, <2>1, <2>3 DEF RunSound, Fits
  <2> QED BY <2>2, <2>3
<1> QED BY <1>13, <1>15, <1>16, <1>17 DEF VisitsSound

LEMMA AdvanceRunSound ==
  ASSUME VisitsSound, UNCHANGED scenario, NEW h \in Visits, AdvanceRun(h)
  PROVE  VisitsSound'
<1>1. PICK run : run = visit[h].copy
  OBVIOUS
<1>2. visit[h].at = "acting" /\ visit[h].at # "idle" /\ VisitSound(h)
  BY VisitsFacts DEF AdvanceRun, Acts
<1>3. run \in HostedRun /\ (run.status # "failed" => Fits(visit[h].run, run))
  BY <1>1, <1>2 DEF VisitSound
<1>4. CASE Saves(h, run)
  BY <1>2, <1>3, <1>4, SavesSound
<1>5. ASSUME run.status \notin Over, NEW stage \in {"discovery", "purchase"},
             run.stage \in {"mandate", "discovery"},
             Saves(h, [run EXCEPT !.status = "running", !.stage = stage])
      PROVE  VisitsSound'
  <2>1. PICK to : to = [run EXCEPT !.status = "running", !.stage = stage]
    OBVIOUS
  <2>2. to \in HostedRun /\ to.stage = stage /\ to.receipts = run.receipts
    BY <1>3, <2>1 DEF HostedRun, Stages
  <2>3. Fits(visit[h].run, to)
    BY <1>3, <1>5, <2>2 DEF Fits, Earlier, Over
  <2> QED BY <1>2, <1>5, <2>1, <2>2, <2>3, SavesSound
<1>6. ASSUME run.status \notin Over, NEW status \in {"failed", "awaiting_approval"},
             Saves(h, [run EXCEPT !.status = status])
      PROVE  VisitsSound'
  <2>1. PICK to : to = [run EXCEPT !.status = status]
    OBVIOUS
  <2>2. to \in HostedRun /\ to.stage = run.stage /\ to.receipts = run.receipts
    BY <1>3, <2>1 DEF HostedRun
  <2>3. Fits(visit[h].run, to)
    BY <1>3, <1>6, <2>2 DEF Fits, Over
  <2> QED BY <1>2, <1>6, <2>1, <2>2, <2>3, SavesSound
<1>7. CASE /\ run.status \notin Over /\ run.stage \in PaidStages
           /\ begun' = [begun EXCEPT ![visit[h].run][KindOf(run.stage)] = @ + 1]
           /\ visit' = [visit EXCEPT ![h].at = "waiting", ![h].copy.status = "running"]
           /\ UNCHANGED <<hosted, lapsed>>
  BY <1>1, <1>2, <1>3, <1>7, RequestSound DEF Over
<1>8. \/ Saves(h, run)
      \/ /\ run.status \notin Over /\ run.stage \in {"mandate", "discovery"}
         /\ \E stage \in {"discovery", "purchase"} :
              Saves(h, [run EXCEPT !.status = "running", !.stage = stage])
      \/ /\ run.status \notin Over
         /\ \E status \in {"failed", "awaiting_approval"} : Saves(h, [run EXCEPT !.status = status])
      \/ /\ run.status \notin Over /\ run.stage \in PaidStages
         /\ begun' = [begun EXCEPT ![visit[h].run][KindOf(run.stage)] = @ + 1]
         /\ visit' = [visit EXCEPT ![h].at = "waiting", ![h].copy.status = "running"]
         /\ UNCHANGED <<hosted, lapsed>>
  BY <1>1 DEF AdvanceRun
<1> QED BY <1>4, <1>5, <1>6, <1>7, <1>8

LEMMA HearBrokerSound ==
  ASSUME VisitsSound, UNCHANGED scenario, NEW h \in Visits, HearBroker(h)
  PROVE  VisitsSound'
<1>1. PICK run : run = visit[h].copy
  OBVIOUS
<1>2. PICK i : i = visit[h].run
  OBVIOUS
<1>3. visit[h].at = "waiting" /\ visit[h].at # "idle" /\ VisitSound(h)
  BY VisitsFacts DEF HearBroker
<1>4. /\ run \in HostedRun /\ run.stage \in PaidStages
      /\ \A k \in Kinds :
           begun[i][k] = IF k \in Earlier(run.stage) \cup {KindOf(run.stage)} THEN 1 ELSE 0
      /\ run.receipts = Earlier(run.stage) \ {"report"}
  BY <1>1, <1>2, <1>3 DEF VisitSound
<1>5. ASSUME NEW to \in HostedRun, to.status # "failed" => Fits(i, to), Saves(h, to)
      PROVE  VisitsSound'
  BY <1>2, <1>3, <1>5, SavesSound
<1>6. CASE Saves(h, [run EXCEPT !.status = "failed"])
  <2>1. PICK to : to = [run EXCEPT !.status = "failed"]
    OBVIOUS
  <2>2. to \in HostedRun /\ to.status = "failed"
    BY <1>4, <2>1 DEF HostedRun
  <2> QED BY <1>5, <1>6, <2>1, <2>2
<1>7. CASE run.stage = "purchase" /\ ~Saves(h, [run EXCEPT !.status = "failed"])
  <2>1. PICK to : to = [[run EXCEPT !.receipts = @ \cup {"data"}] EXCEPT !.stage = "report"]
    OBVIOUS
  <2>2. Saves(h, to)
    BY <1>1, <1>7, <2>1 DEF HearBroker, KindOf
  <2>3. to \in HostedRun /\ to.stage = "report" /\ to.receipts = run.receipts \cup {"data"}
    BY <1>4, <2>1 DEF HostedRun, Stages
  <2>4. Fits(i, to)
    BY <1>4, <1>7, <2>3 DEF Fits, Earlier, KindOf
  <2> QED BY <1>5, <2>2, <2>3, <2>4
<1>8. CASE run.stage = "report" /\ ~Saves(h, [run EXCEPT !.status = "failed"])
  <2>1. PICK to : to = [run EXCEPT !.stage = "verification"]
    OBVIOUS
  <2>2. Saves(h, to)
    BY <1>1, <1>8, <2>1 DEF HearBroker, KindOf
  <2>3. to \in HostedRun /\ to.stage = "verification" /\ to.receipts = run.receipts
    BY <1>4, <2>1 DEF HostedRun, Stages
  <2>4. Fits(i, to)
    BY <1>4, <1>8, <2>3 DEF Fits, Earlier, KindOf
  <2> QED BY <1>5, <2>2, <2>3, <2>4
<1>9. CASE run.stage = "verification" /\ ~Saves(h, [run EXCEPT !.status = "failed"])
  <2>1. PICK to, stop :
          /\ to = [[run EXCEPT !.receipts = @ \cup {"verify"}]
                     EXCEPT !.stage = "complete", !.status = "completed"]
          /\ stop = [[run EXCEPT !.receipts = @ \cup {"verify"}] EXCEPT !.status = "failed"]
    OBVIOUS
  <2>2. Saves(h, to) \/ Saves(h, stop)
    BY <1>1, <1>9, <2>1 DEF HearBroker, KindOf
  <2>3. to \in HostedRun /\ to.stage = "complete" /\ to.receipts = run.receipts \cup {"verify"}
    BY <1>4, <2>1 DEF HostedRun, Stages
  <2>4. stop \in HostedRun /\ stop.status = "failed"
    BY <1>4, <2>1 DEF HostedRun
  <2>5. Fits(i, to)
    BY <1>4, <1>9, <2>3 DEF Fits, Earlier, KindOf, Kinds
  <2> QED BY <1>5, <2>2, <2>3, <2>4, <2>5
<1> QED BY <1>4, <1>6, <1>7, <1>8, <1>9 DEF PaidStages

LEMMA ApproveRunSound ==
  ASSUME VisitsSound, UNCHANGED scenario, NEW h \in Visits, ApproveRun(h)
  PROVE  VisitsSound'
<1>1. PICK run : run = visit[h].copy
  OBVIOUS
<1>2. visit[h].at = "acting" /\ visit[h].at # "idle" /\ VisitSound(h)
  BY VisitsFacts DEF ApproveRun, Acts
<1>3. run \in HostedRun /\ (run.status # "failed" => Fits(visit[h].run, run))
  BY <1>1, <1>2 DEF VisitSound
<1>4. CASE Throws(h)
  BY <1>2, <1>4, ThrowsSound
<1>5. CASE /\ run.status = "awaiting_approval" /\ run.version < MaxVersions
           /\ Saves(h, [run EXCEPT !.status = "running", !.version = @ + 1])
  <2>1. PICK to : to = [run EXCEPT !.status = "running", !.version = @ + 1]
    OBVIOUS
  <2>2. run.version + 1 \in 1 .. MaxVersions
    BY <1>3, <1>5, VisitsFacts DEF HostedRun
  <2>3. to \in HostedRun /\ to.stage = run.stage /\ to.receipts = run.receipts
    BY <1>3, <2>1, <2>2 DEF HostedRun
  <2>4. Fits(visit[h].run, to)
    BY <1>3, <1>5, <2>3 DEF Fits
  <2> QED BY <1>2, <1>5, <2>1, <2>3, <2>4, SavesSound
<1> QED BY <1>1, <1>4, <1>5 DEF ApproveRun

LEMMA PauseRunSound ==
  ASSUME VisitsSound, UNCHANGED scenario, NEW h \in Visits, PauseRun(h)
  PROVE  VisitsSound'
<1>1. PICK run : run = visit[h].copy
  OBVIOUS
<1>2. visit[h].at = "acting" /\ visit[h].at # "idle" /\ VisitSound(h)
  BY VisitsFacts DEF PauseRun, Acts
<1>3. run \in HostedRun /\ (run.status # "failed" => Fits(visit[h].run, run))
  BY <1>1, <1>2 DEF VisitSound
<1>4. CASE Throws(h)
  BY <1>2, <1>4, ThrowsSound
<1>5. CASE /\ run.status # "failed"
           /\ Saves(h, [run EXCEPT !.status = IF @ = "paused" THEN "running" ELSE "paused"])
  <2>1. PICK to : to = [run EXCEPT !.status = IF @ = "paused" THEN "running" ELSE "paused"]
    OBVIOUS
  <2>2. to \in HostedRun /\ to.stage = run.stage /\ to.receipts = run.receipts
    BY <1>3, <2>1 DEF HostedRun
  <2>3. Fits(visit[h].run, to)
    BY <1>3, <1>5, <2>2 DEF Fits
  <2> QED BY <1>2, <1>5, <2>1, <2>2, <2>3, SavesSound
<1> QED BY <1>1, <1>4, <1>5 DEF PauseRun

LEMMA VisitsStep ==
  ASSUME VisitsSound, UNCHANGED scenario, VisitsNext
  PROVE  VisitsSound'
<1>1. ASSUME NEW v \in Visitors, InsertRun(v) PROVE VisitsSound'
  BY <1>1, InsertRunSound
<1>2. ASSUME NEW i \in DOMAIN hosted, TimePasses(i) PROVE VisitsSound'
  BY <1>2, VisitsRest DEF TimePasses, scenario
<1>3. ASSUME NEW i \in DOMAIN hosted, NEW h \in Visits, NEW does \in Does, TakeRun(h, i, does)
      PROVE  VisitsSound'
  BY <1>3, TakeRunSound
<1>4. ASSUME NEW h \in Visits,
             AdvanceRun(h) \/ HearBroker(h) \/ ApproveRun(h) \/ PauseRun(h) \/ VisitDies(h)
      PROVE  VisitsSound'
  BY <1>4, AdvanceRunSound, HearBrokerSound, ApproveRunSound, PauseRunSound, VisitDiesSound
<1> QED BY <1>1, <1>2, <1>3, <1>4 DEF VisitsNext

-----------------------------------------------------------------------------
(* Accounts.                                                               *)

LEMMA AccountsFacts ==
  ASSUME AccountsSound
  PROVE  /\ challenge \in Seq(Challenge) /\ session \in Seq(Session)
         /\ owner \in Seq(Wallets) /\ key \in Seq(Key) /\ call \in [Calls -> Call]
         /\ DOMAIN owner = 1 .. Len(owner) /\ Len(owner) \in Nat
         /\ DOMAIN key = 1 .. Len(key) /\ Len(key) \in Nat
         /\ DOMAIN challenge = 1 .. Len(challenge) /\ Len(challenge) \in Nat
         /\ DOMAIN session = 1 .. Len(session) /\ Len(session) \in Nat
         /\ SessionsSound /\ LocksHeld /\ QuotasHold
         /\ \A k \in DOMAIN key : key[k].agent \in DOMAIN owner
         /\ \A h \in Calls : CallSound(h)
         /\ AgentLimit \in Nat \ {0} /\ KeyLimit \in Nat \ {0}
BY AccountsAssumption DEF AccountsSound, AccountsTypes

LEMMA CountsAreFinite ==
  ASSUME AccountsSound
  PROVE  /\ \A w : IsFiniteSet(AgentsOf(w)) /\ Cardinality(AgentsOf(w)) \in Nat
         /\ \A a : IsFiniteSet(ActiveKeys(a)) /\ Cardinality(ActiveKeys(a)) \in Nat
<1>1. IsFiniteSet(1 .. Len(owner)) /\ IsFiniteSet(1 .. Len(key))
  BY AccountsFacts, FS_Interval
<1>2. ASSUME NEW w PROVE IsFiniteSet(AgentsOf(w)) /\ Cardinality(AgentsOf(w)) \in Nat
  <2>1. AgentsOf(w) \subseteq 1 .. Len(owner)
    BY AccountsFacts DEF AgentsOf
  <2> QED BY <1>1, <2>1, FS_Subset, FS_CardinalityType
<1>3. ASSUME NEW a PROVE IsFiniteSet(ActiveKeys(a)) /\ Cardinality(ActiveKeys(a)) \in Nat
  <2>1. ActiveKeys(a) \subseteq 1 .. Len(key)
    BY AccountsFacts DEF ActiveKeys
  <2> QED BY <1>1, <2>1, FS_Subset, FS_CardinalityType
<1> QED BY <1>2, <1>3

LEMMA NoCallIsCall == NoCall \in Call /\ NoCall.does = "none"
BY DEF NoCall, Call

LEMMA CallEnds ==
  ASSUME AccountsSound, NEW h \in Calls, call' = [call EXCEPT ![h] = NoCall]
  PROVE  /\ call' \in [Calls -> Call] /\ CallSound(h)' /\ LocksHeld'
         /\ \A g \in Calls : g # h => call'[g] = call[g]
         /\ call'[h].does = "none"
<1>1. /\ call' \in [Calls -> Call] /\ call'[h].does = "none"
      /\ \A g \in Calls : g # h => call'[g] = call[g]
  BY AccountsFacts, NoCallIsCall
<1>2. CallSound(h)'
  BY <1>1 DEF CallSound
<1>3. LocksHeld'
  BY <1>1, AccountsFacts DEF LocksHeld
<1> QED BY <1>1, <1>2, <1>3

\* A step of one call that writes nothing.
LEMMA CallChange ==
  ASSUME AccountsSound, UNCHANGED <<challenge, session, owner, key>>, call' \in [Calls -> Call],
         NEW h \in Calls, \A g \in Calls : g # h => call'[g] = call[g],
         CallSound(h)', LocksHeld'
  PROVE  AccountsSound'
<1>1. AccountsTypes' /\ SessionsSound' /\ QuotasHold'
  BY AccountsFacts DEF AccountsTypes, SessionsSound, OneSessionPerChallenge, QuotasHold, AgentsOf,
     ActiveKeys, Usable
<1>2. ASSUME NEW g \in Calls PROVE CallSound(g)'
  <2>1. CASE g # h
    <3>1. CallSound(g) /\ call'[g] = call[g]
      BY <2>1, AccountsFacts
    <3>2. \A w : AgentsOf(w)' = AgentsOf(w)
      BY DEF AgentsOf
    <3>3. \A a : ActiveKeys(a)' = ActiveKeys(a)
      BY DEF ActiveKeys, Usable
    <3>4. PICK c : c = call[g]
      OBVIOUS
    <3> QED BY <3>1, <3>2, <3>3, <3>4 DEF CallSound
  <2> QED BY <2>1
<1> QED BY <1>1, <1>2, AccountsFacts DEF AccountsSound

LEMMA CallLostSound ==
  ASSUME AccountsSound, NEW h \in Calls, CallLost(h)
  PROVE  AccountsSound'
<1>1. call' = [call EXCEPT ![h] = NoCall] /\ UNCHANGED <<challenge, session, owner, key>>
  BY DEF CallLost
<1> QED BY <1>1, CallEnds, CallChange

\* A call that reads or begins holds no lock yet.
LEMMA CallBegins ==
  ASSUME AccountsSound, UNCHANGED <<challenge, session, owner, key>>, NEW h \in Calls, NEW c \in Call,
         call' = [call EXCEPT ![h] = c], c.does \in {"redeem", "agent", "key"},
         c.does = "redeem" => c.on \in DOMAIN challenge,
         c.does = "agent" => c.wallet \in Wallets,
         c.does = "key" => c.on \in DOMAIN owner /\ c.wallet \in Wallets /\ owner[c.on] = c.wallet
  PROVE  AccountsSound'
<1>1. /\ call' \in [Calls -> Call] /\ call'[h] = c
      /\ \A g \in Calls : g # h => call'[g] = call[g]
  BY AccountsFacts
<1>2. CallSound(h)'
  BY <1>1 DEF CallSound
<1>3. LocksHeld'
  BY <1>1, AccountsFacts DEF LocksHeld
<1> QED BY <1>1, <1>2, <1>3, CallChange

LEMMA ReadChallengeSound ==
  ASSUME AccountsSound, NEW h \in Calls, NEW c \in DOMAIN challenge, NEW w \in Wallets,
         ReadChallenge(h, c, w)
  PROVE  AccountsSound'
<1>1. PICK d : d = [NoCall EXCEPT !.does = "redeem", !.on = c]
  OBVIOUS
<1>2. c \in Nat
  BY AccountsFacts
<1>3. d \in Call /\ d.does = "redeem" /\ d.on = c
  BY <1>1, <1>2 DEF NoCall, Call
<1> QED BY <1>1, <1>3, CallBegins DEF ReadChallenge

LEMMA BeginsSound ==
  ASSUME AccountsSound, NEW h \in Calls, NEW s \in DOMAIN session, NEW does \in {"agent", "key"},
         NEW a \in Nat, Begins(h, s, does, a),
         does = "key" => a \in DOMAIN owner /\ owner[a] = session[s].wallet
  PROVE  AccountsSound'
<1>1. PICK d : d = [NoCall EXCEPT !.does = does, !.on = a, !.wallet = session[s].wallet]
  OBVIOUS
<1>2. session[s].wallet \in Wallets
  <2>1. session[s] \in Session
    BY AccountsFacts
  <2> QED BY <2>1 DEF Session
<1>3. d \in Call /\ d.does = does /\ d.on = a /\ d.wallet = session[s].wallet
  BY <1>1, <1>2 DEF NoCall, Call
<1> QED BY <1>1, <1>2, <1>3, CallBegins DEF Begins

\* Who counts holds the lock until the row is inserted.
LEMMA CountSound ==
  ASSUME AccountsSound, NEW h \in Calls, Count(h)
  PROVE  AccountsSound'
<1>1. /\ call[h].does \in {"agent", "key"} /\ ~Locked(h)
      /\ UNCHANGED <<challenge, session, owner, key>>
      /\ call' = [call EXCEPT ![h].room = HasRoom(h),
                              ![h].does = IF @ = "agent" THEN "insert agent" ELSE "insert key"]
  BY DEF Count, Counted
<1>2. call[h] \in Call /\ CallSound(h)
  BY AccountsFacts
<1>3. HasRoom(h) \in BOOLEAN
  <2>1. (Cardinality(AgentsOf(call[h].wallet)) < AgentLimit) \in BOOLEAN
    BY AccountsFacts, CountsAreFinite
  <2>2. (Cardinality(ActiveKeys(call[h].on)) < KeyLimit) \in BOOLEAN
    BY AccountsFacts, CountsAreFinite
  <2> QED BY <2>1, <2>2 DEF HasRoom
<1>4. PICK room \in BOOLEAN : room = HasRoom(h)
  BY <1>3
<1>5. PICK c : c = [[call[h] EXCEPT !.room = room]
                      EXCEPT !.does = IF @ = "agent" THEN "insert agent" ELSE "insert key"]
  OBVIOUS
<1>6. /\ c \in Call /\ c.on = call[h].on /\ c.wallet = call[h].wallet /\ c.room = room
      /\ c.does = IF call[h].does = "agent" THEN "insert agent" ELSE "insert key"
  BY <1>2, <1>5 DEF Call
<1>7. call' = [call EXCEPT ![h] = c]
  BY <1>1, <1>2, <1>4, <1>5, AccountsFacts DEF Call
<1>8. /\ call' \in [Calls -> Call] /\ call'[h] = c
      /\ \A g \in Calls : g # h => call'[g] = call[g]
  BY <1>6, <1>7, AccountsFacts
<1>9. CASE call[h].does = "agent"
  <2>1. room => Cardinality(AgentsOf(c.wallet)) < AgentLimit
    BY <1>4, <1>6, <1>9 DEF HasRoom
  <2>2. CallSound(h)'
    <3>1. AgentsOf(c.wallet) = {a \in DOMAIN owner' : owner'[a] = c.wallet}
      BY <1>1 DEF AgentsOf
    <3>2. c.does = "insert agent" /\ c.wallet \in Wallets
      BY <1>2, <1>6, <1>9 DEF CallSound
    <3> QED BY <1>6, <1>8, <2>1, <3>1, <3>2 DEF CallSound, AgentsOf
  <2>3. \A g \in Calls : g # h /\ call[g].does = "insert agent" => call[g].wallet # c.wallet
    BY <1>1, <1>6, <1>9 DEF Locked
  <2>4. LocksHeld'
    <3>1. c.does = "insert agent" /\ LocksHeld
      BY <1>6, <1>9, AccountsFacts
    <3>2. ASSUME NEW f \in Calls, NEW g \in Calls, f # g
          PROVE  /\ call'[f].does = "insert agent" /\ call'[g].does = "insert agent" =>
                      call'[f].wallet # call'[g].wallet
                 /\ call'[f].does = "insert key" /\ call'[g].does = "insert key" =>
                      call'[f].on # call'[g].on
      <4>1. CASE f = h
        BY <1>8, <2>3, <3>1, <3>2, <4>1
      <4>2. CASE g = h
        BY <1>8, <2>3, <3>1, <3>2, <4>2
      <4>3. CASE f # h /\ g # h
        BY <1>8, <3>1, <3>2, <4>3 DEF LocksHeld
      <4> QED BY <4>1, <4>2, <4>3
    <3> QED BY <3>2 DEF LocksHeld
  <2> QED BY <1>1, <1>8, <2>2, <2>4, CallChange
<1>10. CASE call[h].does = "key"
  <2>1. room => Cardinality(ActiveKeys(c.on)) < KeyLimit
    BY <1>4, <1>6, <1>10 DEF HasRoom
  <2>2. CallSound(h)'
    <3>1. ActiveKeys(c.on) = {k \in DOMAIN key' : key'[k].agent = c.on /\ key'[k].state = "active"}
      BY <1>1 DEF ActiveKeys, Usable
    <3>2. /\ c.does = "insert key" /\ c.wallet \in Wallets
          /\ c.on \in DOMAIN owner' /\ owner'[c.on] = c.wallet
      BY <1>1, <1>2, <1>6, <1>10 DEF CallSound
    <3> QED BY <1>6, <1>8, <2>1, <3>1, <3>2 DEF CallSound, ActiveKeys, Usable
  <2>3. \A g \in Calls : g # h /\ call[g].does = "insert key" => call[g].on # c.on
    BY <1>1, <1>6, <1>10 DEF Locked
  <2>4. LocksHeld'
    <3>1. c.does = "insert key" /\ LocksHeld
      BY <1>6, <1>10, AccountsFacts
    <3>2. ASSUME NEW f \in Calls, NEW g \in Calls, f # g
          PROVE  /\ call'[f].does = "insert agent" /\ call'[g].does = "insert agent" =>
                      call'[f].wallet # call'[g].wallet
                 /\ call'[f].does = "insert key" /\ call'[g].does = "insert key" =>
                      call'[f].on # call'[g].on
      <4>1. CASE f = h
        BY <1>8, <2>3, <3>1, <3>2, <4>1
      <4>2. CASE g = h
        BY <1>8, <2>3, <3>1, <3>2, <4>2
      <4>3. CASE f # h /\ g # h
        BY <1>8, <3>1, <3>2, <4>3 DEF LocksHeld
      <4> QED BY <4>1, <4>2, <4>3
    <3> QED BY <3>2 DEF LocksHeld
  <2> QED BY <1>1, <1>8, <2>2, <2>4, CallChange
<1> QED BY <1>1, <1>9, <1>10

\* Challenges and sessions move on and nobody's agents or keys.
LEMMA SessionsChange ==
  ASSUME AccountsSound, UNCHANGED <<owner, key>>,
         challenge' \in Seq(Challenge), session' \in Seq(Session), call' \in [Calls -> Call],
         DOMAIN challenge \subseteq DOMAIN challenge', SessionsSound', LocksHeld',
         \A h \in Calls : call'[h] = call[h] \/ CallSound(h)'
  PROVE  AccountsSound'
<1>1. AccountsTypes' /\ QuotasHold'
  BY AccountsFacts DEF AccountsTypes, QuotasHold, AgentsOf, ActiveKeys, Usable
<1>2. ASSUME NEW g \in Calls PROVE CallSound(g)'
  <2>1. CASE call'[g] = call[g]
    <3>1. CallSound(g)
      BY AccountsFacts
    <3>2. \A w : AgentsOf(w)' = AgentsOf(w)
      BY DEF AgentsOf
    <3>3. \A a : ActiveKeys(a)' = ActiveKeys(a)
      BY DEF ActiveKeys, Usable
    <3>4. PICK c : c = call[g]
      OBVIOUS
    <3> QED BY <2>1, <3>1, <3>2, <3>3, <3>4 DEF CallSound
  <2> QED BY <2>1
<1> QED BY <1>1, <1>2, AccountsFacts DEF AccountsSound

LEMMA IssueChallengeSound ==
  ASSUME AccountsSound, NEW w \in Wallets, IssueChallenge(w)
  PROVE  AccountsSound'
<1>1. /\ challenge' = Append(challenge, [wallet |-> w, state |-> "live"])
      /\ UNCHANGED <<session, owner, key, call>>
  BY DEF IssueChallenge
<1>2. [wallet |-> w, state |-> "live"] \in Challenge
  BY DEF Challenge
<1>3. /\ challenge' \in Seq(Challenge) /\ DOMAIN challenge \subseteq DOMAIN challenge'
      /\ \A c \in DOMAIN challenge : challenge'[c] = challenge[c]
  BY <1>1, <1>2, AccountsFacts
<1>4. SessionsSound'
  BY <1>1, <1>3, AccountsFacts DEF SessionsSound, OneSessionPerChallenge
<1>5. LocksHeld' /\ session' \in Seq(Session) /\ call' \in [Calls -> Call]
  BY <1>1, AccountsFacts DEF LocksHeld
<1> QED BY <1>1, <1>3, <1>4, <1>5, SessionsChange

LEMMA ChallengeChanges ==
  ASSUME AccountsSound, NEW c \in DOMAIN challenge, NEW state \in {"used", "expired"},
         challenge' = [challenge EXCEPT ![c].state = state]
  PROVE  /\ challenge' \in Seq(Challenge) /\ DOMAIN challenge' = DOMAIN challenge
         /\ challenge'[c] = [wallet |-> challenge[c].wallet, state |-> state]
         /\ \A d \in DOMAIN challenge : d # c => challenge'[d] = challenge[d]
<1>1. challenge[c] \in Challenge
  BY AccountsFacts
<1>2. PICK d : d = [challenge[c] EXCEPT !.state = state]
  OBVIOUS
<1>3. d \in Challenge /\ d = [wallet |-> challenge[c].wallet, state |-> state]
  BY <1>1, <1>2 DEF Challenge
<1>4. challenge' = [challenge EXCEPT ![c] = d]
  BY <1>2
<1>5. /\ challenge' \in Seq(Challenge) /\ DOMAIN challenge' = DOMAIN challenge
      /\ challenge'[c] = d
      /\ \A e \in DOMAIN challenge : e # c => challenge'[e] = challenge[e]
  <2>1. challenge \in Seq(Challenge) /\ d \in Challenge
    BY <1>3, AccountsFacts
  <2> QED BY <1>4, <2>1
<1> QED BY <1>3, <1>5

\* The challenge of a session was used.
LEMMA UsedChallenges ==
  ASSUME AccountsSound, NEW s \in DOMAIN session
  PROVE  session[s].from \in DOMAIN challenge /\ challenge[session[s].from].state = "used"
<1>1. SessionsSound
  BY AccountsFacts
<1>2. challenge[session[s].from] = [wallet |-> session[s].wallet, state |-> "used"]
  BY <1>1 DEF SessionsSound, OneSessionPerChallenge
<1> QED BY <1>1, <1>2 DEF SessionsSound

LEMMA ChallengeExpiresSound ==
  ASSUME AccountsSound, NEW c \in DOMAIN challenge, ChallengeExpires(c)
  PROVE  AccountsSound'
<1>1. /\ challenge[c].state = "live" /\ challenge' = [challenge EXCEPT ![c].state = "expired"]
      /\ UNCHANGED <<session, owner, key, call>>
  BY DEF ChallengeExpires
<1>2. /\ challenge' \in Seq(Challenge) /\ DOMAIN challenge' = DOMAIN challenge
      /\ \A d \in DOMAIN challenge : d # c => challenge'[d] = challenge[d]
  BY <1>1, ChallengeChanges
<1>3. \A s \in DOMAIN session : session[s].from # c
  BY <1>1, UsedChallenges
<1>4. SessionsSound'
  BY <1>1, <1>2, <1>3, AccountsFacts DEF SessionsSound, OneSessionPerChallenge
<1>5. LocksHeld' /\ session' \in Seq(Session) /\ call' \in [Calls -> Call]
  BY <1>1, AccountsFacts DEF LocksHeld
<1> QED BY <1>1, <1>2, <1>4, <1>5, SessionsChange

\* The statement that consumes a challenge finds it unused, so no session is of it yet.
LEMMA RedeemChallengeSound ==
  ASSUME AccountsSound, NEW h \in Calls, RedeemChallenge(h)
  PROVE  AccountsSound'
<1>1. PICK c : c = call[h].on
  OBVIOUS
<1>2. /\ call[h].does = "redeem" /\ call' = [call EXCEPT ![h] = NoCall] /\ UNCHANGED <<owner, key>>
      /\ IF challenge[c].state = "live"
         THEN /\ challenge' = [challenge EXCEPT ![c].state = "used"]
              /\ session' = Append(session, [wallet |-> challenge[c].wallet, from |-> c, live |-> TRUE])
         ELSE UNCHANGED <<challenge, session>>
  BY <1>1 DEF RedeemChallenge, Unused
<1>3. c \in DOMAIN challenge /\ c \in Nat /\ challenge[c] \in Challenge
  <2>1. CallSound(h)
    BY AccountsFacts
  <2>2. c \in DOMAIN challenge
    BY <1>1, <1>2, <2>1 DEF CallSound
  <2> QED BY <2>2, AccountsFacts
<1>4. /\ call' \in [Calls -> Call] /\ CallSound(h)' /\ LocksHeld'
      /\ \A g \in Calls : g # h => call'[g] = call[g]
  BY <1>2, CallEnds
<1>5. CASE UNCHANGED <<challenge, session>>
  <2>1. SessionsSound' /\ challenge' \in Seq(Challenge) /\ session' \in Seq(Session)
    BY <1>5, AccountsFacts DEF SessionsSound, OneSessionPerChallenge
  <2> QED BY <1>2, <1>4, <1>5, <2>1, SessionsChange
<1>6. CASE /\ challenge[c].state = "live"
           /\ challenge' = [challenge EXCEPT ![c].state = "used"]
           /\ session' = Append(session, [wallet |-> challenge[c].wallet, from |-> c, live |-> TRUE])
  <2>1. /\ challenge' \in Seq(Challenge) /\ DOMAIN challenge' = DOMAIN challenge
        /\ challenge'[c] = [wallet |-> challenge[c].wallet, state |-> "used"]
        /\ \A d \in DOMAIN challenge : d # c => challenge'[d] = challenge[d]
    BY <1>3, <1>6, ChallengeChanges
  <2>2. PICK new : new = [wallet |-> challenge[c].wallet, from |-> c, live |-> TRUE]
    OBVIOUS
  <2>3. new \in Session /\ new.wallet = challenge[c].wallet /\ new.from = c
    BY <1>3, <2>2 DEF Session, Challenge
  <2>4. PICK n : n = Len(session) + 1
    OBVIOUS
  <2>5. /\ session' \in Seq(Session) /\ DOMAIN session' = DOMAIN session \cup {n}
        /\ session'[n] = new /\ \A s \in DOMAIN session : session'[s] = session[s]
    BY <1>6, <2>2, <2>3, <2>4, AccountsFacts
  <2>6. \A s \in DOMAIN session : session[s].from # c /\ session[s].from \in DOMAIN challenge
    BY <1>6, UsedChallenges
  <2>7. \A s \in DOMAIN session' : session'[s].from \in DOMAIN challenge'
    BY <1>3, <2>1, <2>3, <2>5, <2>6
  <2>8. OneSessionPerChallenge'
    <3>1. ASSUME NEW s \in DOMAIN session'
          PROVE  challenge'[session'[s].from] = [wallet |-> session'[s].wallet, state |-> "used"]
      <4>1. CASE s = n
        BY <2>1, <2>3, <2>5, <4>1
      <4>2. CASE s # n
        BY <2>1, <2>5, <2>6, <4>2, AccountsFacts DEF SessionsSound, OneSessionPerChallenge
      <4> QED BY <4>1, <4>2
    <3>2. ASSUME NEW s \in DOMAIN session', NEW r \in DOMAIN session',
                 session'[r].from = session'[s].from
          PROVE  r = s
      <4>1. CASE s = n \/ r = n
        BY <2>3, <2>5, <2>6, <3>2, <4>1
      <4>2. CASE s # n /\ r # n
        BY <2>5, <3>2, <4>2, AccountsFacts DEF SessionsSound, OneSessionPerChallenge
      <4> QED BY <4>1, <4>2
    <3> QED BY <3>1, <3>2 DEF OneSessionPerChallenge
  <2>9. SessionsSound'
    BY <2>7, <2>8 DEF SessionsSound
  <2> QED BY <1>2, <1>4, <2>1, <2>5, <2>9, SessionsChange
<1> QED BY <1>2, <1>5, <1>6

LEMMA SessionEndsSound ==
  ASSUME AccountsSound, NEW s \in DOMAIN session, SessionEnds(s)
  PROVE  AccountsSound'
<1>1. /\ session' = [session EXCEPT ![s].live = FALSE]
      /\ UNCHANGED <<challenge, owner, key, call>>
  BY DEF SessionEnds
<1>2. session[s] \in Session
  BY AccountsFacts
<1>3. PICK d : d = [session[s] EXCEPT !.live = FALSE]
  OBVIOUS
<1>4. d \in Session /\ d.wallet = session[s].wallet /\ d.from = session[s].from
  BY <1>2, <1>3 DEF Session
<1>5. session' = [session EXCEPT ![s] = d]
  BY <1>1, <1>3
<1>6. /\ session' \in Seq(Session) /\ DOMAIN session' = DOMAIN session
      /\ \A r \in DOMAIN session : session'[r].wallet = session[r].wallet
                                   /\ session'[r].from = session[r].from
  BY <1>4, <1>5, AccountsFacts
<1>7. SessionsSound'
  BY <1>1, <1>6, AccountsFacts DEF SessionsSound, OneSessionPerChallenge
<1>8. LocksHeld' /\ challenge' \in Seq(Challenge) /\ call' \in [Calls -> Call]
  BY <1>1, AccountsFacts DEF LocksHeld
<1> QED BY <1>1, <1>6, <1>7, <1>8, SessionsChange

\* An owner's new agent, within the limit that the locked count found room for.
LEMMA InsertAgentSound ==
  ASSUME AccountsSound, NEW h \in Calls, InsertAgent(h)
  PROVE  AccountsSound'
<1>1. PICK w : w = call[h].wallet
  OBVIOUS
<1>2. /\ call[h].does = "insert agent" /\ call' = [call EXCEPT ![h] = NoCall]
      /\ UNCHANGED <<challenge, session, key>>
      /\ \/ owner' = owner
         \/ call[h].room /\ owner' = Append(owner, w)
  BY <1>1 DEF InsertAgent
<1>3. /\ call' \in [Calls -> Call] /\ CallSound(h)' /\ LocksHeld'
      /\ \A g \in Calls : g # h => call'[g] = call[g]
  BY <1>2, CallEnds
<1>4. CASE owner' = owner
  BY <1>2, <1>3, <1>4, CallChange
<1>5. CASE call[h].room /\ owner' = Append(owner, w)
  <2>1. w \in Wallets /\ Cardinality(AgentsOf(w)) < AgentLimit
    <3>1. CallSound(h)
      BY AccountsFacts
    <3> QED BY <1>1, <1>2, <1>5, <3>1 DEF CallSound
  <2>2. PICK n : n = Len(owner) + 1
    OBVIOUS
  <2>3. /\ owner' \in Seq(Wallets) /\ DOMAIN owner' = DOMAIN owner \cup {n} /\ n \notin DOMAIN owner
        /\ owner'[n] = w /\ \A a \in DOMAIN owner : owner'[a] = owner[a]
    BY <1>5, <2>1, <2>2, AccountsFacts
  <2>4. \A v : AgentsOf(v)' = IF v = w THEN AgentsOf(v) \cup {n} ELSE AgentsOf(v)
    BY <2>3 DEF AgentsOf
  <2>5. n \notin AgentsOf(w) /\ IsFiniteSet(AgentsOf(w))
    BY <2>3, CountsAreFinite DEF AgentsOf
  <2>6. Cardinality(AgentsOf(w) \cup {n}) = Cardinality(AgentsOf(w)) + 1
    BY <2>5, FS_AddElement
  <2>7. \A v \in Wallets : Cardinality(AgentsOf(v))' <= AgentLimit
    <3>1. Cardinality(AgentsOf(w)) + 1 <= AgentLimit
      BY <2>1, CountsAreFinite, AccountsFacts
    <3>2. \A v \in Wallets : Cardinality(AgentsOf(v)) <= AgentLimit
      BY AccountsFacts DEF QuotasHold
    <3> QED BY <2>4, <2>6, <3>1, <3>2
  <2>8. \A a : ActiveKeys(a)' = ActiveKeys(a)
    BY <1>2 DEF ActiveKeys, Usable
  <2>9. Cardinality(ActiveKeys(n)) = 0
    <3>1. ActiveKeys(n) = {}
      BY <2>3, AccountsFacts DEF ActiveKeys
    <3> QED BY <3>1, FS_EmptySet
  <2>10. \A a \in DOMAIN owner' : Cardinality(ActiveKeys(a))' <= KeyLimit
    <3>1. \A a \in DOMAIN owner : Cardinality(ActiveKeys(a)) <= KeyLimit
      BY AccountsFacts DEF QuotasHold
    <3> QED BY <2>3, <2>8, <2>9, <3>1, AccountsFacts
  <2>11. \A k \in DOMAIN key : key[k].agent \in DOMAIN owner' /\ owner'[key[k].agent] = key[k].for
    BY <2>3, AccountsFacts DEF QuotasHold
  <2>12. QuotasHold'
    BY <1>2, <2>7, <2>10, <2>11 DEF QuotasHold
  <2>13. ASSUME NEW g \in Calls PROVE CallSound(g)'
    <3>1. CASE g = h
      BY <1>3, <3>1
    <3>2. CASE g # h
      <4>1. PICK c : c = call[g]
        OBVIOUS
      <4>2. call'[g] = c /\ CallSound(g)
        BY <1>3, <3>2, <4>1, AccountsFacts
      <4>3. c.does = "insert agent" => c.wallet # w
        BY <1>1, <1>2, <3>2, <4>1, AccountsFacts DEF LocksHeld
      <4>4. c.does = "insert agent" => AgentsOf(c.wallet)' = AgentsOf(c.wallet)
        BY <2>4, <4>3
      <4>5. /\ c.does = "redeem" => c.on \in DOMAIN challenge'
            /\ c.does \in {"agent", "insert agent"} => c.wallet \in Wallets
            /\ c.does \in {"key", "insert key"} =>
                 c.on \in DOMAIN owner' /\ c.wallet \in Wallets /\ owner'[c.on] = c.wallet
        BY <1>2, <2>3, <4>1, <4>2 DEF CallSound
      <4>6. /\ c.does = "insert agent" /\ c.room => Cardinality(AgentsOf(c.wallet))' < AgentLimit
            /\ c.does = "insert key" /\ c.room => Cardinality(ActiveKeys(c.on))' < KeyLimit
        BY <2>8, <4>1, <4>2, <4>4 DEF CallSound
      <4> QED BY <4>2, <4>5, <4>6 DEF CallSound
    <3> QED BY <3>1, <3>2
  <2>14. AccountsTypes' /\ SessionsSound'
    BY <1>2, <1>3, <2>3, AccountsFacts DEF AccountsTypes, SessionsSound, OneSessionPerChallenge
  <2> QED BY <1>2, <1>3, <2>11, <2>12, <2>13, <2>14 DEF AccountsSound
<1> QED BY <1>2, <1>4, <1>5

\* An agent's new key; the other calls that counted are for other agents.
LEMMA InsertKeySound ==
  ASSUME AccountsSound, NEW h \in Calls, InsertKey(h)
  PROVE  AccountsSound'
<1>1. PICK a, w : a = call[h].on /\ w = call[h].wallet
  OBVIOUS
<1>2. PICK new : new = [agent |-> a, for |-> w, state |-> "active"]
  OBVIOUS
<1>3. /\ call[h].does = "insert key" /\ call' = [call EXCEPT ![h] = NoCall]
      /\ UNCHANGED <<challenge, session, owner>>
      /\ \/ key' = key
         \/ call[h].room /\ key' = Append(key, new)
  BY <1>1, <1>2 DEF InsertKey
<1>4. /\ call' \in [Calls -> Call] /\ CallSound(h)' /\ LocksHeld'
      /\ \A g \in Calls : g # h => call'[g] = call[g]
  BY <1>3, CallEnds
<1>5. CASE key' = key
  BY <1>3, <1>4, <1>5, CallChange
<1>6. CASE call[h].room /\ key' = Append(key, new)
  <2>1. a \in DOMAIN owner /\ w \in Wallets /\ owner[a] = w /\ Cardinality(ActiveKeys(a)) < KeyLimit
    <3>1. CallSound(h)
      BY AccountsFacts
    <3> QED BY <1>1, <1>3, <1>6, <3>1 DEF CallSound
  <2>2. new \in Key /\ new.agent = a /\ new.for = w /\ new.state = "active"
    BY <1>2, <2>1, AccountsFacts DEF Key
  <2>3. PICK n : n = Len(key) + 1
    OBVIOUS
  <2>4. /\ key' \in Seq(Key) /\ DOMAIN key' = DOMAIN key \cup {n} /\ n \notin DOMAIN key
        /\ key'[n] = new /\ \A k \in DOMAIN key : key'[k] = key[k]
    BY <1>6, <2>2, <2>3, AccountsFacts
  <2>5. \A b : ActiveKeys(b)' = IF b = a THEN ActiveKeys(b) \cup {n} ELSE ActiveKeys(b)
    BY <2>2, <2>4 DEF ActiveKeys, Usable
  <2>6. n \notin ActiveKeys(a) /\ IsFiniteSet(ActiveKeys(a))
    BY <2>4, CountsAreFinite DEF ActiveKeys
  <2>7. Cardinality(ActiveKeys(a) \cup {n}) = Cardinality(ActiveKeys(a)) + 1
    BY <2>6, FS_AddElement
  <2>8. \A b \in DOMAIN owner : Cardinality(ActiveKeys(b))' <= KeyLimit
    <3>1. Cardinality(ActiveKeys(a)) + 1 <= KeyLimit
      BY <2>1, CountsAreFinite, AccountsFacts
    <3>2. \A b \in DOMAIN owner : Cardinality(ActiveKeys(b)) <= KeyLimit
      BY AccountsFacts DEF QuotasHold
    <3> QED BY <2>5, <2>7, <3>1, <3>2
  <2>9. \A v : AgentsOf(v)' = AgentsOf(v)
    BY <1>3 DEF AgentsOf
  <2>10. \A k \in DOMAIN key' : key'[k].agent \in DOMAIN owner /\ owner[key'[k].agent] = key'[k].for
    BY <2>1, <2>2, <2>4, AccountsFacts DEF QuotasHold
  <2>11. QuotasHold'
    BY <1>3, <2>8, <2>9, <2>10, AccountsFacts DEF QuotasHold
  <2>12. ASSUME NEW g \in Calls PROVE CallSound(g)'
    <3>1. CASE g = h
      BY <1>4, <3>1
    <3>2. CASE g # h
      <4>1. PICK c : c = call[g]
        OBVIOUS
      <4>2. call'[g] = c /\ CallSound(g)
        BY <1>4, <3>2, <4>1, AccountsFacts
      <4>3. c.does = "insert key" => c.on # a
        BY <1>1, <1>3, <3>2, <4>1, AccountsFacts DEF LocksHeld
      <4>4. c.does = "insert key" => ActiveKeys(c.on)' = ActiveKeys(c.on)
        BY <2>5, <4>3
      <4>5. /\ c.does = "redeem" => c.on \in DOMAIN challenge'
            /\ c.does \in {"agent", "insert agent"} => c.wallet \in Wallets
            /\ c.does \in {"key", "insert key"} =>
                 c.on \in DOMAIN owner' /\ c.wallet \in Wallets /\ owner'[c.on] = c.wallet
        BY <1>3, <4>1, <4>2 DEF CallSound
      <4>6. /\ c.does = "insert agent" /\ c.room => Cardinality(AgentsOf(c.wallet))' < AgentLimit
            /\ c.does = "insert key" /\ c.room => Cardinality(ActiveKeys(c.on))' < KeyLimit
        BY <2>9, <4>1, <4>2, <4>4 DEF CallSound
      <4> QED BY <4>2, <4>5, <4>6 DEF CallSound
    <3> QED BY <3>1, <3>2
  <2>13. AccountsTypes' /\ SessionsSound'
    BY <1>3, <1>4, <2>4, AccountsFacts DEF AccountsTypes, SessionsSound, OneSessionPerChallenge
  <2> QED BY <1>3, <1>4, <2>10, <2>11, <2>12, <2>13 DEF AccountsSound
<1> QED BY <1>3, <1>5, <1>6

\* A key that is revoked or expires makes room and never takes any.
LEMMA KeyEndsSound ==
  ASSUME AccountsSound, NEW k \in DOMAIN key, NEW state \in {"revoked", "expired"},
         key' = [key EXCEPT ![k].state = state], UNCHANGED <<challenge, session, owner, call>>
  PROVE  AccountsSound'
<1>1. key[k] \in Key
  BY AccountsFacts
<1>2. PICK d : d = [key[k] EXCEPT !.state = state]
  OBVIOUS
<1>3. d \in Key /\ d.agent = key[k].agent /\ d.for = key[k].for /\ d.state = state
  BY <1>1, <1>2 DEF Key
<1>4. key' = [key EXCEPT ![k] = d]
  BY <1>2
<1>5. /\ key' \in Seq(Key) /\ DOMAIN key' = DOMAIN key /\ key'[k] = d
      /\ \A j \in DOMAIN key : j # k => key'[j] = key[j]
  <2>1. key \in Seq(Key) /\ d \in Key
    BY <1>3, AccountsFacts
  <2> QED BY <1>4, <2>1
<1>6. \A a : ActiveKeys(a)' \subseteq ActiveKeys(a)
  BY <1>3, <1>5 DEF ActiveKeys, Usable
<1>7. \A a : Cardinality(ActiveKeys(a)') <= Cardinality(ActiveKeys(a))
            /\ Cardinality(ActiveKeys(a)') \in Nat /\ Cardinality(ActiveKeys(a)) \in Nat
  <2> SUFFICES ASSUME NEW a
               PROVE  /\ Cardinality(ActiveKeys(a)') <= Cardinality(ActiveKeys(a))
                      /\ Cardinality(ActiveKeys(a)') \in Nat /\ Cardinality(ActiveKeys(a)) \in Nat
    OBVIOUS
  <2>1. IsFiniteSet(ActiveKeys(a)) /\ Cardinality(ActiveKeys(a)) \in Nat
    BY CountsAreFinite
  <2>2. IsFiniteSet(ActiveKeys(a)') /\ Cardinality(ActiveKeys(a)') <= Cardinality(ActiveKeys(a))
    BY <1>6, <2>1, FS_Subset
  <2> QED BY <2>1, <2>2, FS_CardinalityType
<1>8. \A w : AgentsOf(w)' = AgentsOf(w)
  BY DEF AgentsOf
<1>9. \A j \in DOMAIN key' : key'[j].agent \in DOMAIN owner /\ owner[key'[j].agent] = key'[j].for
  BY <1>3, <1>5, AccountsFacts DEF QuotasHold
<1>10. QuotasHold'
  <2>1. QuotasHold /\ KeyLimit \in Nat
    BY AccountsFacts
  <2>2. \A a \in DOMAIN owner : Cardinality(ActiveKeys(a)') <= KeyLimit
    BY <1>7, <2>1 DEF QuotasHold
  <2> QED BY <1>8, <1>9, <2>1, <2>2 DEF QuotasHold
<1>11. ASSUME NEW g \in Calls PROVE CallSound(g)'
  <2>1. PICK c : c = call[g]
    OBVIOUS
  <2>2. CallSound(g) /\ call'[g] = c /\ KeyLimit \in Nat
    BY <2>1, AccountsFacts
  <2>3. c.does = "insert key" /\ c.room => Cardinality(ActiveKeys(c.on)') < KeyLimit
    <3>1. c.does = "insert key" /\ c.room => Cardinality(ActiveKeys(c.on)) < KeyLimit
      BY <2>1, <2>2 DEF CallSound
    <3>2. /\ Cardinality(ActiveKeys(c.on)') <= Cardinality(ActiveKeys(c.on))
          /\ Cardinality(ActiveKeys(c.on)') \in Nat /\ Cardinality(ActiveKeys(c.on)) \in Nat
      BY <1>7
    <3>3. \A m, n \in Nat : m <= n /\ n < KeyLimit => m < KeyLimit
      BY <2>2
    <3> QED BY <3>1, <3>2, <3>3
  <2>4. AgentsOf(c.wallet)' = AgentsOf(c.wallet)
    BY <1>8
  <2> QED BY <2>1, <2>2, <2>3, <2>4 DEF CallSound
<1>12. AccountsTypes' /\ SessionsSound' /\ LocksHeld'
  BY <1>5, AccountsFacts DEF AccountsTypes, SessionsSound, OneSessionPerChallenge, LocksHeld
<1> QED BY <1>5, <1>9, <1>10, <1>11, <1>12 DEF AccountsSound

LEMMA AccountsStep ==
  ASSUME AccountsSound, AccountsNext
  PROVE  AccountsSound'
<1>1. ASSUME NEW w \in Wallets, IssueChallenge(w) PROVE AccountsSound'
  BY <1>1, IssueChallengeSound
<1>2. ASSUME NEW c \in DOMAIN challenge, ChallengeExpires(c) PROVE AccountsSound'
  BY <1>2, ChallengeExpiresSound
<1>3. ASSUME NEW s \in DOMAIN session, SessionEnds(s) PROVE AccountsSound'
  BY <1>3, SessionEndsSound
<1>4. ASSUME NEW s \in DOMAIN session, NEW k \in DOMAIN key, RevokeKey(s, k) PROVE AccountsSound'
  BY <1>4, KeyEndsSound DEF RevokeKey
<1>5. ASSUME NEW k \in DOMAIN key, KeyExpires(k) PROVE AccountsSound'
  BY <1>5, KeyEndsSound DEF KeyExpires
<1>6. ASSUME NEW h \in Calls, NEW c \in DOMAIN challenge, NEW w \in Wallets, ReadChallenge(h, c, w)
      PROVE  AccountsSound'
  BY <1>6, ReadChallengeSound
<1>7. ASSUME NEW h \in Calls, NEW s \in DOMAIN session, Begins(h, s, "agent", 0)
      PROVE  AccountsSound'
  BY <1>7, BeginsSound
<1>8. ASSUME NEW h \in Calls, NEW s \in DOMAIN session, NEW a \in DOMAIN owner, IssueKey(h, s, a)
      PROVE  AccountsSound'
  <2>1. a \in Nat
    BY AccountsFacts
  <2> QED BY <1>8, <2>1, BeginsSound DEF IssueKey
<1>9. ASSUME NEW h \in Calls,
             RedeemChallenge(h) \/ Count(h) \/ InsertAgent(h) \/ InsertKey(h) \/ CallLost(h)
      PROVE  AccountsSound'
  BY <1>9, RedeemChallengeSound, CountSound, InsertAgentSound, InsertKeySound, CallLostSound
<1> QED BY <1>1, <1>2, <1>3, <1>4, <1>5, <1>6, <1>7, <1>8, <1>9 DEF AccountsNext

LEMMA AccountsRest ==
  ASSUME AccountsSound, UNCHANGED accounts
  PROVE  AccountsSound'
<1>1. UNCHANGED <<challenge, session, owner, key, call>>
  BY DEF accounts
<1>2. /\ challenge' \in Seq(Challenge) /\ session' \in Seq(Session) /\ call' \in [Calls -> Call]
      /\ SessionsSound' /\ LocksHeld'
  BY <1>1, AccountsFacts DEF SessionsSound, OneSessionPerChallenge, LocksHeld
<1> QED BY <1>1, <1>2, SessionsChange

-----------------------------------------------------------------------------
(* The invariant.                                                          *)

LEMMA NothingNumbered == Cardinality({}) = 0 /\ Numbered({})
<1>1. Cardinality({}) = 0
  BY FS_EmptySet
<1> QED BY <1>1 DEF Numbered

LEMMA JobsInitSound ==
  ASSUME JobsInit
  PROVE  JobsSound /\ \A i \in Jobs : job[i].status = "none"
<1>1. /\ runner = [r \in Runners |-> [paired |-> "no", seen |-> FALSE]]
      /\ mandate = [m \in Mandates |->
           [made |-> FALSE, approved |-> FALSE, revoked |-> FALSE, live |-> TRUE,
            terms |-> 0, reserved |-> 0]]
      /\ job = [i \in Jobs |->
           [status |-> "none", mandate |-> None, runner |-> None, result |-> None]]
      /\ revisions = <<TRUE>>
  BY DEF JobsInit
<1>2. Created = {} /\ Made = {} /\ EverPaired = {}
  BY <1>1 DEF Created, Made, EverPaired
<1>3. JobsTypeOK
  <2>1. MaxRevisions \in Nat \ {0}
    BY RunnerJobsAssumption
  <2>2. revisions \in Seq(BOOLEAN) /\ Len(revisions) = 1
    BY <1>1
  <2> QED BY <1>1, <2>1, <2>2 DEF JobsTypeOK, Statuses
<1>4. JobsNumbered
  BY <1>2, NothingNumbered DEF JobsNumbered
<1>5. OneActiveMandate
  BY <1>1 DEF OneActiveMandate, Approved
<1>6. \A i \in Jobs : JobSound(i)
  BY <1>1, <1>2 DEF JobSound
<1>7. ASSUME NEW m \in Mandates PROVE MandateSound(m)
  <2>1. JobsOf(m) = {}
    BY <1>2 DEF JobsOf
  <2>2. MaxRuns[m] \in Nat
    BY RunnerJobsAssumption DEF Mandates
  <2>3. Len(revisions) = 1
    BY <1>1
  <2> QED BY <1>1, <2>1, <2>2, <2>3, NothingNumbered DEF MandateSound
<1> QED BY <1>1, <1>3, <1>4, <1>5, <1>6, <1>7 DEF JobsSound

LEMMA MarketInitSound ==
  ASSUME MarketInit
  PROVE  MarketSound
<1>1. /\ order = [i \in Jobs |-> [status |-> "none", open |-> TRUE, token |-> 0,
                                  leased |-> FALSE, attempts |-> 0]]
      /\ attempt = [h \in Handlers |-> Served]
      /\ transfer = [i \in Jobs |-> "none"]
  BY DEF MarketInit
<1>2. MarketTypeOK
  BY <1>1, ServedIsRecord DEF MarketTypeOK, AttemptRecords
<1>3. \A h \in Handlers : attempt[h].at = "idle" /\ attempt[h].by = "gone" /\ ~attempt[h].ok
  BY <1>1, ServedIsRecord
<1>4. TokensDiffer /\ AttemptsExclude /\ OrdersArePaid
  BY <1>1, <1>3 DEF TokensDiffer, AttemptsExclude, OrdersArePaid, Asks
<1>5. \A h \in Handlers : AttemptSound(h)
  BY <1>3 DEF AttemptSound, Asks
<1> QED BY <1>1, <1>2, <1>4, <1>5 DEF MarketSound

LEMMA BrokerInitSound ==
  ASSUME BrokerInit, MarketInit
  PROVE  BrokerSound /\ \A i \in Jobs, k \in Kinds : Untouched(i, k)
<1>1. /\ broker = [at |-> "off", job |-> 1, kind |-> "data", tries |-> 0]
      /\ brokerLock = "free" /\ asked = {} /\ bought = {}
      /\ intent = [i \in Jobs |-> [k \in Kinds |-> "none"]]
      /\ checkpoint = [i \in Jobs |-> "none"]
  BY DEF BrokerInit
<1>2. 1 \in Jobs /\ "data" \in Kinds /\ "verify" \in Kinds
  BY RunnerJobsAssumption DEF Jobs, Kinds
<1>3. BrokerTypeOK
  BY <1>1, <1>2 DEF BrokerTypeOK, Operations, Checkpoints
<1>4. Listens
  BY <1>2, ServedIsRecord DEF MarketInit, Listens
<1>5. OperationSound
  BY <1>1 DEF OperationSound, Operations, Verifying
<1>6. BudgetKept
  <2>1. ASSUME NEW k \in {"data", "verify"} PROVE Reserved(k) <= Budget[k]
    <3>1. {i \in Jobs : intent[i][k] # "none"} = {}
      BY <1>1 DEF Kinds
    <3>2. Budget[k] \in Nat
      BY BrokerAssumption
    <3> QED BY <3>1, <3>2, NothingNumbered DEF Reserved
  <2> QED BY <2>1 DEF BudgetKept
<1>7. \A i \in Jobs : IntentSound(i)
  BY <1>1, <1>2 DEF MarketInit, IntentSound
<1>8. \A i \in Jobs, k \in Kinds : Untouched(i, k)
  BY <1>1 DEF Untouched
<1> QED BY <1>3, <1>4, <1>5, <1>6, <1>7, <1>8 DEF BrokerSound

LEMMA HostInitSound ==
  ASSUME HostInit, \A i \in Jobs, k \in Kinds : Untouched(i, k), \A i \in Jobs : job[i].status = "none"
  PROVE  HostSound /\ LateSound
<1>1. /\ host = [at |-> "off", job |-> 1, runner |-> None, run |-> createRun]
      /\ hostLock = "free" /\ stopping = FALSE
      /\ disk = [i \in Jobs |-> [state |-> "none", run |-> createRun]]
      /\ late = [i \in Jobs |-> 0]
  BY DEF HostInit
<1>2. 1 \in Jobs
  BY RunnerJobsAssumption DEF Jobs
<1>3. HostTypeOK
  BY <1>1, <1>2, CreateRunIsRun DEF HostTypeOK
<1>4. CycleSound
  BY <1>1 DEF CycleSound, At, Executing
<1>5. \A i \in Jobs : DiskSound(i) /\ StatusSound(i)
  BY <1>1 DEF DiskSound, StatusSound
<1>6. LateSound
  BY <1>1 DEF LateSound, At
<1> QED BY <1>3, <1>4, <1>5, <1>6 DEF HostSound

LEMMA VisitsInitSound ==
  ASSUME VisitsInit
  PROVE  VisitsSound
<1>1. /\ hosted = <<>> /\ visit = [h \in Visits |-> NoVisit]
      /\ begun = [i \in 1 .. ServerRuns |-> [k \in Kinds |-> 0]]
  BY DEF VisitsInit
<1>2. VisitsTypes
  <2>1. visit \in [Visits -> VisitRecords]
    BY <1>1, NoVisitIsRecord
  <2>2. hosted \in Seq(HostedRun) /\ Len(hosted) = 0 /\ ServerRuns \in Nat
    BY <1>1, HostedAssumption
  <2> QED BY <1>1, <2>1, <2>2 DEF VisitsTypes, VisitRecords
<1>3. \A h \in Visits : visit[h].at = "idle"
  BY <1>1, NoVisitIsRecord
<1>4. \A i \in 1 .. ServerRuns : RunSound(i)
  BY <1>1 DEF RunSound
<1>5. \A h \in Visits : VisitSound(h)
  BY <1>3 DEF VisitSound
<1> QED BY <1>2, <1>3, <1>4, <1>5 DEF VisitsSound

LEMMA AccountsInitSound ==
  ASSUME AccountsInit
  PROVE  AccountsSound
<1>1. /\ challenge = <<>> /\ session = <<>> /\ owner = <<>> /\ key = <<>>
      /\ call = [h \in Calls |-> NoCall]
  BY DEF AccountsInit
<1>2. \A h \in Calls : call[h].does = "none"
  BY <1>1, NoCallIsCall
<1>3. DOMAIN session = {} /\ DOMAIN owner = {} /\ DOMAIN key = {}
  BY <1>1
<1>4. AccountsTypes
  <2>1. call \in [Calls -> Call]
    BY <1>1, NoCallIsCall
  <2> QED BY <1>1, <2>1 DEF AccountsTypes
<1>5. SessionsSound
  BY <1>3 DEF SessionsSound, OneSessionPerChallenge
<1>6. LocksHeld /\ \A h \in Calls : CallSound(h)
  BY <1>2 DEF LocksHeld, CallSound
<1>7. QuotasHold
  <2>1. \A w : AgentsOf(w) = {}
    BY <1>3 DEF AgentsOf
  <2>2. AgentLimit \in Nat
    BY AccountsAssumption
  <2>3. \A w \in Wallets : Cardinality(AgentsOf(w)) <= AgentLimit
    BY <2>1, <2>2, NothingNumbered
  <2> QED BY <1>3, <2>3 DEF QuotasHold
<1> QED BY <1>3, <1>4, <1>5, <1>6, <1>7 DEF AccountsSound

LEMMA InitSound == Init => IInv
<1> SUFFICES ASSUME Init PROVE IInv
  OBVIOUS
<1>1. JobsInit /\ MarketInit /\ BrokerInit /\ HostInit /\ VisitsInit /\ AccountsInit
  BY DEF Init
<1>2. WorkSound
  BY <1>1, JobsInitSound, MarketInitSound, BrokerInitSound, HostInitSound DEF WorkSound
<1> QED BY <1>1, <1>2, VisitsInitSound, AccountsInitSound DEF IInv

LEMMA NextSound == IInv /\ [Next]_vars => IInv'
<1> SUFFICES ASSUME IInv, [Next]_vars PROVE IInv'
  OBVIOUS
<1>1. WorkSound /\ VisitsSound /\ AccountsSound
  BY DEF IInv
<1>2. ASSUME Apart, Platform \/ Market \/ Brokers \/ Hosts \/ Settles PROVE IInv'
  <2>1. UNCHANGED <<visitVars, accounts>>
    BY <1>2 DEF Apart
  <2>2. WorkSound'
    BY <1>1, <1>2, PlatformStep, MarketStep, BrokerStep, HostsStep, WorkRests DEF Settles
  <2>3. VisitsSound'
    <3>1. UNCHANGED <<hosted, visit, begun, wanted>>
      BY <1>2, <2>1 DEF visitVars, Platform, Market, Brokers, Hosts, Settles, scenario
    <3> QED BY <1>1, <3>1, VisitsRest
  <2> QED BY <1>1, <2>1, <2>2, <2>3, AccountsRest DEF IInv
<1>3. ASSUME AccountsNext, UNCHANGED <<scenario, working, visitVars>> PROVE IInv'
  <2>1. VisitsSound'
    BY <1>1, <1>3, VisitsRest DEF visitVars, scenario
  <2> QED BY <1>1, <1>3, <2>1, WorkRests, AccountsStep DEF IInv
<1>4. ASSUME VisitsNext, UNCHANGED <<scenario, working, accounts>> PROVE IInv'
  BY <1>1, <1>4, WorkRests, VisitsStep, AccountsRest DEF IInv
<1>5. CASE UNCHANGED vars
  <2>1. UNCHANGED <<scenario, working, visitVars, accounts>>
    BY <1>5 DEF vars
  <2>2. VisitsSound'
    BY <1>1, <2>1, VisitsRest DEF visitVars, scenario
  <2> QED BY <1>1, <2>1, <2>2, WorkRests, AccountsRest DEF IInv
<1> QED BY <1>2, <1>3, <1>4, <1>5 DEF Next

-----------------------------------------------------------------------------
(* What the invariant means.                                               *)

LEMMA TypesHold == IInv => TypeOK
<1> SUFFICES ASSUME IInv PROVE TypeOK
  OBVIOUS
<1>1. JobsTypeOK /\ MarketTypeOK /\ BrokerTypeOK /\ HostTypeOK
  BY DEF IInv, WorkSound, JobsSound, MarketSound, BrokerSound, HostSound
<1>2. VisitsTypeOK
  <2>1. \A i \in DOMAIN hosted : hosted[i] \in HostedRun
    BY VisitsFacts DEF IInv
  <2>2. \A h \in Visits : visit[h] \in VisitRecords
    BY VisitsFacts DEF IInv
  <2> QED BY <2>1, <2>2 DEF VisitsTypeOK, HostedRun, VisitRecords
<1>3. AccountsTypeOK
  <2>1. \A c \in DOMAIN challenge : challenge[c] \in Challenge
    BY AccountsFacts DEF IInv
  <2>2. \A h \in Calls : call[h] \in Call
    BY AccountsFacts DEF IInv
  <2> QED BY <2>1, <2>2 DEF AccountsTypeOK, Challenge, Call
<1> QED BY <1>1, <1>2, <1>3 DEF TypeOK

LEMMA AuthorityHolds == IInv => AuthorityIsKept
<1> SUFFICES ASSUME IInv PROVE AuthorityIsKept
  OBVIOUS
<1>1. OneSessionPerChallenge /\ QuotasHold
  BY DEF IInv, AccountsSound, SessionsSound
<1>2. OneActiveMandate /\ RunsAreReserved
  BY DEF IInv, WorkSound, JobsSound, MandateSound, RunsAreReserved, JobsOf
<1>3. LateIsOne
  BY DEF IInv, WorkSound, LateSound, LateIsOne
<1> QED BY <1>1, <1>2, <1>3 DEF AuthorityIsKept

LEMMA MoneyHolds == BrokerSound => MoneyIsJournalled
<1> SUFFICES ASSUME BrokerSound PROVE MoneyIsJournalled
  OBVIOUS
<1>1. "data" \in Kinds /\ "verify" \in Kinds
  BY DEF Kinds
<1>2. \A i \in bought : intent[i]["data"] # "none"
  BY BrokerFacts DEF IntentSound
<1>3. \A i \in Jobs : transfer[i] # "none" =>
        /\ intent[i]["verify"] # "none" /\ i \in bought
        /\ AtMarket(i) => order[i].status # "none"
                          /\ checkpoint[i] \notin {"none", "quoted"}
  BY <1>1, BrokerFacts DEF IntentSound
<1> QED BY <1>2, <1>3, BrokerFacts DEF MoneyIsJournalled, BudgetKept

LEMMA StatusHolds == WorkSound => StatusIsTrue
<1> SUFFICES ASSUME WorkSound PROVE StatusIsTrue
  OBVIOUS
<1> SUFFICES ASSUME NEW i \in Jobs
             PROVE  /\ job[i].status = "succeeded" =>
                         /\ i \in bought /\ \A k \in Kinds : intent[i][k] = "settled"
                         /\ AtMarket(i) => order[i].status = "fulfilled"
                         /\ ~AtMarket(i) => transfer[i] \in {"mined", "late"}
                    /\ job[i].status \in {"failed", "blocked"} =>
                         \A k \in {"data", "verify"} : intent[i][k] # "pending" /\ ~InProgress(i, k)
                    /\ disk[i].state = "acknowledged" => job[i].result = disk[i].run
  BY DEF StatusIsTrue
<1>1. StatusSound(i) /\ DiskSound(i)
  BY HostFacts DEF WorkSound
<1>2. IntentSound(i) /\ OperationSound
  BY BrokerFacts DEF WorkSound
<1>3. ASSUME job[i].status = "succeeded"
      PROVE  /\ i \in bought /\ \A k \in Kinds : intent[i][k] = "settled"
             /\ AtMarket(i) => order[i].status = "fulfilled"
             /\ ~AtMarket(i) => transfer[i] \in {"mined", "late"}
  <2>1. \A k \in Kinds : intent[i][k] = "settled"
    BY <1>1, <1>3 DEF StatusSound, Done
  <2>2. i \in bought /\ Verified(i)
    BY <1>2, <2>1 DEF IntentSound, Kinds
  <2> QED BY <2>1, <2>2 DEF Verified
<1>4. ASSUME job[i].status \in {"failed", "blocked"}, NEW k \in {"data", "verify"}
      PROVE  intent[i][k] # "pending" /\ ~InProgress(i, k)
  <2>1. intent[i][k] # "pending" /\ <<i, k>> \notin asked
    BY <1>1, <1>4 DEF StatusSound, Untouched, Done
  <2>2. ~Working(i, k)
    BY <1>2, <2>1 DEF OperationSound, Working
  <2> QED BY <2>1, <2>2 DEF InProgress
<1> QED BY <1>1, <1>3, <1>4 DEF DiskSound

LEMMA OperationsHold == VisitsSound => OperationsOnce
<1> SUFFICES ASSUME VisitsSound, NEW i \in DOMAIN hosted
             PROVE  /\ \A k \in Kinds : begun[i][k] <= 1
                    /\ ~hosted[i].marked /\ hosted[i].status # "failed" =>
                         \A k \in {"data", "verify"} :
                           begun[i][k] = IF k \in hosted[i].receipts THEN 1 ELSE 0
  BY DEF OperationsOnce
<1>1. RunSound(i)
  BY VisitsFacts
<1> QED BY <1>1 DEF RunSound, Fits, Kinds

LEMMA OutcomesHold == IInv => OutcomesAreTrue
<1> SUFFICES ASSUME IInv PROVE OutcomesAreTrue
  OBVIOUS
<1>1. OrdersArePaid /\ AttemptsExclude
  BY DEF IInv, WorkSound, MarketSound
<1> QED BY <1>1, TypesHold, MoneyHolds, StatusHolds, OperationsHold
        DEF IInv, WorkSound, OutcomesAreTrue

LEMMA AlwaysSound == Spec => []IInv
BY InitSound, NextSound, PTL DEF Spec

\* The owner's authority bounds what runs, however requests, edits, revocations, expiries
\* and crashes interleave (execution.ts: approveMandate, queueRun, authorizePurchase;
\* auth.ts: redeemChallenge; credentials.ts and agents.ts: the locked counts): a session of
\* one signed challenge, limits that hold, one mandate in force whose runs are counted,
\* and one capability at most of a job after its authority is gone.
THEOREM AuthorityKept == Spec => []AuthorityIsKept
<1>1. IInv => AuthorityIsKept
  BY AuthorityHolds
<1> QED BY <1>1, AlwaysSound, PTL

\* Wherever the runner, the broker, the platform or the web application is interrupted,
\* what they show is true of the money: intents and checkpoints are on disk before it
\* moves, an order is paid by a transfer of its window and delivered by one attempt at a
\* time, success means both purchases are settled, a negative result leaves no payment in
\* doubt, and no operation of a hosted run is requested twice (broker.ts: execute;
\* marketplace.ts: confirmMarketOrder; execution.ts: saveRunnerResult; store.ts: mutate).
THEOREM OutcomesTrue == Spec => []OutcomesAreTrue
<1>1. IInv => OutcomesAreTrue
  BY OutcomesHold
<1> QED BY <1>1, AlwaysSound, PTL
=============================================================================
