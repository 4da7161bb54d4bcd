------------------------------- MODULE HostedRuns -------------------------------
(***************************************************************************)
(* lib/store.ts, platform/demo-store.ts and the requests of app/api/runs:  *)
(* runs of the same engine that visitors of the web application advance,   *)
(* one stage a request.  A mark is stored before a request touches a run   *)
(* and cleared with its result.  The file store serves one request at a    *)
(* time and takes a mark it finds for a restart; the serverless store      *)
(* refuses a run that is marked.                                           *)
(***************************************************************************)
EXTENDS AgentRunner

CONSTANTS
  Visitors,     \* browser sessions
  VisitorRuns,  \* runs of a session, 50 in the code
  ServerRuns,   \* runs of the store, 500 in the code
  MaxVisits,    \* bound: requests in progress
  MaxVersions   \* bound: versions of a run's mandate

ASSUME HostedAssumption == {VisitorRuns, ServerRuns, MaxVisits, MaxVersions} \subseteq Nat \ {0}

VARIABLES
  hosted,  \* the stored runs, in their order of creation
  visit,   \* the requests in progress, with the run they have in memory
  lapsed,  \* the mandates and the approvals whose time is over
  begun    \* history: how often a run's operation was requested of the broker

visitVars == <<hosted, visit, lapsed, begun>>

Visits == 1 .. MaxVisits
Does == {"advance", "pause", "approve"}

\* createRun, as insert stores it.
NewRun(v) == [owner |-> v, status |-> "ready", stage |-> "mandate", receipts |-> {},
              version |-> 1, marked |-> FALSE]
NoVisit == [at |-> "idle", run |-> 0, does |-> "advance", copy |-> {}]

VisitsInit ==
  /\ hosted = <<>> /\ lapsed = {}
  /\ visit = [h \in Visits |-> NoVisit]
  /\ begun = [i \in 1 .. ServerRuns |-> [k \in Kinds |-> 0]]

-----------------------------------------------------------------------------
(* The stores.                                                             *)

Serverless == "serverless" \in wanted

\* RunStore.serial.
AtRest == Serverless \/ \A h \in Visits : visit[h].at = "idle"

\* One statement under an advisory lock, or one operation of the process.
InsertRun(v) ==
  /\ AtRest /\ Len(hosted) < ServerRuns
  /\ Cardinality({i \in DOMAIN hosted : hosted[i].owner = v}) < VisitorRuns
  /\ hosted' = Append(hosted, NewRun(v))
  /\ UNCHANGED <<visit, lapsed, begun>>

\* RunStore.recover: what was interrupted has failed.
Recovered(run) == IF run.marked THEN [run EXCEPT !.status = "failed"] ELSE run

Takes_Interrupted(h, i, does) ==   \* mutant: a mark that was left is only overwritten
  /\ visit[h].at = "idle" /\ AtRest /\ (Serverless => ~hosted[i].marked)
  /\ hosted' = [hosted EXCEPT ![i].marked = TRUE]
  /\ visit' = [visit EXCEPT ![h] = [at |-> "acting", run |-> i, does |-> does,
                                    copy |-> hosted[i]]]
  /\ UNCHANGED <<lapsed, begun>>

\* mutate stores its mark before the action.  A row is taken by the statement that finds
\* it unmarked.
TakeRun(h, i, does) ==
  /\ visit[h].at = "idle" /\ AtRest /\ (Serverless => ~hosted[i].marked)
  /\ hosted' = [hosted EXCEPT ![i] = [Recovered(@) EXCEPT !.marked = TRUE]]
  /\ visit' = [visit EXCEPT ![h] = [at |-> "acting", run |-> i, does |-> does,
                                    copy |-> Recovered(hosted[i])]]
  /\ UNCHANGED <<lapsed, begun>>

\* The result and the cleared mark are stored together.
Saves(h, run) ==
  /\ hosted' = [hosted EXCEPT ![visit[h].run] = [run EXCEPT !.marked = FALSE]]
  /\ visit' = [visit EXCEPT ![h] = NoVisit]
  /\ UNCHANGED <<lapsed, begun>>

\* The action threw.  The serverless store cannot tell whether it reached anything: the
\* run has failed and its mark stays.
Throws(h) ==
  IF Serverless
  THEN /\ hosted' = [hosted EXCEPT ![visit[h].run] =
                       [visit[h].copy EXCEPT !.status = "failed", !.marked = TRUE]]
       /\ visit' = [visit EXCEPT ![h] = NoVisit]
       /\ UNCHANGED <<lapsed, begun>>
  ELSE Saves(h, visit[h].copy)

\* The process or the function ends, or its last statement is lost.
VisitDies(h) ==
  /\ May("crash") /\ visit[h].at # "idle"
  /\ visit' = [visit EXCEPT ![h] = NoVisit]
  /\ UNCHANGED <<hosted, lapsed, begun>>

-----------------------------------------------------------------------------
(* The actions of a request.                                               *)

Acts(h, does) == visit[h].at = "acting" /\ visit[h].does = does
InTime(h, what) == <<visit[h].run, what, visit[h].copy.version>> \notin lapsed
Over == {"completed", "failed", "paused", "awaiting_approval"}

\* advanceRun, up to the request to the broker.
AdvanceRun(h) ==
  LET run == visit[h].copy
      goes(stage) == Saves(h, [run EXCEPT !.status = "running", !.stage = stage])
      ends(status) == Saves(h, [run EXCEPT !.status = status])
  IN /\ Acts(h, "advance")
     /\ \/ run.status \in Over /\ Saves(h, run)
        \/ run.status \notin Over /\ ~InTime(h, "mandate") /\ ends("failed")
        \/ /\ run.status \notin Over /\ InTime(h, "mandate")
           /\ \/ run.stage = "mandate" /\ goes("discovery")
              \/ run.stage = "discovery" /\ goes("purchase")
              \/ run.stage \in {"discovery", "purchase"} /\ May("provider") /\ ends("failed")
              \/ run.stage = "purchase" /\ May("price") /\ ends("awaiting_approval")
              \/ /\ run.stage \in PaidStages
                 /\ begun' = [begun EXCEPT ![visit[h].run][KindOf(run.stage)] = @ + 1]
                 /\ visit' = [visit EXCEPT ![h].at = "waiting", ![h].copy.status = "running"]
                 /\ UNCHANGED <<hosted, lapsed>>

\* liveGateway: the broker's answer, or its refusal, or none in time.
HearBroker(h) ==
  LET run == visit[h].copy
      kind == KindOf(run.stage)
      paid == [run EXCEPT !.receipts = @ \cup {kind}]
  IN /\ visit[h].at = "waiting"
     /\ \/ Saves(h, CASE kind = "data" -> [paid EXCEPT !.stage = "report"]
                      [] kind = "report" -> [run EXCEPT !.stage = "verification"]
                      [] kind = "verify" ->
                           [paid EXCEPT !.stage = "complete", !.status = "completed"])
        \/ May("checks") /\ kind = "verify" /\ Saves(h, [paid EXCEPT !.status = "failed"])
        \/ May("provider") /\ Saves(h, [run EXCEPT !.status = "failed"])

\* approveRun: one signature of the proposed mandate, in five minutes.
ApproveRun(h) ==
  LET run == visit[h].copy
  IN /\ Acts(h, "approve")
     /\ \/ /\ run.status = "awaiting_approval" /\ InTime(h, "approval")
           /\ run.version < MaxVersions
           /\ Saves(h, [run EXCEPT !.status = "running", !.version = @ + 1])
        \/ Throws(h)

PauseRun(h) ==
  LET run == visit[h].copy
  IN /\ Acts(h, "pause")
     /\ IF run.status \in {"failed", "completed", "awaiting_approval"} THEN Throws(h)
        ELSE Saves(h, [run EXCEPT !.status = IF @ = "paused" THEN "running" ELSE "paused"])

\* An hour of the mandate, five minutes of the approval that was asked for.
TimePasses(i) ==
  /\ May("expiry")
  /\ \E what \in {"mandate", "approval"} :
       /\ what = "approval" => hosted[i].status = "awaiting_approval"
       /\ lapsed' = lapsed \cup {<<i, what, hosted[i].version>>}
  /\ UNCHANGED <<hosted, visit, begun>>

VisitsNext ==
  \/ \E v \in Visitors : InsertRun(v)
  \/ \E i \in DOMAIN hosted : TimePasses(i) \/ \E h \in Visits, does \in Does : TakeRun(h, i, does)
  \/ \E h \in Visits : AdvanceRun(h) \/ HearBroker(h) \/ ApproveRun(h) \/ PauseRun(h) \/ VisitDies(h)

VisitsTypeOK ==
  /\ \A i \in DOMAIN hosted : hosted[i].stage \in Stages /\ hosted[i].version \in 1 .. MaxVersions
  /\ \A h \in Visits : visit[h].at \in {"idle", "acting", "waiting"}

\* mutate: "An interrupted operation fails closed on recovery", "It will not be retried".
\* However requests overlap, throw or die, no operation of a run is requested twice, and a
\* run that is neither marked nor failed has a receipt for each payment it requested.
OperationsOnce ==
  \A i \in DOMAIN hosted :
    /\ \A k \in Kinds : begun[i][k] <= 1
    /\ ~hosted[i].marked /\ hosted[i].status # "failed" =>
         \A k \in {"data", "verify"} : begun[i][k] = IF k \in hosted[i].receipts THEN 1 ELSE 0
=============================================================================
