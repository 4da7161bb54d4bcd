-------------------------------- MODULE AgentRuns --------------------------------
(***************************************************************************)
(* One agent's platform, marketplace, broker and runner together; and, in  *)
(* behaviours of their own, the accounts that own agents and the runs that *)
(* visitors of the web application advance.  Who is asked for a session or *)
(* a key on the way changes nothing there.                                 *)
(***************************************************************************)
EXTENDS HostedRuns, Accounts

working == <<jobVars, marketVars, brokerVars, hostVars>>
vars == <<scenario, working, visitVars, accounts>>

Init == JobsInit /\ MarketInit /\ BrokerInit /\ HostInit /\ VisitsInit /\ AccountsInit

\* Whether this behaviour is about accounts, or about hosted runs.
People == "people" \in wanted
Web == "visitors" \in wanted

\* The faults and the owner's changes of mind end.
Settles ==
  /\ ~calm /\ calm' = TRUE
  /\ UNCHANGED <<wanted, working>>

Platform == JobsNext /\ UNCHANGED <<scenario, marketVars, brokerVars, hostVars>>
Market == MarketNext /\ UNCHANGED <<scenario, jobVars, brokerVars, hostVars>>
Brokers == BrokerNext /\ UNCHANGED <<scenario, jobVars, hostVars>>
Hosts == HostNext /\ UNCHANGED scenario

\* A step of the agent's own parts.
Apart == ~People /\ ~Web /\ UNCHANGED <<visitVars, accounts>>

Next ==
  \/ Apart /\ (Platform \/ Market \/ Brokers \/ Hosts \/ Settles)
  \/ People /\ AccountsNext /\ UNCHANGED <<scenario, working, visitVars>>
  \/ Web /\ VisitsNext /\ UNCHANGED <<scenario, working, accounts>>

Spec == Init /\ [][Next]_vars

(***************************************************************************)
(* Each process goes on while it runs, every call ends, a submitted        *)
(* transfer is decided, and the runner's service is started again.         *)
(***************************************************************************)
Fairness ==
  /\ WF_vars(Apart /\ Settles)
  /\ WF_vars(Apart /\ HostWork /\ UNCHANGED scenario)
  /\ WF_vars(Apart /\ BrokerWork /\ UNCHANGED <<scenario, jobVars, hostVars>>)
  /\ WF_vars(Apart /\ Market)

FairSpec == Spec /\ Fairness

TypeOK ==
  /\ JobsTypeOK /\ MarketTypeOK /\ BrokerTypeOK /\ HostTypeOK
  /\ VisitsTypeOK /\ AccountsTypeOK

\* The owner's authority bounds what runs: one session of a signed challenge, limits that
\* hold, one mandate in force, its runs counted, and one capability at most of a job after
\* the authority is gone.
AuthorityIsKept ==
  OneSessionPerChallenge /\ QuotasHold /\ OneActiveMandate /\ RunsAreReserved /\ LateIsOne

\* Money, deliveries and statuses tell one story, at any crash.
OutcomesAreTrue ==
  /\ TypeOK
  /\ MoneyIsJournalled /\ OrdersArePaid /\ AttemptsExclude /\ StatusIsTrue /\ OperationsOnce

\* Whatever interrupted it, a run that was started is over and its result is at the
\* platform, unless its credential was revoked or the operator has not yet cleared the
\* lock that a crash left (Open, flushResults, saveRunnerResult).
RunConcludes ==
  []<>(\A i \in Jobs : disk[i].state \in {"started", "finished"} =>
         ~Active(job[i].runner) \/ hostLock = "left")
=============================================================================
