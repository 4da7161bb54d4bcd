--------------------------- MODULE VerificationMarket ---------------------------
(***************************************************************************)
(* platform/marketplace.ts: the order a runner makes for a paid            *)
(* verification, its confirmation against the transfer on Arc, and its     *)
(* delivery by the provider under a fenced lease of 90 seconds.  An order  *)
(* belongs to one job, so it carries the job's number.                     *)
(***************************************************************************)
EXTENDS RunnerJobs

CONSTANTS
  MaxHandlers,  \* bound: requests the platform serves at a time
  MaxAttempts   \* bound: the owner asks again only below it

VARIABLES
  order,      \* platform_market_orders
  attempt,    \* the requests being served
  transfer    \* the job's USDC transfer on Arc

marketVars == <<order, attempt, transfer>>

Handlers == 1 .. MaxHandlers
Served == [at |-> "idle", job |-> 1, token |-> 0, fresh |-> FALSE, by |-> "gone", ok |-> FALSE]

\* A request takes the first place that is free.
Takes(h) == attempt[h].at = "idle" /\ \A g \in 1 .. h - 1 : attempt[g].at # "idle"

MarketInit ==
  /\ order = [i \in Jobs |-> [status |-> "none", open |-> TRUE, token |-> 0,
                              leased |-> FALSE, attempts |-> 0]]
  /\ attempt = [h \in Handlers |-> Served]
  /\ transfer = [i \in Jobs |-> "none"]

\* expires_at is a quarter of an hour or the mandate's expiry, whichever is first.
InWindow(i) == order[i].open /\ mandate[job[i].mandate].live

\* The insertion repeats what the request read: the job runs for this runner under a
\* current mandate, the service is still the signed one.
CreateMarketOrder(r, i) ==
  /\ order[i].status = "none"
  /\ Authorized(r, i) /\ mandate[job[i].mandate].terms > 0
  /\ order' = [order EXCEPT ![i].status = "quoted"]
  /\ UNCHANGED <<attempt, transfer>>

\* The end of a request: the broker waits for an answer, the owner's page does not.
Reply(h, ok) ==
  attempt' = [attempt EXCEPT ![h] = IF @.by = "broker" THEN [@ EXCEPT !.at = "replied", !.ok = ok]
                                                       ELSE Served]

ConfirmMarketOrder_AnyBlock(h, i) ==   \* mutant: the block's time is not compared
  LET serve(step) == [Served EXCEPT !.at = step, !.job = i, !.by = "broker"]
      paid == order[i].status = "quoted" /\ transfer[i] \in {"mined", "late"}
  IN /\ Takes(h) /\ Active(job[i].runner)
     /\ order' = IF paid THEN [order EXCEPT ![i].status = "paid"] ELSE order
     /\ attempt' = [attempt EXCEPT ![h] =
          IF paid \/ order[i].status = "paid" THEN serve("claiming")
          ELSE [serve("replied") EXCEPT !.ok = order[i].status = "fulfilled"]]
     /\ UNCHANGED transfer

\* The chain is asked only while the order is quoted, and its proof is written with
\* the status.
ConfirmMarketOrder(h, i) ==
  LET serve(step) == [Served EXCEPT !.at = step, !.job = i, !.by = "broker"]
      paid == order[i].status = "quoted" /\ transfer[i] = "mined"
  IN /\ Takes(h) /\ Active(job[i].runner)
     /\ order' = IF paid THEN [order EXCEPT ![i].status = "paid"] ELSE order
     /\ attempt' = [attempt EXCEPT ![h] =
          IF paid \/ order[i].status = "paid" THEN serve("claiming")
          ELSE [serve("replied") EXCEPT !.ok = order[i].status = "fulfilled"]]
     /\ UNCHANGED transfer

RetryMarketDelivery(h, i) ==
  /\ May("retry") /\ Takes(h) /\ order[i].status = "paid"
  /\ order[i].attempts < MaxAttempts
  /\ attempt' = [attempt EXCEPT ![h] =
       [Served EXCEPT !.at = "claiming", !.job = i, !.by = "owner"]]
  /\ UNCHANGED <<order, transfer>>

\* deliverPaidMarketOrder: the lease is taken with a token of its own.
ClaimDelivery(h) ==
  LET i == attempt[h].job
      token == order[i].attempts + 1
  IN /\ attempt[h].at = "claiming"
     /\ IF order[i].status = "paid" /\ ~order[i].leased
             /\ (attempt[h].by = "owner" \/ Active(job[i].runner))
        THEN /\ order' = [order EXCEPT ![i].token = token, ![i].leased = TRUE,
                                       ![i].attempts = token]
             /\ attempt' = [attempt EXCEPT ![h].at = "asking", ![h].token = token,
                                           ![h].fresh = TRUE]
        ELSE Reply(h, order[i].status = "fulfilled") /\ UNCHANGED order
     /\ UNCHANGED transfer

Holds(h) == LET o == order[attempt[h].job]
            IN o.status = "paid" /\ o.token = attempt[h].token

\* requestRemoteVerification: one request of the provider, which ends with checks, or with
\* a failure: a blocked address, a response that is not valid, or none in twelve seconds.
RequestEnds(h, checked) == attempt[h].at = "asking" /\ (checked \/ May("provider"))

\* The provider answered: only the holder of the token stores the result.
CompleteDelivery(h) ==
  LET i == attempt[h].job
  IN /\ RequestEnds(h, TRUE)
     /\ order' = IF Holds(h) THEN [order EXCEPT ![i].status = "fulfilled", ![i].token = 0,
                                                ![i].leased = FALSE] ELSE order
     /\ Reply(h, Holds(h) \/ order[i].status = "fulfilled")
     /\ UNCHANGED transfer

FailDelivery_AnyToken(h) ==   \* mutant: the lease is given back by whoever fails
  LET i == attempt[h].job
  IN /\ RequestEnds(h, FALSE)
     /\ order' = IF order[i].status = "paid"
                   THEN [order EXCEPT ![i].token = 0, ![i].leased = FALSE] ELSE order
     /\ Reply(h, FALSE)
     /\ UNCHANGED transfer

\* The provider did not: only the holder gives the lease back.
FailDelivery(h) ==
  LET i == attempt[h].job
  IN /\ RequestEnds(h, FALSE)
     /\ order' = IF Holds(h) THEN [order EXCEPT ![i].token = 0, ![i].leased = FALSE] ELSE order
     /\ Reply(h, FALSE)
     /\ UNCHANGED transfer

\* A request dies with its process and leaves its lease.
LoseRequest(h) ==
  /\ attempt[h].at \in {"claiming", "asking"} /\ May("provider")
  /\ attempt' = [attempt EXCEPT ![h] = IF @.by = "broker" THEN [@ EXCEPT !.at = "replied"]
                                                          ELSE Served]
  /\ UNCHANGED <<order, transfer>>

\* Ninety seconds after an attempt took the lease of the order.
LeaseEnds(h) ==
  /\ attempt[h].at = "asking" /\ attempt[h].fresh /\ May("lease")
  /\ attempt' = [attempt EXCEPT ![h].fresh = FALSE]
  /\ order' = IF Holds(h) THEN [order EXCEPT ![attempt[h].job].leased = FALSE] ELSE order
  /\ UNCHANGED transfer

\* The lease an interrupted request left.
LeftLeaseEnds(i) ==
  /\ order[i].leased
  /\ \A h \in Handlers :
       ~(attempt[h].at = "asking" /\ attempt[h].job = i /\ attempt[h].token = order[i].token)
  /\ order' = [order EXCEPT ![i].leased = FALSE]
  /\ UNCHANGED <<attempt, transfer>>

WindowCloses(i) ==
  /\ May("window") /\ order[i].status = "quoted" /\ order[i].open
  /\ order' = [order EXCEPT ![i].open = FALSE]
  /\ UNCHANGED <<attempt, transfer>>

\* The block that includes the transfer is in the order's window or is not.
Mine(i) ==
  /\ transfer[i] = "pending"
  /\ \E outcome \in {IF InWindow(i) THEN "mined" ELSE "late"}
                    \cup (IF May("provider") THEN {"failed"} ELSE {}) :
       transfer' = [transfer EXCEPT ![i] = outcome]
  /\ UNCHANGED <<order, attempt>>

MarketNext ==
  \/ \E h \in Handlers : \/ ClaimDelivery(h) \/ CompleteDelivery(h) \/ FailDelivery(h)
                         \/ LoseRequest(h) \/ LeaseEnds(h)
                         \/ \E i \in Jobs : RetryMarketDelivery(h, i)
  \/ \E i \in Jobs : LeftLeaseEnds(i) \/ WindowCloses(i) \/ Mine(i)

MarketTypeOK ==
  /\ order \in [Jobs -> [status : {"none", "quoted", "paid", "fulfilled"}, open : BOOLEAN,
                         token : Nat, leased : BOOLEAN, attempts : Nat]]
  /\ attempt \in [Handlers ->
       [at : {"idle", "claiming", "asking", "replied"}, job : Jobs, token : Nat,
        fresh : BOOLEAN, by : {"gone", "broker", "owner"}, ok : BOOLEAN]]
  /\ transfer \in [Jobs -> {"none", "pending", "mined", "late", "failed"}]

\* While an attempt's ninety seconds run no other attempt asks the provider for the same
\* order, also when an earlier attempt that lost its lease ends or fails meanwhile.
AttemptsExclude ==
  \A g, h \in Handlers :
    g # h /\ attempt[g].at = "asking" /\ attempt[h].at = "asking"
    /\ attempt[g].job = attempt[h].job => ~(attempt[g].fresh /\ attempt[h].fresh)

\* An order is paid only by a transfer that was mined in its window.
OrdersArePaid ==
  \A i \in Jobs : order[i].status \in {"paid", "fulfilled"} => transfer[i] = "mined"
=============================================================================
