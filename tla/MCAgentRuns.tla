------------------------------- MODULE MCAgentRuns -------------------------------
(* Small instances of AgentRuns for TLC.  What a behaviour allows besides the  *)
(* work itself is chosen at its start, so that the cases add up.               *)
EXTENDS AgentRuns, TLC

CONSTANTS ann, bob

TwoWallets == {ann, bob}

Limits == <<2, 1>>
Budgets == ("data" :> 2) @@ ("verify" :> 1)

Events ==
  {{"queue", "crash", "reconcile"}, {"queue", "crash", "lost"}, {"pair", "revoke", "lost"},
   {"sign", "revoke"}, {"sign", "expiry", "lost"}, {"edit", "sign"},
   {"sign", "queue"}, {"queue", "revoke", "stop"},
   {"queue", "crash broker", "reconcile"}, {"provider", "lease", "retry"},
   {"provider", "queue"}, {"crash", "crash broker", "lease", "reconcile"},
   {"stop", "stop broker", "queue"}, {"checks", "lost"}, {"price", "quiet", "queue"},
   {"window", "lost"}, {"pair", "queue"}, {"people"},
   {"visitors", "expiry", "price"}, {"visitors", "crash", "provider"},
   {"visitors", "serverless", "crash", "price"}, {"visitors", "serverless", "checks", "provider"}}
=============================================================================
