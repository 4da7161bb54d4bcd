----------------------------- MODULE MCMarketplace -----------------------------
(* Small instances of Marketplace for TLC.  What a behaviour allows besides the *)
(* work itself is chosen at its start, so that the cases add up.                *)
EXTENDS Marketplace

Sold == {<<"read", "inference">>, <<"storage", "read">>}

Events ==
  {{"order", "crash", "lost"}, {"order", "failure", "retry-read"}, {"hour", "lost", "crash"},
   {"twice", "slow", "die"}, {"order", "die", "hour"}, {"crash", "lost", "retry-read"},
   {"order", "late complete", "hour"}, {"order", "late failed", "retry-read", "failure"},
   {"order", "late claim"},
   {"accounts", "die"}, {"accounts", "evidence"}, {"refunds", "die"},
   {"reviews", "disputes"}, {"reviews", "distrust"}, {"evidence", "unread"}}

Bought(o, k) == <<<<"paid", "delivered", "acknowledged">>[k], o>>

\* A producer's purchase (1) and its two sales.
SupplyChain ==
  [seller |-> <<"source", "producer", "producer">>, payer |-> <<"producer", "buyer", "buyer">>,
   transfer |-> <<>>, start |-> 7, about |-> {"accounts"},
   log |-> <<Bought(1, 1), Bought(2, 1), Bought(1, 2), Bought(3, 1), Bought(1, 3), Bought(2, 2),
             Bought(2, 3), Bought(3, 2), Bought(3, 3)>>]

\* A producer who delivered before it accepted its own purchase.
LateInput ==
  [seller |-> <<"source", "producer">>, payer |-> <<"producer", "buyer">>,
   transfer |-> <<>>, start |-> 5, about |-> {"accounts"},
   log |-> <<Bought(1, 1), Bought(2, 1), Bought(1, 2), Bought(2, 2), Bought(1, 3), Bought(2, 3)>>]

\* Two who sell to each other, a seller who pays back, and a reviewer who joins the buyer.
Exchange ==
  [seller |-> <<"seller", "buyer", "seller">>, payer |-> <<"buyer", "seller", "buyer">>,
   transfer |-> <<[from |-> "seller", to |-> "buyer", amount |-> 1],
                  [from |-> "seller", to |-> "buyer", amount |-> 1]>>,
   start |-> 6, about |-> {"refunds", "reviews", "evidence"},
   log |-> <<Bought(1, 1), <<"transfer", 1>>, Bought(3, 1), Bought(2, 1), Bought(1, 2),
             Bought(2, 2), Bought(1, 3), <<"transfer", 2>>, <<"enrolled", "r1", "buyer">>>>]

Traded == {SupplyChain, LateInput, Exchange}
=============================================================================
