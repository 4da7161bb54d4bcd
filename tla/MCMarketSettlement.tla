------------------------- MODULE MCMarketSettlement -------------------------
(* Small instances of MarketSettlement for TLC.                            *)
EXTENDS MarketSettlement, TLC

CONSTANTS a1, a2, e1, e2, h1, h2, x1, c1, o1, o2, o3, o4, s1, s2, out1, out2

OneAgent == {a1}
OneExecutor == {e1}
TwoExecutors == {e1, e2}
OneOwner == {h1}
TwoOwners == {h1, h2}
OneSeller == {x1}
OneCategory == {c1}
OneOrder == {o1}
TwoOrders == {o1, o2}
FourOrders == {o1, o2, o3, o4}
OneService == {s1}
TwoServices == {s1, s2}
OneOutput == {out1}
TwoOutputs == {out1, out2}

SellerOf == (s1 :> x1) @@ (s2 :> x1)
OneSellerOf == (s1 :> x1)
CategoryOf == (s1 :> c1) @@ (s2 :> c1)
OneCategoryOf == (s1 :> c1)
\* Three per cent of 50, and two, are one each and a rounding loss.
TwoAmounts == (s1 :> 50) @@ (s2 :> 90)
OneAmount == (s1 :> 50)

Category(enabled, cap, seconds, delay) ==
  [enabled |-> enabled, perOrderCap |-> 100, windowCap |-> cap, windowSeconds |-> seconds,
   delaySeconds |-> delay]
Grant(total, cap, seconds) ==
  [totalCap |-> total, windowCap |-> cap, windowSeconds |-> seconds]

\* For the runs about time: a short window of one order, a longer one of three with
\* a delay.
TimedTerms == {Category(TRUE, 50, 2, 0), Category(TRUE, 150, 3, 1)}
TimedGrants == {Grant(100, 50, 2), Grant(200, 150, 3)}
NoFees == {}
NoOutputs == {}

\* For the other runs, limits in time play no part.
OpenTerms == {Category(TRUE, 200, 1, 0)}
OneGrant == {Grant(100, 100, 1)}
BookGrants == {Grant(150, 200, 1), Grant(50, 200, 1)}
\* The second pair is over the combined limit.
SomeFees == {[reserve |-> 500, review |-> 500], [reserve |-> 2000, review |-> 0]}

OrderIds == Permutations(Orders)
OrderIdsAndOutputs == Permutations(Orders) \cup Permutations(Outputs)
\* Sound from deployment only: Configured names an owner and an executor.
OwnersAndExecutors == Permutations(Owners) \cup Permutations(Executors)
=============================================================================
