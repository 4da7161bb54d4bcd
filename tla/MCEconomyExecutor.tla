------------------------- MODULE MCEconomyExecutor -------------------------
(* Small instances of EconomyExecutor for TLC.                             *)
EXTENDS EconomyExecutor, TLC

CONSTANTS o1, o2, p1, p2, h1, h2

OneOrder  == {o1}
TwoOrders == {o1, o2}
OneProc   == {p1}
TwoProcs  == {p1, p2}
OneOutput == {h1}
TwoOutputs == {h1, h2}

\* Different amounts, so that an allowance tells its order.
Price == (o1 :> 1) @@ (o2 :> 2)
OnePrice == (o1 :> 1)
=============================================================================
