---------------------------- MODULE MCHederaExchange ----------------------------
(* Small instances of HederaExchange for TLC.  What a behaviour sets out to do *)
(* is chosen at its start, so that the cases add up instead of multiplying.    *)
EXTENDS HederaExchange, TLC

CONSTANTS a1, a2, a3, b1, t1, p1, p2, s1, s2, d1, d2,
  topic, profile, round0, round1, anchor, recipient, token, tokenFeeRetry, publicity

\* Two hosts that negotiate for one payer under one request id; one that may
\* cost more; a native purchase of a run; a token purchase.
AllRuns == {a1, a2, a3, b1, t1}
SmallAllowance == (a1 :> 1) @@ (a2 :> 1) @@ (a3 :> 2) @@ (b1 :> 1) @@ (t1 :> 1)
Disks == (p1 :> AllRuns \ {a2}) @@ (p2 :> AllRuns \ {a1})
Requests == (a1 :> a1) @@ (a2 :> a1) @@ (a3 :> a3)

\* A topic and its profile; two rounds of a plan; the anchor of a negotiated purchase, by
\* an identity registered before; provisioning, with the one retry it permits.
AllOperations == {topic, profile, round0, round1, anchor, recipient, token, tokenFeeRetry}
Before == (topic :> {}) @@ (profile :> {topic}) @@ (round0 :> {}) @@ (round1 :> {round0})
            @@ (anchor :> {}) @@ (recipient :> {}) @@ (token :> {recipient})
            @@ (tokenFeeRetry :> {recipient})
Duties == (p1 :> AllOperations) @@ (p2 :> AllOperations \ {anchor})
AnchorOf == anchor :> a3
RetryOf == tokenFeeRetry :> token

Cases == {{a1, a2}, {b1}, {t1, publicity}, {a3, anchor, publicity}, {topic, profile},
          {round0, round1, publicity}, {recipient, token, tokenFeeRetry}}
=============================================================================
