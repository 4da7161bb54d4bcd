------------------------------ MODULE Accounts ------------------------------
(***************************************************************************)
(* platform/auth.ts, security.ts, credentials.ts and agents.ts over        *)
(* db/migrations/001 and 002: wallets sign in with single-use challenges,  *)
(* and the owner of a session creates agents and issues their API keys.    *)
(*                                                                         *)
(* Redeeming reads a challenge, verifies a signature of it and consumes it *)
(* in one later statement.  Creating an agent or a key locks its parent    *)
(* row, counts in the next statement, and inserts.  Calls overlap, may be  *)
(* lost between two statements, and go on when their session ends.  A call *)
(* that is refused, also by a rate limit, is no step.                      *)
(***************************************************************************)
EXTENDS Naturals, Sequences, FiniteSets

CONSTANTS
  Wallets,        \* identity addresses
  AgentLimit,     \* agents of an owner, 25 in the code
  KeyLimit,       \* active keys of an agent, 10 in the code
  MaxChallenges,  \* bound: challenges issued, and so sessions
  MaxAgents,      \* bound: agents created
  MaxKeys,        \* bound: keys issued
  MaxCalls        \* bound: calls that overlap

VARIABLES
  challenge,   \* platform_challenges, in their order of creation
  session,     \* platform_sessions and ended ones, in their order of creation
  owner,       \* platform_agents.user_id, in their order of creation
  key,         \* platform_api_keys, in their order of creation
  call         \* what a request in progress has read and will write

accounts == <<challenge, session, owner, key, call>>

Calls == 1 .. MaxCalls
NoCall == [does |-> "none", on |-> 0, wallet |-> "", room |-> FALSE]

ASSUME AccountsAssumption ==
  {AgentLimit, KeyLimit, MaxChallenges, MaxAgents, MaxKeys, MaxCalls} \subseteq Nat \ {0}

AccountsInit ==
  /\ challenge = <<>> /\ session = <<>> /\ owner = <<>> /\ key = <<>>
  /\ call = [h \in Calls |-> NoCall]

-----------------------------------------------------------------------------
(* Signing in                                                              *)

IssueChallenge(w) ==
  /\ Len(challenge) < MaxChallenges
  /\ challenge' = Append(challenge, [wallet |-> w, state |-> "live"])
  /\ UNCHANGED <<session, owner, key, call>>

ChallengeExpires(c) ==
  /\ challenge[c].state = "live" /\ challenge' = [challenge EXCEPT ![c].state = "expired"]
  /\ UNCHANGED <<session, owner, key, call>>

\* verifyLoginSignature: the message that was issued, unexpired, signed by its wallet.
SignedBy(c, signer) == challenge[c].state = "live" /\ challenge[c].wallet = signer

\* The challenge is read and its signature verified.
ReadChallenge(h, c, signer) ==
  /\ call[h] = NoCall /\ SignedBy(c, signer)
  /\ call' = [call EXCEPT ![h] = [NoCall EXCEPT !.does = "redeem", !.on = c]]
  /\ UNCHANGED <<challenge, session, owner, key>>

\* Slip: the statement does not ask again whether the challenge was used.
Unused_AsRead(c) == challenge[c].state # "expired"

Unused(c) == challenge[c].state = "live"

\* One statement consumes the challenge, makes the identity and the session.
RedeemChallenge(h) ==
  LET c == call[h].on IN
  /\ call[h].does = "redeem" /\ call' = [call EXCEPT ![h] = NoCall]
  /\ IF Unused(c)
       THEN /\ challenge' = [challenge EXCEPT ![c].state = "used"]
            /\ session' = Append(session, [wallet |-> challenge[c].wallet, from |-> c, live |-> TRUE])
       ELSE UNCHANGED <<challenge, session>>
  /\ UNCHANGED <<owner, key>>

\* Seven days, or revokeSession.
SessionEnds(s) ==
  /\ session[s].live /\ session' = [session EXCEPT ![s].live = FALSE]
  /\ UNCHANGED <<challenge, owner, key, call>>

-----------------------------------------------------------------------------
(* Agents and keys of the wallet that requireUser found                    *)

Begins(h, s, does, a) ==
  /\ call[h] = NoCall /\ session[s].live
  /\ call' = [call EXCEPT ![h] =
       [NoCall EXCEPT !.does = does, !.on = a, !.wallet = session[s].wallet]]
  /\ UNCHANGED <<challenge, session, owner, key>>

Usable(k) == key[k].state = "active"
AgentsOf(w) == {a \in DOMAIN owner : owner[a] = w}
ActiveKeys(a) == {k \in DOMAIN key : key[k].agent = a /\ Usable(k)}

\* The second statement counts in a snapshot of its own.
HasRoom(h) ==
  IF call[h].does = "agent" THEN Cardinality(AgentsOf(call[h].wallet)) < AgentLimit
                            ELSE Cardinality(ActiveKeys(call[h].on)) < KeyLimit

\* The calls that hold a lock have counted; the row is the user's or the agent's.
Locked(h) ==
  \E g \in Calls \ {h} :
    /\ call[g].does = (IF call[h].does = "agent" THEN "insert agent" ELSE "insert key")
    /\ IF call[h].does = "agent" THEN call[g].wallet = call[h].wallet ELSE call[g].on = call[h].on

Counted(h) ==
  call' = [call EXCEPT ![h].room = HasRoom(h),
                       ![h].does = IF @ = "agent" THEN "insert agent" ELSE "insert key"]

\* Slip: the parent row is not locked before the children are counted.
Count_Unlocked(h) ==
  /\ call[h].does \in {"agent", "key"} /\ Counted(h)
  /\ UNCHANGED <<challenge, session, owner, key>>

\* SELECT ... FOR UPDATE, then the count.
Count(h) ==
  /\ call[h].does \in {"agent", "key"} /\ ~Locked(h) /\ Counted(h)
  /\ UNCHANGED <<challenge, session, owner, key>>

InsertAgent(h) ==
  /\ call[h].does = "insert agent" /\ call' = [call EXCEPT ![h] = NoCall]
  /\ owner' = IF call[h].room /\ Len(owner) < MaxAgents THEN Append(owner, call[h].wallet) ELSE owner
  /\ UNCHANGED <<challenge, session, key>>

InsertKey(h) ==
  /\ call[h].does = "insert key" /\ call' = [call EXCEPT ![h] = NoCall]
  /\ key' = IF call[h].room /\ Len(key) < MaxKeys
              THEN Append(key, [agent |-> call[h].on, for |-> call[h].wallet, state |-> "active"])
              ELSE key
  /\ UNCHANGED <<challenge, session, owner>>

\* requireOwnedAgent, for a call that names an agent.
IssueKey(h, s, a) == owner[a] = session[s].wallet /\ Begins(h, s, "key", a)

\* A key that was revoked or has expired stays so.
RevokeKey(s, k) ==
  /\ session[s].live /\ owner[key[k].agent] = session[s].wallet
  /\ key' = [key EXCEPT ![k].state = "revoked"]
  /\ UNCHANGED <<challenge, session, owner, call>>

KeyExpires(k) ==
  /\ Usable(k) /\ key' = [key EXCEPT ![k].state = "expired"]
  /\ UNCHANGED <<challenge, session, owner, call>>

\* The connection is lost: the transaction is rolled back and its lock released.
CallLost(h) ==
  /\ call[h] # NoCall /\ call' = [call EXCEPT ![h] = NoCall]
  /\ UNCHANGED <<challenge, session, owner, key>>

AccountsNext ==
  \/ \E w \in Wallets : IssueChallenge(w)
  \/ \E c \in DOMAIN challenge : ChallengeExpires(c)
  \/ \E s \in DOMAIN session : SessionEnds(s) \/ \E k \in DOMAIN key : RevokeKey(s, k)
  \/ \E k \in DOMAIN key : KeyExpires(k)
  \/ \E h \in Calls :
       \/ \E c \in DOMAIN challenge, w \in Wallets : ReadChallenge(h, c, w)
       \/ RedeemChallenge(h)
       \/ \E s \in DOMAIN session : Begins(h, s, "agent", 0)
       \/ \E s \in DOMAIN session, a \in DOMAIN owner : IssueKey(h, s, a)
       \/ Count(h) \/ InsertAgent(h) \/ InsertKey(h) \/ CallLost(h)

-----------------------------------------------------------------------------
AccountsTypeOK ==
  /\ \A c \in DOMAIN challenge : challenge[c].state \in {"live", "used", "expired"}
  /\ \A h \in Calls : call[h].does \in
       {"none", "redeem", "agent", "key", "insert agent", "insert key"}

\* redeemChallenge: "Concurrent verification of the same nonce returns only one session".
\* A session is of the wallet that its challenge was issued to, and of no other session's
\* challenge, also when the challenge expired between the two statements.
OneSessionPerChallenge ==
  \A s \in DOMAIN session :
    /\ challenge[session[s].from] = [wallet |-> session[s].wallet, state |-> "used"]
    /\ \A r \in DOMAIN session : session[r].from = session[s].from => r = s

\* createAgent, issueAgentKey: concurrent calls never exceed a limit, and a key is of an
\* agent of the wallet that asked for it.
QuotasHold ==
  /\ \A w \in Wallets : Cardinality(AgentsOf(w)) <= AgentLimit
  /\ \A a \in DOMAIN owner : Cardinality(ActiveKeys(a)) <= KeyLimit
  /\ \A k \in DOMAIN key : owner[key[k].agent] = key[k].for
=============================================================================
