------------------------- MODULE ProcessLockProofs -------------------------
(***************************************************************************)
(* ProcessLock excludes for any number of instances, pids and attempts, as *)
(* long as no owner dies with the lock.  The inductive invariant follows   *)
(* what a slow process may remember: the instance it saw at the path is    *)
(* either the owner still or has finished, and never links again.          *)
(***************************************************************************)
EXTENDS ProcessLock, TLAPS

\* The path names the one instance that is between its link and its release.
PathOwned ==
  /\ \A p \in Procs : pc[p] \in Owning => path = p
  /\ path # None => pc[path] \in Owning
  /\ \A p \in Procs : pc[p] \in {"held", "check", "remove"} => owned[p] = p

\* Over is where an instance ends: it has released the lock or never had it.
Over == {"done", "refused"}
Remembered ==
  \A p \in Procs :
    /\ pc[p] \in {"read", "probe", "compare"} =>
         /\ before[p] \in Procs
         /\ pc[before[p]] \in Owning \cup Over
    /\ pc[p] = "probe" => /\ seen[p] \in Procs
                          /\ seen[p] = before[p] \/ pc[before[p]] \in Over
    /\ pc[p] = "compare" => pc[before[p]] \in Over
    /\ pc[p] # "unlink"

IInv ==
  /\ TypeOK
  /\ Orphans = {} => PathOwned /\ Remembered

-----------------------------------------------------------------------------
(* The initial state and the consequences                                  *)

LEMMA InitIInv == Init => IInv
  BY ConstantsAssumption
  DEF Init, IInv, TypeOK, Labels, Orphans, PathOwned, Remembered, Owning, Over

LEMMA IInvExcludes == IInv => ExclusiveWhileOwnersLive
  BY DEF IInv, TypeOK, ExclusiveWhileOwnersLive, MutualExclusion, Holders, PathOwned

\* An instance that died stays dead, at the step where it died.
LEMMA OrphansStay ==
  ASSUME TypeOK, [Next]_vars
  PROVE  Orphans \subseteq Orphans'
<1>1. CASE UNCHANGED vars
  BY <1>1 DEF vars, Orphans
<1>2. ASSUME NEW p \in Procs,
             Start(p) \/ Acquire(p) \/ Finish(p) \/ Check(p) \/ Remove(p) \/ Die(p)
      PROVE  Orphans \subseteq Orphans'
  <2>1. CASE Start(p)
    BY <2>1 DEF Start, Again, Goto, Orphans, Owning, TypeOK
  <2>2. CASE Die(p)
    BY <2>2 DEF Die, Orphans, Owning, TypeOK
  <2>3. CASE Acquire(p)
    BY <2>3 DEF Acquire, Link, Own, Stat, Read, Probe, Compare, Unlink, At, Goto, Again,
                Orphans, Owning, TypeOK
  <2>4. CASE Finish(p) \/ Check(p) \/ Remove(p)
    BY <2>4 DEF Finish, Check, Remove, At, Goto, Orphans, Owning, TypeOK
  <2>. QED  BY <1>2, <2>1, <2>2, <2>3, <2>4
<1>. QED  BY <1>1, <1>2 DEF Next

-----------------------------------------------------------------------------
(* Types                                                                   *)

LEMMA TypeKeeps ==
  ASSUME TypeOK, [Next]_vars
  PROVE  TypeOK'
<1>. USE ConstantsAssumption DEF TypeOK, Labels
<1>1. CASE UNCHANGED vars
  BY <1>1 DEF vars
<1>2. ASSUME NEW p \in Procs,
             Start(p) \/ Acquire(p) \/ Finish(p) \/ Check(p) \/ Remove(p) \/ Die(p)
      PROVE  TypeOK'
  <2>. attempt[p] < Attempts => attempt[p] + 1 \in 0..Attempts
    OBVIOUS
  <2>1. CASE Start(p)
    BY <2>1 DEF Start, Again, Goto
  <2>2. CASE Link(p)
    BY <2>2 DEF Link, At, Goto
  <2>3. CASE Own(p)
    BY <2>3 DEF Own, At, Goto
  <2>4. CASE Stat(p)
    BY <2>4 DEF Stat, At, Goto, Again
  <2>5. CASE Read(p) \/ Probe(p)
    BY <2>5 DEF Read, Probe, At, Goto
  <2>6. CASE Compare(p)
    BY <2>6 DEF Compare, At, Goto, Again
  <2>7. CASE Unlink(p)
    BY <2>7 DEF Unlink, At, Goto, Again
  <2>8. CASE Finish(p) \/ Check(p) \/ Remove(p) \/ Die(p)
    BY <2>8 DEF Finish, Check, Remove, Die, At, Goto
  <2>. QED
    BY <1>2, <2>1, <2>2, <2>3, <2>4, <2>5, <2>6, <2>7, <2>8 DEF Acquire
<1>. QED  BY <1>1, <1>2 DEF Next

-----------------------------------------------------------------------------
(* Each step of a lock without orphans keeps PathOwned and Remembered      *)

\* The steps up to the link of an instance that owns nothing yet.
LEMMA AcquireKeeps ==
  ASSUME TypeOK, TypeOK', Orphans = {}, Orphans' = {}, PathOwned, Remembered,
         NEW p \in Procs, Start(p) \/ Link(p) \/ Own(p)
  PROVE  PathOwned' /\ Remembered'
<1>. USE ConstantsAssumption DEF TypeOK, Owning, Over, PathOwned, Remembered
<1>1. CASE Start(p)
  BY <1>1 DEF Start, Again, Goto
<1>2. CASE Link(p)
  <2>1. CASE path = None
    <3>1. path' = p /\ pc' = [pc EXCEPT ![p] = "own"] /\ pc[p] = "link"
          /\ UNCHANGED <<before, seen, owned>>
      BY <1>2, <2>1 DEF Link, At, Goto
    <3>2. PathOwned'
      BY <2>1, <3>1
    <3>3. Remembered'
      BY <2>1, <3>1
    <3>. QED  BY <3>2, <3>3
  <2>2. CASE path # None
    BY <1>2, <2>2 DEF Link, At, Goto
  <2>. QED  BY <2>1, <2>2
<1>3. CASE Own(p)
  <2>1. path = p /\ p # None
    BY <1>3 DEF Own, At
  <2>2. pc' = [pc EXCEPT ![p] = "held"] /\ owned' = [owned EXCEPT ![p] = p]
        /\ pc[p] = "own" /\ UNCHANGED <<path, before, seen>>
    BY <1>3, <2>1 DEF Own, At, Goto
  <2>3. PathOwned'
    BY <2>1, <2>2
  <2>4. Remembered'
    BY <2>2
  <2>. QED  BY <2>3, <2>4
<1>. QED  BY <1>1, <1>2, <1>3

\* The steps that look at another instance's lock.
LEMMA RecoverKeeps ==
  ASSUME TypeOK, TypeOK', Orphans = {}, Orphans' = {}, PathOwned, Remembered,
         NEW p \in Procs, Stat(p) \/ Read(p) \/ Probe(p) \/ Compare(p) \/ Unlink(p)
  PROVE  PathOwned' /\ Remembered'
<1>. USE ConstantsAssumption DEF TypeOK, Owning, Over, PathOwned, Remembered
<1>1. CASE Stat(p)
  <2>1. CASE path = None
    BY <1>1, <2>1 DEF Stat, At, Goto, Again
  <2>2. CASE path # None
    BY <1>1, <2>2 DEF Stat, At, Goto
  <2>. QED  BY <2>1, <2>2
<1>2. CASE Read(p)
  <2>1. path # None /\ path # before[p] => pc[before[p]] \in Over
    BY <1>2 DEF Read, At
  <2>. QED  BY <1>2, <2>1 DEF Read, At, Goto
<1>3. CASE Probe(p)
  <2>1. CASE Runs(pid[seen[p]])
    BY <1>3, <2>1 DEF Probe, At, Goto
  <2>2. CASE ~Runs(pid[seen[p]])
    <3>1. seen[p] \in Procs /\ seen[p] \notin alive
      BY <1>3, <2>2 DEF Probe, At, Runs
    <3>2. pc[seen[p]] \notin Owning
      BY <3>1 DEF Orphans
    <3>3. pc[before[p]] \in Over
      BY <1>3, <3>2 DEF Probe, At
    <3>. QED  BY <1>3, <2>2, <3>3 DEF Probe, At, Goto
  <2>. QED  BY <2>1, <2>2
<1>4. CASE Compare(p)
  <2>1. path # before[p]
    BY <1>4 DEF Compare, At
  <2>. QED  BY <1>4, <2>1 DEF Compare, At, Goto, Again
<1>5. CASE Unlink(p)
  BY <1>5 DEF Unlink, At
<1>. QED  BY <1>1, <1>2, <1>3, <1>4, <1>5

\* The owner's work, its release, and the death of an instance that owns nothing.
LEMMA ReleaseKeeps ==
  ASSUME TypeOK, TypeOK', Orphans = {}, Orphans' = {}, PathOwned, Remembered,
         NEW p \in Procs, Finish(p) \/ Check(p) \/ Remove(p) \/ Die(p)
  PROVE  PathOwned' /\ Remembered'
<1>. USE ConstantsAssumption DEF TypeOK, Owning, Over, PathOwned, Remembered
<1>1. CASE Finish(p)
  BY <1>1 DEF Finish, At, Goto
<1>2. CASE Check(p)
  BY <1>2 DEF Check, At, Goto
<1>3. CASE Remove(p)
  BY <1>3 DEF Remove, At, Goto
<1>4. CASE Die(p)
  BY <1>4 DEF Die
<1>. QED  BY <1>1, <1>2, <1>3, <1>4

-----------------------------------------------------------------------------
(* The theorems                                                            *)

LEMMA NextKeeps == IInv /\ [Next]_vars => IInv'
<1>. SUFFICES ASSUME IInv, [Next]_vars
              PROVE  IInv'
  OBVIOUS
<1>1. TypeOK /\ TypeOK'
  BY TypeKeeps DEF IInv
<1>2. ASSUME Orphans' = {}
      PROVE  PathOwned' /\ Remembered'
  <2>1. Orphans = {} /\ PathOwned /\ Remembered
    BY <1>1, <1>2, OrphansStay DEF IInv
  <2>2. CASE UNCHANGED vars
    BY <2>1, <2>2 DEF vars, PathOwned, Remembered
  <2>3. ASSUME NEW p \in Procs,
               Start(p) \/ Acquire(p) \/ Finish(p) \/ Check(p) \/ Remove(p) \/ Die(p)
        PROVE  PathOwned' /\ Remembered'
    BY <1>1, <1>2, <2>1, <2>3, AcquireKeeps, RecoverKeeps, ReleaseKeeps DEF Acquire
  <2>. QED  BY <2>2, <2>3 DEF Next
<1>. QED  BY <1>1, <1>2 DEF IInv

\* The invariant holds of every behavior.
THEOREM Invariance == Spec => []IInv
<1>. QED  BY InitIInv, NextKeeps, PTL DEF Spec

\* Labels, instances and attempts stay what the loop of lines 8-19 can make of them.
THEOREM TypeCorrect == Spec => []TypeOK
<1>. QED  BY Invariance, PTL DEF IInv

\* Whatever other instances do, remember or reuse, two instances never own the lock at
\* once unless an owner died with it (lines 9-17 of the code).
THEOREM Excludes == Spec => []ExclusiveWhileOwnersLive
<1>. QED  BY Invariance, IInvExcludes, PTL
=============================================================================
