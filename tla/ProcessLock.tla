---------------------------- MODULE ProcessLock ----------------------------
(***************************************************************************)
(* acquireProcessLock (scripts/process-lock.ts), the lock file that guards *)
(* the provider's job journal and the EOA, Hedera and exercise scripts.    *)
(* Each process writes a private candidate file with its pid, links it to  *)
(* the lock's path, and recovers the path from an owner that is dead.      *)
(*                                                                         *)
(* Processes are instances: a restarted program is another instance, and   *)
(* may have the pid of one that died.  An inode is named by the instance   *)
(* that created the candidate.  Every system call is a step of its own.    *)
(***************************************************************************)
EXTENDS Integers, FiniteSets

CONSTANTS Procs,    \* process instances
          Pids,     \* the operating system's pids
          Attempts, \* rounds of the loop, 3 in the code
          None

ASSUME ConstantsAssumption ==
  /\ None \notin Procs /\ None \notin Pids
  /\ Attempts \in Nat \ {0}

VARIABLES
  path,     \* the inode the lock's path names, or None
  alive,    \* instances that exist
  pid,      \* the pid each was given when it started
  pc,       \* where each instance is in acquire or release
  attempt,  \* rounds of the loop it has begun
  before,   \* the inode it saw at the path before it read the pid
  seen,     \* the instance whose pid it then read there
  owned     \* the inode stat returned to it after its link succeeded

vars == <<path, alive, pid, pc, attempt, before, seen, owned>>

Labels == {"new", "link", "stat", "read", "probe", "compare", "unlink", "own",
           "held", "check", "remove", "done", "refused"}

Init ==
  /\ path = None
  /\ alive = {}
  /\ pid = [p \in Procs |-> None]
  /\ pc = [p \in Procs |-> "new"]
  /\ attempt = [p \in Procs |-> 0]
  /\ before = [p \in Procs |-> None]
  /\ seen = [p \in Procs |-> None]
  /\ owned = [p \in Procs |-> None]

At(p, label) == p \in alive /\ pc[p] = label
Goto(p, label) == pc' = [pc EXCEPT ![p] = label]

\* process.kill(pid, 0) finds a process with pid i.
Runs(i) == \E q \in alive : pid[q] = i

\* Slip: the rounds are not limited.
Again_Unbounded(p) ==
  Goto(p, "link") /\ attempt' = [attempt EXCEPT ![p] = @ + 1]

\* The loop's next round, or "Operation lock changed; retry later."
Again(p) ==
  IF attempt[p] < Attempts
    THEN Goto(p, "link") /\ attempt' = [attempt EXCEPT ![p] = @ + 1]
    ELSE Goto(p, "refused") /\ UNCHANGED attempt

-----------------------------------------------------------------------------
(* Acquire                                                                 *)

\* A process starts and writes its candidate; pids of live processes differ.
Start(p) ==
  /\ p \notin alive /\ pc[p] = "new"
  /\ \E i \in Pids : ~Runs(i) /\ pid' = [pid EXCEPT ![p] = i]
  /\ alive' = alive \cup {p}
  /\ Again(p)
  /\ UNCHANGED <<path, before, seen, owned>>

\* link(candidate, path) succeeds only when the path is free.
Link(p) ==
  /\ At(p, "link")
  /\ \/ path = None /\ path' = p /\ Goto(p, "own")
     \/ path # None /\ UNCHANGED path /\ Goto(p, "stat")
  /\ UNCHANGED <<alive, pid, attempt, before, seen, owned>>

\* The stat after a successful link; it throws when the path is gone again.
Own(p) ==
  /\ At(p, "own")
  /\ owned' = [owned EXCEPT ![p] = path]
  /\ Goto(p, IF path = None THEN "refused" ELSE "held")
  /\ UNCHANGED <<path, alive, pid, attempt, before, seen>>

Stat(p) ==
  /\ At(p, "stat")
  /\ \/ path = None /\ Again(p) /\ UNCHANGED before
     \/ /\ path # None /\ before' = [before EXCEPT ![p] = path]
        /\ Goto(p, "read") /\ UNCHANGED attempt
  /\ UNCHANGED <<path, alive, pid, seen, owned>>

\* readFile; a path that is gone throws "Unrecognized lock".
Read(p) ==
  /\ At(p, "read")
  /\ \/ path = None /\ Goto(p, "refused") /\ UNCHANGED seen
     \/ path # None /\ seen' = [seen EXCEPT ![p] = path] /\ Goto(p, "probe")
  /\ UNCHANGED <<path, alive, pid, attempt, before, owned>>

\* "Another process owns this operation lock."
Probe(p) ==
  /\ At(p, "probe")
  /\ Goto(p, IF Runs(pid[seen[p]]) THEN "refused" ELSE "compare")
  /\ UNCHANGED <<path, alive, pid, attempt, before, seen, owned>>

\* Slip: the path is removed whatever it names by now.
Compare_Unchecked(p) ==
  /\ At(p, "compare") /\ Goto(p, "unlink")
  /\ UNCHANGED <<path, alive, pid, attempt, before, seen, owned>>

Compare(p) ==
  /\ At(p, "compare")
  /\ \/ path = before[p] /\ Goto(p, "unlink") /\ UNCHANGED attempt
     \/ path # before[p] /\ Again(p)
  /\ UNCHANGED <<path, alive, pid, before, seen, owned>>

\* Slip: the stale lock is left where it is.
Unlink_Nothing(p) ==
  /\ At(p, "unlink") /\ Again(p)
  /\ UNCHANGED <<path, alive, pid, before, seen, owned>>

\* unlink(path) removes whatever the path names by now, or throws.
Unlink(p) ==
  /\ At(p, "unlink")
  /\ path' = None
  /\ \/ path # None /\ Again(p)
     \/ path = None /\ Goto(p, "refused") /\ UNCHANGED attempt
  /\ UNCHANGED <<alive, pid, before, seen, owned>>

-----------------------------------------------------------------------------
(* Release, and the death of a process                                     *)

\* The owner's work ends and it calls release().
Finish(p) ==
  /\ At(p, "held") /\ Goto(p, "check")
  /\ UNCHANGED <<path, alive, pid, attempt, before, seen, owned>>

Check(p) ==
  /\ At(p, "check")
  /\ Goto(p, IF path = owned[p] THEN "remove" ELSE "done")
  /\ UNCHANGED <<path, alive, pid, attempt, before, seen, owned>>

Remove(p) ==
  /\ At(p, "remove")
  /\ path' = None /\ Goto(p, "done")
  /\ UNCHANGED <<alive, pid, attempt, before, seen, owned>>

\* At any moment a process may be gone; its lock stays.
Die(p) ==
  /\ p \in alive
  /\ alive' = alive \ {p}
  /\ UNCHANGED <<path, pid, pc, attempt, before, seen, owned>>

Acquire(p) ==
  \/ Link(p) \/ Own(p) \/ Stat(p) \/ Read(p) \/ Probe(p) \/ Compare(p) \/ Unlink(p)

Next ==
  \E p \in Procs : Start(p) \/ Acquire(p) \/ Finish(p) \/ Check(p) \/ Remove(p) \/ Die(p)

Spec == Init /\ [][Next]_vars

\* The system calls of acquire return.
FairSpec == Spec /\ \A p \in Procs : WF_vars(Acquire(p))

-----------------------------------------------------------------------------
(* What the lock promises                                                  *)

\* Every variable has its type, and only seen and linked inodes are remembered.
TypeOK ==
  /\ path \in Procs \cup {None}
  /\ alive \in SUBSET Procs
  /\ pid \in [Procs -> Pids \cup {None}]
  /\ pc \in [Procs -> Labels]
  /\ attempt \in [Procs -> 0..Attempts]
  /\ before \in [Procs -> Procs \cup {None}]
  /\ seen \in [Procs -> Procs \cup {None}]
  /\ owned \in [Procs -> Procs \cup {None}]

\* From a successful link to the end of the release.
Owning == {"own", "held", "check", "remove"}
Holders == {p \in alive : pc[p] \in Owning}

\* Owners that died without releasing.
Orphans == {p \in Procs \ alive : pc[p] \in Owning}

\* scripts/process-lock.ts:14: while one process owns the lock, another one is refused.
MutualExclusion == \A p, q \in Holders : p = q

\* The lock excludes as long as no owner has died with it, whoever else dies, and
\* whatever a slow process remembers of an owner that has released it since.
ExclusiveWhileOwnersLive == Orphans = {} => MutualExclusion

\* "A dead process can be recovered": a process that finds itself alone gets the lock,
\* unless it was given the dead owner's pid.
Alone(p) == alive = {p} /\ pc[p] = "link" /\ attempt[p] = 1
LoneRecovery ==
  \A p \in Procs :
    Alone(p) /\ (path = None \/ pid[path] # pid[p]) ~> pc[p] = "held" \/ alive # {p}
=============================================================================
