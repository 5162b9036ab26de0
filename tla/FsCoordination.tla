--------------------------- MODULE FsCoordination ---------------------------
(***************************************************************************)
(* Coordination of workspace mutations (src/src/core/fs_coordination.rs):  *)
(* an actor that mutates several files first takes a lock file per file,   *)
(* in the order of the resource keys, and drops them all with its guard.   *)
(*                                                                         *)
(* Actors are threads of the processes that share the lock directory.      *)
(* Each file-system call is a step.  The in-process mutex of a key is      *)
(* let go again as soon as it is taken (fs_coordination.rs:358), before    *)
(* the lock file is created, so it orders nothing and is no state here; a  *)
(* timeout on it is one of the failures of IoFailure.  What it leaves      *)
(* behind, an entry of the process-wide registry, is state.                *)
(***************************************************************************)
EXTENDS Integers, FiniteSets, FiniteSetsExt

CONSTANTS
  Actors,          \* threads that mutate workspace files
  Processes,
  ProcessOf,       \* the process each actor runs in
  Paths,           \* workspace-relative paths, as callers spell them
  MaxKey,          \* the largest digest
  Keys,            \* resource keys: digests, which are ordered
  KeyOf,           \* the key of each path, or NoKey
  NoKey,           \* resource_key() of a path it refuses
  Requests,        \* the sets of paths that callers ask for
  MaxLocksPerSet,  \* MAX_LOCKS_PER_SET
  MaxRegistryKeys, \* MAX_REGISTRY_KEYS
  StaleAge,        \* STALE_LOCK_AGE, in ticks
  AcquireTimeout,  \* ACQUIRE_TIMEOUT, in ticks
  HoldLimit,       \* longest time a mutation keeps its guard, in ticks
  MaxCrashes       \* how many times a process may be killed

ASSUME CoordinationAssumption ==
  /\ ProcessOf \in [Actors -> Processes]
  /\ MaxKey \in Nat
  /\ Keys \subseteq 0..MaxKey
  /\ NoKey \notin Keys
  /\ KeyOf \in [Paths -> Keys \cup {NoKey}]
  /\ IsFiniteSet(Paths)
  /\ Requests \subseteq SUBSET Paths
  /\ MaxLocksPerSet \in Nat \ {0}
  /\ MaxRegistryKeys \in Nat
  /\ StaleAge \in Nat
  /\ AcquireTimeout \in Nat \ {0}
  /\ HoldLimit \in Nat \ {0}
  /\ MaxCrashes \in Nat

VARIABLES
  lockFiles,  \* keys whose lock file exists
  lockAge,    \* time since the mtime of each lock file
  registry,   \* the keys each process's registry has an entry for
  pc,         \* where each actor is
  want,       \* keys an actor's acquire() still has to take
  held,       \* keys of the guards in an actor's CoordinationSet
  clock,      \* time since the actor's present wait, hold or release began
  crashes,    \* processes killed so far
  orphans,    \* history: lock files a kill or a failed removal left behind
  foundStale  \* history: some acquire() has found a stale lock file

history == <<orphans, foundStale>>
files == <<lockFiles, lockAge>>
vars == <<files, registry, pc, want, held, clock, crashes, history>>

AcquireSteps == {"next", "create", "check", "remove", "wait"}
Steps == {"idle", "guarded", "release"} \cup AcquireSteps

ClockCap == IF AcquireTimeout > HoldLimit THEN AcquireTimeout ELSE HoldLimit

Acquiring(a) == pc[a] \in AcquireSteps

\* The keys of the paths S, sorted and deduplicated by being a set.
KeysOf(S) == {KeyOf[p] : p \in S}

\* Mutant: two callers that name their files in different orders lock them
\* in different orders.
KeyToAcquire_AsNamed(a) ==
  IF a = CHOOSE b \in Actors : TRUE THEN Max(want[a]) ELSE Min(want[a])

\* Keys are acquired in ascending order.
KeyToAcquire(a) == Min(want[a])

\* A Vec drops its elements front to back, that is, in the same order.
KeyToRelease(a) == Min(held[a])

Init ==
  /\ lockFiles = {}
  /\ lockAge = [k \in Keys |-> 0]
  /\ registry = [p \in Processes |-> {}]
  /\ pc = [a \in Actors |-> "idle"]
  /\ want = [a \in Actors |-> {}]
  /\ held = [a \in Actors |-> {}]
  /\ clock = [a \in Actors |-> 0]
  /\ crashes = 0
  /\ orphans = {}
  /\ foundStale = FALSE

Goto(a, step) == pc' = [pc EXCEPT ![a] = step]

Enter(a, step) ==
  /\ Goto(a, step)
  /\ clock' = [clock EXCEPT ![a] = 0]

\* Mutant: an error leaves the keys acquired so far behind.
Fail_KeepsPartial(a) ==
  /\ Enter(a, "release")
  /\ want' = [want EXCEPT ![a] = {}]
  /\ held' = [held EXCEPT ![a] = {}]

\* remove_file of the lock file k, whoever made it.  Every caller ignores a
\* failure, which leaves the file where it is.
Remove(k) ==
  /\ lockFiles' = lockFiles \ {k}
  /\ lockAge' = [lockAge EXCEPT ![k] = 0]
  /\ orphans' = orphans \ {k}

\* acquire_one failed: acquire() drops the partial set and returns the error.
Fail(a) ==
  /\ Enter(a, "release")
  /\ want' = [want EXCEPT ![a] = {}]
  /\ UNCHANGED held

(***************************************************************************)
(* FsCoordinator::acquire                                                  *)
(***************************************************************************)

\* acquire() on the paths S.  A set that is too large or has a path without
\* a key is refused before anything is locked, and changes no state.
Request(a, S) ==
  /\ pc[a] = "idle"
  /\ Cardinality(S) <= MaxLocksPerSet
  /\ NoKey \notin KeysOf(S)
  /\ want' = [want EXCEPT ![a] = KeysOf(S)]
  /\ Enter(a, "next")
  /\ UNCHANGED <<files, registry, held, crashes, history>>

\* Mutant: the bound of the registry is not enforced.
InRegistry_Unbounded(a) == TRUE

\* registry_entry(): the key has an entry, or there is room for one.
InRegistry(a) ==
  LET entries == registry[ProcessOf[a]]
  IN  KeyToAcquire(a) \in entries \/ Cardinality(entries) < MaxRegistryKeys

NextKey(a) ==
  /\ pc[a] = "next"
  /\ want[a] # {}
  /\ InRegistry(a)
  /\ registry' = [registry EXCEPT ![ProcessOf[a]] = @ \cup {KeyToAcquire(a)}]
  /\ Enter(a, "create")
  /\ UNCHANGED <<files, want, held, crashes, history>>

Saturated(a) ==
  /\ pc[a] = "next"
  /\ want[a] # {}
  /\ ~InRegistry(a)
  /\ Fail(a)
  /\ UNCHANGED <<files, registry, crashes, history>>

\* Every key is held: acquire() returns the set.
Acquired(a) ==
  /\ pc[a] = "next"
  /\ want[a] = {}
  /\ Enter(a, "guarded")
  /\ UNCHANGED <<files, registry, want, held, crashes, history>>

\* Mutant: the lock file is opened with create instead of create_new.
CreateNew_Shared(a) ==
  /\ pc[a] = "create"
  /\ LET k == KeyToAcquire(a)
     IN  /\ lockFiles' = lockFiles \cup {k}
         /\ lockAge' = [lockAge EXCEPT ![k] = 0]
         /\ held' = [held EXCEPT ![a] = @ \cup {k}]
         /\ want' = [want EXCEPT ![a] = @ \ {k}]
  /\ Enter(a, "next")
  /\ UNCHANGED <<registry, crashes, history>>

CreateNew(a) ==
  /\ pc[a] = "create"
  /\ LET k == KeyToAcquire(a)
     IN  /\ k \notin lockFiles
         /\ lockFiles' = lockFiles \cup {k}
         /\ lockAge' = [lockAge EXCEPT ![k] = 0]
         /\ held' = [held EXCEPT ![a] = @ \cup {k}]
         /\ want' = [want EXCEPT ![a] = @ \ {k}]
  /\ Enter(a, "next")
  /\ UNCHANGED <<registry, crashes, history>>

\* Mutant: the deadline is set inside the loop, once per attempt.
CreateExists_Restarts(a) ==
  /\ pc[a] = "create"
  /\ KeyToAcquire(a) \in lockFiles
  /\ Enter(a, "check")
  /\ UNCHANGED <<files, registry, want, held, crashes, history>>

CreateExists(a) ==
  /\ pc[a] = "create"
  /\ KeyToAcquire(a) \in lockFiles
  /\ Goto(a, "check")
  /\ UNCHANGED <<files, registry, want, held, clock, crashes, history>>

\* create_new fails with PermissionDenied: no stale check, only a wait.
CreateDenied(a) ==
  /\ pc[a] = "create"
  /\ Goto(a, "wait")
  /\ UNCHANGED <<files, registry, want, held, clock, crashes, history>>

\* The in-process mutex times out or is poisoned, create_new fails for good,
\* or the mtime of the lock file is unusable: acquire_one returns an error.
IoFailure(a) ==
  /\ pc[a] \in {"create", "check"}
  /\ Fail(a)
  /\ UNCHANGED <<files, registry, crashes, history>>

IsStale(k) == k \in lockFiles /\ lockAge[k] > StaleAge

FindStale(a) ==
  /\ pc[a] = "check"
  /\ IsStale(KeyToAcquire(a))
  /\ foundStale' = TRUE
  /\ Goto(a, "remove")
  /\ UNCHANGED <<files, registry, want, held, clock, crashes, orphans>>

\* The lock file is live, gone, or its metadata cannot be read.
FindNotStale(a) ==
  /\ pc[a] = "check"
  /\ Goto(a, "wait")
  /\ UNCHANGED <<files, registry, want, held, clock, crashes, history>>

\* The remove_file of a stale lock, whichever file is there by now.
Reclaim(a) ==
  /\ pc[a] = "remove"
  /\ Remove(KeyToAcquire(a)) \/ UNCHANGED <<files, orphans>>
  /\ Goto(a, "wait")
  /\ UNCHANGED <<registry, want, held, clock, crashes, foundStale>>

Sleep(a) ==
  /\ pc[a] = "wait"
  /\ clock[a] < AcquireTimeout
  /\ Goto(a, "create")
  /\ UNCHANGED <<files, registry, want, held, clock, crashes, history>>

\* Mutant: the deadline is never looked at.
TimedOut_Never(a) ==
  /\ pc[a] = "wait"
  /\ clock[a] >= AcquireTimeout
  /\ Goto(a, "create")
  /\ UNCHANGED <<files, registry, want, held, clock, crashes, history>>

\* Mutant: an acquire() that gives up removes the lock file it waited for.
TimedOut_Removes(a) ==
  /\ pc[a] = "wait"
  /\ clock[a] >= AcquireTimeout
  /\ Remove(KeyToAcquire(a))
  /\ Fail(a)
  /\ UNCHANGED <<registry, crashes, foundStale>>

TimedOut(a) ==
  /\ pc[a] = "wait"
  /\ clock[a] >= AcquireTimeout
  /\ Fail(a)
  /\ UNCHANGED <<files, registry, crashes, history>>

(***************************************************************************)
(* The drop of a CoordinationSet: InnerGuard::drop of one guard after the  *)
(* other.                                                                  *)
(***************************************************************************)
Finish(a) ==
  /\ pc[a] = "guarded"
  /\ Goto(a, "release")
  /\ UNCHANGED <<files, registry, want, held, clock, crashes, history>>

ReleaseOne(a) ==
  /\ pc[a] = "release"
  /\ held[a] # {}
  /\ LET k == KeyToRelease(a)
     IN  /\ held' = [held EXCEPT ![a] = @ \ {k}]
         /\ \/ Remove(k)
            \/ orphans' = orphans \cup ({k} \cap lockFiles) /\ UNCHANGED files
  /\ UNCHANGED <<registry, pc, want, clock, crashes, foundStale>>

Released(a) ==
  /\ pc[a] = "release"
  /\ held[a] = {}
  /\ Enter(a, "idle")
  /\ UNCHANGED <<files, registry, want, held, crashes, history>>

(***************************************************************************)
(* The environment                                                         *)
(***************************************************************************)

\* A process is killed: its threads and its registry are gone, its lock
\* files stay.
Crash(p) ==
  /\ crashes < MaxCrashes
  /\ crashes' = crashes + 1
  /\ LET lost == {a \in Actors : ProcessOf[a] = p}
     IN  /\ \E a \in lost : pc[a] # "idle"
         /\ pc' = [a \in Actors |-> IF a \in lost THEN "idle" ELSE pc[a]]
         /\ want' = [a \in Actors |-> IF a \in lost THEN {} ELSE want[a]]
         /\ held' = [a \in Actors |-> IF a \in lost THEN {} ELSE held[a]]
         /\ clock' = [a \in Actors |-> IF a \in lost THEN 0 ELSE clock[a]]
         /\ orphans' =
              orphans \cup {k \in lockFiles : \E a \in lost : k \in held[a]}
  /\ registry' = [registry EXCEPT ![p] = {}]
  /\ UNCHANGED <<files, foundStale>>

\* No step of a takes longer than this lets it: a wait is over when its
\* deadline is, a mutation when HoldLimit is, and the rest takes no time.
InTime(a) ==
  /\ pc[a] # "next"
  /\ Acquiring(a) => clock[a] < AcquireTimeout
  /\ pc[a] \in {"guarded", "release"} => clock[a] < HoldLimit

Tick ==
  /\ \A a \in Actors : InTime(a)
  /\ lockAge' = [k \in Keys |->
                   IF k \in lockFiles /\ lockAge[k] <= StaleAge
                   THEN lockAge[k] + 1 ELSE lockAge[k]]
  /\ clock' = [a \in Actors |->
                 IF pc[a] # "idle" THEN clock[a] + 1 ELSE clock[a]]
  /\ UNCHANGED <<lockFiles, registry, pc, want, held, crashes, history>>

Proceed(a) ==
  \/ NextKey(a)
  \/ Saturated(a)
  \/ Acquired(a)
  \/ CreateNew(a)
  \/ CreateExists(a)
  \/ CreateDenied(a)
  \/ IoFailure(a)
  \/ FindStale(a)
  \/ FindNotStale(a)
  \/ Reclaim(a)
  \/ Sleep(a)
  \/ TimedOut(a)
  \/ Finish(a)
  \/ ReleaseOne(a)
  \/ Released(a)

Next ==
  \/ Tick
  \/ \E a \in Actors : Proceed(a) \/ \E S \in Requests : Request(a, S)
  \/ \E p \in Processes : Crash(p)

Spec == Init /\ [][Next]_vars

(***************************************************************************)
(* Fairness: the scheduler runs every thread, and time does not stand      *)
(* still for ever: InTime only says how much of it a step may take.        *)
(***************************************************************************)
FairSpec ==
  /\ Spec
  /\ SF_vars(Tick)
  /\ \A a \in Actors : WF_vars(Proceed(a))

(***************************************************************************)
(* Properties                                                              *)
(***************************************************************************)

\* Type invariant: every variable stays within what fs_coordination.rs can
\* produce, and the registry within MAX_REGISTRY_KEYS.
TypeOK ==
  /\ lockFiles \subseteq Keys
  /\ lockAge \in [Keys -> 0..(StaleAge + 1)]
  /\ registry \in [Processes -> SUBSET Keys]
  /\ \A p \in Processes : Cardinality(registry[p]) <= MaxRegistryKeys
  /\ pc \in [Actors -> Steps]
  /\ want \in [Actors -> SUBSET Keys]
  /\ held \in [Actors -> SUBSET Keys]
  /\ clock \in [Actors -> 0..ClockCap]
  /\ crashes \in 0..MaxCrashes
  /\ orphans \subseteq lockFiles
  /\ foundStale \in BOOLEAN

\* Whoever mutates a file does it alone (the promise of CoordinationSet): the
\* guards of two actors cover no common resource, whoever is killed and
\* whichever lock files stay behind, until somebody finds a stale one.
MutualExclusion ==
  ~foundStale =>
    \A a, b \in Actors : a # b => held[a] \cap held[b] = {}

\* a waits for a lock file that is b's.
WaitsFor(a, b) == pc[a] = "wait" /\ KeyToAcquire(a) \in held[b]

\* "Overlapping sets can never deadlock cycle" (fs_coordination.rs:26-28): no
\* group of actors each of which waits for another one of the group.
NoWaitCycle ==
  \A S \in (SUBSET Actors) \ {{}} :
    ~ \A a \in S : \E b \in S : WaitsFor(a, b)

\* A failed or finished acquire() leaves nothing behind, early return or not:
\* every lock file belongs to a guard, but for those whose holder was killed
\* or whose removal failed (fs_coordination.rs:214-216).
NothingLeaks == \A k \in lockFiles \ orphans : \E a \in Actors : k \in held[a]

\* Until somebody finds a stale lock file, that of a guard stays as long as
\* the guard: no drop, failure or timeout of another actor removes it.
GuardsKeepTheirFiles ==
  ~foundStale => \A a \in Actors : held[a] \subseteq lockFiles

\* Every set asked for is waited for, one ACQUIRE_TIMEOUT per further key,
\* and used within STALE_LOCK_AGE.
SetsFit ==
  \A S \in Requests :
    S # {} => (Cardinality(S) - 1) * AcquireTimeout + HoldLimit <= StaleAge

\* A guard whose set fits is never taken for abandoned: while its actor
\* waits for the rest of the set, works or lets go, none of its lock files
\* outlives STALE_LOCK_AGE, whoever else waits for them or is killed.
GuardsStayFresh ==
  SetsFit => \A a \in Actors : \A k \in held[a] : lockAge[k] <= StaleAge

\* The keys a finished acquire() gave an actor.
Guarded(a) == IF pc[a] = "guarded" THEN held[a] ELSE {}

\* Until somebody finds a stale lock file, the guards implement the sets of
\* LockSets: a set is handed out at once, when the last of its keys is
\* taken, and only if all of it is free.
Guards == INSTANCE LockSets WITH
  guarded <- [a \in Actors |-> IF foundStale THEN {} ELSE Guarded(a)]

ImplementsLockSets == Guards!Spec

\* Two finished acquire()s never both cover a resource: a lock file is
\* reclaimed when it is abandoned, that is "the holder crashed without
\* cleanup" (fs_coordination.rs:78).
GuardsExclude ==
  \A a, b \in Actors : a # b => Guarded(a) \cap Guarded(b) = {}

\* Every acquire() returns, with a set or with an error: "bounded so a
\* wedged sibling cannot hang a tool call" (fs_coordination.rs:75).
AcquireReturns == \A a \in Actors : Acquiring(a) ~> ~Acquiring(a)

=============================================================================
