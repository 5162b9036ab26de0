----------------------------- MODULE StoreLock -----------------------------
(***************************************************************************)
(* The cross-process lock around every JSON store of a project             *)
(* (src/src/mcp/store_lock.rs) and the load-modify-save cycle it protects, *)
(* the same in every store that takes it (for instance                     *)
(* src/src/core/tasks.rs).                                                 *)
(*                                                                         *)
(* Agents are operating-system processes that share only the lock file and *)
(* the store file, so every file-system call is a step of its own: the     *)
(* create_new that decides who holds the lock, the metadata read that      *)
(* decides that a lock is stale, and the remove that follows it.           *)
(***************************************************************************)
EXTENDS Naturals

CONSTANTS
  Agents,         \* processes that update the same store
  StaleAge,       \* STALE_LOCK_AGE, in ticks
  AcquireTimeout, \* ACQUIRE_TIMEOUT, in ticks
  HoldLimit,      \* longest time a load-modify-save cycle may take, in ticks
  MaxCrashes      \* how many times an agent may be killed

ASSUME LockAssumption ==
  /\ StaleAge \in Nat
  /\ AcquireTimeout \in Nat
  /\ HoldLimit \in Nat \ {0}
  /\ MaxCrashes \in Nat

VARIABLES
  lockExists,  \* the <store>.lock file exists
  lockAge,     \* time since its mtime
  pc,          \* where each agent is
  clock,       \* time since acquire() began, or since it returned the guard
  current,     \* history: the agent's loaded copy is still what is on disk
  crashes,     \* agents killed so far
  abandoned    \* history: a lock file has been left without a holder

vars == <<lockExists, lockAge, pc, clock, current, crashes, abandoned>>

AcquireSteps == {"create", "check", "remove", "wait"}
HoldSteps == {"held", "loaded", "saved"}
Steps == {"idle"} \cup AcquireSteps \cup HoldSteps

ClockCap == IF AcquireTimeout > HoldLimit THEN AcquireTimeout ELSE HoldLimit

Acquiring(a) == pc[a] \in AcquireSteps
Holds(a) == pc[a] \in HoldSteps

Init ==
  /\ lockExists = FALSE
  /\ lockAge = 0
  /\ pc = [a \in Agents |-> "idle"]
  /\ clock = [a \in Agents |-> 0]
  /\ current = [a \in Agents |-> FALSE]
  /\ crashes = 0
  /\ abandoned = FALSE

Goto(a, step) == pc' = [pc EXCEPT ![a] = step]

\* The agent moves on, and its clock starts again.
Enter(a, step) ==
  /\ Goto(a, step)
  /\ clock' = [clock EXCEPT ![a] = 0]

LockFileUnchanged == UNCHANGED <<lockExists, lockAge>>

(***************************************************************************)
(* StoreLock::acquire                                                      *)
(***************************************************************************)
Begin(a) ==
  /\ pc[a] = "idle"
  /\ Enter(a, "create")
  /\ LockFileUnchanged
  /\ UNCHANGED <<current, crashes, abandoned>>

\* create_new succeeds: the agent holds the lock.
CreateNew(a) ==
  /\ pc[a] = "create"
  /\ ~lockExists
  /\ lockExists' = TRUE
  /\ lockAge' = 0
  /\ Enter(a, "held")
  /\ UNCHANGED <<current, crashes, abandoned>>

\* Mutant: a create that does not ask for exclusive creation.
CreateExists_Shared(a) ==
  /\ pc[a] = "create"
  /\ lockExists
  /\ Enter(a, "held")
  /\ LockFileUnchanged
  /\ UNCHANGED <<current, crashes, abandoned>>

\* create_new fails with AlreadyExists.
CreateExists(a) ==
  /\ pc[a] = "create"
  /\ lockExists
  /\ Goto(a, "check")
  /\ LockFileUnchanged
  /\ UNCHANGED <<clock, current, crashes, abandoned>>

\* create_new fails with PermissionDenied: no stale check, only a wait.
CreateDenied(a) ==
  /\ pc[a] = "create"
  /\ Goto(a, "wait")
  /\ LockFileUnchanged
  /\ UNCHANGED <<clock, current, crashes, abandoned>>

\* create_new fails with any other error, which acquire() returns.
CreateError(a) ==
  /\ pc[a] = "create"
  /\ Enter(a, "idle")
  /\ LockFileUnchanged
  /\ UNCHANGED <<current, crashes, abandoned>>

\* Mutant: a lock is stale as soon as it reaches the stale age.
IsStale_AtAge == lockExists /\ lockAge >= StaleAge

\* is_stale on readable metadata; a file that is gone is not stale.
IsStale == lockExists /\ lockAge > StaleAge

FindStale(a) ==
  /\ pc[a] = "check"
  /\ IsStale
  /\ Goto(a, "remove")
  /\ LockFileUnchanged
  /\ UNCHANGED <<clock, current, crashes, abandoned>>

\* Not stale, or the metadata could not be read.
FindNotStale(a) ==
  /\ pc[a] = "check"
  /\ Goto(a, "wait")
  /\ LockFileUnchanged
  /\ UNCHANGED <<clock, current, crashes, abandoned>>

\* Mutant: the stale lock file is left in place.
Reclaim_Keeps(a) ==
  /\ pc[a] = "remove"
  /\ Goto(a, "create")
  /\ LockFileUnchanged
  /\ UNCHANGED <<clock, current, crashes, abandoned>>

\* The remove_file of a stale lock, whichever file is there by now.
Reclaim(a) ==
  /\ pc[a] = "remove"
  /\ lockExists' = FALSE
  /\ Goto(a, "create")
  /\ UNCHANGED <<lockAge, clock, current, crashes, abandoned>>

\* The remove_file fails, for instance on a lock file of another user: the
\* error is ignored and the loop continues without a look at the deadline.
ReclaimFails(a) ==
  /\ pc[a] = "remove"
  /\ Goto(a, "create")
  /\ LockFileUnchanged
  /\ UNCHANGED <<clock, current, crashes, abandoned>>

Sleep(a) ==
  /\ pc[a] = "wait"
  /\ clock[a] < AcquireTimeout
  /\ Goto(a, "create")
  /\ LockFileUnchanged
  /\ UNCHANGED <<clock, current, crashes, abandoned>>

\* The deadline has passed: acquire() bails out without the lock.
GiveUp(a) ==
  /\ pc[a] = "wait"
  /\ clock[a] >= AcquireTimeout
  /\ Enter(a, "idle")
  /\ LockFileUnchanged
  /\ UNCHANGED <<current, crashes, abandoned>>

(***************************************************************************)
(* The load-modify-save cycle under the guard, and its drop.               *)
(***************************************************************************)
Load(a) ==
  /\ pc[a] = "held"
  /\ Goto(a, "loaded")
  /\ current' = [current EXCEPT ![a] = TRUE]
  /\ LockFileUnchanged
  /\ UNCHANGED <<clock, crashes, abandoned>>

\* The atomic rename of the new contents over the store file: every other
\* agent's loaded copy is out of date from here on.
Save(a) ==
  /\ pc[a] = "loaded"
  /\ Goto(a, "saved")
  /\ current' = [b \in Agents |-> b = a]
  /\ LockFileUnchanged
  /\ UNCHANGED <<clock, crashes, abandoned>>

\* The guard is dropped, after the save or on an early return.  A failure of
\* its remove_file is ignored and leaves the lock file behind.
Drop(a) ==
  /\ Holds(a)
  /\ \/ lockExists' = FALSE /\ UNCHANGED abandoned
     \/ UNCHANGED lockExists /\ abandoned' = (abandoned \/ lockExists)
  /\ Enter(a, "idle")
  /\ UNCHANGED <<lockAge, current, crashes>>

\* The agent is killed; a fresh process takes its place.
Crash(a) ==
  /\ pc[a] # "idle"
  /\ crashes < MaxCrashes
  /\ crashes' = crashes + 1
  /\ abandoned' = (abandoned \/ Holds(a))
  /\ Enter(a, "idle")
  /\ LockFileUnchanged
  /\ UNCHANGED current

\* Mutant: the age of a lock is not cut off once it is known to be stale.
Tick_Uncapped ==
  /\ \A a \in Agents : Holds(a) => clock[a] < HoldLimit
  /\ lockAge' = lockAge + 1
  /\ UNCHANGED <<lockExists, pc, clock, current, crashes, abandoned>>

\* Time passes, but never so that a cycle under the lock outlives HoldLimit.
Tick ==
  /\ \A a \in Agents : Holds(a) => clock[a] < HoldLimit
  /\ lockAge' = IF lockExists /\ lockAge <= StaleAge THEN lockAge + 1
                ELSE lockAge
  /\ clock' = [a \in Agents |->
                 IF pc[a] # "idle" /\ clock[a] < ClockCap THEN clock[a] + 1
                 ELSE clock[a]]
  /\ UNCHANGED <<lockExists, pc, current, crashes, abandoned>>

\* The steps an agent takes by itself once it has called acquire().
Proceed(a) ==
  \/ CreateNew(a)
  \/ CreateExists(a)
  \/ CreateDenied(a)
  \/ CreateError(a)
  \/ FindStale(a)
  \/ FindNotStale(a)
  \/ Reclaim(a)
  \/ ReclaimFails(a)
  \/ Sleep(a)
  \/ GiveUp(a)
  \/ Load(a)
  \/ Save(a)
  \/ Drop(a)

Next ==
  \/ Tick
  \/ \E a \in Agents : Begin(a) \/ Proceed(a) \/ Crash(a)

Spec == Init /\ [][Next]_vars

(***************************************************************************)
(* Fairness: the scheduler runs every agent, time passes, and the drop at  *)
(* the end of a scope happens.                                             *)
(***************************************************************************)
FairSpec ==
  /\ Spec
  /\ WF_vars(Tick)
  /\ \A a \in Agents : WF_vars(Proceed(a)) /\ WF_vars(Drop(a))

(***************************************************************************)
(* RetrySpec: in addition some agent keeps calling acquire(), and the      *)
(* errors the file system reports on the way are transient.                *)
(***************************************************************************)
RetrySpec ==
  /\ FairSpec
  /\ \A a \in Agents :
       /\ WF_vars(Begin(a))
       /\ SF_vars(CreateExists(a))
       /\ SF_vars(FindStale(a))
       /\ SF_vars(Reclaim(a))

(***************************************************************************)
(* Properties                                                              *)
(***************************************************************************)

\* Type invariant: the lock file, the agents' steps and their clocks stay
\* within what store_lock.rs can produce.
TypeOK ==
  /\ lockExists \in BOOLEAN
  /\ lockAge \in 0..(StaleAge + 1)
  /\ pc \in [Agents -> Steps]
  /\ clock \in [Agents -> 0..ClockCap]
  /\ current \in [Agents -> BOOLEAN]
  /\ crashes \in 0..MaxCrashes
  /\ abandoned \in BOOLEAN

HoldersExclude == \A a, b \in Agents : Holds(a) /\ Holds(b) => a = b

\* As long as every holder has removed its lock file, at most one agent is
\* between a successful StoreLock::acquire and the drop of its guard
\* ("exclusive lock guarding `target`", store_lock.rs:49).
MutualExclusion == ~abandoned => HoldersExclude

\* No lost update: as long as every holder has removed its lock file, an
\* agent about to save still has in memory what is on disk, so its save
\* overwrites nobody else's update of the store.
NoLostUpdate ==
  ~abandoned => \A a \in Agents : pc[a] = "loaded" => current[a]

\* Every acquire() returns, with the guard or with an error: it "blocks (with
\* a bounded timeout)", store_lock.rs:16.
AcquireReturns == \A a \in Agents : Acquiring(a) ~> ~Acquiring(a)

\* A lock file, the one of a killed agent or of a guard that could not remove
\* it included, does not stay for ever while others want the lock:
\* "a killed agent cannot wedge a project permanently", store_lock.rs:20.
NeverWedged == lockExists ~> ~lockExists

\* "If the remove races with another reclaimer, the next loop iteration's
\* create_new simply fails again" (store_lock.rs:69): the lock excludes even
\* when an abandoned one is reclaimed.
ReclaimExcludes == HoldersExclude

=============================================================================
