-------------------------- MODULE StoreLockProofs --------------------------
(***************************************************************************)
(* What StoreLock guarantees for every number of agents: when no cycle of  *)
(* load, modify and save outlives STALE_LOCK_AGE, the lock excludes and no *)
(* update of a store is lost until a lock file is abandoned, by a holder   *)
(* that is killed or by a guard that cannot remove it.  Both conditions    *)
(* are needed: StoreLockReclaimRace.cfg shows what one abandoned file is   *)
(* enough for.                                                             *)
(***************************************************************************)
EXTENDS StoreLock, TLAPS

\* The steps of store_lock.rs keep every variable within its type, crashes
\* and slow holders included.
THEOREM TypeCorrect == Spec => []TypeOK
<1>1. Init => TypeOK
  <2> SUFFICES ASSUME Init PROVE TypeOK
    OBVIOUS
  <2>1. 0 \in 0..(StaleAge + 1) /\ 0 \in 0..ClockCap /\ 0 \in 0..MaxCrashes
    BY LockAssumption DEF ClockCap
  <2>2. "idle" \in Steps
    BY DEF Steps
  <2>3. /\ current \in [Agents -> BOOLEAN] /\ lockExists \in BOOLEAN
        /\ abandoned \in BOOLEAN
    BY Zenon DEF Init
  <2>4. QED
    BY <2>1, <2>2, <2>3 DEF Init, TypeOK
<1>2. TypeOK /\ [Next]_vars => TypeOK'
  <2> SUFFICES ASSUME TypeOK, [Next]_vars PROVE TypeOK'
    OBVIOUS
  <2> USE LockAssumption DEF TypeOK, Steps, AcquireSteps, HoldSteps, ClockCap,
                             Goto, Enter, LockFileUnchanged
  <2>idle. CASE UNCHANGED vars
    BY <2>idle DEF vars
  <2>1. CASE Tick
    BY <2>1 DEF Tick
  <2>2. ASSUME NEW a \in Agents, Begin(a) PROVE TypeOK'
    BY <2>2 DEF Begin
  <2>3. ASSUME NEW a \in Agents, Proceed(a) PROVE TypeOK'
    <3>1. CASE CreateNew(a)
      BY <3>1 DEF CreateNew
    <3>2. CASE CreateExists(a)
      BY <3>2 DEF CreateExists
    <3>3. CASE CreateDenied(a)
      BY <3>3 DEF CreateDenied
    <3>4. CASE CreateError(a)
      BY <3>4 DEF CreateError
    <3>5. CASE FindStale(a)
      BY <3>5 DEF FindStale
    <3>6. CASE FindNotStale(a)
      BY <3>6 DEF FindNotStale
    <3>7. CASE Reclaim(a)
      BY <3>7 DEF Reclaim
    <3>8. CASE Sleep(a)
      BY <3>8 DEF Sleep
    <3>9. CASE GiveUp(a)
      BY <3>9 DEF GiveUp
    <3>10. CASE Load(a)
      BY <3>10 DEF Load
    <3>11. CASE Save(a)
      BY <3>11 DEF Save
    <3>14. CASE ReclaimFails(a)
      BY <3>14 DEF ReclaimFails
    <3>12. CASE Drop(a)
      <4>1. /\ lockExists' \in BOOLEAN /\ abandoned' \in BOOLEAN
            /\ UNCHANGED <<lockAge, current, crashes>>
        BY <3>12, Zenon DEF Drop
      <4>2. pc' \in [Agents -> Steps] /\ clock' \in [Agents -> 0..ClockCap]
        BY <3>12 DEF Drop
      <4>3. QED
        BY <4>1, <4>2
    <3>13. QED
      BY <2>3, <3>1, <3>2, <3>3, <3>4, <3>5, <3>6, <3>7, <3>8, <3>9, <3>10,
         <3>11, <3>12, <3>14 DEF Proceed
  <2>4. ASSUME NEW a \in Agents, Crash(a) PROVE TypeOK'
    <3>1. abandoned' \in BOOLEAN /\ UNCHANGED <<lockExists, lockAge, current>>
      BY <2>4, Zenon DEF Crash, LockFileUnchanged
    <3>2. /\ pc' \in [Agents -> Steps] /\ clock' \in [Agents -> 0..ClockCap]
          /\ crashes' \in 0..MaxCrashes
      BY <2>4 DEF Crash
    <3>3. QED
      BY <3>1, <3>2
  <2>5. QED
    BY <2>idle, <2>1, <2>2, <2>3, <2>4 DEF Next
<1>3. QED
  BY <1>1, <1>2, PTL DEF Spec

\* What was abandoned stays in the history.
LEMMA AbandonedStays ==
  ASSUME [Next]_vars, ~abandoned'
  PROVE  ~abandoned
<1>1. CASE Tick
  BY <1>1 DEF Tick
<1>2. ASSUME NEW a \in Agents, Begin(a) \/ Proceed(a) PROVE ~abandoned
  BY <1>2 DEF Begin, Proceed, CreateNew, CreateExists, CreateDenied,
     CreateError, FindStale, FindNotStale, Reclaim, ReclaimFails, Sleep, GiveUp,
     Load, Save, Drop
<1>3. ASSUME NEW a \in Agents, Crash(a) PROVE ~abandoned
  BY <1>3 DEF Crash
<1>4. CASE UNCHANGED vars
  BY <1>4 DEF vars
<1>5. QED
  BY <1>1, <1>2, <1>3, <1>4 DEF Next

(***************************************************************************)
(* The strengthening of MutualExclusion.  A lock file has a live holder,   *)
(* a holder has a lock file exactly as old as its guard, hence never       *)
(* stale, so that nobody ever reaches the remove.                          *)
(***************************************************************************)
HolderInv ==
  /\ \A a \in Agents : pc[a] # "remove"
  /\ \A a \in Agents :
       Holds(a) => lockExists /\ lockAge = clock[a] /\ clock[a] <= HoldLimit
  /\ lockExists => \E a \in Agents : Holds(a)
  /\ HoldersExclude

UntilAbandoned == ~abandoned => HolderInv

\* With cycles no longer than the stale age, the holder invariant is kept by
\* every step before a lock file is abandoned.
LEMMA HolderInvHolds ==
  ASSUME HoldLimit <= StaleAge
  PROVE  Spec => []UntilAbandoned
<1>1. Init => UntilAbandoned
  BY DEF Init, UntilAbandoned, HolderInv, HoldersExclude, Holds, HoldSteps
<1>2. TypeOK /\ UntilAbandoned /\ [Next]_vars => UntilAbandoned'
  <2> SUFFICES ASSUME TypeOK, UntilAbandoned, [Next]_vars, ~abandoned'
               PROVE  HolderInv'
    BY DEF UntilAbandoned
  <2>0. HolderInv
    BY AbandonedStays DEF UntilAbandoned
  <2> USE <2>0, LockAssumption DEF TypeOK, HolderInv, HoldersExclude, Holds,
                                   HoldSteps, Goto, Enter, LockFileUnchanged
  <2>idle. CASE UNCHANGED vars
    BY <2>idle DEF vars
  <2>1. CASE Tick
    <3>1. \A a \in Agents : Holds(a) => lockAge' = clock'[a]
                                        /\ clock'[a] <= HoldLimit
      BY <2>1 DEF Tick, ClockCap
    <3>2. QED
      BY <2>1, <3>1 DEF Tick
  <2>2. ASSUME NEW a \in Agents, Begin(a) PROVE HolderInv'
    BY <2>2 DEF Begin
  <2>3. ASSUME NEW a \in Agents, Proceed(a) PROVE HolderInv'
    <3>1. CASE CreateNew(a)
      BY <3>1 DEF CreateNew
    <3>2. CASE CreateExists(a)
      BY <3>2 DEF CreateExists
    <3>3. CASE CreateDenied(a)
      BY <3>3 DEF CreateDenied
    <3>4. CASE CreateError(a)
      BY <3>4 DEF CreateError
    <3>5. ~FindStale(a)
      BY DEF FindStale, IsStale
    <3>6. CASE FindNotStale(a)
      BY <3>6 DEF FindNotStale
    <3>7. ~Reclaim(a) /\ ~ReclaimFails(a)
      BY DEF Reclaim, ReclaimFails
    <3>8. CASE Sleep(a)
      BY <3>8 DEF Sleep
    <3>9. CASE GiveUp(a)
      BY <3>9 DEF GiveUp
    <3>10. CASE Load(a)
      BY <3>10 DEF Load
    <3>11. CASE Save(a)
      BY <3>11 DEF Save
    <3>12. CASE Drop(a)
      BY <3>12 DEF Drop
    <3>13. QED
      BY <2>3, <3>1, <3>2, <3>3, <3>4, <3>5, <3>6, <3>7, <3>8, <3>9, <3>10,
         <3>11, <3>12 DEF Proceed
  <2>4. ASSUME NEW a \in Agents, Crash(a) PROVE HolderInv'
    BY <2>4 DEF Crash
  <2>5. QED
    BY <2>idle, <2>1, <2>2, <2>3, <2>4 DEF Next
<1>3. QED
  BY <1>1, <1>2, TypeCorrect, PTL DEF Spec

\* StoreLock excludes: until a lock file is abandoned, at most one agent holds
\* the guard.
THEOREM LockExcludes ==
  ASSUME HoldLimit <= StaleAge
  PROVE  Spec => []MutualExclusion
<1>1. UntilAbandoned => MutualExclusion
  BY DEF UntilAbandoned, HolderInv, MutualExclusion
<1>2. QED
  BY <1>1, HolderInvHolds, PTL

\* No update of a store is lost: a save is always based on what is on disk.
THEOREM UpdatesAreNotLost ==
  ASSUME HoldLimit <= StaleAge
  PROVE  Spec => []NoLostUpdate
<1>1. Init => NoLostUpdate
  BY DEF Init, NoLostUpdate
<1>2. TypeOK /\ UntilAbandoned /\ NoLostUpdate /\ [Next]_vars => NoLostUpdate'
  <2> SUFFICES ASSUME TypeOK, UntilAbandoned, NoLostUpdate, [Next]_vars,
                      ~abandoned'
               PROVE  NoLostUpdate'
    BY DEF NoLostUpdate
  <2>0. ~abandoned /\ HolderInv
    BY AbandonedStays DEF UntilAbandoned
  <2> USE <2>0
  <2> USE DEF TypeOK, NoLostUpdate, Goto, Enter
  <2>idle. CASE UNCHANGED vars
    BY <2>idle DEF vars
  <2>1. CASE Tick
    BY <2>1 DEF Tick
  <2>2. ASSUME NEW a \in Agents, Begin(a) PROVE NoLostUpdate'
    BY <2>2 DEF Begin
  <2>3. ASSUME NEW a \in Agents, Proceed(a) PROVE NoLostUpdate'
    <3>1. CASE Save(a)
      \* A second agent that has loaded would be a second holder.
      <4>1. \A b \in Agents : pc[b] = "loaded" => b = a
        BY <3>1 DEF Save, HolderInv, HoldersExclude, Holds, HoldSteps
      <4>2. QED
        BY <3>1, <4>1 DEF Save
    <3>2. CASE Load(a)
      BY <3>2 DEF Load
    <3>3. CASE ~Save(a) /\ ~Load(a)
      BY <2>3, <3>3 DEF Proceed, CreateNew, CreateExists, CreateDenied,
         CreateError, FindStale, FindNotStale, Reclaim, ReclaimFails, Sleep,
         GiveUp, Drop
    <3>4. QED
      BY <3>1, <3>2, <3>3
  <2>4. ASSUME NEW a \in Agents, Crash(a) PROVE NoLostUpdate'
    BY <2>4 DEF Crash
  <2>5. QED
    BY <2>idle, <2>1, <2>2, <2>3, <2>4 DEF Next
<1>3. QED
  BY <1>1, <1>2, TypeCorrect, HolderInvHolds, PTL DEF Spec

=============================================================================
