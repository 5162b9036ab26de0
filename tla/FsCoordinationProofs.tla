------------------------ MODULE FsCoordinationProofs ------------------------
(***************************************************************************)
(* What FsCoordination guarantees for every number of actors, processes    *)
(* and resources, for sets of any size, with any kills and any failing     *)
(* removals: types, that no group of actors waits in a cycle, that every   *)
(* lock file without a guard was left by a kill or a failed removal, and   *)
(* that guards exclude each other and implement LockSets until some actor  *)
(* finds a lock file older than STALE_LOCK_AGE.  The last part says for    *)
(* which sets that file can only be an abandoned one.                      *)
(***************************************************************************)
EXTENDS FsCoordination, FiniteSetTheorems, WellFoundedInduction, TLAPS

(***************************************************************************)
(* Facts about keys and finite sets of keys                                *)
(***************************************************************************)

Below == {ss \in Nat \X Nat : ss[1] < ss[2]}

\* The order of the naturals is well founded.
LEMMA BelowWellFounded == IsWellFoundedOn(Below, Nat)
<1>1. OpToRel(<, Nat) = Below
  BY DEF OpToRel, Below
<1>2. QED
  BY <1>1, NatLessThanWellFounded

\* Every non-empty set of naturals has a least element, which is its Min.
LEMMA MinIsLeast ==
  ASSUME NEW S, S \subseteq Nat, S # {}
  PROVE  Min(S) \in S /\ \A x \in S : Min(S) <= x
<1>1. PICK m \in S : \A x \in S : <<x, m>> \notin Below
  BY BelowWellFounded, WFMin
<1>2. ASSUME NEW x \in S PROVE m <= x
  <2>1. x \in Nat /\ m \in Nat
    OBVIOUS
  <2>2. /\ <<x, m>> \in Nat \X Nat
        /\ <<x, m>>[1] = x
        /\ <<x, m>>[2] = m
    BY <2>1
  <2>3. <<x, m>> \in Below <=> x < m
    BY <2>2, Zenon DEF Below
  <2>4. QED
    BY <1>1, <2>1, <2>3
<1>3. QED
  BY <1>2 DEF Min

\* Sets of keys are finite sets of naturals.
LEMMA KeysFinite ==
  ASSUME NEW S \in SUBSET Keys
  PROVE  IsFiniteSet(S) /\ Cardinality(S) \in Nat /\ S \subseteq Nat
<1>1. IsFiniteSet(0..MaxKey) /\ Keys \subseteq 0..MaxKey
  BY FS_Interval, CoordinationAssumption
<1>2. IsFiniteSet(S)
  BY <1>1, FS_Subset
<1>3. QED
  BY <1>1, <1>2, FS_CardinalityType

\* A key is a natural no greater than the largest digest.
LEMMA KeyRange ==
  ASSUME NEW k \in Keys
  PROVE  k \in Nat /\ MaxKey \in Nat /\ MaxKey - k \in Nat
<1>1. MaxKey \in Nat /\ Keys \subseteq 0..MaxKey
  BY CoordinationAssumption
<1>2. k \in 0..MaxKey
  BY <1>1
<1>3. QED
  BY <1>1, <1>2

\* The key an actor turns to next is one it wants, and the least of them.
LEMMA NextIsWanted ==
  ASSUME NEW a \in Actors, want[a] \in SUBSET Keys, want[a] # {}
  PROVE  /\ KeyToAcquire(a) \in want[a]
         /\ KeyToAcquire(a) \in Keys
         /\ \A k \in want[a] : KeyToAcquire(a) <= k
  BY KeysFinite, MinIsLeast DEF KeyToAcquire

\* The guard an actor drops next is one it holds.
LEMMA ReleasedIsHeld ==
  ASSUME NEW a \in Actors, held[a] \in SUBSET Keys, held[a] # {}
  PROVE  KeyToRelease(a) \in held[a]
  BY KeysFinite, MinIsLeast DEF KeyToRelease

\* Two spellings of a path give one key: a request has no more keys than
\* paths.
LEMMA RequestIsBounded ==
  ASSUME NEW S \in Requests, NoKey \notin KeysOf(S)
  PROVE  /\ KeysOf(S) \in SUBSET Keys
         /\ Cardinality(S) \in Nat
         /\ Cardinality(KeysOf(S)) \in Nat
         /\ Cardinality(KeysOf(S)) <= Cardinality(S)
<1>1. S \subseteq Paths /\ IsFiniteSet(S) /\ Cardinality(S) \in Nat
  BY CoordinationAssumption, FS_Subset, FS_CardinalityType
<1>2. KeysOf(S) \in SUBSET Keys
  BY <1>1, CoordinationAssumption DEF KeysOf
<1> DEFINE f == [p \in S |-> KeyOf[p]]
<1>3. f \in Surjection(S, KeysOf(S))
  BY DEF Surjection, KeysOf
<1>4. Cardinality(KeysOf(S)) <= Cardinality(S)
  BY <1>1, <1>3, FS_Surjection
<1>5. Cardinality(KeysOf(S)) \in Nat
  BY <1>2, KeysFinite
<1>6. QED
  BY <1>1, <1>2, <1>4, <1>5

(***************************************************************************)
(* Type correctness                                                        *)
(***************************************************************************)

\* An actor that is after a key has one left to want.
StillWants ==
  \A a \in Actors :
    pc[a] \in {"create", "check", "remove", "wait"} => want[a] # {}

\* Removing a lock file keeps what is known of the files that stay.
FilesOK ==
  /\ lockFiles \subseteq Keys
  /\ lockAge \in [Keys -> 0..(StaleAge + 1)]
  /\ orphans \subseteq lockFiles

LEMMA RemoveKeepsTypes ==
  ASSUME FilesOK, NEW k, Remove(k)
  PROVE  FilesOK'
<1>1. 0 \in 0..(StaleAge + 1)
  BY CoordinationAssumption
<1>2. lockAge' \in [Keys -> 0..(StaleAge + 1)]
  BY <1>1 DEF FilesOK, Remove
<1>3. lockFiles' \subseteq Keys /\ orphans' \subseteq lockFiles'
  BY DEF FilesOK, Remove
<1>4. QED
  BY <1>2, <1>3 DEF FilesOK

\* Type correctness rests on it: the least key of an empty set is no key.
LEMMA TypesHold == Spec => [](TypeOK /\ StillWants)
<1>1. Init => TypeOK /\ StillWants
  <2> SUFFICES ASSUME Init PROVE TypeOK /\ StillWants
    OBVIOUS
  <2>1. 0 \in 0..(StaleAge + 1) /\ 0 \in 0..ClockCap /\ 0 \in 0..MaxCrashes
    BY CoordinationAssumption DEF ClockCap
  <2>2. \A p \in Processes : Cardinality(registry[p]) <= MaxRegistryKeys
    BY FS_EmptySet, CoordinationAssumption DEF Init
  <2>3. QED
    BY <2>1, <2>2 DEF Init, TypeOK, StillWants, Steps
<1>2. TypeOK /\ StillWants /\ [Next]_vars => TypeOK' /\ StillWants'
  <2> SUFFICES ASSUME TypeOK, StillWants, [Next]_vars
               PROVE  TypeOK' /\ StillWants'
    OBVIOUS
  <2> USE CoordinationAssumption DEF TypeOK, StillWants, Steps, AcquireSteps,
          Goto, Enter, files, history
  <2>0. 0 \in 0..ClockCap /\ 0 \in 0..(StaleAge + 1)
    BY DEF ClockCap
  <2>idle. CASE UNCHANGED vars
    BY <2>idle DEF vars
  <2>1. CASE Tick
    <3>1. ASSUME NEW a \in Actors PROVE clock'[a] \in 0..ClockCap
      BY <2>1 DEF Tick, InTime, Acquiring, ClockCap
    <3>2. clock' \in [Actors -> 0..ClockCap]
      BY <2>1, <3>1 DEF Tick
    <3>3. lockAge' \in [Keys -> 0..(StaleAge + 1)]
      BY <2>1 DEF Tick
    <3>4. QED
      BY <2>1, <3>2, <3>3 DEF Tick
  <2>2. ASSUME NEW a \in Actors, NEW S \in Requests, Request(a, S)
        PROVE  TypeOK' /\ StillWants'
    BY <2>0, <2>2, RequestIsBounded DEF Request
  <2>3. ASSUME NEW a \in Actors, Proceed(a) PROVE TypeOK' /\ StillWants'
    <3>1. CASE NextKey(a)
      <4> DEFINE p == ProcessOf[a]
      <4>1. KeyToAcquire(a) \in Keys
        BY <3>1, NextIsWanted DEF NextKey
      <4>2. registry' \in [Processes -> SUBSET Keys]
        BY <3>1, <4>1 DEF NextKey
      <4>3. Cardinality(registry[p] \cup {KeyToAcquire(a)})
              <= MaxRegistryKeys
        <5>1. registry[p] \in SUBSET Keys
          OBVIOUS
        <5>2. IsFiniteSet(registry[p]) /\ Cardinality(registry[p]) \in Nat
          BY <5>1, KeysFinite
        <5>3. Cardinality(registry[p] \cup {KeyToAcquire(a)})
                = IF KeyToAcquire(a) \in registry[p]
                  THEN Cardinality(registry[p])
                  ELSE Cardinality(registry[p]) + 1
          BY <5>2, FS_AddElement
        <5>4. p \in Processes /\ Cardinality(registry[p]) <= MaxRegistryKeys
          OBVIOUS
        <5>5. QED
          BY <3>1, <5>2, <5>3, <5>4 DEF NextKey, InRegistry
      <4>4. \A q \in Processes : Cardinality(registry'[q]) <= MaxRegistryKeys
        BY <3>1, <4>3 DEF NextKey
      <4>5. QED
        BY <2>0, <3>1, <4>2, <4>4 DEF NextKey
    <3>2. CASE Saturated(a)
      BY <2>0, <3>2 DEF Saturated, Fail
    <3>3. CASE Acquired(a)
      BY <2>0, <3>3 DEF Acquired
    <3>4. CASE CreateNew(a)
      <4>1. KeyToAcquire(a) \in Keys
        BY <3>4, NextIsWanted DEF CreateNew
      <4>2. QED
        BY <2>0, <3>4, <4>1 DEF CreateNew
    <3>5. CASE CreateExists(a)
      BY <3>5 DEF CreateExists
    <3>6. CASE CreateDenied(a)
      BY <3>6 DEF CreateDenied
    <3>7. CASE IoFailure(a)
      BY <2>0, <3>7 DEF IoFailure, Fail
    <3>8. CASE FindStale(a)
      BY <3>8 DEF FindStale
    <3>9. CASE FindNotStale(a)
      BY <3>9 DEF FindNotStale
    <3>10. CASE Reclaim(a)
      <4>1. FilesOK'
        <5>1. FilesOK
          BY DEF FilesOK
        <5>2. Remove(KeyToAcquire(a)) \/ UNCHANGED <<files, orphans>>
          BY <3>10 DEF Reclaim
        <5>3. CASE UNCHANGED <<files, orphans>>
          BY <5>1, <5>3 DEF FilesOK
        <5>4. QED
          BY <5>1, <5>2, <5>3, RemoveKeepsTypes
      <4>2. QED
        BY <3>10, <4>1 DEF Reclaim, FilesOK
    <3>11. CASE Sleep(a)
      BY <3>11 DEF Sleep
    <3>12. CASE TimedOut(a)
      BY <2>0, <3>12 DEF TimedOut, Fail
    <3>13. CASE Finish(a)
      BY <3>13 DEF Finish
    <3>14. CASE ReleaseOne(a)
      <4> DEFINE k == KeyToRelease(a)
      <4>1. FilesOK'
        <5>1. FilesOK
          BY DEF FilesOK
        <5>2. \/ Remove(k)
              \/ orphans' = orphans \cup ({k} \cap lockFiles) /\ UNCHANGED files
          BY <3>14 DEF ReleaseOne
        <5>3. CASE orphans' = orphans \cup ({k} \cap lockFiles) /\ UNCHANGED files
          BY <5>1, <5>3 DEF FilesOK
        <5>4. QED
          BY <5>1, <5>2, <5>3, RemoveKeepsTypes
      <4>2. held' \in [Actors -> SUBSET Keys]
        BY <3>14 DEF ReleaseOne
      <4>3. QED
        BY <3>14, <4>1, <4>2 DEF ReleaseOne, FilesOK
    <3>15. CASE Released(a)
      BY <2>0, <3>15 DEF Released
    <3>16. QED
      BY <2>3, <3>1, <3>2, <3>3, <3>4, <3>5, <3>6, <3>7, <3>8, <3>9, <3>10,
         <3>11, <3>12, <3>13, <3>14, <3>15 DEF Proceed
  <2>4. ASSUME NEW p \in Processes, Crash(p) PROVE TypeOK' /\ StillWants'
    <3>1. \A q \in Processes : Cardinality(registry'[q]) <= MaxRegistryKeys
      BY <2>4, FS_EmptySet DEF Crash
    <3>2. orphans' \subseteq lockFiles'
      BY <2>4 DEF Crash
    <3>3. /\ pc' \in [Actors -> Steps] /\ want' \in [Actors -> SUBSET Keys]
          /\ held' \in [Actors -> SUBSET Keys]
          /\ clock' \in [Actors -> 0..ClockCap]
      BY <2>0, <2>4 DEF Crash
    <3>4. crashes' \in 0..MaxCrashes
      BY <2>4 DEF Crash
    <3>5. StillWants'
      BY <2>4 DEF Crash
    <3>6. QED
      BY <2>4, <3>1, <3>2, <3>3, <3>4, <3>5 DEF Crash
  <2>5. QED
    BY <2>idle, <2>1, <2>2, <2>3, <2>4 DEF Next
<1>3. QED
  BY <1>1, <1>2, PTL DEF Spec

\* The steps of fs_coordination.rs keep every variable within its type, and
\* a registry within MAX_REGISTRY_KEYS, crashes included.
THEOREM TypeCorrect == Spec => []TypeOK
  BY TypesHold, PTL

(***************************************************************************)
(* Ordered acquisition.  Along a chain of waiting actors the wanted key    *)
(* grows, so that in any group the one that wants the greatest key waits   *)
(* for nobody of the group.                                                *)
(***************************************************************************)

\* What an actor has and still wants, where it is in acquire().
Possessions ==
  \A a \in Actors :
    /\ pc[a] = "idle" => held[a] = {}
    /\ ~Acquiring(a) => want[a] = {}
    /\ \A k \in held[a], j \in want[a] : k < j

\* Keys are taken in ascending order, whatever happens to the lock files.
LEMMA PossessionsHold == Spec => []Possessions
<1>1. Init => Possessions
  BY DEF Init, Possessions
<1>2. TypeOK /\ StillWants /\ Possessions /\ [Next]_vars => Possessions'
  <2> SUFFICES ASSUME TypeOK, StillWants, Possessions, [Next]_vars
               PROVE  Possessions'
    OBVIOUS
  <2> USE DEF TypeOK, Possessions, Acquiring, AcquireSteps, Goto, Enter
  <2>1. CASE Tick
    BY <2>1 DEF Tick
  <2>2. ASSUME NEW a \in Actors, NEW S \in Requests, Request(a, S)
        PROVE  Possessions'
    BY <2>2 DEF Request
  <2>3. ASSUME NEW a \in Actors, Proceed(a) PROVE Possessions'
    <3>1. CASE CreateNew(a)
      <4> DEFINE k == KeyToAcquire(a)
      <4>1. /\ k \in want[a] /\ k \in Keys
            /\ \A j \in want[a] : k <= j
        BY <3>1, NextIsWanted DEF CreateNew, StillWants
      <4>2. /\ held' = [held EXCEPT ![a] = held[a] \cup {k}]
            /\ want' = [want EXCEPT ![a] = want[a] \ {k}]
            /\ pc[a] = "create" /\ pc' = [pc EXCEPT ![a] = "next"]
        BY <3>1 DEF CreateNew
      <4> HIDE DEF k
      <4>3. held[a] \subseteq Nat /\ want[a] \subseteq Nat
        BY KeysFinite
      <4>4. \A i \in held'[a], j \in want'[a] : i < j
        BY <4>1, <4>2, <4>3
      <4>5. QED
        BY <4>2, <4>4
    <3>2. CASE ReleaseOne(a)
      BY <3>2 DEF ReleaseOne
    <3>3. CASE NextKey(a) \/ Acquired(a) \/ CreateExists(a) \/ CreateDenied(a)
      BY <3>3 DEF NextKey, Acquired, CreateExists, CreateDenied
    <3>4. CASE FindStale(a) \/ FindNotStale(a) \/ Reclaim(a) \/ Sleep(a)
      BY <3>4 DEF FindStale, FindNotStale, Reclaim, Sleep
    <3>5. CASE Saturated(a) \/ IoFailure(a) \/ TimedOut(a)
      BY <3>5 DEF Saturated, IoFailure, TimedOut, Fail
    <3>6. CASE Finish(a) \/ Released(a)
      BY <3>6 DEF Finish, Released
    <3>7. QED
      BY <2>3, <3>1, <3>2, <3>3, <3>4, <3>5, <3>6 DEF Proceed
  <2>4. ASSUME NEW p \in Processes, Crash(p) PROVE Possessions'
    BY <2>4 DEF Crash
  <2>idle. CASE UNCHANGED vars
    BY <2>idle DEF vars
  <2>5. QED
    BY <2>1, <2>2, <2>3, <2>4, <2>idle DEF Next
<1>3. QED
  BY <1>1, <1>2, TypesHold, PTL DEF Spec

LEMMA WaitsAscend ==
  ASSUME TypeOK, StillWants, Possessions, NEW a \in Actors, NEW b \in Actors,
         WaitsFor(a, b), pc[b] = "wait"
  PROVE  KeyToAcquire(a) < KeyToAcquire(b)
<1>1. want[b] \in SUBSET Keys /\ want[b] # {}
  BY DEF TypeOK, StillWants
<1>2. KeyToAcquire(b) \in want[b]
  BY <1>1, NextIsWanted
<1>3. QED
  BY <1>2 DEF WaitsFor, Possessions

\* Overlapping sets never deadlock: no group of actors each of which waits
\* for another one of the group, also when lock files are abandoned, go
\* stale, are reclaimed or cannot be removed.
THEOREM NoDeadlock == Spec => []NoWaitCycle
<1>1. TypeOK /\ StillWants /\ Possessions => NoWaitCycle
  <2> SUFFICES ASSUME TypeOK, StillWants, Possessions,
                      NEW S \in SUBSET Actors, S # {},
                      \A a \in S : \E b \in S : WaitsFor(a, b)
               PROVE  FALSE
    BY DEF NoWaitCycle
  <2>1. \A a \in S : KeyToAcquire(a) \in Keys
    BY NextIsWanted DEF WaitsFor, TypeOK, StillWants
  <2> DEFINE T == {MaxKey - KeyToAcquire(a) : a \in S}
  <2>2. T \subseteq Nat /\ T # {}
    <3>1. \A a \in S : MaxKey - KeyToAcquire(a) \in Nat
      BY <2>1, KeyRange
    <3>2. QED
      BY <3>1
  <2>3. Min(T) \in T /\ \A x \in T : Min(T) <= x
    BY <2>2, MinIsLeast
  <2>4. PICK a \in S : Min(T) = MaxKey - KeyToAcquire(a)
    BY <2>3
  <2>5. PICK b \in S : WaitsFor(a, b)
    OBVIOUS
  <2>6. pc[b] = "wait"
    BY DEF WaitsFor
  <2>7. KeyToAcquire(a) < KeyToAcquire(b)
    BY <2>5, <2>6, WaitsAscend
  <2>8. MaxKey - KeyToAcquire(a) <= MaxKey - KeyToAcquire(b)
    BY <2>3, <2>4
  <2>9. /\ KeyToAcquire(a) \in Nat /\ KeyToAcquire(b) \in Nat
        /\ MaxKey \in Nat
    BY <2>1, KeyRange
  <2>10. QED
    BY <2>7, <2>8, <2>9
<1>2. QED
  BY <1>1, TypesHold, PossessionsHold, PTL

(***************************************************************************)
(* What becomes of the lock files                                          *)
(***************************************************************************)

\* Four steps of an actor touch the lock files, what it holds, or the
\* history; no other step starts a removal.
LEMMA QuietSteps ==
  ASSUME NEW a \in Actors, Proceed(a), pc \in [Actors -> Steps]
  PROVE  \/ CreateNew(a) \/ FindStale(a) \/ Reclaim(a) \/ ReleaseOne(a)
         \/ /\ UNCHANGED <<lockFiles, lockAge, held, orphans, foundStale>>
            /\ \A b \in Actors : pc'[b] = "remove" => pc[b] = "remove"
  BY DEF Proceed, NextKey, Saturated, Acquired, CreateExists, CreateDenied,
     IoFailure, FindNotStale, Sleep, TimedOut, Finish, Released, Fail, Goto,
     Enter, files, history

\* Every acquire(), failed or not, and every drop leaves only those lock files
\* behind whose removal failed, and a kill those of the killed process: sets
\* of any size, stale locks and racing reclaimers included.
THEOREM NoLockFileLeaks == Spec => []NothingLeaks
<1>1. Init => NothingLeaks
  BY DEF Init, NothingLeaks
<1>2. TypeOK /\ StillWants /\ NothingLeaks /\ [Next]_vars => NothingLeaks'
  <2> SUFFICES ASSUME TypeOK, StillWants, NothingLeaks, [Next]_vars
               PROVE  NothingLeaks'
    OBVIOUS
  <2> USE DEF TypeOK, NothingLeaks, files, history
  <2>1. CASE Tick
    BY <2>1 DEF Tick
  <2>2. ASSUME NEW a \in Actors, NEW S \in Requests, Request(a, S)
        PROVE  NothingLeaks'
    BY <2>2 DEF Request
  <2>3. ASSUME NEW a \in Actors, Proceed(a) PROVE NothingLeaks'
    <3>1. CASE CreateNew(a)
      <4> DEFINE k == KeyToAcquire(a)
      <4>1. /\ held' = [held EXCEPT ![a] = held[a] \cup {k}]
            /\ lockFiles' = lockFiles \cup {k} /\ orphans' = orphans
        BY <3>1 DEF CreateNew
      <4> HIDE DEF k
      <4>2. QED
        BY <4>1
    <3>2. CASE Reclaim(a)
      BY <3>2 DEF Reclaim, Remove
    <3>3. CASE ReleaseOne(a)
      <4> DEFINE k == KeyToRelease(a)
      <4>1. /\ held' = [held EXCEPT ![a] = held[a] \ {k}]
            /\ \/ Remove(k)
               \/ orphans' = orphans \cup ({k} \cap lockFiles) /\ UNCHANGED files
        BY <3>3 DEF ReleaseOne
      <4> HIDE DEF k
      <4>2. lockFiles' \ orphans' \subseteq (lockFiles \ orphans) \ {k}
        BY <4>1 DEF Remove
      <4>3. QED
        BY <4>1, <4>2
    <3>4. CASE FindStale(a)
      BY <3>4 DEF FindStale
    <3>5. QED
      BY <2>3, <3>1, <3>2, <3>3, <3>4, QuietSteps
  <2>4. ASSUME NEW p \in Processes, Crash(p) PROVE NothingLeaks'
    BY <2>4 DEF Crash
  <2>idle. CASE UNCHANGED vars
    BY <2>idle DEF vars
  <2>5. QED
    BY <2>1, <2>2, <2>3, <2>4, <2>idle DEF Next
<1>3. QED
  BY <1>1, <1>2, TypesHold, PTL DEF Spec

(***************************************************************************)
(* Exclusion.  create_new alone does not give it: nothing in it says that  *)
(* a guard's lock file is still there.  What does, until a stale lock file *)
(* is found, is that nobody is about to remove one but its own guard.      *)
(***************************************************************************)
GuardInv ==
  /\ MutualExclusion
  /\ GuardsKeepTheirFiles
  /\ ~foundStale => \A a \in Actors : pc[a] # "remove"

LEMMA GuardInvHolds == Spec => []GuardInv
<1>1. Init => GuardInv
  BY DEF Init, GuardInv, MutualExclusion, GuardsKeepTheirFiles
<1>2. TypeOK /\ StillWants /\ GuardInv /\ [Next]_vars => GuardInv'
  <2> SUFFICES ASSUME TypeOK, StillWants, GuardInv, [Next]_vars
               PROVE  GuardInv'
    OBVIOUS
  <2> USE DEF TypeOK, GuardInv, MutualExclusion, GuardsKeepTheirFiles, files,
              history, Goto, Enter
  <2>1. CASE Tick
    BY <2>1 DEF Tick
  <2>2. ASSUME NEW a \in Actors, NEW S \in Requests, Request(a, S)
        PROVE  GuardInv'
    BY <2>2 DEF Request
  <2>3. ASSUME NEW a \in Actors, Proceed(a) PROVE GuardInv'
    <3>1. CASE CreateNew(a)
      <4> DEFINE k == KeyToAcquire(a)
      <4>1. /\ k \notin lockFiles /\ lockFiles' = lockFiles \cup {k}
            /\ held' = [held EXCEPT ![a] = held[a] \cup {k}]
            /\ pc' = [pc EXCEPT ![a] = "next"] /\ foundStale' = foundStale
        BY <3>1 DEF CreateNew
      <4> HIDE DEF k
      <4>2. ~foundStale => \A b \in Actors : k \notin held[b]
        BY <4>1
      <4>3. QED
        BY <4>1, <4>2
    <3>2. CASE FindStale(a)
      BY <3>2 DEF FindStale
    <3>3. CASE Reclaim(a)
      <4>1. foundStale /\ foundStale'
        BY <3>3 DEF Reclaim
      <4>2. QED
        BY <4>1
    <3>4. CASE ReleaseOne(a)
      <4> DEFINE k == KeyToRelease(a)
      <4>1. k \in held[a]
        BY <3>4, ReleasedIsHeld DEF ReleaseOne
      <4>2. /\ held' = [held EXCEPT ![a] = held[a] \ {k}]
            /\ lockFiles \ {k} \subseteq lockFiles'
            /\ UNCHANGED <<pc, foundStale>>
        BY <3>4 DEF ReleaseOne, Remove
      <4> HIDE DEF k
      <4>3. ~foundStale => \A b \in Actors \ {a} : k \notin held[b]
        BY <4>1
      <4>4. QED
        BY <4>2, <4>3
    <3>5. QED
      BY <2>3, <3>1, <3>2, <3>3, <3>4, QuietSteps
  <2>4. ASSUME NEW p \in Processes, Crash(p) PROVE GuardInv'
    BY <2>4 DEF Crash
  <2>idle. CASE UNCHANGED vars
    BY <2>idle DEF vars
  <2>5. QED
    BY <2>1, <2>2, <2>3, <2>4, <2>idle DEF Next
<1>3. QED
  BY <1>1, <1>2, TypesHold, PTL DEF Spec

\* No two guards cover the same resource, for sets of any size and whoever is
\* killed, as long as no acquire() has found a stale lock file.
THEOREM GuardsAreExclusive == Spec => []MutualExclusion
<1>1. GuardInv => MutualExclusion
  BY DEF GuardInv
<1>2. QED
  BY <1>1, GuardInvHolds, PTL

\* Until then the lock files of a guard are there as long as it is: no drop,
\* timeout or failure of another actor removes one.
THEOREM GuardsKeepLockFiles == Spec => []GuardsKeepTheirFiles
<1>1. GuardInv => GuardsKeepTheirFiles
  BY DEF GuardInv
<1>2. QED
  BY <1>1, GuardInvHolds, PTL

(***************************************************************************)
(* Refinement: taking lock files one by one implements LockSets.           *)
(***************************************************************************)

\* The guards that acquire() hands out behave like the sets of LockSets, for
\* every number of actors and keys and any kills, until a stale lock file is
\* found; from then on the refinement shows LockSets no guard at all.
THEOREM GuardsImplementLockSets == Spec => ImplementsLockSets
<1> DEFINE G == [a \in Actors |-> IF foundStale THEN {} ELSE Guarded(a)]
<1>1. Init => Guards!Init
  BY DEF Init, Guards!Init, Guarded
<1>2. TypeOK /\ StillWants /\ GuardInv /\ [Next]_vars => [Guards!Next]_G
  <2> SUFFICES ASSUME TypeOK, StillWants, GuardInv, [Next]_vars
               PROVE  [Guards!Next]_G
    OBVIOUS
  <2> USE DEF TypeOK, Goto, Enter, Guarded, files, history
  \* A step that keeps the guarded actors and what they hold is a stutter.
  <2>1. ASSUME foundStale' = foundStale,
               \A a \in Actors :
                 /\ pc[a] = "guarded" <=> pc'[a] = "guarded"
                 /\ pc[a] = "guarded" => held'[a] = held[a]
        PROVE  UNCHANGED G
    BY <2>1
  \* So is every step once a stale lock file has been found.
  <2>2. ASSUME foundStale, foundStale' PROVE UNCHANGED G
    BY <2>2
  <2>3. CASE Tick
    BY <2>1, <2>3 DEF Tick
  <2>4. ASSUME NEW a \in Actors, NEW S \in Requests, Request(a, S)
        PROVE  UNCHANGED G
    BY <2>1, <2>4 DEF Request
  <2>5. ASSUME NEW a \in Actors, Proceed(a), ~foundStale
        PROVE  [Guards!Next]_G
    <3>1. CASE Acquired(a)
      <4>1. /\ pc[a] = "next" /\ pc' = [pc EXCEPT ![a] = "guarded"]
            /\ UNCHANGED <<held, foundStale>> /\ held[a] \in SUBSET Keys
        BY <3>1 DEF Acquired
      <4>2. PICK S \in SUBSET Keys : S = held[a]
        BY <4>1
      <4>3. G' = [G EXCEPT ![a] = S] /\ G[a] = {}
        BY <2>5, <4>1, <4>2
      <4>4. Guards!Free(a, S)
        BY <2>5, <4>2 DEF Guards!Free, GuardInv, MutualExclusion
      <4>5. Guards!Acquire(a, S)
        BY <4>3, <4>4 DEF Guards!Acquire
      <4>6. Guards!Next
        BY <4>5, Zenon DEF Guards!Next
      <4>7. QED
        BY <4>6
    <3>2. CASE Finish(a)
      <4>1. G' = [G EXCEPT ![a] = {}]
        BY <2>5, <3>2 DEF Finish
      <4>2. QED
        BY <4>1 DEF Guards!Next, Guards!Release
    <3>3. CASE FindStale(a)
      <4>1. foundStale'
        BY <3>3 DEF FindStale
      <4>2. G' = [b \in Actors |-> IF b \in Actors THEN {} ELSE G[b]]
        BY <4>1
      <4>3. Guards!ReleaseAll(Actors)
        BY <4>2 DEF Guards!ReleaseAll
      <4>4. QED
        BY <4>3 DEF Guards!Next
    <3>4. CASE ~Acquired(a) /\ ~Finish(a) /\ ~FindStale(a)
      <4>1. /\ pc[a] # "guarded" /\ pc'[a] # "guarded"
            /\ \A b \in Actors \ {a} : pc'[b] = pc[b] /\ held'[b] = held[b]
            /\ foundStale' = foundStale
        BY <2>5, <3>4 DEF Proceed, NextKey, Saturated, CreateNew, CreateExists,
           CreateDenied, IoFailure, FindNotStale, Reclaim, Sleep, TimedOut,
           ReleaseOne, Released, Fail
      <4>2. QED
        BY <2>1, <4>1
    <3>5. QED
      BY <3>1, <3>2, <3>3, <3>4
  <2>6. ASSUME NEW a \in Actors, Proceed(a), foundStale PROVE foundStale'
    BY <2>6, QuietSteps DEF CreateNew, FindStale, Reclaim, ReleaseOne
  <2>7. ASSUME NEW p \in Processes, Crash(p) PROVE [Guards!Next]_G
    <3> DEFINE lost == {a \in Actors : ProcessOf[a] = p}
    <3>1. /\ foundStale' = foundStale
          /\ \A a \in Actors : /\ a \in lost => pc'[a] = "idle"
                               /\ a \notin lost => pc'[a] = pc[a]
                               /\ a \notin lost => held'[a] = held[a]
      BY <2>7 DEF Crash
    <3>2. G' = [a \in Actors |-> IF a \in lost THEN {} ELSE G[a]]
      BY <3>1
    <3>3. Guards!ReleaseAll(lost) /\ lost \in SUBSET Actors
      BY <3>2 DEF Guards!ReleaseAll
    <3> HIDE DEF lost
    <3>4. QED
      BY <3>3 DEF Guards!Next
  <2>8. CASE UNCHANGED vars
    BY <2>1, <2>8 DEF vars
  <2>9. QED
    BY <2>2, <2>3, <2>4, <2>5, <2>6, <2>7, <2>8 DEF Next
<1>3. QED
  BY <1>1, <1>2, TypesHold, GuardInvHolds, PTL
  DEF Spec, ImplementsLockSets, Guards!Spec

(***************************************************************************)
(* Freshness.  No timeout bounds the life of a lock file: each key of a    *)
(* set has a deadline of its own, so the first of n keys may have waited   *)
(* for n - 1 others when the set is complete.  For sets that leave room    *)
(* for that and for the mutation, a file found stale is no guard's.        *)
(***************************************************************************)

\* The longest time that n waits take, one after the other.
Waits(n) == n * AcquireTimeout

LEMMA WaitsGrow ==
  ASSUME NEW m \in Nat, NEW n \in Nat, m <= n
  PROVE  /\ Waits(m) \in Nat
         /\ Waits(n) \in Nat
         /\ Waits(m) <= Waits(n)
         /\ Waits(m + 1) = Waits(m) + AcquireTimeout
<1>1. AcquireTimeout \in Nat
  BY CoordinationAssumption
<1>2. PICK d \in Nat : n = m + d
  <2>1. n - m \in Nat /\ n = m + (n - m)
    OBVIOUS
  <2>2. QED
    BY <2>1
<1>3. m * AcquireTimeout \in Nat /\ d * AcquireTimeout \in Nat
  BY <1>1
<1>4. n * AcquireTimeout = m * AcquireTimeout + d * AcquireTimeout
  BY <1>1, <1>2
<1>5. (m + 1) * AcquireTimeout = m * AcquireTimeout + AcquireTimeout
  BY <1>1
<1>6. QED
  BY <1>3, <1>4, <1>5 DEF Waits

\* Where the clock of an actor can be.
OnTime(a) ==
  /\ Acquiring(a) => clock[a] <= AcquireTimeout
  /\ pc[a] = "next" => clock[a] = 0
  /\ pc[a] \in {"guarded", "release"} => clock[a] <= HoldLimit

\* The set an actor is taking leaves room for all its waits.
Affordable(a) ==
  Acquiring(a) /\ held[a] \cup want[a] # {} =>
    Waits(Cardinality(held[a]) + Cardinality(want[a]) - 1) + HoldLimit
      <= StaleAge

\* A key was waited for before the keys taken after it, and is then held.
AgesBounded(a) ==
  \A k \in held[a] :
    IF Acquiring(a) THEN lockAge[k] <= Waits(Cardinality(held[a]) - 1) + clock[a]
    ELSE lockAge[k] + HoldLimit <= StaleAge + clock[a]

Fresh(a) == OnTime(a) /\ Affordable(a) /\ AgesBounded(a)

\* The sizes of what an actor holds and wants are naturals, and holding or
\* wanting something counts.
LEMMA Sizes ==
  ASSUME TypeOK, NEW a \in Actors
  PROVE  /\ Cardinality(held[a]) \in Nat
         /\ Cardinality(want[a]) \in Nat
         /\ IsFiniteSet(held[a]) /\ IsFiniteSet(want[a])
         /\ held[a] # {} => Cardinality(held[a]) >= 1
         /\ want[a] # {} => Cardinality(want[a]) >= 1
<1>1. held[a] \in SUBSET Keys /\ want[a] \in SUBSET Keys
  BY DEF TypeOK
<1>2. /\ IsFiniteSet(held[a]) /\ Cardinality(held[a]) \in Nat
      /\ IsFiniteSet(want[a]) /\ Cardinality(want[a]) \in Nat
  BY <1>1, KeysFinite
<1>3. /\ held[a] # {} => Cardinality(held[a]) # 0
      /\ want[a] # {} => Cardinality(want[a]) # 0
  BY <1>2, FS_EmptySet
<1>4. QED
  BY <1>2, <1>3

\* Clocks, ages and bounds are naturals.
LEMMA Times ==
  ASSUME TypeOK, NEW a \in Actors
  PROVE  /\ clock[a] \in Nat
         /\ \A k \in Keys : lockAge[k] \in Nat
         /\ AcquireTimeout \in Nat /\ HoldLimit \in Nat /\ StaleAge \in Nat
         /\ held[a] \in SUBSET Keys /\ want[a] \in SUBSET Keys
  BY CoordinationAssumption DEF TypeOK, ClockCap

\* While something is still to be taken, a guard has waited for less than
\* the set it is part of allows.
LEMMA AcquiringAge ==
  ASSUME TypeOK, NEW a \in Actors, Fresh(a), Acquiring(a), NEW k \in held[a]
  PROVE  /\ lockAge[k] <= Waits(Cardinality(held[a]))
         /\ want[a] # {} =>
              Waits(Cardinality(held[a])) + HoldLimit <= StaleAge
         /\ Waits(Cardinality(held[a])) \in Nat
<1> DEFINE h == Cardinality(held[a])
           w == Cardinality(want[a])
<1>1. want[a] # {} => w >= 1
  BY Sizes
<1>2. h \in Nat /\ w \in Nat /\ h >= 1
  BY Sizes
<1>3. lockAge[k] <= Waits(h - 1) + clock[a] /\ clock[a] <= AcquireTimeout
  BY DEF Fresh, AgesBounded, OnTime
<1>4. /\ lockAge[k] \in Nat /\ clock[a] \in Nat
      /\ AcquireTimeout \in Nat /\ HoldLimit \in Nat /\ StaleAge \in Nat
  BY Times
<1>5. Waits(h + w - 1) + HoldLimit <= StaleAge
  BY DEF Fresh, Affordable
<1> HIDE DEF h, w
<1>6. h - 1 \in Nat /\ h - 1 <= h /\ (h - 1) + 1 = h /\ h + w - 1 \in Nat
  BY <1>2
<1>7. /\ Waits(h - 1) \in Nat /\ Waits(h) \in Nat
      /\ Waits(h) = Waits(h - 1) + AcquireTimeout
  BY <1>2, <1>6, WaitsGrow
<1>8. lockAge[k] <= Waits(h)
  BY <1>3, <1>4, <1>7
<1>9. ASSUME want[a] # {} PROVE Waits(h) + HoldLimit <= StaleAge
  <2>1. h <= h + w - 1
    BY <1>1, <1>2, <1>9
  <2>2. Waits(h) <= Waits(h + w - 1) /\ Waits(h + w - 1) \in Nat
    BY <1>2, <1>6, <2>1, WaitsGrow
  <2>3. QED
    BY <1>4, <1>5, <1>7, <2>2
<1>10. QED
  BY <1>7, <1>8, <1>9 DEF h

\* A step that leaves an actor where it is and ages no lock file keeps it
\* fresh.
LEMMA FreshStays ==
  ASSUME TypeOK, TypeOK', NEW a \in Actors, Fresh(a),
         pc'[a] = pc[a], want'[a] = want[a], clock'[a] = clock[a],
         held'[a] \subseteq held[a], Acquiring(a) => held'[a] = held[a],
         \A k \in Keys : lockAge'[k] <= lockAge[k]
  PROVE  Fresh(a)'
<1>1. OnTime(a)' /\ Affordable(a)'
  BY DEF Fresh, OnTime, Affordable, Acquiring
<1>2. ASSUME NEW k \in held'[a]
      PROVE  IF Acquiring(a)'
             THEN lockAge'[k] <= Waits(Cardinality(held'[a]) - 1) + clock'[a]
             ELSE lockAge'[k] + HoldLimit <= StaleAge + clock'[a]
  <2> DEFINE W == Waits(Cardinality(held[a]) - 1)
  <2>1. /\ k \in Keys /\ k \in held[a] /\ lockAge'[k] <= lockAge[k]
        /\ lockAge[k] \in Nat /\ lockAge'[k] \in Nat
        /\ clock[a] \in Nat /\ HoldLimit \in Nat /\ StaleAge \in Nat
    BY Times DEF TypeOK
  <2>2. /\ Acquiring(a) => lockAge[k] <= W + clock[a]
        /\ ~Acquiring(a) => lockAge[k] + HoldLimit <= StaleAge + clock[a]
    BY <2>1 DEF Fresh, AgesBounded
  <2>3. W \in Nat
    <3>1. Cardinality(held[a]) - 1 \in Nat
      BY <2>1, Sizes
    <3>2. QED
      BY <3>1, WaitsGrow
  <2>4. Acquiring(a) => held'[a] = held[a]
    OBVIOUS
  <2>5. Acquiring(a)' <=> Acquiring(a)
    BY DEF Acquiring
  <2>6. CASE Acquiring(a)
    <3>1. W = Waits(Cardinality(held'[a]) - 1)
      BY <2>4, <2>6
    <3> HIDE DEF W
    <3>2. lockAge'[k] <= W + clock[a]
      BY <2>1, <2>2, <2>3, <2>6
    <3>3. QED
      BY <2>5, <2>6, <3>1, <3>2
  <2>7. CASE ~Acquiring(a)
    <3>1. lockAge'[k] + HoldLimit <= StaleAge + clock[a]
      BY <2>1, <2>2, <2>7
    <3>2. QED
      BY <2>5, <2>7, <3>1
  <2>8. QED
    BY <2>6, <2>7
<1>3. QED
  BY <1>1, <1>2, Zenon DEF Fresh, AgesBounded

\* A request that fits, to which the keys of a set of paths belong, leaves
\* room for the waits of its keys.
LEMMA RequestFits ==
  ASSUME SetsFit, NEW S \in Requests, NoKey \notin KeysOf(S), KeysOf(S) # {}
  PROVE  Waits(Cardinality(KeysOf(S)) - 1) + HoldLimit <= StaleAge
<1> DEFINE c == Cardinality(S)
           n == Cardinality(KeysOf(S))
<1>1. c \in Nat /\ n \in Nat /\ n <= c /\ KeysOf(S) \in SUBSET Keys
  BY RequestIsBounded
<1>2. n # 0
  BY <1>1, KeysFinite, FS_EmptySet
<1>3. S # {}
  BY DEF KeysOf
<1>4. Waits(c - 1) + HoldLimit <= StaleAge
  BY <1>3 DEF SetsFit, Waits
<1> HIDE DEF c, n
<1>5. n - 1 \in Nat /\ c - 1 \in Nat /\ n - 1 <= c - 1
  BY <1>1, <1>2
<1>6. /\ Waits(n - 1) \in Nat /\ Waits(c - 1) \in Nat
      /\ Waits(n - 1) <= Waits(c - 1)
  BY <1>5, WaitsGrow
<1>7. HoldLimit \in Nat /\ StaleAge \in Nat
  BY CoordinationAssumption
<1>8. Waits(n - 1) + HoldLimit <= StaleAge
  BY <1>4, <1>6, <1>7
<1>9. QED
  BY <1>8 DEF n

\* A failed acquire() has as long to let go as a mutation has to work.
LEMMA FailStaysFresh ==
  ASSUME TypeOK, NEW a \in Actors, Fresh(a), Acquiring(a), want[a] # {},
         Fail(a), UNCHANGED lockAge
  PROVE  Fresh(a)'
<1>1. /\ pc'[a] = "release" /\ clock'[a] = 0 /\ held' = held
      /\ lockAge' = lockAge
  BY DEF Fail, Enter, Goto, TypeOK
<1>2. ~Acquiring(a)'
  BY <1>1 DEF Acquiring, AcquireSteps
<1>3. OnTime(a)' /\ Affordable(a)'
  BY <1>1, <1>2, Times, CoordinationAssumption DEF OnTime, Affordable
<1>4. ASSUME NEW k \in held[a]
      PROVE  lockAge[k] + HoldLimit <= StaleAge
  <2> DEFINE W == Waits(Cardinality(held[a]))
  <2>1. lockAge[k] <= W /\ W \in Nat /\ W + HoldLimit <= StaleAge
    BY AcquiringAge
  <2>2. lockAge[k] \in Nat /\ HoldLimit \in Nat /\ StaleAge \in Nat
    BY Times
  <2> HIDE DEF W
  <2>3. QED
    BY <2>1, <2>2
<1>5. StaleAge + 0 = StaleAge
  BY CoordinationAssumption
<1>6. AgesBounded(a)'
  BY <1>1, <1>2, <1>4, <1>5 DEF AgesBounded
<1>7. QED
  BY <1>3, <1>6 DEF Fresh

LEMMA FreshHolds ==
  ASSUME SetsFit
  PROVE  Spec => [](\A a \in Actors : Fresh(a))
<1>1. Init => \A a \in Actors : Fresh(a)
  BY CoordinationAssumption
  DEF Init, Fresh, OnTime, Affordable, AgesBounded, Acquiring, AcquireSteps
<1>2. /\ TypeOK /\ TypeOK' /\ StillWants /\ Possessions /\ [Next]_vars
      /\ (\A a \in Actors : Fresh(a))
      => (\A a \in Actors : Fresh(a))'
  <2> SUFFICES ASSUME TypeOK, TypeOK', StillWants, Possessions, [Next]_vars,
                      \A a \in Actors : Fresh(a)
               PROVE  (\A a \in Actors : Fresh(a))'
    OBVIOUS
  \* No step but the passing of time ages a lock file, or moves the clock of
  \* another actor.
  <2>1. ASSUME NEW a \in Actors, Fresh(a)',
               \A k \in Keys : lockAge'[k] <= lockAge[k],
               \A b \in Actors \ {a} :
                 /\ pc'[b] = pc[b] /\ want'[b] = want[b]
                 /\ held'[b] = held[b] /\ clock'[b] = clock[b]
        PROVE  (\A b \in Actors : Fresh(b))'
    <3>1. ASSUME NEW b \in Actors \ {a} PROVE Fresh(b)'
      BY <2>1, <3>1, FreshStays
    <3>2. QED
      BY <2>1, <3>1
  <2>2. CASE Tick
    <3> SUFFICES ASSUME NEW a \in Actors PROVE Fresh(a)'
      OBVIOUS
    <3>1. /\ pc' = pc /\ want' = want /\ held' = held /\ InTime(a)
          /\ clock'[a] = IF pc[a] # "idle" THEN clock[a] + 1 ELSE clock[a]
      BY <2>2 DEF Tick
    <3>2. Acquiring(a)' <=> Acquiring(a)
      BY <3>1 DEF Acquiring
    <3>3. OnTime(a)' /\ Affordable(a)'
      BY <3>1, <3>2, Times DEF Fresh, OnTime, Affordable, InTime
    <3>4. ASSUME NEW k \in held[a]
          PROVE  IF Acquiring(a)
                 THEN lockAge'[k]
                        <= Waits(Cardinality(held[a]) - 1) + clock'[a]
                 ELSE lockAge'[k] + HoldLimit <= StaleAge + clock'[a]
      <4> DEFINE W == Waits(Cardinality(held[a]) - 1)
      <4>1. clock'[a] = clock[a] + 1
        BY <3>1, <3>4 DEF Possessions
      <4>2. k \in Keys /\ lockAge'[k] \in {lockAge[k], lockAge[k] + 1}
        BY <2>2, Times DEF Tick
      <4>3. /\ lockAge[k] \in Nat /\ clock[a] \in Nat
            /\ HoldLimit \in Nat /\ StaleAge \in Nat
        BY <4>2, Times
      <4>4. W \in Nat
        <5>1. Cardinality(held[a]) - 1 \in Nat
          BY Sizes
        <5>2. QED
          BY <5>1, WaitsGrow
      <4>5. IF Acquiring(a) THEN lockAge[k] <= W + clock[a]
            ELSE lockAge[k] + HoldLimit <= StaleAge + clock[a]
        BY DEF Fresh, AgesBounded
      <4> HIDE DEF W
      <4>6. IF Acquiring(a) THEN lockAge'[k] <= W + clock'[a]
            ELSE lockAge'[k] + HoldLimit <= StaleAge + clock'[a]
        BY <4>1, <4>2, <4>3, <4>4, <4>5
      <4>7. QED
        BY <4>6 DEF W
    <3>5. AgesBounded(a)'
      BY <3>1, <3>2, <3>4 DEF AgesBounded
    <3>6. QED
      BY <3>3, <3>5 DEF Fresh
  <2>3. ASSUME NEW a \in Actors, NEW S \in Requests, Request(a, S)
        PROVE  (\A b \in Actors : Fresh(b))'
    <3>1. /\ pc' = [pc EXCEPT ![a] = "next"] /\ held' = held
          /\ clock' = [clock EXCEPT ![a] = 0] /\ lockAge' = lockAge
          /\ want' = [want EXCEPT ![a] = KeysOf(S)]
          /\ held[a] = {} /\ NoKey \notin KeysOf(S)
      BY <2>3 DEF Request, Possessions, Enter, Goto, files
    <3>2. /\ pc'[a] = "next" /\ held'[a] = {} /\ clock'[a] = 0
          /\ want'[a] = KeysOf(S)
      BY <3>1 DEF TypeOK
    <3>3. Affordable(a)'
      <4>1. /\ Cardinality(held'[a]) = 0
            /\ Cardinality(KeysOf(S)) \in Nat
        BY <3>1, <3>2, FS_EmptySet, RequestIsBounded
      <4>2. Cardinality(held'[a]) + Cardinality(want'[a]) - 1
              = Cardinality(KeysOf(S)) - 1
        BY <3>2, <4>1
      <4>3. KeysOf(S) # {} =>
              Waits(Cardinality(KeysOf(S)) - 1) + HoldLimit <= StaleAge
        BY <3>1, RequestFits
      <4>4. QED
        BY <3>2, <4>2, <4>3 DEF Affordable
    <3>4. OnTime(a)' /\ AgesBounded(a)'
      BY <3>2, CoordinationAssumption DEF OnTime, AgesBounded
    <3>5. \A k \in Keys : lockAge'[k] <= lockAge[k]
      BY <3>1, Times
    <3>6. Fresh(a)'
      BY <3>3, <3>4 DEF Fresh
    <3>7. QED
      BY <2>1, <3>1, <3>5, <3>6 DEF TypeOK
  <2>4. ASSUME NEW a \in Actors, Proceed(a)
        PROVE  (\A b \in Actors : Fresh(b))'
    <3>0. \A b \in Actors \ {a} :
            /\ pc'[b] = pc[b] /\ want'[b] = want[b]
            /\ held'[b] = held[b] /\ clock'[b] = clock[b]
      BY <2>4 DEF Proceed, NextKey, Saturated, Acquired, CreateNew,
         CreateExists, CreateDenied, IoFailure, FindStale, FindNotStale,
         Reclaim, Sleep, TimedOut, Finish, ReleaseOne, Released, Fail, Goto,
         Enter, TypeOK
    <3>1. CASE CreateNew(a)
      <4> DEFINE k == KeyToAcquire(a)
                 h == Cardinality(held[a])
                 w == Cardinality(want[a])
      <4>1. /\ k \in want[a] /\ k \in Keys /\ pc[a] = "create"
            /\ want[a] # {}
        BY <3>1, NextIsWanted DEF CreateNew, StillWants, TypeOK
      <4>2. /\ held'[a] = held[a] \cup {k} /\ want'[a] = want[a] \ {k}
            /\ pc'[a] = "next" /\ clock'[a] = 0
            /\ lockAge' = [lockAge EXCEPT ![k] = 0]
        BY <3>1 DEF CreateNew, Enter, Goto, TypeOK
      <4>3. k \notin held[a]
        <5>1. k \in Nat
          BY <4>1, KeyRange
        <5>2. k \in held[a] => k < k
          BY <4>1 DEF Possessions
        <5> HIDE DEF k
        <5>3. QED
          BY <5>1, <5>2
      <4>4. /\ h \in Nat /\ w \in Nat /\ w >= 1
            /\ Cardinality(held'[a]) = h + 1
            /\ Cardinality(want'[a]) = w - 1
        <5>1. /\ IsFiniteSet(held[a]) /\ IsFiniteSet(want[a])
              /\ h \in Nat /\ w \in Nat /\ w >= 1
          BY <4>1, Sizes
        <5>2. Cardinality(held[a] \cup {k}) = h + 1
          BY <4>3, <5>1, FS_AddElement
        <5>3. Cardinality(want[a] \ {k}) = w - 1
          BY <4>1, <5>1, FS_RemoveElement
        <5>4. QED
          BY <4>2, <5>1, <5>2, <5>3
      <4>5. /\ lockAge'[k] = 0
            /\ \A j \in Keys : lockAge'[j] = lockAge[j] \/ lockAge'[j] = 0
        BY <4>1, <4>2 DEF TypeOK
      <4>6. /\ Acquiring(a) /\ Acquiring(a)'
        BY <4>1, <4>2 DEF Acquiring, AcquireSteps
      <4> HIDE DEF k, h, w
      <4>7. Affordable(a)'
        <5>1. Cardinality(held'[a]) + Cardinality(want'[a]) - 1 = h + w - 1
          BY <4>4
        <5>2. Waits(h + w - 1) + HoldLimit <= StaleAge
          BY <4>1, <4>6 DEF Fresh, Affordable, h, w
        <5>3. QED
          BY <5>1, <5>2 DEF Affordable
      <4>8. ASSUME NEW j \in held'[a]
            PROVE  lockAge'[j] <= Waits(Cardinality(held'[a]) - 1) + clock'[a]
        <5>1. Cardinality(held'[a]) - 1 = h /\ Waits(h) \in Nat
          BY <4>4, WaitsGrow
        <5>2. CASE j = k \/ lockAge'[j] = 0
          BY <4>2, <4>5, <5>1, <5>2
        <5>3. CASE j \in held[a] /\ lockAge'[j] = lockAge[j]
          <6>1. lockAge[j] <= Waits(h)
            BY <4>6, <5>3, AcquiringAge DEF h
          <6>2. QED
            BY <4>2, <5>1, <5>3, <6>1
        <5>4. QED
          BY <4>1, <4>2, <4>5, <5>2, <5>3, Times
      <4>9. OnTime(a)' /\ AgesBounded(a)'
        <5>1. OnTime(a)'
          BY <4>2, Times DEF OnTime
        <5>2. AgesBounded(a)'
          BY <4>6, <4>8, Zenon DEF AgesBounded
        <5>3. QED
          BY <5>1, <5>2
      <4>10. \A j \in Keys : lockAge'[j] <= lockAge[j]
        BY <4>5, Times
      <4>11. Fresh(a)'
        BY <4>7, <4>9 DEF Fresh
      <4>12. QED
        BY <2>1, <3>0, <4>10, <4>11
    <3>2. CASE Saturated(a) \/ IoFailure(a) \/ TimedOut(a)
      <4>1. /\ Fail(a) /\ UNCHANGED lockAge /\ want[a] # {} /\ Acquiring(a)
        BY <3>2 DEF Saturated, IoFailure, TimedOut, files, StillWants,
           Acquiring, AcquireSteps
      <4>2. Fresh(a)'
        BY <4>1, FailStaysFresh
      <4>3. QED
        BY <2>1, <3>0, <4>1, <4>2, Times
    <3>3. CASE Acquired(a)
      <4>1. /\ pc[a] = "next" /\ want[a] = {} /\ pc'[a] = "guarded"
            /\ clock'[a] = 0 /\ held' = held /\ lockAge' = lockAge
        BY <3>3 DEF Acquired, Enter, Goto, files, TypeOK
      <4>2. Acquiring(a) /\ ~Acquiring(a)'
        BY <4>1 DEF Acquiring, AcquireSteps
      <4>3. ASSUME NEW k \in held[a]
            PROVE  lockAge[k] + HoldLimit <= StaleAge
        <5> DEFINE h == Cardinality(held[a])
        <5>1. h \in Nat /\ h >= 1 /\ Cardinality(want[a]) = 0
          BY <4>1, Sizes, FS_EmptySet
        <5>2. h + Cardinality(want[a]) - 1 = h - 1
          BY <5>1
        <5>3. Waits(h - 1) + HoldLimit <= StaleAge
          BY <4>1, <4>2, <5>2 DEF Fresh, Affordable
        <5>4. lockAge[k] <= Waits(h - 1) + clock[a] /\ clock[a] = 0
          BY <4>1, <4>2 DEF Fresh, AgesBounded, OnTime
        <5> HIDE DEF h
        <5>5. h - 1 \in Nat /\ Waits(h - 1) \in Nat
          BY <5>1, WaitsGrow
        <5>6. lockAge[k] \in Nat /\ HoldLimit \in Nat /\ StaleAge \in Nat
          BY Times
        <5>7. QED
          BY <5>3, <5>4, <5>5, <5>6
      <4>4. StaleAge + 0 = StaleAge
        BY CoordinationAssumption
      <4>5. OnTime(a)' /\ Affordable(a)' /\ AgesBounded(a)'
        BY <4>1, <4>2, <4>3, <4>4, Times
        DEF OnTime, Affordable, AgesBounded
      <4>6. QED
        BY <2>1, <3>0, <4>1, <4>5, Times DEF Fresh
    <3>4. CASE NextKey(a) \/ CreateExists(a) \/ CreateDenied(a) \/ FindStale(a)
               \/ FindNotStale(a) \/ Reclaim(a) \/ Sleep(a)
      <4>1. /\ Acquiring(a) /\ Acquiring(a)' /\ pc'[a] # "next"
            /\ held' = held /\ want' = want
            /\ clock'[a] = clock[a]
        BY <3>4 DEF NextKey, CreateExists, CreateDenied, FindStale,
           FindNotStale, Reclaim, Sleep, Goto, Enter, TypeOK, Acquiring,
           AcquireSteps, Fresh, OnTime
      <4>2. \A k \in Keys : lockAge'[k] <= lockAge[k]
        <5>1. \A k \in Keys : lockAge'[k] \in {0, lockAge[k]}
          BY <3>4 DEF NextKey, CreateExists, CreateDenied, FindStale,
             FindNotStale, Reclaim, Remove, Sleep, files, TypeOK
        <5>2. QED
          BY <5>1, Times
      <4>3. OnTime(a)' /\ Affordable(a)'
        BY <4>1 DEF Fresh, OnTime, Affordable, Acquiring, AcquireSteps
      <4>4. ASSUME NEW k \in held[a]
            PROVE  lockAge'[k] <= Waits(Cardinality(held[a]) - 1) + clock[a]
        <5> DEFINE W == Waits(Cardinality(held[a]) - 1)
        <5>1. lockAge[k] <= W + clock[a]
          BY <4>1 DEF Fresh, AgesBounded
        <5>2. /\ k \in Keys /\ lockAge[k] \in Nat /\ lockAge'[k] \in Nat
              /\ clock[a] \in Nat
          BY Times DEF TypeOK
        <5>3. W \in Nat
          <6>1. Cardinality(held[a]) - 1 \in Nat
            BY Sizes
          <6>2. QED
            BY <6>1, WaitsGrow
        <5> HIDE DEF W
        <5>4. lockAge'[k] <= W + clock[a]
          BY <4>2, <5>1, <5>2, <5>3
        <5>5. QED
          BY <5>4 DEF W
      <4>5. AgesBounded(a)'
        BY <4>1, <4>4 DEF AgesBounded
      <4>6. QED
        BY <2>1, <3>0, <4>2, <4>3, <4>5 DEF Fresh
    <3>5. CASE Finish(a)
      <4>1. /\ pc[a] = "guarded" /\ pc'[a] = "release" /\ held' = held
            /\ clock' = clock /\ lockAge' = lockAge /\ want' = want
        BY <3>5 DEF Finish, Goto, files, TypeOK
      <4>2. Fresh(a)'
        BY <4>1 DEF Fresh, OnTime, Affordable, AgesBounded, Acquiring,
           AcquireSteps
      <4>3. QED
        BY <2>1, <3>0, <4>1, <4>2, Times
    <3>6. CASE ReleaseOne(a)
      <4>1. /\ pc[a] = "release" /\ UNCHANGED <<pc, want, clock>>
            /\ held'[a] \subseteq held[a]
        BY <3>6 DEF ReleaseOne, TypeOK
      <4>2. \A k \in Keys : lockAge'[k] \in {0, lockAge[k]}
        BY <3>6 DEF ReleaseOne, Remove, files, TypeOK
      <4>3. \A k \in Keys : lockAge'[k] <= lockAge[k]
        BY <4>2, Times
      <4>4. ~Acquiring(a)
        BY <4>1 DEF Acquiring, AcquireSteps
      <4>5. Fresh(a)'
        BY <4>1, <4>3, <4>4, FreshStays
      <4>6. QED
        BY <2>1, <3>0, <4>3, <4>5
    <3>7. CASE Released(a)
      <4>1. /\ pc'[a] = "idle" /\ held'[a] = {} /\ lockAge' = lockAge
        BY <3>7 DEF Released, Enter, Goto, files, TypeOK
      <4>2. Fresh(a)'
        BY <4>1 DEF Fresh, OnTime, Affordable, AgesBounded, Acquiring,
           AcquireSteps
      <4>3. QED
        BY <2>1, <3>0, <4>1, <4>2, Times
    <3>8. QED
      BY <2>4, <3>1, <3>2, <3>3, <3>4, <3>5, <3>6, <3>7 DEF Proceed
  <2>5. ASSUME NEW p \in Processes, Crash(p)
        PROVE  (\A b \in Actors : Fresh(b))'
    <3> SUFFICES ASSUME NEW a \in Actors PROVE Fresh(a)'
      OBVIOUS
    <3>1. lockAge' = lockAge /\ \A k \in Keys : lockAge'[k] <= lockAge[k]
      BY <2>5, Times DEF Crash, files
    <3>2. CASE ProcessOf[a] = p
      <4>1. pc'[a] = "idle" /\ held'[a] = {}
        BY <2>5, <3>2 DEF Crash
      <4>2. QED
        BY <4>1 DEF Fresh, OnTime, Affordable, AgesBounded, Acquiring,
           AcquireSteps
    <3>3. CASE ProcessOf[a] # p
      <4>1. /\ pc'[a] = pc[a] /\ want'[a] = want[a] /\ held'[a] = held[a]
            /\ clock'[a] = clock[a]
        BY <2>5, <3>3 DEF Crash
      <4>2. QED
        BY <3>1, <4>1, FreshStays
    <3>4. QED
      BY <3>2, <3>3
  <2>6. CASE UNCHANGED vars
    BY <2>6
    DEF vars, files, Fresh, OnTime, Affordable, AgesBounded, Acquiring
  <2>7. QED
    BY <2>2, <2>3, <2>4, <2>5, <2>6 DEF Next
<1>3. QED
  BY <1>1, <1>2, TypesHold, PossessionsHold, PTL DEF Spec

\* A guard whose set leaves room for its waits is never taken for abandoned,
\* with any number of actors and keys, kills and failing removals.
THEOREM GuardsAreNeverStale == Spec => []GuardsStayFresh
<1>1. ASSUME SetsFit PROVE Spec => []GuardsStayFresh
  <2>1. TypeOK /\ StillWants /\ Possessions /\ (\A a \in Actors : Fresh(a))
        => GuardsStayFresh
    <3> SUFFICES ASSUME TypeOK, StillWants, Possessions,
                        NEW a \in Actors, Fresh(a), NEW k \in held[a]
                 PROVE  lockAge[k] <= StaleAge
      BY DEF GuardsStayFresh
    <3> DEFINE W == Waits(Cardinality(held[a]) - 1)
    <3>1. /\ lockAge[k] \in Nat /\ clock[a] \in Nat /\ HoldLimit \in Nat
          /\ StaleAge \in Nat /\ pc[a] # "idle"
      BY Times DEF Possessions
    <3>2. CASE Acquiring(a) /\ want[a] # {}
      <4> DEFINE V == Waits(Cardinality(held[a]))
      <4>1. lockAge[k] <= V /\ V \in Nat /\ V + HoldLimit <= StaleAge
        BY <3>2, AcquiringAge
      <4> HIDE DEF V
      <4>2. QED
        BY <3>1, <4>1
    <3>3. CASE Acquiring(a) /\ want[a] = {}
      <4> DEFINE h == Cardinality(held[a])
      <4>1. pc[a] = "next"
        BY <3>3 DEF Acquiring, AcquireSteps, StillWants
      <4>2. h \in Nat /\ h >= 1 /\ Cardinality(want[a]) = 0
        BY <3>3, Sizes, FS_EmptySet
      <4>3. h + Cardinality(want[a]) - 1 = h - 1
        BY <4>2
      <4>4. W + HoldLimit <= StaleAge
        BY <3>3, <4>3 DEF Fresh, Affordable
      <4>5. lockAge[k] <= W + clock[a] /\ clock[a] = 0
        BY <3>3, <4>1 DEF Fresh, AgesBounded, OnTime
      <4>6. W \in Nat
        BY <4>2, WaitsGrow
      <4> HIDE DEF W
      <4>7. QED
        BY <3>1, <4>4, <4>5, <4>6
    <3>4. CASE ~Acquiring(a)
      <4>1. pc[a] \in {"guarded", "release"}
        BY <3>1, <3>4 DEF TypeOK, Steps, Acquiring
      <4>2. clock[a] <= HoldLimit /\ lockAge[k] + HoldLimit <= StaleAge + clock[a]
        BY <3>4, <4>1 DEF Fresh, OnTime, AgesBounded
      <4>3. QED
        BY <3>1, <4>2
    <3>5. QED
      BY <3>2, <3>3, <3>4
  <2>2. QED
    BY <1>1, <2>1, TypesHold, PossessionsHold, FreshHolds, PTL
<1>2. ASSUME ~SetsFit PROVE Spec => []GuardsStayFresh
  <2>1. GuardsStayFresh
    BY <1>2 DEF GuardsStayFresh
  <2>2. QED
    BY <2>1, PTL
<1>3. QED
  BY <1>1, <1>2

=============================================================================
