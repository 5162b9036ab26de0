------------------------------ MODULE LockSets ------------------------------
(***************************************************************************)
(* What filesystem coordination promises its callers: a whole set of       *)
(* resources is taken at once or not at all, no resource is in two sets at *)
(* a time, and a guard lets go of everything.  FsCoordination, which takes *)
(* the keys one lock file at a time, is shown to implement it, and         *)
(* EditService is built on it.                                             *)
(***************************************************************************)
CONSTANTS
  Actors,  \* whoever may hold a guard
  Keys     \* resource keys

VARIABLE guarded  \* the keys each actor's guard covers

TypeOK == guarded \in [Actors -> SUBSET Keys]

Init == guarded = [a \in Actors |-> {}]

\* S can be handed to a: no other guard covers any of it.
Free(a, S) == \A b \in Actors \ {a} : guarded[b] \cap S = {}

Acquire(a, S) ==
  /\ guarded[a] = {}
  /\ Free(a, S)
  /\ guarded' = [guarded EXCEPT ![a] = S]

Release(a) == guarded' = [guarded EXCEPT ![a] = {}]

\* A process that is killed lets go of the guards of all its threads.
ReleaseAll(A) ==
  guarded' = [a \in Actors |-> IF a \in A THEN {} ELSE guarded[a]]

Next ==
  \/ \E a \in Actors, S \in SUBSET Keys : Acquire(a, S)
  \/ \E a \in Actors : Release(a)
  \/ \E A \in SUBSET Actors : ReleaseAll(A)

Spec == Init /\ [][Next]_guarded

\* No resource is covered by the guards of two actors.
Disjoint ==
  \A a, b \in Actors : a # b => guarded[a] \cap guarded[b] = {}

=============================================================================
