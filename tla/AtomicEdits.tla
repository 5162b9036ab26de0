---------------------------- MODULE AtomicEdits ----------------------------
(***************************************************************************)
(* What the edit service promises about the contents of a workspace: an    *)
(* edit changes all of its files at once or none of them, and a rollback   *)
(* takes the edit back out of every file that still holds it, at once.     *)
(* EditService, which reads, verifies and writes one file at a time, is    *)
(* shown to implement it.                                                  *)
(***************************************************************************)
CONSTANTS
  Edits,  \* edit ids
  Paths,  \* files of the workspace
  Texts   \* contents a plain write may leave, the missing file among them

VARIABLES
  store,   \* the content of each file: the set of marks it carries
  targets  \* the files of each edit; none before it is requested

Holding(e) == {p \in Paths : e \in store[p]}

\* An edit of the files S is requested.
Ask(e, S) ==
  /\ targets[e] = {} /\ S # {}
  /\ targets' = [targets EXCEPT ![e] = S]
  /\ UNCHANGED store

\* An edit adds its mark to every one of its files.
Apply(e) ==
  /\ Holding(e) = {} /\ targets[e] # {}
  /\ store' = [p \in Paths |->
                 IF p \in targets[e] THEN store[p] \cup {e} ELSE store[p]]
  /\ UNCHANGED targets

\* A rollback takes the mark back out of every file that carries it.
Revert(e) ==
  /\ Holding(e) # {}
  /\ store' = [p \in Paths |-> store[p] \ {e}]
  /\ UNCHANGED targets

\* A write or a delete that is not an edit.
Put(p, text) ==
  /\ store' = [store EXCEPT ![p] = text]
  /\ UNCHANGED targets

Init ==
  /\ store \in [Paths -> Texts]
  /\ targets = [e \in Edits |-> {}]

Next ==
  \/ \E e \in Edits, S \in SUBSET Paths : Ask(e, S)
  \/ \E e \in Edits : Apply(e) \/ Revert(e)
  \/ \E p \in Paths, text \in Texts : Put(p, text)

Spec == Init /\ [][Next]_<<store, targets>>
============================================================================
