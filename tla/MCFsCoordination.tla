------------------------- MODULE MCFsCoordination -------------------------
(***************************************************************************)
(* Instances of FsCoordination for TLC.                                    *)
(***************************************************************************)
EXTENDS FsCoordination, TLC

CONSTANTS a1, a2, a3, p1, p2, main, dotted, lib, doc, log

\* Every actor is a thread of one process.
MCProcessOf == [a \in Actors |-> p1]

\* Actors are interchangeable in every safety property.
MCSymmetry == Permutations(Actors)

\* One thread per process.
MCProcessOfTwo == [a \in Actors |-> IF a = a2 THEN p2 ELSE p1]

\* Two spellings of one file ("src/main" and "./src/main"), and three others.
MCKeyOf ==
  [p \in Paths |-> CASE p = lib -> 1
                     [] p \in {main, dotted} -> 2
                     [] p = doc -> 3
                     [] p = log -> 4]

MCAnySet == SUBSET Paths

\* One long set, and every file by itself.
MCLongSet == {Paths} \cup {{p} : p \in Paths}

=============================================================================
