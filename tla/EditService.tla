---------------------------- MODULE EditService ----------------------------
(***************************************************************************)
(* services/edit.rs over services/snapshot.rs and services/files.rs: agents *)
(* edit and roll back files of one workspace.  Every read, write and       *)
(* verifying re-read of a file, every publication in the snapshot store    *)
(* and every acquisition of the coordination guard is a step, and the      *)
(* steps of different agents interleave.                                   *)
(*                                                                         *)
(* A content is the set of marks it carries: an edit adds its own id to    *)
(* the content it prepared from, a plain write leaves one of the marks of  *)
(* External, and the missing file carries Gone alone.  Equal sets stand    *)
(* for equal SHA-256 hashes.  Paths are numbers, so that their order is    *)
(* the order patch sorts them in.  The coordination guard is the one of    *)
(* LockSets, which FsCoordination implements.                              *)
(***************************************************************************)
EXTENDS Integers, FiniteSets

CONSTANTS
  Agents,       \* callers of the service
  Edits,        \* edit ids, each used by one transaction
  Paths,        \* files of the workspace
  External,     \* contents plain writes leave, complete or cut off
  Gone,         \* the mark of the missing file
  NoEdit,       \* an idle agent works on no edit
  Faults,       \* what may fail: "read", "write", "store"
  MaxForeign,   \* bound: changes made without the guard of the file
  MaxCrashes    \* bound: processes killed

ASSUME EditAssumption ==
  /\ Paths \subseteq Nat
  /\ \E last \in Paths : \A p \in Paths : p <= last  \* finitely many
  /\ Gone \notin Edits \cup External
  /\ NoEdit \notin Edits
  /\ Edits \cap External = {}
  /\ Faults \subseteq {"read", "write", "store"}
  /\ MaxForeign \in Nat
  /\ MaxCrashes \in Nat

Absent == {Gone}
Texts == {{x} : x \in External} \cup {Absent}
Contents == SUBSET (Edits \cup External \cup {Gone})

VARIABLES
  file,        \* content of each file
  guarded,     \* files the coordination guard of each agent covers
  op,          \* what each agent is doing
  targets,     \* files of each edit; none while the id is unused
  method,      \* "patch" or "line" (replace, insert, delete_range)
  captured,    \* edits whose snapshot manifest is published
  snapshot,    \* pre-edit contents in the published manifest
  provenance,  \* the provenance record: "committed", or the reason in its
               \* outcome RolledBack, whatever the rollback came to; or "none"
  status,      \* what the caller of each edit was told
  foreign,     \* changes made without the guard so far
  crashes      \* processes killed so far

vars == <<file, guarded, op, targets, method, captured, snapshot, provenance,
          status, foreign, crashes>>
durable == <<captured, snapshot, provenance>>
bounds == <<foreign, crashes>>
spec == <<targets, method>>

Locks == INSTANCE LockSets WITH Actors <- Agents, Keys <- Paths

Preparing == {"prepare", "capture", "acquire"}
Committing == {"verify", "write", "check"}
Undoing == {"undo", "restore", "confirm"}
RollingBack == {"recheck", "putback", "reread"}
Phases == {"idle", "semantic", "record", "triage", "request", "correlate",
           "replace"}
            \cup Preparing \cup Committing \cup Undoing \cup RollingBack
Outcomes == {"none", "committed", "restored", "already", "conflict", "failed"}
Reports == {"unused", "open", "refused", "failed", "committed",
            "restored", "partial", "crashed"}

Blank == [p \in Paths |-> {}]
IdleOp == [pc |-> "idle", edit |-> NoEdit, todo |-> {}, mark |-> {},
           before |-> Blank, clean |-> TRUE, outcome |-> "none"]

Init ==
  /\ file \in [Paths -> Texts]
  /\ guarded = [a \in Agents |-> {}]
  /\ op = [a \in Agents |-> IdleOp]
  /\ targets = [e \in Edits |-> {}]
  /\ method = [e \in Edits |-> "patch"]
  /\ captured = {}
  /\ snapshot = [e \in Edits |-> Blank]
  /\ provenance = [e \in Edits |-> "none"]
  /\ status = [e \in Edits |-> "unused"]
  /\ foreign = 0
  /\ crashes = 0

-----------------------------------------------------------------------------
(* Helpers *)

First(S) == CHOOSE p \in S : \A q \in S : p <= q
Last(S) == CHOOSE p \in S : \A q \in S : p >= q

Edit(a) == op[a].edit
At(a, phase) == op[a].pc = phase
Todo(a) == op[a].todo
Next1(a) == First(op[a].todo)

\* What the agent's edit was prepared from, and what it makes of it.
Before(a, p) == op[a].before[p]
After(a, p) == Before(a, p) \cup {Edit(a)}

\* The agent's next phase, and the files it has still to visit in it.
Move(a, phase, todo) == op' = [op EXCEPT ![a].pc = phase, ![a].todo = todo]

\* The same, when the file just visited joins those the agent has marked:
\* committed by a patch, found restorable by a rollback.
MarkAndMove(a, p, phase, todo) ==
  op' = [op EXCEPT ![a].pc = phase, ![a].todo = todo, ![a].mark = @ \cup {p}]

\* The edit is over: its caller gets the report and a guard still held drops.
Finish_KeepsGuard(a, report) ==
  /\ op' = [op EXCEPT ![a] = IdleOp]
  /\ status' = [status EXCEPT ![Edit(a)] = report]
  /\ UNCHANGED guarded
Finish(a, report) ==
  /\ op' = [op EXCEPT ![a] = IdleOp]
  /\ Locks!Release(a)
  /\ status' = [status EXCEPT ![Edit(a)] = report]

-----------------------------------------------------------------------------
(* Preparation: patch_internal and the single-file executors               *)

\* A transaction arrives with a fresh id.  replace, insert and delete_range
\* take one file; patch takes any set of them.
Begin(a, e, S, m) ==
  /\ At(a, "idle") /\ targets[e] = {}
  /\ S # {} /\ (m = "line" => Cardinality(S) = 1)
  /\ targets' = [targets EXCEPT ![e] = S]
  /\ method' = [method EXCEPT ![e] = m]
  /\ status' = [status EXCEPT ![e] = "open"]
  /\ op' = [op EXCEPT ![a] = [IdleOp EXCEPT !.pc = "prepare", !.edit = e,
                                            !.todo = S]]
  /\ UNCHANGED <<file, guarded, durable, bounds>>

\* One file is read, with no guard held, and its new content composed.
Prepare(a) ==
  LET p == Next1(a)
      rest == Todo(a) \ {p} IN
  /\ At(a, "prepare") /\ file[p] # Absent
  /\ op' = [op EXCEPT ![a].before[p] = file[p],
                      ![a].pc = IF rest = {} THEN "capture" ELSE "prepare",
                      ![a].todo = rest]
  /\ UNCHANGED <<file, guarded, spec, durable, status, bounds>>

\* A file that is missing, that fails the caller's expected state, or that
\* the operation does not match; a snapshot that cannot be stored; a guard
\* that is not had in time: refused, with nothing written.
Refuse(a) ==
  /\ op[a].pc \in Preparing
  /\ At(a, "capture") => "store" \in Faults
  /\ Finish(a, "refused")
  /\ UNCHANGED <<file, spec, durable, bounds>>

\* The snapshot's blobs are written and read back, then its manifest is
\* published; without the manifest there is no snapshot.
Capture_Unpublished(a) ==
  /\ At(a, "capture")
  /\ Move(a, "acquire", targets[Edit(a)])
  /\ UNCHANGED <<file, guarded, spec, durable, status, bounds>>
Capture(a) ==
  /\ At(a, "capture")
  /\ captured' = captured \cup {Edit(a)}
  /\ snapshot' = [snapshot EXCEPT ![Edit(a)] = op[a].before]
  /\ Move(a, "acquire", targets[Edit(a)])
  /\ UNCHANGED <<file, guarded, spec, provenance, status, bounds>>

\* One guard over every file of the transaction.
Acquire(a) ==
  /\ At(a, "acquire")
  /\ Locks!Acquire(a, targets[Edit(a)])
  /\ Move(a, "verify", Todo(a))
  /\ UNCHANGED <<file, spec, durable, status, bounds>>

-----------------------------------------------------------------------------
(* Commit: commit_verified_locked for each file in path order              *)

\* The files attempt_rollback restores: those whose commit was verified.
UndoTargets_None(a) == {}
UndoTargets(a) == op[a].mark

\* A file does not commit.  A patch undoes the files before it, an executor
\* of a single file returns the error.
CommitFails(a) ==
  \/ /\ method[Edit(a)] = "patch"
     /\ Move(a, "undo", UndoTargets(a))
     /\ UNCHANGED <<guarded, status>>
  \/ /\ method[Edit(a)] = "line"
     /\ Finish(a, "failed")

\* The live content is still the one the edit was prepared from.
LiveUnchanged_Always(a, p) == TRUE
LiveUnchanged(a, p) == file[p] = Before(a, p)

Verify(a) ==
  /\ At(a, "verify")
  /\ LiveUnchanged(a, Next1(a))
  /\ Move(a, "write", Todo(a))
  /\ UNCHANGED <<file, guarded, spec, durable, status, bounds>>

VerifyFails(a) ==
  /\ At(a, "verify")
  /\ ~LiveUnchanged(a, Next1(a)) \/ "read" \in Faults
  /\ CommitFails(a)
  /\ UNCHANGED <<file, spec, durable, bounds>>

\* The staged file is renamed over the target.  write_atomic_locked takes no
\* guard of its own.
Write(a) ==
  /\ At(a, "write")
  /\ file' = [file EXCEPT ![Next1(a)] = After(a, Next1(a))]
  /\ Move(a, "check", Todo(a))
  /\ UNCHANGED <<guarded, spec, durable, status, bounds>>

\* Every failure of write_atomic_locked leaves the target untouched.
WriteFails(a) ==
  /\ At(a, "write") /\ "write" \in Faults
  /\ CommitFails(a)
  /\ UNCHANGED <<file, spec, durable, bounds>>

\* The file is re-read and holds what was written.  After the last file a
\* patch goes on to its provenance with the guard held; commit_verified of a
\* single file drops the guard before its caller looks at the file again.
Check(a) ==
  LET p == Next1(a)
      rest == Todo(a) \ {p} IN
  /\ At(a, "check") /\ file[p] = After(a, p)
  /\ \/ /\ rest # {}
        /\ MarkAndMove(a, p, "verify", rest)
        /\ UNCHANGED guarded
     \/ /\ rest = {} /\ method[Edit(a)] = "patch"
        /\ MarkAndMove(a, p, "record", {})
        /\ UNCHANGED guarded
     \/ /\ rest = {} /\ method[Edit(a)] = "line"
        /\ MarkAndMove(a, p, "semantic", {p})
        /\ Locks!Release(a)
  /\ UNCHANGED <<file, spec, durable, status, bounds>>

CheckFails(a) ==
  /\ At(a, "check")
  /\ file[Next1(a)] # After(a, Next1(a)) \/ "read" \in Faults
  /\ CommitFails(a)
  /\ UNCHANGED <<file, spec, durable, bounds>>

\* The single-file executors read the file once more, unguarded: replace and
\* insert look for their text in it, delete_range counts its lines.  A content
\* without the edit may pass, and one with it may fail, as it always does
\* when the text put in is empty; a file that is gone cannot be read.
Semantic(a) ==
  /\ At(a, "semantic") /\ file[Next1(a)] # Absent
  /\ Move(a, "record", {})
  /\ UNCHANGED <<file, guarded, spec, durable, status, bounds>>

SemanticFails(a) ==
  /\ At(a, "semantic")
  /\ Finish(a, "failed")
  /\ UNCHANGED <<file, spec, durable, bounds>>

\* The provenance record, which makes the edit known to rollback.  Failing to
\* store it changes nothing of the outcome.
Record(a) ==
  /\ At(a, "record")
  /\ \/ provenance' = [provenance EXCEPT ![Edit(a)] = "committed"]
     \/ "store" \in Faults /\ UNCHANGED provenance
  /\ Finish(a, "committed")
  /\ UNCHANGED <<file, spec, captured, snapshot, bounds>>

-----------------------------------------------------------------------------
(* attempt_rollback: the patch undoes its committed files, last one first  *)

\* One file is done with; the undo is clean as long as each was restored.
UndoNext(a, restored) ==
  op' = [op EXCEPT ![a].pc = "undo", ![a].todo = @ \ {Last(@)},
                   ![a].clean = @ /\ restored]

Undo(a) ==
  /\ At(a, "undo") /\ Todo(a) # {}
  /\ \/ /\ file[Last(Todo(a))] = After(a, Last(Todo(a)))
        /\ Move(a, "restore", Todo(a))
     \/ /\ file[Last(Todo(a))] # After(a, Last(Todo(a))) \/ "read" \in Faults
        /\ UndoNext(a, FALSE)
  /\ UNCHANGED <<file, guarded, spec, durable, status, bounds>>

Restore(a) ==
  LET p == Last(Todo(a)) IN
  /\ At(a, "restore")
  /\ \/ /\ file' = [file EXCEPT ![p] = Before(a, p)]
        /\ Move(a, "confirm", Todo(a))
     \/ /\ "write" \in Faults
        /\ UndoNext(a, FALSE)
        /\ UNCHANGED file
  /\ UNCHANGED <<guarded, spec, durable, status, bounds>>

Confirm(a) ==
  LET p == Last(Todo(a)) IN
  /\ At(a, "confirm")
  /\ \/ file[p] = Before(a, p) /\ UndoNext(a, TRUE)
     \/ (file[p] # Before(a, p) \/ "read" \in Faults) /\ UndoNext(a, FALSE)
  /\ UNCHANGED <<file, guarded, spec, durable, status, bounds>>

\* CommitFailed, with fully_restored telling the caller how the undo went.
UndoDone(a) ==
  /\ At(a, "undo") /\ Todo(a) = {}
  /\ Finish(a, IF op[a].clean THEN "restored" ELSE "partial")
  /\ UNCHANGED <<file, spec, durable, bounds>>

-----------------------------------------------------------------------------
(* rollback_edit: an explicit rollback by edit id                          *)

\* Resolution needs the provenance record and the snapshot it names.
StartRollback(a, e) ==
  /\ At(a, "idle") /\ provenance[e] # "none" /\ e \in captured
  /\ op' = [op EXCEPT ![a] = [IdleOp EXCEPT !.pc = "triage", !.edit = e,
                                            !.todo = targets[e],
                                            !.before = snapshot[e]]]
  /\ UNCHANGED <<file, guarded, spec, durable, status, bounds>>

Conclude(a, outcome) ==
  op' = [op EXCEPT ![a].pc = "correlate", ![a].todo = {}, ![a].mark = {},
                   ![a].outcome = outcome]

\* Without a guard, each target is sorted out: still as the edit left it, it
\* is pending; already as it was before, it is left out; else a conflict.
AlreadyBack(a, p) == file[p] = Before(a, p)

TriageTo(a, p, marked) ==
  LET rest == Todo(a) \ {p}
      pending == IF marked THEN op[a].mark \cup {p} ELSE op[a].mark IN
  IF rest = {} /\ pending = {}
  THEN Conclude(a, "already")
  ELSE op' = [op EXCEPT ![a].pc = IF rest = {} THEN "request" ELSE "triage",
                        ![a].todo = rest, ![a].mark = pending]

Triage(a) ==
  LET p == Next1(a) IN
  /\ At(a, "triage")
  /\ \/ file[p] = After(a, p) /\ TriageTo(a, p, TRUE)
     \/ file[p] # After(a, p) /\ AlreadyBack(a, p) /\ TriageTo(a, p, FALSE)
     \/ /\ (file[p] # After(a, p) /\ ~AlreadyBack(a, p)) \/ "read" \in Faults
        /\ Conclude(a, "conflict")
  /\ UNCHANGED <<file, guarded, spec, durable, status, bounds>>

\* The rollback's own guard, over the pending files.
Request(a) ==
  /\ At(a, "request")
  /\ Locks!Acquire(a, op[a].mark)
  /\ Move(a, "recheck", op[a].mark)
  /\ UNCHANGED <<file, spec, durable, status, bounds>>

\* The rollback returns an error and records no outcome: the guard was not
\* had, or a restored file could not be read back.
RollbackErrs(a) ==
  /\ At(a, "request") \/ (At(a, "reread") /\ "read" \in Faults)
  /\ op' = [op EXCEPT ![a] = IdleOp]
  /\ Locks!Release(a)
  /\ UNCHANGED <<file, spec, durable, status, bounds>>

\* Under the guard every pending file must still be as the edit left it,
\* before any of them is touched.
StillProduced_Assumed(a, p) == TRUE
StillProduced(a, p) == file[p] = After(a, p)

Recheck(a) ==
  LET p == Next1(a)
      rest == Todo(a) \ {p} IN
  /\ At(a, "recheck")
  /\ \/ /\ StillProduced(a, p)
        /\ IF rest = {} THEN Move(a, "putback", op[a].mark)
                        ELSE Move(a, "recheck", rest)
        /\ UNCHANGED guarded
     \/ /\ ~StillProduced(a, p) \/ "read" \in Faults
        /\ Conclude(a, "conflict")
        /\ Locks!Release(a)
  /\ UNCHANGED <<file, spec, durable, status, bounds>>

PutBack(a) ==
  LET p == Last(Todo(a)) IN
  /\ At(a, "putback")
  /\ \/ /\ file' = [file EXCEPT ![p] = Before(a, p)]
        /\ Move(a, "reread", Todo(a))
        /\ UNCHANGED guarded
     \/ /\ "write" \in Faults
        /\ Conclude(a, "failed")
        /\ Locks!Release(a)
        /\ UNCHANGED file
  /\ UNCHANGED <<spec, durable, status, bounds>>

Reread(a) ==
  LET p == Last(Todo(a))
      rest == Todo(a) \ {p} IN
  /\ At(a, "reread")
  /\ \/ /\ file[p] = Before(a, p) /\ rest # {}
        /\ Move(a, "putback", rest)
        /\ UNCHANGED guarded
     \/ /\ file[p] = Before(a, p) /\ rest = {}
        /\ Conclude(a, "restored")
        /\ Locks!Release(a)
     \/ /\ file[p] # Before(a, p)
        /\ Conclude(a, "failed")
        /\ Locks!Release(a)
  /\ UNCHANGED <<file, spec, durable, status, bounds>>

\* After the guard is gone the provenance record is read ...
Correlate(a) ==
  /\ At(a, "correlate")
  /\ \/ Move(a, "replace", {})
     \/ "store" \in Faults /\ op' = [op EXCEPT ![a] = IdleOp]
  /\ UNCHANGED <<file, guarded, spec, durable, status, bounds>>

\* ... and written back with this rollback's outcome, over whatever another
\* one has recorded since; failing to store it changes nothing.
ReplaceOutcome(a) ==
  /\ At(a, "replace")
  /\ \/ provenance' = [provenance EXCEPT ![Edit(a)] = op[a].outcome]
     \/ "store" \in Faults /\ UNCHANGED provenance
  /\ op' = [op EXCEPT ![a] = IdleOp]
  /\ UNCHANGED <<file, guarded, spec, captured, snapshot, status, bounds>>

-----------------------------------------------------------------------------
(* The files service, other programs, crashes                              *)

\* FilesService::write, write_atomic and the deletion of a file: last writer
\* wins, under a guard of its own.  write truncates the file before it fills
\* it: who reads in between sees a text cut off, which is a step like this.
Overwrite(a, p, text) ==
  /\ At(a, "idle") /\ Locks!Free(a, {p})
  /\ file' = [file EXCEPT ![p] = text]
  /\ UNCHANGED <<guarded, op, spec, durable, status, bounds>>

\* An editor or a shell takes no guard, and the deletion of a directory only
\* that of the directory's path, not those of the files it removes.
Foreign(p, text) ==
  /\ foreign < MaxForeign
  /\ foreign' = foreign + 1
  /\ file' = [file EXCEPT ![p] = text]
  /\ UNCHANGED <<guarded, op, spec, durable, status, crashes>>

\* The process is killed: its guard is reclaimed once it is stale, the files
\* and the snapshot store stay as they are.
Crash(a) ==
  /\ ~At(a, "idle") /\ crashes < MaxCrashes
  /\ crashes' = crashes + 1
  /\ op' = [op EXCEPT ![a] = IdleOp]
  /\ Locks!Release(a)
  /\ status' = [status EXCEPT ![Edit(a)] = IF @ = "open" THEN "crashed" ELSE @]
  /\ UNCHANGED <<file, spec, durable, foreign>>

EditStep(a) ==
  \/ Prepare(a) \/ Refuse(a) \/ Capture(a) \/ Acquire(a)
  \/ Verify(a) \/ VerifyFails(a) \/ Write(a) \/ WriteFails(a)
  \/ Check(a) \/ CheckFails(a) \/ Semantic(a) \/ SemanticFails(a) \/ Record(a)
  \/ Undo(a) \/ Restore(a) \/ Confirm(a) \/ UndoDone(a)

RollbackStep(a) ==
  \/ Triage(a) \/ Request(a) \/ RollbackErrs(a) \/ Recheck(a)
  \/ PutBack(a) \/ Reread(a) \/ Correlate(a) \/ ReplaceOutcome(a)

Next ==
  \/ \E a \in Agents : EditStep(a) \/ RollbackStep(a) \/ Crash(a)
  \/ \E a \in Agents, e \in Edits, S \in SUBSET Paths, m \in {"patch", "line"} :
       Begin(a, e, S, m)
  \/ \E a \in Agents, e \in Edits : StartRollback(a, e)
  \/ \E a \in Agents, p \in Paths, text \in Texts : Overwrite(a, p, text)
  \/ \E p \in Paths, text \in Texts : Foreign(p, text)

Spec == Init /\ [][Next]_vars

-----------------------------------------------------------------------------
(* Properties *)

Guarded == Committing \cup Undoing \cup RollingBack

\* The state has its shape, and a guard is held exactly in the phases that
\* run under one, over the files the phase works on: the guard is a scoped
\* value of patch_internal, commit_verified and rollback_edits_inner.
TypeOK ==
  /\ file \in [Paths -> Contents]
  /\ guarded \in [Agents -> SUBSET Paths]
  /\ op \in [Agents -> [pc : Phases, edit : Edits \cup {NoEdit},
                        todo : SUBSET Paths, mark : SUBSET Paths,
                        before : [Paths -> Contents], clean : BOOLEAN,
                        outcome : Outcomes]]
  /\ targets \in [Edits -> SUBSET Paths]
  /\ method \in [Edits -> {"patch", "line"}]
  /\ captured \in SUBSET Edits
  /\ snapshot \in [Edits -> [Paths -> Contents]]
  /\ provenance \in [Edits -> Outcomes]
  /\ status \in [Edits -> Reports]
  /\ foreign \in 0..MaxForeign
  /\ crashes \in 0..MaxCrashes
  /\ \A a \in Agents :
       /\ op[a].pc # "idle" => op[a].edit \in Edits
       /\ op[a].pc \in Guarded => op[a].todo \cup op[a].mark \subseteq guarded[a]
       /\ guarded[a] # {} => op[a].pc \in Guarded \cup {"record"}

\* Recovery material precedes the mutation: whenever a file carries an edit,
\* with writes failing, processes dying and foreign programs writing at any
\* point, the edit's manifest is published and names that file, with a
\* content that does not carry the edit (capture before the commit).
SnapshotCovers ==
  \A e \in Edits, p \in Paths :
    e \in file[p] => e \in captured /\ p \in targets[e] /\ e \notin snapshot[e][p]

\* As long as every change is made under the guard of its file, a file changes
\* in three ways only: an edit is applied to exactly the content its snapshot
\* recorded, an edit is taken out of exactly the content it produced, or a
\* plain write replaces it.  No edit, undo or rollback overwrites what it has
\* not seen.
ExactStep ==
  \A p \in Paths : file'[p] # file[p] =>
    \/ \E e \in captured :
         \/ file[p] = snapshot[e][p] /\ file'[p] = file[p] \cup {e}
         \/ file'[p] = snapshot[e][p] /\ file[p] = file'[p] \cup {e}
    \/ op' = op /\ file'[p] \in Texts
ExactSteps == [][foreign' = 0 => ExactStep]_vars

\* As long as every change is made under the guard of its file, an edit whose
\* record says it was rolled back is in no file, and no later edit, undo or
\* rollback brings it back.
RolledBackStaysGone ==
  foreign = 0 =>
    \A e \in Edits : provenance[e] \in {"restored", "already"} =>
      \A p \in Paths : e \notin file[p]

\* CommitFailed with fully_restored = true means that no file carries the
\* transaction.
FullyRestoredMeansRestored ==
  \A e \in Edits : status[e] = "restored" => \A p \in Paths : e \notin file[p]

\* The contents an observer who respects the guard can tell: a commit shows
\* with its last verified file, a rollback with its last restored one.
Committed(a) ==
  CASE op[a].pc \in {"verify", "write"} -> op[a].mark
    [] op[a].pc = "check" -> op[a].mark \cup {Next1(a)}
    [] op[a].pc \in Undoing -> op[a].todo
    [] OTHER -> {}

PutBackBy(a) ==
  CASE op[a].pc = "putback" -> op[a].mark \ op[a].todo
    [] op[a].pc = "reread" -> (op[a].mark \ op[a].todo) \cup {Last(Todo(a))}
    [] OTHER -> {}

Store ==
  [p \in Paths |->
     IF \E a \in Agents : p \in Committed(a)
     THEN Before(CHOOSE a \in Agents : p \in Committed(a), p)
     ELSE IF \E a \in Agents : p \in PutBackBy(a)
     THEN After(CHOOSE a \in Agents : p \in PutBackBy(a), p)
     ELSE file[p]]

Atomic == INSTANCE AtomicEdits WITH store <- Store

\* With no I/O failure, no crash and every writer under the guard, edits and
\* rollbacks are atomic over all their files.
ImplementsAtomicEdits == Atomic!Spec
============================================================================
