-------------------------- MODULE EditAtomicProofs --------------------------
(***************************************************************************)
(* EditService implements AtomicEdits, for every number of agents, edits   *)
(* and files: when no file operation fails, nobody is killed and every     *)
(* writer takes the guard, whoever respects the guard sees an edit of      *)
(* several files, its undo and its rollback happen at once.                *)
(***************************************************************************)
EXTENDS EditExactProofs, FiniteSetTheorems

NothingFails == Faults = {} /\ MaxForeign = 0 /\ MaxCrashes = 0

(***************************************************************************)
(* The inductive invariant, on top of EInv                                 *)
(***************************************************************************)

\* How far an edit, its undo or a rollback has come, file by file.
Progress(a) ==
  /\ op[a].pc \in Committing =>
       /\ op[a].mark \cap op[a].todo = {}
       /\ op[a].mark \cup op[a].todo = targets[op[a].edit]
       /\ \A p \in op[a].mark : file[p] = After(a, p)
  /\ op[a].pc = "check" => file[Next1(a)] = After(a, Next1(a))
  /\ op[a].pc \in {"undo", "restore"} =>
       \A p \in op[a].todo : file[p] = After(a, p)
  /\ op[a].pc = "confirm" =>
       /\ file[Last(Todo(a))] = Before(a, Last(Todo(a)))
       /\ \A p \in op[a].todo \ {Last(Todo(a))} : file[p] = After(a, p)
  /\ op[a].pc \in {"putback", "reread"} => op[a].todo \subseteq op[a].mark
  /\ op[a].pc = "putback" =>
       \A p \in op[a].mark \ op[a].todo : file[p] = Before(a, p)
  /\ op[a].pc = "reread" =>
       \A p \in op[a].mark \ (op[a].todo \ {Last(Todo(a))}) :
         file[p] = Before(a, p)

\* Two agents never put the files of the same edit back.
OneRollback ==
  \A a, b \in Agents :
    (a # b /\ op[a].pc \in {"putback", "reread"}
           /\ op[b].pc \in {"putback", "reread"}) => op[a].edit # op[b].edit

\* replace, insert and delete_range work on one file.
OneLine ==
  \A e \in Edits : method[e] = "line" /\ targets[e] # {} =>
    \E p \in Paths : targets[e] = {p}

RInv ==
  /\ \A a \in Agents : Progress(a)
  /\ OneRollback
  /\ OneLine

(***************************************************************************)
(* The abstract store                                                      *)
(***************************************************************************)

\* What agent a shows of file p to those who respect its guard.
Shown(a, p) ==
  IF p \in Committed(a) THEN Before(a, p)
  ELSE IF p \in PutBackBy(a) THEN After(a, p)
  ELSE file[p]

\* The store holds, of each file, what the one agent that may have a guard
\* on it shows.
StoreShown ==
  \A a \in Agents, p \in Paths :
    (\A b \in Agents \ {a} : p \notin guarded[b]) => Store[p] = Shown(a, p)

(***************************************************************************)
(* Frames                                                                  *)
(***************************************************************************)

\* What agent b has done of its work is left alone by the others.
LEMMA OthersProgress ==
  ASSUME EInv, NEW a \in Agents, NEW b \in Agents \ {a}, Progress(b),
         Considerate(a)
  PROVE  Progress(b)'
<1>1. op'[b] = op[b]
  BY DEF Considerate
<1>2. CASE op[b].pc \notin Guarded
  BY <1>1, <1>2 DEF Progress, Guarded, Committing, Undoing, RollingBack
<1>3. CASE op[b].pc \in Guarded
  <2>1. op[b].pc # "idle"
    BY <1>3 DEF Guarded, Committing, Undoing, RollingBack
  <2>2. /\ op[b].edit \in Edits /\ targets[op[b].edit] # {}
        /\ op[b].todo \cup op[b].mark \subseteq guarded[b]
        /\ op[b].todo \subseteq Paths /\ op[b].mark \subseteq Paths
        /\ op[b].pc \in Visiting =>
             Next1(b) \in op[b].todo /\ Last(Todo(b)) \in op[b].todo
    BY <1>3, <2>1, AtWork
  <2>3. \A p \in op[b].todo \cup op[b].mark : file'[p] = file[p]
    BY <2>2 DEF Considerate
  <2>4. targets'[op[b].edit] = targets[op[b].edit]
    BY <2>2 DEF Considerate
  <2>5. Next1(b)' = Next1(b) /\ Last(Todo(b))' = Last(Todo(b))
    BY <1>1 DEF Next1, Todo
  <2>6. \A p \in Paths : Before(b, p)' = Before(b, p) /\ After(b, p)' = After(b, p)
    BY <1>1 DEF Before, After, Edit
  <2>7. /\ op[b].pc = "check" => Next1(b) \in op[b].todo
        /\ op[b].pc \in {"confirm", "reread"} => Last(Todo(b)) \in op[b].todo
    BY <2>2 DEF Visiting, Committing, RollingBack
  <2>8. QED
    BY <1>1, <2>2, <2>3, <2>4, <2>5, <2>6, <2>7 DEF Progress
<1>4. QED
  BY <1>2, <1>3

\* A considerate step keeps the invariant as soon as the agent's own work
\* agrees with it, and it enters no rollback another agent is putting back.
LEMMA ProgressKeeps ==
  ASSUME EInv, RInv, NEW a \in Agents, Considerate(a), Progress(a)',
         op'[a].pc \in {"putback", "reread"} =>
           \/ /\ op[a].pc \in {"putback", "reread"}
              /\ op'[a].edit = op[a].edit
           \/ \A b \in Agents \ {a} : op[b].pc \in {"putback", "reread"}
                => op[b].edit # op'[a].edit,
         OneLine'
  PROVE  RInv'
<1>1. \A b \in Agents : Progress(b)'
  BY OthersProgress DEF RInv
<1>2. OneRollback'
  BY DEF RInv, OneRollback, Considerate
<1>3. QED
  BY <1>1, <1>2 DEF RInv

\* Every step of an agent is considerate, and only Begin uses up an edit id.
LEMMA StepsConsiderate ==
  ASSUME EInv, IInv', NothingFails, NEW a \in Agents,
         EditStep(a) \/ RollbackStep(a)
  PROVE  Considerate(a) /\ UNCHANGED <<targets, method>>
<1>1. /\ op \in [Agents -> OpType] /\ op[a] \in OpType
      /\ file \in [Paths -> Contents] /\ guarded \in [Agents -> SUBSET Paths]
      /\ provenance \in [Edits -> Outcomes]
      /\ snapshot \in [Edits -> [Paths -> Contents]]
  BY DEF EInv, IInv, SharedOK
<1>2. \A b \in Agents \ {a} : op'[b] = op[b]
  BY <1>1 DEF EditStep, RollbackStep, Prepare, Refuse, Capture, Acquire, Verify,
     VerifyFails, Write, WriteFails, Check, CheckFails, Semantic, SemanticFails,
     Record, Undo, Restore, Confirm, UndoDone, Triage, Request, RollbackErrs,
     Recheck, PutBack, Reread, Correlate, ReplaceOutcome, Finish, CommitFails,
     Move,
     MarkAndMove, UndoNext, TriageTo, Conclude
<1>3. \A b \in Agents \ {a} : guarded'[b] = guarded[b]
  BY <1>1 DEF EditStep, RollbackStep, Prepare, Refuse, Capture, Acquire, Verify,
     VerifyFails, Write, WriteFails, Check, CheckFails, Semantic, SemanticFails,
     Record, Undo, Restore, Confirm, UndoDone, Triage, Request, RollbackErrs,
     Recheck, PutBack, Reread, Correlate, ReplaceOutcome, Finish, CommitFails,
     Locks!Release, Locks!Acquire
<1>4. UNCHANGED <<targets, method>>
  BY DEF EditStep, RollbackStep, Prepare, Refuse, Capture, Acquire, Verify,
     VerifyFails, Write, WriteFails, Check, CheckFails, Semantic, SemanticFails,
     Record, Undo, Restore, Confirm, UndoDone, Triage, Request, RollbackErrs,
     Recheck, PutBack, Reread, Correlate, ReplaceOutcome, spec
<1>5. CASE Capture(a)
  <2>1. op[a].pc = "capture" /\ UNCHANGED <<file, provenance>>
    BY <1>5 DEF Capture, At
  <2>2. op[a].edit \notin captured
    BY <2>1, AgentFacts DEF EInv, AgentOK, Uncaptured
  <2>3. \A e \in captured : snapshot'[e] = snapshot[e]
    BY <1>1, <1>5, <2>2 DEF Capture, Edit, EInv, IInv, SharedOK
  <2>4. QED
    BY <1>2, <1>3, <1>4, <2>1, <2>3 DEF Considerate
<1>6. CASE Record(a) \/ ReplaceOutcome(a)
  <2>1. UNCHANGED <<file, snapshot>>
    BY <1>6 DEF Record, ReplaceOutcome
  <2>2. /\ op[a].pc \in {"record", "replace"}
        /\ \A e \in Edits : provenance'[e] # provenance[e] =>
             e = op[a].edit /\ provenance'[e] \in {"committed", op[a].outcome}
    BY <1>1, <1>6 DEF Record, ReplaceOutcome, At, Edit
  <2>3. op[a].pc = "replace" => op[a].outcome # "none"
    BY DEF EInv, Lifecycle
  <2>4. QED
    BY <1>1, <1>2, <1>3, <1>4, <1>6, <2>1, <2>2, <2>3
    DEF Considerate, Record, ReplaceOutcome, Edit, At
<1>7. CASE Write(a)
  <2> DEFINE p == Next1(a)
  <2>1. /\ op[a].pc = "write" /\ p \in Paths /\ p \in guarded[a]
        /\ file' = [file EXCEPT ![p] = After(a, p)]
        /\ UNCHANGED <<snapshot, provenance>>
    BY <1>7, AtWork DEF Write, At, durable, Visiting, Committing, Guarded
  <2>2. file[p] = Before(a, p)
    BY <2>1 DEF EInv, Exact
  <2>3. \A q \in Paths : file'[q] = IF q = p THEN file[p] \cup {op[a].edit}
                                    ELSE file[q]
    BY <1>1, <2>1, <2>2 DEF After, Edit
  <2>4. \A b \in Agents \ {a} : p \notin guarded[b]
    BY <2>1 DEF EInv, Locks!Disjoint
  <2>5. QED
    BY <1>2, <1>3, <1>4, <2>1, <2>3, <2>4 DEF Considerate
<1>8. CASE Restore(a) \/ PutBack(a)
  <2> DEFINE p == Last(Todo(a))
  <2>1. /\ op[a].pc \in {"restore", "putback"}
        /\ file' = [file EXCEPT ![p] = Before(a, p)]
        /\ UNCHANGED <<guarded, captured, snapshot, provenance>>
    BY <1>8 DEF Restore, PutBack, At, durable, NothingFails
  <2>2. p \in op[a].todo /\ p \in Paths /\ p \in guarded[a]
    BY <2>1, AtWork DEF Visiting, RollingBack, Guarded, Undoing, Committing
  <2>3. file[p] = After(a, p)
    BY <2>1, <2>2 DEF EInv, Exact, Todo
  <2>4. QED
    BY <1>2, <1>4, <2>1, <2>2, <2>3, PutsBack
<1>9. CASE ~ (Capture(a) \/ Record(a) \/ ReplaceOutcome(a) \/ Write(a)
              \/ Restore(a) \/ PutBack(a))
  <2>1. UNCHANGED <<file, snapshot, provenance>>
    BY <1>9 DEF EditStep, RollbackStep, Prepare, Refuse, Acquire, Verify,
       VerifyFails, WriteFails, Check, CheckFails, Semantic, SemanticFails,
       Undo, Confirm, UndoDone, Triage, Request, RollbackErrs, Recheck, Reread,
       Correlate, durable
  <2>2. QED
    BY <1>2, <1>3, <1>4, <2>1 DEF Considerate
<1>10. QED
  BY <1>4, <1>5, <1>6, <1>7, <1>8, <1>9

(***************************************************************************)
(* How the work of one agent goes on                                       *)
(***************************************************************************)

\* The phases of which Progress says nothing.
LEMMA NoProgress ==
  ASSUME NEW a \in Agents, op'[a].pc \notin Committing \cup Undoing \cup RollingBack
  PROVE  Progress(a)'
BY DEF Progress, Committing, Undoing, RollingBack

LEMMA ToRecheck ==
  ASSUME NEW a \in Agents, op'[a].pc = "recheck"
  PROVE  Progress(a)'
BY DEF Progress, Committing

\* The first file of a commit, and the next one.
LEMMA CommitProgress ==
  ASSUME EInv, RInv, NothingFails, NEW a \in Agents,
         Acquire(a) \/ Verify(a) \/ Check(a)
  PROVE  Progress(a)'
<1>1. op \in [Agents -> OpType] /\ op[a] \in OpType
      /\ UNCHANGED <<file, targets>>
  BY DEF EInv, IInv, Acquire, Verify, Check, spec
<1>2. Progress(a)
  BY DEF RInv
<1>3. CASE Acquire(a)
  <2>1. /\ op[a].pc = "acquire" /\ op'[a].pc = "verify"
        /\ op'[a].todo = op[a].todo /\ op'[a].mark = op[a].mark
        /\ op'[a].edit = op[a].edit
    BY <1>1, <1>3 DEF Acquire, At, Move, Todo, OpType
  <2>2. op[a].mark = {} /\ op[a].todo = targets[op[a].edit]
    BY <2>1, AgentFacts DEF EInv, AgentOK, Preparing
  <2>3. QED
    BY <1>1, <2>1, <2>2 DEF Progress
<1>4. CASE Verify(a)
  <2>1. /\ op[a].pc = "verify" /\ op'[a].pc = "write"
        /\ op'[a].todo = op[a].todo /\ op'[a].mark = op[a].mark
        /\ op'[a].edit = op[a].edit /\ op'[a].before = op[a].before
    BY <1>1, <1>4 DEF Verify, At, Move, Todo, OpType
  <2>2. QED
    BY <1>1, <1>2, <2>1 DEF Progress, Committing, After, Before, Edit
<1>5. CASE Check(a)
  <2> DEFINE p == Next1(a)
             rest == op[a].todo \ {p}
  <2>1. op[a].pc = "check"
    BY <1>5 DEF Check, At
  <2>2. CASE MarkAndMove(a, p, "verify", rest)
    <3>1. /\ op'[a].pc = "verify" /\ op'[a].todo = rest
          /\ op'[a].mark = op[a].mark \cup {p}
          /\ op'[a].edit = op[a].edit /\ op'[a].before = op[a].before
      BY <1>1, <2>2 DEF MarkAndMove, OpType
    <3>2. p \in op[a].todo
      BY <2>1, AtWork DEF Visiting, Committing
    <3>3. QED
      BY <1>1, <1>2, <2>1, <3>1, <3>2 DEF Progress, Committing, After, Before, Edit
  <2>3. CASE \/ MarkAndMove(a, p, "record", {})
             \/ MarkAndMove(a, p, "semantic", {p})
    <3>1. op'[a].pc \in {"record", "semantic"}
      BY <1>1, <2>3 DEF MarkAndMove, OpType
    <3>2. QED
      BY <3>1, NoProgress DEF Committing, Undoing, RollingBack
  <2>4. QED
    BY <1>5, <2>2, <2>3 DEF Check, Todo
<1>6. QED
  BY <1>3, <1>4, <1>5

\* The write makes the file what the edit makes of it.
LEMMA WriteProgress ==
  ASSUME EInv, RInv, NEW a \in Agents, Write(a)
  PROVE  Progress(a)'
<1> DEFINE p == Next1(a)
<1>1. /\ op \in [Agents -> OpType] /\ op[a] \in OpType
      /\ op[a].pc = "write" /\ file \in [Paths -> Contents]
  BY DEF EInv, IInv, SharedOK, Write, At
<1>2. /\ op'[a].pc = "check" /\ op'[a].todo = op[a].todo
      /\ op'[a].mark = op[a].mark /\ op'[a].edit = op[a].edit
      /\ op'[a].before = op[a].before
      /\ file' = [file EXCEPT ![p] = After(a, p)]
      /\ targets' = targets
  BY <1>1 DEF Write, Move, Todo, OpType, spec
<1>3. p \in op[a].todo /\ p \in Paths /\ op[a].mark \subseteq Paths
  BY <1>1, AtWork DEF Visiting, Committing
<1>4. \A q \in Paths : file'[q] = IF q = p THEN After(a, p) ELSE file[q]
  BY <1>1, <1>2
<1>5. Next1(a)' = p /\ \A q \in Paths : After(a, q)' = After(a, q)
  BY <1>2 DEF Next1, After, Before, Edit
<1>6. Progress(a)
  BY DEF RInv
<1>7. QED
  BY <1>1, <1>2, <1>3, <1>4, <1>5, <1>6 DEF Progress, Committing

\* Only the live check of a commit can fail, and no file was written then
\* that is not among those to undo.
LEMMA FailProgress ==
  ASSUME EInv, RInv, NothingFails, NEW a \in Agents,
         VerifyFails(a) \/ WriteFails(a) \/ CheckFails(a)
  PROVE  /\ Progress(a)' /\ op[a].pc = "verify"
         /\ VerifyFails(a)
<1>1. op \in [Agents -> OpType] /\ op[a] \in OpType /\ Progress(a)
  BY DEF EInv, IInv, RInv
<1>2. ~ WriteFails(a) /\ ~ CheckFails(a)
  BY <1>1 DEF WriteFails, CheckFails, NothingFails, At, Progress
<1>3. op[a].pc = "verify" /\ UNCHANGED file /\ CommitFails(a)
  BY <1>2 DEF VerifyFails, At
<1>4. CASE Move(a, "undo", UndoTargets(a))
  <2>1. /\ op'[a].pc = "undo" /\ op'[a].todo = op[a].mark
        /\ op'[a].edit = op[a].edit /\ op'[a].before = op[a].before
    BY <1>1, <1>4 DEF Move, UndoTargets, OpType
  <2>2. QED
    BY <1>1, <1>2, <1>3, <2>1 DEF Progress, Committing, After, Before, Edit
<1>5. CASE Finish(a, "failed")
  <2>1. op'[a].pc = "idle"
    BY <1>1, <1>5 DEF Finish, IdleOp
  <2>2. QED
    BY <1>2, <1>3, <2>1, NoProgress DEF Committing, Undoing, RollingBack
<1>6. QED
  BY <1>3, <1>4, <1>5 DEF CommitFails

\* Undoing one file after the other.
LEMMA UndoProgress ==
  ASSUME EInv, RInv, NothingFails, NEW a \in Agents,
         Undo(a) \/ Restore(a) \/ Confirm(a)
  PROVE  Progress(a)'
<1> DEFINE p == Last(Todo(a))
<1>1. /\ op \in [Agents -> OpType] /\ op[a] \in OpType /\ Progress(a)
      /\ file \in [Paths -> Contents]
  BY DEF EInv, IInv, SharedOK, RInv
<1>2. CASE Undo(a)
  <2>1. /\ op[a].pc = "undo" /\ file' = file /\ p \in op[a].todo
    BY <1>2, AgentFacts DEF Undo, At, EInv
  <2>2. file[p] = After(a, p)
    BY <1>1, <2>1 DEF Progress
  <2>3. Move(a, "restore", Todo(a))
    BY <1>2, <2>2 DEF Undo, NothingFails
  <2>4. /\ op'[a].pc = "restore" /\ op'[a].todo = op[a].todo
        /\ op'[a].edit = op[a].edit /\ op'[a].before = op[a].before
    BY <1>1, <2>3 DEF Move, Todo, OpType
  <2>5. QED
    BY <1>1, <2>1, <2>4 DEF Progress, Committing, After, Before, Edit
<1>3. CASE Restore(a)
  <2>1. /\ op[a].pc = "restore"
        /\ file' = [file EXCEPT ![p] = Before(a, p)]
        /\ Move(a, "confirm", Todo(a))
    BY <1>3 DEF Restore, At, NothingFails
  <2>2. /\ op'[a].pc = "confirm" /\ op'[a].todo = op[a].todo
        /\ op'[a].edit = op[a].edit /\ op'[a].before = op[a].before
    BY <1>1, <2>1 DEF Move, Todo, OpType
  <2>3. p \in op[a].todo /\ op[a].todo \subseteq Paths
    BY <2>1, AtWork DEF Visiting
  <2>4. \A q \in Paths : file'[q] = IF q = p THEN Before(a, p) ELSE file[q]
    BY <1>1, <2>1
  <2>5. Last(Todo(a))' = p /\ \A q \in Paths : /\ After(a, q)' = After(a, q)
                                                /\ Before(a, q)' = Before(a, q)
    BY <2>2 DEF Todo, After, Before, Edit
  <2>6. QED
    BY <1>1, <2>1, <2>2, <2>3, <2>4, <2>5 DEF Progress, Committing
<1>4. CASE Confirm(a)
  <2>1. /\ op[a].pc = "confirm" /\ file' = file
        /\ UndoNext(a, TRUE) \/ UndoNext(a, FALSE)
    BY <1>4 DEF Confirm, At
  <2>2. /\ op'[a].pc = "undo" /\ op'[a].todo = op[a].todo \ {p}
        /\ op'[a].edit = op[a].edit /\ op'[a].before = op[a].before
    BY <1>1, <2>1 DEF UndoNext, Todo, OpType
  <2>3. QED
    BY <1>1, <2>1, <2>2 DEF Progress, Committing, After, Before, Edit
<1>5. QED
  BY <1>2, <1>3, <1>4

\* Putting back one file after the other.
LEMMA RecheckProgress ==
  ASSUME EInv, RInv, NothingFails, NEW a \in Agents, Recheck(a)
  PROVE  /\ Progress(a)'
         /\ op'[a].pc \in {"recheck", "putback", "correlate"}
         /\ op'[a].pc = "putback" =>
              /\ op'[a].edit = op[a].edit /\ op'[a].todo = op[a].mark
              /\ op'[a].mark = op[a].mark /\ op'[a].before = op[a].before
              /\ \A p \in op[a].mark : file[p] = After(a, p)
<1> DEFINE p == Next1(a)
           rest == op[a].todo \ {p}
<1>1. /\ op \in [Agents -> OpType] /\ op[a] \in OpType
      /\ op[a].pc = "recheck" /\ file' = file
  BY DEF EInv, IInv, Recheck, At
<1>2. CASE StillProduced(a, p) /\ rest = {} /\ Move(a, "putback", op[a].mark)
  <2>1. /\ op'[a].pc = "putback" /\ op'[a].todo = op[a].mark
        /\ op'[a].mark = op[a].mark
        /\ op'[a].edit = op[a].edit /\ op'[a].before = op[a].before
    BY <1>1, <1>2 DEF Move, OpType
  <2>2. \A q \in op[a].mark : file[q] = After(a, q)
    BY <1>1, <1>2 DEF EInv, Exact, StillProduced
  <2>3. QED
    BY <1>1, <2>1, <2>2 DEF Progress, Committing
<1>3. CASE Move(a, "recheck", rest)
  <2>1. op'[a].pc = "recheck"
    BY <1>1, <1>3 DEF Move, OpType
  <2>2. QED
    BY <2>1, ToRecheck
<1>4. CASE Conclude(a, "conflict")
  <2>1. op'[a].pc = "correlate"
    BY <1>1, <1>4 DEF Conclude, OpType
  <2>2. QED
    BY <2>1, NoProgress DEF Committing, Undoing, RollingBack
<1>5. QED
  BY <1>2, <1>3, <1>4 DEF Recheck, Todo

LEMMA PutBackProgress ==
  ASSUME EInv, RInv, NothingFails, NEW a \in Agents, PutBack(a) \/ Reread(a)
  PROVE  /\ Progress(a)'
         /\ op'[a].pc \in {"putback", "reread"} => op'[a].edit = op[a].edit
<1> DEFINE p == Last(Todo(a))
           rest == op[a].todo \ {p}
<1>1. /\ op \in [Agents -> OpType] /\ op[a] \in OpType /\ Progress(a)
      /\ file \in [Paths -> Contents]
  BY DEF EInv, IInv, SharedOK, RInv
<1>2. CASE PutBack(a)
  <2>1. /\ op[a].pc = "putback"
        /\ file' = [file EXCEPT ![p] = Before(a, p)]
        /\ Move(a, "reread", Todo(a))
    BY <1>2 DEF PutBack, At, NothingFails
  <2>2. /\ op'[a].pc = "reread" /\ op'[a].todo = op[a].todo
        /\ op'[a].mark = op[a].mark
        /\ op'[a].edit = op[a].edit /\ op'[a].before = op[a].before
    BY <1>1, <2>1 DEF Move, Todo, OpType
  <2>3. p \in op[a].todo /\ op[a].todo \subseteq Paths /\ op[a].mark \subseteq Paths
    BY <2>1, AtWork DEF Visiting, RollingBack
  <2>4. \A q \in Paths : file'[q] = IF q = p THEN Before(a, p) ELSE file[q]
    BY <1>1, <2>1
  <2>5. Last(Todo(a))' = p /\ \A q \in Paths : Before(a, q)' = Before(a, q)
    BY <2>2 DEF Todo, Before
  <2>6. QED
    BY <1>1, <2>1, <2>2, <2>3, <2>4, <2>5 DEF Progress, Committing
<1>3. CASE Reread(a) /\ Move(a, "putback", rest)
  <2>1. /\ op[a].pc = "reread" /\ file' = file
        /\ op'[a].pc = "putback" /\ op'[a].todo = rest
        /\ op'[a].mark = op[a].mark
        /\ op'[a].edit = op[a].edit /\ op'[a].before = op[a].before
    BY <1>1, <1>3 DEF Reread, At, Move, OpType
  <2>2. \A q \in Paths : Before(a, q)' = Before(a, q)
    BY <2>1 DEF Before
  <2>3. op[a].mark \subseteq Paths
    BY <1>1 DEF OpType
  <2>4. QED
    BY <1>1, <2>1, <2>2, <2>3 DEF Progress, Committing
<1>4. CASE Conclude(a, "restored") \/ Conclude(a, "failed")
  <2>1. op'[a].pc = "correlate"
    BY <1>1, <1>4 DEF Conclude, OpType
  <2>2. QED
    BY <2>1, NoProgress DEF Committing, Undoing, RollingBack
<1>5. QED
  BY <1>2, <1>3, <1>4 DEF Reread, Todo

\* Sorting out a file leads to the next one, to the request or to the end.
LEMMA TriageTurns ==
  ASSUME EInv, NEW a \in Agents, Triage(a)
  PROVE  op'[a].pc \in {"triage", "request", "correlate"}
<1>1. op \in [Agents -> OpType] /\ op[a] \in OpType
  BY DEF EInv, IInv
<1>2. CASE \E outcome \in {"already", "conflict"} : Conclude(a, outcome)
  BY <1>1, <1>2 DEF Conclude, OpType
<1>3. CASE \E phase \in {"triage", "request"}, todo, mark \in SUBSET Paths :
             op' = [op EXCEPT ![a].pc = phase, ![a].todo = todo, ![a].mark = mark]
  BY <1>1, <1>3 DEF OpType
<1>4. op[a].pc = "triage" /\ op[a].mark \in SUBSET Paths
      /\ op[a].todo \ {Next1(a)} \in SUBSET Paths
      /\ op[a].mark \cup {Next1(a)} \in SUBSET Paths
  BY <1>1, AtWork DEF Triage, At, OpType, Visiting
<1>5. QED
  BY <1>2, <1>3, <1>4 DEF Triage, TriageTo, Todo

\* All the other steps lead to a phase of which Progress says nothing.
LEMMA OtherProgress ==
  ASSUME EInv, NEW a \in Agents,
         \/ Prepare(a) \/ Refuse(a) \/ Capture(a) \/ Semantic(a)
         \/ SemanticFails(a) \/ Record(a) \/ UndoDone(a)
         \/ Triage(a) \/ RollbackErrs(a) \/ Request(a)
         \/ Correlate(a) \/ ReplaceOutcome(a)
  PROVE  /\ Progress(a)'
         /\ op'[a].pc \notin {"putback", "reread"}
<1>1. op \in [Agents -> OpType] /\ op[a] \in OpType
  BY DEF EInv, IInv
<1>2. CASE Request(a)
  <2>1. op'[a].pc = "recheck"
    BY <1>1, <1>2 DEF Request, Move, OpType
  <2>2. QED
    BY <2>1, ToRecheck
<1>3. CASE ~ Request(a)
  <2>1. CASE Prepare(a)
    BY <1>1, <2>1, NoProgress DEF Prepare, OpType, Committing, Undoing,
       RollingBack
  <2>2. CASE Capture(a) \/ Semantic(a)
    <3>1. op'[a].pc \in {"acquire", "record"}
      BY <1>1, <2>2 DEF Capture, Semantic, Move, OpType
    <3>2. QED
      BY <3>1, NoProgress DEF Committing, Undoing, RollingBack
  <2>3. CASE \/ Refuse(a) \/ SemanticFails(a) \/ Record(a) \/ UndoDone(a)
             \/ RollbackErrs(a) \/ ReplaceOutcome(a)
    <3>1. op' = [op EXCEPT ![a] = IdleOp]
      BY <2>3 DEF Refuse, SemanticFails, Record, UndoDone, RollbackErrs,
         ReplaceOutcome, Finish
    <3>2. op'[a].pc = "idle"
      BY <1>1, <3>1 DEF IdleOp
    <3>3. QED
      BY <3>2, NoProgress DEF Committing, Undoing, RollingBack
  <2>4. CASE Triage(a)
    <3>1. op'[a].pc \in {"triage", "request", "correlate"}
      BY <2>4, TriageTurns
    <3>2. QED
      BY <3>1, NoProgress DEF Committing, Undoing, RollingBack
  <2>5. CASE Correlate(a)
    <3>1. op'[a].pc \in {"replace", "idle"}
      BY <1>1, <2>5 DEF Correlate, Move, IdleOp, OpType
    <3>2. QED
      BY <3>1, NoProgress DEF Committing, Undoing, RollingBack
  <2>6. QED
    BY <1>3, <2>1, <2>2, <2>3, <2>4, <2>5
<1>4. QED
  BY <1>2, <1>3

\* Whoever starts to put an edit back finds all files of its guard with the
\* edit on them, while another rollback of the same edit has left it only
\* in files of its own guard.
LEMMA RollbacksExclude ==
  ASSUME EInv, RInv, NothingFails, NEW a \in Agents, Recheck(a),
         op'[a].pc = "putback", NEW b \in Agents \ {a},
         op[b].pc \in {"putback", "reread"}
  PROVE  op[b].edit # op'[a].edit
<1>1. /\ op'[a].edit = op[a].edit
      /\ \A p \in op[a].mark : file[p] = After(a, p)
  BY RecheckProgress
<1>2. op[a].pc = "recheck"
  BY DEF Recheck, At
<1>3. /\ op[a].mark \subseteq guarded[a] /\ op[a].mark \subseteq targets[op[a].edit]
      /\ op[b].todo \subseteq guarded[b]
  BY <1>2, AtWork DEF Guarded, RollingBack
<1>4. op[a].mark # {}
  BY <1>2, AgentFacts DEF EInv, AgentOK, RollingBack
<1>5. PICK p \in op[a].mark : TRUE
  BY <1>4
<1>6. p \notin op[b].todo
  BY <1>3, <1>5 DEF EInv, Locks!Disjoint
<1>7. op[a].edit \in file[p] /\ p \in targets[op[a].edit]
  BY <1>1, <1>3, <1>5 DEF After, Edit
<1>8. QED
  BY <1>1, <1>6, <1>7 DEF EInv, Cleared

LEMMA RInvStep ==
  ASSUME NothingFails, EInv, IInv', RInv, [Next]_vars
  PROVE  RInv'
<1>1. CASE UNCHANGED vars
  <2>1. UNCHANGED <<file, guarded, op, targets, method>>
    BY <1>1 DEF vars, spec
  <2>2. \A a \in Agents : Progress(a)'
    BY <2>1 DEF RInv, Progress, Next1, Todo, Before, After, Edit
  <2>3. OneRollback' /\ OneLine'
    BY <2>1 DEF RInv, OneRollback, OneLine
  <2>4. QED
    BY <2>2, <2>3 DEF RInv
<1>2. ASSUME NEW a \in Agents, EditStep(a) \/ RollbackStep(a) PROVE RInv'
  <2>1. Considerate(a) /\ OneLine'
    BY <1>2, StepsConsiderate DEF RInv, OneLine
  <2>2. CASE Acquire(a) \/ Verify(a) \/ Check(a) \/ Write(a) \/ VerifyFails(a)
             \/ WriteFails(a) \/ CheckFails(a) \/ Undo(a) \/ Restore(a)
             \/ Confirm(a)
    <3>1. Progress(a)'
      BY <2>2, CommitProgress, WriteProgress, FailProgress, UndoProgress
    <3>2. op'[a].pc \notin {"putback", "reread"}
      <4>1. op[a].pc \in EditPhases
        BY <2>2 DEF Acquire, Verify, Check, Write, VerifyFails, WriteFails,
           CheckFails, Undo, Restore, Confirm, At, EditPhases, Preparing,
           Committing, Undoing
      <4>2. op \in [Agents -> OpType] /\ op[a] \in OpType
        BY DEF EInv, IInv
      <4>3. QED
        BY <2>2, <4>2 DEF Acquire, Verify, Check, Write, VerifyFails, WriteFails,
           CheckFails, Undo, Restore, Confirm, CommitFails, Move, MarkAndMove,
           UndoNext, Finish, IdleOp, OpType
    <3>3. QED
      BY <2>1, <3>1, <3>2, ProgressKeeps
  <2>3. CASE Recheck(a)
    <3>1. op'[a].pc = "putback" => \A b \in Agents \ {a} :
            op[b].pc \in {"putback", "reread"} => op[b].edit # op'[a].edit
      BY <2>3, RollbacksExclude
    <3>2. Progress(a)' /\ op'[a].pc # "reread"
      BY <2>3, RecheckProgress
    <3>3. QED
      BY <2>1, <3>1, <3>2, ProgressKeeps
  <2>4. CASE PutBack(a) \/ Reread(a)
    <3>1. op[a].pc \in {"putback", "reread"}
      BY <2>4 DEF PutBack, Reread, At
    <3>2. QED
      BY <2>1, <2>4, <3>1, PutBackProgress, ProgressKeeps
  <2>5. QED
    BY <1>2, <2>1, <2>2, <2>3, <2>4, OtherProgress, ProgressKeeps
    DEF EditStep, RollbackStep
<1>3. ASSUME NEW a \in Agents, NEW e \in Edits, StartRollback(a, e) PROVE RInv'
  <2>1. /\ op'[a].pc = "triage" /\ \A b \in Agents \ {a} : op'[b] = op[b]
        /\ UNCHANGED <<file, guarded, targets, method, captured, snapshot,
                       provenance>>
    BY <1>3 DEF StartRollback, EInv, IInv, IdleOp, spec, durable
  <2>2. Considerate(a) /\ OneLine'
    BY <2>1 DEF Considerate, RInv, OneLine
  <2>3. QED
    BY <2>1, <2>2, NoProgress, ProgressKeeps DEF Committing, Undoing, RollingBack
<1>4. ASSUME NEW a \in Agents, NEW e \in Edits, NEW S \in SUBSET Paths,
             NEW m \in {"patch", "line"}, Begin(a, e, S, m)
      PROVE  RInv'
  <2>1. /\ op'[a].pc = "prepare" /\ \A b \in Agents \ {a} : op'[b] = op[b]
        /\ targets[e] = {} /\ targets' = [targets EXCEPT ![e] = S]
        /\ method' = [method EXCEPT ![e] = m]
        /\ UNCHANGED <<file, guarded, captured, snapshot, provenance>>
        /\ m = "line" => Cardinality(S) = 1
        /\ targets \in [Edits -> SUBSET Paths]
        /\ method \in [Edits -> {"patch", "line"}]
    BY <1>4 DEF Begin, EInv, IInv, SharedOK, IdleOp, durable
  <2>2. Considerate(a)
    BY <2>1 DEF Considerate
  <2>3. m = "line" => \E p \in Paths : S = {p}
    <3>1. PICK last \in Paths : \A p \in Paths : p <= last
      BY EditAssumption
    <3>2. S \subseteq 0..last
      BY <3>1, EditAssumption
    <3>3. IsFiniteSet(0..last)
      BY <3>1, FS_Interval, EditAssumption
    <3>4. IsFiniteSet(S)
      BY <3>2, <3>3, FS_Subset
    <3>5. \A x \in S : x \in Paths
      OBVIOUS
    <3>6. QED
      BY <2>1, <3>4, <3>5, FS_Singleton
  <2>4. OneLine'
    BY <2>1, <2>3 DEF RInv, OneLine
  <2>5. QED
    BY <2>1, <2>2, <2>4, NoProgress, ProgressKeeps
    DEF Committing, Undoing, RollingBack
<1>5. ASSUME NEW a \in Agents, NEW p \in Paths, NEW text \in Texts,
             Overwrite(a, p, text)
      PROVE  RInv'
  <2>1. /\ op[a].pc = "idle" /\ op' = op
        /\ UNCHANGED <<guarded, targets, method>>
    BY <1>5 DEF Overwrite, At, spec
  <2>2. Considerate(a)
    <3>1. \A e \in Edits : e \notin text
      BY EditAssumption DEF Texts, Absent
    <3>2. QED
      BY <1>5, <3>1 DEF Overwrite, Locks!Free, spec, durable, Considerate, EInv,
         IInv, SharedOK
  <2>3. OneLine'
    BY <2>1 DEF RInv, OneLine
  <2>4. QED
    BY <2>1, <2>2, <2>3, NoProgress, ProgressKeeps
    DEF Committing, Undoing, RollingBack
<1>6. \A a \in Agents : ~ Crash(a)
  BY DEF NothingFails, EInv, IInv, SharedOK, Crash
<1>7. \A p \in Paths, text \in Texts : ~ Foreign(p, text)
  BY DEF NothingFails, EInv, IInv, SharedOK, Foreign
<1>8. QED
  BY <1>1, <1>2, <1>3, <1>4, <1>5, <1>6, <1>7 DEF Next

\* No file is ever changed without its guard.
LEMMA AlwaysExact ==
  ASSUME NothingFails
  PROVE  Spec => []EInv
<1>1. IInv => foreign = 0
  BY DEF NothingFails, IInv, SharedOK
<1>2. QED
  BY <1>1, InvariantHolds, EInvHolds, PTL

LEMMA RInvHolds ==
  ASSUME NothingFails
  PROVE  Spec => []RInv
<1>1. Init => RInv
  BY DEF Init, RInv, IdleOp, Progress, OneRollback, OneLine, Committing
<1>2. EInv /\ IInv' /\ RInv /\ [Next]_vars => RInv'
  BY RInvStep
<1>3. QED
  BY <1>1, <1>2, InvariantHolds, AlwaysExact, PTL DEF Spec

(***************************************************************************)
(* What an agent shows, phase by phase                                     *)
(***************************************************************************)

LEMMA Views ==
  ASSUME NEW a \in Agents
  PROVE  /\ op[a].pc \in {"verify", "write"} => Committed(a) = op[a].mark
         /\ op[a].pc = "check" => Committed(a) = op[a].mark \cup {Next1(a)}
         /\ op[a].pc \in Undoing => Committed(a) = op[a].todo
         /\ op[a].pc \notin Committing \cup Undoing => Committed(a) = {}
         /\ op[a].pc = "putback" => PutBackBy(a) = op[a].mark \ op[a].todo
         /\ op[a].pc = "reread" =>
              PutBackBy(a) = (op[a].mark \ op[a].todo) \cup {Last(Todo(a))}
         /\ op[a].pc \notin {"putback", "reread"} => PutBackBy(a) = {}
<1>1. op[a].pc \in Undoing <=> op[a].pc \in {"undo", "restore", "confirm"}
  BY DEF Undoing
<1>2. op[a].pc \in Committing <=> op[a].pc \in {"verify", "write", "check"}
  BY DEF Committing
<1>3. QED
  BY <1>1, <1>2 DEF Committed, PutBackBy, Undoing

\* An agent shows something else than the file only under its guard, and
\* then no more than the file carries, but for an edit it is putting back.
LEMMA ShownUnderGuard ==
  ASSUME EInv, NEW a \in Agents
  PROVE  /\ Committed(a) \subseteq guarded[a] /\ PutBackBy(a) \subseteq guarded[a]
         /\ Committed(a) = {} \/ PutBackBy(a) = {}
<1>1. CASE op[a].pc \in Committing \cup Undoing \cup {"putback", "reread"}
  <2>1. /\ op[a].todo \cup op[a].mark \subseteq guarded[a]
        /\ op[a].pc = "check" => Next1(a) \in op[a].todo
        /\ op[a].pc = "reread" => Last(Todo(a)) \in op[a].todo
    BY <1>1, AtWork DEF Guarded, Visiting, RollingBack, Committing, Undoing
  <2>2. QED
    BY <1>1, <2>1, Views DEF Committing, Undoing
<1>2. CASE op[a].pc \notin Committing \cup Undoing \cup {"putback", "reread"}
  BY <1>2, Views
<1>3. QED
  BY <1>1, <1>2

LEMMA ShownIsFile ==
  ASSUME EInv, NEW a \in Agents, Progress(a), NEW p \in Paths
  PROVE  /\ Shown(a, p) \subseteq file[p] \cup {op[a].edit}
         /\ p \notin PutBackBy(a) => Shown(a, p) \subseteq file[p]
<1>1. CASE p \in Committed(a)
  <2>1. op[a].pc \in Committing \cup Undoing
    BY <1>1, Views
  <2>2. Before(a, p) \subseteq file[p]
    BY <1>1, <2>1, Views DEF Progress, Committing, Undoing, After
  <2>3. QED
    BY <1>1, <2>2 DEF Shown
<1>2. CASE p \notin Committed(a) /\ p \in PutBackBy(a)
  <2>1. op[a].pc \in {"putback", "reread"}
    BY <1>2, Views
  <2>2. op[a].pc = "reread" => Last(Todo(a)) \in op[a].todo
    BY AtWork DEF Visiting, RollingBack
  <2>3. Before(a, p) = file[p]
    BY <1>2, <2>1, <2>2, Views DEF Progress
  <2>4. QED
    BY <1>2, <2>3 DEF Shown, After, Edit
<1>3. CASE p \notin Committed(a) /\ p \notin PutBackBy(a)
  BY <1>3 DEF Shown
<1>4. QED
  BY <1>1, <1>2, <1>3

\* Since guards are disjoint, each file is shown by at most one agent.
LEMMA StoreIsShown == EInv => StoreShown
<1>1. SUFFICES ASSUME EInv, NEW a \in Agents, NEW p \in Paths,
                      \A b \in Agents \ {a} : p \notin guarded[b]
               PROVE  Store[p] = Shown(a, p)
  BY DEF StoreShown
<1>2. \A b \in Agents \ {a} : p \notin Committed(b) /\ p \notin PutBackBy(b)
  BY <1>1, ShownUnderGuard
<1>3. CASE p \in Committed(a)
  <2>1. (CHOOSE b \in Agents : p \in Committed(b)) = a
    BY <1>2, <1>3
  <2>2. QED
    BY <1>3, <2>1 DEF Store, Shown
<1>4. CASE p \notin Committed(a) /\ p \in PutBackBy(a)
  <2>1. (CHOOSE b \in Agents : p \in PutBackBy(b)) = a
    BY <1>2, <1>4
  <2>2. ~ \E b \in Agents : p \in Committed(b)
    BY <1>2, <1>4
  <2>3. QED
    BY <1>4, <2>1, <2>2 DEF Store, Shown
<1>5. CASE p \notin Committed(a) /\ p \notin PutBackBy(a)
  <2>1. ~ \E b \in Agents : p \in Committed(b) \/ p \in PutBackBy(b)
    BY <1>2, <1>5
  <2>2. QED
    BY <1>5, <2>1 DEF Store, Shown
<1>6. QED
  BY <1>3, <1>4, <1>5

\* What a step of agent a does to the store is what it does to the files
\* that nobody else guards.
LEMMA StoreMoves ==
  ASSUME EInv, EInv', StoreShown, StoreShown', NEW a \in Agents,
         Considerate(a), NEW p \in Paths
  PROVE  \/ Store'[p] = Store[p] /\ \E b \in Agents \ {a} : p \in guarded[b]
         \/ /\ \A b \in Agents \ {a} : p \notin guarded[b]
            /\ Store[p] = Shown(a, p) /\ Store'[p] = Shown(a, p)'
<1>1. CASE \A b \in Agents \ {a} : p \notin guarded[b]
  BY <1>1 DEF StoreShown, Considerate
<1>2. ASSUME NEW b \in Agents \ {a}, p \in guarded[b]
      PROVE  Store'[p] = Store[p]
  <2>1. op'[b] = op[b] /\ file'[p] = file[p] /\ guarded'[b] = guarded[b]
    BY <1>2 DEF Considerate
  <2>2. \A c \in Agents \ {b} : p \notin guarded[c] /\ p \notin guarded'[c]
    BY <1>2, <2>1 DEF EInv, Locks!Disjoint
  <2>3. Store[p] = Shown(b, p) /\ Store'[p] = Shown(b, p)'
    BY <2>2 DEF StoreShown
  <2>4. Shown(b, p)' = Shown(b, p)
    BY <2>1 DEF Shown, Committed, PutBackBy, Before, After, Edit, Next1, Todo
  <2>5. QED
    BY <2>3, <2>4
<1>3. QED
  BY <1>1, <1>2

\* A step that shows nothing new leaves the store as it is.
LEMMA StoreKept ==
  ASSUME EInv, EInv', StoreShown, StoreShown', NEW a \in Agents, Considerate(a),
         \A p \in Paths : (\A b \in Agents \ {a} : p \notin guarded[b])
           => Shown(a, p)' = Shown(a, p)
  PROVE  Store' = Store
<1>1. \A p \in Paths : Store'[p] = Store[p]
  BY StoreMoves
<1>2. QED
  BY <1>1 DEF Store

\* Among them are the steps that write no file and uncover none.
LEMMA StoreKeptQuietly ==
  ASSUME EInv, EInv', StoreShown, StoreShown', NEW a \in Agents, Considerate(a),
         file' = file,
         Committed(a)' = Committed(a), PutBackBy(a)' = PutBackBy(a),
         \/ Committed(a) = {} /\ PutBackBy(a) = {}
         \/ op'[a].edit = op[a].edit /\ op'[a].before = op[a].before
  PROVE  Store' = Store
<1>1. \A p \in Paths : Shown(a, p)' = Shown(a, p)
  BY DEF Shown, Before, After, Edit
<1>2. QED
  BY <1>1, StoreKept

\* All that the refinement rests on.
AInv == EInv /\ RInv /\ StoreShown

\* The phases of Views in the next state.
LEMMA ViewsNext ==
  ASSUME NEW a \in Agents
  PROVE  /\ op'[a].pc \in {"verify", "write"} => Committed(a)' = op'[a].mark
         /\ op'[a].pc = "check" => Committed(a)' = op'[a].mark \cup {Next1(a)'}
         /\ op'[a].pc \in Undoing => Committed(a)' = op'[a].todo
         /\ op'[a].pc \notin Committing \cup Undoing => Committed(a)' = {}
         /\ op'[a].pc = "putback" => PutBackBy(a)' = op'[a].mark \ op'[a].todo
         /\ op'[a].pc = "reread" =>
              PutBackBy(a)' = (op'[a].mark \ op'[a].todo) \cup {Last(Todo(a))'}
         /\ op'[a].pc \notin {"putback", "reread"} => PutBackBy(a)' = {}
<1>1. op'[a].pc \in Undoing <=> op'[a].pc \in {"undo", "restore", "confirm"}
  BY DEF Undoing
<1>2. op'[a].pc \in Committing <=> op'[a].pc \in {"verify", "write", "check"}
  BY DEF Committing
<1>3. QED
  BY <1>1, <1>2 DEF Committed, PutBackBy, Undoing

\* The phases in which an agent shows the files as they are.
Plain == Phases \ (Committing \cup Undoing \cup {"putback", "reread"})

LEMMA PlainStep ==
  ASSUME AInv, AInv', NEW a \in Agents, Considerate(a), file' = file,
         op[a].pc \in Plain,
         op'[a].pc \in Plain \/ (Committed(a)' = {} /\ PutBackBy(a)' = {})
  PROVE  Store' = Store
<1>1. Committed(a) = {} /\ PutBackBy(a) = {}
  BY Views DEF Plain
<1>2. Committed(a)' = {} /\ PutBackBy(a)' = {}
  BY ViewsNext DEF Plain
<1>3. QED
  BY <1>1, <1>2, StoreKeptQuietly DEF AInv

\* The steps of an agent that shows the files as they are before and after.
LEMMA PlainSteps ==
  ASSUME AInv, AInv', NothingFails, NEW a \in Agents, Considerate(a),
         \/ Prepare(a) \/ Refuse(a) \/ Capture(a) \/ Semantic(a)
         \/ SemanticFails(a) \/ Record(a)
         \/ Triage(a) \/ RollbackErrs(a) \/ Request(a)
         \/ Correlate(a) \/ ReplaceOutcome(a)
  PROVE  Store' = Store
<1>1. op \in [Agents -> OpType] /\ op[a] \in OpType /\ op' \in [Agents -> OpType]
      /\ op'[a] \in OpType
  BY DEF AInv, EInv, IInv
<1>2. op[a].pc \in Plain /\ file' = file
  BY DEF Prepare, Refuse, Capture, Semantic, SemanticFails, Record, Triage,
     RollbackErrs, Correlate, ReplaceOutcome, Request, At, Plain, Phases,
     Preparing, Committing, Undoing, RollingBack, NothingFails
<1>3. op'[a].pc \in Plain
  <2>1. CASE Request(a)
    <3>1. op'[a].pc = "recheck"
      BY <1>1, <2>1 DEF Request, Move, OpType
    <3>2. QED
      BY <3>1 DEF Plain, Phases, Committing, Undoing, RollingBack
  <2>2. CASE Prepare(a)
    <3>1. op'[a].pc \in {"prepare", "capture"}
      BY <1>1, <2>2 DEF Prepare, OpType
    <3>2. QED
      BY <3>1 DEF Plain, Phases, Preparing, Committing, Undoing
  <2>3. CASE Capture(a) \/ Semantic(a)
    <3>1. op'[a].pc \in {"acquire", "record"}
      BY <1>1, <2>3 DEF Capture, Semantic, Move, OpType
    <3>2. QED
      BY <3>1 DEF Plain, Phases, Preparing, Committing, Undoing
  <2>4. CASE \/ Refuse(a) \/ SemanticFails(a) \/ Record(a)
             \/ RollbackErrs(a) \/ ReplaceOutcome(a)
    <3>1. op' = [op EXCEPT ![a] = IdleOp]
      BY <2>4 DEF Refuse, SemanticFails, Record, RollbackErrs, ReplaceOutcome,
         Finish
    <3>2. op'[a].pc = "idle"
      BY <1>1, <3>1 DEF IdleOp
    <3>3. QED
      BY <3>2 DEF Plain, Phases, Committing, Undoing
  <2>5. CASE Triage(a)
    <3>1. op'[a].pc \in {"triage", "request", "correlate"}
      BY <2>5, TriageTurns DEF AInv
    <3>2. QED
      BY <3>1 DEF Plain, Phases, Committing, Undoing
  <2>6. CASE Correlate(a)
    <3>1. op'[a].pc \in {"replace", "idle"}
      BY <1>1, <2>6 DEF Correlate, Move, IdleOp, OpType
    <3>2. QED
      BY <3>1 DEF Plain, Phases, Committing, Undoing
  <2>7. QED
    BY <2>1, <2>2, <2>3, <2>4, <2>5, <2>6
<1>4. QED
  BY <1>2, <1>3, PlainStep

\* A commit of several files shows none of them before the last one.
LEMMA CommitHides ==
  ASSUME AInv, AInv', NothingFails, NEW a \in Agents, Considerate(a),
         \/ Acquire(a) \/ Verify(a) \/ VerifyFails(a)
         \/ Check(a) /\ op[a].todo # {Next1(a)}
  PROVE  Store' = Store
<1>1. /\ op \in [Agents -> OpType] /\ op[a] \in OpType
      /\ method \in [Edits -> {"patch", "line"}]
      /\ Progress(a)
  BY DEF AInv, EInv, IInv, SharedOK, RInv
<1>2. file' = file
  BY DEF Acquire, Verify, VerifyFails, Check
<1>3. CASE Acquire(a)
  <2>1. /\ op[a].pc = "acquire" /\ op'[a].pc = "verify"
        /\ op'[a].mark = op[a].mark
    BY <1>1, <1>3 DEF Acquire, At, Move, OpType
  <2>2. op[a].mark = {}
    BY <2>1, AgentFacts DEF AInv, EInv, AgentOK, Preparing
  <2>3. Committed(a)' = {} /\ PutBackBy(a)' = {}
    BY <2>1, <2>2, ViewsNext
  <2>4. op[a].pc \in Plain
    BY <2>1 DEF Plain, Phases, Preparing, Committing, Undoing
  <2>5. QED
    BY <1>2, <2>3, <2>4, PlainStep
<1>4. CASE Verify(a)
  <2>1. /\ op[a].pc = "verify" /\ op'[a].pc = "write"
        /\ op'[a].mark = op[a].mark
        /\ op'[a].edit = op[a].edit /\ op'[a].before = op[a].before
    BY <1>1, <1>4 DEF Verify, At, Move, OpType
  <2>2. Committed(a)' = Committed(a) /\ PutBackBy(a)' = PutBackBy(a)
    BY <2>1, Views, ViewsNext
  <2>3. QED
    BY <1>2, <2>1, <2>2, StoreKeptQuietly DEF AInv
<1>5. CASE VerifyFails(a) /\ Move(a, "undo", UndoTargets(a))
  <2>1. /\ op[a].pc = "verify" /\ op'[a].pc = "undo"
        /\ op'[a].todo = op[a].mark
        /\ op'[a].edit = op[a].edit /\ op'[a].before = op[a].before
    BY <1>1, <1>5 DEF VerifyFails, At, Move, UndoTargets, OpType
  <2>2. Committed(a)' = Committed(a) /\ PutBackBy(a)' = PutBackBy(a)
    BY <2>1, Views, ViewsNext DEF Undoing
  <2>3. QED
    BY <1>2, <2>1, <2>2, StoreKeptQuietly DEF AInv
<1>6. CASE VerifyFails(a) /\ method[op[a].edit] = "line" /\ Finish(a, "failed")
  <2>1. op[a].pc = "verify" /\ op'[a].pc = "idle"
    BY <1>1, <1>6 DEF VerifyFails, At, Finish, IdleOp
  <2>2. PICK p \in Paths : targets[op[a].edit] = {p}
    BY <1>6, <2>1, AtWork DEF AInv, RInv, OneLine
  <2>3. Next1(a) \in op[a].todo
    BY <2>1, AtWork DEF AInv, Visiting, Committing
  <2>4. op[a].mark = {}
    BY <1>1, <2>1, <2>2, <2>3 DEF Progress, Committing
  <2>5. /\ Committed(a) = {} /\ PutBackBy(a) = {}
        /\ Committed(a)' = {} /\ PutBackBy(a)' = {}
    BY <2>1, <2>4, Views, ViewsNext DEF Committing, Undoing
  <2>6. QED
    BY <1>2, <2>5, StoreKeptQuietly DEF AInv
<1>7. CASE Check(a) /\ op[a].todo # {Next1(a)}
  <2> DEFINE p == Next1(a)
             rest == op[a].todo \ {p}
  <2>1. op[a].pc = "check" /\ p \in op[a].todo
    BY <1>7, AtWork DEF Check, At, AInv, Visiting, Committing
  <2>2. MarkAndMove(a, p, "verify", rest)
    BY <1>7, <2>1 DEF Check, Todo
  <2>3. /\ op'[a].pc = "verify" /\ op'[a].mark = op[a].mark \cup {p}
        /\ op'[a].edit = op[a].edit /\ op'[a].before = op[a].before
    BY <1>1, <2>2 DEF MarkAndMove, OpType
  <2>4. Committed(a)' = Committed(a) /\ PutBackBy(a)' = PutBackBy(a)
    BY <2>1, <2>3, Views, ViewsNext
  <2>5. QED
    BY <1>2, <2>3, <2>4, StoreKeptQuietly DEF AInv
<1>8. QED
  BY <1>3, <1>4, <1>5, <1>6, <1>7 DEF VerifyFails, CommitFails, Edit

\* The file being written is shown as it was before.
LEMMA WriteHides ==
  ASSUME AInv, AInv', NEW a \in Agents, Considerate(a), Write(a)
  PROVE  Store' = Store
<1> DEFINE p == Next1(a)
<1>1. /\ op \in [Agents -> OpType] /\ op[a] \in OpType /\ Progress(a)
      /\ file \in [Paths -> Contents] /\ op[a].pc = "write"
  BY DEF AInv, EInv, IInv, SharedOK, RInv, Write, At
<1>2. /\ op'[a].pc = "check" /\ op'[a].todo = op[a].todo
      /\ op'[a].mark = op[a].mark
      /\ op'[a].edit = op[a].edit /\ op'[a].before = op[a].before
      /\ file' = [file EXCEPT ![p] = After(a, p)]
  BY <1>1 DEF Write, Move, Todo, OpType
<1>3. p \in op[a].todo /\ p \notin op[a].mark /\ p \in Paths
      /\ op[a].mark \subseteq Paths
  BY <1>1, AtWork DEF AInv, Visiting, Committing, Progress
<1>4. Next1(a)' = p /\ \A q \in Paths : Before(a, q)' = Before(a, q)
  BY <1>2 DEF Next1, Before
<1>5. file[p] = Before(a, p)
  BY <1>1 DEF AInv, EInv, Exact
<1>6. /\ Committed(a) = op[a].mark /\ PutBackBy(a) = {}
      /\ Committed(a)' = op[a].mark \cup {p} /\ PutBackBy(a)' = {}
  BY <1>1, <1>2, <1>4, Views, ViewsNext
<1>7. \A q \in Paths \ {p} : file'[q] = file[q]
  BY <1>1, <1>2
<1>8. \A q \in Paths : Shown(a, q)' = Shown(a, q)
  BY <1>3, <1>4, <1>5, <1>6, <1>7 DEF Shown
<1>9. QED
  BY <1>8, StoreKept DEF AInv

\* So are the files of an undo, restored or not.
LEMMA UndoHides ==
  ASSUME AInv, AInv', NothingFails, NEW a \in Agents, Considerate(a),
         Undo(a) \/ Restore(a) \/ Confirm(a) \/ UndoDone(a)
  PROVE  Store' = Store
<1> DEFINE p == Last(Todo(a))
<1>1. /\ op \in [Agents -> OpType] /\ op[a] \in OpType /\ Progress(a)
      /\ file \in [Paths -> Contents]
  BY DEF AInv, EInv, IInv, SharedOK, RInv
<1>2. CASE Undo(a)
  <2>1. op[a].pc = "undo" /\ file' = file /\ p \in op[a].todo
    BY <1>2, AgentFacts DEF Undo, At, AInv, EInv
  <2>2. Move(a, "restore", Todo(a))
    BY <1>1, <1>2, <2>1 DEF Undo, NothingFails, Progress
  <2>3. /\ op'[a].pc = "restore" /\ op'[a].todo = op[a].todo
        /\ op'[a].edit = op[a].edit /\ op'[a].before = op[a].before
    BY <1>1, <2>2 DEF Move, Todo, OpType
  <2>4. Committed(a)' = Committed(a) /\ PutBackBy(a)' = PutBackBy(a)
    BY <2>1, <2>3, Views, ViewsNext DEF Undoing
  <2>5. QED
    BY <2>1, <2>3, <2>4, StoreKeptQuietly DEF AInv
<1>3. CASE Restore(a)
  <2>1. /\ op[a].pc = "restore" /\ file' = [file EXCEPT ![p] = Before(a, p)]
        /\ Move(a, "confirm", Todo(a))
    BY <1>3 DEF Restore, At, NothingFails
  <2>2. /\ op'[a].pc = "confirm" /\ op'[a].todo = op[a].todo
        /\ op'[a].edit = op[a].edit /\ op'[a].before = op[a].before
    BY <1>1, <2>1 DEF Move, Todo, OpType
  <2>3. p \in op[a].todo /\ op[a].todo \subseteq Paths
    BY <2>1, AtWork DEF AInv, Visiting
  <2>4. /\ Committed(a) = op[a].todo /\ PutBackBy(a) = {}
        /\ Committed(a)' = op[a].todo /\ PutBackBy(a)' = {}
    BY <2>1, <2>2, Views, ViewsNext DEF Undoing
  <2>5. \A q \in Paths : Before(a, q)' = Before(a, q)
    BY <2>2 DEF Before
  <2>6. \A q \in Paths \ {p} : file'[q] = file[q]
    BY <1>1, <2>1
  <2>7. \A q \in Paths : Shown(a, q)' = Shown(a, q)
    BY <2>3, <2>4, <2>5, <2>6 DEF Shown
  <2>8. QED
    BY <2>7, StoreKept DEF AInv
<1>4. CASE Confirm(a)
  <2>1. /\ op[a].pc = "confirm" /\ file' = file
        /\ UndoNext(a, TRUE) \/ UndoNext(a, FALSE)
    BY <1>4 DEF Confirm, At
  <2>2. /\ op'[a].pc = "undo" /\ op'[a].todo = op[a].todo \ {p}
        /\ op'[a].edit = op[a].edit /\ op'[a].before = op[a].before
    BY <1>1, <2>1 DEF UndoNext, Todo, OpType
  <2>3. /\ Committed(a) = op[a].todo /\ PutBackBy(a) = {}
        /\ Committed(a)' = op[a].todo \ {p} /\ PutBackBy(a)' = {}
    BY <2>1, <2>2, Views, ViewsNext DEF Undoing
  <2>4. \A q \in Paths : Before(a, q)' = Before(a, q)
    BY <2>2 DEF Before
  <2>5. file[p] = Before(a, p)
    BY <1>1, <2>1 DEF Progress
  <2>6. \A q \in Paths : Shown(a, q)' = Shown(a, q)
    BY <2>1, <2>3, <2>4, <2>5 DEF Shown
  <2>7. QED
    BY <2>6, StoreKept DEF AInv
<1>5. CASE UndoDone(a)
  <2>1. op[a].pc = "undo" /\ op[a].todo = {} /\ file' = file
    BY <1>5 DEF UndoDone, At, Todo
  <2>2. op' = [op EXCEPT ![a] = IdleOp]
    BY <1>5 DEF UndoDone, Finish
  <2>3. op'[a].pc = "idle"
    BY <1>1, <2>2 DEF IdleOp
  <2>4. /\ Committed(a) = {} /\ PutBackBy(a) = {}
        /\ Committed(a)' = {} /\ PutBackBy(a)' = {}
    BY <2>1, <2>3, Views, ViewsNext DEF Committing, Undoing
  <2>5. QED
    BY <2>1, <2>4, StoreKeptQuietly DEF AInv
<1>6. QED
  BY <1>2, <1>3, <1>4, <1>5

\* A rollback of several files shows them as the edit left them until the
\* last one is restored.
LEMMA RollbackHides ==
  ASSUME AInv, AInv', NothingFails, NEW a \in Agents, Considerate(a),
         \/ Recheck(a) \/ PutBack(a)
         \/ Reread(a) /\ op[a].todo # {Last(Todo(a))}
  PROVE  Store' = Store
<1> DEFINE p == Last(Todo(a))
           rest == op[a].todo \ {p}
<1>1. /\ op \in [Agents -> OpType] /\ op[a] \in OpType /\ Progress(a)
      /\ file \in [Paths -> Contents]
  BY DEF AInv, EInv, IInv, SharedOK, RInv
<1>2. CASE Recheck(a)
  <2>1. op[a].pc = "recheck" /\ file' = file
    BY <1>2 DEF Recheck, At
  <2>2. /\ op'[a].pc \in {"recheck", "putback", "correlate"}
        /\ op'[a].pc = "putback" => op'[a].todo = op'[a].mark
    BY <1>2, RecheckProgress DEF AInv
  <2>3. Committed(a)' = {} /\ PutBackBy(a)' = {}
    BY <2>2, ViewsNext DEF Committing, Undoing
  <2>4. op[a].pc \in Plain
    BY <2>1 DEF Plain, Phases, Committing, Undoing, RollingBack
  <2>5. QED
    BY <2>1, <2>3, <2>4, PlainStep
<1>3. CASE PutBack(a)
  <2>1. /\ op[a].pc = "putback" /\ file' = [file EXCEPT ![p] = Before(a, p)]
        /\ Move(a, "reread", Todo(a))
    BY <1>3 DEF PutBack, At, NothingFails
  <2>2. /\ op'[a].pc = "reread" /\ op'[a].todo = op[a].todo
        /\ op'[a].mark = op[a].mark
        /\ op'[a].edit = op[a].edit /\ op'[a].before = op[a].before
    BY <1>1, <2>1 DEF Move, Todo, OpType
  <2>3. p \in op[a].todo /\ op[a].todo \subseteq Paths
    BY <2>1, AtWork DEF AInv, Visiting, RollingBack
  <2>4. Last(Todo(a))' = p /\ \A q \in Paths : After(a, q)' = After(a, q)
    BY <2>2 DEF Todo, After, Before, Edit
  <2>5. /\ Committed(a) = {} /\ PutBackBy(a) = op[a].mark \ op[a].todo
        /\ Committed(a)' = {}
        /\ PutBackBy(a)' = (op[a].mark \ op[a].todo) \cup {p}
    BY <2>1, <2>2, <2>4, Views, ViewsNext DEF Committing, Undoing
  <2>6. file[p] = After(a, p)
    BY <2>1, <2>3 DEF AInv, EInv, Exact
  <2>7. \A q \in Paths \ {p} : file'[q] = file[q]
    BY <1>1, <2>1
  <2>8. \A q \in Paths : Shown(a, q)' = Shown(a, q)
    BY <2>3, <2>4, <2>5, <2>6, <2>7 DEF Shown
  <2>9. QED
    BY <2>8, StoreKept DEF AInv
<1>4. CASE Reread(a) /\ op[a].todo # {p}
  <2>1. op[a].pc = "reread" /\ file' = file /\ p \in op[a].todo
    BY <1>4, AtWork DEF Reread, At, AInv, Visiting, RollingBack
  <2>2. op[a].todo \subseteq op[a].mark /\ file[p] = Before(a, p)
    BY <1>1, <2>1 DEF Progress
  <2>3. Move(a, "putback", rest)
    BY <1>4, <2>1, <2>2 DEF Reread, Todo
  <2>4. /\ op'[a].pc = "putback" /\ op'[a].todo = rest
        /\ op'[a].mark = op[a].mark
        /\ op'[a].edit = op[a].edit /\ op'[a].before = op[a].before
    BY <1>1, <2>3 DEF Move, OpType
  <2>5. /\ Committed(a) = {} /\ PutBackBy(a) = (op[a].mark \ op[a].todo) \cup {p}
        /\ Committed(a)' = {} /\ PutBackBy(a)' = op[a].mark \ rest
    BY <2>1, <2>4, Views, ViewsNext DEF Committing, Undoing
  <2>6. op[a].mark \ rest = (op[a].mark \ op[a].todo) \cup {p}
    BY <2>1, <2>2
  <2>7. QED
    BY <2>1, <2>4, <2>5, <2>6, StoreKeptQuietly DEF AInv
<1>5. QED
  BY <1>2, <1>3, <1>4

\* Where the store shows an edit that the file does not carry, somebody is
\* putting it back.
LEMMA OnlyPutBackShows ==
  ASSUME AInv, Agents # {}, NEW e \in Edits, NEW p \in Paths,
         e \in Store[p], e \notin file[p]
  PROVE  \E b \in Agents : op[b].edit = e /\ p \in PutBackBy(b)
<1>1. \E b \in Agents : \A c \in Agents \ {b} : p \notin guarded[c]
  BY DEF AInv, EInv, Locks!Disjoint
<1>2. PICK b \in Agents : \A c \in Agents \ {b} : p \notin guarded[c]
  BY <1>1
<1>3. Store[p] = Shown(b, p) /\ Progress(b)
  BY <1>2 DEF AInv, StoreShown, RInv
<1>4. QED
  BY <1>3, ShownIsFile DEF AInv

\* The last verified file of an edit makes it show, everywhere at once.
LEMMA CommitApplies ==
  ASSUME AInv, AInv', NEW a \in Agents, Considerate(a), Check(a),
         op[a].todo = {Next1(a)}
  PROVE  Atomic!Apply(op[a].edit)
<1> DEFINE e == op[a].edit
           p == Next1(a)
<1>1. /\ op \in [Agents -> OpType] /\ op[a] \in OpType /\ Progress(a)
      /\ targets \in [Edits -> SUBSET Paths]
      /\ op[a].pc = "check" /\ file' = file /\ targets' = targets
  BY DEF AInv, EInv, IInv, SharedOK, RInv, Check, At, spec
<1>2. /\ e \in Edits /\ targets[e] # {} /\ targets[e] = op[a].mark \cup {p}
      /\ targets[e] \subseteq guarded[a]
  BY <1>1, AtWork DEF AInv, Progress, Guarded, Committing
<1>3. /\ op'[a].pc \in {"record", "semantic"}
      /\ op'[a].before = op[a].before
  BY <1>1 DEF Check, MarkAndMove, Todo, OpType
<1>4. /\ Committed(a) = targets[e] /\ PutBackBy(a) = {}
      /\ Committed(a)' = {} /\ PutBackBy(a)' = {}
  BY <1>1, <1>2, <1>3, Views, ViewsNext DEF Committing, Undoing
<1>5. \A q \in targets[e] : file[q] = Before(a, q) \cup {e}
  BY <1>1, <1>2 DEF Progress, Committing, After, Edit
<1>6. \A q \in Paths : e \notin Before(a, q)
  BY <1>1, <1>2 DEF AInv, EInv, Exact, Uncaptured, IInv, Recoverable, Before
<1>7. \A q \in targets[e] : Store[q] = Before(a, q) /\ Store'[q] = file[q]
  <2>1. SUFFICES ASSUME NEW q \in targets[e]
                 PROVE  Store[q] = Before(a, q) /\ Store'[q] = file[q]
    OBVIOUS
  <2>2. q \in Paths /\ \A b \in Agents \ {a} : q \notin guarded[b]
    BY <1>1, <1>2 DEF AInv, EInv, Locks!Disjoint
  <2>3. Store[q] = Shown(a, q) /\ Store'[q] = Shown(a, q)'
    BY <2>2, StoreMoves DEF AInv
  <2>4. QED
    BY <1>1, <1>4, <2>3 DEF Shown
<1>8. \A q \in Paths \ targets[e] : Store'[q] = Store[q]
  <2>1. \A q \in Paths \ targets[e] : Shown(a, q)' = Shown(a, q)
    BY <1>1, <1>4 DEF Shown
  <2>2. QED
    BY <2>1, StoreMoves DEF AInv
<1>9. \A q \in Paths : e \notin Store[q]
  <2>1. SUFFICES ASSUME NEW q \in Paths, e \in Store[q] PROVE FALSE
    OBVIOUS
  <2>2. q \notin targets[e]
    BY <1>6, <1>7, <2>1
  <2>3. e \notin file[q]
    BY <1>2, <2>2 DEF AInv, EInv, IInv, Recoverable, Owned
  <2>4. PICK b \in Agents : op[b].edit = e /\ q \in PutBackBy(b)
    BY <1>2, <2>1, <2>3, OnlyPutBackShows
  <2>5. b # a /\ op[b].pc # "idle"
    BY <1>4, <2>4, Views
  <2>6. QED
    BY <1>1, <2>4, <2>5 DEF AInv, EInv, Lifecycle, EditPhases, Committing
<1>10. Store' = [q \in Paths |-> IF q \in targets[e] THEN Store[q] \cup {e}
                                 ELSE Store[q]]
  <2>1. \A q \in Paths : Store'[q] = IF q \in targets[e] THEN Store[q] \cup {e}
                                     ELSE Store[q]
    BY <1>5, <1>7, <1>8
  <2>2. Store' = [q \in Paths |-> Store'[q]]
    BY DEF Store
  <2>3. QED
    BY <2>1, <2>2
<1>11. QED
  BY <1>1, <1>2, <1>9, <1>10 DEF Atomic!Apply, Atomic!Holding

\* The last restored file of a rollback takes the edit back everywhere.
LEMMA RollbackReverts ==
  ASSUME AInv, AInv', NothingFails, NEW a \in Agents, Considerate(a), Reread(a),
         targets' = targets, op[a].todo = {Last(Todo(a))}
  PROVE  Atomic!Revert(op[a].edit)
<1> DEFINE e == op[a].edit
           p == Last(Todo(a))
<1>1. /\ op \in [Agents -> OpType] /\ op[a] \in OpType /\ Progress(a)
      /\ op[a].pc = "reread" /\ file' = file
  BY DEF AInv, EInv, IInv, RInv, Reread, At
<1>2. /\ e \in Edits /\ op[a].mark \subseteq Paths /\ op[a].mark # {}
      /\ op[a].mark \subseteq guarded[a] /\ p \in op[a].mark
      /\ e \in captured
  <2>1. op[a].mark # {}
    BY <1>1, AgentFacts DEF AInv, EInv, AgentOK, RollingBack
  <2>2. QED
    BY <1>1, <2>1, AtWork DEF AInv, Progress, Guarded, RollingBack, Uncaptured
<1>3. op'[a].pc = "correlate"
  BY <1>1 DEF Reread, Conclude, Todo, OpType
<1>4. /\ Committed(a) = {} /\ PutBackBy(a) = op[a].mark
      /\ Committed(a)' = {} /\ PutBackBy(a)' = {}
  <2>1. /\ Committed(a) = {} /\ PutBackBy(a) = (op[a].mark \ op[a].todo) \cup {p}
        /\ Committed(a)' = {} /\ PutBackBy(a)' = {}
    BY <1>1, <1>3, Views, ViewsNext DEF Committing, Undoing
  <2>2. (op[a].mark \ op[a].todo) \cup {p} = op[a].mark
    BY <1>2
  <2>3. QED
    BY <2>1, <2>2
<1>5. \A q \in op[a].mark : file[q] = Before(a, q)
  BY <1>1 DEF Progress
<1>6. \A q \in Paths : e \notin Before(a, q)
  BY <1>1, <1>2 DEF AInv, EInv, Exact, Uncaptured, IInv, Recoverable, Before
<1>7. \A q \in op[a].mark : Store[q] = Before(a, q) \cup {e} /\ Store'[q] = Before(a, q)
  <2>1. SUFFICES ASSUME NEW q \in op[a].mark
                 PROVE  Store[q] = Before(a, q) \cup {e} /\ Store'[q] = Before(a, q)
    OBVIOUS
  <2>2. q \in Paths /\ \A b \in Agents \ {a} : q \notin guarded[b]
    BY <1>2 DEF AInv, EInv, Locks!Disjoint
  <2>3. Store[q] = Shown(a, q) /\ Store'[q] = Shown(a, q)'
    BY <2>2, StoreMoves DEF AInv
  <2>4. QED
    BY <1>1, <1>4, <1>5, <2>3 DEF Shown, After, Edit
<1>8. \A q \in Paths \ op[a].mark : Store'[q] = Store[q]
  <2>1. \A q \in Paths \ op[a].mark : Shown(a, q)' = Shown(a, q)
    BY <1>1, <1>4 DEF Shown
  <2>2. QED
    BY <2>1, StoreMoves DEF AInv
<1>9. \A q \in Paths \ op[a].mark : e \notin Store[q]
  <2>1. SUFFICES ASSUME NEW q \in Paths \ op[a].mark, e \in Store[q] PROVE FALSE
    OBVIOUS
  <2>2. e \notin file[q]
    <3>1. q \in targets[e] => e \notin file[q]
      BY <1>1 DEF AInv, EInv, Cleared
    <3>2. q \notin targets[e] => e \notin file[q]
      BY <1>2 DEF AInv, EInv, IInv, Recoverable, Owned
    <3>3. QED
      BY <3>1, <3>2
  <2>3. PICK b \in Agents : op[b].edit = e /\ q \in PutBackBy(b)
    BY <1>2, <2>1, <2>2, OnlyPutBackShows
  <2>4. b # a /\ op[b].pc \in {"putback", "reread"}
    BY <1>4, <2>3, Views
  <2>5. QED
    BY <1>1, <2>3, <2>4 DEF AInv, RInv, OneRollback
<1>10. Store' = [q \in Paths |-> Store[q] \ {e}]
  <2>1. \A q \in Paths : Store'[q] = Store[q] \ {e}
    BY <1>6, <1>7, <1>8, <1>9
  <2>2. Store' = [q \in Paths |-> Store'[q]]
    BY DEF Store
  <2>3. QED
    BY <2>1, <2>2
<1>11. \E q \in Paths : e \in Store[q]
  BY <1>2, <1>7
<1>12. QED
  BY <1>10, <1>11 DEF Atomic!Revert, Atomic!Holding

(***************************************************************************)
(* The refinement                                                          *)
(***************************************************************************)

\* A plain write shows at once: nobody else guards the file.
LEMMA OverwritePuts ==
  ASSUME AInv, AInv', NEW a \in Agents, NEW p \in Paths, NEW text \in Texts,
         Considerate(a), Overwrite(a, p, text)
  PROVE  Atomic!Put(p, text)
<1>1. /\ op[a].pc = "idle" /\ op' = op /\ targets' = targets
      /\ file' = [file EXCEPT ![p] = text] /\ file \in [Paths -> Contents]
      /\ \A b \in Agents \ {a} : p \notin guarded[b]
  BY DEF Overwrite, At, spec, Locks!Free, AInv, EInv, IInv, SharedOK
<1>2. /\ Committed(a) = {} /\ PutBackBy(a) = {}
      /\ Committed(a)' = {} /\ PutBackBy(a)' = {}
  BY <1>1, Views, ViewsNext DEF Committing, Undoing
<1>3. \A q \in Paths : Shown(a, q) = file[q] /\ Shown(a, q)' = file'[q]
  BY <1>2 DEF Shown
<1>4. Store'[p] = text
  BY <1>1, <1>3, StoreMoves DEF AInv
<1>5. \A q \in Paths \ {p} : Store'[q] = Store[q]
  BY <1>1, <1>3, StoreMoves DEF AInv
<1>6. Store' = [Store EXCEPT ![p] = text]
  <2>1. /\ Store = [q \in Paths |-> Store[q]]
        /\ Store' = [q \in Paths |-> Store'[q]]
    BY DEF Store
  <2>2. QED
    BY <1>4, <1>5, <2>1
<1>7. QED
  BY <1>1, <1>6 DEF Atomic!Put

\* Every step of the service is one of AtomicEdits, or shows nothing.
LEMMA AtomicStep ==
  ASSUME NothingFails, AInv, AInv', [Next]_vars
  PROVE  [Atomic!Next]_<<Store, targets>>
<1>1. CASE UNCHANGED vars
  <2>1. UNCHANGED <<file, op, targets>>
    BY <1>1 DEF vars, spec
  <2>2. \A a \in Agents : /\ Committed(a)' = Committed(a)
                          /\ PutBackBy(a)' = PutBackBy(a)
    BY <2>1 DEF Committed, PutBackBy, Next1, Todo
  <2>3. Store' = Store
    BY <2>1, <2>2 DEF Store, Before, After, Edit
  <2>4. QED
    BY <2>1, <2>3
<1>2. ASSUME NEW a \in Agents, EditStep(a) \/ RollbackStep(a)
      PROVE  [Atomic!Next]_<<Store, targets>>
  <2>1. Considerate(a) /\ targets' = targets
    BY <1>2, StepsConsiderate DEF AInv, EInv
  <2>2. CASE Check(a) /\ op[a].todo = {Next1(a)}
    <3>1. op[a].edit \in Edits
      BY <2>2, AtWork DEF AInv, Check, At
    <3>2. QED
      BY <2>1, <2>2, <3>1, CommitApplies DEF Atomic!Next
  <2>3. CASE Reread(a) /\ op[a].todo = {Last(Todo(a))}
    <3>1. op[a].edit \in Edits
      BY <2>3, AtWork DEF AInv, Reread, At
    <3>2. QED
      BY <2>1, <2>3, <3>1, RollbackReverts DEF Atomic!Next
  <2>4. CASE /\ ~ (Check(a) /\ op[a].todo = {Next1(a)})
             /\ ~ (Reread(a) /\ op[a].todo = {Last(Todo(a))})
    <3>1. ~ WriteFails(a) /\ ~ CheckFails(a)
      BY FailProgress DEF AInv, WriteFails, CheckFails, At
    <3>2. Store' = Store
      BY <1>2, <2>1, <2>4, <3>1, PlainSteps, CommitHides, WriteHides, UndoHides,
         RollbackHides DEF EditStep, RollbackStep
    <3>3. QED
      BY <2>1, <3>2
  <2>5. QED
    BY <2>2, <2>3, <2>4
<1>3. ASSUME NEW a \in Agents, NEW e \in Edits, StartRollback(a, e)
      PROVE  [Atomic!Next]_<<Store, targets>>
  <2>1. /\ op[a].pc = "idle" /\ op'[a].pc = "triage"
        /\ \A b \in Agents \ {a} : op'[b] = op[b]
        /\ UNCHANGED <<file, guarded, targets, captured, snapshot, provenance>>
    BY <1>3 DEF StartRollback, At, AInv, EInv, IInv, IdleOp, spec, durable
  <2>2. Considerate(a)
    BY <2>1 DEF Considerate
  <2>3. op[a].pc \in Plain /\ op'[a].pc \in Plain
    BY <2>1 DEF Plain, Phases, Committing, Undoing
  <2>4. QED
    BY <2>1, <2>2, <2>3, PlainStep
<1>4. ASSUME NEW a \in Agents, NEW e \in Edits, NEW S \in SUBSET Paths,
             NEW m \in {"patch", "line"}, Begin(a, e, S, m)
      PROVE  [Atomic!Next]_<<Store, targets>>
  <2>1. /\ op[a].pc = "idle" /\ op'[a].pc = "prepare"
        /\ \A b \in Agents \ {a} : op'[b] = op[b]
        /\ targets[e] = {} /\ S # {} /\ targets' = [targets EXCEPT ![e] = S]
        /\ targets \in [Edits -> SUBSET Paths]
        /\ UNCHANGED <<file, guarded, captured, snapshot, provenance>>
    BY <1>4 DEF Begin, At, AInv, EInv, IInv, SharedOK, IdleOp, durable
  <2>2. Considerate(a)
    BY <2>1 DEF Considerate
  <2>3. op[a].pc \in Plain /\ op'[a].pc \in Plain
    BY <2>1 DEF Plain, Phases, Preparing, Committing, Undoing
  <2>4. Store' = Store
    BY <2>1, <2>2, <2>3, PlainStep
  <2>5. Atomic!Ask(e, S)
    BY <2>1, <2>4 DEF Atomic!Ask
  <2>6. QED
    BY <2>5 DEF Atomic!Next
<1>5. ASSUME NEW a \in Agents, NEW p \in Paths, NEW text \in Texts,
             Overwrite(a, p, text)
      PROVE  [Atomic!Next]_<<Store, targets>>
  <2>1. Considerate(a)
    <3>1. \A e \in Edits : e \notin text
      BY EditAssumption DEF Texts, Absent
    <3>2. QED
      BY <1>5, <3>1 DEF Overwrite, Locks!Free, spec, durable, Considerate, AInv,
         EInv, IInv, SharedOK
  <2>2. QED
    BY <1>5, <2>1, OverwritePuts DEF Atomic!Next
<1>6. \A a \in Agents : ~ Crash(a)
  BY DEF NothingFails, AInv, EInv, IInv, SharedOK, Crash
<1>7. \A p \in Paths, text \in Texts : ~ Foreign(p, text)
  BY DEF NothingFails, AInv, EInv, IInv, SharedOK, Foreign
<1>8. QED
  BY <1>1, <1>2, <1>3, <1>4, <1>5, <1>6, <1>7 DEF Next

LEMMA AtomicInit == Init => Atomic!Init
<1>1. SUFFICES ASSUME Init PROVE Atomic!Init
  OBVIOUS
<1>2. \A a \in Agents : Committed(a) = {} /\ PutBackBy(a) = {}
  BY <1>1, Views DEF Init, IdleOp, Committing, Undoing
<1>3. Store = file
  BY <1>1, <1>2 DEF Store, Init
<1>4. QED
  BY <1>1, <1>3 DEF Init, Atomic!Init

\* With no I/O failure, no crash and every writer under the guard, an edit of
\* several files (patch_internal, commit_verified), the undo of a failed one
\* and an explicit rollback (rollback_edit) are each one atomic change for
\* all who read and write under the guard, whoever else edits, writes or
\* rolls back at the same time.
THEOREM EditsAreAtomic ==
  ASSUME NothingFails
  PROVE  Spec => ImplementsAtomicEdits
<1>1. Spec => []AInv
  <2>1. EInv => StoreShown
    BY StoreIsShown
  <2>2. EInv /\ RInv /\ StoreShown => AInv
    BY DEF AInv
  <2>3. QED
    BY <2>1, <2>2, AlwaysExact, RInvHolds, PTL
<1>2. Init => Atomic!Init
  BY AtomicInit
<1>3. AInv /\ AInv' /\ [Next]_vars => [Atomic!Next]_<<Store, targets>>
  BY AtomicStep
<1>4. QED
  BY <1>1, <1>2, <1>3, PTL DEF Spec, ImplementsAtomicEdits, Atomic!Spec

============================================================================
