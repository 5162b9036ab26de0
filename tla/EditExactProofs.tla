-------------------------- MODULE EditExactProofs --------------------------
(***************************************************************************)
(* What EditService guarantees until a file is changed without its guard,  *)
(* for every number of agents, edits, files, I/O failures and crashes: no  *)
(* edit, undo or rollback overwrites a content it has not seen, and an     *)
(* edit that was rolled back stays out of every file.                      *)
(***************************************************************************)
EXTENDS EditServiceProofs

(***************************************************************************)
(* The inductive invariant, on top of IInv                                 *)
(***************************************************************************)

EditPhases == Preparing \cup Committing \cup Undoing \cup {"semantic", "record"}
RollbackPhases == {"triage", "request", "correlate", "replace"} \cup RollingBack
BackOut == {"restored", "already"}

\* What the agent has verified under its guard is still so, and it works
\* from the contents its snapshot recorded.
Exact(a) ==
  /\ op[a].pc \notin Uncaptured \cup {"idle"} =>
       op[a].before = snapshot[op[a].edit]
  /\ op[a].pc = "write" => file[Next1(a)] = Before(a, Next1(a))
  /\ op[a].pc = "restore" => file[Last(Todo(a))] = After(a, Last(Todo(a)))
  /\ op[a].pc = "recheck" =>
       \A p \in op[a].mark \ op[a].todo : file[p] = After(a, p)
  /\ op[a].pc = "putback" => \A p \in op[a].todo : file[p] = After(a, p)
  /\ op[a].pc = "reread" =>
       \A p \in op[a].todo \ {Last(Todo(a))} : file[p] = After(a, p)

\* An edit is made by one agent, before anybody can roll it back.
Lifecycle(a) ==
  /\ op[a].pc \in EditPhases =>
       /\ provenance[op[a].edit] = "none"
       /\ \A b \in Agents \ {a} :
            op[b].pc # "idle" => op[b].edit # op[a].edit
  /\ op[a].pc \in RollbackPhases => provenance[op[a].edit] # "none"
  /\ op[a].pc \in {"correlate", "replace"} => op[a].outcome # "none"

\* The files the edit is known to be out of, as its rollback goes on.
Cleared(a) ==
  /\ op[a].pc = "triage" =>
       \A p \in targets[op[a].edit] \ (op[a].todo \cup op[a].mark) :
         op[a].edit \notin file[p]
  /\ op[a].pc \in {"request", "recheck"} =>
       \A p \in targets[op[a].edit] \ op[a].mark : op[a].edit \notin file[p]
  /\ op[a].pc = "putback" =>
       \A p \in targets[op[a].edit] \ op[a].todo : op[a].edit \notin file[p]
  /\ op[a].pc = "reread" =>
       \A p \in targets[op[a].edit] \ (op[a].todo \ {Last(Todo(a))}) :
         op[a].edit \notin file[p]
  /\ op[a].pc \in {"correlate", "replace"} /\ op[a].outcome \in BackOut =>
       \A p \in Paths : op[a].edit \notin file[p]

\* Only a requested edit has a provenance record.
Recorded == \A e \in Edits : provenance[e] # "none" => targets[e] # {}

\* What RolledBackStaysGone promises of the edits.
OutOfEveryFile ==
  \A e \in Edits : provenance[e] \in BackOut => \A p \in Paths : e \notin file[p]

EInv ==
  /\ IInv
  /\ Locks!Disjoint
  /\ \A a \in Agents : Exact(a) /\ Lifecycle(a) /\ Cleared(a)
  /\ Recorded
  /\ OutOfEveryFile

(***************************************************************************)
(* Frames                                                                  *)
(***************************************************************************)

\* What a step of agent a may do to the edits and the files of the others:
\* it writes where nobody else holds a guard, adds no mark but that of the
\* edit it is writing, and records an outcome for its own edit only.
Considerate(a) ==
  /\ \A b \in Agents \ {a} : op'[b] = op[b] /\ guarded'[b] = guarded[b]
  /\ \A p \in Paths : file'[p] # file[p] =>
       \A b \in Agents \ {a} : p \notin guarded[b]
  /\ \A e \in Edits : targets[e] # {} => targets'[e] = targets[e]
  /\ \A e \in captured : snapshot'[e] = snapshot[e]
  /\ \A e \in Edits : provenance'[e] # provenance[e] =>
       /\ op[a].pc \in {"record", "replace"} /\ op[a].edit = e
       /\ provenance'[e] # "none"
  /\ \A e \in Edits, p \in Paths : e \in file'[p] /\ e \notin file[p] =>
       op[a].pc = "write" /\ op[a].edit = e

\* What a agent turns to: the edit it is on, a new one, or the rollback of
\* one that has its record.
Orderly(a) ==
  /\ op'[a].pc \in EditPhases =>
       \/ /\ op[a].pc \in EditPhases \ {"record"}
          /\ op'[a].edit = op[a].edit
       \/ targets[op'[a].edit] = {}
  /\ op'[a].pc \in RollbackPhases => provenance[op'[a].edit] # "none"
  /\ op'[a].pc \in {"correlate", "replace"} => op'[a].outcome # "none"

\* What the invariants say of an agent that is at work.
LEMMA AtWork ==
  ASSUME EInv, NEW a \in Agents, op[a].pc # "idle"
  PROVE  /\ op[a].edit \in Edits
         /\ targets[op[a].edit] # {}
         /\ op[a].todo \cup op[a].mark \subseteq targets[op[a].edit]
         /\ op[a].todo \subseteq Paths /\ op[a].mark \subseteq Paths
         /\ op[a].pc \notin Uncaptured => op[a].edit \in captured
         /\ op[a].pc \in Guarded => op[a].todo \cup op[a].mark \subseteq guarded[a]
         /\ op[a].pc \in EditPhases \/ op[a].pc \in RollbackPhases
         /\ op[a].pc \in Visiting =>
              /\ Next1(a) \in op[a].todo /\ Last(Todo(a)) \in op[a].todo
<1>1. AgentOK(a) /\ op[a].pc \in Phases
      /\ op[a].todo \in SUBSET Paths /\ op[a].mark \in SUBSET Paths
  BY AgentFacts DEF EInv
<1>2. op[a].pc \in Visiting =>
        Next1(a) \in op[a].todo /\ Last(Todo(a)) \in op[a].todo
  BY AgentFacts DEF EInv
<1>3. op[a].pc \in EditPhases \/ op[a].pc \in RollbackPhases
  BY <1>1 DEF Phases, EditPhases, RollbackPhases
<1>4. QED
  BY <1>1, <1>2, <1>3 DEF AgentOK

\* A considerate step leaves what the others rely on alone.
LEMMA OthersStay ==
  ASSUME EInv, IInv', NEW a \in Agents, Considerate(a), Orderly(a),
         NEW b \in Agents \ {a}
  PROVE  Exact(b)' /\ Lifecycle(b)' /\ Cleared(b)'
<1>1. op'[b] = op[b] /\ guarded'[b] = guarded[b]
  BY DEF Considerate
<1>2. CASE op[b].pc = "idle"
  BY <1>1, <1>2 DEF Exact, Lifecycle, Cleared, EditPhases, RollbackPhases,
     Preparing, Committing, Undoing, RollingBack, Uncaptured
<1>3. CASE op[b].pc # "idle"
  <2> DEFINE e == op[b].edit
  <2>1. /\ e \in Edits /\ targets[e] # {}
        /\ op[b].todo \cup op[b].mark \subseteq targets[e]
        /\ op[b].todo \subseteq Paths /\ op[b].mark \subseteq Paths
        /\ op[b].pc \notin Uncaptured => e \in captured
        /\ op[b].pc \in Guarded => op[b].todo \cup op[b].mark \subseteq guarded[b]
        /\ op[b].pc \in EditPhases \/ op[b].pc \in RollbackPhases
        /\ op[b].pc \in Visiting =>
             /\ Next1(b) \in op[b].todo /\ Last(Todo(b)) \in op[b].todo
    BY <1>3, AtWork
  <2>2. Exact(b) /\ Lifecycle(b) /\ Cleared(b) /\ Exact(a) /\ Lifecycle(a)
    BY DEF EInv
  <2>3. targets'[e] = targets[e]
    BY <2>1 DEF Considerate
  \* The files b works on under its guard stay as they are.
  <2>4. op[b].pc \in Guarded =>
          \A p \in op[b].todo \cup op[b].mark : file'[p] = file[p]
    BY <2>1 DEF Considerate
  <2>5. Exact(b)'
    <3>1. Next1(b)' = Next1(b) /\ Last(Todo(b))' = Last(Todo(b))
      BY <1>1 DEF Next1, Todo
    <3>2. \A p \in Paths : Before(b, p)' = Before(b, p) /\ After(b, p)' = After(b, p)
      BY <1>1 DEF Before, After, Edit
    <3>3. op[b].pc \notin Uncaptured => snapshot'[e] = snapshot[e]
      BY <2>1 DEF Considerate
    <3>4. QED
      BY <1>1, <2>1, <2>2, <2>4, <3>1, <3>2, <3>3
      DEF Exact, Guarded, Visiting, Committing, Undoing, RollingBack
  \* Whoever records an outcome for another edit leaves e's record alone.
  <2>6. Lifecycle(b)'
    <3>1. CASE op[b].pc \in EditPhases
      <4>1. provenance[e] = "none" /\ (op[a].pc # "idle" => op[a].edit # e)
        BY <2>2, <3>1 DEF Lifecycle
      <4>2. provenance'[e] = "none"
        BY <2>1, <4>1 DEF Considerate
      <4>3. op'[a].pc # "idle" => op'[a].edit # e
        <5>1. op'[a].pc \in EditPhases => op'[a].edit # e
          BY <2>1, <4>1 DEF Orderly, EditPhases, Preparing, Committing, Undoing
        <5>2. op'[a].pc \in RollbackPhases => op'[a].edit # e
          BY <4>1 DEF Orderly
        <5>3. op'[a].pc # "idle" =>
                op'[a].pc \in EditPhases \/ op'[a].pc \in RollbackPhases
          BY DEF IInv, OpType, Phases, EditPhases, RollbackPhases
        <5>4. QED
          BY <5>1, <5>2, <5>3
      <4>4. \A c \in Agents \ {b} : op'[c].pc # "idle" => op'[c].edit # e
        BY <2>2, <3>1, <4>3 DEF Lifecycle, Considerate
      <4>5. op[b].pc \notin RollbackPhases
        BY <3>1 DEF EditPhases, RollbackPhases, Preparing, Committing, Undoing,
           RollingBack
      <4>6. QED
        BY <1>1, <4>2, <4>4, <4>5 DEF Lifecycle, RollbackPhases
    <3>2. CASE op[b].pc \in RollbackPhases
      <4>1. provenance[e] # "none" /\ op[b].pc \notin EditPhases
        BY <2>2, <3>2 DEF Lifecycle, EditPhases, RollbackPhases, Preparing,
           Committing, Undoing, RollingBack
      <4>2. provenance'[e] # "none"
        BY <2>1, <4>1 DEF Considerate
      <4>3. QED
        BY <1>1, <2>2, <4>1, <4>2 DEF Lifecycle
    <3>3. QED
      BY <2>1, <3>1, <3>2
  \* No mark of an edit that is being rolled back appears anywhere.
  <2>7. Cleared(b)'
    <3>1. CASE op[b].pc \in RollbackPhases
      <4>1. provenance[e] # "none"
        BY <2>2, <3>1 DEF Lifecycle
      <4>2. ~ (op[a].pc = "write" /\ op[a].edit = e)
        BY <2>2, <4>1 DEF Lifecycle, EditPhases, Committing
      <4>3. \A p \in Paths : e \notin file[p] => e \notin file'[p]
        BY <2>1, <4>2 DEF Considerate
      <4>4. targets[e] \subseteq Paths
        BY <2>1 DEF EInv, IInv, SharedOK
      <4>5. Last(Todo(b))' = Last(Todo(b))
        BY <1>1 DEF Todo
      <4>6. QED
        BY <1>1, <2>2, <2>3, <4>3, <4>4, <4>5 DEF Cleared
    <3>2. CASE op[b].pc \notin RollbackPhases
      BY <1>1, <3>2 DEF Cleared, RollbackPhases, RollingBack
    <3>3. QED
      BY <3>1, <3>2
  <2>8. QED
    BY <2>5, <2>6, <2>7
<1>4. QED
  BY <1>2, <1>3

\* A considerate and orderly step keeps the invariant as soon as the agent
\* itself agrees with it.
LEMMA ConsiderateKeeps ==
  ASSUME EInv, IInv', NEW a \in Agents, Considerate(a), Orderly(a),
         guarded'[a] \subseteq guarded[a] \/ Locks!Free(a, guarded'[a]),
         Exact(a)', Cleared(a)',
         \A e \in Edits :
           provenance'[e] # provenance[e] /\ provenance'[e] \in BackOut
             => \A p \in Paths : e \notin file[p]
  PROVE  EInv'
<1>1. Exact(a) /\ Lifecycle(a) /\ Cleared(a)
  BY DEF EInv
<1>2. \A e \in Edits : provenance'[e] # provenance[e] =>
        op[a].pc \in {"record", "replace"} /\ op[a].edit = e
  BY DEF Considerate
<1>3. \A b \in Agents : op[b].pc # "idle" =>
        op[b].edit \in Edits /\ targets[op[b].edit] # {}
  BY AtWork
<1>4. op'[a].pc # "idle" => op'[a].edit \in Edits
  BY AgentFacts DEF IInv, AgentOK
<1>5. Recorded'
  <2>1. SUFFICES ASSUME NEW e \in Edits, provenance'[e] # "none"
                 PROVE  targets'[e] # {}
    BY DEF Recorded
  <2>2. targets[e] # {}
    BY <1>2, <1>3, <2>1 DEF EInv, Recorded
  <2>3. QED
    BY <2>2 DEF Considerate
<1>6. Lifecycle(a)'
  <2>1. CASE op'[a].pc \in EditPhases
    <3> DEFINE e == op'[a].edit
    <3>1. e \in Edits
      BY <1>4, <2>1 DEF EditPhases, Preparing, Committing, Undoing
    <3>2. CASE op[a].pc \in EditPhases \ {"record"} /\ e = op[a].edit
      <4>1. op[a].pc \notin {"record", "replace"}
        BY <3>2 DEF EditPhases, Preparing, Committing, Undoing
      <4>2. provenance'[e] = "none"
        BY <1>1, <1>2, <3>1, <3>2, <4>1 DEF Lifecycle
      <4>3. \A b \in Agents \ {a} : op'[b].pc # "idle" => op'[b].edit # e
        BY <1>1, <3>2 DEF Lifecycle, Considerate
      <4>4. QED
        BY <2>1, <4>2, <4>3 DEF Lifecycle, EditPhases, RollbackPhases,
           Preparing, Committing, Undoing, RollingBack
    <3>3. CASE targets[e] = {}
      <4>1. provenance[e] = "none"
        BY <3>1, <3>3 DEF EInv, Recorded
      <4>2. provenance'[e] = "none"
        BY <1>2, <1>3, <3>1, <3>3, <4>1
      <4>3. \A b \in Agents \ {a} : op'[b].pc # "idle" => op'[b].edit # e
        BY <1>3, <3>3 DEF Considerate
      <4>4. QED
        BY <2>1, <4>2, <4>3 DEF Lifecycle, EditPhases, RollbackPhases,
           Preparing, Committing, Undoing, RollingBack
    <3>4. QED
      BY <2>1, <3>2, <3>3 DEF Orderly
  <2>2. CASE op'[a].pc \in RollbackPhases
    <3>1. op'[a].edit \in Edits
      BY <1>4, <2>2 DEF RollbackPhases, RollingBack
    <3>2. provenance'[op'[a].edit] # "none"
      BY <2>2, <3>1 DEF Orderly, Considerate
    <3>3. QED
      BY <2>2, <3>2 DEF Orderly, Lifecycle, EditPhases, RollbackPhases,
         Preparing, Committing, Undoing, RollingBack
  <2>3. CASE op'[a].pc \notin EditPhases \cup RollbackPhases
    BY <2>3 DEF Lifecycle, RollbackPhases
  <2>4. QED
    BY <2>1, <2>2, <2>3
<1>7. Locks!Disjoint'
  <2>1. \A b \in Agents \ {a} : guarded'[a] \cap guarded[b] = {}
    BY DEF EInv, Locks!Disjoint, Locks!Free
  <2>2. QED
    BY <2>1 DEF EInv, Locks!Disjoint, Considerate
<1>8. OutOfEveryFile'
  <2>1. SUFFICES ASSUME NEW e \in Edits, provenance'[e] \in BackOut,
                        NEW p \in Paths
                 PROVE  e \notin file'[p]
    BY DEF OutOfEveryFile
  <2>2. e \notin file[p]
    BY <2>1 DEF EInv, OutOfEveryFile
  <2>3. ~ (op[a].pc = "write" /\ op[a].edit = e)
    <3>1. SUFFICES ASSUME op[a].pc = "write", op[a].edit = e PROVE FALSE
      OBVIOUS
    <3>2. provenance[e] = "none"
      BY <1>1, <3>1 DEF Lifecycle, EditPhases, Committing
    <3>3. QED
      BY <1>2, <2>1, <3>1, <3>2 DEF BackOut
  <2>4. QED
    BY <2>2, <2>3 DEF Considerate
<1>9. \A b \in Agents : Exact(b)' /\ Lifecycle(b)' /\ Cleared(b)'
  BY <1>6, OthersStay
<1>10. QED
  BY <1>5, <1>7, <1>8, <1>9 DEF EInv

\* A step of agent a that writes no file and publishes nothing.
Quiet(a) ==
  /\ \A b \in Agents \ {a} : op'[b] = op[b] /\ guarded'[b] = guarded[b]
  /\ guarded'[a] \subseteq guarded[a] \/ Locks!Free(a, guarded'[a])
  /\ UNCHANGED <<file, targets, captured, snapshot>>

LEMMA QuietIsConsiderate ==
  ASSUME EInv, NEW a \in Agents, Quiet(a), UNCHANGED provenance
  PROVE  Considerate(a)
BY DEF Quiet, Considerate

\* An edit goes on without a write: the agent turns to write what it has just
\* verified, or to restore what it has just recognised.
LEMMA QuietEdit ==
  ASSUME EInv, IInv', NEW a \in Agents, Quiet(a), UNCHANGED provenance,
         op[a].pc \in EditPhases \ {"record"}, op'[a].pc \in EditPhases,
         op'[a].edit = op[a].edit,
         op'[a].pc \notin Uncaptured =>
           op[a].pc \notin Uncaptured /\ op'[a].before = op[a].before,
         op'[a].pc = "write" =>
           file[First(op'[a].todo)] = op[a].before[First(op'[a].todo)],
         op'[a].pc = "restore" =>
           file[Last(op'[a].todo)]
             = op[a].before[Last(op'[a].todo)] \cup {op[a].edit}
  PROVE  EInv'
<1>1. Considerate(a)
  BY QuietIsConsiderate
<1>2. op'[a].pc \notin RollbackPhases /\ op[a].pc # "idle"
  BY DEF EditPhases, RollbackPhases, Preparing, Committing, Undoing, RollingBack
<1>3. Orderly(a)
  BY <1>2 DEF Orderly, RollbackPhases
<1>4. Cleared(a)'
  BY <1>2 DEF Cleared, RollbackPhases, RollingBack
<1>5. Exact(a)'
  <2>1. op[a].pc \notin Uncaptured => op[a].before = snapshot[op[a].edit]
    BY <1>2 DEF EInv, Exact
  <2>2. op'[a].pc \notin Uncaptured =>
          /\ op'[a].before = op[a].before
          /\ op'[a].before = snapshot'[op'[a].edit]
    BY <2>1 DEF Quiet
  <2>3. op'[a].pc \notin {"recheck", "putback", "reread"}
    BY <1>2 DEF RollbackPhases, RollingBack
  <2>4. op'[a].pc = "write" => file'[Next1(a)'] = Before(a, Next1(a))'
    BY <2>2 DEF Quiet, Next1, Before, Uncaptured
  <2>5. op'[a].pc = "restore" => file'[Last(Todo(a))'] = After(a, Last(Todo(a)))'
    BY <2>2 DEF Quiet, Todo, Before, After, Edit, Uncaptured
  <2>6. QED
    BY <2>2, <2>3, <2>4, <2>5 DEF Exact
<1>6. QED
  BY <1>1, <1>3, <1>4, <1>5, ConsiderateKeeps DEF Quiet

\* A rollback goes on without a write.
LEMMA QuietRollback ==
  ASSUME EInv, IInv', NEW a \in Agents, Quiet(a), UNCHANGED provenance,
         op[a].pc \in RollbackPhases, op'[a].pc \in RollbackPhases,
         op'[a].edit = op[a].edit, op'[a].before = op[a].before,
         op'[a].pc \in {"correlate", "replace"} => op'[a].outcome # "none",
         op'[a].pc = "recheck" =>
           \A p \in op'[a].mark \ op'[a].todo : file[p] = After(a, p),
         op'[a].pc = "putback" =>
           \A p \in op'[a].todo : file[p] = After(a, p),
         op'[a].pc # "reread",
         op'[a].pc = "triage" =>
           \A p \in targets[op[a].edit] \ (op'[a].todo \cup op'[a].mark) :
             op[a].edit \notin file[p],
         op'[a].pc \in {"request", "recheck"} =>
           \A p \in targets[op[a].edit] \ op'[a].mark :
             op[a].edit \notin file[p],
         op'[a].pc = "putback" =>
           \A p \in targets[op[a].edit] \ op'[a].todo :
             op[a].edit \notin file[p],
         op'[a].pc \in {"correlate", "replace"} /\ op'[a].outcome \in BackOut =>
           \A p \in Paths : op[a].edit \notin file[p]
  PROVE  EInv'
<1>1. Considerate(a)
  BY QuietIsConsiderate
<1>2. /\ op'[a].pc \notin EditPhases /\ op[a].pc \notin Uncaptured \cup {"idle"}
  BY DEF EditPhases, RollbackPhases, Preparing, Committing, Undoing,
     RollingBack, Uncaptured
<1>3. Orderly(a)
  BY <1>2 DEF Orderly, EInv, Lifecycle
<1>4. Cleared(a)'
  BY DEF Cleared, Quiet
<1>5. Exact(a)'
  <2>1. op'[a].before = snapshot'[op'[a].edit]
    BY <1>2 DEF EInv, Exact, Quiet
  <2>2. \A p \in Paths : After(a, p)' = After(a, p)
    BY DEF After, Before, Edit
  <2>3. op'[a].todo \subseteq Paths /\ op'[a].mark \subseteq Paths
    BY DEF IInv, OpType
  <2>4. op'[a].pc \notin {"write", "restore"}
    BY <1>2 DEF EditPhases, Committing, Undoing
  <2>5. QED
    BY <2>1, <2>2, <2>3, <2>4 DEF Exact, Quiet
<1>6. QED
  BY <1>1, <1>3, <1>4, <1>5, ConsiderateKeeps DEF Quiet

\* An operation that is over, with or without a record of its outcome.
LEMMA OverKeeps ==
  ASSUME EInv, IInv', NEW a \in Agents, Quiet(a), op'[a].pc = "idle",
         \A e \in Edits : provenance'[e] # provenance[e] =>
           /\ op[a].pc \in {"record", "replace"} /\ op[a].edit = e
           /\ provenance'[e] # "none"
           /\ provenance'[e] \in BackOut =>
                \A p \in Paths : e \notin file[p]
  PROVE  EInv'
<1>1. Considerate(a)
  BY DEF Quiet, Considerate
<1>2. Orderly(a) /\ Exact(a)' /\ Cleared(a)'
  BY DEF Orderly, Exact, Cleared, EditPhases, RollbackPhases, Preparing,
     Committing, Undoing, RollingBack, Uncaptured
<1>3. QED
  BY <1>1, <1>2, ConsiderateKeeps DEF Quiet

\* Whatever an operation does with its guard, no two guards overlap.
LEMMA GuardMoves ==
  ASSUME EInv, NEW a \in Agents,
         \/ UNCHANGED guarded
         \/ Locks!Release(a)
         \/ \E S \in SUBSET Paths : Locks!Acquire(a, S)
  PROVE  /\ \A b \in Agents \ {a} : guarded'[b] = guarded[b]
         /\ guarded'[a] \subseteq guarded[a] \/ Locks!Free(a, guarded'[a])
<1>1. guarded \in [Agents -> SUBSET Paths]
  BY DEF EInv, IInv, SharedOK
<1>2. QED
  BY <1>1 DEF Locks!Release, Locks!Acquire

\* An operation returns to its caller.
LEMMA Returns ==
  ASSUME EInv, IInv', NEW a \in Agents, op' = [op EXCEPT ![a] = IdleOp],
         UNCHANGED guarded \/ Locks!Release(a),
         UNCHANGED <<file, targets, captured, snapshot, provenance>>
  PROVE  EInv'
<1>1. op'[a].pc = "idle" /\ \A b \in Agents \ {a} : op'[b] = op[b]
  BY DEF EInv, IInv, IdleOp
<1>2. Quiet(a)
  BY <1>1, GuardMoves DEF Quiet
<1>3. QED
  BY <1>1, <1>2, OverKeeps

\* An edit turns to its next phase.
LEMMA EditMoves ==
  ASSUME EInv, IInv', NEW a \in Agents,
         NEW phase \in EditPhases, NEW todo \in SUBSET Paths,
         \/ Move(a, phase, todo)
         \/ \E p \in Paths : MarkAndMove(a, p, phase, todo),
         op[a].pc \in EditPhases \ (Uncaptured \cup {"record"}),
         \/ UNCHANGED guarded
         \/ Locks!Release(a)
         \/ \E S \in SUBSET Paths : Locks!Acquire(a, S),
         UNCHANGED <<file, targets, captured, snapshot, provenance>>,
         phase = "write" => file[First(todo)] = Before(a, First(todo)),
         phase = "restore" => file[Last(todo)] = After(a, Last(todo))
  PROVE  EInv'
<1>1. op \in [Agents -> OpType] /\ op[a] \in OpType
  BY DEF EInv, IInv
<1>2. /\ op'[a].pc = phase /\ op'[a].todo = todo
      /\ op'[a].edit = op[a].edit /\ op'[a].before = op[a].before
      /\ \A b \in Agents \ {a} : op'[b] = op[b]
  BY <1>1 DEF Move, MarkAndMove, OpType
<1>3. Quiet(a)
  BY <1>2, GuardMoves DEF Quiet
<1>4. QED
  BY <1>2, <1>3, QuietEdit DEF Before, After, Edit

(***************************************************************************)
(* The steps of an edit                                                    *)
(***************************************************************************)

\* A new transaction: nobody else works on its id.
LEMMA BeginExact ==
  ASSUME EInv, IInv', NEW a \in Agents, NEW e \in Edits, NEW S \in SUBSET Paths,
         NEW m \in {"patch", "line"}, Begin(a, e, S, m)
  PROVE  EInv'
<1>1. /\ op'[a].pc = "prepare" /\ op'[a].edit = e
      /\ \A b \in Agents \ {a} : op'[b] = op[b]
      /\ op[a].pc = "idle" /\ targets[e] = {}
      /\ UNCHANGED <<file, guarded, captured, snapshot, provenance>>
      /\ \A d \in Edits \ {e} : targets'[d] = targets[d]
  BY DEF Begin, EInv, IInv, SharedOK, IdleOp, At, durable
<1>2. Considerate(a)
  BY <1>1 DEF Considerate
<1>3. Orderly(a) /\ Exact(a)' /\ Cleared(a)'
  BY <1>1 DEF Orderly, Exact, Cleared, RollbackPhases, RollingBack, Uncaptured
<1>4. QED
  BY <1>1, <1>2, <1>3, ConsiderateKeeps

\* The contents an edit starts from are read before anything is promised.
LEMMA PrepareExact ==
  ASSUME EInv, IInv', NEW a \in Agents, Prepare(a)
  PROVE  EInv'
<1>1. op \in [Agents -> OpType] /\ op[a] \in OpType
  BY DEF EInv, IInv
<1>2. /\ op[a].pc = "prepare" /\ op'[a].pc \in {"prepare", "capture"}
      /\ op'[a].edit = op[a].edit
      /\ \A b \in Agents \ {a} : op'[b] = op[b]
      /\ UNCHANGED <<file, guarded, targets, captured, snapshot, provenance>>
  BY <1>1 DEF Prepare, OpType, At, spec, durable
<1>3. Quiet(a)
  BY <1>2 DEF Quiet
<1>4. QED
  BY <1>2, <1>3, QuietEdit DEF EditPhases, Preparing, Uncaptured

\* The published snapshot is what the edit was prepared from, and that of no
\* other edit changes.
LEMMA CaptureExact ==
  ASSUME EInv, IInv', NEW a \in Agents, Capture(a)
  PROVE  EInv'
<1>1. /\ op \in [Agents -> OpType] /\ op[a] \in OpType
      /\ snapshot \in [Edits -> [Paths -> Contents]]
      /\ op[a].pc = "capture"
  BY DEF EInv, IInv, SharedOK, Capture, At
<1>2. op[a].edit \in Edits /\ op[a].edit \notin captured
  BY <1>1, AgentFacts DEF EInv, AgentOK, Uncaptured
<1>3. /\ op'[a].pc = "acquire" /\ op'[a].edit = op[a].edit
      /\ op'[a].before = op[a].before
      /\ \A b \in Agents \ {a} : op'[b] = op[b]
      /\ UNCHANGED <<file, guarded, targets, provenance>>
      /\ snapshot'[op[a].edit] = op[a].before
      /\ \A d \in captured : snapshot'[d] = snapshot[d]
  BY <1>1, <1>2 DEF Capture, Move, OpType, Edit, spec
<1>4. Considerate(a)
  BY <1>3 DEF Considerate
<1>5. Orderly(a) /\ Exact(a)' /\ Cleared(a)'
  BY <1>1, <1>3 DEF Orderly, Exact, Cleared, EditPhases, Preparing,
     RollbackPhases, RollingBack
<1>6. QED
  BY <1>3, <1>4, <1>5, ConsiderateKeeps

LEMMA AcquireExact ==
  ASSUME EInv, IInv', NEW a \in Agents, Acquire(a)
  PROVE  EInv'
<1>1. /\ op[a].pc = "acquire" /\ op[a].todo \in SUBSET Paths
      /\ targets[Edit(a)] \in SUBSET Paths
  BY AtWork DEF Acquire, At, EInv, IInv, SharedOK, Edit
<1>2. \E S \in SUBSET Paths : Locks!Acquire(a, S)
  BY <1>1 DEF Acquire
<1>3. Move(a, "verify", op[a].todo)
  BY DEF Acquire, Todo
<1>4. UNCHANGED <<file, targets, captured, snapshot, provenance>>
  BY DEF Acquire, spec, durable
<1>5. /\ "verify" \in EditPhases
      /\ op[a].pc \in EditPhases \ (Uncaptured \cup {"record"})
  BY <1>1 DEF EditPhases, Preparing, Committing, Uncaptured
<1>6. QED
  BY <1>1, <1>2, <1>3, <1>4, <1>5, EditMoves

\* A failed commit writes nothing itself: a patch turns to its undo.
LEMMA CommitFailsExact ==
  ASSUME EInv, IInv', NEW a \in Agents, op[a].pc \in Committing, CommitFails(a),
         UNCHANGED <<file, targets, captured, snapshot, provenance>>
  PROVE  EInv'
<1>1. CASE Move(a, "undo", UndoTargets(a)) /\ UNCHANGED guarded
  <2>1. UndoTargets(a) \in SUBSET Paths
    BY AtWork DEF UndoTargets, Committing
  <2>2. /\ "undo" \in EditPhases
        /\ op[a].pc \in EditPhases \ (Uncaptured \cup {"record"})
    BY DEF EditPhases, Preparing, Committing, Undoing, Uncaptured
  <2>3. QED
    BY <1>1, <2>1, <2>2, EditMoves
<1>2. CASE Finish(a, "failed")
  BY <1>2, Returns DEF Finish
<1>3. QED
  BY <1>1, <1>2 DEF CommitFails

\* Under the guard, the file is seen to be the one the edit starts from.
LEMMA VerifyExact ==
  ASSUME EInv, IInv', NEW a \in Agents, Verify(a)
  PROVE  EInv'
<1>1. op[a].pc = "verify" /\ op[a].todo \in SUBSET Paths
  BY AtWork DEF Verify, At
<1>2. Move(a, "write", op[a].todo)
  BY DEF Verify, Todo
<1>3. UNCHANGED <<file, guarded, targets, captured, snapshot, provenance>>
  BY DEF Verify, spec, durable
<1>4. file[First(op[a].todo)] = Before(a, First(op[a].todo))
  BY DEF Verify, LiveUnchanged, Next1
<1>5. /\ "write" \in EditPhases
      /\ op[a].pc \in EditPhases \ (Uncaptured \cup {"record"})
  BY <1>1 DEF EditPhases, Preparing, Committing, Uncaptured
<1>6. QED
  BY <1>1, <1>2, <1>3, <1>4, <1>5, EditMoves

\* The write adds the edit's own mark to a file nobody else has a guard on.
LEMMA WriteExact ==
  ASSUME EInv, IInv', NEW a \in Agents, Write(a)
  PROVE  EInv'
<1> DEFINE p == Next1(a)
<1>1. /\ op \in [Agents -> OpType] /\ op[a] \in OpType
      /\ file \in [Paths -> Contents]
      /\ op[a].pc = "write"
  BY DEF EInv, IInv, SharedOK, Write, At
<1>2. p \in op[a].todo /\ p \in Paths /\ p \in guarded[a]
  BY <1>1, AtWork DEF Visiting, Committing, Guarded
<1>3. /\ file[p] = Before(a, p)
      /\ op[a].before = snapshot[op[a].edit]
  BY <1>1 DEF EInv, Exact, Uncaptured
<1>4. /\ op'[a].pc = "check" /\ op'[a].edit = op[a].edit
      /\ op'[a].before = op[a].before
      /\ \A b \in Agents \ {a} : op'[b] = op[b]
      /\ UNCHANGED <<guarded, targets, captured, snapshot, provenance>>
      /\ file' = [file EXCEPT ![p] = file[p] \cup {op[a].edit}]
  BY <1>1, <1>3 DEF Write, Move, OpType, spec, durable, After, Edit
<1>5. Considerate(a)
  <2>1. \A b \in Agents \ {a} : p \notin guarded[b]
    BY <1>2 DEF EInv, Locks!Disjoint
  <2>2. \A q \in Paths : file'[q] = IF q = p THEN file[p] \cup {op[a].edit}
                                    ELSE file[q]
    BY <1>1, <1>2, <1>4
  <2>3. QED
    BY <1>1, <1>4, <2>1, <2>2 DEF Considerate
<1>6. Orderly(a) /\ Exact(a)' /\ Cleared(a)'
  BY <1>1, <1>3, <1>4 DEF Orderly, Exact, Cleared, EditPhases, Committing,
     RollbackPhases, RollingBack
<1>7. QED
  BY <1>4, <1>5, <1>6, ConsiderateKeeps

LEMMA CheckExact ==
  ASSUME EInv, IInv', NEW a \in Agents, Check(a)
  PROVE  EInv'
<1> DEFINE p == Next1(a)
           rest == op[a].todo \ {p}
<1>1. op[a].pc = "check"
  BY DEF Check, At
<1>2. rest \in SUBSET Paths /\ {p} \in SUBSET Paths /\ p \in Paths
  BY <1>1, AtWork DEF Visiting, Committing
<1>3. /\ {"verify", "record", "semantic"} \subseteq EditPhases
      /\ op[a].pc \in EditPhases \ (Uncaptured \cup {"record"})
  BY <1>1 DEF EditPhases, Preparing, Committing, Uncaptured
<1>4. PICK phase \in {"verify", "record", "semantic"},
           todo \in {rest, {}, {p}} :
        /\ MarkAndMove(a, p, phase, todo)
        /\ UNCHANGED guarded \/ Locks!Release(a)
  BY DEF Check, Todo
<1>5. UNCHANGED <<file, targets, captured, snapshot, provenance>>
  BY DEF Check, spec, durable
<1>6. phase \in EditPhases /\ todo \in SUBSET Paths
      /\ phase \notin {"write", "restore"}
  BY <1>2, <1>3, <1>4
<1>7. QED
  BY <1>2, <1>3, <1>4, <1>5, <1>6, EditMoves

LEMMA SemanticExact ==
  ASSUME EInv, IInv', NEW a \in Agents, Semantic(a)
  PROVE  EInv'
<1>1. op[a].pc = "semantic" /\ Move(a, "record", {})
      /\ UNCHANGED <<file, guarded, targets, captured, snapshot, provenance>>
  BY DEF Semantic, At, spec, durable
<1>2. /\ "record" \in EditPhases
      /\ op[a].pc \in EditPhases \ (Uncaptured \cup {"record"})
      /\ {} \in SUBSET Paths
  BY <1>1 DEF EditPhases, Preparing, Committing, Uncaptured
<1>3. QED
  BY <1>1, <1>2, EditMoves

\* The record of a committed edit names no rollback.
LEMMA RecordExact ==
  ASSUME EInv, IInv', NEW a \in Agents, Record(a)
  PROVE  EInv'
<1>1. op \in [Agents -> OpType] /\ provenance \in [Edits -> Outcomes]
  BY DEF EInv, IInv, SharedOK
<1>2. /\ op[a].pc = "record" /\ op'[a].pc = "idle"
      /\ \A b \in Agents \ {a} : op'[b] = op[b]
      /\ UNCHANGED <<file, targets, captured, snapshot>>
      /\ Locks!Release(a)
  BY <1>1 DEF Record, Finish, At, IdleOp, spec
<1>3. \A e \in Edits : provenance'[e] # provenance[e] =>
        e = op[a].edit /\ provenance'[e] = "committed"
  BY <1>1 DEF Record, Edit
<1>4. Quiet(a)
  BY <1>2, GuardMoves DEF Quiet
<1>5. QED
  BY <1>2, <1>3, <1>4, OverKeeps DEF BackOut

\* A file an undo is done with, restored or not.
LEMMA UndoNextExact ==
  ASSUME EInv, IInv', NEW a \in Agents, NEW restored \in BOOLEAN,
         op[a].pc \in Undoing, UndoNext(a, restored),
         UNCHANGED <<file, guarded, targets, captured, snapshot, provenance>>
  PROVE  EInv'
<1>1. op \in [Agents -> OpType] /\ op[a] \in OpType
  BY DEF EInv, IInv
<1>2. /\ op'[a].pc = "undo" /\ op'[a].edit = op[a].edit
      /\ op'[a].before = op[a].before
      /\ \A b \in Agents \ {a} : op'[b] = op[b]
  BY <1>1 DEF UndoNext, OpType
<1>3. Quiet(a)
  BY <1>2 DEF Quiet
<1>4. /\ "undo" \in EditPhases
      /\ op[a].pc \in EditPhases \ (Uncaptured \cup {"record"})
  BY DEF EditPhases, Preparing, Committing, Undoing, Uncaptured
<1>5. QED
  BY <1>2, <1>3, <1>4, QuietEdit

LEMMA UndoExact ==
  ASSUME EInv, IInv', NEW a \in Agents, Undo(a)
  PROVE  EInv'
<1>1. /\ op[a].pc = "undo" /\ op[a].todo \in SUBSET Paths
      /\ UNCHANGED <<file, guarded, targets, captured, snapshot, provenance>>
  BY AtWork DEF Undo, At, spec, durable
<1>2. CASE /\ file[Last(Todo(a))] = After(a, Last(Todo(a)))
           /\ Move(a, "restore", Todo(a))
  <2>1. /\ "restore" \in EditPhases
        /\ op[a].pc \in EditPhases \ (Uncaptured \cup {"record"})
    BY <1>1 DEF EditPhases, Preparing, Committing, Undoing, Uncaptured
  <2>2. QED
    BY <1>1, <1>2, <2>1, EditMoves DEF Todo
<1>3. CASE UndoNext(a, FALSE)
  BY <1>1, <1>3, UndoNextExact DEF Undoing
<1>4. QED
  BY <1>2, <1>3 DEF Undo

\* A step that writes one file under the agent's guard, without a new mark.
LEMMA PutsBack ==
  ASSUME EInv, IInv', NEW a \in Agents, NEW p \in Paths, p \in guarded[a],
         file[p] = After(a, p), file' = [file EXCEPT ![p] = Before(a, p)],
         \A b \in Agents \ {a} : op'[b] = op[b],
         UNCHANGED <<guarded, targets, captured, snapshot, provenance>>
  PROVE  Considerate(a)
<1>1. \A b \in Agents \ {a} : p \notin guarded[b]
  BY DEF EInv, Locks!Disjoint
<1>2. \A q \in Paths : file'[q] = IF q = p THEN Before(a, p) ELSE file[q]
  BY DEF EInv, IInv, SharedOK
<1>3. Before(a, p) \subseteq file[p]
  BY DEF After
<1>4. QED
  BY <1>1, <1>2, <1>3 DEF Considerate

LEMMA RestoreExact ==
  ASSUME EInv, IInv', NEW a \in Agents, Restore(a)
  PROVE  EInv'
<1> DEFINE p == Last(Todo(a))
<1>1. op \in [Agents -> OpType] /\ op[a] \in OpType /\ op[a].pc = "restore"
  BY DEF EInv, IInv, Restore, At
<1>2. p \in Paths /\ p \in guarded[a]
  BY <1>1, AtWork DEF Visiting, Guarded, Undoing
<1>3. UNCHANGED <<guarded, targets, captured, snapshot, provenance>>
  BY DEF Restore, spec, durable
<1>4. CASE /\ file' = [file EXCEPT ![p] = Before(a, p)]
           /\ Move(a, "confirm", Todo(a))
  <2>1. /\ op'[a].pc = "confirm" /\ op'[a].edit = op[a].edit
        /\ op'[a].before = op[a].before
        /\ \A b \in Agents \ {a} : op'[b] = op[b]
    BY <1>1, <1>4 DEF Move, OpType
  <2>2. file[p] = After(a, p) /\ op[a].before = snapshot[op[a].edit]
    BY <1>1 DEF EInv, Exact, Uncaptured
  <2>3. Considerate(a)
    BY <1>2, <1>3, <1>4, <2>1, <2>2, PutsBack
  <2>4. Orderly(a) /\ Exact(a)' /\ Cleared(a)'
    BY <1>1, <1>3, <2>1, <2>2 DEF Orderly, Exact, Cleared, EditPhases, Undoing,
       RollbackPhases, RollingBack
  <2>5. QED
    BY <1>3, <2>3, <2>4, ConsiderateKeeps
<1>5. CASE UndoNext(a, FALSE) /\ UNCHANGED file
  BY <1>1, <1>3, <1>5, UndoNextExact DEF Undoing
<1>6. QED
  BY <1>4, <1>5 DEF Restore

LEMMA ConfirmExact ==
  ASSUME EInv, IInv', NEW a \in Agents, Confirm(a)
  PROVE  EInv'
<1>1. /\ op[a].pc = "confirm"
      /\ UNCHANGED <<file, guarded, targets, captured, snapshot, provenance>>
      /\ UndoNext(a, TRUE) \/ UndoNext(a, FALSE)
  BY DEF Confirm, At, spec, durable
<1>2. QED
  BY <1>1, UndoNextExact DEF Undoing

(***************************************************************************)
(* The steps of a rollback                                                 *)
(***************************************************************************)

\* A rollback starts from the snapshot, and nobody makes the edit any more.
LEMMA StartRollbackExact ==
  ASSUME EInv, IInv', NEW a \in Agents, NEW e \in Edits, StartRollback(a, e)
  PROVE  EInv'
<1>1. /\ op'[a].pc = "triage" /\ op'[a].edit = e /\ op'[a].todo = targets[e]
      /\ op'[a].before = snapshot[e]
      /\ \A b \in Agents \ {a} : op'[b] = op[b]
      /\ provenance[e] # "none"
      /\ UNCHANGED <<file, guarded, targets, captured, snapshot, provenance>>
  BY DEF StartRollback, EInv, IInv, IdleOp, spec, durable
<1>2. Considerate(a)
  BY <1>1 DEF Considerate
<1>3. Orderly(a) /\ Exact(a)' /\ Cleared(a)'
  BY <1>1 DEF Orderly, Exact, Cleared, EditPhases, Preparing, Committing,
     Undoing, RollingBack
<1>4. QED
  BY <1>1, <1>2, <1>3, ConsiderateKeeps

\* A rollback concludes: that the edit is out of every file, if it says so.
LEMMA ConcludeExact ==
  ASSUME EInv, IInv', NEW a \in Agents,
         NEW outcome \in {"already", "conflict", "failed", "restored"},
         op[a].pc \in RollbackPhases, Conclude(a, outcome),
         UNCHANGED guarded \/ Locks!Release(a),
         UNCHANGED <<file, targets, captured, snapshot, provenance>>,
         outcome \in BackOut => \A p \in Paths : op[a].edit \notin file[p]
  PROVE  EInv'
<1>1. op \in [Agents -> OpType] /\ op[a] \in OpType
  BY DEF EInv, IInv
<1>2. /\ op'[a].pc = "correlate" /\ op'[a].edit = op[a].edit
      /\ op'[a].before = op[a].before /\ op'[a].outcome = outcome
      /\ \A b \in Agents \ {a} : op'[b] = op[b]
  BY <1>1 DEF Conclude, OpType
<1>3. Quiet(a)
  BY <1>2, GuardMoves DEF Quiet
<1>4. "correlate" \in RollbackPhases /\ outcome # "none"
  BY DEF RollbackPhases
<1>5. QED
  BY <1>2, <1>3, <1>4, QuietRollback

\* The snapshot of an edit does not carry the edit, and a file that does is
\* one of its targets.
LEMMA EditLeavesWithIt ==
  ASSUME EInv, NEW a \in Agents, op[a].pc \in RollbackPhases
  PROVE  /\ \A p \in Paths : op[a].edit \notin Before(a, p)
         /\ \A p \in Paths : op[a].edit \in file[p] => p \in targets[op[a].edit]
<1>1. op[a].pc \notin Uncaptured \cup {"idle"}
  BY DEF RollbackPhases, RollingBack, Uncaptured
<1>2. op[a].edit \in Edits /\ op[a].before = snapshot[op[a].edit]
  BY <1>1, AtWork DEF EInv, Exact
<1>3. QED
  BY <1>2 DEF EInv, IInv, Recoverable, Owned, Before

LEMMA TriageExact ==
  ASSUME EInv, IInv', NEW a \in Agents, Triage(a)
  PROVE  EInv'
<1> DEFINE p == Next1(a)
           rest == op[a].todo \ {p}
<1>1. /\ op \in [Agents -> OpType] /\ op[a] \in OpType
      /\ op[a].pc = "triage" /\ op[a].pc \in RollbackPhases
  BY DEF EInv, IInv, Triage, At, RollbackPhases
<1>2. /\ p \in op[a].todo /\ p \in Paths
      /\ rest \in SUBSET Paths /\ op[a].mark \in SUBSET Paths
  BY <1>1, AtWork DEF Visiting
<1>3. UNCHANGED <<file, guarded, targets, captured, snapshot, provenance>>
  BY DEF Triage, spec, durable
\* What was looked at and not found with the edit on it is clear of it.
<1>4. \A q \in targets[op[a].edit] \ (op[a].todo \cup op[a].mark) :
        op[a].edit \notin file[q]
  BY <1>1 DEF EInv, Cleared
<1>5. AlreadyBack(a, p) => op[a].edit \notin file[p]
  BY <1>1, <1>2, EditLeavesWithIt DEF AlreadyBack
<1>6. ASSUME NEW marked \in BOOLEAN, TriageTo(a, p, marked),
             ~marked => op[a].edit \notin file[p]
      PROVE  EInv'
  <2> DEFINE pending == IF marked THEN op[a].mark \cup {p} ELSE op[a].mark
  <2>1. CASE rest = {} /\ pending = {}
    <3>1. Conclude(a, "already")
      BY <1>6, <2>1 DEF TriageTo, Todo
    <3>2. \A q \in Paths : op[a].edit \notin file[q]
      <4>1. \A q \in targets[op[a].edit] : op[a].edit \notin file[q]
        BY <1>4, <1>6, <2>1
      <4>2. QED
        BY <1>1, <4>1, EditLeavesWithIt
    <3>3. QED
      BY <1>1, <1>3, <3>1, <3>2, ConcludeExact
  <2>2. CASE ~ (rest = {} /\ pending = {})
    <3>1. op' = [op EXCEPT
                   ![a].pc = IF rest = {} THEN "request" ELSE "triage",
                   ![a].todo = rest, ![a].mark = pending]
      BY <1>6, <2>2 DEF TriageTo, Todo
    <3>2. /\ op'[a].pc = IF rest = {} THEN "request" ELSE "triage"
          /\ op'[a].todo = rest /\ op'[a].mark = pending
          /\ op'[a].edit = op[a].edit /\ op'[a].before = op[a].before
          /\ \A b \in Agents \ {a} : op'[b] = op[b]
      BY <1>1, <3>1 DEF OpType
    <3>3. \A q \in targets[op[a].edit] \ (rest \cup pending) :
            op[a].edit \notin file[q]
      BY <1>4, <1>6
    <3>4. Quiet(a) /\ op'[a].pc \in RollbackPhases
      BY <1>3, <3>2 DEF Quiet, RollbackPhases
    <3>5. QED
      BY <1>1, <1>3, <3>2, <3>3, <3>4, QuietRollback
  <2>3. QED
    BY <2>1, <2>2
<1>7. CASE Conclude(a, "conflict")
  BY <1>1, <1>3, <1>7, ConcludeExact DEF BackOut
<1>8. QED
  BY <1>5, <1>6, <1>7 DEF Triage

LEMMA RequestExact ==
  ASSUME EInv, IInv', NEW a \in Agents, Request(a)
  PROVE  EInv'
<1>1. /\ op \in [Agents -> OpType] /\ op[a] \in OpType
      /\ op[a].pc = "request" /\ op[a].mark \in SUBSET Paths
  BY DEF EInv, IInv, Request, At, OpType
<1>2. /\ op'[a].pc = "recheck" /\ op'[a].todo = op[a].mark
      /\ op'[a].mark = op[a].mark
      /\ op'[a].edit = op[a].edit /\ op'[a].before = op[a].before
      /\ \A b \in Agents \ {a} : op'[b] = op[b]
  BY <1>1 DEF Request, Move, OpType
<1>3. UNCHANGED <<file, targets, captured, snapshot, provenance>>
  BY DEF Request, spec, durable
<1>4. \E S \in SUBSET Paths : Locks!Acquire(a, S)
  BY <1>1 DEF Request
<1>5. Quiet(a)
  BY <1>2, <1>3, <1>4, GuardMoves DEF Quiet
<1>6. \A q \in targets[op[a].edit] \ op[a].mark : op[a].edit \notin file[q]
  BY <1>1 DEF EInv, Cleared
<1>7. QED
  BY <1>1, <1>2, <1>3, <1>5, <1>6, QuietRollback DEF RollbackPhases, RollingBack

\* Under the guard, the files are one by one seen to be as the edit left them.
LEMMA RecheckExact ==
  ASSUME EInv, IInv', NEW a \in Agents, Recheck(a)
  PROVE  EInv'
<1> DEFINE p == Next1(a)
           rest == op[a].todo \ {p}
<1>1. /\ op \in [Agents -> OpType] /\ op[a] \in OpType
      /\ op[a].pc = "recheck" /\ op[a].pc \in RollbackPhases
  BY DEF EInv, IInv, Recheck, At, RollbackPhases, RollingBack
<1>2. /\ p \in op[a].todo /\ p \in Paths
      /\ rest \in SUBSET Paths /\ op[a].mark \in SUBSET Paths
  BY <1>1, AtWork DEF Visiting, RollingBack
<1>3. UNCHANGED <<file, targets, captured, snapshot, provenance>>
  BY DEF Recheck, spec, durable
<1>4. /\ \A q \in op[a].mark \ op[a].todo : file[q] = After(a, q)
      /\ \A q \in targets[op[a].edit] \ op[a].mark : op[a].edit \notin file[q]
  BY <1>1 DEF EInv, Exact, Cleared
<1>5. CASE StillProduced(a, p) /\ UNCHANGED guarded
           /\ IF rest = {} THEN Move(a, "putback", op[a].mark)
                           ELSE Move(a, "recheck", rest)
  <2>1. /\ op'[a].pc = IF rest = {} THEN "putback" ELSE "recheck"
        /\ op'[a].todo = IF rest = {} THEN op[a].mark ELSE rest
        /\ op'[a].mark = op[a].mark
        /\ op'[a].edit = op[a].edit /\ op'[a].before = op[a].before
        /\ \A b \in Agents \ {a} : op'[b] = op[b]
    <3> DEFINE phase == IF rest = {} THEN "putback" ELSE "recheck"
               todo == IF rest = {} THEN op[a].mark ELSE rest
    <3>1. Move(a, phase, todo)
      BY <1>5
    <3> HIDE DEF phase, todo
    <3>2. /\ op'[a].pc = phase /\ op'[a].todo = todo
          /\ op'[a].mark = op[a].mark
          /\ op'[a].edit = op[a].edit /\ op'[a].before = op[a].before
          /\ \A b \in Agents \ {a} : op'[b] = op[b]
      BY <1>1, <3>1 DEF Move, OpType
    <3>3. QED
      BY <3>2 DEF phase, todo
  <2>2. \A q \in op[a].mark \ rest : file[q] = After(a, q)
    BY <1>4, <1>5 DEF StillProduced
  <2>3. Quiet(a) /\ op'[a].pc \in RollbackPhases
    BY <1>3, <1>5, <2>1 DEF Quiet, RollbackPhases, RollingBack
  <2>4. QED
    BY <1>1, <1>3, <1>4, <2>1, <2>2, <2>3, QuietRollback
<1>6. CASE Conclude(a, "conflict") /\ Locks!Release(a)
  BY <1>1, <1>3, <1>6, ConcludeExact DEF BackOut
<1>7. QED
  BY <1>5, <1>6 DEF Recheck, Todo

\* A put back file is clear of the edit; those still to come are unchanged.
LEMMA PutBackExact ==
  ASSUME EInv, IInv', NEW a \in Agents, PutBack(a)
  PROVE  EInv'
<1> DEFINE p == Last(Todo(a))
<1>1. /\ op \in [Agents -> OpType] /\ op[a] \in OpType
      /\ op[a].pc = "putback" /\ op[a].pc \in RollbackPhases
      /\ file \in [Paths -> Contents]
  BY DEF EInv, IInv, SharedOK, PutBack, At, RollbackPhases, RollingBack
<1>2. /\ p \in op[a].todo /\ p \in Paths /\ p \in guarded[a]
      /\ op[a].todo \subseteq Paths /\ targets[op[a].edit] \subseteq Paths
  BY <1>1, AtWork DEF Visiting, Guarded, RollingBack, EInv, IInv, SharedOK
<1>3. UNCHANGED <<targets, captured, snapshot, provenance>>
  BY DEF PutBack, spec, durable
<1>4. CASE /\ file' = [file EXCEPT ![p] = Before(a, p)]
           /\ Move(a, "reread", Todo(a))
           /\ UNCHANGED guarded
  <2>1. /\ op'[a].pc = "reread" /\ op'[a].edit = op[a].edit
        /\ op'[a].todo = op[a].todo /\ op'[a].before = op[a].before
        /\ \A b \in Agents \ {a} : op'[b] = op[b]
    BY <1>1, <1>4 DEF Move, OpType, Todo
  <2>2. /\ \A q \in op[a].todo : file[q] = After(a, q)
        /\ \A q \in targets[op[a].edit] \ op[a].todo : op[a].edit \notin file[q]
        /\ op[a].before = snapshot[op[a].edit]
        /\ provenance[op[a].edit] # "none"
    BY <1>1 DEF EInv, Exact, Cleared, Lifecycle, Uncaptured
  <2>3. \A q \in Paths : file'[q] = IF q = p THEN Before(a, p) ELSE file[q]
    BY <1>1, <1>4
  <2>4. op[a].edit \notin Before(a, p)
    BY <1>1, <1>2, EditLeavesWithIt
  <2>5. Considerate(a)
    BY <1>2, <1>3, <1>4, <2>1, <2>2, PutsBack
  <2>6. Last(Todo(a))' = p
    BY <2>1 DEF Todo
  <2>7. Exact(a)'
    <3>1. \A q \in Paths : After(a, q)' = After(a, q)
      BY <2>1 DEF After, Before, Edit
    <3>2. \A q \in op[a].todo \ {p} : file'[q] = After(a, q)
      BY <1>2, <2>2, <2>3
    <3>3. QED
      BY <1>2, <1>3, <2>1, <2>2, <2>6, <3>1, <3>2 DEF Exact
  <2>8. Cleared(a)'
    <3>1. \A q \in targets[op[a].edit] \ (op[a].todo \ {p}) :
            op[a].edit \notin file'[q]
      BY <1>2, <2>2, <2>3, <2>4
    <3>2. QED
      BY <1>3, <2>1, <2>6, <3>1 DEF Cleared
  <2>9. Orderly(a)
    BY <2>1, <2>2 DEF Orderly, EditPhases, Preparing, Committing, Undoing
  <2>10. QED
    BY <1>3, <1>4, <2>5, <2>7, <2>8, <2>9, ConsiderateKeeps
<1>5. CASE Conclude(a, "failed") /\ Locks!Release(a) /\ UNCHANGED file
  BY <1>1, <1>3, <1>5, ConcludeExact DEF BackOut
<1>6. QED
  BY <1>4, <1>5 DEF PutBack

LEMMA RereadExact ==
  ASSUME EInv, IInv', NEW a \in Agents, Reread(a)
  PROVE  EInv'
<1> DEFINE p == Last(Todo(a))
           rest == op[a].todo \ {p}
<1>1. /\ op \in [Agents -> OpType] /\ op[a] \in OpType
      /\ op[a].pc = "reread" /\ op[a].pc \in RollbackPhases
  BY DEF EInv, IInv, Reread, At, RollbackPhases, RollingBack
<1>2. UNCHANGED <<file, targets, captured, snapshot, provenance>>
  BY DEF Reread, spec, durable
<1>3. /\ \A q \in rest : file[q] = After(a, q)
      /\ \A q \in targets[op[a].edit] \ rest : op[a].edit \notin file[q]
  BY <1>1 DEF EInv, Exact, Cleared, Todo
<1>4. CASE Move(a, "putback", rest) /\ UNCHANGED guarded
  <2>1. /\ op'[a].pc = "putback" /\ op'[a].todo = rest
        /\ op'[a].edit = op[a].edit /\ op'[a].before = op[a].before
        /\ \A b \in Agents \ {a} : op'[b] = op[b]
    BY <1>1, <1>4 DEF Move, OpType
  <2>2. Quiet(a) /\ op'[a].pc \in RollbackPhases
    BY <1>2, <1>4, <2>1 DEF Quiet, RollbackPhases, RollingBack
  <2>3. QED
    BY <1>1, <1>2, <1>3, <2>1, <2>2, QuietRollback
<1>5. CASE Conclude(a, "restored") /\ Locks!Release(a) /\ rest = {}
  <2>1. \A q \in Paths : op[a].edit \notin file[q]
    BY <1>1, <1>3, <1>5, EditLeavesWithIt
  <2>2. QED
    BY <1>1, <1>2, <1>5, <2>1, ConcludeExact
<1>6. CASE Conclude(a, "failed") /\ Locks!Release(a)
  BY <1>1, <1>2, <1>6, ConcludeExact DEF BackOut
<1>7. QED
  BY <1>4, <1>5, <1>6 DEF Reread, Todo

\* A rollback that has read the record keeps the outcome it came to, or ends.
LEMMA CorrelateExact ==
  ASSUME EInv, IInv', NEW a \in Agents, Correlate(a)
  PROVE  EInv'
<1>1. op \in [Agents -> OpType] /\ op[a] \in OpType
  BY DEF EInv, IInv
<1>2. /\ op[a].pc = "correlate" /\ op[a].pc \in RollbackPhases
      /\ UNCHANGED <<file, guarded, targets, captured, snapshot, provenance>>
  BY DEF Correlate, At, spec, durable, RollbackPhases
<1>3. /\ op[a].outcome # "none"
      /\ op[a].outcome \in BackOut => \A p \in Paths : op[a].edit \notin file[p]
  BY <1>2 DEF EInv, Lifecycle, Cleared
<1>4. CASE Move(a, "replace", {})
  <2>1. /\ op'[a].pc = "replace" /\ op'[a].edit = op[a].edit
        /\ op'[a].before = op[a].before /\ op'[a].outcome = op[a].outcome
        /\ \A b \in Agents \ {a} : op'[b] = op[b]
    BY <1>1, <1>4 DEF Move, OpType
  <2>2. Quiet(a)
    BY <1>2, <2>1 DEF Quiet
  <2>3. "replace" \in RollbackPhases
    BY DEF RollbackPhases
  <2>4. QED
    BY <1>2, <1>3, <2>1, <2>2, <2>3, QuietRollback
<1>5. CASE op' = [op EXCEPT ![a] = IdleOp]
  <2>1. op'[a].pc = "idle" /\ \A b \in Agents \ {a} : op'[b] = op[b]
    BY <1>1, <1>5 DEF IdleOp
  <2>2. Quiet(a)
    BY <1>2, <2>1 DEF Quiet
  <2>3. QED
    BY <1>2, <2>1, <2>2, OverKeeps
<1>6. QED
  BY <1>4, <1>5 DEF Correlate

\* The outcome that is recorded is the one that was reached.
LEMMA ReplaceOutcomeExact ==
  ASSUME EInv, IInv', NEW a \in Agents, ReplaceOutcome(a)
  PROVE  EInv'
<1>1. op \in [Agents -> OpType] /\ provenance \in [Edits -> Outcomes]
  BY DEF EInv, IInv, SharedOK
<1>2. /\ op[a].pc = "replace" /\ op'[a].pc = "idle"
      /\ \A b \in Agents \ {a} : op'[b] = op[b]
      /\ UNCHANGED <<file, guarded, targets, captured, snapshot>>
  BY <1>1 DEF ReplaceOutcome, At, IdleOp, spec
<1>3. \A e \in Edits : provenance'[e] # provenance[e] =>
        e = op[a].edit /\ provenance'[e] = op[a].outcome
  BY <1>1 DEF ReplaceOutcome, Edit
<1>4. /\ op[a].outcome # "none"
      /\ op[a].outcome \in BackOut => \A p \in Paths : op[a].edit \notin file[p]
  BY <1>2 DEF EInv, Lifecycle, Cleared
<1>5. Quiet(a)
  BY <1>2 DEF Quiet
<1>6. QED
  BY <1>2, <1>3, <1>4, <1>5, OverKeeps

(***************************************************************************)
(* The other writers, crashes, and the invariant as a whole                *)
(***************************************************************************)

\* A plain write takes a guard of its own and leaves no mark of an edit.
LEMMA OverwriteExact ==
  ASSUME EInv, IInv', NEW a \in Agents, NEW p \in Paths, NEW text \in Texts,
         Overwrite(a, p, text)
  PROVE  EInv'
<1>1. /\ op[a].pc = "idle" /\ op' = op /\ file \in [Paths -> Contents]
      /\ file' = [file EXCEPT ![p] = text]
      /\ UNCHANGED <<guarded, targets, captured, snapshot, provenance>>
  BY DEF Overwrite, At, spec, durable, EInv, IInv, SharedOK
<1>2. \A b \in Agents \ {a} : p \notin guarded[b]
  BY DEF Overwrite, Locks!Free
<1>3. \A q \in Paths : file'[q] = IF q = p THEN text ELSE file[q]
  BY <1>1
<1>4. \A e \in Edits : e \notin text
  BY EditAssumption DEF Texts, Absent
<1>5. Considerate(a)
  BY <1>1, <1>2, <1>3, <1>4 DEF Considerate
<1>6. Orderly(a) /\ Exact(a)' /\ Cleared(a)'
  BY <1>1 DEF Orderly, Exact, Cleared, EditPhases, Preparing, Committing,
     Undoing, RollbackPhases, RollingBack, Uncaptured
<1>7. QED
  BY <1>1, <1>5, <1>6, ConsiderateKeeps

\* Only a change made without the guard of its file counts as one.
LEMMA ForeignCounts ==
  ASSUME [Next]_vars
  PROVE  foreign' = foreign \/ \E p \in Paths, text \in Texts : Foreign(p, text)
<1>1. ASSUME NEW a \in Agents, EditStep(a) PROVE foreign' = foreign
  BY <1>1 DEF EditStep, Prepare, Refuse, Capture, Acquire, Verify, VerifyFails,
     Write, WriteFails, Check, CheckFails, Semantic, SemanticFails, Record, Undo,
     Restore, Confirm, UndoDone, bounds
<1>2. ASSUME NEW a \in Agents, RollbackStep(a) PROVE foreign' = foreign
  BY <1>2 DEF RollbackStep, Triage, Request, RollbackErrs, Recheck, PutBack,
     Reread, Correlate, ReplaceOutcome, bounds
<1>3. QED
  BY <1>1, <1>2 DEF Next, vars, Begin, StartRollback, Overwrite, Crash, bounds

\* As long as every writer takes the guard, every step keeps the invariant.
LEMMA EInvStep ==
  ASSUME EInv, IInv', [Next]_vars,
         \A p \in Paths, text \in Texts : ~ Foreign(p, text)
  PROVE  EInv'
<1>1. CASE UNCHANGED vars
  <2>1. UNCHANGED <<file, guarded, op, targets, captured, snapshot, provenance>>
    BY <1>1 DEF vars, spec, durable
  <2>2. \A a \in Agents : Exact(a)' /\ Lifecycle(a)' /\ Cleared(a)'
    BY <2>1 DEF EInv, Exact, Lifecycle, Cleared, Next1, Todo, Before, After, Edit
  <2>3. Locks!Disjoint' /\ Recorded' /\ OutOfEveryFile'
    BY <2>1 DEF EInv, Locks!Disjoint, Recorded, OutOfEveryFile
  <2>4. QED
    BY <2>2, <2>3 DEF EInv
<1>2. ASSUME NEW a \in Agents, EditStep(a) PROVE EInv'
  <2>1. CASE Prepare(a) \/ Capture(a) \/ Acquire(a)
    BY <2>1, PrepareExact, CaptureExact, AcquireExact
  <2>2. CASE Refuse(a)
    BY <2>2, Returns DEF Refuse, Finish, spec, durable
  <2>3. CASE Verify(a) \/ Write(a) \/ Check(a) \/ Semantic(a) \/ Record(a)
    BY <2>3, VerifyExact, WriteExact, CheckExact, SemanticExact, RecordExact
  <2>4. CASE VerifyFails(a) \/ WriteFails(a) \/ CheckFails(a)
    <3>1. /\ op[a].pc \in Committing /\ CommitFails(a)
          /\ UNCHANGED <<file, targets, captured, snapshot, provenance>>
      BY <2>4 DEF VerifyFails, WriteFails, CheckFails, At, Committing, spec,
         durable
    <3>2. QED
      BY <3>1, CommitFailsExact
  <2>5. CASE SemanticFails(a)
    BY <2>5, Returns DEF SemanticFails, Finish, spec, durable
  <2>6. CASE Undo(a) \/ Restore(a) \/ Confirm(a)
    BY <2>6, UndoExact, RestoreExact, ConfirmExact
  <2>7. CASE UndoDone(a)
    BY <2>7, Returns DEF UndoDone, Finish, spec, durable
  <2>8. QED
    BY <1>2, <2>1, <2>2, <2>3, <2>4, <2>5, <2>6, <2>7 DEF EditStep
<1>3. ASSUME NEW a \in Agents, RollbackStep(a) PROVE EInv'
  <2>1. CASE Triage(a) \/ Request(a) \/ Recheck(a)
    BY <2>1, TriageExact, RequestExact, RecheckExact
  <2>2. CASE PutBack(a) \/ Reread(a) \/ Correlate(a) \/ ReplaceOutcome(a)
    BY <2>2, PutBackExact, RereadExact, CorrelateExact, ReplaceOutcomeExact
  <2>3. CASE RollbackErrs(a)
    BY <2>3, Returns DEF RollbackErrs, spec, durable
  <2>4. QED
    BY <1>3, <2>1, <2>2, <2>3 DEF RollbackStep
<1>4. ASSUME NEW a \in Agents, Crash(a) PROVE EInv'
  BY <1>4, Returns DEF Crash, spec, durable
<1>5. ASSUME NEW a \in Agents, NEW e \in Edits, StartRollback(a, e) PROVE EInv'
  BY <1>5, StartRollbackExact
<1>6. ASSUME NEW a \in Agents, NEW e \in Edits, NEW S \in SUBSET Paths,
             NEW m \in {"patch", "line"}, Begin(a, e, S, m)
      PROVE  EInv'
  BY <1>6, BeginExact
<1>7. ASSUME NEW a \in Agents, NEW p \in Paths, NEW text \in Texts,
             Overwrite(a, p, text)
      PROVE  EInv'
  BY <1>7, OverwriteExact
<1>8. QED
  BY <1>1, <1>2, <1>3, <1>4, <1>5, <1>6, <1>7 DEF Next

\* If every change so far and this step took the guard, so had those before.
LEMMA SoFarGuarded ==
  ASSUME IInv, [Next]_vars, foreign' = 0
  PROVE  foreign = 0 /\ \A p \in Paths, text \in Texts : ~ Foreign(p, text)
<1>1. foreign \in Nat
  BY EditAssumption DEF IInv, SharedOK
<1>2. ASSUME NEW p \in Paths, NEW text \in Texts, Foreign(p, text) PROVE FALSE
  BY <1>1, <1>2 DEF Foreign
<1>3. QED
  BY <1>2, ForeignCounts

\* The invariant holds until a file is changed without its guard.
LEMMA EInvHolds == Spec => [](foreign = 0 => EInv)
<1>1. Init /\ IInv => EInv
  BY DEF Init, EInv, IdleOp, Exact, Lifecycle, Cleared, Recorded, Locks!Disjoint,
     OutOfEveryFile, BackOut, EditPhases, RollbackPhases, Preparing, Committing,
     Undoing, RollingBack, Uncaptured
<1>2. IInv /\ (foreign = 0 => EInv) /\ IInv' /\ [Next]_vars
        => (foreign = 0 => EInv)'
  BY SoFarGuarded, EInvStep
<1>3. QED
  BY <1>1, <1>2, InvariantHolds, PTL DEF Spec

\* As long as every change is made under the guard of its file, an edit whose
\* record says that it was rolled back is in no file: no later edit, undo or
\* rollback brings it back.
THEOREM RolledBackEditsStayGone == Spec => []RolledBackStaysGone
<1>1. (foreign = 0 => EInv) => RolledBackStaysGone
  BY DEF EInv, OutOfEveryFile, BackOut, RolledBackStaysGone
<1>2. QED
  BY <1>1, EInvHolds, PTL

\* As long as every change is made under the guard of its file, each step of
\* the service changes a file from exactly the content its snapshot recorded
\* to the one the edit makes of it, or back, or replaces it by a plain write:
\* nothing is overwritten that was not seen.
THEOREM EveryStepIsExact == Spec => ExactSteps
<1>1. EInv /\ [Next]_vars
        /\ (\A q \in Paths, text \in Texts : ~ Foreign(q, text)) => ExactStep
  <2> SUFFICES ASSUME EInv, [Next]_vars,
                      \A q \in Paths, text \in Texts : ~ Foreign(q, text),
                      NEW p \in Paths, file'[p] # file[p]
               PROVE  \/ \E e \in captured :
                           \/ /\ file[p] = snapshot[e][p]
                              /\ file'[p] = file[p] \cup {e}
                           \/ /\ file'[p] = snapshot[e][p]
                              /\ file[p] = file'[p] \cup {e}
                      \/ op' = op /\ file'[p] \in Texts
    BY DEF ExactStep
  <2>1. file \in [Paths -> Contents]
    BY DEF EInv, IInv, SharedOK
  <2>2. \/ \E a \in Agents : Write(a) \/ Restore(a) \/ PutBack(a)
        \/ \E a \in Agents, q \in Paths, text \in Texts : Overwrite(a, q, text)
    <3>1. file' # file
      OBVIOUS
    <3>2. \A a \in Agents : ~ Crash(a) /\ (EditStep(a) \/ RollbackStep(a)
            => Write(a) \/ Restore(a) \/ PutBack(a))
      BY <3>1 DEF EditStep, RollbackStep, Crash, Prepare, Refuse, Capture,
         Acquire, Verify, VerifyFails, WriteFails, Check, CheckFails, Semantic,
         SemanticFails, Record, Undo, Confirm, UndoDone, Triage, Request,
         RollbackErrs, Recheck, Reread, Correlate, ReplaceOutcome
    <3>3. QED
      BY <3>1, <3>2 DEF Next, vars, Begin, StartRollback
  <2>3. ASSUME NEW a \in Agents, op[a].pc \in {"write", "restore", "putback"}
        PROVE  /\ op[a].edit \in captured
               /\ op[a].before = snapshot[op[a].edit]
    BY <2>3, AtWork DEF EInv, Exact, Uncaptured
  <2>4. ASSUME NEW a \in Agents, Write(a) \/ Restore(a) \/ PutBack(a)
        PROVE  \E e \in captured :
                 \/ file[p] = snapshot[e][p] /\ file'[p] = file[p] \cup {e}
                 \/ file'[p] = snapshot[e][p] /\ file[p] = file'[p] \cup {e}
    <3>1. CASE Write(a)
      <4>1. /\ op[a].pc = "write" /\ p = Next1(a)
            /\ file'[p] = Before(a, p) \cup {op[a].edit}
        BY <2>1, <3>1 DEF Write, At, After, Edit
      <4>2. file[p] = Before(a, p)
        BY <4>1 DEF EInv, Exact
      <4>3. QED
        BY <2>3, <4>1, <4>2 DEF Before
    <3>2. CASE Restore(a)
      <4>1. /\ op[a].pc = "restore" /\ p = Last(Todo(a))
            /\ file'[p] = Before(a, p)
        BY <2>1, <3>2 DEF Restore, At
      <4>2. file[p] = After(a, p)
        BY <4>1 DEF EInv, Exact
      <4>3. QED
        BY <2>3, <4>1, <4>2 DEF Before, After, Edit
    <3>3. CASE PutBack(a)
      <4>1. /\ op[a].pc = "putback" /\ p = Last(Todo(a))
            /\ file'[p] = Before(a, p)
        BY <2>1, <3>3 DEF PutBack, At
      <4>2. p \in op[a].todo
        BY <4>1, AtWork DEF Visiting, RollingBack, Todo
      <4>3. file[p] = After(a, p)
        BY <4>1, <4>2 DEF EInv, Exact
      <4>4. QED
        BY <2>3, <4>1, <4>3 DEF Before, After, Edit
    <3>4. QED
      BY <2>4, <3>1, <3>2, <3>3
  <2>5. QED
    BY <2>1, <2>2, <2>4 DEF Overwrite
<1>2. IInv /\ (foreign = 0 => EInv) /\ [Next]_vars => (foreign' = 0 => ExactStep)
  BY <1>1, SoFarGuarded
<1>3. (foreign' = 0 => ExactStep) => [foreign' = 0 => ExactStep]_vars
  OBVIOUS
<1>4. QED
  BY <1>2, <1>3, InvariantHolds, EInvHolds, PTL DEF Spec, ExactSteps

============================================================================
