------------------------- MODULE EditServiceProofs -------------------------
(***************************************************************************)
(* What EditService guarantees for every number of agents, edits, files,   *)
(* faults, foreign writes and crashes: type correctness, with the guard    *)
(* held exactly where the code scopes it, and that no file carries an edit *)
(* whose snapshot is not published.                                        *)
(***************************************************************************)
EXTENDS EditService, WellFoundedInduction, TLAPS

(***************************************************************************)
(* The inductive invariant                                                 *)
(***************************************************************************)

OpType == [pc : Phases, edit : Edits \cup {NoEdit},
           todo : SUBSET Paths, mark : SUBSET Paths,
           before : [Paths -> Contents], clean : BOOLEAN,
           outcome : Outcomes]

\* The phases in which the agent's snapshot is not published yet, and those
\* that visit a file.
Uncaptured == {"prepare", "capture"}
Visiting == {"prepare", "semantic", "restore", "confirm", "triage"}
              \cup Committing \cup RollingBack

\* Every edit the content c of p carries is recoverable.
Owned(c, p) == \A e \in Edits : e \in c => e \in captured /\ p \in targets[e]

SharedOK ==
  /\ file \in [Paths -> Contents]
  /\ guarded \in [Agents -> SUBSET Paths]
  /\ targets \in [Edits -> SUBSET Paths]
  /\ method \in [Edits -> {"patch", "line"}]
  /\ captured \in SUBSET Edits
  /\ snapshot \in [Edits -> [Paths -> Contents]]
  /\ provenance \in [Edits -> Outcomes]
  /\ status \in [Edits -> Reports]
  /\ foreign \in 0..MaxForeign
  /\ crashes \in 0..MaxCrashes

\* What one agent is doing fits the edit it works on.
AgentOK(a) ==
  /\ op[a].pc # "idle" =>
       /\ op[a].edit \in Edits
       /\ targets[op[a].edit] # {}
       /\ op[a].todo \cup op[a].mark \subseteq targets[op[a].edit]
       /\ op[a].edit \in captured <=> op[a].pc \notin Uncaptured
  /\ op[a].pc \in Preparing => op[a].mark = {}
  /\ op[a].pc = "acquire" => op[a].todo = targets[op[a].edit]
  /\ op[a].pc \in Visiting => op[a].todo # {}
  /\ op[a].pc \in {"request"} \cup RollingBack => op[a].mark # {}
  /\ op[a].pc \in Guarded => op[a].todo \cup op[a].mark \subseteq guarded[a]
  /\ guarded[a] # {} => op[a].pc \in Guarded \cup {"record"}
  /\ \A p \in Paths : Owned(op[a].before[p], p)

\* Two agents never prepare the same edit.
OwnEdits ==
  \A a, b \in Agents :
    (a # b /\ op[a].pc \in Uncaptured /\ op[b].pc \in Uncaptured)
      => op[a].edit # op[b].edit

Recoverable ==
  /\ \A p \in Paths : Owned(file[p], p)
  /\ \A e \in Edits : e \in captured => targets[e] # {}
  /\ \A e \in Edits, p \in Paths :
       Owned(snapshot[e][p], p) /\ e \notin snapshot[e][p]

IInv ==
  /\ SharedOK
  /\ op \in [Agents -> OpType]
  /\ \A a \in Agents : AgentOK(a)
  /\ OwnEdits
  /\ Recoverable

(***************************************************************************)
(* Facts about sets of files                                               *)
(***************************************************************************)

Below == {ss \in Nat \X Nat : ss[1] < ss[2]}

\* The order of the naturals is well founded.
LEMMA BelowWellFounded == IsWellFoundedOn(Below, Nat)
<1>1. OpToRel(<, Nat) = Below
  BY DEF OpToRel, Below
<1>2. QED
  BY <1>1, NatLessThanWellFounded

\* A non-empty set of naturals has a least element.
LEMMA HasLeast ==
  ASSUME NEW S, S \subseteq Nat, S # {}
  PROVE  \E m \in S : \A x \in S : m <= x
<1>1. PICK m \in S : \A x \in S : <<x, m>> \notin Below
  BY BelowWellFounded, WFMin
<1>2. ASSUME NEW x \in S PROVE m <= x
  <2>1. x \in Nat /\ m \in Nat
    OBVIOUS
  <2>2. /\ <<x, m>> \in Nat \X Nat
        /\ <<x, m>>[1] = x
        /\ <<x, m>>[2] = m
    BY <2>1
  <2>3. <<x, m>> \in Below <=> x < m
    BY <2>2, Zenon DEF Below
  <2>4. QED
    BY <1>1, <2>1, <2>3
<1>3. QED
  BY <1>2

\* patch visits its files from the first to the last of the path order.
LEMMA FirstIn ==
  ASSUME NEW S \in SUBSET Paths, S # {}
  PROVE  First(S) \in S
<1>1. S \subseteq Nat
  BY EditAssumption
<1>2. \E m \in S : \A x \in S : m <= x
  BY <1>1, HasLeast
<1>3. QED
  BY <1>2 DEF First

\* An undo visits them from the last to the first.
LEMMA LastIn ==
  ASSUME NEW S \in SUBSET Paths, S # {}
  PROVE  Last(S) \in S
<1>1. PICK top \in Paths : \A p \in Paths : p <= top
  BY EditAssumption
<1>2. S \subseteq Nat /\ top \in Nat /\ \A p \in S : top - p \in Nat
  BY <1>1, EditAssumption
<1>3. PICK m \in {top - p : p \in S} : \A x \in {top - p : p \in S} : m <= x
  <2>1. {top - p : p \in S} \subseteq Nat /\ {top - p : p \in S} # {}
    BY <1>2
  <2>2. QED
    BY <2>1, HasLeast
<1>4. PICK q \in S : m = top - q
  BY <1>3
<1>5. \A p \in S : q >= p
  <2>1. SUFFICES ASSUME NEW p \in S PROVE q >= p
    OBVIOUS
  <2>2. top - q <= top - p
    BY <1>3, <1>4
  <2>3. QED
    BY <2>2, <1>2
<1>6. QED
  BY <1>5 DEF Last

(***************************************************************************)
(* Frames                                                                  *)
(***************************************************************************)

\* What one agent does leaves the invariant of the others alone.
LEMMA OthersKeep ==
  ASSUME IInv, NEW a \in Agents,
         \A b \in Agents \ {a} : op'[b] = op[b] /\ guarded'[b] = guarded[b],
         \A e \in Edits : targets[e] # {} => targets'[e] = targets[e],
         captured \subseteq captured',
         \A e \in captured' \ captured : op[a].pc \in Uncaptured /\ e = op[a].edit
  PROVE  \A b \in Agents \ {a} : AgentOK(b)'
<1>1. SUFFICES ASSUME NEW b \in Agents \ {a} PROVE AgentOK(b)'
  OBVIOUS
<1>2. AgentOK(b) /\ op[b] \in OpType
  BY DEF IInv
<1>3. \A p \in Paths : Owned(op[b].before[p], p)'
  <2>1. SUFFICES ASSUME NEW p \in Paths, NEW e \in Edits, e \in op[b].before[p]
                 PROVE  e \in captured' /\ p \in targets'[e]
    BY DEF Owned
  <2>2. e \in captured /\ p \in targets[e]
    BY <1>2, <2>1 DEF AgentOK, Owned
  <2>3. QED
    BY <2>2
<1>4. op[b].pc # "idle" =>
        (op[b].edit \in captured' <=> op[b].pc \notin Uncaptured)
  BY <1>2 DEF IInv, AgentOK, OwnEdits
<1>5. QED
  BY <1>2, <1>3, <1>4 DEF AgentOK

\* A step of one agent that publishes no snapshot and starts no edit keeps
\* the invariant as soon as the agent and the files it writes agree with it.
LEMMA StepKeeps ==
  ASSUME IInv, NEW a \in Agents,
         op' \in [Agents -> OpType],
         \A b \in Agents \ {a} : op'[b] = op[b] /\ guarded'[b] = guarded[b],
         op'[a].pc \in Uncaptured
           => op[a].pc \in Uncaptured /\ op'[a].edit = op[a].edit,
         UNCHANGED <<targets, captured, snapshot>>,
         SharedOK', AgentOK(a)',
         \A p \in Paths : file'[p] = file[p] \/ Owned(file'[p], p)
  PROVE  IInv'
<1>1. targets' = targets /\ captured' = captured /\ snapshot' = snapshot
  OBVIOUS
<1>2. \A b \in Agents \ {a} : AgentOK(b)'
  <2>1. /\ \A e \in Edits : targets[e] # {} => targets'[e] = targets[e]
        /\ captured \subseteq captured'
        /\ \A e \in captured' \ captured :
             op[a].pc \in Uncaptured /\ e = op[a].edit
    BY ONLY <1>1
  <2>2. QED
    BY <2>1, OthersKeep, Zenon
<1>3. \A b \in Agents : AgentOK(b)'
  BY <1>2
<1>4. OwnEdits'
  BY DEF OwnEdits, IInv
<1>5. Recoverable'
  BY <1>1 DEF Recoverable, IInv, Owned
<1>6. QED
  BY <1>3, <1>4, <1>5 DEF IInv

\* An agent turns to its next phase.
LEMMA Moved ==
  ASSUME op \in [Agents -> OpType], NEW a \in Agents,
         NEW phase \in Phases, NEW todo \in SUBSET Paths,
         op' = [op EXCEPT ![a].pc = phase, ![a].todo = todo]
  PROVE  /\ op' \in [Agents -> OpType]
         /\ \A b \in Agents \ {a} : op'[b] = op[b]
         /\ op'[a].pc = phase /\ op'[a].todo = todo
         /\ op'[a].edit = op[a].edit /\ op'[a].mark = op[a].mark
         /\ op'[a].before = op[a].before
<1>1. op[a] \in OpType
  OBVIOUS
<1>2. [op[a] EXCEPT !.pc = phase, !.todo = todo] \in OpType
  BY <1>1 DEF OpType
<1>3. op'[a] = [op[a] EXCEPT !.pc = phase, !.todo = todo]
  OBVIOUS
<1>4. QED
  BY <1>1, <1>2, <1>3 DEF OpType

\* It turns to it with one more file marked.
LEMMA MarkedAndMoved ==
  ASSUME op \in [Agents -> OpType], NEW a \in Agents,
         NEW phase \in Phases, NEW todo \in SUBSET Paths,
         NEW mark \in SUBSET Paths,
         op' = [op EXCEPT ![a].pc = phase, ![a].todo = todo, ![a].mark = mark]
  PROVE  /\ op' \in [Agents -> OpType]
         /\ \A b \in Agents \ {a} : op'[b] = op[b]
         /\ op'[a].pc = phase /\ op'[a].todo = todo /\ op'[a].mark = mark
         /\ op'[a].edit = op[a].edit /\ op'[a].before = op[a].before
<1>1. op[a] \in OpType
  OBVIOUS
<1>2. [op[a] EXCEPT !.pc = phase, !.todo = todo, !.mark = mark] \in OpType
  BY <1>1 DEF OpType
<1>3. op'[a] = [op[a] EXCEPT !.pc = phase, !.todo = todo, !.mark = mark]
  OBVIOUS
<1>4. QED
  BY <1>1, <1>2, <1>3 DEF OpType

\* An operation that is over leaves an idle agent.
LEMMA IdleIsOK ==
  ASSUME IInv, NEW a \in Agents,
         op' = [op EXCEPT ![a] = IdleOp], guarded'[a] = {}
  PROVE  /\ op' \in [Agents -> OpType]
         /\ \A b \in Agents \ {a} : op'[b] = op[b]
         /\ op'[a].pc = "idle"
         /\ AgentOK(a)'
<1>1. IdleOp \in OpType
  BY DEF IdleOp, OpType, Phases, Outcomes, Blank, Contents
<1>2. op'[a] = IdleOp
  BY DEF IInv
<1>3. op'[a].pc = "idle" /\ op'[a].before = Blank
  BY <1>2 DEF IdleOp
<1>4. \A p \in Paths : Owned(op[a].before[p], p)'
  BY <1>3 DEF Blank, Owned
<1>5. AgentOK(a)'
  BY <1>3, <1>4 DEF AgentOK, Preparing, Visiting, Guarded, RollingBack,
     Committing, Undoing
<1>6. QED
  BY <1>1, <1>2, <1>3, <1>5 DEF IInv

\* What the guard covers after it was taken or dropped.
LEMMA GuardSteps ==
  ASSUME guarded \in [Agents -> SUBSET Paths], NEW a \in Agents,
         NEW S \in SUBSET Paths, guarded' = [guarded EXCEPT ![a] = S]
  PROVE  /\ guarded' \in [Agents -> SUBSET Paths]
         /\ guarded'[a] = S
         /\ \A b \in Agents \ {a} : guarded'[b] = guarded[b]
OBVIOUS

\* What the invariant says of an agent and of the files it has to visit.
LEMMA AgentFacts ==
  ASSUME IInv, NEW a \in Agents
  PROVE  /\ op \in [Agents -> OpType] /\ guarded \in [Agents -> SUBSET Paths]
         /\ AgentOK(a) /\ SharedOK
         /\ op[a].pc \in Phases /\ op[a].edit \in Edits \cup {NoEdit}
         /\ op[a].todo \in SUBSET Paths /\ op[a].mark \in SUBSET Paths
         /\ op[a].before \in [Paths -> Contents]
         /\ op[a].pc \in Visiting =>
              /\ Next1(a) \in op[a].todo /\ Next1(a) \in Paths
              /\ Last(Todo(a)) \in op[a].todo /\ Last(Todo(a)) \in Paths
         /\ op[a].pc = "undo" /\ Todo(a) # {} =>
              Last(Todo(a)) \in op[a].todo /\ Last(Todo(a)) \in Paths
<1>1. op[a] \in OpType /\ AgentOK(a) /\ SharedOK /\ op \in [Agents -> OpType]
  BY DEF IInv
<1>2. op[a].todo \in SUBSET Paths
  BY <1>1 DEF OpType
<1>3. op[a].todo # {} =>
        /\ First(op[a].todo) \in op[a].todo
        /\ Last(op[a].todo) \in op[a].todo
  BY <1>2, FirstIn, LastIn
<1>4. op[a].pc \in Visiting => op[a].todo # {}
  BY <1>1 DEF AgentOK
<1>5. QED
  BY <1>1, <1>2, <1>3, <1>4 DEF OpType, SharedOK, Next1, Todo

\* A step of an operation that has its snapshot and is not over.
LEMMA GoesOn ==
  ASSUME IInv, NEW a \in Agents,
         op[a].pc # "idle", op[a].pc \notin Uncaptured,
         op' \in [Agents -> OpType],
         \A b \in Agents \ {a} : op'[b] = op[b] /\ guarded'[b] = guarded[b],
         op'[a].pc \notin Uncaptured \cup {"idle", "acquire"},
         op'[a].edit = op[a].edit, op'[a].before = op[a].before,
         op'[a].todo \cup op'[a].mark \subseteq op[a].todo \cup op[a].mark,
         op'[a].pc \in Visiting => op'[a].todo # {},
         op'[a].pc \in {"request"} \cup RollingBack => op'[a].mark # {},
         op'[a].pc \in Guarded => op'[a].todo \cup op'[a].mark \subseteq guarded'[a],
         guarded'[a] # {} => op'[a].pc \in Guarded \cup {"record"},
         UNCHANGED <<targets, captured, snapshot>>,
         SharedOK',
         \A p \in Paths : file'[p] = file[p] \/ Owned(file'[p], p)
  PROVE  IInv'
<1>1. AgentOK(a)
  BY AgentFacts
<1>2. \A p \in Paths : Owned(op[a].before[p], p)'
  BY <1>1 DEF AgentOK, Owned
<1>3. AgentOK(a)'
  BY <1>1, <1>2 DEF AgentOK, Preparing, Uncaptured
<1>4. QED
  BY <1>3, StepKeeps

\* A step that ends one.
LEMMA Ends ==
  ASSUME IInv, NEW a \in Agents,
         op' = [op EXCEPT ![a] = IdleOp],
         guarded' = [guarded EXCEPT ![a] = {}],
         UNCHANGED <<targets, captured, snapshot>>,
         SharedOK',
         \A p \in Paths : file'[p] = file[p] \/ Owned(file'[p], p)
  PROVE  IInv'
<1>1. guarded'[a] = {} /\ \A b \in Agents \ {a} : guarded'[b] = guarded[b]
  BY AgentFacts
<1>2. /\ op' \in [Agents -> OpType]
      /\ \A b \in Agents \ {a} : op'[b] = op[b]
      /\ op'[a].pc = "idle"
      /\ AgentOK(a)'
  BY <1>1, IdleIsOK
<1>3. op'[a].pc \notin Uncaptured
  BY <1>2 DEF Uncaptured
<1>4. QED
  BY <1>1, <1>2, <1>3, StepKeeps

\* Finish ends an operation and reports on it.
LEMMA Finishes ==
  ASSUME IInv, NEW a \in Agents, NEW report \in Reports,
         op[a].pc # "idle", Finish(a, report),
         UNCHANGED <<file, targets, method, captured, snapshot, foreign, crashes>>,
         provenance' \in [Edits -> Outcomes]
  PROVE  IInv'
<1>1. SharedOK'
  BY AgentFacts DEF SharedOK, Finish, Locks!Release, AgentOK
<1>2. QED
  BY <1>1, Ends DEF Finish, Locks!Release

(***************************************************************************)
(* Preparation                                                             *)
(***************************************************************************)

\* A new transaction keeps the invariant: its id is in no snapshot yet.
LEMMA BeginKeeps ==
  ASSUME IInv, NEW a \in Agents, NEW e \in Edits, NEW S \in SUBSET Paths,
         NEW m \in {"patch", "line"}, Begin(a, e, S, m)
  PROVE  IInv'
<1>1. /\ op[a].pc = "idle" /\ targets[e] = {} /\ S # {}
      /\ targets' = [targets EXCEPT ![e] = S]
      /\ method' = [method EXCEPT ![e] = m]
      /\ status' = [status EXCEPT ![e] = "open"]
      /\ UNCHANGED <<file, guarded, captured, snapshot, provenance, foreign, crashes>>
  BY DEF Begin, At, durable, bounds
<1>2. /\ op' = [op EXCEPT ![a] = [IdleOp EXCEPT !.pc = "prepare", !.edit = e,
                                               !.todo = S]]
      /\ [IdleOp EXCEPT !.pc = "prepare", !.edit = e, !.todo = S] \in OpType
  BY DEF Begin, IdleOp, OpType, Phases, Preparing, Outcomes, Blank, Contents
<1>3. /\ op' \in [Agents -> OpType]
      /\ \A b \in Agents \ {a} : op'[b] = op[b]
      /\ op'[a].pc = "prepare" /\ op'[a].edit = e /\ op'[a].todo = S
      /\ op'[a].mark = {} /\ op'[a].before = Blank
  BY <1>2, AgentFacts DEF IdleOp
<1>4. SharedOK'
  BY <1>1, AgentFacts DEF SharedOK, Reports
<1>5. /\ \A f \in Edits : targets[f] # {} => targets'[f] = targets[f]
      /\ \A f \in Edits : targets[f] \subseteq targets'[f]
      /\ targets'[e] = S
      /\ e \notin captured
  BY <1>1, AgentFacts DEF SharedOK, IInv, Recoverable
<1>6. \A b \in Agents \ {a} : AgentOK(b)'
  BY <1>1, <1>3, <1>5, OthersKeep
<1>7. AgentOK(a)'
  <2>1. guarded[a] = {}
    BY <1>1, AgentFacts DEF AgentOK, Guarded, Committing, Undoing, RollingBack
  <2>2. \A p \in Paths : Owned(op[a].before[p], p)'
    BY <1>3 DEF Owned, Blank
  <2>3. QED
    BY <1>1, <1>3, <1>5, <2>1, <2>2 DEF AgentOK, Uncaptured, Visiting, Guarded,
       Committing, Undoing, RollingBack
<1>8. OwnEdits'
  <2>1. \A b \in Agents : op[b].pc \in Uncaptured => op[b].edit # e
    BY <1>1, AgentFacts DEF AgentOK, Uncaptured
  <2>2. QED
    BY <1>3, <2>1 DEF OwnEdits, IInv
<1>9. Recoverable'
  BY <1>1, <1>5 DEF Recoverable, IInv, Owned, SharedOK
<1>10. QED
  BY <1>3, <1>4, <1>6, <1>7, <1>8, <1>9 DEF IInv

\* Reading one file before the edit keeps it.
LEMMA PrepareKeeps ==
  ASSUME IInv, NEW a \in Agents, Prepare(a)
  PROVE  IInv'
<1> DEFINE p == Next1(a)
           phase == IF op[a].todo \ {p} = {} THEN "capture" ELSE "prepare"
           before == [op[a].before EXCEPT ![p] = file[p]]
<1>1. op[a].pc = "prepare" /\ UNCHANGED <<file, guarded, targets, method, captured,
        snapshot, provenance, status, foreign, crashes>>
  BY DEF Prepare, At, durable, bounds, spec
<1>2. p \in Paths /\ p \in op[a].todo
  BY <1>1, AgentFacts DEF Visiting
<1>3. before \in [Paths -> Contents]
  BY <1>2, AgentFacts DEF SharedOK
<1>4. /\ [op[a] EXCEPT !.before[p] = file[p], !.pc = phase, !.todo = @ \ {p}] \in OpType
      /\ op' = [op EXCEPT ![a] = [op[a] EXCEPT !.before[p] = file[p], !.pc = phase,
                                               !.todo = @ \ {p}]]
  <2>1. op[a] \in OpType /\ phase \in Phases
    BY DEF IInv, Phases, Preparing
  <2>2. QED
    BY <1>3, <2>1 DEF OpType, Prepare, Todo
<1>5. /\ op' \in [Agents -> OpType]
      /\ \A b \in Agents \ {a} : op'[b] = op[b]
      /\ op'[a].pc = phase /\ op'[a].edit = op[a].edit
      /\ op'[a].todo = op[a].todo \ {p}
      /\ op'[a].mark = op[a].mark /\ op'[a].before = before
  <2>1. op[a] \in OpType
    BY DEF IInv
  <2>2. QED
    BY <1>4, <2>1, AgentFacts DEF OpType
<1>6. SharedOK'
  BY <1>1, AgentFacts DEF SharedOK
<1>7. \A q \in Paths : Owned(op[a].before[q], q)'
  BY <1>1, <1>2, <1>5, AgentFacts DEF Owned, AgentOK, IInv, Recoverable
<1>8. AgentOK(a)'
  BY <1>1, <1>5, <1>7, AgentFacts DEF AgentOK, Uncaptured, Visiting, Guarded,
     Preparing, Committing, Undoing, RollingBack
<1>9. QED
  BY <1>1, <1>5, <1>6, <1>8, StepKeeps DEF Uncaptured

\* A refusal keeps it.
LEMMA RefuseKeeps ==
  ASSUME IInv, NEW a \in Agents, Refuse(a)
  PROVE  IInv'
<1>1. op[a].pc # "idle" /\ Finish(a, "refused") /\ "refused" \in Reports
  BY DEF Refuse, Preparing, Reports
<1>2. UNCHANGED <<file, targets, method, captured, snapshot, foreign, crashes>>
      /\ provenance' \in [Edits -> Outcomes]
  BY AgentFacts DEF Refuse, spec, durable, bounds, SharedOK
<1>3. QED
  BY <1>1, <1>2, Finishes

\* Publishing the snapshot keeps it: the content read does not carry the edit.
LEMMA CaptureKeeps ==
  ASSUME IInv, NEW a \in Agents, Capture(a)
  PROVE  IInv'
<1> DEFINE e == op[a].edit
<1>1. /\ op[a].pc = "capture"
      /\ captured' = captured \cup {e}
      /\ snapshot' = [snapshot EXCEPT ![e] = op[a].before]
      /\ op' = [op EXCEPT ![a].pc = "acquire", ![a].todo = targets[e]]
      /\ UNCHANGED <<file, guarded, targets, method, provenance, status, foreign, crashes>>
  BY DEF Capture, At, Edit, Move, spec, bounds
<1>2. e \in Edits /\ e \notin captured /\ targets[e] # {} /\ targets[e] \in SUBSET Paths
  BY <1>1, AgentFacts DEF AgentOK, Uncaptured, SharedOK
<1>3. /\ op' \in [Agents -> OpType]
      /\ \A b \in Agents \ {a} : op'[b] = op[b]
      /\ op'[a].pc = "acquire" /\ op'[a].todo = targets[e]
      /\ op'[a].edit = e /\ op'[a].mark = op[a].mark
      /\ op'[a].before = op[a].before
  BY <1>1, <1>2, AgentFacts, Moved DEF Phases, Preparing
<1>4. SharedOK'
  BY <1>1, <1>2, AgentFacts DEF SharedOK
<1>5. \A b \in Agents \ {a} : AgentOK(b)'
  BY <1>1, <1>3, OthersKeep DEF Uncaptured
<1>6. \A p \in Paths : Owned(op[a].before[p], p) /\ e \notin op[a].before[p]
  BY <1>2, AgentFacts DEF AgentOK, Owned
<1>7. AgentOK(a)'
  <2>1. \A p \in Paths : Owned(op[a].before[p], p)'
    BY <1>1, <1>3, <1>6 DEF Owned
  <2>2. QED
    BY <1>1, <1>2, <1>3, <2>1, AgentFacts DEF AgentOK, Uncaptured, Visiting, Guarded,
       Preparing, Committing, Undoing, RollingBack
<1>8. OwnEdits'
  BY <1>3 DEF OwnEdits, IInv, Uncaptured
<1>9. Recoverable'
  <2>1. \A c, p : Owned(c, p) => Owned(c, p)'
    BY <1>1 DEF Owned
  <2>2. /\ \A p \in Paths : Owned(file[p], p)'
        /\ \A f \in Edits : (f \in captured => targets[f] # {})'
    BY <1>1, <1>2, <2>1 DEF IInv, Recoverable
  <2>3. \A f \in Edits, p \in Paths :
          (Owned(snapshot[f][p], p) /\ f \notin snapshot[f][p])'
    <3>1. SUFFICES ASSUME NEW f \in Edits, NEW p \in Paths
                   PROVE  (Owned(snapshot[f][p], p) /\ f \notin snapshot[f][p])'
      OBVIOUS
    <3>2. snapshot'[f] = IF f = e THEN op[a].before ELSE snapshot[f]
      BY <1>1, AgentFacts DEF SharedOK
    <3>3. CASE f = e
      BY <1>1, <1>6, <3>2, <3>3 DEF Owned
    <3>4. CASE f # e
      BY <1>1, <3>2, <3>4 DEF IInv, Recoverable, Owned
    <3>5. QED
      BY <3>3, <3>4
  <2>4. QED
    BY <2>2, <2>3 DEF Recoverable
<1>10. QED
  BY <1>3, <1>4, <1>5, <1>7, <1>8, <1>9 DEF IInv

\* Taking the guard over the files of the edit keeps it.
LEMMA AcquireKeeps ==
  ASSUME IInv, NEW a \in Agents, Acquire(a)
  PROVE  IInv'
<1> DEFINE S == targets[op[a].edit]
<1>1. /\ op[a].pc = "acquire"
      /\ guarded' = [guarded EXCEPT ![a] = S]
      /\ op' = [op EXCEPT ![a].pc = "verify", ![a].todo = op[a].todo]
      /\ UNCHANGED <<file, targets, method, captured, snapshot, provenance,
                     status, foreign, crashes>>
  BY DEF Acquire, At, Edit, Move, Todo, Locks!Acquire, spec, durable, bounds
<1>2. S \in SUBSET Paths /\ op[a].todo = S /\ S # {} /\ op[a].mark = {}
  BY <1>1, AgentFacts DEF AgentOK, SharedOK, Preparing
<1>3. /\ op' \in [Agents -> OpType]
      /\ \A b \in Agents \ {a} : op'[b] = op[b]
      /\ op'[a].pc = "verify" /\ op'[a].todo = op[a].todo
      /\ op'[a].edit = op[a].edit /\ op'[a].mark = op[a].mark
      /\ op'[a].before = op[a].before
  BY <1>1, AgentFacts, Moved DEF Phases, Committing
<1>4. /\ guarded' \in [Agents -> SUBSET Paths] /\ guarded'[a] = S
      /\ \A b \in Agents \ {a} : guarded'[b] = guarded[b]
  BY <1>1, <1>2, AgentFacts, GuardSteps
<1>5. SharedOK'
  BY <1>1, <1>4, AgentFacts DEF SharedOK
<1>6. QED
  BY <1>1, <1>2, <1>3, <1>4, <1>5, GoesOn DEF Uncaptured, Guarded, Committing,
     Undoing, RollingBack, Visiting

(***************************************************************************)
(* Commit                                                                  *)
(***************************************************************************)

\* The guard covers the files of an agent that works under one.
LEMMA UnderGuard ==
  ASSUME IInv, NEW a \in Agents, op[a].pc \in Guarded
  PROVE  /\ op[a].pc \notin Uncaptured \cup {"idle", "acquire"}
         /\ op[a].todo \cup op[a].mark \subseteq guarded[a]
         /\ op[a].edit \in Edits /\ op[a].edit \in captured
         /\ op[a].todo \cup op[a].mark \subseteq targets[op[a].edit]
<1>1. op[a].pc \notin Uncaptured \cup {"idle", "acquire"}
  BY DEF Guarded, Committing, Undoing, RollingBack, Uncaptured
<1>2. QED
  BY <1>1, AgentFacts DEF AgentOK

\* A step under the guard that stays under it, on the agent's own files.
LEMMA Stays ==
  ASSUME IInv, NEW a \in Agents, op[a].pc \in Guarded,
         NEW phase \in Guarded, NEW todo \in SUBSET Paths,
         todo \subseteq op[a].todo \cup op[a].mark,
         phase # "undo" => todo # {},
         phase \in RollingBack => op[a].mark # {},
         op' = [op EXCEPT ![a].pc = phase, ![a].todo = todo],
         UNCHANGED <<guarded, targets, captured, snapshot>>,
         SharedOK',
         \A p \in Paths : file'[p] = file[p] \/ Owned(file'[p], p)
  PROVE  IInv'
<1>1. phase \in Phases
  BY DEF Guarded, Phases
<1>2. /\ op' \in [Agents -> OpType]
      /\ \A b \in Agents \ {a} : op'[b] = op[b]
      /\ op'[a].pc = phase /\ op'[a].todo = todo
      /\ op'[a].edit = op[a].edit /\ op'[a].mark = op[a].mark
      /\ op'[a].before = op[a].before
  BY <1>1, AgentFacts, Moved
<1>3. phase \notin Uncaptured \cup {"idle", "acquire", "request"}
  BY DEF Guarded, Committing, Undoing, RollingBack, Uncaptured
<1>4. phase \in Visiting => todo # {}
  BY DEF Visiting, Guarded, Committing, Undoing, RollingBack
<1>5. QED
  BY <1>2, <1>3, <1>4, UnderGuard, GoesOn

\* A file that does not commit.
LEMMA CommitFailsKeeps ==
  ASSUME IInv, NEW a \in Agents, op[a].pc \in Committing, CommitFails(a),
         UNCHANGED <<file, targets, method, captured, snapshot, provenance,
                     foreign, crashes>>
  PROVE  IInv'
<1>1. op[a].pc \in Guarded /\ op[a].pc # "idle"
  BY DEF Guarded, Committing
<1>2. CASE method[Edit(a)] = "patch"
  <2>1. /\ op' = [op EXCEPT ![a].pc = "undo", ![a].todo = op[a].mark]
        /\ UNCHANGED <<guarded, status>>
    BY <1>2 DEF CommitFails, Move, UndoTargets
  <2>2. SharedOK'
    BY <2>1, AgentFacts DEF SharedOK
  <2>3. "undo" \in Guarded /\ "undo" \notin RollingBack
    BY DEF Guarded, Undoing, RollingBack
  <2>4. QED
    BY <1>1, <2>1, <2>2, <2>3, AgentFacts, Stays
<1>3. CASE method[Edit(a)] = "line"
  <2>1. Finish(a, "failed") /\ "failed" \in Reports
    BY <1>3 DEF CommitFails, Reports
  <2>2. provenance' \in [Edits -> Outcomes]
    BY AgentFacts DEF SharedOK
  <2>3. QED
    BY <1>1, <2>1, <2>2, Finishes
<1>4. QED
  BY <1>2, <1>3 DEF CommitFails

\* Comparing the live content before the write keeps it.
LEMMA VerifyKeeps ==
  ASSUME IInv, NEW a \in Agents, Verify(a) \/ VerifyFails(a)
  PROVE  IInv'
<1>1. CASE Verify(a)
  <2>1. /\ op[a].pc = "verify"
        /\ op' = [op EXCEPT ![a].pc = "write", ![a].todo = op[a].todo]
        /\ UNCHANGED <<file, guarded, targets, method, captured, snapshot,
                       provenance, status, foreign, crashes>>
    BY <1>1 DEF Verify, At, Move, Todo, spec, durable, bounds
  <2>2. SharedOK'
    BY <2>1, AgentFacts DEF SharedOK
  <2>3. op[a].todo # {} /\ op[a].pc \in Guarded /\ "write" \in Guarded
    BY <2>1, AgentFacts DEF AgentOK, Visiting, Guarded, Committing
  <2>4. op[a].todo \in SUBSET Paths /\ "write" \notin RollingBack
    BY AgentFacts DEF RollingBack
  <2>5. QED
    BY <2>1, <2>2, <2>3, <2>4, Stays
<1>2. CASE VerifyFails(a)
  BY <1>2, CommitFailsKeeps DEF VerifyFails, At, Committing, spec, durable, bounds
<1>3. QED
  BY <1>1, <1>2

\* Writing a file keeps it: the snapshot of the edit is published.
LEMMA WriteKeeps ==
  ASSUME IInv, NEW a \in Agents, Write(a) \/ WriteFails(a)
  PROVE  IInv'
<1>1. CASE Write(a)
  <2> DEFINE p == Next1(a)
             text == op[a].before[p] \cup {op[a].edit}
  <2>1. /\ op[a].pc = "write"
        /\ file' = [file EXCEPT ![p] = text]
        /\ op' = [op EXCEPT ![a].pc = "check", ![a].todo = op[a].todo]
        /\ UNCHANGED <<guarded, targets, method, captured, snapshot,
                       provenance, status, foreign, crashes>>
    BY <1>1 DEF Write, At, Move, Todo, After, Before, Edit, spec, durable, bounds
  <2>2. /\ op[a].todo # {} /\ op[a].pc \in Guarded /\ "check" \in Guarded
        /\ p \in Paths /\ p \in op[a].todo
    BY <2>1, AgentFacts DEF AgentOK, Visiting, Guarded, Committing
  <2>3. op[a].edit \in Edits /\ op[a].edit \in captured /\ p \in targets[op[a].edit]
    BY <2>2, UnderGuard
  <2>4. Owned(text, p)
    BY <2>1, <2>2, <2>3, AgentFacts DEF AgentOK, Owned
  <2>5. SharedOK'
    <3>1. text \in Contents
      BY <2>2, <2>3, AgentFacts DEF Contents
    <3>2. QED
      BY <2>1, <2>2, <3>1, AgentFacts DEF SharedOK
  <2>6. \A q \in Paths : file'[q] = file[q] \/ Owned(file'[q], q)
    BY <2>1, <2>4, AgentFacts DEF SharedOK
  <2>7. op[a].todo \in SUBSET Paths /\ "check" \notin RollingBack
    BY AgentFacts DEF RollingBack
  <2>8. QED
    BY <2>1, <2>2, <2>5, <2>6, <2>7, Stays
<1>2. CASE WriteFails(a)
  BY <1>2, CommitFailsKeeps DEF WriteFails, At, Committing, spec, durable, bounds
<1>3. QED
  BY <1>1, <1>2

\* Reading a written file back keeps it, guard dropped or not.
LEMMA CheckKeeps ==
  ASSUME IInv, NEW a \in Agents, Check(a) \/ CheckFails(a)
  PROVE  IInv'
<1>1. CASE Check(a)
  <2> DEFINE p == Next1(a)
             rest == op[a].todo \ {p}
             mark == op[a].mark \cup {p}
  <2>1. /\ op[a].pc = "check"
        /\ UNCHANGED <<file, targets, method, captured, snapshot,
                       provenance, status, foreign, crashes>>
    BY <1>1 DEF Check, At, spec, durable, bounds
  <2>2. /\ op[a].pc \in Guarded /\ op[a].pc # "idle" /\ op[a].pc \notin Uncaptured
        /\ p \in Paths /\ p \in op[a].todo
        /\ op[a].todo \cup op[a].mark \subseteq guarded[a]
    <3>1. op[a].pc \in Guarded /\ op[a].pc \in Visiting
      BY <2>1 DEF Guarded, Committing, Visiting
    <3>2. QED
      BY <3>1, UnderGuard, AgentFacts
  <2>3. rest \in SUBSET Paths /\ mark \in SUBSET Paths
    BY <2>2, AgentFacts
  <2>4. ASSUME UNCHANGED guarded, NEW phase \in Phases, NEW todo \in SUBSET Paths,
               \/ (phase = "verify" /\ todo = rest /\ todo # {})
               \/ (phase = "record" /\ todo = {}),
               op' = [op EXCEPT ![a].pc = phase, ![a].todo = todo, ![a].mark = mark]
        PROVE  IInv'
    <3>1. /\ op' \in [Agents -> OpType]
          /\ \A b \in Agents \ {a} : op'[b] = op[b]
          /\ op'[a].pc = phase /\ op'[a].todo = todo /\ op'[a].mark = mark
          /\ op'[a].edit = op[a].edit /\ op'[a].before = op[a].before
      BY <2>3, <2>4, AgentFacts, MarkedAndMoved
    <3>2. SharedOK'
      BY <2>1, <2>4, AgentFacts DEF SharedOK
    <3>3. phase \notin Uncaptured \cup {"idle", "acquire", "request"} \cup RollingBack
      BY <2>4 DEF Uncaptured, RollingBack
    <3>4. phase \in Visiting => todo # {}
      BY <2>4 DEF Visiting, Committing, RollingBack
    <3>5. phase \in Guarded \cup {"record"}
      BY <2>4 DEF Guarded, Committing
    <3>6. todo \cup mark \subseteq op[a].todo \cup op[a].mark
      BY <2>2, <2>4
    <3>7. QED
      BY <2>1, <2>2, <2>4, <3>1, <3>2, <3>3, <3>4, <3>5, <3>6, GoesOn
  <2>5. CASE rest # {} /\ MarkAndMove(a, p, "verify", rest) /\ UNCHANGED guarded
    BY <2>3, <2>4, <2>5 DEF MarkAndMove, Phases, Committing
  <2>6. CASE MarkAndMove(a, p, "record", {}) /\ UNCHANGED guarded
    BY <2>4, <2>6 DEF MarkAndMove, Phases
  <2>7. CASE MarkAndMove(a, p, "semantic", {p}) /\ Locks!Release(a)
    <3>1. /\ op' \in [Agents -> OpType]
          /\ \A b \in Agents \ {a} : op'[b] = op[b]
          /\ op'[a].pc = "semantic" /\ op'[a].todo = {p} /\ op'[a].mark = mark
          /\ op'[a].edit = op[a].edit /\ op'[a].before = op[a].before
      BY <2>2, <2>3, <2>7, AgentFacts, MarkedAndMoved DEF MarkAndMove, Phases
    <3>2. /\ guarded' \in [Agents -> SUBSET Paths] /\ guarded'[a] = {}
          /\ \A b \in Agents \ {a} : guarded'[b] = guarded[b]
      BY <2>7, AgentFacts, GuardSteps DEF Locks!Release
    <3>3. SharedOK'
      BY <2>1, <3>2, AgentFacts DEF SharedOK
    <3>4. QED
      BY <2>1, <2>2, <3>1, <3>2, <3>3, GoesOn DEF Uncaptured, Guarded, Committing,
         Undoing, RollingBack
  <2>8. QED
    BY <1>1, <2>5, <2>6, <2>7 DEF Check, Todo
<1>2. CASE CheckFails(a)
  BY <1>2, CommitFailsKeeps DEF CheckFails, At, Committing, spec, durable, bounds
<1>3. QED
  BY <1>1, <1>2

\* The look at the file after commit_verified keeps it.
LEMMA SemanticKeeps ==
  ASSUME IInv, NEW a \in Agents, Semantic(a) \/ SemanticFails(a)
  PROVE  IInv'
<1>1. op[a].pc = "semantic" /\ op[a].pc \notin Uncaptured /\ op[a].pc # "idle"
  BY DEF Semantic, SemanticFails, At, Uncaptured
<1>2. CASE Semantic(a)
  <2>1. /\ op' = [op EXCEPT ![a].pc = "record", ![a].todo = {}]
        /\ UNCHANGED <<file, guarded, targets, method, captured, snapshot,
                       provenance, status, foreign, crashes>>
    BY <1>2 DEF Semantic, Move, spec, durable, bounds
  <2>2. /\ op' \in [Agents -> OpType]
        /\ \A b \in Agents \ {a} : op'[b] = op[b]
        /\ op'[a].pc = "record" /\ op'[a].todo = {}
        /\ op'[a].edit = op[a].edit /\ op'[a].mark = op[a].mark
        /\ op'[a].before = op[a].before
    <3>1. "record" \in Phases /\ {} \in SUBSET Paths /\ op \in [Agents -> OpType]
      BY AgentFacts DEF Phases
    <3>2. QED
      BY <2>1, <3>1, Moved
  <2>3. SharedOK'
    BY <2>1, AgentFacts DEF SharedOK
  <2>4. QED
    BY <1>1, <2>1, <2>2, <2>3, GoesOn DEF Uncaptured, Guarded, Committing,
       Undoing, RollingBack, Visiting
<1>3. CASE SemanticFails(a)
  <2>1. Finish(a, "failed") /\ "failed" \in Reports
    BY <1>3 DEF SemanticFails, Reports
  <2>2. UNCHANGED <<file, targets, method, captured, snapshot, foreign, crashes>>
        /\ provenance' \in [Edits -> Outcomes]
    BY <1>3, AgentFacts DEF SemanticFails, SharedOK, spec, durable, bounds
  <2>3. QED
    BY <1>1, <2>1, <2>2, Finishes
<1>4. QED
  BY <1>2, <1>3

\* Recording the edit keeps it.
LEMMA RecordKeeps ==
  ASSUME IInv, NEW a \in Agents, Record(a)
  PROVE  IInv'
<1>1. op[a].pc # "idle" /\ Finish(a, "committed") /\ "committed" \in Reports
  BY DEF Record, At, Reports
<1>2. UNCHANGED <<file, targets, method, captured, snapshot, foreign, crashes>>
  BY DEF Record, spec, bounds
<1>3. provenance' \in [Edits -> Outcomes]
  BY AgentFacts DEF Record, SharedOK, Outcomes
<1>4. QED
  BY <1>1, <1>2, <1>3, Finishes

(***************************************************************************)
(* attempt_rollback                                                        *)
(***************************************************************************)

\* An undone file is done with.
LEMMA UndoNextKeeps ==
  ASSUME IInv, NEW a \in Agents, op[a].pc \in Undoing,
         NEW restored \in BOOLEAN, UndoNext(a, restored),
         UNCHANGED <<file, guarded, targets, captured, snapshot>>, SharedOK'
  PROVE  IInv'
<1> DEFINE rest == op[a].todo \ {Last(op[a].todo)}
           clean == op[a].clean /\ restored
<1>1. op[a] \in OpType /\ op[a].pc \in Guarded
  BY DEF IInv, Guarded
<1>2. op' = [op EXCEPT ![a] = [op[a] EXCEPT !.pc = "undo", !.todo = rest,
                                            !.clean = clean]]
  BY AgentFacts DEF UndoNext
<1>3. clean \in BOOLEAN
  BY <1>1 DEF OpType
<1>4. [op[a] EXCEPT !.pc = "undo", !.todo = rest, !.clean = clean] \in OpType
  BY <1>1, <1>3 DEF OpType, Phases, Undoing
<1>5. /\ op' \in [Agents -> OpType]
      /\ \A b \in Agents \ {a} : op'[b] = op[b]
      /\ op'[a].pc = "undo" /\ op'[a].todo = rest /\ op'[a].mark = op[a].mark
      /\ op'[a].edit = op[a].edit /\ op'[a].before = op[a].before
  BY <1>1, <1>2, <1>4, AgentFacts DEF OpType
<1>6. "undo" \notin Uncaptured \cup {"idle", "acquire", "request"}
                   \cup RollingBack \cup Visiting
      /\ "undo" \in Guarded
  BY DEF Uncaptured, RollingBack, Visiting, Committing, Guarded, Undoing
<1>7. rest \subseteq op[a].todo
  OBVIOUS
<1>8. QED
  BY <1>1, <1>5, <1>6, <1>7, UnderGuard, GoesOn

\* A file an undo or a rollback restores carries recoverable edits only.
LEMMA RestoredFile ==
  ASSUME IInv, NEW a \in Agents, NEW p \in Paths,
         file' = [file EXCEPT ![p] = Before(a, p)],
         UNCHANGED <<targets, method, captured, snapshot, provenance,
                     status, foreign, crashes>>,
         guarded' \in [Agents -> SUBSET Paths]
  PROVE  /\ SharedOK'
         /\ \A q \in Paths : file'[q] = file[q] \/ Owned(file'[q], q)
<1>1. op[a].before[p] \in Contents /\ Owned(op[a].before[p], p)
  BY AgentFacts DEF AgentOK
<1>2. SharedOK'
  BY <1>1, AgentFacts DEF SharedOK, Before
<1>3. QED
  BY <1>1, <1>2, AgentFacts DEF SharedOK, Before

\* Looking at a file to undo keeps it.
LEMMA UndoKeeps ==
  ASSUME IInv, NEW a \in Agents, Undo(a)
  PROVE  IInv'
<1>1. /\ op[a].pc = "undo" /\ op[a].todo # {}
      /\ UNCHANGED <<file, guarded, targets, method, captured, snapshot,
                     provenance, status, foreign, crashes>>
  BY DEF Undo, At, Todo, spec, durable, bounds
<1>2. SharedOK'
  BY <1>1, AgentFacts DEF SharedOK
<1>3. op[a].pc \in Undoing /\ op[a].pc \in Guarded
  BY <1>1 DEF Undoing, Guarded
<1>4. CASE Move(a, "restore", Todo(a))
  <2>1. op' = [op EXCEPT ![a].pc = "restore", ![a].todo = op[a].todo]
    BY <1>4 DEF Move, Todo
  <2>2. op[a].todo \in SUBSET Paths /\ "restore" \in Guarded /\ "restore" \notin RollingBack
    BY AgentFacts DEF Guarded, Undoing, RollingBack
  <2>3. QED
    BY <1>1, <1>2, <1>3, <2>1, <2>2, Stays
<1>5. CASE UndoNext(a, FALSE)
  BY <1>1, <1>2, <1>3, <1>5, UndoNextKeeps
<1>6. QED
  BY <1>4, <1>5 DEF Undo

\* Restoring a committed file keeps it.
LEMMA RestoreKeeps ==
  ASSUME IInv, NEW a \in Agents, Restore(a)
  PROVE  IInv'
<1> DEFINE p == Last(Todo(a))
<1>1. /\ op[a].pc = "restore"
      /\ UNCHANGED <<guarded, targets, method, captured, snapshot,
                     provenance, status, foreign, crashes>>
  BY DEF Restore, At, spec, durable, bounds
<1>2. /\ op[a].pc \in Undoing /\ op[a].pc \in Guarded
      /\ op[a].todo # {} /\ op[a].todo \in SUBSET Paths /\ p \in Paths
  BY <1>1, AgentFacts DEF Undoing, Guarded, Visiting, AgentOK
<1>3. CASE file' = [file EXCEPT ![p] = Before(a, p)] /\ Move(a, "confirm", Todo(a))
  <2>1. op' = [op EXCEPT ![a].pc = "confirm", ![a].todo = op[a].todo]
    BY <1>3 DEF Move, Todo
  <2>2. "confirm" \in Guarded /\ "confirm" \notin RollingBack
    BY DEF Guarded, Undoing, RollingBack
  <2>3. SharedOK' /\ \A q \in Paths : file'[q] = file[q] \/ Owned(file'[q], q)
    BY <1>1, <1>2, <1>3, AgentFacts, RestoredFile
  <2>4. QED
    BY <1>1, <1>2, <2>1, <2>2, <2>3, Stays
<1>4. CASE UndoNext(a, FALSE) /\ UNCHANGED file
  <2>1. SharedOK'
    BY <1>1, <1>4, AgentFacts DEF SharedOK
  <2>2. QED
    BY <1>1, <1>2, <1>4, <2>1, UndoNextKeeps
<1>5. QED
  BY <1>3, <1>4 DEF Restore

\* Reading it back keeps it.
LEMMA ConfirmKeeps ==
  ASSUME IInv, NEW a \in Agents, Confirm(a)
  PROVE  IInv'
<1>1. /\ op[a].pc \in Undoing
      /\ UNCHANGED <<file, guarded, targets, method, captured, snapshot,
                     provenance, status, foreign, crashes>>
  BY DEF Confirm, At, Undoing, spec, durable, bounds
<1>2. SharedOK'
  BY <1>1, AgentFacts DEF SharedOK
<1>3. UndoNext(a, TRUE) \/ UndoNext(a, FALSE)
  BY DEF Confirm
<1>4. QED
  BY <1>1, <1>2, <1>3, UndoNextKeeps

\* The end of the undo keeps it.
LEMMA UndoDoneKeeps ==
  ASSUME IInv, NEW a \in Agents, UndoDone(a)
  PROVE  IInv'
<1>1. /\ op[a].pc # "idle"
      /\ UNCHANGED <<file, targets, method, captured, snapshot, foreign, crashes>>
      /\ provenance' \in [Edits -> Outcomes]
  BY AgentFacts DEF UndoDone, At, SharedOK, spec, durable, bounds
<1>2. PICK report \in Reports : Finish(a, report)
  BY DEF UndoDone, Reports
<1>3. QED
  BY <1>1, <1>2, Finishes

(***************************************************************************)
(* rollback_edit                                                           *)
(***************************************************************************)

\* Resolving an edit id to its published snapshot keeps it.
LEMMA StartRollbackKeeps ==
  ASSUME IInv, NEW a \in Agents, NEW e \in Edits, StartRollback(a, e)
  PROVE  IInv'
<1> DEFINE r == [IdleOp EXCEPT !.pc = "triage", !.edit = e, !.todo = targets[e],
                               !.before = snapshot[e]]
<1>1. /\ op[a].pc = "idle" /\ e \in captured /\ op' = [op EXCEPT ![a] = r]
      /\ UNCHANGED <<file, guarded, targets, method, captured, snapshot,
                     provenance, status, foreign, crashes>>
  BY DEF StartRollback, At, spec, durable, bounds
<1>2. targets[e] # {} /\ targets[e] \in SUBSET Paths
      /\ snapshot[e] \in [Paths -> Contents]
      /\ \A p \in Paths : Owned(snapshot[e][p], p)
  BY <1>1, AgentFacts DEF SharedOK, IInv, Recoverable
<1>3. r \in OpType
  BY <1>2 DEF IdleOp, OpType, Phases, Outcomes
<1>4. /\ op' \in [Agents -> OpType]
      /\ \A b \in Agents \ {a} : op'[b] = op[b]
      /\ op'[a].pc = "triage" /\ op'[a].edit = e /\ op'[a].todo = targets[e]
      /\ op'[a].mark = {} /\ op'[a].before = snapshot[e]
  BY <1>1, <1>3, AgentFacts DEF IdleOp
<1>5. SharedOK'
  BY <1>1, AgentFacts DEF SharedOK
<1>6. AgentOK(a)'
  <2>1. guarded[a] = {}
    BY <1>1, AgentFacts DEF AgentOK, Guarded, Committing, Undoing, RollingBack
  <2>2. \A p \in Paths : Owned(op[a].before[p], p)'
    BY <1>1, <1>2, <1>4 DEF Owned
  <2>3. QED
    BY <1>1, <1>2, <1>4, <2>1, <2>2 DEF AgentOK, Uncaptured, Preparing, Guarded,
       Committing, Undoing, RollingBack
<1>7. op'[a].pc \notin Uncaptured
  BY <1>4 DEF Uncaptured
<1>8. QED
  BY <1>1, <1>4, <1>5, <1>6, <1>7, StepKeeps

\* The rollback has its outcome, and no guard any more.
LEMMA ConcludeKeeps ==
  ASSUME IInv, NEW a \in Agents, NEW outcome \in Outcomes,
         op[a].pc # "idle", op[a].pc \notin Uncaptured,
         Conclude(a, outcome),
         guarded'[a] = {}, \A b \in Agents \ {a} : guarded'[b] = guarded[b],
         UNCHANGED <<targets, captured, snapshot>>, SharedOK',
         \A p \in Paths : file'[p] = file[p] \/ Owned(file'[p], p)
  PROVE  IInv'
<1> DEFINE r == [op[a] EXCEPT !.pc = "correlate", !.todo = {}, !.mark = {},
                              !.outcome = outcome]
<1>1. op[a] \in OpType /\ op' = [op EXCEPT ![a] = r]
  BY DEF IInv, Conclude
<1>2. r \in OpType
  BY <1>1 DEF OpType, Phases
<1>3. /\ op' \in [Agents -> OpType]
      /\ \A b \in Agents \ {a} : op'[b] = op[b]
      /\ op'[a].pc = "correlate" /\ op'[a].todo = {} /\ op'[a].mark = {}
      /\ op'[a].edit = op[a].edit /\ op'[a].before = op[a].before
  BY <1>1, <1>2, AgentFacts DEF OpType
<1>4. "correlate" \notin Uncaptured \cup {"idle", "acquire", "request"}
                       \cup RollingBack \cup Visiting \cup Guarded
  BY DEF Uncaptured, RollingBack, Visiting, Committing, Guarded, Undoing
<1>5. QED
  BY <1>3, <1>4, GoesOn

\* Sorting out a target of a rollback keeps it.
LEMMA TriageKeeps ==
  ASSUME IInv, NEW a \in Agents, Triage(a)
  PROVE  IInv'
<1> DEFINE p == Next1(a)
           rest == op[a].todo \ {p}
<1>1. /\ op[a].pc = "triage"
      /\ UNCHANGED <<file, guarded, targets, method, captured, snapshot,
                     provenance, status, foreign, crashes>>
  BY DEF Triage, At, spec, durable, bounds
<1>2. /\ op[a].pc # "idle" /\ op[a].pc \notin Uncaptured /\ guarded[a] = {}
      /\ p \in op[a].todo /\ p \in Paths
  BY <1>1, AgentFacts DEF Uncaptured, AgentOK, Guarded, Committing, Undoing,
     RollingBack, Visiting
<1>3. SharedOK'
  BY <1>1, AgentFacts DEF SharedOK
<1>4. ASSUME NEW outcome \in Outcomes, Conclude(a, outcome)
      PROVE  IInv'
  BY <1>1, <1>2, <1>3, <1>4, ConcludeKeeps
<1>5. ASSUME NEW marked \in BOOLEAN, TriageTo(a, p, marked)
      PROVE  IInv'
  <2> DEFINE pending == IF marked THEN op[a].mark \cup {p} ELSE op[a].mark
             phase == IF rest = {} THEN "request" ELSE "triage"
  <2>1. CASE rest = {} /\ pending = {}
    <3>1. Conclude(a, "already") /\ "already" \in Outcomes
      BY <1>5, <2>1 DEF TriageTo, Todo, Outcomes
    <3>2. QED
      BY <1>4, <3>1
  <2>2. CASE ~(rest = {} /\ pending = {})
    <3>1. op' = [op EXCEPT ![a].pc = phase, ![a].todo = rest, ![a].mark = pending]
      BY <1>5, <2>2 DEF TriageTo, Todo
    <3>2. phase \in Phases /\ rest \in SUBSET Paths /\ pending \in SUBSET Paths
      BY <1>2, AgentFacts DEF Phases
    <3>3. /\ op' \in [Agents -> OpType]
          /\ \A b \in Agents \ {a} : op'[b] = op[b]
          /\ op'[a].pc = phase /\ op'[a].todo = rest /\ op'[a].mark = pending
          /\ op'[a].edit = op[a].edit /\ op'[a].before = op[a].before
      <4> HIDE DEF phase, rest, pending
      <4> QED
        BY <3>1, <3>2, AgentFacts, MarkedAndMoved
    <3>4. /\ phase \notin Uncaptured \cup {"idle", "acquire"} \cup RollingBack \cup Guarded
          /\ phase \in Visiting => rest # {}
          /\ phase = "request" => pending # {}
      BY <2>2 DEF Uncaptured, RollingBack, Visiting, Committing, Guarded, Undoing
    <3>5. rest \cup pending \subseteq op[a].todo \cup op[a].mark
      BY <1>2
    <3>6. QED
      BY <1>1, <1>2, <1>3, <3>3, <3>4, <3>5, GoesOn
  <2>3. QED
    BY <2>1, <2>2
<1>6. "conflict" \in Outcomes
  BY DEF Outcomes
<1>7. QED
  BY <1>4, <1>5, <1>6 DEF Triage

\* Taking the rollback's guard over the pending files keeps it.
LEMMA RequestKeeps ==
  ASSUME IInv, NEW a \in Agents, Request(a)
  PROVE  IInv'
<1> DEFINE S == op[a].mark
<1>1. /\ op[a].pc = "request"
      /\ guarded' = [guarded EXCEPT ![a] = S]
      /\ op' = [op EXCEPT ![a].pc = "recheck", ![a].todo = S]
      /\ UNCHANGED <<file, targets, method, captured, snapshot, provenance,
                     status, foreign, crashes>>
  BY DEF Request, At, Move, Locks!Acquire, spec, durable, bounds
<1>2. S \in SUBSET Paths /\ S # {}
  BY <1>1, AgentFacts DEF AgentOK
<1>3. /\ op' \in [Agents -> OpType]
      /\ \A b \in Agents \ {a} : op'[b] = op[b]
      /\ op'[a].pc = "recheck" /\ op'[a].todo = S
      /\ op'[a].edit = op[a].edit /\ op'[a].mark = S
      /\ op'[a].before = op[a].before
  BY <1>1, <1>2, AgentFacts, Moved DEF Phases, RollingBack
<1>4. /\ guarded' \in [Agents -> SUBSET Paths] /\ guarded'[a] = S
      /\ \A b \in Agents \ {a} : guarded'[b] = guarded[b]
  BY <1>1, <1>2, AgentFacts, GuardSteps
<1>5. SharedOK'
  BY <1>1, <1>4, AgentFacts DEF SharedOK
<1>6. op[a].pc \notin Uncaptured
      /\ "recheck" \notin Uncaptured \cup {"idle", "acquire"} /\ "recheck" \in Guarded
  BY <1>1 DEF Uncaptured, Guarded, RollingBack
<1>7. QED
  BY <1>1, <1>2, <1>3, <1>4, <1>5, <1>6, GoesOn

\* A rollback that errs keeps it.
LEMMA RollbackErrsKeeps ==
  ASSUME IInv, NEW a \in Agents, RollbackErrs(a)
  PROVE  IInv'
<1>1. /\ op' = [op EXCEPT ![a] = IdleOp]
      /\ guarded' = [guarded EXCEPT ![a] = {}]
      /\ UNCHANGED <<file, targets, method, captured, snapshot, provenance,
                     status, foreign, crashes>>
  BY DEF RollbackErrs, Locks!Release, spec, durable, bounds
<1>2. SharedOK'
  BY <1>1, AgentFacts DEF SharedOK
<1>3. QED
  BY <1>1, <1>2, Ends

\* What a rollback under its guard may assume when it lets go of it.
LEMMA LetGo ==
  ASSUME IInv, NEW a \in Agents, NEW outcome \in Outcomes,
         op[a].pc \in RollingBack, Conclude(a, outcome), Locks!Release(a),
         UNCHANGED <<file, targets, method, captured, snapshot, provenance,
                     status, foreign, crashes>>
  PROVE  IInv'
<1>1. /\ guarded' \in [Agents -> SUBSET Paths] /\ guarded'[a] = {}
      /\ \A b \in Agents \ {a} : guarded'[b] = guarded[b]
  BY AgentFacts, GuardSteps DEF Locks!Release
<1>2. SharedOK'
  BY <1>1, AgentFacts DEF SharedOK
<1>3. op[a].pc # "idle" /\ op[a].pc \notin Uncaptured
  BY DEF RollingBack, Uncaptured
<1>4. QED
  BY <1>1, <1>2, <1>3, ConcludeKeeps

\* A rollback goes on under its guard without writing.
LEMMA RollsOn ==
  ASSUME IInv, NEW a \in Agents, op[a].pc \in RollingBack,
         NEW phase \in RollingBack, NEW todo \in SUBSET Paths, todo # {},
         todo \subseteq op[a].todo \cup op[a].mark, Move(a, phase, todo),
         UNCHANGED <<file, guarded, targets, method, captured, snapshot, provenance,
                     status, foreign, crashes>>
  PROVE  IInv'
<1>1. SharedOK'
  BY AgentFacts DEF SharedOK
<1>2. op[a].pc \in Guarded /\ phase \in Guarded /\ op[a].mark # {}
  BY AgentFacts DEF Guarded, AgentOK
<1>3. op' = [op EXCEPT ![a].pc = phase, ![a].todo = todo]
  BY DEF Move
<1>4. QED
  BY <1>1, <1>2, <1>3, Stays

\* Looking at a pending file under the guard keeps it.
LEMMA RecheckKeeps ==
  ASSUME IInv, NEW a \in Agents, Recheck(a)
  PROVE  IInv'
<1> DEFINE p == Next1(a)
           rest == op[a].todo \ {p}
<1>1. /\ op[a].pc \in RollingBack
      /\ UNCHANGED <<file, targets, method, captured, snapshot,
                     provenance, status, foreign, crashes>>
  BY DEF Recheck, At, spec, durable, bounds, RollingBack
<1>2. op[a].mark # {} /\ op[a].mark \in SUBSET Paths /\ rest \in SUBSET Paths
      /\ rest \subseteq op[a].todo
  BY <1>1, AgentFacts DEF AgentOK
<1>3. "putback" \in RollingBack /\ "recheck" \in RollingBack /\ "conflict" \in Outcomes
  BY DEF RollingBack, Outcomes
<1>4. CASE rest = {} /\ Move(a, "putback", op[a].mark) /\ UNCHANGED guarded
  BY <1>1, <1>2, <1>3, <1>4, RollsOn
<1>5. CASE rest # {} /\ Move(a, "recheck", rest) /\ UNCHANGED guarded
  BY <1>1, <1>2, <1>3, <1>5, RollsOn
<1>6. CASE Conclude(a, "conflict") /\ Locks!Release(a)
  BY <1>1, <1>3, <1>6, LetGo
<1>7. QED
  BY <1>4, <1>5, <1>6 DEF Recheck, Todo

\* Putting a file back keeps it.
LEMMA PutBackKeeps ==
  ASSUME IInv, NEW a \in Agents, PutBack(a)
  PROVE  IInv'
<1> DEFINE p == Last(Todo(a))
<1>1. /\ op[a].pc = "putback" /\ op[a].pc \in RollingBack /\ op[a].pc \in Guarded
      /\ UNCHANGED <<targets, method, captured, snapshot,
                     provenance, status, foreign, crashes>>
  BY DEF PutBack, At, spec, durable, bounds, RollingBack, Guarded
<1>2. /\ op[a].todo # {} /\ op[a].todo \in SUBSET Paths /\ p \in Paths
      /\ op[a].mark # {}
  BY <1>1, AgentFacts DEF AgentOK, Visiting
<1>3. "reread" \in Guarded /\ "failed" \in Outcomes
  BY DEF Guarded, RollingBack, Outcomes
<1>4. CASE file' = [file EXCEPT ![p] = Before(a, p)] /\ Move(a, "reread", Todo(a))
             /\ UNCHANGED guarded
  <2>1. op' = [op EXCEPT ![a].pc = "reread", ![a].todo = op[a].todo]
    BY <1>4 DEF Move, Todo
  <2>2. SharedOK' /\ \A q \in Paths : file'[q] = file[q] \/ Owned(file'[q], q)
    BY <1>1, <1>2, <1>4, AgentFacts, RestoredFile
  <2>3. QED
    BY <1>1, <1>2, <1>3, <1>4, <2>1, <2>2, Stays
<1>5. CASE Conclude(a, "failed") /\ Locks!Release(a) /\ UNCHANGED file
  BY <1>1, <1>3, <1>5, LetGo
<1>6. QED
  BY <1>4, <1>5 DEF PutBack

\* Reading it back keeps it.
LEMMA RereadKeeps ==
  ASSUME IInv, NEW a \in Agents, Reread(a)
  PROVE  IInv'
<1> DEFINE rest == op[a].todo \ {Last(op[a].todo)}
<1>1. /\ op[a].pc \in RollingBack
      /\ UNCHANGED <<file, targets, method, captured, snapshot,
                     provenance, status, foreign, crashes>>
  BY DEF Reread, At, spec, durable, bounds, RollingBack
<1>2. rest \in SUBSET Paths /\ rest \subseteq op[a].todo /\ op[a].mark # {}
  BY <1>1, AgentFacts DEF AgentOK
<1>3. "putback" \in RollingBack /\ "failed" \in Outcomes /\ "restored" \in Outcomes
  BY DEF RollingBack, Outcomes
<1>4. CASE rest # {} /\ Move(a, "putback", rest) /\ UNCHANGED guarded
  BY <1>1, <1>2, <1>3, <1>4, RollsOn
<1>5. CASE Conclude(a, "restored") /\ Locks!Release(a)
  BY <1>1, <1>3, <1>5, LetGo
<1>6. CASE Conclude(a, "failed") /\ Locks!Release(a)
  BY <1>1, <1>3, <1>6, LetGo
<1>7. QED
  BY <1>4, <1>5, <1>6 DEF Reread, Todo

\* Reading the record of a rolled back edit, and writing the outcome into it,
\* keeps it.
LEMMA CorrelateKeeps ==
  ASSUME IInv, NEW a \in Agents, Correlate(a) \/ ReplaceOutcome(a)
  PROVE  IInv'
<1>1. /\ op[a].pc \in {"correlate", "replace"} /\ op[a].pc # "idle"
      /\ op[a].pc \notin Uncaptured
      /\ UNCHANGED <<file, guarded, targets, method, captured, snapshot,
                     status, foreign, crashes>>
  BY DEF Correlate, ReplaceOutcome, At, Uncaptured, spec, durable, bounds
<1>2. guarded' = [guarded EXCEPT ![a] = {}]
  <2>1. guarded[a] = {}
    BY <1>1, AgentFacts DEF AgentOK, Guarded, Committing, Undoing, RollingBack
  <2>2. QED
    BY <1>1, <2>1, AgentFacts
<1>3. SharedOK'
  <2>1. op[a].outcome \in Outcomes
    BY DEF IInv, OpType
  <2>2. provenance' \in [Edits -> Outcomes]
    BY <2>1, AgentFacts DEF Correlate, ReplaceOutcome, durable, SharedOK
  <2>3. QED
    BY <1>1, <2>2, AgentFacts DEF SharedOK
<1>4. CASE op' = [op EXCEPT ![a] = IdleOp]
  BY <1>1, <1>2, <1>3, <1>4, Ends
<1>5. CASE op' = [op EXCEPT ![a].pc = "replace", ![a].todo = {}]
  <2>1. /\ op' \in [Agents -> OpType]
        /\ \A b \in Agents \ {a} : op'[b] = op[b]
        /\ op'[a].pc = "replace" /\ op'[a].todo = {}
        /\ op'[a].edit = op[a].edit /\ op'[a].mark = op[a].mark
        /\ op'[a].before = op[a].before
    <3>1. "replace" \in Phases /\ {} \in SUBSET Paths /\ op \in [Agents -> OpType]
      BY AgentFacts DEF Phases
    <3>2. QED
      BY <1>5, <3>1, Moved
  <2>2. guarded'[a] = {} /\ \A b \in Agents \ {a} : guarded'[b] = guarded[b]
    BY <1>1, <1>2, AgentFacts
  <2>3. QED
    BY <1>1, <1>3, <2>1, <2>2, GoesOn DEF Uncaptured, Guarded, Committing,
       Undoing, RollingBack, Visiting
<1>6. QED
  BY <1>4, <1>5 DEF Correlate, ReplaceOutcome, Move

(***************************************************************************)
(* Plain writes, crashes                                                   *)
(***************************************************************************)

\* A file that changes hands outside every edit carries none.
LEMMA PlainWrite ==
  ASSUME IInv, NEW p \in Paths, NEW text \in Texts,
         file' = [file EXCEPT ![p] = text],
         UNCHANGED <<guarded, op, targets, method, captured, snapshot, provenance,
                     status, crashes>>,
         foreign' \in 0..MaxForeign
  PROVE  IInv'
<1>1. text \in Contents /\ \A e \in Edits : e \notin text
  BY EditAssumption DEF Texts, Absent, Contents
<1>2. SharedOK'
  BY <1>1 DEF IInv, SharedOK
<1>3. \A a \in Agents : AgentOK(a)'
  BY DEF IInv, AgentOK, Owned
<1>4. OwnEdits'
  BY DEF IInv, OwnEdits
<1>5. Recoverable'
  <2>1. \A q \in Paths : Owned(file[q], q)'
    BY <1>1 DEF IInv, SharedOK, Recoverable, Owned
  <2>2. QED
    BY <2>1 DEF IInv, Recoverable, Owned
<1>6. QED
  BY <1>2, <1>3, <1>4, <1>5 DEF IInv

\* A killed process keeps it.
LEMMA CrashKeeps ==
  ASSUME IInv, NEW a \in Agents, Crash(a)
  PROVE  IInv'
<1>1. /\ op[a].pc # "idle" /\ crashes < MaxCrashes /\ crashes' = crashes + 1
      /\ op' = [op EXCEPT ![a] = IdleOp]
      /\ guarded' = [guarded EXCEPT ![a] = {}]
      /\ UNCHANGED <<file, targets, method, captured, snapshot, provenance, foreign>>
  BY DEF Crash, At, Locks!Release, spec, durable
<1>2. crashes' \in 0..MaxCrashes
  BY <1>1, AgentFacts, EditAssumption DEF SharedOK
<1>3. status' \in [Edits -> Reports]
  BY AgentFacts DEF Crash, SharedOK, Reports
<1>4. SharedOK'
  BY <1>1, <1>2, <1>3, AgentFacts DEF SharedOK
<1>5. QED
  BY <1>1, <1>4, Ends

(***************************************************************************)
(* The theorems                                                            *)
(***************************************************************************)

\* The inductive invariant holds in every reachable state.
LEMMA InvariantHolds == Spec => []IInv
<1>1. Init => IInv
  <2>1. SUFFICES ASSUME Init PROVE IInv
    OBVIOUS
  <2>2. IdleOp \in OpType
    BY DEF IdleOp, OpType, Phases, Outcomes, Blank, Contents
  <2>3. op \in [Agents -> OpType] /\ \A a \in Agents : op[a] = IdleOp
    BY <2>1, <2>2 DEF Init
  <2>4. SharedOK
    BY <2>1, EditAssumption DEF Init, SharedOK, Texts, Absent, Contents, Outcomes,
       Reports, Blank
  <2>5. \A a \in Agents : AgentOK(a)
    <3>1. SUFFICES ASSUME NEW a \in Agents PROVE AgentOK(a)
      OBVIOUS
    <3>2. op[a].pc = "idle" /\ op[a].before = Blank /\ guarded[a] = {}
      BY <2>1, <2>3 DEF Init, IdleOp
    <3>3. \A p \in Paths : Owned(op[a].before[p], p)
      BY <3>2 DEF Blank, Owned
    <3>4. QED
      BY <3>2, <3>3 DEF AgentOK, Preparing, Visiting, Guarded, RollingBack,
         Committing, Undoing
  <2>6. OwnEdits
    BY <2>3 DEF OwnEdits, IdleOp, Uncaptured
  <2>7. Recoverable
    <3>1. \A p \in Paths : file[p] \in Texts
      BY <2>1 DEF Init
    <3>2. \A text \in Texts, e \in Edits : e \notin text
      BY EditAssumption DEF Texts, Absent
    <3>3. \A e \in Edits, p \in Paths : snapshot[e][p] = {}
      BY <2>1 DEF Init, Blank
    <3>4. captured = {}
      BY <2>1 DEF Init
    <3>5. QED
      BY <3>1, <3>2, <3>3, <3>4 DEF Recoverable, Owned
  <2>8. QED
    BY <2>3, <2>4, <2>5, <2>6, <2>7 DEF IInv
<1>2. IInv /\ [Next]_vars => IInv'
  <2>1. SUFFICES ASSUME IInv, [Next]_vars PROVE IInv'
    OBVIOUS
  <2>2. ASSUME NEW a \in Agents, EditStep(a) PROVE IInv'
    BY <2>1, <2>2, PrepareKeeps, RefuseKeeps, CaptureKeeps, AcquireKeeps, VerifyKeeps,
       WriteKeeps, CheckKeeps, SemanticKeeps, RecordKeeps, UndoKeeps, RestoreKeeps,
       ConfirmKeeps, UndoDoneKeeps DEF EditStep
  <2>3. ASSUME NEW a \in Agents, RollbackStep(a) PROVE IInv'
    BY <2>1, <2>3, TriageKeeps, RequestKeeps, RollbackErrsKeeps, RecheckKeeps,
       PutBackKeeps, RereadKeeps, CorrelateKeeps DEF RollbackStep
  <2>4. ASSUME NEW a \in Agents, Crash(a) PROVE IInv'
    BY <2>1, <2>4, CrashKeeps
  <2>5. ASSUME NEW a \in Agents, NEW e \in Edits, NEW S \in SUBSET Paths,
               NEW m \in {"patch", "line"}, Begin(a, e, S, m)
        PROVE  IInv'
    BY <2>1, <2>5, BeginKeeps
  <2>6. ASSUME NEW a \in Agents, NEW e \in Edits, StartRollback(a, e) PROVE IInv'
    BY <2>1, <2>6, StartRollbackKeeps
  <2>7. ASSUME NEW a \in Agents, NEW p \in Paths, NEW text \in Texts,
               Overwrite(a, p, text)
        PROVE  IInv'
    <3>1. foreign' \in 0..MaxForeign
      BY <2>1, <2>7 DEF IInv, SharedOK, Overwrite, bounds
    <3>2. QED
      BY <2>1, <2>7, <3>1, PlainWrite DEF Overwrite, spec, durable, bounds
  <2>8. ASSUME NEW p \in Paths, NEW text \in Texts, Foreign(p, text) PROVE IInv'
    <3>1. foreign' \in 0..MaxForeign
      BY <2>1, <2>8, EditAssumption DEF IInv, SharedOK, Foreign
    <3>2. QED
      BY <2>1, <2>8, <3>1, PlainWrite DEF Foreign, spec, durable
  <2>9. CASE UNCHANGED vars
    <3>1. SharedOK' /\ op' \in [Agents -> OpType]
      BY <2>1, <2>9 DEF vars, IInv, SharedOK
    <3>2. (\A a \in Agents : AgentOK(a))'
      BY <2>1, <2>9 DEF vars, IInv, AgentOK, Owned
    <3>3. OwnEdits' /\ Recoverable'
      BY <2>1, <2>9 DEF vars, IInv, OwnEdits, Recoverable, Owned
    <3>4. QED
      BY <3>1, <3>2, <3>3 DEF IInv
  <2>10. QED
    BY <2>1, <2>2, <2>3, <2>4, <2>5, <2>6, <2>7, <2>8, <2>9 DEF Next
<1>3. QED
  BY <1>1, <1>2, PTL DEF Spec

\* Type correctness: every phase works on files its guard covers, and a guard
\* is held in no other phase.
THEOREM TypeCorrect == Spec => []TypeOK
<1>1. IInv => TypeOK
  BY DEF IInv, SharedOK, OpType, AgentOK, TypeOK
<1>2. QED
  BY <1>1, InvariantHolds, PTL

\* Recovery material precedes the mutation: whatever fails, is killed or writes
\* without the guard, no file carries an edit whose pre-edit content is not
\* in a published snapshot.
THEOREM EveryEditIsRecoverable == Spec => []SnapshotCovers
<1>1. IInv => SnapshotCovers
  BY DEF IInv, Recoverable, Owned, SnapshotCovers
<1>2. QED
  BY <1>1, InvariantHolds, PTL

============================================================================
