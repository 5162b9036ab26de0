# Agent-workspace-hub: a TLA+ verification project

Agent-workspace-hub (`awh`) is a Rust server and command line through which
agents work on one project directory: they edit files, roll edits back, keep
tasks, memories and sessions, hand work to each other and call tools of other
MCP servers. Several `awh` processes may serve the same directory, and each of
them runs many requests at a time. What can go wrong is therefore mostly a
matter of order: two processes in the same store, an edit prepared from a file
that has changed since, a process that dies between two writes, an answer that
arrives after the question has been given up.

The modules here model that part of the program, TLC checks them on small
instances, and TLAPS proves the results that matter most for every instance.
File and line numbers below are relative to `src/src/`.

## 1. Inventory

### The parts and how they interact

| Part | State it keeps | Operations | Used by |
|---|---|---|---|
| Edit service (`services/edit.rs`) | none of its own; works on workspace files, snapshots and provenance records | `patch`, `replace`, `insert`, `delete_range`, `rollback_edit`, batches of rollbacks | dispatcher, CLI, control API |
| Snapshot store (`services/snapshot.rs`) | blobs, one manifest per edit, one provenance record per edit | `create_snapshot`, `record_provenance`, restore, sweeps | edit service |
| Files service (`services/files.rs`) | workspace files | `read`, `write`, `write_atomic`, `write_atomic_locked`, `delete`, `rename` | edit service, dispatcher |
| Filesystem coordination (`core/fs_coordination.rs`) | one lock file per resource in a shared directory, a registry of mutexes per process | `acquire` of a set, drop of a `CoordinationSet` | edit and files services |
| Store lock (`mcp/store_lock.rs`) | `<store>.lock` beside each JSON store | `acquire`, drop | every JSON store below |
| Tasks, memory, agents, sessions, collaboration, grants, policy (`core/*.rs`) | one JSON store (or one file per record) each | create, update, transition, delete | services of the same name |
| Agent runtime (`services/agent_runtime.rs`) | through agents and sessions | start, stop, fail, enable, open and resolve sessions | dispatcher, collaboration |
| Collaboration (`services/collaboration.rs`) | ownership records with revisions | assign, activate, hand off, accept, release | dispatcher, CLI |
| Authorization (`services/authorization.rs`, `core/policy.rs`, `core/capability_grants.rs`) | stored grants and rules | pure decision per request | execution gate, edit service |
| Execution gate and dispatcher (`mcp/execution_gate.rs`, `mcp/dispatcher.rs`) | protocol session per connection | routes a tool call through its checks | transports |
| Transports (`mcp/http.rs`, `mcp/sse.rs`) | map of sessions, a bounded channel per session | create, send, remove, clear | clients |
| Providers and their breaker (`mcp/providers.rs`, `mcp/custom_mcp.rs`, `mcp/circuit_breaker.rs`) | registered providers, last good tool lists, one breaker per provider | list and call tools of other servers | dispatcher |
| Audit log, rate limiter, observability | segments on disk; hits per key; counters | record; check; count | everything |
| Context engine (`context/`) | items, offloaded items, snapshots of a context | insert, select, offload, compress, restore | dispatcher, CLI |
| Worktrees, git, terminal, skills, tunnel, TUI, CLI | records of external things | run external programs, present | users |

A mutation of files travels dispatcher → edit service → (snapshot store, then
coordination guard, then files service, then provenance record). A mutation of
a store travels dispatcher → service → store → store lock. No part calls back
into the one above it; the sharing is through the file system, where every
system call is a point of interleaving, and through mutexes inside a process.

### What is hard

* Between processes there are only files. Both locks decide with `create_new`,
  and both reclaim a lock file by its age in two steps.
* The edit service reads before it locks, several times: preparation, the sort
  of rollback targets, the last look of single-file edits.
* Several files are changed one after the other, and each of the writes, and
  each of the reads that verify them, may fail. So may the removal of a lock
  file, and nobody looks at its result.
* A process may die at any point. Nothing is replayed at start: recovery is by
  explicit rollback, from the snapshot.
* The breaker's answers arrive in any order, or never.
* Services validate (an owner, an assignee, a profile) outside the store lock
  and act inside it.

`PROJECT.json` lists each of these as a hazard at the line where it bites, with
the properties that cover it or the reason why none does yet.

### What would make each part correct

* Locks: one holder at a time; acquisition of a set never deadlocks, fails
  without residue and returns in bounded time; a dead holder blocks nobody for
  ever.
* Edits: all files of an edit or none; nothing overwritten unseen; whatever an
  edit changed can be put back, after a crash too; an edit rolled back stays
  out; calls return; answers are true of the files.
* Breaker: opens at its threshold, spaces its probes, never stays shut.
* Stores: no lost update; terminal states stay; a disable is not undone by a
  concurrent call; the owner of a resource is one who may own it.

## 2. Modules

| Module | Models | Role |
|---|---|---|
| `CircuitBreaker` | `mcp/circuit_breaker.rs` | the breaker and its callers |
| `StoreLock` | `mcp/store_lock.rs`, load and save of `core/tasks.rs` | the lock of a JSON store |
| `LockSets` | | abstract: a set of resources taken at once |
| `FsCoordination` | `core/fs_coordination.rs` | the guard, one lock file at a time; implements `LockSets` |
| `Registry` | | abstract: what other services may rely on of agents and sessions |
| `AgentRuntime` | `services/agent_runtime.rs`, `core/agents.rs`, `core/sessions.rs`, `core/identity.rs` | calls that read profiles and sessions and write them later; implements `Registry` |
| `Collaboration` | `services/collaboration.rs`, `core/collaboration.rs` | ownership of tasks and worktrees, beside `Registry` |
| `AtomicEdits` | | abstract: edits and rollbacks atomic over their files |
| `EditService` | `services/edit.rs`, `services/snapshot.rs`, `services/files.rs` | one file at a time, built on `LockSets`; implements `AtomicEdits` |
| `MCFsCoordination`, `MCEditService`, `MCAgentRuntime`, `MCCollaboration` | | instances for TLC |
| `CircuitBreakerProofs`, `StoreLockProofs`, `FsCoordinationProofs` | | theorems about the module of the name |
| `AgentRuntimeProofs`, `CollaborationProofs` | | theorems about the module of the name |
| `EditServiceProofs` | | types and recoverability, with every failure |
| `EditExactProofs` | | what holds until a change is made without the guard of its file |
| `EditAtomicProofs` | | `EditService` implements `AtomicEdits` |

### CircuitBreaker

`phase`, `failures`, `opened_count`, `rejected_count` are the fields of
`State` and `CircuitBreaker`; `calls` holds what each caller awaits. One mutex
guards the fields, so `allow` (three answers: `CallAdmitted`, `CallAsProbe`,
`CallRejected`) and the two records (`RecordSuccess`, `RecordFailure`) are
steps; `DropCall` is a future dropped while it awaits. An `Instant` is the time
since it, cut off at the largest value it is compared with. `failures` is
counted up to the threshold, beyond which it makes no difference. The code's
transient `HalfOpen { probe: None }` exists only inside `allow`.

### StoreLock

`lockExists` and `lockAge` are the lock file; `pc` says which file-system call
an agent makes next. Two variables are history: `current`, whether the copy an
agent has loaded is still what is on disk, and `abandoned`, whether a lock file
has been left without a holder. The loop of `acquire` is `CreateNew`,
`CreateExists`, `CreateDenied`, `CreateError`, `FindStale`, `FindNotStale`,
`Reclaim`, `ReclaimFails`, `Sleep`, `GiveUp`; `Load`, `Save` and `Drop` are the
cycle under the guard, the same in all stores. Both removals may fail: a failed
one in the loop leads straight back to `create_new` (store_lock.rs:74), a failed
one in `Drop` leaves a lock file that has no holder (114), as a kill does. From
then on `is_stale` may take a living holder's file for the abandoned one, which
is why the exclusion properties speak until `abandoned`.

### FsCoordination

`lockFiles` and `lockAge` are the shared directory, `registry` the
process-wide map, `want` and `held` the keys an actor has still to take and has
taken. `orphans` and `foundStale` are history: the lock files that a kill or a
failed removal left behind, and whether some `acquire` has found a stale one. `Request` turns paths into keys (two spellings of a path give one key,
a path outside the workspace gives none), `NextKey` takes the smallest of them
and enters it in the registry, and the steps of the loop are those of the store
lock. The in-process mutex of a key is dropped again before the lock file is
created (line 358), so it orders nothing and is not state. A set is dropped one
file at a time (`ReleaseOne`). Every removal may fail, in `Reclaim` and in
`ReleaseOne`, and the code ignores it (214-223, 448): a guard that could not
remove its file leaves an orphan.

Exclusion holds until `foundStale`, and the properties and the refinement say
so, because a stale lock file is removed in two steps and because an actor that
waits for a long set lets its first files go stale. When can that not happen?
`GuardsStayFresh` answers: if every set asked for fits (`SetsFit`, one
`AcquireTimeout` per further file and the hold within `StaleAge`), no file of a
guard is ever stale, and only orphans are found so; what remains is the race of
the check with the removal, which needs an orphan. With the constants of the code, up to 256 files, 10 s and 30 s, sets of up to three files fit as far as
their waits go; `coordination_slow` shows what happens to a longer one.

### EditService

Contents are abstracted to what the properties tell apart: a content is the set
of marks it carries, an edit adds its own mark to the content it was prepared
from, and equal sets stand for equal hashes. `op` records, for each agent, the
phase of its operation and the files it has still to visit; `captured`,
`snapshot` and `provenance` are the durable store; `status` is what the caller
was told. An edit runs through

    prepare  capture  acquire  (verify write check)*  [semantic]  record

with `undo restore confirm` for a patch whose commit fails, and a rollback
through

    triage*  request  recheck*  (putback reread)*  correlate  replace

where a starred phase is one step per file. Abstractions:

* An edit always changes the content: an edit without effect is refused or is a
  plain rewrite, and says nothing about order.
* Only files that exist are edited; `create`, `rename` and deletions as part of
  a transaction are left out, so `existed_before` is always true.
* The authorization decision is one of the reasons of `Refuse`.
* The record and the reply are one step; a crash between them differs from one
  after only in what a dead caller would have been told.
* A rollback reads the provenance record (`Correlate`) and writes it back
  (`ReplaceOutcome`) with no guard, so of two rollbacks the later write stays.
  The code stores `RolledBack` with a reason for every outcome, a conflict or a
  failure too; `provenance` is that reason, and `RolledBackStaysGone` speaks of
  the reasons that say the edit is out.
* The last look of a single-file edit (`verify_replace_semantics` and its like)
  passes or fails whatever the file holds: other content may contain the text or
  have the number of lines it looks for, and a correctly written file fails when
  the text put in is empty.
* A plain write leaves any text, also one cut off: `write` truncates the file
  before it fills it (files.rs:210), and who reads in between sees that. The
  deletion of a directory takes the guard of the directory's path, not of the
  files it removes (files.rs:319), so it is a `Foreign` change of each of them,
  like an editor's; `foreign` counts those.
* A killed process lets go of its guard at once. That it takes `STALE_LOCK_AGE`
  in fact, and what can go wrong then, is `FsCoordination`'s subject.
* `AtomicEdits` remembers the files each edit was requested for, so an edit kept
  in part of them is no step of it, nor is a rollback that leaves the edit in one.
* `Conclude` and `Correlate` cover the outcome `provenance` records; audit
  entries are left out.

### AgentRuntime and Registry

`profile` and `session` are the JSON files of agents and sessions; `call` holds
what each caller is doing: `request`, then `store` for a change of a profile,
`create` for a new session, `resolve` and `transition` for a change of one. A
profile is read before the lock and written back whole (`LoadProfile`,
`StoreProfile`), with the field of the operation changed in the copy
(`Updated`); a session is looked up (`LookUp`), its agent is looked up again
(`Resolve`) unless the session is to end, and the transition is decided by the
status read under the lock (`Transition`). `barred` and `raced` are history:
whether the agent was unfit at every moment of the call, and whether the profile
has changed since the call read it.

* A write is one step: it is a rename under the store lock, whose exclusion is
  `StoreLock`'s subject.
* `restart_agent` is a stop and then a start, which a caller may request one
  after the other. No operation of the service sets the status `paused` of an
  agent, and `TypeOK` says so.
* A read or write that fails and a killed process end a call in `broken`
  (`Break`), at any step.

`Registry` keeps three variables, the standing of each agent, the owner of each
session and the sessions that may be used, and allows a standing to change at
any moment, a session to be opened once and to be ended once.

### Collaboration

`standing`, `owner` and `live` are the variables of `Registry`, and its steps
interleave with those of the service; `record` is `.agent/collaboration.json`
and `deal` the call of each client, with the revision it has looked at as the
whole record it has seen (`seen`). Validation is a step per file read
(`CheckTarget`, `CheckOwner`, `CheckSession`, `ResolveOwner`); load, comparison,
change and save are one step under the store lock (`Assign`, `Activate`,
`RequestHandoff`, `Accept`, `Release`). `Replay` sends a call again with the
revision it had. `shut` is history: the agent the call would make an owner was
disabled all along.

* A call may be refused at any step (`Deny`): a check or comparison fails, the
  task or worktree does not exist, the store is full or cannot be read, the
  process is killed. So the model allows every answer the code gives, and more
  refusals.
* Only calls that have taken effect are sent again: one that had no effect is,
  sent again, the same call with a longer wait before its first check.
* Notes and time stamps of a record are left out.

## 3. Runs

Passing runs:

| Run | Instance | Shows |
|---|---|---|
| `breaker` | 3 callers, threshold 2, cooldown 2, probe timeout 3 ticks, counters saturate at 2 | `TypeOK`, `ClosedBelowThreshold`, `ProbesSpaced`, `NeverWedged` |
| `store_lock` | 2 processes, stale age 2, timeout 1, cycles of at most 2 ticks, 2 kills, removals that fail | `TypeOK`, `MutualExclusion`, `NoLostUpdate`, `NeverWedged` |
| `coordination` | 3 threads of a process, 2 files, sets of up to 2, stale age 2, a kill, removals that fail | `MutualExclusion`, `NoWaitCycle`, `GuardsKeepTheirFiles`, `GuardsStayFresh`, `ImplementsLockSets` |
| `coordination_returns` | 2 processes, 3 paths of 2 files, registry of 1 key, a kill, removals that fail | `TypeOK`, `NothingLeaks`, `AcquireReturns` |
| `edits` | 2 agents, 2 edits, 2 files, every writer under the guard, no failure | `ImplementsAtomicEdits` |
| `edits_faults` | the same with failing reads, writes and stores, a kill and a change without the guard | `TypeOK`, `SnapshotCovers`, `RolledBackStaysGone`, `ExactSteps` |
| `agents` | 2 agents, 1 session, 2 callers, failing files and kills | `TypeOK`, `ImplementsRegistry`, `RetiringEnds`, `OnlyFitAgentsUse`, `DisabledStaysDown` |
| `collaboration` | 2 agents, 1 session, 1 resource, 2 clients, revisions up to 3 | `TypeOK`, `RecordsCoherent`, `AppliedToSeen`, `AppliedOnce`, `OwnersAreEntitled` |

Runs in which TLC finds what the code does to disagree with what it says:

| Run | Statement | What happens |
|---|---|---|
| `store_lock_race` | a racing remove makes "create_new simply fail again" (store_lock.rs:69) | the slower of two reclaimers removes the lock the faster one has just created |
| `store_lock_denied` | acquiring "blocks (with a bounded timeout)" (store_lock.rs:16) | a stale lock file that cannot be removed keeps `acquire` in its loop: the failed remove is ignored and the deadline is not looked at (74) |
| `coordination_slow` | files untouched for long are those of a holder that "crashed without cleanup" (fs_coordination.rs:78) | a living actor that waits for the rest of a long set loses its first file |
| `edits_fully_restored` | `fully_restored` "says whether the workspace was returned to its pre-transaction state" (edit.rs:2671) | the file whose write succeeded but could not be re-read keeps the new content |

Other disagreements met while modelling, without a run of their own:

* Locks. A `CoordinationSet` drops its guards in the order it took them, not in
  reverse (fs_coordination.rs:227); the registry is saturated by keys nobody uses any
  more (100, 423); its reclaim has the race of the store lock (448).
* Breaker. A late success of a call admitted before the opening closes the
  breaker before its cooldown (circuit_breaker.rs:92), or with the probe still
  out, although "exactly ONE half-open probe is admitted" (117); a late failure
  of an open breaker counts in `opened_count`, which is documented as the number
  of transitions (177).
* Edits. A single-file edit whose verification fails is not restored
  (edit.rs:319). Of two concurrent rollbacks of one edit the second finds, under
  the guard, what the first has put back, answers `Conflict` and stores that
  outcome over the first one's, although `rollback_edit` answers
  `AlreadyRolledBack` "when every target already sits at its pre-edit state
  (idempotent repeat)" (2172). A `replace` with an empty new text commits and
  then fails, because no match of an empty text is ever found (4115), and leaves
  the edit in the file without a provenance record. A patch does undo its
  committed files although edit.rs:2374 says it does not.
* Agents. A start that has read the profile before a disable writes the enabled
  profile back, so the agent comes up although "an inactive or disabled agent
  must not silently become active" (agent_runtime.rs:105); `DisabledStaysDown`
  says that this takes an overlap and nothing less. Stopping a session that has
  failed is an error, not the "no-op returning the record" of sessions.rs:58;
  `RetiringEnds` holds either way.
* Collaboration. A resource that was handed off counts as held
  (collaboration.rs:92) and must be released before it can be assigned, although
  "`Released` and `HandedOff` end an ownership cycle: the resource is free again"
  (61, 280).

### Bounds, and why they are enough

* Three callers of the breaker are one that opens it, a probe, and one late
  answer between them; with a threshold of 2 the count below it matters, and
  probe timeout and cooldown differ so that either can be the shorter wait.
* The locks' times are the smallest that keep the order of the real ones: a
  timeout shorter than the stale age and a hold that may reach it. The proofs
  need no more than `HoldLimit <= StaleAge`, and all of `StaleAge` and
  `HoldLimit` beyond one tick is repetition. Two kills let a killed process be
  followed by one that is killed while it reclaims; one is enough for a stale
  file that keeps a living process in its loop (`store_lock_denied`).
* Three threads are a holder, one that reclaims and one that waits for both; two
  keys give the smallest set that can be taken in two orders, and with a timeout
  and a hold of one tick each it just fits the stale age of two. All threads of
  `coordination` are of one process: processes differ only in their registries
  and in who dies with whom, which is what `coordination_returns` is for, with
  two processes and a registry that is too small.
* Two files distinguish a patch's first file from its last, which is all its
  order is about. Two edits give one built on another; two agents give every
  interleaving of two operations, while an operation relates its own file reads
  only to what others leave there. The safety invariants that matter are proved
  for any number of each.
* Two callers of the agent runtime give every overlap of two calls, and a call
  relates one profile or one session; one session is enough because no
  operation touches two. In `collaboration` two agents are the owner and the
  one it hands to; the revisions 1 to 3 (`MaxRevision`) are an assignment, a
  handoff or release, and an acceptance or a new assignment, so a client may
  lag by two changes. `MCHandoffs` leaves out handoffs of an agent to itself.
  Everything these two runs check is proved without those bounds, for any
  `MaxRevision` and `Handoffs`.
* `MaxForeign` and `MaxCrashes` bound the changes made without a guard and the
  kills: in `edits_faults` one of each may fall between any two steps. Its states
  are told apart by what a step or a property other than `TypeOK` looks at
  (`MCView`): not by what callers are told, by the method of an edit once it has
  committed, or by which of several outcomes a record names, beyond whether it
  says that the edit is out. The theorems on what the run checks have neither
  bound and look at every variable.

### Fairness, and why the code justifies it

* Threads that are in an operation are scheduled: weak fairness of the steps an
  agent takes by itself (`Proceed`, `EditStep \/ RollbackStep`). No fairness is
  put on starting operations, on kills, on foreign writes or on a particular
  outcome of a file-system call.
* Time passes (`Tick`), since every wait of the code is a sleep of a fixed
  length against a deadline.
* `Drop` of a guard happens, since the guard is a value of a scope that ends.
* `NeverWedged` of the store lock speaks of a lock file that stays behind, so it
  also needs somebody to call `acquire` again and the file system to answer:
  `RetrySpec` adds weak fairness of `Begin` and strong fairness of the two
  answers that lead to a reclaim and of the removal itself, so that errors on the
  way are transient. `AcquireReturns` of the store lock is violated under
  `FairSpec`, where a removal may fail for ever; that of the coordination holds
  there, because its loop looks at the deadline after a reclaim, too.
* `NeverWedged` of the breaker needs callers that keep calling and calls that
  end: the HTTP client has a timeout, and a dropped future ends a call too.

## 4. Proofs

| Module | Theorem | Property | Under |
|---|---|---|---|
| `CircuitBreakerProofs` | `TypeCorrect` | `TypeOK` | `ConfigAssumption` |
| | `ClosedStaysBelowThreshold` | `ClosedBelowThreshold` | |
| | `ProbesAreSpaced` | `ProbesSpaced` | |
| `StoreLockProofs` | `TypeCorrect` | `TypeOK` | `LockAssumption` |
| | `LockExcludes` | `MutualExclusion` | `HoldLimit <= StaleAge` |
| | `UpdatesAreNotLost` | `NoLostUpdate` | `HoldLimit <= StaleAge` |
| `FsCoordinationProofs` | `TypeCorrect` | `TypeOK` | `CoordinationAssumption` |
| | `GuardsAreExclusive` | `MutualExclusion` | |
| | `NoLockFileLeaks` | `NothingLeaks` | |
| | `GuardsKeepLockFiles` | `GuardsKeepTheirFiles` | |
| | `NoDeadlock` | `NoWaitCycle` | |
| | `GuardsImplementLockSets` | `ImplementsLockSets` | |
| | `GuardsAreNeverStale` | `GuardsStayFresh` | |
| `AgentRuntimeProofs` | `TypeCorrect` | `TypeOK` | `NoneAssumption` |
| | `RetiringEndsSessions` | `RetiringEnds` | |
| | `UnfitAgentsUseNothing` | `OnlyFitAgentsUse` | |
| | `DisabledAgentsStayDown` | `DisabledStaysDown` | |
| | `RuntimeImplementsRegistry` | `ImplementsRegistry` | |
| `CollaborationProofs` | `CollabTypeCorrect` | `TypeOK` | `CollaborationAssumption` |
| | `RecordsStayCoherent` | `RecordsCoherent` | |
| | `ChangesApplyToWhatWasSeen` | `AppliedToSeen` | |
| | `CallsApplyOnce` | `AppliedOnce` | |
| | `OwnersWereEnabled` | `OwnersAreEntitled` | |
| `EditServiceProofs` | `TypeCorrect` | `TypeOK` | `EditAssumption` |
| | `EveryEditIsRecoverable` | `SnapshotCovers` | |
| `EditExactProofs` | `EveryStepIsExact` | `ExactSteps` | |
| | `RolledBackEditsStayGone` | `RolledBackStaysGone` | |
| `EditAtomicProofs` | `EditsAreAtomic` | `ImplementsAtomicEdits` | `NothingFails` |

The right column names what a theorem assumes of the constants; an empty one
means nothing beyond the assumption of its module. Kills, failing removals,
faults and changes without the guard are in the models, so the theorems hold
over them; where a property stops at one of them, the property says so
(`~abandoned`, `~foundStale`, `foreign = 0`, `SetsFit`).

The arguments:

* *Breaker.* The clock of the breaker and the history variable `sinceProbe` are
  related by `ProbeClock`: an open breaker's clock is no older than the last
  probe, a half-open one's is the probe itself. That makes `ProbesSpaced`
  inductive; the invariant is needed because a late answer may close and re-open
  the breaker between two probes.
* *Store lock.* Exclusion is not inductive: nothing in it says that a lock file
  is not about to be removed. `HolderInv` adds that until a lock file is
  abandoned nobody has reached the remove, that a holder's lock file is as old as
  its hold, hence never stale, and that a lock file has a holder. `NoLostUpdate`
  follows because an agent that has loaded is a holder.
* *Coordination.* `GuardInv` says that until a stale file is found nobody is
  about to remove one, and a held key has one holder and its lock file: only the
  holder's own drop takes it away, whether it removes the file or leaves an
  orphan. `NoLockFileLeaks` needs no such condition, since a kill and a failed
  removal put into `orphans` what they leave. `NoWaitCycle` follows from the
  order of keys alone: each actor of a cycle waits for a key larger than all it
  holds, and the largest of those keys has no holder that waits. The refinement
  to `LockSets` shows every step to be a step of it or a stutter: a set appears
  when its last key is taken, and finding a stale file lets all sets go.
  `GuardsAreNeverStale` is what makes the condition worth stating. Its invariant
  bounds the age of each lock file of a set by the waits that came after it: one
  timeout for each key taken since and the clock of the present one, which never
  runs past its deadline because the deadline is set once per key and not once
  per attempt. When the set fits, that is within the stale age, the hold
  included. Another actor cannot make the file older, and the removal of it by
  one that found an orphan earlier and comes late leaves no file to be stale.
* *Agents.* `RuntimeInv` adds to the types what a call has learned and may still
  rely on: its agent was fit at some moment if it is past the check (`SeenFit`),
  the session it is about to change exists and is owned by its agent
  (`LookedUp`, which lasts because a session keeps its agent), and the copy of a
  profile is the profile as long as nothing has raced it (`FreshCopy`). The
  action properties follow from these and from the steps that can change a
  session or a profile (`SessionStep`, `ProfileStep`). For the refinement, a
  store of a profile changes the standing of one agent or none
  (`StandingStep`), a created session is `Open`, and a transition is `End` or
  leaves `live` as it is: it cannot put a session back, because the status that
  allows it is read under the lock.
* *Collaboration.* The revision stands for the content: whatever a client has
  seen has a smaller revision than the stored record or *is* the stored record
  (`SeenIsOld`), and what a call that took effect had seen has been replaced
  (`AppliedIsOld`). Neither is visible in a record alone; both need that every
  change adds one to the revision, assignments after a release included. Then
  equal revisions mean equal records, which is `ChangesApplyToWhatWasSeen`, and
  an applied call can never match again. `RecordsCoherent` needs
  `SessionChecked`, that the session of a call past its check belongs to its
  agent, which outlives the check because `Registry` never takes a session from
  its agent; `OwnersAreEntitled` needs `SeenEnabled`. `DealCases` reduces the
  steps of a client to four kinds, so each part of `CollabInv` is shown for four
  cases instead of thirteen. `Collaboration` relies on `Registry` only, and
  `RuntimeImplementsRegistry` is what entitles it to.
* *Edits.* `SnapshotCovers` is not inductive either. `IInv` adds that an agent in
  or after its guard has published what it prepared from (`AgentOK`), that
  an edit belongs to one agent at a time until it is over (`OwnEdits`), and that
  whatever an agent may yet write, restore or put back carries only edits whose
  snapshots exist (`Recoverable`).

* *Exactness and rollbacks that last.* Both are statements of the time in which
  every change was made under the guard of its file: a program that takes no
  guard may overwrite anything between a check and the write that follows it, and
  no code in the service could prevent that. So the invariant is
  `foreign = 0 => EInv`. `EInv` joins to
  `IInv` what an agent knows under its guard and nobody else can change
  (`Exact`: the file it is about to write is as it verified it; the files it is
  about to put back still hold what the edit produced), that an edit has one
  author until its record is published and no rollback before
  (`Lifecycle`, `Recorded`), and, phase by phase of a rollback, which files the
  edit is already out of (`Cleared`). The hard case is an edit that is rolled
  back twice at a time, or while later edits build on it: the step that could
  bring its mark back would have to write a content that carries it, and
  `Exact` with `Recoverable` leaves only the author's own commit, which is over.
  The proof is split by what a step does to *other* agents: `Considerate` is
  shown once per step and implies that everything the others rely on stays
  (`OthersStay`), so each action's own lemma speaks of its own agent only.
* *Atomicity.* `RInv` records how far a commit, an undo or a rollback has come
  (`Progress`), that two agents never put the files of one edit back
  (`OneRollback`) and that the single-file operations have one file
  (`OneLine`). `StoreShown` explains the refinement mapping: the file the
  abstract store holds is what the only agent that may guard it shows, its
  content before the edit during a commit or an undo, the edit's content during a
  rollback, and the file itself otherwise. Each step is then compared through
  the eyes of the one agent that takes it (`StoreMoves`): all are stutters but
  the last verification of a commit (`CommitApplies`), the last restored file of
  a rollback (`RollbackReverts`), a plain write (`OverwritePuts`) and a request.
  `NothingFails` is needed: with a failing write a rollback leaves some files
  restored and others not, and says so, which is no atomic step.

TLC checked `IInv`, `EInv` and `RInv` as invariants before they were proved,
`EInv` with every fault and one kill.

Only model-checked: liveness (`AcquireReturns` of the coordination, `NeverWedged`
of the store lock and of the breaker), because the prover does not reason about
`ENABLED` and fairness; everything under violation, which is a counterexample. Recursion and
induction over data do not occur: the order of files is a choice of the least
or greatest, not a recursive sort.

## 5. Plan

In this order; each with its runs, and with proofs where marked.

1. `TaskStore`, `MemoryStore`: the load-modify-save cycles over `StoreLock`, as a
   refinement of atomic updates (proved); the assignee of a task against
   `Registry`.
2. In `EditService`: batches of rollbacks and created files (its safety
   properties and its refinement are proved).
3. `AuditLog`, `RateLimiter`, `SseSessions`, `Providers`: rotation and torn
   writes; the window and the cap on keys; the bounded channel and shutdown; the
   last-good lists.
4. `Authorization` and the execution gate as operators over grants and rules,
   checked against a reference decision; `ContextEngine` (budget, selection, item
   life cycle); `Worktrees` (record against the real tree).

Not planned: the terminal interface, the command line and the control API
(presentation over the services), connectors, GitHub and registry clients, git,
terminal and tunnel (requests and external programs, nothing to interleave), the
tool table and JSON validation.

## 6. Running

    tlc -workers 2 -config FsCoordination.cfg MCFsCoordination.tla
    tlapm FsCoordinationProofs.tla

`PROJECT.json` names the module and configuration of every run. A name such as
`IsStale_AtAge` is a deliberately broken form of the definition that follows it:
with it in place of that definition TLC finds the property named in
`PROJECT.json` violated.
