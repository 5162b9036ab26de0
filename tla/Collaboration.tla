--------------------------- MODULE Collaboration ---------------------------
(***************************************************************************)
(* Ownership of shared tasks and worktrees                                 *)
(* (src/src/services/collaboration.rs over src/src/core/collaboration.rs), *)
(* beside the registry of agents and sessions it validates against, as     *)
(* AgentRuntime implements it.                                             *)
(*                                                                         *)
(* A call first validates agents and sessions, one read of a file at a     *)
(* time, and then, under the lock of the collaboration store, compares the *)
(* revision the client has observed with the stored one and changes the    *)
(* record.  Between the two, other calls of both services run.  A client   *)
(* may send the same call again with the revision it has.                  *)
(***************************************************************************)
EXTENDS Naturals

CONSTANTS
  Agents,      \* agent ids
  Sessions,    \* session ids
  None,        \* no record, no session, no target
  Resources,   \* (kind, id) of tasks and worktrees
  Clients,     \* processes that call the collaboration service
  Handoffs,    \* bound of the model: the handoffs asked for, <<from, to>>
  MaxRevision  \* bound of the model on the revision of a record

OwnershipStates == {"Assigned", "Active", "HandoffRequested", "HandedOff", "Released"}
Records == [owner: Agents, session: Sessions \cup {None}, state: OwnershipStates,
            pending: Agents \cup {None}, revision: Nat]

DealOps == {"assign", "activate", "handoff", "accept", "release"}

ASSUME CollaborationAssumption ==
  /\ None \notin Agents \cup Sessions
  /\ None \notin Records
  /\ None \notin DealOps
  /\ Handoffs \subseteq Agents \X Agents
  /\ MaxRevision \in Nat

VARIABLES
  standing,  \* of each agent, as its profile shows it
  owner,     \* the agent of each session, or None
  live,      \* the sessions that may be used
  record,    \* the record of each resource in .agent/collaboration.json, or None
  deal,      \* the call of each client
  shut       \* history: the agent the call acts for was disabled all along

Runtime == INSTANCE Registry

vars == <<standing, owner, live, record, deal, shut>>

Validating == {"target", "owner", "session", "resolve"}

NoDeal == [pc |-> "idle", op |-> None, resource |-> None, agent |-> None, to |-> None,
           session |-> None, seen |-> None, applied |-> FALSE]

Deals == [pc: Validating \cup {"apply", "answered"}, op: DealOps, resource: Resources,
          agent: Agents, to: Agents \cup {None}, session: Sessions \cup {None},
          seen: Records \cup {None}, applied: BOOLEAN]

Init ==
  /\ Runtime!Init
  /\ record = [r \in Resources |-> None]
  /\ deal = [d \in Clients |-> NoDeal]
  /\ shut = [d \in Clients |-> TRUE]

Enabled(a) == standing[a] \in {"idle", "fit"}

\* OwnershipState::is_held
Held(state) == state # "Released"

\* is_valid_ownership_transition
ValidOwnership(from, to) ==
  \/ from = "Assigned" /\ to \in {"Active", "HandoffRequested", "Released"}
  \/ from = "Active" /\ to \in {"HandoffRequested", "Released"}
  \/ from = "HandoffRequested" /\ to \in {"HandedOff", "Released", "Assigned"}
  \/ from = "HandedOff" /\ to \in {"Released", "Active"}

(***************************************************************************)
(* A call and its validation                                               *)
(***************************************************************************)
\* A handoff validates its target before its owner.
FirstCheck(op) == IF op = "handoff" THEN "target" ELSE "owner"

\* The client has just looked at the record; only an assignment may go without
\* a revision, and then it expects that there is no record.
Ask(d, op, r, a, to, s) ==
  /\ deal[d].pc \in {"idle", "answered"}
  /\ to = None <=> op # "handoff"
  /\ s # None => op = "assign"
  /\ \E seen \in {record[r], None} :
       /\ seen = None => op = "assign"
       /\ deal' = [deal EXCEPT ![d] =
            [pc |-> FirstCheck(op), op |-> op, resource |-> r, agent |-> a, to |-> to,
             session |-> s, seen |-> seen, applied |-> FALSE]]
  /\ UNCHANGED record

\* The same call again, with the revision it went with: the answer was lost.
Replay(d) ==
  /\ deal[d].pc = "answered"
  /\ deal' = [deal EXCEPT ![d].pc = FirstCheck(deal[d].op)]
  /\ UNCHANGED record

GoOn(d, step) ==
  /\ deal' = [deal EXCEPT ![d].pc = step]
  /\ UNCHANGED record

CheckTarget(d) ==
  /\ deal[d].pc = "target"
  /\ Enabled(deal[d].to)
  /\ GoOn(d, "owner")

\* Mutant: a call that names no session is resolved as if it did.
AfterOwner_Resolves(d) == IF deal[d].op = "assign" THEN "resolve" ELSE "apply"

AfterOwner(d) == IF deal[d].session = None THEN "apply" ELSE "session"

\* Mutant: only the target of a handoff is looked at.
CheckOwner_Unchecked(d) ==
  /\ deal[d].pc = "owner"
  /\ GoOn(d, AfterOwner(d))

CheckOwner(d) ==
  /\ deal[d].pc = "owner"
  /\ Enabled(deal[d].agent)
  /\ GoOn(d, AfterOwner(d))

\* resolve_session reads the session, and then the profile once more.
CheckSession(d) ==
  /\ deal[d].pc = "session"
  /\ deal[d].session \in live
  /\ owner[deal[d].session] = deal[d].agent
  /\ GoOn(d, "resolve")

ResolveOwner(d) ==
  /\ deal[d].pc = "resolve"
  /\ standing[deal[d].agent] = "fit"
  /\ GoOn(d, "apply")

\* An answer with no change of the record.  Only a call that has had its effect
\* is kept to be sent again: to send again one that had none is to wait longer
\* before its first check.
Conclude(d) ==
  /\ deal' = [deal EXCEPT ![d] =
       IF deal[d].applied THEN [deal[d] EXCEPT !.pc = "answered"] ELSE NoDeal]
  /\ UNCHANGED record

\* A check or a comparison fails, the task or worktree does not exist, the
\* store cannot be read or written, or the process is killed.
Deny(d) ==
  /\ deal[d].pc \in Validating \cup {"apply"}
  /\ Conclude(d)

(***************************************************************************)
(* CollaborationStore: load, compare, change and save under one lock       *)
(***************************************************************************)
Current(d) == record[deal[d].resource]

Changed(d, new) ==
  /\ new.revision <= MaxRevision
  /\ record' = [record EXCEPT ![deal[d].resource] = new]
  /\ deal' = [deal EXCEPT ![d].pc = "answered", ![d].applied = TRUE]

\* Mutant: a record that is assigned again starts again at revision 1.
NextRevision_Restarts(old) == 1

NextRevision(old) == IF old = None THEN 1 ELSE old.revision + 1

Assign(d) ==
  /\ deal[d].pc = "apply"
  /\ deal[d].op = "assign"
  /\ Current(d) # None =>
       /\ ~Held(Current(d).state)
       /\ deal[d].seen # None
       /\ deal[d].seen.revision = Current(d).revision
  /\ Changed(d, [owner |-> deal[d].agent, session |-> deal[d].session, state |-> "Assigned",
                 pending |-> None, revision |-> NextRevision(Current(d))])

\* Mutant: the revision the client has observed is not compared.
Matches_AnyRevision(d, op) ==
  /\ deal[d].pc = "apply"
  /\ deal[d].op = op
  /\ Current(d) # None
  /\ op # "accept" => Current(d).owner = deal[d].agent

\* mutate: the record exists, the caller owns it, the revision is the one seen.
Matches(d, op) ==
  /\ deal[d].pc = "apply"
  /\ deal[d].op = op
  /\ Current(d) # None
  /\ op # "accept" => Current(d).owner = deal[d].agent
  /\ Current(d).revision = deal[d].seen.revision

Activate(d) ==
  /\ Matches(d, "activate")
  /\ ValidOwnership(Current(d).state, "Active")
  /\ Changed(d, [Current(d) EXCEPT !.state = "Active", !.revision = @ + 1])

RequestHandoff(d) ==
  /\ Matches(d, "handoff")
  /\ ValidOwnership(Current(d).state, "HandoffRequested")
  /\ Changed(d, [Current(d) EXCEPT !.state = "HandoffRequested", !.pending = deal[d].to,
                                   !.revision = @ + 1])

\* The identical request is pending: nothing changes and the answer is yes.
RepeatHandoff(d) ==
  /\ Matches(d, "handoff")
  /\ Current(d).state = "HandoffRequested"
  /\ Current(d).pending = deal[d].to
  /\ Conclude(d)

\* Mutant: the session of the previous owner stays on the record.
Accept_KeepsSession(d) ==
  /\ Matches(d, "accept")
  /\ Current(d).state = "HandoffRequested"
  /\ Current(d).pending = deal[d].agent
  /\ Changed(d, [Current(d) EXCEPT !.state = "HandedOff", !.owner = deal[d].agent,
                                   !.pending = None, !.revision = @ + 1])

Accept(d) ==
  /\ Matches(d, "accept")
  /\ Current(d).state = "HandoffRequested"
  /\ Current(d).pending = deal[d].agent
  /\ Changed(d, [Current(d) EXCEPT !.state = "HandedOff", !.owner = deal[d].agent,
                                   !.session = None, !.pending = None,
                                   !.revision = @ + 1])

Release(d) ==
  /\ Matches(d, "release")
  /\ ValidOwnership(Current(d).state, "Released")
  /\ Changed(d, [Current(d) EXCEPT !.state = "Released", !.pending = None,
                                   !.revision = @ + 1])

DealStep ==
  \/ \E d \in Clients, op \in DealOps \ {"handoff"}, r \in Resources, a \in Agents,
        s \in Sessions \cup {None} : Ask(d, op, r, a, None, s)
  \/ \E d \in Clients, r \in Resources, h \in Handoffs :
        Ask(d, "handoff", r, h[1], h[2], None)
  \/ \E d \in Clients :
       \/ Replay(d) \/ CheckTarget(d) \/ CheckOwner(d) \/ CheckSession(d) \/ ResolveOwner(d)
       \/ Deny(d) \/ Assign(d) \/ Activate(d) \/ RequestHandoff(d) \/ RepeatHandoff(d)
       \/ Accept(d) \/ Release(d)

EnabledForDeal(d) == Enabled(deal[d].agent)

\* The operations that make the agent of the call an owner.
Receives(op) == op \in {"assign", "accept"}

\* What is remembered of a deal that is under way.
Watch ==
  shut' = [d \in Clients |->
    IF Receives(deal'[d].op) /\ deal'[d].pc # "answered"
    THEN shut[d] /\ ~EnabledForDeal(d)'
    ELSE TRUE]

Next ==
  /\ \/ Runtime!Next /\ UNCHANGED <<record, deal>>
     \/ DealStep /\ UNCHANGED <<standing, owner, live>>
  /\ Watch

Spec == Init /\ [][Next]_vars

(***************************************************************************)
(* Properties                                                              *)
(***************************************************************************)
\* Records and deals are well formed; a deal that validates a session
\* or a target names one.
TypeOK ==
  /\ standing \in [Agents -> Runtime!Standings]
  /\ owner \in [Sessions -> Agents \cup {None}]
  /\ live \subseteq Sessions
  /\ record \in [Resources -> Records \cup {None}]
  /\ shut \in [Clients -> BOOLEAN]
  /\ deal \in [Clients -> {NoDeal} \cup Deals]
  /\ \A d \in Clients :
       /\ deal[d].pc \in {"session", "resolve"} => deal[d].session # None
       /\ deal[d].pc = "target" => deal[d].op = "handoff"
       /\ deal[d].op = "handoff" => deal[d].to # None
       /\ deal[d].pc # "idle" => deal[d].seen # None \/ deal[d].op = "assign"

\* A handoff is pending exactly while it is requested, and the session a record
\* is bound to belongs to its owner, through every handoff, release and new
\* assignment (core/collaboration.rs:121, 472).
RecordsCoherent ==
  \A r \in Resources : record[r] # None =>
    /\ record[r].state = "HandoffRequested" <=> record[r].pending # None
    /\ record[r].session # None => owner[record[r].session] = record[r].owner

\* A record changes only under a client that has seen exactly what it replaces,
\* however long ago: the revision identifies the content, over releases and
\* new assignments too (core/collaboration.rs:15, 276).
AppliedToSeen ==
  [][\A r \in Resources : record'[r] # record[r] =>
       \E d \in Clients : /\ deal[d].pc = "apply"
                          /\ deal[d].resource = r
                          /\ deal[d].seen = record[r]]_vars

\* A call that was applied is never applied a second time, however often it is
\* sent again (core/collaboration.rs:17, a replayed handoff).
AppliedOnce ==
  [][\A d \in Clients : (deal[d].pc = "apply" /\ deal[d].applied /\ deal'[d].pc = "answered") =>
       record' = record]_vars

\* An agent becomes the owner of a resource only through a call during which it
\* was enabled at least once, and a resource that is held changes hands only to
\* the agent a pending handoff names (services/collaboration.rs:16, 132).
OwnersAreEntitled ==
  [][\A r \in Resources :
       (record'[r] # None /\ (record[r] = None \/ record'[r].owner # record[r].owner)) =>
         /\ \E d \in Clients : /\ deal[d].pc = "apply"
                               /\ Receives(deal[d].op)
                               /\ deal[d].agent = record'[r].owner
                               /\ ~shut[d]
         /\ (record[r] # None /\ Held(record[r].state)) =>
              record[r].pending = record'[r].owner]_vars
============================================================================
