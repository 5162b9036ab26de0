---------------------------- MODULE AgentRuntime ----------------------------
(***************************************************************************)
(* Agent profiles, their sessions, and the calls that change them          *)
(* (src/src/services/agent_runtime.rs over src/src/core/agents.rs and      *)
(* src/src/core/sessions.rs).                                              *)
(*                                                                         *)
(* A call of the service is several reads of JSON files and, last, one     *)
(* write under the store lock.  A profile is read before the lock and      *)
(* written back whole; a session is read again under the lock.  The calls  *)
(* come from independent processes, so each read and write is a step.  The *)
(* workspace manifest is written once, so the workspace a session is bound *)
(* to is not state.                                                        *)
(***************************************************************************)
EXTENDS Naturals

CONSTANTS
  Agents,    \* agent ids
  Sessions,  \* session ids
  Callers,   \* processes that call the runtime service
  None       \* no profile, no session, no operation

VARIABLES
  profile,  \* .agent/agents/<id>.json of each agent, or None
  session,  \* .agent/sessions/<id>.json of each session, or None
  call,     \* what each caller is doing
  barred,   \* history: the agent was unfit at every moment of the call
  raced     \* history: the profile has changed since the call read it

vars == <<profile, session, call, barred, raced>>

AgentStatuses == {"created", "active", "stopped", "failed"}
SessionStatuses == {"active", "paused", "stopped", "failed"}
Profiles == [status: AgentStatuses, enabled: BOOLEAN]
SessionRecords == [agent: Agents, status: SessionStatuses]

\* SessionStatus::is_usable
Usable(status) == status \in {"active", "paused"}

ProfileOps == {"start", "stop", "fail", "enable", "disable"}
SessionOps == {"pause", "resume", "end", "abort"}

ASSUME NoneAssumption ==
  /\ None \notin Agents \cup Sessions
  /\ None \notin Profiles
  /\ None \notin SessionRecords
  /\ None \notin ProfileOps \cup SessionOps \cup {"open"}

\* The status a call of transition_session asks for.
Target(op) ==
  CASE op = "pause" -> "paused"
    [] op = "resume" -> "active"
    [] op = "end" -> "stopped"
    [] OTHER -> "failed"

Retires(op) == op \in {"end", "abort"}

\* What a caller holds in each phase of a call.
Idle == [pc |-> "idle", op |-> None, agent |-> None, session |-> None, seen |-> None]

\* A call that ended in an I/O error, or whose process was killed.
Broken == [Idle EXCEPT !.pc = "broken"]

Calls ==
  {Idle, Broken}
  \cup [pc: {"request"}, op: ProfileOps \cup {"open"}, agent: Agents,
        session: {None}, seen: {None}]
  \cup [pc: {"store"}, op: ProfileOps, agent: Agents, session: {None}, seen: Profiles]
  \cup [pc: {"create"}, op: {"open"}, agent: Agents, session: {None}, seen: {None}]
  \cup [pc: {"request", "resolve", "transition"}, op: SessionOps, agent: Agents,
        session: Sessions, seen: {None}]

Init ==
  /\ profile = [a \in Agents |-> None]
  /\ session = [s \in Sessions |-> None]
  /\ call = [c \in Callers |-> Idle]
  /\ barred = [c \in Callers |-> TRUE]
  /\ raced = [c \in Callers |-> FALSE]

\* An agent that may serve as a caller: it exists, is enabled and is active.
Fit(a) ==
  /\ profile[a] # None
  /\ profile[a].enabled
  /\ profile[a].status = "active"

\* The session exists and belongs to the agent.
Owns(a, s) ==
  /\ session[s] # None
  /\ session[s].agent = a

Goto(c, step) == call' = [call EXCEPT ![c].pc = step]
Answer(c) == call' = [call EXCEPT ![c] = Idle]
Free(c) == call[c].pc \in {"idle", "broken"}
FilesUnchanged == UNCHANGED <<profile, session>>

Request(c, op, a, s) ==
  /\ Free(c)
  /\ s = None <=> op \notin SessionOps
  /\ call' = [call EXCEPT ![c] = [pc |-> "request", op |-> op, agent |-> a,
                                  session |-> s, seen |-> None]]
  /\ FilesUnchanged

(***************************************************************************)
(* Profiles                                                                *)
(***************************************************************************)
\* register_profile: the duplicate check and the write are under one lock.
Register(c, a) ==
  /\ Free(c)
  /\ profile[a] = None
  /\ profile' = [profile EXCEPT ![a] = [status |-> "created", enabled |-> TRUE]]
  /\ UNCHANGED <<session, call>>

\* Mutant: start_agent does not look at the enabled flag.
Loadable_Disabled(op, a) ==
  /\ profile[a] # None
  /\ op = "stop" => profile[a].status # "stopped"

\* What a call requires of the profile it has read before it writes.
Loadable(op, a) ==
  /\ profile[a] # None
  /\ op = "start" => profile[a].enabled
  /\ op = "stop" => profile[a].status # "stopped"

LoadProfile(c) ==
  /\ call[c].pc = "request"
  /\ call[c].op \in ProfileOps
  /\ Loadable(call[c].op, call[c].agent)
  /\ call' = [call EXCEPT ![c].pc = "store", ![c].seen = profile[call[c].agent]]
  /\ FilesUnchanged

\* Mutant: stop_agent suspends the agent instead of stopping it.
Updated_Pauses(op, seen) ==
  CASE op = "start" -> [seen EXCEPT !.status = "active"]
    [] op = "stop" -> [seen EXCEPT !.status = "paused"]
    [] op = "fail" -> [seen EXCEPT !.status = "failed"]
    [] OTHER -> [seen EXCEPT !.enabled = (op = "enable")]

\* The profile a call writes back: one field of the copy it has read is new.
Updated(op, seen) ==
  CASE op = "start" -> [seen EXCEPT !.status = "active"]
    [] op = "stop" -> [seen EXCEPT !.status = "stopped"]
    [] op = "fail" -> [seen EXCEPT !.status = "failed"]
    [] OTHER -> [seen EXCEPT !.enabled = (op = "enable")]

\* AgentStore::create
StoreProfile(c) ==
  /\ call[c].pc = "store"
  /\ profile' = [profile EXCEPT ![call[c].agent] = Updated(call[c].op, call[c].seen)]
  /\ Answer(c)
  /\ UNCHANGED session

(***************************************************************************)
(* Sessions                                                                *)
(***************************************************************************)
\* Mutant: open_session looks at the enabled flag alone.
CheckOpen_Inactive(c) ==
  /\ call[c].pc = "request"
  /\ call[c].op = "open"
  /\ profile[call[c].agent] # None
  /\ profile[call[c].agent].enabled
  /\ Goto(c, "create")
  /\ FilesUnchanged

CheckOpen(c) ==
  /\ call[c].pc = "request"
  /\ call[c].op = "open"
  /\ Fit(call[c].agent)
  /\ Goto(c, "create")
  /\ FilesUnchanged

\* The id is fresh; the agent is not looked at again.
CreateSession(c, s) ==
  /\ call[c].pc = "create"
  /\ session[s] = None
  /\ session' = [session EXCEPT ![s] = [agent |-> call[c].agent, status |-> "active"]]
  /\ Answer(c)
  /\ UNCHANGED profile

\* Mutant: ending a session takes an agent that may use it.
AfterLookUp_Resolves(op) == "resolve"

\* Only a transition to a usable status resolves the session in full.
AfterLookUp(op) == IF Retires(op) THEN "transition" ELSE "resolve"

LookUpAllowed(c) ==
  /\ Owns(call[c].agent, call[c].session)
  /\ Retires(call[c].op) \/ Usable(session[call[c].session].status)

LookUp(c) ==
  /\ call[c].pc = "request"
  /\ call[c].op \in SessionOps
  /\ LookUpAllowed(c)
  /\ Goto(c, AfterLookUp(call[c].op))
  /\ FilesUnchanged

\* resolve_session_relation, a read of the profile.
Resolve(c) ==
  /\ call[c].pc = "resolve"
  /\ Fit(call[c].agent)
  /\ Goto(c, "transition")
  /\ FilesUnchanged

\* is_valid_transition, by the status read under the lock.
ValidTransition(from, to) == Usable(from) \/ from = to

\* Mutant: the transition relies on the status seen before the lock was taken.
Transition_Unchecked(c) ==
  /\ call[c].pc = "transition"
  /\ session' = [session EXCEPT ![call[c].session].status = Target(call[c].op)]
  /\ Answer(c)
  /\ UNCHANGED profile

Transition(c) ==
  /\ call[c].pc = "transition"
  /\ ValidTransition(session[call[c].session].status, Target(call[c].op))
  /\ session' = [session EXCEPT ![call[c].session].status = Target(call[c].op)]
  /\ Answer(c)
  /\ UNCHANGED profile

(***************************************************************************)
(* A call whose check fails is answered with an error; stop_agent answers  *)
(* without a write when there is nothing to do.                            *)
(***************************************************************************)
Refuse(c) ==
  /\ \/ /\ call[c].pc = "request"
        /\ call[c].op \in ProfileOps
        /\ ~Loadable(call[c].op, call[c].agent)
     \/ /\ call[c].pc = "request"
        /\ call[c].op = "open"
        /\ ~Fit(call[c].agent)
     \/ /\ call[c].pc = "request"
        /\ call[c].op \in SessionOps
        /\ ~LookUpAllowed(c)
     \/ /\ call[c].pc = "resolve"
        /\ ~Fit(call[c].agent)
     \/ /\ call[c].pc = "transition"
        /\ ~ValidTransition(session[call[c].session].status, Target(call[c].op))
  /\ Answer(c)
  /\ FilesUnchanged

\* A read or write that fails, or a killed process.  A write is a rename, so
\* nothing is written in part.
Break(c) ==
  /\ ~Free(c)
  /\ call' = [call EXCEPT ![c] = Broken]
  /\ FilesUnchanged

Step ==
  \/ \E c \in Callers, op \in ProfileOps \cup {"open"}, a \in Agents : Request(c, op, a, None)
  \/ \E c \in Callers, op \in SessionOps, a \in Agents, s \in Sessions : Request(c, op, a, s)
  \/ \E c \in Callers, a \in Agents : Register(c, a)
  \/ \E c \in Callers, s \in Sessions : CreateSession(c, s)
  \/ \E c \in Callers :
       \/ LoadProfile(c) \/ StoreProfile(c)
       \/ CheckOpen(c) \/ LookUp(c) \/ Resolve(c) \/ Transition(c)
       \/ Refuse(c) \/ Break(c)

FitForCall(c) == Fit(call[c].agent)

\* What is remembered of a call that is under way.
Remember ==
  /\ barred' = [c \in Callers |->
       IF call'[c].pc \in {"idle", "broken"} THEN TRUE
       ELSE barred[c] /\ ~FitForCall(c)']
  /\ raced' = [c \in Callers |->
       IF call[c].pc = "store" /\ call'[c].pc = "store"
       THEN raced[c] \/ profile'[call[c].agent] # profile[call[c].agent]
       ELSE FALSE]

Next == Step /\ Remember

Spec == Init /\ [][Next]_vars

(***************************************************************************)
(* Properties                                                              *)
(***************************************************************************)
\* Profiles and sessions are records the code can write, the runtime suspends
\* no agent, and a caller holds what the phase of its call needs and no more.
TypeOK ==
  /\ profile \in [Agents -> Profiles \cup {None}]
  /\ session \in [Sessions -> SessionRecords \cup {None}]
  /\ barred \in [Callers -> BOOLEAN]
  /\ raced \in [Callers -> BOOLEAN]
  /\ call \in [Callers -> Calls]

\* The profiles and sessions as the other services see them.
StandingOf(a) ==
  CASE Fit(a) -> "fit"
    [] profile[a] # None /\ profile[a].enabled /\ ~Fit(a) -> "idle"
    [] OTHER -> "out"

OwnerOf(s) == IF session[s] = None THEN None ELSE session[s].agent

LiveSessions == {s \in Sessions : session[s] # None /\ Usable(session[s].status)}

Promised == INSTANCE Registry WITH
  standing <- [a \in Agents |-> StandingOf(a)],
  owner <- [s \in Sessions |-> OwnerOf(s)],
  live <- LiveSessions

\* What the rest of the program may rely on: a session keeps its agent for ever,
\* and once it is stopped or failed it is never usable again, whichever calls
\* looked at it while it was (sessions.rs:83, the read under the lock).
ImplementsRegistry == Promised!Spec

\* Whoever asks to end a session of its own and is answered finds it ended,
\* also when its agent is stopped or disabled meanwhile, and when the answer
\* is an error (agent_runtime.rs:283).
RetiringEnds ==
  [][\A c \in Callers :
       LET s == call[c].session IN
       (Retires(call[c].op) /\ Owns(call[c].agent, s) /\ call'[c] = Idle) =>
         ~Usable(session'[s].status)]_vars

\* A session is opened, paused or resumed only by a call during which its
\* agent was enabled and active at least once: the checks come before the
\* write, and no older answer is used (agent_runtime.rs:186, 287).
OnlyFitAgentsUse ==
  [][\A s \in Sessions :
       (session'[s] # session[s] /\ Usable(session'[s].status)) =>
         \E c \in Callers : /\ call[c].pc \in {"create", "transition"}
                            /\ call[c].agent = session'[s].agent
                            /\ ~barred[c]]_vars

\* A disabled agent is enabled or made active only by a call to enable it, or
\* by one that had read the profile before it was last changed: the whole
\* profile is written back (agent_runtime.rs:106).
DisabledStaysDown ==
  [][\A a \in Agents :
       (/\ profile[a] # None
        /\ ~profile[a].enabled
        /\ \/ profile'[a].enabled
           \/ profile'[a].status = "active" /\ profile[a].status # "active") =>
         \E c \in Callers : /\ call[c].pc = "store"
                            /\ call[c].agent = a
                            /\ call[c].op = "enable" \/ raced[c]]_vars
=============================================================================
