------------------------- MODULE AgentRuntimeProofs -------------------------
(***************************************************************************)
(* Theorems about AgentRuntime: what is checked before a lock is taken is  *)
(* enough for what is done under it.                                       *)
(***************************************************************************)
EXTENDS AgentRuntime, TLAPS

\* The session of a call that has been looked up belongs to the agent, and
\* only a call that extends the use of a session resolves it.
LookedUp ==
  \A c \in Callers :
    /\ call[c].pc \in {"resolve", "transition"} => Owns(call[c].agent, call[c].session)
    /\ call[c].pc = "resolve" => ~Retires(call[c].op)

\* A call that is past the check of its agent has seen it fit.
SeenFit ==
  \A c \in Callers :
    (call[c].pc = "create" \/ (call[c].pc = "transition" /\ ~Retires(call[c].op))) =>
      ~barred[c]

\* A profile read for a start was enabled, and unless the profile has changed
\* the copy is what is on disk.
FreshCopy ==
  \A c \in Callers : call[c].pc = "store" =>
    /\ call[c].op = "start" => call[c].seen.enabled
    /\ raced[c] \/ call[c].seen = profile[call[c].agent]

RuntimeInv == TypeOK /\ LookedUp /\ SeenFit /\ FreshCopy

Steps == {"request", "store", "create", "resolve", "transition"}

\* What the type of a call says of each of its phases.
LEMMA CallShape ==
  ASSUME TypeOK, NEW c \in Callers
  PROVE  /\ Free(c) => call[c] \in {Idle, Broken}
         /\ ~Free(c) => /\ call[c].pc \in Steps
                        /\ call[c].agent \in Agents
         /\ call[c].op \in SessionOps => call[c].session \in Sessions
         /\ call[c].pc \in {"resolve", "transition"} =>
              call[c].op \in SessionOps /\ call[c].session \in Sessions
         /\ call[c].pc = "store" => call[c].op \in ProfileOps /\ call[c].seen \in Profiles
         /\ call[c].pc = "create" => call[c].op = "open"
  BY NoneAssumption DEF TypeOK, Calls, Free, Idle, Broken, Steps, ProfileOps, SessionOps

\* The profile a call writes back is one.
LEMMA UpdatedType ==
  ASSUME NEW op \in ProfileOps, NEW seen \in Profiles
  PROVE  Updated(op, seen) \in Profiles
  BY DEF Updated, Profiles, AgentStatuses, ProfileOps

LEMMA TargetType == \A op \in SessionOps : Target(op) \in SessionStatuses
  BY DEF Target, SessionOps, SessionStatuses

LEMMA RememberType == Remember => /\ barred' \in [Callers -> BOOLEAN]
                                  /\ raced' \in [Callers -> BOOLEAN]
  BY DEF Remember

LEMMA StepType ==
  ASSUME TypeOK, LookedUp, Step, Remember
  PROVE  TypeOK'
<1> DEFINE Typed == /\ call' \in [Callers -> Calls]
                    /\ profile' \in [Agents -> Profiles \cup {None}]
                    /\ session' \in [Sessions -> SessionRecords \cup {None}]
<1>1. ASSUME NEW c \in Callers, NEW op \in ProfileOps \cup {"open"}, NEW a \in Agents,
             Request(c, op, a, None)
      PROVE  Typed
  BY <1>1, NoneAssumption DEF TypeOK, Calls, Request, FilesUnchanged
<1>2. ASSUME NEW c \in Callers, NEW op \in SessionOps, NEW a \in Agents, NEW s \in Sessions,
             Request(c, op, a, s)
      PROVE  Typed
  BY <1>2 DEF TypeOK, Calls, Request, FilesUnchanged
<1>3. ASSUME NEW c \in Callers, NEW a \in Agents, Register(c, a)
      PROVE  Typed
  BY <1>3 DEF TypeOK, Register, Profiles, AgentStatuses
<1>4. ASSUME NEW c \in Callers, NEW s \in Sessions, CreateSession(c, s)
      PROVE  Typed
  <2>1. call[c].agent \in Agents
    BY <1>4, CallShape DEF CreateSession, Free
  <2>2. [agent |-> call[c].agent, status |-> "active"] \in SessionRecords
    BY <2>1 DEF SessionRecords, SessionStatuses
  <2> QED BY <1>4, <2>2 DEF TypeOK, CreateSession, Answer, Calls
<1>5. ASSUME NEW c \in Callers, LoadProfile(c)
      PROVE  Typed
  <2>1. call[c] \in [pc: {"request"}, op: ProfileOps \cup {"open"}, agent: Agents,
                     session: {None}, seen: {None}]
    BY <1>5, NoneAssumption
    DEF TypeOK, Calls, LoadProfile, Idle, Broken, ProfileOps, SessionOps
  <2>2. profile[call[c].agent] \in Profiles
    BY <1>5, <2>1 DEF TypeOK, LoadProfile, Loadable
  <2>3. [call[c] EXCEPT !.pc = "store", !.seen = profile[call[c].agent]] \in Calls
    BY <1>5, <2>1, <2>2 DEF LoadProfile, Calls
  <2> QED BY <1>5, <2>3 DEF TypeOK, LoadProfile, FilesUnchanged
<1>6. ASSUME NEW c \in Callers, StoreProfile(c)
      PROVE  Typed
  <2>1. Updated(call[c].op, call[c].seen) \in Profiles
    BY <1>6, CallShape, UpdatedType DEF StoreProfile
  <2> QED BY <1>6, <2>1 DEF TypeOK, StoreProfile, Answer, Calls
<1>7. ASSUME NEW c \in Callers, CheckOpen(c)
      PROVE  Typed
  <2>1. call[c] \in [pc: {"request"}, op: ProfileOps \cup {"open"}, agent: Agents,
                     session: {None}, seen: {None}]
    BY <1>7, NoneAssumption DEF TypeOK, Calls, CheckOpen, Idle, Broken, ProfileOps, SessionOps
  <2>2. [call[c] EXCEPT !.pc = "create"] \in Calls
    BY <1>7, <2>1 DEF CheckOpen, Calls
  <2> QED BY <1>7, <2>2 DEF TypeOK, CheckOpen, Goto, FilesUnchanged
<1>8. ASSUME NEW c \in Callers, LookUp(c) \/ Resolve(c)
      PROVE  Typed
  <2>1. call[c] \in [pc: {"request", "resolve", "transition"}, op: SessionOps, agent: Agents,
                     session: Sessions, seen: {None}]
    BY <1>8, NoneAssumption
    DEF TypeOK, Calls, LookUp, Resolve, Idle, Broken, ProfileOps, SessionOps
  <2>2. \A step \in {"resolve", "transition"} : [call[c] EXCEPT !.pc = step] \in Calls
    BY <2>1 DEF Calls
  <2> QED BY <1>8, <2>2 DEF TypeOK, LookUp, Resolve, AfterLookUp, Goto, FilesUnchanged
<1>9. ASSUME NEW c \in Callers, Transition(c)
      PROVE  Typed
  <2>1. /\ call[c].op \in SessionOps
        /\ call[c].session \in Sessions
        /\ session[call[c].session] \in SessionRecords
    BY <1>9, CallShape DEF Transition, LookedUp, Owns, TypeOK
  <2>2. Target(call[c].op) \in SessionStatuses
    BY <2>1, TargetType
  <2>3. [session[call[c].session] EXCEPT !.status = Target(call[c].op)] \in SessionRecords
    BY <2>1, <2>2 DEF SessionRecords
  <2> QED BY <1>9, <2>1, <2>3 DEF TypeOK, Transition, Answer, Calls
<1>10. ASSUME NEW c \in Callers, Refuse(c) \/ Break(c)
       PROVE  Typed
  BY <1>10 DEF TypeOK, Refuse, Break, Answer, FilesUnchanged, Calls
<1>11. Typed
  BY <1>1, <1>2, <1>3, <1>4, <1>5, <1>6, <1>7, <1>8, <1>9, <1>10 DEF Step
<1> QED BY <1>11, RememberType DEF TypeOK
\* Moving a call to another phase leaves the rest of it, and the other calls.
LEMMA GotoEffect ==
  ASSUME TypeOK, NEW c \in Callers, NEW step, Goto(c, step)
  PROVE  /\ call'[c].pc = step
         /\ call'[c].op = call[c].op
         /\ call'[c].agent = call[c].agent
         /\ call'[c].session = call[c].session
         /\ \A e \in Callers \ {c} : call'[e] = call[e]
<1>1. call' = [call EXCEPT ![c] = [call[c] EXCEPT !.pc = step]]
  BY DEF Goto
<1>2. call[c] \in Calls /\ call'[c] = [call[c] EXCEPT !.pc = step]
  BY <1>1 DEF TypeOK
<1>3. \A k \in {"op", "agent", "session"} : k \in DOMAIN call[c]
  BY <1>2 DEF Calls, Idle, Broken
<1>4. "pc" \in DOMAIN call[c]
  BY <1>2 DEF Calls, Idle, Broken
<1> QED BY <1>1, <1>2, <1>3, <1>4 DEF TypeOK

LEMMA AnswerEffect ==
  ASSUME TypeOK, NEW c \in Callers, Answer(c)
  PROVE  /\ call'[c] = Idle
         /\ \A e \in Callers \ {c} : call'[e] = call[e]
  BY DEF TypeOK, Answer

\* The ways in which a call can change.
LEMMA OwnStep ==
  ASSUME TypeOK, Step, NEW e \in Callers, call'[e] # call[e]
  PROVE  \/ call'[e].pc \in {"idle", "broken"}
         \/ call'[e].pc = "request"
         \/ LoadProfile(e) /\ call'[e] = [call[e] EXCEPT !.pc = "store",
                                                    !.seen = profile[call[e].agent]]
         \/ CheckOpen(e) \/ LookUp(e) \/ Resolve(e)
<1>1. CASE \E c \in Callers, op \in ProfileOps \cup {"open"}, a \in Agents :
             Request(c, op, a, None)
  BY <1>1 DEF Request, TypeOK
<1>2. CASE \E c \in Callers, op \in SessionOps, a \in Agents, s \in Sessions :
             Request(c, op, a, s)
  BY <1>2 DEF Request, TypeOK
<1>3. CASE \E c \in Callers : LoadProfile(c)
  BY <1>3 DEF LoadProfile, TypeOK
<1>4. CASE \E c \in Callers : CheckOpen(c) \/ LookUp(c) \/ Resolve(c)
  BY <1>4, GotoEffect DEF CheckOpen, LookUp, Resolve
<1>5. CASE \E c \in Callers : Break(c)
  BY <1>5 DEF Break, TypeOK, Idle, Broken
<1>6. CASE \E c \in Callers : Answer(c)
  BY <1>6, AnswerEffect DEF Idle
<1>7. CASE UNCHANGED call
  BY <1>7
<1> QED
  BY <1>1, <1>2, <1>3, <1>4, <1>5, <1>6, <1>7
  DEF Step, Register, CreateSession, StoreProfile, Transition, Refuse

\* The ways in which a call is answered.
LEMMA AnsweredBy ==
  ASSUME TypeOK, Step, NEW e \in Callers, call'[e] = Idle, call[e] # Idle
  PROVE  \/ StoreProfile(e)
         \/ \E s \in Sessions : CreateSession(e, s)
         \/ Transition(e)
         \/ Refuse(e)
<1>1. CASE \E c \in Callers, op \in ProfileOps \cup {"open"}, a \in Agents :
             Request(c, op, a, None)
  BY <1>1 DEF Request, TypeOK, Idle
<1>2. CASE \E c \in Callers, op \in SessionOps, a \in Agents, s \in Sessions :
             Request(c, op, a, s)
  BY <1>2 DEF Request, TypeOK, Idle
<1>3. CASE \E c \in Callers : LoadProfile(c)
  <2>1. PICK c \in Callers : LoadProfile(c)
    BY <1>3
  <2>2. c = e => call'[e].pc = "store"
    BY <2>1 DEF LoadProfile, TypeOK, Calls, Idle, Broken
  <2>3. c # e => call'[e] = call[e]
    BY <2>1 DEF LoadProfile, TypeOK
  <2> QED BY <2>2, <2>3 DEF Idle
<1>4. CASE \E c \in Callers : CheckOpen(c) \/ LookUp(c) \/ Resolve(c)
  BY <1>4, GotoEffect DEF CheckOpen, LookUp, Resolve, AfterLookUp, Idle
<1>5. CASE \E c \in Callers : Break(c)
  BY <1>5 DEF Break, TypeOK, Idle, Broken
<1>6. CASE \E c \in Callers : StoreProfile(c) \/ Transition(c) \/ Refuse(c)
  BY <1>6, AnswerEffect DEF StoreProfile, Transition, Refuse
<1>7. CASE \E c \in Callers, s \in Sessions : CreateSession(c, s)
  BY <1>7, AnswerEffect DEF CreateSession
<1>8. CASE UNCHANGED call
  BY <1>8
<1> QED
  BY <1>1, <1>2, <1>3, <1>4, <1>5, <1>6, <1>7, <1>8 DEF Step, Register

\* A session that exists keeps its agent.
LEMMA SessionsBound ==
  ASSUME TypeOK, LookedUp, Step, NEW s \in Sessions, session[s] # None
  PROVE  /\ session'[s] # None
         /\ session'[s].agent = session[s].agent
         /\ ~Usable(session[s].status) => ~Usable(session'[s].status)
<1>1. CASE \E c \in Callers, t \in Sessions : CreateSession(c, t)
  BY <1>1 DEF CreateSession, TypeOK
<1>2. CASE \E c \in Callers : Transition(c)
  <2>1. PICK c \in Callers : Transition(c)
    BY <1>2
  <2>2. call[c].op \in SessionOps /\ call[c].session \in Sessions
    BY <2>1, CallShape DEF Transition
  <2>3. CASE call[c].session # s
    BY <2>1, <2>3 DEF Transition, TypeOK
  <2>4. CASE call[c].session = s
    <3>1. /\ session[s] \in SessionRecords
          /\ session' = [session EXCEPT ![s] =
               [session[s] EXCEPT !.status = Target(call[c].op)]]
      BY <2>1, <2>4 DEF Transition, TypeOK
    <3>2. session'[s] = [session[s] EXCEPT !.status = Target(call[c].op)]
      BY <3>1 DEF TypeOK
    <3>3. /\ [session[s] EXCEPT !.status = Target(call[c].op)] \in SessionRecords
          /\ session'[s].agent = session[s].agent
          /\ session'[s].status = Target(call[c].op)
      BY <2>2, <3>1, <3>2, TargetType DEF SessionRecords
    <3>4. ~Usable(session[s].status) => ~Usable(session'[s].status)
      BY <2>1, <2>4, <3>3 DEF Transition, ValidTransition
    <3> QED BY <3>2, <3>3, <3>4, NoneAssumption
  <2> QED BY <2>3, <2>4
<1>3. CASE UNCHANGED session
  BY <1>3
<1> QED
  BY <1>1, <1>2, <1>3 DEF Step, Request, Register, LoadProfile, StoreProfile, CheckOpen,
     LookUp, Resolve, Refuse, Break, FilesUnchanged

LEMMA StepLookedUp ==
  ASSUME TypeOK, LookedUp, Step
  PROVE  LookedUp'
<1> SUFFICES ASSUME NEW e \in Callers, call'[e].pc \in {"resolve", "transition"}
             PROVE  /\ Owns(call[e].agent, call[e].session)'
                    /\ call'[e].pc = "resolve" => ~Retires(call'[e].op)
  BY DEF LookedUp
<1>1. CASE call'[e] = call[e]
  <2>1. call[e].session \in Sessions /\ Owns(call[e].agent, call[e].session)
    BY <1>1, CallShape DEF LookedUp
  <2>2. call[e].pc = "resolve" => ~Retires(call[e].op)
    BY <1>1 DEF LookedUp
  <2> QED BY <1>1, <2>1, <2>2, SessionsBound DEF Owns
<1>2. CASE call'[e] # call[e]
  <2>1. LookUp(e) \/ Resolve(e)
    <3>1. CASE LoadProfile(e) /\ call'[e] = [call[e] EXCEPT !.pc = "store",
                                                    !.seen = profile[call[e].agent]]
      BY <3>1 DEF TypeOK, Calls, Idle, Broken
    <3>2. CASE CheckOpen(e)
      BY <3>2, GotoEffect DEF CheckOpen
    <3> QED BY <1>2, <3>1, <3>2, OwnStep
  <2>2. /\ Owns(call[e].agent, call[e].session)
        /\ session' = session
        /\ call'[e].agent = call[e].agent
        /\ call'[e].session = call[e].session
        /\ call'[e].op = call[e].op
    BY <2>1, GotoEffect DEF LookUp, Resolve, LookUpAllowed, LookedUp, FilesUnchanged
  <2>3. call'[e].pc = "resolve" => ~Retires(call[e].op)
    BY <2>1, GotoEffect DEF LookUp, Resolve, AfterLookUp
  <2> QED BY <2>2, <2>3 DEF Owns
<1> QED BY <1>1, <1>2

LEMMA StepSeenFit ==
  ASSUME TypeOK, SeenFit, Step, Remember
  PROVE  SeenFit'
<1> SUFFICES ASSUME NEW e \in Callers,
                    call'[e].pc = "create" \/ (call'[e].pc = "transition" /\ ~Retires(call'[e].op))
             PROVE  ~barred'[e]
  BY DEF SeenFit
<1>1. barred'[e] = (barred[e] /\ ~FitForCall(e)')
  BY DEF Remember
<1>2. CASE call'[e] = call[e]
  BY <1>1, <1>2 DEF SeenFit
<1>3. CASE CheckOpen(e) \/ Resolve(e)
  <2>1. Fit(call[e].agent) /\ profile' = profile /\ call'[e].agent = call[e].agent
    BY <1>3, GotoEffect DEF CheckOpen, Resolve, FilesUnchanged
  <2> QED BY <1>1, <2>1 DEF FitForCall, Fit
<1>4. CASE LookUp(e)
  BY <1>4, GotoEffect DEF LookUp, AfterLookUp
<1>5. CASE LoadProfile(e) /\ call'[e] = [call[e] EXCEPT !.pc = "store",
                                                !.seen = profile[call[e].agent]]
  BY <1>5 DEF TypeOK, Calls, Idle, Broken
<1> QED BY <1>2, <1>3, <1>4, <1>5, OwnStep

LEMMA StepFreshCopy ==
  ASSUME TypeOK, FreshCopy, Step, Remember
  PROVE  FreshCopy'
<1> SUFFICES ASSUME NEW e \in Callers, call'[e].pc = "store"
             PROVE  /\ call'[e].op = "start" => call'[e].seen.enabled
                    /\ raced'[e] \/ call'[e].seen = profile'[call'[e].agent]
  BY DEF FreshCopy
<1>1. CASE call'[e] = call[e]
  <2>1. /\ call[e].op = "start" => call[e].seen.enabled
        /\ raced[e] \/ call[e].seen = profile[call[e].agent]
    BY <1>1 DEF FreshCopy
  <2>2. raced'[e] = (raced[e] \/ profile'[call[e].agent] # profile[call[e].agent])
    BY <1>1 DEF Remember
  <2> QED BY <1>1, <2>1, <2>2
<1>2. CASE LoadProfile(e) /\ call'[e] = [call[e] EXCEPT !.pc = "store",
                                                !.seen = profile[call[e].agent]]
  <2>1. /\ call'[e].op = call[e].op
        /\ call'[e].agent = call[e].agent
        /\ call'[e].seen = profile[call[e].agent]
        /\ profile' = profile
    BY <1>2 DEF LoadProfile, FilesUnchanged, TypeOK, Calls, Idle, Broken
  <2> QED BY <1>2, <2>1 DEF LoadProfile, Loadable
<1>3. CASE CheckOpen(e) \/ LookUp(e) \/ Resolve(e)
  BY <1>3, GotoEffect DEF CheckOpen, LookUp, Resolve, AfterLookUp
<1> QED BY <1>1, <1>2, <1>3, OwnStep

\* The invariant all the theorems below rest on.
THEOREM RuntimeInvariant == Spec => []RuntimeInv
<1>1. Init => RuntimeInv
  BY DEF Init, RuntimeInv, TypeOK, LookedUp, SeenFit, FreshCopy, Calls, Idle
<1>2. RuntimeInv /\ [Next]_vars => RuntimeInv'
  <2> SUFFICES ASSUME RuntimeInv, [Next]_vars
               PROVE  RuntimeInv'
    OBVIOUS
  <2>1. CASE Next
    BY <2>1, StepType, StepLookedUp, StepSeenFit, StepFreshCopy DEF Next, RuntimeInv
  <2>2. CASE UNCHANGED vars
    BY <2>2 DEF vars, RuntimeInv, TypeOK, LookedUp, SeenFit, FreshCopy, Owns
  <2> QED BY <2>1, <2>2
<1> QED BY <1>1, <1>2, PTL DEF Spec

\* Profiles, sessions and calls have their types, whatever calls overlap.
THEOREM TypeCorrect == Spec => []TypeOK
BY RuntimeInvariant, PTL DEF RuntimeInv

\* Ending a session of one's own works (agent_runtime.rs:283): whatever the
\* state of the agent, the answer comes with the session ended.
THEOREM RetiringEndsSessions == Spec => RetiringEnds
<1> DEFINE Ends ==
      \A c \in Callers :
        LET s == call[c].session IN
        (Retires(call[c].op) /\ Owns(call[c].agent, s) /\ call'[c] = Idle) =>
          ~Usable(session'[s].status)
<1>1. RuntimeInv /\ [Next]_vars => [Ends]_vars
  <2> SUFFICES ASSUME RuntimeInv, Next, NEW c \in Callers, Retires(call[c].op),
                      Owns(call[c].agent, call[c].session), call'[c] = Idle
               PROVE  ~Usable(session'[call[c].session].status)
    BY DEF vars
  <2>1. /\ call[c] # Idle
        /\ call[c].op \in SessionOps
        /\ call[c].session \in Sessions
    BY CallShape, NoneAssumption DEF RuntimeInv, Retires, SessionOps, Idle
  <2>2. CASE StoreProfile(c) \/ \E s \in Sessions : CreateSession(c, s)
    BY <2>1, <2>2, CallShape, NoneAssumption
    DEF StoreProfile, CreateSession, RuntimeInv, ProfileOps, SessionOps
  <2>3. CASE Transition(c)
    <3>1. session[call[c].session] \in SessionRecords
      BY <2>1 DEF Owns, RuntimeInv, TypeOK
    <3>2. session'[call[c].session] =
            [session[call[c].session] EXCEPT !.status = Target(call[c].op)]
      BY <2>1, <2>3 DEF Transition, RuntimeInv, TypeOK
    <3>3. session'[call[c].session].status = Target(call[c].op)
      BY <3>1, <3>2 DEF SessionRecords
    <3> QED BY <3>3 DEF Retires, Target, Usable
  <2>4. CASE Refuse(c)
    <3>1. call[c].pc = "transition" /\ ~Usable(session[call[c].session].status)
      BY <2>1, <2>4, NoneAssumption
      DEF Refuse, LookUpAllowed, RuntimeInv, LookedUp, ValidTransition, ProfileOps, SessionOps
    <3> QED BY <2>4, <3>1 DEF Refuse, FilesUnchanged
  <2> QED BY <2>1, <2>2, <2>3, <2>4, AnsweredBy DEF Next, RuntimeInv
<1> QED BY <1>1, RuntimeInvariant, PTL DEF Spec, RetiringEnds

\* The steps that change a session.
LEMMA SessionStep ==
  ASSUME RuntimeInv, Step, NEW s \in Sessions, session'[s] # session[s]
  PROVE  \/ \E c \in Callers : /\ CreateSession(c, s)
                               /\ session'[s] = [agent |-> call[c].agent, status |-> "active"]
         \/ \E c \in Callers : /\ Transition(c)
                               /\ call[c].session = s
                               /\ call[c].op \in SessionOps
                               /\ session[s] \in SessionRecords
                               /\ session'[s].agent = session[s].agent
                               /\ session'[s].status = Target(call[c].op)
<1>1. CASE \E c \in Callers, t \in Sessions : CreateSession(c, t)
  BY <1>1 DEF CreateSession, RuntimeInv, TypeOK
<1>2. CASE \E c \in Callers : Transition(c)
  <2>1. PICK c \in Callers : Transition(c)
    BY <1>2
  <2>2. /\ call[c].op \in SessionOps
        /\ call[c].session = s
        /\ Owns(call[c].agent, s)
    BY <2>1, CallShape DEF Transition, RuntimeInv, TypeOK, LookedUp
  <2>3. /\ session[s] \in SessionRecords
        /\ session'[s] = [session[s] EXCEPT !.status = Target(call[c].op)]
    BY <2>1, <2>2 DEF Transition, Owns, RuntimeInv, TypeOK
  <2>4. /\ session'[s].agent = session[s].agent
        /\ session'[s].status = Target(call[c].op)
    BY <2>3 DEF SessionRecords
  <2> QED BY <2>1, <2>2, <2>3, <2>4
<1> QED
  BY <1>1, <1>2 DEF Step, Request, Register, LoadProfile, StoreProfile, CheckOpen,
     LookUp, Resolve, Refuse, Break, FilesUnchanged

\* An agent that was unfit all along opens, pauses and resumes no session.
THEOREM UnfitAgentsUseNothing == Spec => OnlyFitAgentsUse
<1> DEFINE FitUse ==
      \A s \in Sessions :
        (session'[s] # session[s] /\ Usable(session'[s].status)) =>
          \E c \in Callers : /\ call[c].pc \in {"create", "transition"}
                             /\ call[c].agent = session'[s].agent
                             /\ ~barred[c]
<1>1. RuntimeInv /\ [Next]_vars => [FitUse]_vars
  <2> SUFFICES ASSUME RuntimeInv, Next, NEW s \in Sessions,
                      session'[s] # session[s], Usable(session'[s].status)
               PROVE  \E c \in Callers : /\ call[c].pc \in {"create", "transition"}
                                         /\ call[c].agent = session'[s].agent
                                         /\ ~barred[c]
    BY DEF vars
  <2>1. CASE \E c \in Callers : /\ CreateSession(c, s)
                                /\ session'[s] = [agent |-> call[c].agent, status |-> "active"]
    BY <2>1 DEF CreateSession, RuntimeInv, SeenFit
  <2>2. ASSUME NEW c \in Callers, Transition(c), call[c].session = s,
               call[c].op \in SessionOps, session'[s].agent = session[s].agent,
               session'[s].status = Target(call[c].op)
        PROVE  /\ call[c].pc = "transition"
               /\ call[c].agent = session'[s].agent
               /\ ~barred[c]
    <3>1. ~Retires(call[c].op)
      BY <2>2 DEF Retires, Target, Usable
    <3> QED BY <2>2, <3>1 DEF Transition, RuntimeInv, SeenFit, LookedUp, Owns
  <2> QED BY <2>1, <2>2, SessionStep DEF Next
<1> QED BY <1>1, RuntimeInvariant, PTL DEF Spec, OnlyFitAgentsUse

\* The steps that change a profile.
LEMMA ProfileStep ==
  ASSUME RuntimeInv, Step
  PROVE  \/ \E c \in Callers, a \in Agents :
              /\ Register(c, a)
              /\ profile[a] = None
              /\ \A b \in Agents \ {a} : profile'[b] = profile[b]
         \/ \E c \in Callers :
              /\ StoreProfile(c)
              /\ call[c].agent \in Agents
              /\ call[c].op \in ProfileOps
              /\ call[c].seen \in Profiles
              /\ profile'[call[c].agent] = Updated(call[c].op, call[c].seen)
              /\ \A b \in Agents \ {call[c].agent} : profile'[b] = profile[b]
         \/ profile' = profile
<1>1. ASSUME NEW c \in Callers, StoreProfile(c)
      PROVE  /\ call[c].agent \in Agents
             /\ call[c].op \in ProfileOps
             /\ call[c].seen \in Profiles
             /\ profile'[call[c].agent] = Updated(call[c].op, call[c].seen)
             /\ \A b \in Agents \ {call[c].agent} : profile'[b] = profile[b]
  <2>1. /\ call[c].agent \in Agents
        /\ call[c].op \in ProfileOps
        /\ call[c].seen \in Profiles
    BY <1>1, CallShape DEF StoreProfile, RuntimeInv, Free
  <2> QED BY <1>1, <2>1 DEF StoreProfile, RuntimeInv, TypeOK
<1>2. CASE \E c \in Callers, a \in Agents : Register(c, a)
  BY <1>2 DEF Register, RuntimeInv, TypeOK
<1> QED
  BY <1>1, <1>2 DEF Step, Request, CreateSession, LoadProfile, CheckOpen, LookUp, Resolve,
     Transition, Refuse, Break, FilesUnchanged

\* Only a call to enable an agent, or one that has overlapped another change of
\* the profile, lifts a disable or starts a disabled agent.
THEOREM DisabledAgentsStayDown == Spec => DisabledStaysDown
<1> DEFINE Down ==
      \A a \in Agents :
        (/\ profile[a] # None
         /\ ~profile[a].enabled
         /\ \/ profile'[a].enabled
            \/ profile'[a].status = "active" /\ profile[a].status # "active") =>
          \E c \in Callers : /\ call[c].pc = "store"
                             /\ call[c].agent = a
                             /\ call[c].op = "enable" \/ raced[c]
<1>1. RuntimeInv /\ [Next]_vars => [Down]_vars
  <2> SUFFICES ASSUME RuntimeInv, Next, NEW a \in Agents, profile[a] # None,
                      ~profile[a].enabled,
                      \/ profile'[a].enabled
                      \/ profile'[a].status = "active" /\ profile[a].status # "active"
               PROVE  \E c \in Callers : /\ call[c].pc = "store"
                                         /\ call[c].agent = a
                                         /\ call[c].op = "enable" \/ raced[c]
    BY DEF vars
  <2>1. PICK c \in Callers : /\ StoreProfile(c)
                             /\ call[c].agent = a
                             /\ call[c].op \in ProfileOps
                             /\ call[c].seen \in Profiles
                             /\ profile'[a] = Updated(call[c].op, call[c].seen)
    BY ProfileStep DEF Next
  <2>2. call[c].pc = "store"
    BY <2>1 DEF StoreProfile
  <2>3. CASE ~raced[c]
    <3>1. /\ call[c].seen = profile[a]
          /\ call[c].op # "start"
      BY <2>1, <2>2, <2>3 DEF RuntimeInv, FreshCopy
    <3>2. CASE call[c].op = "stop" \/ call[c].op = "fail"
      BY <2>1, <3>1, <3>2 DEF Updated, Profiles
    <3>3. CASE call[c].op = "disable"
      BY <2>1, <3>1, <3>3 DEF Updated, Profiles
    <3> QED BY <2>1, <2>2, <3>1, <3>2, <3>3 DEF ProfileOps
  <2> QED BY <2>1, <2>2, <2>3
<1> QED BY <1>1, RuntimeInvariant, PTL DEF Spec, DisabledStaysDown

(***************************************************************************)
(* The promise to the other services: every step is a step of Registry     *)
(* over the standing of the agents and the owners of the sessions.         *)
(***************************************************************************)
MappedStanding == [a \in Agents |-> StandingOf(a)]
MappedOwner == [s \in Sessions |-> OwnerOf(s)]

\* Only one agent changes its standing in a step that leaves the sessions alone.
LEMMA StandingStep ==
  ASSUME UNCHANGED session, NEW a \in Agents,
         \A b \in Agents \ {a} : profile'[b] = profile[b]
  PROVE  Promised!Next \/ UNCHANGED <<MappedStanding, MappedOwner, LiveSessions>>
<1>1. \A s \in Sessions : OwnerOf(s)' = OwnerOf(s)
  BY DEF OwnerOf
<1>2. MappedOwner' = MappedOwner /\ LiveSessions' = LiveSessions
  BY <1>1 DEF MappedOwner, LiveSessions
<1>3. \A b \in Agents \ {a} : StandingOf(b)' = StandingOf(b)
  BY DEF StandingOf, Fit
<1>4. StandingOf(a)' \in Promised!Standings
  BY DEF StandingOf, Promised!Standings
<1>5. MappedStanding' = [MappedStanding EXCEPT ![a] = StandingOf(a)']
  BY <1>3 DEF MappedStanding
<1>6. CASE StandingOf(a)' = StandingOf(a)
  BY <1>2, <1>5, <1>6 DEF MappedStanding
<1>7. CASE StandingOf(a)' # MappedStanding[a]
  <2>1. Promised!SetStanding(a, StandingOf(a)')
    BY <1>2, <1>5, <1>7 DEF Promised!SetStanding, MappedStanding, MappedOwner
  <2> QED BY <1>4, <2>1 DEF Promised!Next
<1> QED BY <1>6, <1>7 DEF MappedStanding

LEMMA OpenStep ==
  ASSUME RuntimeInv, NEW c \in Callers, NEW s \in Sessions, CreateSession(c, s)
  PROVE  Promised!Next
<1>1. /\ call[c].agent \in Agents
      /\ session[s] = None
      /\ session'[s] = [agent |-> call[c].agent, status |-> "active"]
      /\ \A t \in Sessions \ {s} : session'[t] = session[t]
      /\ profile' = profile
  BY CallShape DEF CreateSession, Free, RuntimeInv, TypeOK
<1>2. session'[s] # None
  BY <1>1, NoneAssumption DEF SessionRecords, SessionStatuses
<1>3. /\ OwnerOf(s) = None
      /\ OwnerOf(s)' = call[c].agent
      /\ \A t \in Sessions \ {s} : OwnerOf(t)' = OwnerOf(t)
  BY <1>1, <1>2 DEF OwnerOf
<1>4. MappedOwner' = [MappedOwner EXCEPT ![s] = call[c].agent]
  BY <1>3 DEF MappedOwner
<1>5. LiveSessions' = LiveSessions \cup {s}
  BY <1>1, <1>2 DEF LiveSessions, Usable
<1>6. MappedStanding' = MappedStanding
  BY <1>1 DEF MappedStanding, StandingOf, Fit
<1>7. Promised!Open(s, call[c].agent)
  BY <1>3, <1>4, <1>5, <1>6 DEF Promised!Open, MappedOwner, MappedStanding
<1> QED BY <1>1, <1>7 DEF Promised!Next

LEMMA TransitionStep ==
  ASSUME RuntimeInv, NEW c \in Callers, Transition(c)
  PROVE  Promised!Next \/ UNCHANGED <<MappedStanding, MappedOwner, LiveSessions>>
<1> DEFINE s == call[c].session
<1>1. /\ s \in Sessions
      /\ call[c].op \in SessionOps
      /\ session[s] \in SessionRecords
      /\ session[s] # None
  BY CallShape, NoneAssumption DEF Transition, RuntimeInv, LookedUp, Owns, TypeOK
<1>2. /\ session'[s] = [session[s] EXCEPT !.status = Target(call[c].op)]
      /\ \A t \in Sessions \ {s} : session'[t] = session[t]
      /\ profile' = profile
  BY <1>1 DEF Transition, RuntimeInv, TypeOK
<1>3. /\ session'[s] \in SessionRecords
      /\ session'[s].agent = session[s].agent
      /\ session'[s].status = Target(call[c].op)
  BY <1>1, <1>2, TargetType DEF SessionRecords
<1>4. session'[s] # None
  BY <1>3, NoneAssumption
<1>5. \A t \in Sessions : OwnerOf(t)' = OwnerOf(t)
  BY <1>1, <1>2, <1>3, <1>4 DEF OwnerOf
<1>6. MappedOwner' = MappedOwner /\ MappedStanding' = MappedStanding
  BY <1>2, <1>5 DEF MappedOwner, MappedStanding, StandingOf, Fit
<1>7. CASE Usable(session'[s].status)
  <2>1. Usable(session[s].status)
    BY <1>3, <1>7 DEF Transition, ValidTransition
  <2>2. LiveSessions' = LiveSessions
    BY <1>1, <1>2, <1>4, <1>7, <2>1 DEF LiveSessions
  <2> QED BY <1>6, <2>2
<1>8. CASE ~Usable(session'[s].status)
  <2>1. LiveSessions' = LiveSessions \ {s}
    BY <1>1, <1>2, <1>4, <1>8 DEF LiveSessions
  <2>2. CASE s \in LiveSessions
    <3>1. Promised!End(s)
      BY <1>6, <2>1, <2>2 DEF Promised!End, MappedOwner, MappedStanding
    <3> QED BY <1>1, <3>1 DEF Promised!Next
  <2>3. CASE s \notin LiveSessions
    BY <1>6, <2>1, <2>3
  <2> QED BY <2>2, <2>3
<1> QED BY <1>7, <1>8

\* A session keeps its agent and, once ended, stays ended, whatever calls of
\* whatever processes overlap: the runtime implements Registry.
THEOREM RuntimeImplementsRegistry == Spec => ImplementsRegistry
<1>1. Init => Promised!Init
  <2> SUFFICES ASSUME Init
               PROVE  Promised!Init
    OBVIOUS
  <2>1. \A a \in Agents : StandingOf(a) = "out"
    BY DEF Init, StandingOf, Fit
  <2>2. \A s \in Sessions : OwnerOf(s) = None
    BY DEF Init, OwnerOf
  <2>3. LiveSessions = {}
    BY DEF Init, LiveSessions
  <2> QED BY <2>1, <2>2, <2>3 DEF Promised!Init
<1>2. RuntimeInv /\ [Next]_vars => [Promised!Next]_(Promised!regVars)
  <2> SUFFICES ASSUME RuntimeInv, [Next]_vars
               PROVE  \/ Promised!Next
                      \/ UNCHANGED <<MappedStanding, MappedOwner, LiveSessions>>
    BY DEF Promised!regVars, MappedStanding, MappedOwner
  <2>1. CASE UNCHANGED <<profile, session>>
    BY <2>1 DEF MappedStanding, MappedOwner, LiveSessions, StandingOf, Fit, OwnerOf
  <2>2. CASE \E c \in Callers, a \in Agents : Register(c, a)
    <3>1. PICK a \in Agents : \A b \in Agents \ {a} : profile'[b] = profile[b]
      BY <2>2 DEF Register, RuntimeInv, TypeOK
    <3> QED BY <2>2, <3>1, StandingStep DEF Register
  <2>3. CASE \E c \in Callers : StoreProfile(c)
    <3>1. PICK a \in Agents : \A b \in Agents \ {a} : profile'[b] = profile[b]
      BY <2>3, CallShape DEF StoreProfile, RuntimeInv, TypeOK, Free
    <3> QED BY <2>3, <3>1, StandingStep DEF StoreProfile
  <2>4. CASE \E c \in Callers, s \in Sessions : CreateSession(c, s)
    BY <2>4, OpenStep
  <2>5. CASE \E c \in Callers : Transition(c)
    BY <2>5, TransitionStep
  <2> QED
    BY <2>1, <2>2, <2>3, <2>4, <2>5 DEF Next, Step, Request, LoadProfile, CheckOpen, LookUp,
       Resolve, Refuse, Break, FilesUnchanged, vars
<1> QED BY <1>1, <1>2, RuntimeInvariant, PTL DEF Spec, ImplementsRegistry, Promised!Spec

============================================================================
