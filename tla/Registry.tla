------------------------------ MODULE Registry ------------------------------
(***************************************************************************)
(* What the agent runtime promises to the services that consult it: the    *)
(* standing of an agent may change at any moment, but a session is opened  *)
(* once, belongs to its agent for ever, and once ended stays ended.        *)
(***************************************************************************)
CONSTANTS Agents, Sessions, None

VARIABLES
  standing,  \* of each agent
  owner,     \* the agent of each session, or None before it is opened
  live       \* the sessions that may be used

regVars == <<standing, owner, live>>

\* A fit agent is enabled and active, an idle one enabled but not active; an
\* agent without a profile, or with a disabled one, is out.
Standings == {"out", "idle", "fit"}

Init ==
  /\ standing = [a \in Agents |-> "out"]
  /\ owner = [s \in Sessions |-> None]
  /\ live = {}

SetStanding(a, new) ==
  /\ new # standing[a]
  /\ standing' = [standing EXCEPT ![a] = new]
  /\ UNCHANGED <<owner, live>>

Open(s, a) ==
  /\ owner[s] = None
  /\ owner' = [owner EXCEPT ![s] = a]
  /\ live' = live \cup {s}
  /\ UNCHANGED standing

End(s) ==
  /\ s \in live
  /\ live' = live \ {s}
  /\ UNCHANGED <<standing, owner>>

Next ==
  \/ \E a \in Agents, new \in Standings : SetStanding(a, new)
  \/ \E s \in Sessions, a \in Agents : Open(s, a)
  \/ \E s \in Sessions : End(s)

Spec == Init /\ [][Next]_regVars
=============================================================================
