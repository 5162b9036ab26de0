------------------------ MODULE CollaborationProofs ------------------------
(***************************************************************************)
(* Theorems about Collaboration: what is validated before the lock and the *)
(* revision compared under it are enough, whatever calls overlap and       *)
(* however often they are sent.                                            *)
(***************************************************************************)
EXTENDS Collaboration, TLAPS

\* A revision seen is older than the one stored, or the record is unchanged.
SeenIsOld ==
  \A d \in Clients : deal[d].seen # None =>
    /\ record[deal[d].resource] # None
    /\ \/ deal[d].seen.revision < record[deal[d].resource].revision
       \/ deal[d].seen = record[deal[d].resource]

\* What a call that was applied had seen has been replaced.
AppliedIsOld ==
  \A d \in Clients : deal[d].applied =>
    /\ record[deal[d].resource] # None
    /\ deal[d].seen # None =>
         deal[d].seen.revision < record[deal[d].resource].revision

\* A call past the check of its agent has seen it enabled.
SeenEnabled ==
  \A d \in Clients :
    (deal[d].pc \in {"session", "resolve", "apply"} /\ Receives(deal[d].op)) => ~shut[d]

\* A session past its check belongs to the agent of the call.
SessionChecked ==
  \A d \in Clients :
    (deal[d].pc \in {"resolve", "apply"} /\ deal[d].session # None) =>
      owner[deal[d].session] = deal[d].agent

CollabInv ==
  TypeOK /\ RecordsCoherent /\ SeenIsOld /\ AppliedIsOld /\ SeenEnabled /\ SessionChecked

\* A client that is not idle has a call with all its fields.
LEMMA DealShape ==
  ASSUME TypeOK, NEW d \in Clients
  PROVE  /\ deal[d].pc # "idle" => deal[d] \in Deals
         /\ deal[d].pc = "idle" => deal[d] = NoDeal
         /\ deal[d] \in Deals => /\ deal[d].op \in DealOps
                                 /\ deal[d].resource \in Resources
                                 /\ deal[d].agent \in Agents
                                 /\ deal[d].to \in Agents \cup {None}
                                 /\ deal[d].session \in Sessions \cup {None}
                                 /\ deal[d].seen \in Records \cup {None}
                                 /\ deal[d].applied \in BOOLEAN
                                 /\ record[deal[d].resource] \in Records \cup {None}
  BY DEF TypeOK, NoDeal, Deals, Validating

\* Moving a call to its next check leaves the rest of it, and the other calls.
LEMMA GoOnEffect ==
  ASSUME TypeOK, NEW d \in Clients, NEW step \in Validating \cup {"apply", "answered"},
         deal[d].pc # "idle", GoOn(d, step)
  PROVE  /\ deal' = [deal EXCEPT ![d] = deal'[d]]
         /\ deal'[d] \in Deals
         /\ deal'[d].pc = step
         /\ deal'[d].op = deal[d].op
         /\ deal'[d].resource = deal[d].resource
         /\ deal'[d].agent = deal[d].agent
         /\ deal'[d].to = deal[d].to
         /\ deal'[d].session = deal[d].session
         /\ deal'[d].seen = deal[d].seen
         /\ deal'[d].applied = deal[d].applied
<1>1. deal[d] \in Deals
  BY DealShape
<1>2. deal' = [deal EXCEPT ![d] = [deal[d] EXCEPT !.pc = step]]
  BY DEF GoOn
<1>3. deal'[d] = [deal[d] EXCEPT !.pc = step]
  BY <1>2 DEF TypeOK
<1>4. deal'[d].pc = step
  BY <1>1, <1>3 DEF Deals
<1>5. deal'[d] \in Deals
  BY <1>1, <1>3 DEF Deals
<1>6. deal' = [deal EXCEPT ![d] = deal'[d]]
  BY <1>2, <1>3
<1> QED BY <1>1, <1>3, <1>4, <1>5, <1>6 DEF Deals

\* The record that a change leaves is the successor of the one that was seen.
Applies(d) == Assign(d) \/ Activate(d) \/ RequestHandoff(d) \/ Accept(d) \/ Release(d)

LEMMA ChangedEffect ==
  ASSUME TypeOK, NEW d \in Clients, deal[d] \in Deals, NEW new, Changed(d, new)
  PROVE  /\ record' = [record EXCEPT ![deal[d].resource] = new]
         /\ record'[deal[d].resource] = new
         /\ deal' = [deal EXCEPT ![d] = deal'[d]]
         /\ deal'[d] \in Deals
         /\ deal'[d].pc = "answered"
         /\ deal'[d].applied
         /\ deal'[d].op = deal[d].op
         /\ deal'[d].resource = deal[d].resource
         /\ deal'[d].agent = deal[d].agent
         /\ deal'[d].to = deal[d].to
         /\ deal'[d].session = deal[d].session
         /\ deal'[d].seen = deal[d].seen
<1>1. deal' = [deal EXCEPT ![d] = [deal[d] EXCEPT !.pc = "answered", !.applied = TRUE]]
  BY DEF Changed
<1>2. deal'[d] = [deal[d] EXCEPT !.pc = "answered", !.applied = TRUE]
  BY <1>1 DEF TypeOK
<1>3. deal[d].resource \in Resources
  BY DealShape
<1> QED BY <1>1, <1>2, <1>3 DEF Deals, TypeOK, Changed

\* Revisions are numbers, and so are their successors.
LEMMA RevisionSuccessor ==
  ASSUME NEW rec \in Records
  PROVE  rec.revision \in Nat /\ rec.revision + 1 \in Nat
  BY DEF Records

\* The new content of a record, operation by operation.
LEMMA NewRecord ==
  ASSUME TypeOK, NEW d \in Clients, Applies(d)
  PROVE  LET r == deal[d].resource IN
         /\ deal[d] \in Deals
         /\ deal[d].pc = "apply"
         /\ \E new : Changed(d, new)
         /\ record'[r] \in Records
         /\ record'[r].revision = NextRevision(record[r])
         /\ record[r] # None =>
              /\ deal[d].seen # None
              /\ deal[d].seen.revision = record[r].revision
         /\ \/ /\ deal[d].op = "assign"
               /\ record[r] # None => ~Held(record[r].state)
               /\ record'[r].owner = deal[d].agent
               /\ record'[r].session = deal[d].session
               /\ record'[r].pending = None
               /\ record'[r].state # "HandoffRequested"
            \/ /\ deal[d].op = "accept"
               /\ record[r] # None
               /\ record[r].pending = deal[d].agent
               /\ record'[r].owner = deal[d].agent
               /\ record'[r].session = None
               /\ record'[r].pending = None
               /\ record'[r].state # "HandoffRequested"
            \/ /\ record[r] # None
               /\ record'[r].owner = record[r].owner
               /\ record'[r].session = record[r].session
               /\ \/ /\ record'[r].state = "HandoffRequested"
                     /\ record'[r].pending \in Agents
                  \/ /\ record'[r].state # "HandoffRequested"
                     /\ record'[r].pending = None
                  \/ /\ record'[r].state = "Active"
                     /\ record[r].state # "HandoffRequested"
                     /\ record'[r].pending = record[r].pending
<1> DEFINE r == deal[d].resource
<1>1. /\ deal[d].pc = "apply"
      /\ deal[d] \in Deals
      /\ r \in Resources
      /\ record[r] \in Records \cup {None}
      /\ deal[d].seen # None \/ deal[d].op = "assign"
  BY DealShape DEF Applies, Assign, Matches, Activate, RequestHandoff, Accept, Release, TypeOK
<1>2. CASE Assign(d)
  <2> DEFINE new == [owner |-> deal[d].agent, session |-> deal[d].session,
                     state |-> "Assigned", pending |-> None,
                     revision |-> NextRevision(record[r])]
  <2>1. Changed(d, new) /\ deal[d].op = "assign"
    BY <1>2 DEF Assign, Current
  <2>2. new \in Records
    BY <1>1, DealShape DEF Records, OwnershipStates, NextRevision
  <2>3. record'[r] = new
    BY <1>1, <2>1, ChangedEffect
  <2> QED BY <1>1, <1>2, <2>1, <2>2, <2>3 DEF Assign, Current
<1>3. CASE Activate(d)
  <2> DEFINE new == [record[r] EXCEPT !.state = "Active", !.revision = @ + 1]
  <2>1. /\ Changed(d, new)
        /\ record[r] # None
        /\ record[r].revision = deal[d].seen.revision
        /\ deal[d].op # "assign"
        /\ record[r].state # "HandoffRequested"
    BY <1>3 DEF Activate, Matches, Current, ValidOwnership
  <2>2. record[r] \in Records
    BY <1>1, <2>1
  <2>3. record'[r] = new
    BY <1>1, <2>1, ChangedEffect
  <2>4. /\ new \in Records
        /\ new.state = "Active"
        /\ new.owner = record[r].owner
        /\ new.session = record[r].session
        /\ new.pending = record[r].pending
        /\ new.revision = record[r].revision + 1
    BY <2>2, RevisionSuccessor DEF Records, OwnershipStates
  <2> HIDE DEF new
  <2> QED BY <1>1, <2>1, <2>3, <2>4 DEF NextRevision
<1>4. CASE RequestHandoff(d)
  <2> DEFINE new == [record[r] EXCEPT !.state = "HandoffRequested", !.pending = deal[d].to,
                                      !.revision = @ + 1]
  <2>1. /\ Changed(d, new)
        /\ record[r] # None
        /\ record[r].revision = deal[d].seen.revision
        /\ deal[d].op = "handoff"
    BY <1>4 DEF RequestHandoff, Matches, Current
  <2>2. record[r] \in Records /\ deal[d].to \in Agents
    BY <1>1, <2>1 DEF TypeOK, Deals
  <2>3. record'[r] = new
    BY <1>1, <2>1, ChangedEffect
  <2>4. /\ new \in Records
        /\ new.state = "HandoffRequested"
        /\ new.owner = record[r].owner
        /\ new.session = record[r].session
        /\ new.pending = deal[d].to
        /\ new.revision = record[r].revision + 1
    BY <2>2, RevisionSuccessor DEF Records, OwnershipStates
  <2> HIDE DEF new
  <2> QED BY <1>1, <2>1, <2>2, <2>3, <2>4 DEF NextRevision
<1>5. CASE Accept(d)
  <2> DEFINE new == [record[r] EXCEPT !.state = "HandedOff", !.owner = deal[d].agent,
                                      !.session = None, !.pending = None,
                                      !.revision = @ + 1]
  <2>1. /\ Changed(d, new)
        /\ record[r] # None
        /\ record[r].pending = deal[d].agent
        /\ record[r].revision = deal[d].seen.revision
        /\ deal[d].op = "accept"
    BY <1>5 DEF Accept, Matches, Current
  <2>2. record[r] \in Records /\ deal[d].agent \in Agents
    BY <1>1, <2>1, DealShape
  <2>3. record'[r] = new
    BY <1>1, <2>1, ChangedEffect
  <2>4. /\ new \in Records
        /\ new.state = "HandedOff"
        /\ new.owner = deal[d].agent
        /\ new.session = None
        /\ new.pending = None
        /\ new.revision = record[r].revision + 1
    BY <2>2, RevisionSuccessor DEF Records, OwnershipStates
  <2> HIDE DEF new
  <2> QED BY <1>1, <2>1, <2>3, <2>4 DEF NextRevision
<1>6. CASE Release(d)
  <2> DEFINE new == [record[r] EXCEPT !.state = "Released", !.pending = None,
                                      !.revision = @ + 1]
  <2>1. /\ Changed(d, new)
        /\ record[r] # None
        /\ record[r].revision = deal[d].seen.revision
        /\ deal[d].op # "assign"
    BY <1>6 DEF Release, Matches, Current
  <2>2. record[r] \in Records
    BY <1>1, <2>1
  <2>3. record'[r] = new
    BY <1>1, <2>1, ChangedEffect
  <2>4. /\ new \in Records
        /\ new.state = "Released"
        /\ new.owner = record[r].owner
        /\ new.session = record[r].session
        /\ new.pending = None
        /\ new.revision = record[r].revision + 1
    BY <2>2, RevisionSuccessor DEF Records, OwnershipStates
  <2> HIDE DEF new
  <2> QED BY <1>1, <2>1, <2>3, <2>4 DEF NextRevision
<1> QED BY <1>2, <1>3, <1>4, <1>5, <1>6 DEF Applies

(***************************************************************************)
(* The four ways a client takes a step                                     *)
(***************************************************************************)
\* A new call, with the record as the client has just seen it.
Asks(d) ==
  /\ record' = record
  /\ deal' = [deal EXCEPT ![d] = deal'[d]]
  /\ deal'[d] \in Deals
  /\ deal'[d].pc = FirstCheck(deal'[d].op)
  /\ deal'[d].seen \in {record[deal'[d].resource], None}
  /\ deal'[d].seen = None => deal'[d].op = "assign"
  /\ deal'[d].op = "handoff" => deal'[d].to # None
  /\ ~deal'[d].applied

\* A call that goes on: what it has learned where it stands.
Advances(d, step) ==
  /\ GoOn(d, step)
  /\ deal[d].pc # "idle"
  /\ \/ deal[d].pc = "answered" /\ step = FirstCheck(deal[d].op)
     \/ deal[d].pc = "target" /\ step = "owner"
     \/ deal[d].pc = "owner" /\ Enabled(deal[d].agent) /\ step = AfterOwner(d)
     \/ /\ deal[d].pc = "session"
        /\ owner[deal[d].session] = deal[d].agent
        /\ step = "resolve"
     \/ deal[d].pc = "resolve" /\ step = "apply"
     \/ deal[d].pc # "answered" /\ deal[d].applied /\ step = "answered"

\* A call that ends without an effect is forgotten.
Forgets(d) == record' = record /\ deal' = [deal EXCEPT ![d] = NoDeal]

Steps == Validating \cup {"apply", "answered"}

LEMMA AskAsks ==
  ASSUME TypeOK, NEW d \in Clients, NEW op \in DealOps, NEW r \in Resources,
         NEW a \in Agents, NEW to \in Agents \cup {None}, NEW s \in Sessions \cup {None},
         Ask(d, op, r, a, to, s)
  PROVE  Asks(d)
<1>1. PICK seen \in {record[r], None} :
        /\ seen = None => op = "assign"
        /\ deal' = [deal EXCEPT ![d] =
             [pc |-> FirstCheck(op), op |-> op, resource |-> r, agent |-> a, to |-> to,
              session |-> s, seen |-> seen, applied |-> FALSE]]
  BY DEF Ask
<1>2. deal'[d] = [pc |-> FirstCheck(op), op |-> op, resource |-> r, agent |-> a, to |-> to,
                  session |-> s, seen |-> seen, applied |-> FALSE]
  BY <1>1 DEF TypeOK
<1>3. seen \in Records \cup {None} /\ FirstCheck(op) \in Validating
  BY DEF TypeOK, FirstCheck, Validating
<1>4. deal'[d] \in Deals
  BY <1>2, <1>3 DEF Deals
<1>5. deal' = [deal EXCEPT ![d] = deal'[d]]
  BY <1>1, <1>2
<1>6. /\ deal'[d].pc = FirstCheck(op) /\ deal'[d].op = op /\ deal'[d].resource = r
      /\ deal'[d].to = to /\ deal'[d].seen = seen /\ ~deal'[d].applied
  BY <1>2
<1>7. record' = record /\ (op = "handoff" => to # None)
  BY DEF Ask
<1> QED BY <1>1, <1>4, <1>5, <1>6, <1>7 DEF Asks

LEMMA ConcludeEnds ==
  ASSUME TypeOK, NEW d \in Clients, deal[d].pc \in Validating \cup {"apply"}, Conclude(d)
  PROVE  Forgets(d) \/ Advances(d, "answered")
<1>1. deal[d].pc # "idle" /\ deal[d].pc # "answered"
  BY DEF Validating
<1>2. CASE deal[d].applied
  BY <1>1, <1>2 DEF Conclude, Advances, GoOn
<1>3. CASE ~deal[d].applied
  BY <1>3 DEF Conclude, Forgets
<1> QED BY <1>2, <1>3

\* Every step of a client is one of the four.
LEMMA DealCases ==
  ASSUME TypeOK, DealStep
  PROVE  \E d \in Clients : \/ Asks(d)
                            \/ \E step \in Steps : Advances(d, step)
                            \/ Forgets(d)
                            \/ Applies(d)
<1>1. CASE \E d \in Clients, op \in DealOps \ {"handoff"}, r \in Resources, a \in Agents,
              s \in Sessions \cup {None} : Ask(d, op, r, a, None, s)
  BY <1>1, AskAsks
<1>2. CASE \E d \in Clients, r \in Resources, h \in Handoffs :
              Ask(d, "handoff", r, h[1], h[2], None)
  BY <1>2, AskAsks, CollaborationAssumption DEF DealOps
<1>3. ASSUME NEW d \in Clients, Replay(d)
      PROVE  \E step \in Steps : Advances(d, step)
  <2>1. FirstCheck(deal[d].op) \in Steps
    BY DEF FirstCheck, Steps, Validating
  <2> QED BY <1>3, <2>1 DEF Replay, Advances, GoOn
<1>4. ASSUME NEW d \in Clients,
             CheckTarget(d) \/ CheckOwner(d) \/ CheckSession(d) \/ ResolveOwner(d)
      PROVE  \E step \in Steps : Advances(d, step)
  <2>1. AfterOwner(d) \in Steps
    BY DEF AfterOwner, Steps, Validating
  <2>2. CASE CheckTarget(d)
    BY <2>2 DEF CheckTarget, Advances, Steps, Validating
  <2>3. CASE CheckOwner(d)
    BY <2>1, <2>3 DEF CheckOwner, Advances
  <2>4. CASE CheckSession(d)
    BY <2>4 DEF CheckSession, Advances, Steps, Validating
  <2>5. CASE ResolveOwner(d)
    BY <2>5 DEF ResolveOwner, Advances, Steps, Validating
  <2> QED BY <1>4, <2>2, <2>3, <2>4, <2>5
<1>5. ASSUME NEW d \in Clients, Deny(d) \/ RepeatHandoff(d)
      PROVE  Forgets(d) \/ \E step \in Steps : Advances(d, step)
  <2>1. deal[d].pc \in Validating \cup {"apply"} /\ Conclude(d)
    BY <1>5 DEF Deny, RepeatHandoff, Matches
  <2> QED BY <2>1, ConcludeEnds DEF Steps
<1> QED BY <1>1, <1>2, <1>3, <1>4, <1>5 DEF DealStep, Applies

\* What an advance keeps of the call, and where it can lead.
LEMMA AdvanceEffect ==
  ASSUME TypeOK, NEW d \in Clients, NEW step \in Steps, Advances(d, step)
  PROVE  /\ record' = record
         /\ deal[d] \in Deals
         /\ deal'[d] \in Deals
         /\ \A e \in Clients \ {d} : deal'[e] = deal[e]
         /\ deal'[d].pc = step
         /\ deal'[d].op = deal[d].op
         /\ deal'[d].resource = deal[d].resource
         /\ deal'[d].agent = deal[d].agent
         /\ deal'[d].to = deal[d].to
         /\ deal'[d].session = deal[d].session
         /\ deal'[d].seen = deal[d].seen
         /\ deal'[d].applied = deal[d].applied
<1>1. step \in Validating \cup {"apply", "answered"} /\ deal[d].pc # "idle" /\ GoOn(d, step)
  BY DEF Advances, Steps
<1>2. deal[d] \in Deals
  BY <1>1, DealShape
<1>3. \A e \in Clients \ {d} : deal'[e] = deal[e]
  BY <1>1 DEF GoOn, TypeOK
<1> QED BY <1>1, <1>2, <1>3, GoOnEffect DEF GoOn

(***************************************************************************)
(* Types                                                                   *)
(***************************************************************************)
\* What TypeOK says of one call.
DealOK(x) ==
  /\ x \in {NoDeal} \cup Deals
  /\ x.pc \in {"session", "resolve"} => x.session # None
  /\ x.pc = "target" => x.op = "handoff"
  /\ x.op = "handoff" => x.to # None
  /\ x.pc # "idle" => x.seen # None \/ x.op = "assign"

DealsOK ==
  /\ deal \in [Clients -> {NoDeal} \cup Deals]
  /\ \A d \in Clients : DealOK(deal[d])

LEMMA NoDealOK == DealOK(NoDeal)
  BY CollaborationAssumption DEF DealOK, NoDeal, Validating, DealOps

LEMMA TypeParts ==
  TypeOK <=> /\ standing \in [Agents -> Runtime!Standings]
             /\ owner \in [Sessions -> Agents \cup {None}]
             /\ live \subseteq Sessions
             /\ record \in [Resources -> Records \cup {None}]
             /\ shut \in [Clients -> BOOLEAN]
             /\ DealsOK
  BY DEF TypeOK, DealsOK, DealOK

\* A step that changes one call, and leaves it well formed.
LEMMA OneDeal ==
  ASSUME TypeOK, NEW d \in Clients, NEW x, DealOK(x), deal' = [deal EXCEPT ![d] = x]
  PROVE  DealsOK'
<1>1. DealsOK
  BY TypeParts
<1>2. deal' \in [Clients -> {NoDeal} \cup Deals]
  BY <1>1 DEF DealsOK, DealOK
<1>3. \A e \in Clients : deal'[e] = IF e = d THEN x ELSE deal[e]
  BY <1>1 DEF DealsOK
<1>4. ASSUME NEW e \in Clients
      PROVE  DealOK(deal'[e])
  BY <1>1, <1>3 DEF DealsOK
<1> QED BY <1>2, <1>4 DEF DealsOK, DealOK

LEMMA DealStepType ==
  ASSUME TypeOK, DealStep
  PROVE  DealsOK' /\ record' \in [Resources -> Records \cup {None}]
<1>1. PICK d \in Clients : \/ Asks(d)
                           \/ \E step \in Steps : Advances(d, step)
                           \/ Forgets(d)
                           \/ Applies(d)
  BY DealCases
<1>2. DealOK(deal[d])
  BY TypeParts DEF DealsOK
<1>3. CASE Asks(d)
  <2>1. DealOK(deal'[d])
    BY <1>3 DEF Asks, DealOK, FirstCheck, Validating
  <2> QED BY <1>3, <2>1, OneDeal DEF Asks, TypeOK
<1>4. ASSUME NEW step \in Steps, Advances(d, step)
      PROVE  DealsOK' /\ record' = record
  <2>1. /\ step = "session" => deal[d].session # None
        /\ step = "resolve" => deal[d].session # None
        /\ step = "target" => deal[d].op = "handoff"
    BY <1>2, <1>4 DEF DealOK, Advances, FirstCheck, AfterOwner
  <2>2. DealOK(deal'[d])
    BY <1>2, <1>4, <2>1, AdvanceEffect DEF DealOK, Advances
  <2>3. deal' = [deal EXCEPT ![d] = deal'[d]]
    BY <1>4, AdvanceEffect, GoOnEffect DEF Advances, GoOn, Steps
  <2> QED BY <1>4, <2>2, <2>3, OneDeal, AdvanceEffect
<1>5. CASE Forgets(d)
  BY <1>5, OneDeal, NoDealOK DEF Forgets, TypeOK
<1>6. CASE Applies(d)
  <2> DEFINE r == deal[d].resource
  <2>1. PICK new : Changed(d, new)
    BY <1>6, NewRecord
  <2>2. /\ deal[d] \in Deals
        /\ deal[d].pc = "apply"
        /\ r \in Resources
        /\ record'[r] \in Records
    BY <1>6, NewRecord, DealShape
  <2>3. /\ deal' = [deal EXCEPT ![d] = deal'[d]]
        /\ record' = [record EXCEPT ![r] = record'[r]]
        /\ deal'[d] \in Deals
        /\ deal'[d].pc = "answered"
        /\ deal'[d].op = deal[d].op
        /\ deal'[d].seen = deal[d].seen
        /\ deal'[d].to = deal[d].to
    BY <2>1, <2>2, ChangedEffect
  <2>4. DealOK(deal'[d])
    BY <1>2, <2>2, <2>3 DEF DealOK
  <2>5. DealsOK'
    BY <2>3, <2>4, OneDeal
  <2>6. record' \in [Resources -> Records \cup {None}]
    BY <2>2, <2>3 DEF TypeOK
  <2> QED BY <2>5, <2>6
<1> QED BY <1>1, <1>3, <1>4, <1>5, <1>6 DEF Asks, Forgets, TypeOK

(***************************************************************************)
(* Revisions                                                               *)
(***************************************************************************)
\* What the revisions tell about one call, given the records.
SeenOK(x) ==
  /\ x.seen # None =>
       /\ record[x.resource] # None
       /\ \/ x.seen.revision < record[x.resource].revision
          \/ x.seen = record[x.resource]
  /\ x.applied =>
       /\ record[x.resource] # None
       /\ x.seen # None => x.seen.revision < record[x.resource].revision

LEMMA SeenParts == SeenIsOld /\ AppliedIsOld <=> \A d \in Clients : SeenOK(deal[d])
  BY DEF SeenIsOld, AppliedIsOld, SeenOK

\* A change replaces one record, by one with the next revision.
LEMMA AppliesEffect ==
  ASSUME TypeOK, SeenIsOld, NEW d \in Clients, Applies(d)
  PROVE  LET r == deal[d].resource IN
         /\ deal[d] \in Deals
         /\ deal[d].pc = "apply"
         /\ r \in Resources
         /\ record[r] \in Records \cup {None}
         /\ record'[r] \in Records
         /\ record'[r] # None
         /\ record[r] # None => record[r].revision < record'[r].revision
         /\ deal[d].seen = record[r]
         /\ \A q \in Resources \ {r} : record'[q] = record[q]
         /\ \A e \in Clients \ {d} : deal'[e] = deal[e]
         /\ deal'[d] \in Deals
         /\ deal'[d].pc = "answered"
         /\ deal'[d].op = deal[d].op
         /\ deal'[d].resource = r
         /\ deal'[d].agent = deal[d].agent
         /\ deal'[d].session = deal[d].session
         /\ deal'[d].seen = deal[d].seen
<1> DEFINE r == deal[d].resource
<1>1. /\ deal[d] \in Deals
      /\ deal[d].pc = "apply"
      /\ r \in Resources
      /\ record[r] \in Records \cup {None}
      /\ record'[r] \in Records
      /\ record'[r].revision = NextRevision(record[r])
      /\ record[r] # None => /\ deal[d].seen # None
                            /\ deal[d].seen.revision = record[r].revision
      /\ deal[d].seen \in Records \cup {None}
  BY NewRecord, DealShape
<1>2. record'[r] # None
  BY <1>1, CollaborationAssumption
<1>3. record[r] # None => record[r].revision < record'[r].revision
  BY <1>1, RevisionSuccessor DEF NextRevision
<1>4. deal[d].seen = record[r]
  <2>1. CASE record[r] = None
    BY <2>1 DEF SeenIsOld
  <2>2. CASE record[r] # None
    <3>1. ~(deal[d].seen.revision < record[r].revision)
      BY <1>1, <2>2, RevisionSuccessor
    <3> QED BY <1>1, <2>2, <3>1 DEF SeenIsOld
  <2> QED BY <2>1, <2>2
<1>5. PICK new : Changed(d, new)
  BY NewRecord
<1>6. /\ \A q \in Resources \ {r} : record'[q] = record[q]
      /\ \A e \in Clients \ {d} : deal'[e] = deal[e]
  BY <1>5 DEF Changed, TypeOK
<1> QED BY <1>1, <1>2, <1>3, <1>4, <1>5, <1>6, ChangedEffect

LEMMA StepSeen ==
  ASSUME TypeOK, SeenIsOld, AppliedIsOld,
         (DealStep \/ UNCHANGED <<record, deal>>)
  PROVE  SeenIsOld' /\ AppliedIsOld'
<1>1. \A e \in Clients : SeenOK(deal[e])
  BY SeenParts
<1> SUFFICES ASSUME DealStep, NEW e \in Clients
             PROVE  SeenOK(deal[e])'
  BY <1>1 DEF SeenIsOld, AppliedIsOld, SeenOK
<1>2. PICK d \in Clients : \/ Asks(d)
                           \/ \E step \in Steps : Advances(d, step)
                           \/ Forgets(d)
                           \/ Applies(d)
  BY DealCases
<1>3. CASE Asks(d)
  <2>1. e # d => deal'[e] = deal[e]
    BY <1>3 DEF Asks, TypeOK
  <2>2. SeenOK(deal[d])'
    BY <1>3 DEF Asks, SeenOK
  <2> QED BY <1>1, <1>3, <2>1, <2>2 DEF SeenOK, Asks
<1>4. ASSUME NEW step \in Steps, Advances(d, step)
      PROVE  SeenOK(deal[e])'
  BY <1>1, <1>4, AdvanceEffect DEF SeenOK
<1>5. CASE Forgets(d)
  <2>1. deal'[e] = IF e = d THEN NoDeal ELSE deal[e]
    BY <1>5 DEF Forgets, TypeOK
  <2> QED BY <1>1, <1>5, <2>1 DEF Forgets, SeenOK, NoDeal
<1>6. CASE Applies(d)
  <2> DEFINE r == deal[d].resource
  <2>1. /\ record'[r] # None
        /\ record[r] # None => record[r].revision < record'[r].revision
        /\ record[r] \in Records \cup {None}
        /\ record'[r] \in Records
        /\ deal[d].seen = record[r]
        /\ \A q \in Resources \ {r} : record'[q] = record[q]
        /\ \A f \in Clients \ {d} : deal'[f] = deal[f]
        /\ deal'[d].resource = r
        /\ deal'[d].seen = deal[d].seen
    BY <1>6, AppliesEffect
  <2>2. CASE e = d
    BY <2>1, <2>2 DEF SeenOK
  <2>3. CASE e # d /\ deal[e].resource = r
    <3>1. deal'[e] = deal[e]
      BY <2>1, <2>3
    <3>2. ASSUME deal[e].seen # None
          PROVE  deal[e].seen.revision < record'[r].revision
      <4>1. deal[e].seen \in Records
        BY <3>2, DealShape DEF NoDeal
      <4>2. /\ record[r] # None
            /\ deal[e].seen.revision <= record[r].revision
        BY <1>1, <2>1, <2>3, <3>2, <4>1, RevisionSuccessor DEF SeenOK
      <4>3. /\ deal[e].seen.revision \in Nat
            /\ record[r].revision \in Nat
            /\ record'[r].revision \in Nat
        BY <2>1, <4>1, <4>2, RevisionSuccessor
      <4> QED BY <2>1, <4>2, <4>3
    <3> QED BY <2>1, <2>3, <3>1, <3>2 DEF SeenOK
  <2>4. CASE e # d /\ deal[e].resource # r
    <3>1. deal[e].pc = "idle" \/ deal[e].resource \in Resources
      BY DealShape
    <3>2. CASE deal[e].pc = "idle"
      BY <2>1, <2>4, <3>2, DealShape DEF SeenOK, NoDeal
    <3>3. CASE deal[e].resource \in Resources
      BY <1>1, <2>1, <2>4, <3>3 DEF SeenOK
    <3> QED BY <3>1, <3>2, <3>3
  <2> QED BY <2>2, <2>3, <2>4
<1> QED BY <1>2, <1>3, <1>4, <1>5, <1>6

(***************************************************************************)
(* Sessions and standings                                                  *)
(***************************************************************************)
\* The agent runtime never takes a session from its agent.
LEMMA RuntimeStep ==
  ASSUME TypeOK, Runtime!Next
  PROVE  /\ standing' \in [Agents -> Runtime!Standings]
         /\ owner' \in [Sessions -> Agents \cup {None}]
         /\ live' \subseteq Sessions
         /\ \A s \in Sessions : owner[s] # None => owner'[s] = owner[s]
<1>1. CASE \E a \in Agents, new \in Runtime!Standings : Runtime!SetStanding(a, new)
  BY <1>1 DEF TypeOK, Runtime!SetStanding
<1>2. CASE \E s \in Sessions, a \in Agents : Runtime!Open(s, a)
  BY <1>2 DEF TypeOK, Runtime!Open
<1>3. CASE \E s \in Sessions : Runtime!End(s)
  BY <1>3 DEF TypeOK, Runtime!End
<1> QED BY <1>1, <1>2, <1>3 DEF Runtime!Next

\* The session of a call under way belongs to its agent once it was checked.
LEMMA StepSession ==
  ASSUME TypeOK, SeenIsOld, SessionChecked,
         \A s \in Sessions : owner[s] # None => owner'[s] = owner[s],
         \/ DealStep
         \/ UNCHANGED deal
  PROVE  SessionChecked'
<1> SUFFICES ASSUME NEW e \in Clients,
                    deal'[e].pc \in {"resolve", "apply"}, deal'[e].session # None
             PROVE  owner'[deal'[e].session] = deal'[e].agent
  BY DEF SessionChecked
<1>1. ASSUME deal[e].pc # "idle", deal[e].session # None,
             owner[deal[e].session] = deal[e].agent
      PROVE  owner'[deal[e].session] = deal[e].agent
  BY <1>1, DealShape, CollaborationAssumption
<1>2. CASE deal'[e] = deal[e]
  BY <1>1, <1>2 DEF SessionChecked
<1>3. CASE DealStep /\ deal'[e] # deal[e]
  <2>1. PICK d \in Clients : \/ Asks(d)
                             \/ \E step \in Steps : Advances(d, step)
                             \/ Forgets(d)
                             \/ Applies(d)
    BY <1>3, DealCases
  <2>2. CASE Asks(d)
    BY <1>3, <2>2 DEF Asks, FirstCheck, TypeOK
  <2>3. ASSUME NEW step \in Steps, Advances(d, step)
        PROVE  owner'[deal'[e].session] = deal'[e].agent
    <3>1. e = d /\ step \in {"resolve", "apply"}
      BY <1>3, <2>3, AdvanceEffect
    <3>2. deal'[e].session = deal[e].session /\ deal'[e].agent = deal[e].agent
      BY <2>3, <3>1, AdvanceEffect
    <3>3. owner[deal[e].session] = deal[e].agent
      BY <2>3, <3>1, <3>2 DEF Advances, FirstCheck, AfterOwner, SessionChecked
    <3>4. deal[e].pc # "idle"
      BY <2>3, <3>1 DEF Advances
    <3> QED BY <1>1, <3>2, <3>3, <3>4
  <2>4. CASE Forgets(d)
    BY <1>3, <2>4 DEF Forgets, NoDeal, TypeOK
  <2>5. CASE Applies(d)
    BY <1>3, <2>5, AppliesEffect
  <2> QED BY <2>1, <2>2, <2>3, <2>4, <2>5
<1> QED BY <1>2, <1>3

\* A call past the check of its agent has seen it enabled.
LEMMA StepEnabled ==
  ASSUME TypeOK, SeenIsOld, SeenEnabled, Watch,
         \/ DealStep /\ UNCHANGED standing
         \/ UNCHANGED deal
  PROVE  SeenEnabled'
<1> SUFFICES ASSUME NEW e \in Clients,
                    deal'[e].pc \in {"session", "resolve", "apply"},
                    Receives(deal'[e].op)
             PROVE  ~shut'[e]
  BY DEF SeenEnabled, Receives
<1>1. shut'[e] = (shut[e] /\ ~EnabledForDeal(e)')
  BY DEF Watch
<1>2. CASE deal'[e] = deal[e]
  BY <1>1, <1>2 DEF SeenEnabled
<1>3. CASE DealStep /\ UNCHANGED standing /\ deal'[e] # deal[e]
  <2>1. PICK d \in Clients : \/ Asks(d)
                             \/ \E step \in Steps : Advances(d, step)
                             \/ Forgets(d)
                             \/ Applies(d)
    BY <1>3, DealCases
  <2>2. CASE Asks(d)
    BY <1>3, <2>2 DEF Asks, FirstCheck, TypeOK
  <2>3. ASSUME NEW step \in Steps, Advances(d, step)
        PROVE  ~shut'[e]
    <3>1. e = d /\ step \in {"session", "resolve", "apply"}
      BY <1>3, <2>3, AdvanceEffect
    <3>2. deal'[e].op = deal[e].op /\ deal'[e].agent = deal[e].agent
      BY <2>3, <3>1, AdvanceEffect
    <3>3. \/ deal[e].pc \in {"session", "resolve", "apply"}
          \/ Enabled(deal[e].agent)
      BY <2>3, <3>1 DEF Advances, FirstCheck
    <3>4. CASE deal[e].pc \in {"session", "resolve", "apply"}
      BY <1>1, <3>2, <3>4 DEF SeenEnabled
    <3>5. CASE Enabled(deal[e].agent)
      <4>1. EnabledForDeal(e)'
        BY <1>3, <3>2, <3>5 DEF EnabledForDeal, Enabled
      <4> QED BY <1>1, <4>1
    <3> QED BY <3>3, <3>4, <3>5
  <2>4. CASE Forgets(d)
    BY <1>3, <2>4 DEF Forgets, NoDeal, TypeOK
  <2>5. CASE Applies(d)
    BY <1>3, <2>5, AppliesEffect
  <2> QED BY <2>1, <2>2, <2>3, <2>4, <2>5
<1> QED BY <1>2, <1>3

\* A record keeps naming a session of its owner.
LEMMA StepCoherent ==
  ASSUME TypeOK, RecordsCoherent, SeenIsOld, SessionChecked,
         \A s \in Sessions : owner[s] # None => owner'[s] = owner[s],
         \/ DealStep
         \/ UNCHANGED record
  PROVE  RecordsCoherent'
<1> SUFFICES ASSUME NEW r \in Resources, record'[r] # None
             PROVE  /\ record'[r].state = "HandoffRequested" <=> record'[r].pending # None
                    /\ record'[r].session # None =>
                         owner'[record'[r].session] = record'[r].owner
  BY DEF RecordsCoherent
<1>1. ASSUME record[r] # None, record[r].session # None
      PROVE  owner'[record[r].session] = record[r].owner
  <2>1. record[r].session \in Sessions /\ record[r].owner \in Agents
    BY <1>1 DEF TypeOK, Records
  <2> QED BY <1>1, <2>1, CollaborationAssumption DEF RecordsCoherent
<1>2. CASE record'[r] = record[r]
  BY <1>1, <1>2 DEF RecordsCoherent
<1>3. CASE DealStep /\ record'[r] # record[r]
  <2>1. PICK d \in Clients : \/ Asks(d)
                             \/ \E step \in Steps : Advances(d, step)
                             \/ Forgets(d)
                             \/ Applies(d)
    BY <1>3, DealCases
  <2>2. Applies(d)
    BY <1>3, <2>1, AdvanceEffect DEF Asks, Forgets
  <2>3. r = deal[d].resource /\ deal[d].pc = "apply" /\ deal[d] \in Deals
    BY <1>3, <2>2, AppliesEffect
  <2>4. CASE /\ record'[r].owner = deal[d].agent
             /\ record'[r].session = deal[d].session
             /\ record'[r].pending = None
             /\ record'[r].state # "HandoffRequested"
    <3>1. ASSUME deal[d].session # None
          PROVE  owner'[deal[d].session] = deal[d].agent
      BY <2>3, <3>1, DealShape, CollaborationAssumption DEF SessionChecked
    <3> QED BY <2>4, <3>1
  <2>5. CASE /\ record'[r].session = None
             /\ record'[r].pending = None
             /\ record'[r].state # "HandoffRequested"
    BY <2>5
  <2>6. CASE /\ record[r] # None
             /\ record'[r].owner = record[r].owner
             /\ record'[r].session = record[r].session
             /\ \/ /\ record'[r].state = "HandoffRequested"
                   /\ record'[r].pending \in Agents
                \/ /\ record'[r].state # "HandoffRequested"
                   /\ record'[r].pending = None
                \/ /\ record'[r].state = "Active"
                   /\ record[r].state # "HandoffRequested"
                   /\ record'[r].pending = record[r].pending
    BY <1>1, <2>6, CollaborationAssumption DEF RecordsCoherent
  <2> QED BY <2>2, <2>3, <2>4, <2>5, <2>6, NewRecord
<1> QED BY <1>2, <1>3

(***************************************************************************)
(* The theorems                                                            *)
(***************************************************************************)
LEMMA InitCollab == Init => CollabInv
<1> SUFFICES ASSUME Init
             PROVE  CollabInv
  OBVIOUS
<1>1. deal = [d \in Clients |-> NoDeal] /\ record = [r \in Resources |-> None]
  BY DEF Init
<1>2. DealsOK
  BY <1>1, NoDealOK DEF DealsOK
<1>3. TypeOK
  BY <1>2, TypeParts DEF Init, Runtime!Init, Runtime!Standings
<1>4. RecordsCoherent
  BY <1>1 DEF RecordsCoherent
<1>5. SeenIsOld /\ AppliedIsOld /\ SeenEnabled /\ SessionChecked
  BY <1>1 DEF SeenIsOld, AppliedIsOld, SeenEnabled, SessionChecked, NoDeal
<1> QED BY <1>3, <1>4, <1>5 DEF CollabInv

LEMMA NextCollab ==
  ASSUME CollabInv, [Next]_vars
  PROVE  CollabInv'
<1>1. CASE UNCHANGED vars
  BY <1>1 DEF CollabInv, TypeOK, RecordsCoherent, SeenIsOld, AppliedIsOld, SeenEnabled,
              SessionChecked, vars
<1>2. CASE Next
  <2>1. Watch /\ shut' \in [Clients -> BOOLEAN]
    <3>1. \A d \in Clients : shut[d] \in BOOLEAN
      BY DEF CollabInv, TypeOK
    <3> QED BY <1>2, <3>1 DEF Next, Watch
  <2>2. CASE Runtime!Next /\ UNCHANGED <<record, deal>>
    <3>1. DealsOK'
      BY <2>2, TypeParts DEF CollabInv, DealsOK, DealOK
    <3>2. TypeOK'
      BY <2>1, <2>2, <3>1, RuntimeStep DEF CollabInv, TypeOK, DealsOK, DealOK
    <3> QED BY <2>1, <2>2, <3>2, RuntimeStep, StepSeen, StepEnabled, StepSession, StepCoherent
            DEF CollabInv
  <2>3. CASE DealStep /\ UNCHANGED <<standing, owner, live>>
    <3>1. TypeOK'
      BY <2>1, <2>3, DealStepType DEF CollabInv, TypeOK, DealsOK, DealOK
    <3> QED BY <2>1, <2>3, <3>1, StepSeen, StepEnabled, StepSession, StepCoherent
            DEF CollabInv
  <2> QED BY <1>2, <2>2, <2>3 DEF Next
<1> QED BY <1>1, <1>2

\* The inductive invariant of the collaboration service.
THEOREM CollabInvariant == Spec => []CollabInv
<1> QED BY InitCollab, NextCollab, PTL DEF Spec

\* Records and calls keep their shape, whatever the revisions reach.
THEOREM CollabTypeCorrect == Spec => []TypeOK
<1>1. CollabInv => TypeOK
  BY DEF CollabInv
<1> QED BY <1>1, CollabInvariant, PTL

\* A handoff is pending exactly while it is requested, and a record names no
\* session of an agent that is not its owner.
THEOREM RecordsStayCoherent == Spec => []RecordsCoherent
<1>1. CollabInv => RecordsCoherent
  BY DEF CollabInv
<1> QED BY <1>1, CollabInvariant, PTL

\* The record of a resource changes only in a step that applies a call to it.
LEMMA RecordStep ==
  ASSUME CollabInv, Next, NEW r \in Resources, record'[r] # record[r]
  PROVE  \E d \in Clients : Applies(d) /\ deal[d].resource = r
<1>1. DealStep
  BY DEF Next
<1>2. PICK d \in Clients : \/ Asks(d)
                           \/ \E step \in Steps : Advances(d, step)
                           \/ Forgets(d)
                           \/ Applies(d)
  BY <1>1, DealCases DEF CollabInv
<1>3. Applies(d)
  BY <1>2, AdvanceEffect DEF Asks, Forgets, CollabInv
<1> QED BY <1>3, AppliesEffect DEF CollabInv

\* The revision stands for the content: a client changes exactly the record it
\* has looked at, however many calls, releases and assignments lie between.
THEOREM ChangesApplyToWhatWasSeen == Spec => AppliedToSeen
<1> DEFINE ToSeen ==
      \A r \in Resources : record'[r] # record[r] =>
        \E d \in Clients : /\ deal[d].pc = "apply"
                           /\ deal[d].resource = r
                           /\ deal[d].seen = record[r]
<1>1. CollabInv /\ [Next]_vars => [ToSeen]_vars
  <2> SUFFICES ASSUME CollabInv, Next, NEW r \in Resources, record'[r] # record[r]
               PROVE  \E d \in Clients : /\ deal[d].pc = "apply"
                                         /\ deal[d].resource = r
                                         /\ deal[d].seen = record[r]
    BY DEF vars
  <2> QED BY RecordStep, AppliesEffect DEF CollabInv
<1> QED BY <1>1, CollabInvariant, PTL DEF Spec, AppliedToSeen

\* A call whose answer was lost can be sent again: it has no second effect.
THEOREM CallsApplyOnce == Spec => AppliedOnce
<1> DEFINE Once ==
      \A d \in Clients :
        (deal[d].pc = "apply" /\ deal[d].applied /\ deal'[d].pc = "answered") =>
          record' = record
<1>1. CollabInv /\ [Next]_vars => [Once]_vars
  <2> SUFFICES ASSUME CollabInv, Next, NEW d \in Clients,
                      deal[d].pc = "apply", deal[d].applied, deal'[d].pc = "answered"
               PROVE  record' = record
    BY DEF vars
  <2>1. CASE UNCHANGED record
    BY <2>1
  <2>2. CASE DealStep
    <3>1. PICK e \in Clients : \/ Asks(e)
                               \/ \E step \in Steps : Advances(e, step)
                               \/ Forgets(e)
                               \/ Applies(e)
      BY <2>2, DealCases DEF CollabInv
    <3>2. CASE Applies(e)
      <4>1. e = d
        BY <3>2, AppliesEffect DEF CollabInv
      <4>2. /\ record[deal[d].resource] # None
            /\ record[deal[d].resource] \in Records
            /\ deal[d].seen = record[deal[d].resource]
        BY <3>2, <4>1, AppliesEffect DEF CollabInv, AppliedIsOld
      <4>3. deal[d].seen.revision < record[deal[d].resource].revision
        BY <4>2 DEF CollabInv, AppliedIsOld
      <4> QED BY <4>2, <4>3, RevisionSuccessor
    <3> QED BY <3>1, <3>2, AdvanceEffect DEF Asks, Forgets, CollabInv
  <2> QED BY <2>1, <2>2 DEF Next
<1> QED BY <1>1, CollabInvariant, PTL DEF Spec, AppliedOnce

\* Whoever becomes the owner of a resource was enabled at some moment of the
\* call that made it so, and took a held resource only by the pending handoff.
THEOREM OwnersWereEnabled == Spec => OwnersAreEntitled
<1> DEFINE Entitled ==
      \A r \in Resources :
        (record'[r] # None /\ (record[r] = None \/ record'[r].owner # record[r].owner)) =>
          /\ \E d \in Clients : /\ deal[d].pc = "apply"
                                /\ Receives(deal[d].op)
                                /\ deal[d].agent = record'[r].owner
                                /\ ~shut[d]
          /\ (record[r] # None /\ Held(record[r].state)) =>
               record[r].pending = record'[r].owner
<1>1. CollabInv /\ [Next]_vars => [Entitled]_vars
  <2> SUFFICES ASSUME CollabInv, Next, NEW r \in Resources, record'[r] # None,
                      record[r] = None \/ record'[r].owner # record[r].owner
               PROVE  /\ \E d \in Clients : /\ deal[d].pc = "apply"
                                            /\ Receives(deal[d].op)
                                            /\ deal[d].agent = record'[r].owner
                                            /\ ~shut[d]
                      /\ (record[r] # None /\ Held(record[r].state)) =>
                           record[r].pending = record'[r].owner
    BY DEF vars
  <2>1. PICK d \in Clients : Applies(d) /\ deal[d].resource = r
    BY RecordStep
  <2>2. /\ Receives(deal[d].op)
        /\ deal[d].agent = record'[r].owner
        /\ (record[r] # None /\ Held(record[r].state)) =>
             record[r].pending = record'[r].owner
    BY <2>1, NewRecord DEF CollabInv, Receives
  <2>3. deal[d].pc = "apply" /\ ~shut[d]
    BY <2>1, <2>2, NewRecord DEF CollabInv, SeenEnabled
  <2> QED BY <2>2, <2>3
<1> QED BY <1>1, CollabInvariant, PTL DEF Spec, OwnersAreEntitled

============================================================================
