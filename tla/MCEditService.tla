--------------------------- MODULE MCEditService ---------------------------
EXTENDS EditService, TLC

\* Agents and edit ids are interchangeable in every property.
MCSymmetry == Permutations(Agents) \cup Permutations(Edits)

\* What a step or a property but TypeOK can tell of a recorded outcome.
MCOutcome(outcome) ==
  CASE outcome = "none" -> "none"
    [] outcome \in {"restored", "already"} -> "out"
    [] OTHER -> "in"

\* The edits that a step may still ask the method of.
MCOpen ==
  {Edit(a) : a \in {b \in Agents : op[b].pc \in Preparing \cup Committing}}

\* The state without what no step and no property but TypeOK looks at: what
\* callers were told, or will be, and the method of an edit once committed.
MCView ==
  <<file, guarded, targets, captured, snapshot, bounds,
    [a \in Agents |->
       [op[a] EXCEPT !.clean = TRUE, !.outcome = MCOutcome(@)]],
    [e \in Edits |-> MCOutcome(provenance[e])],
    [e \in Edits |-> IF e \in MCOpen THEN method[e] ELSE "over"]>>
============================================================================
