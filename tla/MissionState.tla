----------------------------- MODULE MissionState -----------------------------
(***************************************************************************)
(* A mission's manifest, and what a tick derives from it, the bindings and *)
(* one collection: which graphs of phases a manifest may declare, their    *)
(* order, the state of every phase, the outcome and the next phase.        *)
(*                                                                         *)
(* A collected card is one of a few kinds: "bare" is done without all of   *)
(* its required evidence, "other" has a status that the code does not      *)
(* know, "none" is a card that was not collected.  A review that runs is   *)
(* shown as "review" and is "running" here.                                *)
(***************************************************************************)
EXTENDS Naturals, Sequences, Functions

CONSTANTS
  Phase,
  KeyOrder,   \* the phases sorted by key
  Deps,       \* what each phase depends on, and
  Final       \* the final phase, as the manifest declares them

ASSUME MissionAssumption ==
  /\ KeyOrder \in Seq(Phase) /\ Final \in Phase /\ Deps \in [Phase -> SUBSET Phase]
  /\ \A p \in Phase : \E n \in 1..Len(KeyOrder) : KeyOrder[n] = p
  /\ \A m, n \in 1..Len(KeyOrder) : KeyOrder[m] = KeyOrder[n] => m = n

Kind == {"none", "todo", "ready", "running", "blocked", "failed", "bare", "other", "done"}
State == {"unknown", "failed", "blocked", "pending", "running", "ready", "done"}
Bad == {"unknown", "failed", "blocked"}

\* The phases that p depends on, directly or not, after at most n steps.
Ancestors(p) ==
  LET above[n \in 0..Len(KeyOrder)] ==
        IF n = 0 THEN Deps[p] ELSE above[n - 1] \cup UNION {Deps[q] : q \in above[n - 1]}
  IN  above[Len(KeyOrder)]

\* _validate_graph: no cycle, and the final phase is the only sink.
ValidGraph ==
  /\ \A p \in Phase : p \notin Ancestors(p)
  /\ \A p \in Phase : Final \notin Deps[p]
  /\ Phase = Ancestors(Final) \cup {Final}

ASSUME GraphAssumption == ValidGraph

\* Mutant: the phases are only sorted.
Order_Keys == KeyOrder

\* The phases of a set, sorted by key.
Sorted(ready) ==
  LET upto[n \in 0..Len(KeyOrder)] ==
        IF n = 0 THEN <<>>
        ELSE IF KeyOrder[n] \in ready THEN Append(upto[n - 1], KeyOrder[n]) ELSE upto[n - 1]
  IN  upto[Len(KeyOrder)]

\* What is not yet in a list, but all that it depends on is.
Unblocked(list) == {p \in Phase : p \notin Range(list) /\ Deps[p] \subseteq Range(list)}

\* topological_phases: wave after wave of the phases whose dependencies are in
\* earlier waves, each wave sorted by key.
Order ==
  LET wave[n \in 0..Len(KeyOrder)] ==
        IF n = 0 THEN <<>> ELSE wave[n - 1] \o Sorted(Unblocked(wave[n - 1]))
  IN  wave[Len(KeyOrder)]

\* Mutant: a status with no rule of its own is passed on.
StateOf_Raw(kind, done, needs) ==
  CASE kind = "none" -> "unknown"
    [] kind \in {"bare", "failed"} -> "failed"
    [] kind = "ready" /\ ~(needs \subseteq done) -> "pending"
    [] OTHER -> kind

\* The state of a phase, given the phases found done before it in the order.
StateOf(kind, done, needs) ==
  CASE kind = "none" -> "unknown"
    [] kind = "done" -> "done"
    [] kind \in {"bare", "failed"} -> "failed"
    [] kind = "blocked" -> "blocked"
    [] kind = "other" /\ needs \subseteq done -> "unknown"
    [] kind \in {"running", "ready"} /\ needs \subseteq done -> kind
    [] OTHER -> "pending"

\* derive_mission_state: the states of all phases, in the order of the graph.
States(kinds) ==
  LET before(p) ==
        {Order[n] : n \in {k \in 1..Len(Order) :
           kinds[Order[k]] = "done" /\ \E m \in k + 1..Len(Order) : Order[m] = p}}
  IN  [p \in Phase |-> StateOf(kinds[p], before(p), Deps[p])]

\* Mutant: the final phase alone decides that a mission is done.
Outcome_Final(states) ==
  IF states[Final] = "done" THEN "done"
  ELSE IF \E p \in Phase : states[p] = "unknown" THEN "unknown"
  ELSE IF \E p \in Phase : states[p] = "failed" THEN "failed"
  ELSE IF \E p \in Phase : states[p] = "blocked" THEN "blocked"
  ELSE "running"

Outcome(states) ==
  IF \E p \in Phase : states[p] = "unknown" THEN "unknown"
  ELSE IF \E p \in Phase : states[p] = "failed" THEN "failed"
  ELSE IF \E p \in Phase : states[p] = "blocked" THEN "blocked"
  ELSE IF \A p \in Phase : states[p] = "done" THEN "done"
  ELSE "running"

\* The first phase of the order that is not done, if there is one.
NextPhases(states) ==
  LET left == {n \in 1..Len(Order) : states[Order[n]] # "done"}
  IN  {Order[n] : n \in {k \in left : \A m \in left : k <= m}}

=============================================================================
