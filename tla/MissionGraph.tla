----------------------------- MODULE MissionGraph -----------------------------
(***************************************************************************)
(* What a bootstrap promises of a mission's cards in Kanban: whatever is   *)
(* interrupted and repeated, a phase has one card; no card can be worked   *)
(* on before all of them exist and every dependency is an edge; and from   *)
(* then on the order of work is the one of the dependencies.               *)
(***************************************************************************)
CONSTANTS Phase, Deps

VARIABLES
  status,   \* the status of a phase's card, "none" before there is one
  edges     \* pairs of a dependency and the phase that waits for it

vars == <<status, edges>>

Roots == {p \in Phase : Deps[p] = {}}
Wanted == {e \in Phase \X Phase : e[1] \in Deps[e[2]]}
Whole == edges = Wanted /\ \A p \in Phase : status[p] # "none"

Init == status = [p \in Phase |-> "none"] /\ edges = {}

\* The graph grows by a card or an edge.
AddCard(p) ==
  /\ status[p] = "none"
  /\ status' = [status EXCEPT ![p] = "todo"]
  /\ UNCHANGED edges
AddEdge(e) ==
  /\ status[e[1]] # "none" /\ status[e[2]] # "none"
  /\ edges' = edges \cup {e}
  /\ UNCHANGED status

\* A root becomes visible to the workers, of a whole graph only.
Expose(p) ==
  /\ Whole
  /\ p \in Roots /\ status[p] = "todo"
  /\ status' = [status EXCEPT ![p] = "ready"]
  /\ UNCHANGED edges

\* Another phase follows its dependencies.
Release(p) ==
  /\ Whole
  /\ p \notin Roots /\ status[p] = "todo"
  /\ \A q \in Deps[p] : status[q] = "done"
  /\ status' = [status EXCEPT ![p] = "ready"]
  /\ UNCHANGED edges

\* A worker takes a phase, ends it, or gets stuck and is freed.
Work(p) ==
  /\ \E to \in {"running", "blocked", "done", "ready"} :
       /\ <<status[p], to>> \in {<<"ready", "running">>, <<"running", "done">>,
                                 <<"running", "blocked">>, <<"blocked", "ready">>}
       /\ status' = [status EXCEPT ![p] = to]
  /\ UNCHANGED edges

Next ==
  \/ \E p \in Phase : AddCard(p) \/ Expose(p) \/ Release(p) \/ Work(p)
  \/ \E e \in Wanted : AddEdge(e)

Spec == Init /\ [][Next]_vars

=============================================================================
