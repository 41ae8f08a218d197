------------------------------ MODULE Bootstrap ------------------------------
(***************************************************************************)
(* The apply of a mission's bootstrap: create a todo card for each phase,  *)
(* link the dependencies, read everything back, and then promote the       *)
(* roots.  Runs of the command exclude one another by a file lock that is  *)
(* not waited for.  A run may die anywhere and be repeated; each call of   *)
(* Hermes may fail, with or without its effect; and a call of a run that   *)
(* died may still take effect during a later run.                          *)
(*                                                                         *)
(* One mission and one manifest.                                           *)
(***************************************************************************)
EXTENDS Integers, Sequences, FiniteSets

CONSTANTS
  Phase,
  Plan,       \* the phases in topological order
  Deps,       \* the phases that a phase depends on
  Process,    \* runs of the command
  MaxFaults   \* bound: failures, crashes and changes by others

ASSUME BootstrapAssumption ==
  /\ Plan \in Seq(Phase) /\ Plan # <<>> /\ {Plan[n] : n \in 1..Len(Plan)} = Phase
  /\ Cardinality(Phase) = Len(Plan)
  /\ Deps \in [Phase -> SUBSET Phase]
  /\ \A m, n \in 1..Len(Plan) : Plan[m] \in Deps[Plan[n]] => m < n
  /\ MaxFaults \in Nat

VARIABLES
  cards,     \* Hermes' cards of the mission, in the order of creation
  bindings,  \* the ledger's: the card of each phase, 0 before it is bound
  intents,   \* the ledger's idempotency intents
  orphans,   \* calls of runs that died, which Hermes may still execute
  process,   \* the state of each run
  lost,      \* the ledger was lost when a card had been exposed, or soon would
  faults     \* failures, crashes and changes so far

vars == <<cards, bindings, intents, orphans, process, lost, faults>>

-----------------------------------------------------------------------------
(* Cards, calls and runs *)

\* One for each phase, and the copies that others make.
MaxCards == Len(Plan) + MaxFaults
Id == 1..MaxCards
Status == {"todo", "ready", "running", "blocked", "done"}
Exposed == {"ready", "running", "done"}
Card == [phase : Phase, status : Status, parents : SUBSET Id, intact : BOOLEAN, copy : BOOLEAN]

\* Mutant: the card is created ready.
CardFor_Ready(p) ==
  [phase |-> p, status |-> "ready", parents |-> {}, intact |-> TRUE, copy |-> FALSE]

\* The card that create_task asks for.
CardFor(p) == [phase |-> p, status |-> "todo", parents |-> {}, intact |-> TRUE, copy |-> FALSE]

Roots == {p \in Phase : Deps[p] = {}}
Bound == {p \in Phase : bindings[p] # 0}
Expected(p) == {bindings[q] : q \in Deps[p]}

\* The cards that carry a phase's idempotency key.
Keyed(p) == {i \in 1..Len(cards) : cards[i].phase = p}

Call ==
  [kind : {"create"}, phase : Phase] \cup
  [kind : {"link"}, parent : Id, child : Id] \cup [kind : {"promote"}, card : Id]
NoCall == [kind |-> "none"]

Pc == {"idle", "list", "card", "reconcile", "complete", "parents",
       "link", "linked", "readback", "verify", "root", "promote", "promoted", "call"}

Run ==
  [pc : Pc,
   n : 1..Len(Plan),                \* the item of the plan the stage has come to
   view : [Phase -> Id \cup {0, -1}],  \* what a listing selects for each phase
   known : BOOLEAN,                 \* the graph was bound before this run
   missing : SUBSET Id,             \* the parents still to be linked
   answer : Id \cup {0},            \* the identifier create answered
   call : Call \cup {NoCall},
   flawed : BOOLEAN]                \* the board had a flaw when the run began

RunIdle ==
  [pc |-> "idle", n |-> 1, view |-> [p \in Phase |-> 0], known |-> FALSE,
   missing |-> {}, answer |-> 0, call |-> NoCall, flawed |-> FALSE]

TypeOK ==
  /\ cards \in Seq(Card) /\ Len(cards) \in 0..MaxCards
  /\ bindings \in [Phase -> 0..Len(cards)]
  /\ \A p \in Bound : cards[bindings[p]].phase = p
  /\ intents \in [Phase -> {"none", "prepared", "completed"}]
  /\ orphans \subseteq Call
  /\ process \in [Process -> Run]
  /\ lost \in BOOLEAN
  /\ faults \in 0..MaxFaults

Init ==
  /\ cards = <<>>
  /\ bindings = [p \in Phase |-> 0]
  /\ intents = [p \in Phase |-> "none"]
  /\ orphans = {}
  /\ process = [x \in Process |-> RunIdle]
  /\ lost = FALSE
  /\ faults = 0

\* A card that was edited, or a key that two cards carry.
Flawed ==
  \E p \in Phase : Cardinality(Keyed(p)) > 1 \/ \E i \in Keyed(p) : ~cards[i].intact

\* Mutant: of several cards with the key the first is taken.
Select_First(p, require_todo) ==
  IF Keyed(p) = {} THEN 0
  ELSE LET i == CHOOSE k \in Keyed(p) : \A j \in Keyed(p) : k <= j
       IN  IF cards[i].intact /\ (require_todo => cards[i].status = "todo") THEN i ELSE -1

\* Mutant: the newest card is taken, whatever its key.
Select_Newest(p, require_todo) == Len(cards)

\* _select_candidate on a listing taken now: the one card with the key, 0 if
\* there is none, -1 if there are more or it is not as planned.
Select(p, require_todo) ==
  IF Keyed(p) = {} THEN 0
  ELSE LET i == CHOOSE k \in Keyed(p) : TRUE
       IN  IF /\ Cardinality(Keyed(p)) = 1
              /\ cards[i].intact
              /\ require_todo => cards[i].status = "todo"
           THEN i ELSE -1

Goes(x, me) == process' = [process EXCEPT ![x] = me]
Ends(x) == Goes(x, RunIdle)
Item(me) == Plan[me.n]

\* From item first on, the next item of a stage that looks at those in what; when
\* none is left, the next stage.
Following(me, first, what, pc, then) ==
  LET left == {n \in first..Len(Plan) : Plan[n] \in what}
  IN  IF left = {} THEN [me EXCEPT !.pc = then, !.n = 1]
      ELSE [me EXCEPT !.pc = pc, !.n = CHOOSE n \in left : \A k \in left : n <= k]
After(me, what, pc, then) == Following(me, me.n + 1, what, pc, then)

-----------------------------------------------------------------------------
(* Stage 1: cards *)

\* bootstrap_lock: an exclusive lock, or an error at once.
LockFree == \A x \in Process : process[x].pc = "idle"

\* A run takes the lock and reads the bindings.
Start(x) ==
  /\ process[x].pc = "idle" /\ LockFree
  /\ Goes(x, [RunIdle EXCEPT !.pc = "list", !.known = Bound = Phase, !.flawed = Flawed])
  /\ UNCHANGED <<cards, bindings, intents, orphans, lost, faults>>

\* The board is listed once for the selection of cards.
ListExisting(x) ==
  /\ process[x].pc = "list"
  /\ LET me == [process[x] EXCEPT !.view = [p \in Phase |-> Select(p, TRUE)]]
     IN  Goes(x, Following(me, 1, Phase \ Bound, "card", "parents"))
  /\ UNCHANGED <<cards, bindings, intents, orphans, lost, faults>>

\* A card of the listing is taken over and bound, or refused; without one the
\* intent to create it is written.
Choose(x) ==
  /\ process[x].pc = "card"
  /\ LET me == process[x] IN
     \/ /\ me.view[Item(me)] > 0
        /\ bindings' = [bindings EXCEPT ![Item(me)] = me.view[Item(me)]]
        /\ Goes(x, [me EXCEPT !.pc = "complete"])
        /\ UNCHANGED intents
     \/ me.view[Item(me)] = -1 /\ Ends(x) /\ UNCHANGED <<bindings, intents>>
     \/ /\ me.view[Item(me)] = 0
        /\ intents' = [intents EXCEPT ![Item(me)] = IF @ = "none" THEN "prepared" ELSE @]
        /\ Goes(x, [me EXCEPT !.pc = "call",
                              !.call = [kind |-> "create", phase |-> Item(me)]])
        /\ UNCHANGED bindings
  /\ UNCHANGED <<cards, orphans, lost, faults>>

\* The new card is looked up and bound, whether create answered or not.
Reconcile(x) ==
  /\ process[x].pc = "reconcile"
  /\ LET me == process[x]
         i == Select(Item(me), TRUE)
     IN  IF i > 0 /\ me.answer \in {0, i}
         THEN /\ bindings' = [bindings EXCEPT ![Item(me)] = i]
              /\ Goes(x, [me EXCEPT !.pc = "complete", !.answer = 0])
         ELSE Ends(x) /\ UNCHANGED bindings
  /\ UNCHANGED <<cards, intents, orphans, lost, faults>>

\* The intent, if there is one, is completed.
Complete(x) ==
  /\ process[x].pc = "complete"
  /\ LET me == process[x] IN
       /\ intents' = [intents EXCEPT ![Item(me)] = IF @ = "none" THEN @ ELSE "completed"]
       /\ Goes(x, After(me, Phase \ Bound, "card", "parents"))
  /\ UNCHANGED <<cards, bindings, orphans, lost, faults>>

-----------------------------------------------------------------------------
(* Stage 2: edges *)

\* On to the next parent, or the next item, or the next stage.
NextLink(me) ==
  IF me.missing # {} THEN [me EXCEPT !.pc = "link"] ELSE After(me, Phase, "parents", "readback")

\* The parents of a card are read; unexpected ones end the run.
ReadParents(x) ==
  /\ process[x].pc = "parents"
  /\ LET me == process[x]
         current == cards[bindings[Item(me)]].parents
     IN  IF current \subseteq Expected(Item(me))
         THEN Goes(x, NextLink([me EXCEPT !.missing = Expected(Item(me)) \ current]))
         ELSE Ends(x)
  /\ UNCHANGED <<cards, bindings, intents, orphans, lost, faults>>

\* The next missing parent is linked.
Link(x) ==
  /\ process[x].pc = "link"
  /\ LET me == process[x]
         parent == CHOOSE i \in me.missing : \A k \in me.missing : i <= k
     IN  Goes(x, [me EXCEPT !.pc = "call", !.missing = @ \ {parent},
                    !.call = [kind |-> "link", parent |-> parent, child |-> bindings[Item(me)]]])
  /\ UNCHANGED <<cards, bindings, intents, orphans, lost, faults>>

\* Without an answer the parents are read again.
ReadLinked(x) ==
  /\ process[x].pc = "linked"
  /\ LET me == process[x] IN
       IF me.call.parent \in cards[me.call.child].parents
       THEN Goes(x, NextLink([me EXCEPT !.call = NoCall])) ELSE Ends(x)
  /\ UNCHANGED <<cards, bindings, intents, orphans, lost, faults>>

-----------------------------------------------------------------------------
(* Stage 3: read-back *)

\* Mutant: a repeated run also wants every card still to be done.
RequireTodo_Always(me) == TRUE

\* Cards that were bound before the run may be worked on already.
RequireTodo(me) == ~me.known

\* Every card is the bound one.
Readback(x) ==
  /\ process[x].pc = "readback"
  /\ LET me == process[x] IN
       IF \A p \in Phase : Select(p, RequireTodo(me)) = bindings[p]
       THEN Goes(x, [me EXCEPT !.pc = "verify", !.n = 1]) ELSE Ends(x)
  /\ UNCHANGED <<cards, bindings, intents, orphans, lost, faults>>

\* The edges of one card are the planned ones.
EdgesExact(p) == cards[bindings[p]].parents = Expected(p)

\* One card after the other.
Verify(x) ==
  /\ process[x].pc = "verify"
  /\ LET me == process[x] IN
       IF EdgesExact(Item(me))
       THEN Goes(x, IF me.n < Len(Plan) THEN [me EXCEPT !.n = @ + 1]
                    ELSE Following(me, 1, Roots, "root", "idle"))
       ELSE Ends(x)
  /\ UNCHANGED <<cards, bindings, intents, orphans, lost, faults>>

-----------------------------------------------------------------------------
(* Stage 4: roots *)

\* The next root, or the end of the run, which gives up the lock.
NextRoot(me) ==
  LET to == After(me, Roots, "root", "idle") IN IF to.pc = "idle" THEN RunIdle ELSE to

\* The status of a root is read: it is promoted if it is still to be done, and
\* one that is neither that nor exposed ends the run.
ReadRoot(x) ==
  /\ process[x].pc = "root"
  /\ LET me == process[x]
         i == bindings[Item(me)]
     IN  Goes(x, IF cards[i].status \in Exposed THEN NextRoot(me)
                 ELSE IF cards[i].status = "todo"
                 THEN [me EXCEPT !.pc = "call", !.call = [kind |-> "promote", card |-> i]]
                 ELSE RunIdle)
  /\ UNCHANGED <<cards, bindings, intents, orphans, lost, faults>>

\* Without an answer the status is read again.
ReadPromoted(x) ==
  /\ process[x].pc = "promoted"
  /\ LET me == process[x] IN
       IF cards[me.call.card].status \in Exposed
       THEN Goes(x, NextRoot([me EXCEPT !.call = NoCall])) ELSE Ends(x)
  /\ UNCHANGED <<cards, bindings, intents, orphans, lost, faults>>

-----------------------------------------------------------------------------
(* External: Hermes' side of a call *)

\* Mutant: the key of a create is not one of the phase alone, and finds no card.
Executed_NewKey(call) ==
  CASE call.kind = "create" -> Append(cards, CardFor(call.phase))
    [] call.kind = "link" -> [cards EXCEPT ![call.child].parents = @ \cup {call.parent}]
    [] call.kind = "promote" ->
         IF cards[call.card].status = "todo"
         THEN [cards EXCEPT ![call.card].status = "ready"] ELSE cards

\* What a call does.  A create whose key exists answers the card that has it.
Executed(call) ==
  CASE call.kind = "create" ->
         IF Keyed(call.phase) # {} THEN cards ELSE Append(cards, CardFor(call.phase))
    [] call.kind = "link" -> [cards EXCEPT ![call.child].parents = @ \cup {call.parent}]
    [] call.kind = "promote" ->
         IF cards[call.card].status = "todo"
         THEN [cards EXCEPT ![call.card].status = "ready"] ELSE cards

\* What the run does with the answer, or without one.
Answered(me, ok) ==
  CASE me.call.kind = "create" ->
         [me EXCEPT !.pc = "reconcile", !.call = NoCall,
            !.answer = IF ~ok THEN 0
                       ELSE IF Keyed(me.call.phase) = {} THEN Len(cards) + 1
                       ELSE CHOOSE i \in Keyed(me.call.phase) :
                              \A k \in Keyed(me.call.phase) : i <= k]
    [] me.call.kind = "link" ->
         IF ok THEN NextLink([me EXCEPT !.call = NoCall]) ELSE [me EXCEPT !.pc = "linked"]
    [] me.call.kind = "promote" ->
         IF ok THEN NextRoot([me EXCEPT !.call = NoCall]) ELSE [me EXCEPT !.pc = "promoted"]

\* The call is executed, and its answer arrives.
Execute(x) ==
  /\ process[x].pc = "call"
  /\ cards' = Executed(process[x].call)
  /\ Goes(x, Answered(process[x], TRUE))
  /\ UNCHANGED <<bindings, intents, orphans, lost, faults>>

Fault == faults < MaxFaults /\ faults' = faults + 1

\* The call fails or times out, with or without its effect.
ExecuteFails(x) ==
  /\ process[x].pc = "call" /\ Fault
  /\ \/ cards' = Executed(process[x].call)
     \/ UNCHANGED cards
  /\ Goes(x, Answered(process[x], FALSE))
  /\ UNCHANGED <<bindings, intents, orphans, lost>>

\* The run dies, or a reading call fails and ends it.
ReadFails(x) ==
  /\ process[x].pc \notin {"idle", "call"} /\ Fault
  /\ Ends(x)
  /\ UNCHANGED <<cards, bindings, intents, orphans, lost>>

\* The run dies during a call, which lives on and may take effect.
Crash(x) ==
  /\ process[x].pc = "call" /\ Fault
  /\ Ends(x)
  /\ orphans' = orphans \cup {process[x].call}
  /\ UNCHANGED <<cards, bindings, intents, lost>>

\* That call is executed, late.
ExecuteOrphan ==
  /\ \E call \in orphans :
       cards' = Executed(call) /\ orphans' = orphans \ {call}
  /\ UNCHANGED <<bindings, intents, process, lost, faults>>

-----------------------------------------------------------------------------
(* External: workers and the operator *)

Moves(i, to) == cards' = [cards EXCEPT ![i].status = to]

\* Hermes makes a card ready when its parents are done, and workers take it,
\* finish it, or are stuck until somebody frees it.
Work(i) ==
  /\ \/ /\ cards[i].status = "todo" /\ cards[i].parents # {}
        /\ \A k \in cards[i].parents : cards[k].status = "done"
        /\ Moves(i, "ready")
     \/ cards[i].status = "ready" /\ Moves(i, "running")
     \/ cards[i].status = "running" /\ (Moves(i, "done") \/ Moves(i, "blocked"))
     \/ cards[i].status = "blocked" /\ Moves(i, "ready")
  /\ UNCHANGED <<bindings, intents, orphans, process, lost, faults>>

\* Somebody edits a card, or copies one with its body and so its key.
Tamper(i) ==
  /\ Fault
  /\ \/ cards[i].intact /\ cards' = [cards EXCEPT ![i].intact = FALSE]
     \/ cards' = Append(cards, [CardFor(cards[i].phase) EXCEPT !.copy = TRUE])
  /\ UNCHANGED <<bindings, intents, orphans, process, lost>>

\* The ledger is lost between runs, and the next one makes a new one.
LoseLedger ==
  /\ Fault /\ LockFree /\ Bound # {}
  /\ bindings' = [p \in Phase |-> 0]
  /\ intents' = [p \in Phase |-> "none"]
  /\ lost' = \/ lost
             \/ \E i \in 1..Len(cards) : cards[i].status # "todo"
             \/ \E call \in orphans : call.kind = "promote"
  /\ UNCHANGED <<cards, orphans, process>>

-----------------------------------------------------------------------------
Steps(x) ==
  \/ ListExisting(x) \/ Choose(x) \/ Reconcile(x) \/ Complete(x)
  \/ ReadParents(x) \/ Link(x) \/ ReadLinked(x) \/ Readback(x) \/ Verify(x)
  \/ ReadRoot(x) \/ ReadPromoted(x) \/ Execute(x)

Next ==
  \/ \E x \in Process : Start(x) \/ Steps(x) \/ ExecuteFails(x) \/ ReadFails(x) \/ Crash(x)
  \/ ExecuteOrphan
  \/ \E i \in 1..Len(cards) : Work(i) \/ Tamper(i)
  \/ LoseLedger

\* A run goes on, and the operator repeats the command.
Fairness == \A x \in Process : WF_vars(Start(x)) /\ WF_vars(Steps(x))

Spec == Init /\ [][Next]_vars /\ Fairness

-----------------------------------------------------------------------------
(* Properties *)

\* The card of a phase is the first with its key; later ones are copies.
First(p) == CHOOSE i \in Keyed(p) : \A k \in Keyed(p) : i <= k
StatusOf(p) == IF Keyed(p) = {} THEN "none" ELSE cards[First(p)].status
Drawn(p, q) == Keyed(p) # {} /\ Keyed(q) # {} /\ First(p) \in cards[First(q)].parents

Graph == INSTANCE MissionGraph WITH
  status <- [p \in Phase |-> StatusOf(p)],
  edges <- {e \in Phase \X Phase : Drawn(e[1], e[2])}

\* The cards of a phase that a create has made.
Created(p) == {i \in Keyed(p) : ~cards[i].copy}

\* The bootstrap implements its promise, whatever is lost, repeated or late: nothing
\* is exposed before the graph is whole; and no phase has two cards beside the copies
\* that others make, neither from a run that repeats a create whose answer was lost
\* nor from the create of a dead run that comes late.
ImplementsGraph ==
  /\ Graph!Spec
  /\ [](\A p \in Phase : \A i, j \in Created(p) : i = j)

\* A run that found a card edited, or a key twice, exposes nothing.
FlawIsNotExposed ==
  \A x \in Process :
    process[x].flawed => process[x].pc \notin {"root", "promoted"}
                         /\ process[x].call.kind # "promote"

\* Once failures end, a bootstrap that is repeated is completed, unless a card
\* was tampered with, the ledger was lost after the first root was promoted, or
\* a root is blocked again and again.
BootstrapCompletes ==
  [](~Flawed /\ ~lost) /\ <>[](\A p \in Roots : StatusOf(p) # "blocked")
    => <>(\A p \in Roots : StatusOf(p) \notin {"none", "todo"})

=============================================================================
