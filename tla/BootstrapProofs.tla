---------------------------- MODULE BootstrapProofs ----------------------------
(***************************************************************************)
(* Theorems about the mission bootstrap, for every mission, any number of  *)
(* runs and any number of failures: types, that a run that found a flaw on *)
(* the board exposes nothing, and that the bootstrap implements the        *)
(* promise of MissionGraph.                                                *)
(***************************************************************************)
EXTENDS Bootstrap, FiniteSetTheorems, WellFoundedInduction, TLAPS

-----------------------------------------------------------------------------
(* The plan and its items *)

\* A set of natural numbers that is not empty has a least element.
LEMMA LeastExists ==
  ASSUME NEW S \in SUBSET Nat, S # {}
  PROVE  \E i \in S : \A k \in S : i <= k
  <1>1. PICK i \in S : \A k \in S : ~(<<k, i>> \in OpToRel(<, Nat))
    BY NatLessThanWellFounded, WFMin, Zenon
  <1>2. \A k \in S : ~(k < i)
    BY <1>1 DEF OpToRel
  <1>3. QED BY <1>2

\* There are finitely many phases, as many as the plan has items.
LEMMA PhasesFinite ==
  IsFiniteSet(Phase) /\ Cardinality(Phase) = Len(Plan) /\ Len(Plan) \in Nat \ {0}
  <1>1. Plan \in Surjection(1..Len(Plan), Phase) /\ Len(Plan) \in Nat \ {0}
    BY BootstrapAssumption DEF Surjection
  <1>2. IsFiniteSet(1..Len(Plan))
    BY <1>1, FS_Interval
  <1>3. QED BY <1>1, <1>2, FS_Surjection, BootstrapAssumption

\* The run goes to the next item of a stage, from the first on, or to the next stage.
Passes(me, first, what, pc, then, to) ==
  \/ /\ \A m \in first..Len(Plan) : Plan[m] \notin what
     /\ to = [me EXCEPT !.pc = then, !.n = 1]
  \/ \E n \in first..Len(Plan) :
       /\ Plan[n] \in what
       /\ \A m \in first..n - 1 : Plan[m] \notin what
       /\ to = [me EXCEPT !.pc = pc, !.n = n]

\* That is what Following computes.
LEMMA FollowingPasses ==
  ASSUME NEW me, NEW first \in Nat \ {0}, NEW what, NEW pc, NEW then
  PROVE  Passes(me, first, what, pc, then, Following(me, first, what, pc, then))
  <1> DEFINE left == {n \in first..Len(Plan) : Plan[n] \in what}
             least == CHOOSE n \in left : \A k \in left : n <= k
  <1>1. CASE left = {}
    BY <1>1 DEF Following, Passes
  <1>2. CASE left # {}
    <2>1. left \in SUBSET Nat
      BY PhasesFinite
    <2>2. least \in left /\ \A m \in left : least <= m
      BY <1>2, <2>1, LeastExists
    <2>3. Following(me, first, what, pc, then) = [me EXCEPT !.pc = pc, !.n = least]
      BY <1>2 DEF Following
    <2> HIDE DEF least
    <2>4. \A m \in first..least - 1 : Plan[m] \notin what
      <3>1. SUFFICES ASSUME NEW m \in first..least - 1, Plan[m] \in what PROVE FALSE
        OBVIOUS
      <3>2. m \in left /\ m < least
        BY <2>1, <2>2, <3>1, PhasesFinite
      <3>3. QED BY <2>1, <2>2, <3>2
    <2>5. QED BY <2>2, <2>3, <2>4 DEF Passes
  <1>3. QED BY <1>1, <1>2

-----------------------------------------------------------------------------
(* What a step makes of the cards *)

\* No card is removed, given to another phase or mended.
Grown(cs, ds) ==
  /\ Len(cs) <= Len(ds)
  /\ \A i \in 1..Len(cs) : ds[i].phase = cs[i].phase /\ (ds[i].intact => cs[i].intact)

\* The phases that have a card.
Carded == {p \in Phase : Keyed(p) # {}}

\* There is one card for each of them, and one more for each copy.
Counted == Len(cards) <= Cardinality(Carded) + faults

\* The cards with a phase's key are among the cards, and finitely many.
LEMMA KeyedTyped ==
  ASSUME TypeOK, NEW p
  PROVE  /\ Keyed(p) \in SUBSET (1..Len(cards)) /\ Keyed(p) \in SUBSET Nat
         /\ Keyed(p) \subseteq Id
         /\ IsFiniteSet(Keyed(p)) /\ Cardinality(Keyed(p)) \in Nat
  <1>1. Len(cards) \in Nat /\ Len(cards) <= MaxCards /\ MaxCards \in Nat
    BY PhasesFinite, BootstrapAssumption DEF TypeOK, MaxCards
  <1>2. Keyed(p) \in SUBSET (1..Len(cards)) /\ IsFiniteSet(1..Len(cards))
    BY <1>1, FS_Interval DEF Keyed
  <1>3. QED BY <1>1, <1>2, FS_Subset, FS_CardinalityType DEF Id

\* The bound on cards holds on: a new card is the first of its phase, or a copy.
LEMMA CountedStep ==
  ASSUME TypeOK, Counted, cards' \in Seq(Card), Grown(cards, cards'), faults' \in 0..MaxFaults,
         faults <= faults',
         \/ Len(cards') = Len(cards)
         \/ Len(cards') = Len(cards) + 1 /\ faults' = faults + 1
         \/ /\ Len(cards') = Len(cards) + 1
            /\ \E p \in Phase : Keyed(p) = {} /\ cards'[Len(cards')].phase = p
  PROVE  Counted' /\ Len(cards') \in 0..MaxCards
  <1>1. /\ Len(cards) \in Nat /\ Len(cards') \in Nat
        /\ faults \in Nat /\ faults' \in Nat /\ faults' <= MaxFaults /\ MaxFaults \in Nat
    BY BootstrapAssumption DEF TypeOK
  <1>2. \A p \in Phase : Keyed(p) \subseteq Keyed(p)'
    BY <1>1 DEF Grown, Keyed
  <1>3. Carded \subseteq Carded' /\ Carded' \subseteq Phase
    BY <1>2 DEF Carded
  <1>4. IsFiniteSet(Carded) /\ IsFiniteSet(Carded')
    BY <1>3, PhasesFinite, FS_Subset
  <1>5. /\ Cardinality(Carded) \in Nat /\ Cardinality(Carded') \in Nat
        /\ Cardinality(Carded) <= Cardinality(Carded')
        /\ Cardinality(Carded') <= Len(Plan)
    BY <1>3, <1>4, PhasesFinite, FS_Subset, FS_CardinalityType
  <1>6. Counted'
    <2>1. CASE Len(cards') = Len(cards) \/ faults' = faults + 1
      BY <1>1, <1>5, <2>1 DEF Counted
    <2>2. ASSUME NEW p \in Phase, Len(cards') = Len(cards) + 1, Keyed(p) = {},
                 cards'[Len(cards')].phase = p
          PROVE  Counted'
      <3>1. p \notin Carded /\ p \in Carded'
        <4>1. Len(cards') \in Keyed(p)'
          BY <1>1, <2>2 DEF Keyed
        <4>2. QED BY <2>2, <4>1 DEF Carded
      <3>2. Cardinality(Carded \cup {p}) = Cardinality(Carded) + 1
        BY <1>4, <3>1, FS_AddElement
      <3>3. Cardinality(Carded \cup {p}) <= Cardinality(Carded')
        BY <1>3, <1>4, <3>1, FS_Subset
      <3>4. QED BY <1>1, <1>5, <2>2, <3>2, <3>3 DEF Counted
    <2>3. QED BY <2>1, <2>2
  <1>7. QED BY <1>1, <1>5, <1>6, PhasesFinite DEF Counted, MaxCards

\* What the step keeps of the cards' types and of the bound.
CardsStep ==
  /\ cards' \in Seq(Card) /\ Len(cards') \in 0..MaxCards
  /\ Counted' /\ Grown(cards, cards')

\* Faults are counted up to their bound.
LEMMA FaultsCount ==
  ASSUME TypeOK, UNCHANGED faults \/ Fault
  PROVE  faults' \in 0..MaxFaults /\ faults <= faults'
  BY BootstrapAssumption DEF TypeOK, Fault

\* A step that leaves the cards alone.
LEMMA SameCards ==
  ASSUME TypeOK, Counted, UNCHANGED cards, faults' \in 0..MaxFaults, faults <= faults'
  PROVE  CardsStep
  <1>1. Grown(cards, cards') /\ cards' \in Seq(Card)
    BY DEF Grown, TypeOK
  <1>2. QED BY <1>1, CountedStep DEF CardsStep

\* A step that edits one card, but neither its phase nor to mend it.
LEMMA EditedCard ==
  ASSUME TypeOK, Counted, faults' \in 0..MaxFaults, faults <= faults',
         NEW i \in 1..Len(cards), NEW card \in Card, cards' = [cards EXCEPT ![i] = card],
         card.phase = cards[i].phase, card.intact => cards[i].intact
  PROVE  CardsStep
  <1>1. cards' \in Seq(Card) /\ Len(cards') = Len(cards)
    BY DEF TypeOK
  <1>2. Grown(cards, cards')
    BY <1>1 DEF Grown, TypeOK
  <1>3. QED BY <1>1, <1>2, CountedStep DEF CardsStep

\* A step that adds a card, the first of its phase or a copy.
LEMMA AddedCard ==
  ASSUME TypeOK, Counted, faults' \in 0..MaxFaults, faults <= faults',
         NEW card \in Card, cards' = Append(cards, card),
         Keyed(card.phase) = {} \/ faults' = faults + 1
  PROVE  CardsStep
  <1>1. /\ cards' \in Seq(Card) /\ Len(cards') = Len(cards) + 1 /\ cards'[Len(cards')] = card
        /\ \A i \in 1..Len(cards) : cards'[i] = cards[i]
    BY DEF TypeOK
  <1>2. Grown(cards, cards')
    BY <1>1 DEF Grown, TypeOK
  <1>3. card.phase \in Phase
    BY DEF Card
  <1>4. QED BY <1>1, <1>2, <1>3, CountedStep DEF CardsStep

\* The kinds of calls.
LEMMA CallKinds ==
  ASSUME NEW call \in Call
  PROVE  \/ call.kind = "create" /\ call.phase \in Phase
         \/ call.kind = "link" /\ call.parent \in Id /\ call.child \in Id
         \/ call.kind = "promote" /\ call.card \in Id
  BY DEF Call

\* The execution of a call.
LEMMA ExecutedCall ==
  ASSUME TypeOK, Counted, faults' \in 0..MaxFaults, faults <= faults',
         NEW call \in Call, cards' = Executed(call)
  PROVE  CardsStep
  <1>1. Len(cards) \in Nat /\ \A i \in 1..Len(cards) : cards[i] \in Card
    BY DEF TypeOK
  <1>2. CASE call.kind = "create" /\ call.phase \in Phase
    <2>1. CardFor(call.phase) \in Card /\ CardFor(call.phase).phase = call.phase
      BY <1>2 DEF CardFor, Card, Status
    <2>2. CASE Keyed(call.phase) # {}
      BY <1>2, <2>2, SameCards DEF Executed
    <2>3. CASE Keyed(call.phase) = {}
      BY <1>2, <2>1, <2>3, AddedCard DEF Executed
    <2>4. QED BY <2>2, <2>3
  <1>3. CASE call.kind = "link" /\ call.parent \in Id /\ call.child \in Id
    <2>1. cards' = [cards EXCEPT ![call.child].parents = @ \cup {call.parent}]
      BY <1>3 DEF Executed
    <2>2. CASE call.child \in 1..Len(cards)
      <3> DEFINE card == [cards[call.child] EXCEPT !.parents = @ \cup {call.parent}]
      <3>1. card \in Card /\ card.phase = cards[call.child].phase
            /\ card.intact = cards[call.child].intact
        BY <1>1, <1>3, <2>2 DEF Card
      <3>2. cards' = [cards EXCEPT ![call.child] = card]
        BY <2>1
      <3> HIDE DEF card
      <3>3. QED BY <2>2, <3>1, <3>2, EditedCard
    <2>3. CASE call.child \notin 1..Len(cards)
      <3>1. cards' = cards
        BY <2>1, <2>3 DEF TypeOK
      <3>2. QED BY <3>1, SameCards
    <2>4. QED BY <2>2, <2>3
  <1>4. CASE call.kind = "promote" /\ call.card \in Id
    <2>1. CASE call.card \in 1..Len(cards) /\ cards[call.card].status = "todo"
      <3> DEFINE card == [cards[call.card] EXCEPT !.status = "ready"]
      <3>1. card \in Card /\ card.phase = cards[call.card].phase
            /\ card.intact = cards[call.card].intact
        BY <1>1, <2>1 DEF Card, Status
      <3>2. cards' = [cards EXCEPT ![call.card] = card]
        BY <1>4, <2>1 DEF Executed
      <3> HIDE DEF card
      <3>3. QED BY <2>1, <3>1, <3>2, EditedCard
    <2>2. CASE ~(call.card \in 1..Len(cards) /\ cards[call.card].status = "todo")
      <3>1. cards' = cards
        BY <1>4, <2>2 DEF Executed, TypeOK
      <3>2. QED BY <3>1, SameCards
    <2>3. QED BY <2>1, <2>2
  <1>5. QED BY <1>2, <1>3, <1>4, CallKinds

\* A listing selects a card of the phase, none, or an error.
LEMMA SelectTyped ==
  ASSUME TypeOK, NEW p \in Phase, NEW require_todo
  PROVE  /\ Select(p, require_todo) \in Id \cup {0, -1}
         /\ Select(p, require_todo) > 0 => Select(p, require_todo) \in Keyed(p)
  <1> DEFINE i == CHOOSE k \in Keyed(p) : TRUE
  <1>1. Keyed(p) # {} => i \in Keyed(p)
    OBVIOUS
  <1>2. Select(p, require_todo) \in {0, -1} \/ (Keyed(p) # {} /\ Select(p, require_todo) = i)
    BY DEF Select
  <1> HIDE DEF i
  <1>3. QED BY <1>1, <1>2, KeyedTyped

-----------------------------------------------------------------------------
(* Where a run can be *)

\* In the first stage.
Carding(me) ==
  me.pc \in {"card", "reconcile", "complete"} \/ (me.pc = "call" /\ me.call.kind = "create")

\* In a later one.
Linking(me) ==
  \/ me.pc \in {"parents", "link", "linked", "readback", "verify", "root", "promoted"}
  \/ me.pc = "call" /\ me.call.kind # "create"

\* What a run has reached when the phases in bs are bound: in the first stage those
\* before its item, later all.
StageOK(me, bs) ==
  /\ me.pc = "list" => me.n = 1
  /\ Carding(me) => \A m \in 1..me.n - 1 : Plan[m] \in bs
  /\ me.pc = "complete" => Item(me) \in bs
  /\ Linking(me) => bs = Phase
  /\ me.pc = "link" => me.missing # {}
  /\ me.pc = "call" => me.call \in Call

\* Its listing names cards by their keys.
ViewOK(me, cs) ==
  \A p \in Phase : me.view[p] > 0 => me.view[p] \in 1..Len(cs) /\ cs[me.view[p]].phase = p

\* The invariant of the types: the number of cards, one run at a time, and where
\* it is.
Staged ==
  /\ \A x, y \in Process : process[x].pc # "idle" /\ process[y].pc # "idle" => x = y
  /\ \A x \in Process :
       process[x].pc # "idle" => StageOK(process[x], Bound) /\ ViewOK(process[x], cards)

\* The blank run has its type.
LEMMA IdleTyped == RunIdle \in Run
  <1>1. 1 \in 1..Len(Plan)
    BY PhasesFinite
  <1>2. QED BY <1>1 DEF RunIdle, Run, Pc

\* The fields of a run.
LEMMA RunFields ==
  ASSUME NEW me \in Run
  PROVE  /\ me.pc \in Pc /\ me.n \in 1..Len(Plan) /\ me.view \in [Phase -> Id \cup {0, -1}]
         /\ me.known \in BOOLEAN /\ me.missing \in SUBSET Id /\ me.answer \in Id \cup {0}
         /\ me.call \in Call \cup {NoCall} /\ me.flawed \in BOOLEAN
         /\ Item(me) \in Phase /\ me.n \in Nat \ {0} /\ me.n + 1 \in Nat
  <1>1. me.n \in 1..Len(Plan) /\ Len(Plan) \in Nat
    BY PhasesFinite DEF Run
  <1>2. Item(me) \in Phase
    BY <1>1, BootstrapAssumption DEF Item
  <1>3. QED BY <1>1, <1>2 DEF Run

\* A step of the run that has the lock, or takes it, and keeps the invariant if
\* what it makes of itself does.
LEMMA RunStep ==
  ASSUME TypeOK, Staged, NEW x \in Process, NEW me, me \in Run, Goes(x, me),
         process[x].pc # "idle" \/ LockFree,
         me.pc # "idle" => StageOK(me, Bound') /\ ViewOK(me, cards')
  PROVE  Staged' /\ process' \in [Process -> Run]
  <1>1. process' \in [Process -> Run] /\ process'[x] = me
    BY DEF Goes, TypeOK
  <1>2. \A y \in Process \ {x} : process'[y] = process[y] /\ process'[y].pc = "idle"
    BY DEF Goes, TypeOK, Staged, LockFree
  <1>3. QED BY <1>1, <1>2 DEF Staged

\* A step of others, which bind nothing and only let the board grow.
LEMMA OthersStep ==
  ASSUME TypeOK, Staged, UNCHANGED <<bindings, process>>, CardsStep
  PROVE  Staged'
  <1>1. ASSUME NEW x \in Process, ViewOK(process[x], cards) PROVE ViewOK(process[x], cards')
    <2>1. Len(cards) \in Nat /\ Len(cards') \in Nat
      BY DEF TypeOK, CardsStep
    <2>2. QED BY <1>1, <2>1 DEF ViewOK, CardsStep, Grown
  <1>2. Bound' = Bound
    BY DEF Bound
  <1>3. QED BY <1>1, <1>2 DEF Staged

\* A listing stays right while the board grows.
LEMMA ViewKept ==
  ASSUME TypeOK, CardsStep, NEW me, ViewOK(me, cards), NEW new, new.view = me.view
  PROVE  ViewOK(new, cards')
  <1>1. Len(cards) \in Nat /\ Len(cards') \in Nat
    BY DEF TypeOK, CardsStep
  <1>2. QED BY <1>1 DEF ViewOK, CardsStep, Grown

\* So do the bindings.
LEMMA BindingsKept ==
  ASSUME TypeOK, CardsStep, UNCHANGED bindings
  PROVE  /\ bindings' \in [Phase -> 0..Len(cards')]
         /\ \A p \in Bound' : cards'[bindings'[p]].phase = p
  <1>1. Len(cards) \in Nat /\ Len(cards') \in Nat
    BY DEF TypeOK, CardsStep
  <1>2. bindings' \in [Phase -> 0..Len(cards')]
    <2>1. \A p \in Phase : bindings[p] \in 0..Len(cards')
      BY <1>1 DEF TypeOK, CardsStep, Grown
    <2>2. QED BY <2>1 DEF TypeOK
  <1>3. ASSUME NEW p \in Bound' PROVE cards'[bindings'[p]].phase = p
    <2>1. p \in Bound /\ bindings'[p] = bindings[p]
      BY DEF Bound
    <2>2. bindings[p] \in 1..Len(cards) /\ cards[bindings[p]].phase = p
      BY <1>1, <2>1 DEF TypeOK, Bound
    <2>3. QED BY <2>1, <2>2 DEF CardsStep, Grown
  <1>4. QED BY <1>2, <1>3

-----------------------------------------------------------------------------
(* Every step of a run *)

\* The inductive invariant of the types.
Sound == TypeOK /\ Counted /\ Staged

\* The parts of it that a step must give again.
LEMMA SoundAgain ==
  ASSUME CardsStep, Staged', process' \in [Process -> Run],
         bindings' \in [Phase -> 0..Len(cards')],
         \A p \in Bound' : cards'[bindings'[p]].phase = p,
         intents' \in [Phase -> {"none", "prepared", "completed"}],
         orphans' \subseteq Call, lost' \in BOOLEAN, faults' \in 0..MaxFaults
  PROVE  Sound'
  BY DEF Sound, TypeOK, CardsStep

\* A step of a run that changes nothing but the run.
LEMMA OnlyRun ==
  ASSUME Sound, NEW x \in Process, NEW me, me \in Run, Goes(x, me),
         process[x].pc # "idle" \/ LockFree,
         me.pc # "idle" => StageOK(me, Bound) /\ ViewOK(me, cards),
         UNCHANGED <<cards, bindings, intents, orphans, lost, faults>>
  PROVE  Sound'
  <1>1. TypeOK /\ Counted /\ Staged
    BY DEF Sound
  <1>2. faults' \in 0..MaxFaults /\ faults <= faults'
    BY <1>1, BootstrapAssumption DEF TypeOK
  <1>3. CardsStep
    BY <1>1, <1>2, SameCards
  <1>4. Bound' = Bound /\ cards' = cards
    BY DEF Bound
  <1>5. Staged' /\ process' \in [Process -> Run]
    BY <1>1, <1>4, RunStep
  <1>6. QED BY <1>1, <1>2, <1>3, <1>5, BindingsKept, SoundAgain DEF TypeOK

\* What a run is at its next place.
PassesTo(me, first, what, pc, then, to) ==
  /\ to \in Run
  /\ to.view = me.view /\ to.call = me.call /\ to.missing = me.missing
  /\ to.flawed = me.flawed /\ to.known = me.known
  /\ \/ /\ to.pc = then /\ to.n = 1
        /\ \A m \in first..Len(Plan) : Plan[m] \notin what
     \/ /\ to.pc = pc /\ to.n \in first..Len(Plan) /\ Item(to) \in what
        /\ \A m \in first..to.n - 1 : Plan[m] \notin what

\* The next place of a run is one of the plan.
LEMMA FollowingTyped ==
  ASSUME NEW me \in Run, NEW first \in Nat \ {0}, NEW what, NEW pc \in Pc, NEW then \in Pc
  PROVE  PassesTo(me, first, what, pc, then, Following(me, first, what, pc, then))
  <1> DEFINE to == Following(me, first, what, pc, then)
  <1>1. Len(Plan) \in Nat \ {0}
    BY PhasesFinite
  <1>2. ASSUME NEW n \in 1..Len(Plan), NEW at \in Pc, to = [me EXCEPT !.pc = at, !.n = n]
        PROVE  /\ to \in Run
               /\ to.view = me.view /\ to.call = me.call /\ to.missing = me.missing
               /\ to.flawed = me.flawed /\ to.known = me.known
               /\ to.pc = at /\ to.n = n
    BY <1>2 DEF Run
  <1>3. Passes(me, first, what, pc, then, to)
    BY FollowingPasses
  <1> HIDE DEF to
  <1>4. CASE /\ \A m \in first..Len(Plan) : Plan[m] \notin what
             /\ to = [me EXCEPT !.pc = then, !.n = 1]
    <2>1. 1 \in 1..Len(Plan)
      BY <1>1
    <2>2. PassesTo(me, first, what, pc, then, to)
      BY <1>2, <1>4, <2>1 DEF PassesTo
    <2>3. QED BY <2>2 DEF to
  <1>5. ASSUME NEW n \in first..Len(Plan), Plan[n] \in what,
               \A m \in first..n - 1 : Plan[m] \notin what,
               to = [me EXCEPT !.pc = pc, !.n = n]
        PROVE  PassesTo(me, first, what, pc, then, to)
    <2>1. n \in 1..Len(Plan)
      BY <1>1
    <2>2. QED BY <1>2, <1>5, <2>1 DEF PassesTo, Item
  <1>6. PassesTo(me, first, what, pc, then, to)
    BY <1>3, <1>4, <1>5 DEF Passes, to
  <1>7. QED BY <1>6 DEF to

\* A run takes the lock.
LEMMA StartSound == ASSUME Sound, NEW x \in Process, Start(x) PROVE Sound'
  <1> DEFINE me == [RunIdle EXCEPT !.pc = "list", !.known = Bound = Phase, !.flawed = Flawed]
  <1>1. me \in Run /\ me.pc = "list" /\ me.n = 1 /\ me.view = [p \in Phase |-> 0]
    BY IdleTyped DEF Run, RunIdle, Pc, Flawed
  <1>2. Goes(x, me) /\ LockFree /\ UNCHANGED <<cards, bindings, intents, orphans, lost, faults>>
    BY DEF Start
  <1> HIDE DEF me
  <1>3. StageOK(me, Bound) /\ ViewOK(me, cards)
    BY <1>1 DEF StageOK, Carding, Linking, ViewOK
  <1>4. QED BY <1>1, <1>2, <1>3, OnlyRun

\* The items from the first on are bound, so all phases are.
LEMMA AllBound ==
  ASSUME \A m \in 1..Len(Plan) : Plan[m] \in Bound PROVE Bound = Phase
  <1>1. \A p \in Phase : \E m \in 1..Len(Plan) : Plan[m] = p
    BY BootstrapAssumption
  <1>2. QED BY <1>1 DEF Bound

\* The board is listed.
LEMMA ListSound == ASSUME Sound, NEW x \in Process, ListExisting(x) PROVE Sound'
  <1> DEFINE me == [process[x] EXCEPT !.view = [p \in Phase |-> Select(p, TRUE)]]
             to == Following(me, 1, Phase \ Bound, "card", "parents")
  <1>1. process[x] \in Run /\ process[x].pc = "list" /\ TypeOK
    BY DEF Sound, TypeOK, ListExisting
  <1>2. me \in Run /\ me.view = [p \in Phase |-> Select(p, TRUE)]
    BY <1>1, SelectTyped DEF Run
  <1>3. Goes(x, to) /\ UNCHANGED <<cards, bindings, intents, orphans, lost, faults>>
    BY DEF ListExisting
  <1> HIDE DEF me
  <1>4. ViewOK(me, cards)
    <2>1. SUFFICES ASSUME NEW p \in Phase, me.view[p] > 0
                   PROVE  me.view[p] \in 1..Len(cards) /\ cards[me.view[p]].phase = p
      BY DEF ViewOK
    <2>2. me.view[p] \in Keyed(p)
      BY <1>1, <1>2, <2>1, SelectTyped
    <2>3. QED BY <2>2 DEF Keyed
  <1>5. /\ to \in Run /\ to.view = me.view
        /\ \/ to.pc = "parents" /\ \A m \in 1..Len(Plan) : Plan[m] \notin Phase \ Bound
           \/ to.pc = "card" /\ \A m \in 1..to.n - 1 : Plan[m] \notin Phase \ Bound
    <2>1. PassesTo(me, 1, Phase \ Bound, "card", "parents", to)
      BY <1>2, FollowingTyped DEF Pc
    <2> HIDE DEF to
    <2>2. QED BY <2>1 DEF PassesTo
  <1> HIDE DEF to
  <1>6. to.n \in 1..Len(Plan) /\ \A m \in 1..Len(Plan) : Plan[m] \in Phase
    BY <1>5, BootstrapAssumption, RunFields
  <1>7. ASSUME to.pc = "parents", \A m \in 1..Len(Plan) : Plan[m] \notin Phase \ Bound
        PROVE  StageOK(to, Bound)
    <2>1. Bound = Phase
      BY <1>6, <1>7, AllBound
    <2>2. QED BY <1>7, <2>1 DEF StageOK, Carding, Linking
  <1>8. ASSUME to.pc = "card", \A m \in 1..to.n - 1 : Plan[m] \notin Phase \ Bound
        PROVE  StageOK(to, Bound)
    <2>1. \A m \in 1..to.n - 1 : Plan[m] \in Bound
      BY <1>6, <1>8, PhasesFinite
    <2>2. QED BY <1>8, <2>1 DEF StageOK, Carding, Linking
  <1>9. ViewOK(to, cards)
    BY <1>4, <1>5 DEF ViewOK
  <1>10. QED BY <1>1, <1>3, <1>5, <1>7, <1>8, <1>9, OnlyRun

\* What the invariant says of one run.
LEMMA Here ==
  ASSUME Sound, NEW x \in Process
  PROVE  /\ TypeOK /\ Counted /\ Staged
         /\ process[x] \in Run
         /\ process[x].pc # "idle" => StageOK(process[x], Bound) /\ ViewOK(process[x], cards)
  BY DEF Sound, Staged, TypeOK

\* A run goes on to one of the places pcs.
Onward(me, to, pcs) ==
  /\ to \in Run
  /\ to.view = me.view /\ to.call = me.call /\ to.flawed = me.flawed
  /\ to.pc \in pcs
  /\ to.pc = "link" => to.missing # {}

\* The places of the later stages where no call is made.
Later == {"parents", "link", "linked", "readback", "verify", "root", "promoted"}

\* There a run may be when all phases are bound.
LEMMA LaterIsRight ==
  ASSUME NEW me, NEW to, NEW pcs \in SUBSET Later, Onward(me, to, pcs), NEW cs,
         ViewOK(me, cs)
  PROVE  StageOK(to, Phase) /\ ViewOK(to, cs)
  BY DEF Later, Onward, StageOK, Carding, Linking, ViewOK

\* On to the next edge, the next item or the read-back.
LEMMA NextLinkGoesOn ==
  ASSUME NEW me \in Run
  PROVE  Onward(me, NextLink(me), {"link", "parents", "readback"})
  <1>1. me.n + 1 \in Nat \ {0}
    BY RunFields
  <1>2. CASE me.missing # {}
    <2>1. NextLink(me) = [me EXCEPT !.pc = "link"]
      BY <1>2 DEF NextLink
    <2>2. QED BY <1>2, <2>1 DEF Onward, Run, Pc
  <1>3. CASE me.missing = {}
    <2> DEFINE to == Following(me, me.n + 1, Phase, "parents", "readback")
    <2>1. PassesTo(me, me.n + 1, Phase, "parents", "readback", to)
      BY <1>1, FollowingTyped DEF Pc
    <2>2. NextLink(me) = to
      BY <1>3 DEF NextLink, After
    <2> HIDE DEF to
    <2>3. QED BY <2>1, <2>2 DEF PassesTo, Onward
  <1>4. QED BY <1>2, <1>3

\* On to the next root, or to the end.
LEMMA NextRootGoesOn ==
  ASSUME NEW me \in Run
  PROVE  NextRoot(me) = RunIdle \/ Onward(me, NextRoot(me), {"root"})
  <1> DEFINE to == Following(me, me.n + 1, Roots, "root", "idle")
  <1>1. me.n + 1 \in Nat \ {0}
    BY RunFields
  <1>2. PassesTo(me, me.n + 1, Roots, "root", "idle", to)
    BY <1>1, FollowingTyped DEF Pc
  <1>3. NextRoot(me) = IF to.pc = "idle" THEN RunIdle ELSE to
    BY DEF NextRoot, After
  <1> HIDE DEF to
  <1>4. QED BY <1>2, <1>3 DEF PassesTo, Onward

\* A step of a run that binds nothing, and of the board meanwhile.
LEMMA BoardAndRun ==
  ASSUME Sound, CardsStep, NEW x \in Process, NEW me, me \in Run, Goes(x, me),
         process[x].pc # "idle",
         me.pc # "idle" => StageOK(me, Bound) /\ me.view = process[x].view,
         UNCHANGED <<bindings, intents, lost>>, orphans' \subseteq Call, faults' \in 0..MaxFaults
  PROVE  Sound'
  <1>1. /\ TypeOK /\ Staged /\ ViewOK(process[x], cards)
        /\ intents \in [Phase -> {"none", "prepared", "completed"}] /\ lost \in BOOLEAN
    BY Here DEF TypeOK
  <1>2. Bound' = Bound
    BY DEF Bound
  <1>3. me.pc # "idle" => ViewOK(me, cards')
    BY <1>1, ViewKept
  <1>4. Staged' /\ process' \in [Process -> Run]
    BY <1>1, <1>2, <1>3, RunStep
  <1>5. QED BY <1>1, <1>4, BindingsKept, SoundAgain

\* A run ends, and nothing else happens.
LEMMA EndSound ==
  ASSUME Sound, NEW x \in Process, Ends(x), process[x].pc # "idle",
         UNCHANGED <<cards, bindings, intents, orphans, lost>>, UNCHANGED faults \/ Fault
  PROVE  Sound'
  <1>1. TypeOK /\ Counted
    BY Here
  <1>2. faults' \in 0..MaxFaults /\ faults <= faults'
    BY <1>1, BootstrapAssumption DEF TypeOK, Fault
  <1>3. CardsStep
    BY <1>1, <1>2, SameCards
  <1>4. orphans' \subseteq Call /\ Goes(x, RunIdle) /\ RunIdle.pc = "idle"
    BY <1>1 DEF TypeOK, Ends, RunIdle
  <1>5. QED BY <1>2, <1>3, <1>4, IdleTyped, BoardAndRun

\* A binding keeps the others, and what the run that makes it has reached.
LEMMA BindSound ==
  ASSUME Sound, NEW x \in Process, NEW me, me \in Run, Goes(x, me),
         process[x].pc # "idle", Carding(process[x]),
         NEW i \in Keyed(Item(process[x])),
         bindings' = [bindings EXCEPT ![Item(process[x])] = i],
         me.pc = "complete", me.n = process[x].n, me.view = process[x].view,
         UNCHANGED <<cards, intents, orphans, lost, faults>>
  PROVE  Sound'
  <1> DEFINE p == Item(process[x])
  <1>1. /\ TypeOK /\ Counted /\ Staged /\ p \in Phase
        /\ StageOK(process[x], Bound) /\ ViewOK(process[x], cards)
    BY Here, RunFields
  <1>2. i \in 1..Len(cards) /\ cards[i].phase = p
    BY DEF Keyed
  <1>3. faults' \in 0..MaxFaults /\ faults <= faults'
    BY <1>1, BootstrapAssumption DEF TypeOK
  <1>4. CardsStep
    BY <1>1, <1>3, SameCards
  <1>5. Bound' = Bound \cup {p}
    BY <1>1, <1>2 DEF Bound, TypeOK
  <1>6. bindings' \in [Phase -> 0..Len(cards')] /\ \A q \in Bound' : cards'[bindings'[q]].phase = q
    BY <1>1, <1>2, <1>5 DEF TypeOK
  <1>7. StageOK(me, Bound')
    <2>1. Item(me) = p
      BY DEF Item
    <2>2. \A m \in 1..me.n - 1 : Plan[m] \in Bound
      BY <1>1 DEF StageOK
    <2>3. QED BY <1>5, <2>1, <2>2 DEF StageOK, Carding, Linking
  <1>8. ViewOK(me, cards')
    BY <1>1 DEF ViewOK
  <1>9. Staged' /\ process' \in [Process -> Run]
    BY <1>1, <1>7, <1>8, RunStep
  <1>10. QED BY <1>1, <1>3, <1>4, <1>6, <1>9, SoundAgain DEF TypeOK

\* A card is taken over, refused or asked for.
LEMMA ChooseSound == ASSUME Sound, NEW x \in Process, Choose(x) PROVE Sound'
  <1> DEFINE me == process[x]
             p == Item(me)
  <1>1. /\ TypeOK /\ Counted /\ Staged /\ me \in Run /\ me.pc = "card" /\ p \in Phase
        /\ StageOK(me, Bound) /\ ViewOK(me, cards)
    BY Here, RunFields DEF Choose
  <1>2. CASE me.view[p] > 0
    <2> DEFINE to == [me EXCEPT !.pc = "complete"]
    <2>1. /\ to \in Run /\ to.pc = "complete" /\ to.n = me.n /\ to.view = me.view
      BY <1>1 DEF Run, Pc
    <2>2. me.view[p] \in Keyed(p)
      BY <1>1, <1>2 DEF ViewOK, Keyed
    <2>3. /\ bindings' = [bindings EXCEPT ![p] = me.view[p]] /\ Goes(x, to)
          /\ UNCHANGED <<cards, intents, orphans, lost, faults>>
      BY <1>2 DEF Choose
    <2> HIDE DEF to
    <2>4. QED BY <1>1, <2>1, <2>2, <2>3, BindSound DEF Carding
  <1>3. CASE me.view[p] = -1
    <2>1. Ends(x) /\ UNCHANGED <<cards, bindings, intents, orphans, lost, faults>>
      BY <1>3 DEF Choose
    <2>2. QED BY <1>1, <2>1, EndSound
  <1>4. CASE me.view[p] = 0
    <2> DEFINE call == [kind |-> "create", phase |-> p]
               to == [me EXCEPT !.pc = "call", !.call = call]
    <2>1. call \in Call /\ call.kind = "create"
      BY <1>1 DEF Call
    <2> HIDE DEF call
    <2>2. to \in Run /\ to.pc = "call" /\ to.call = call /\ to.n = me.n /\ to.view = me.view
      BY <1>1, <2>1 DEF Run, Pc
    <2>3. /\ intents' = [intents EXCEPT ![p] = IF @ = "none" THEN "prepared" ELSE @]
          /\ Goes(x, to) /\ UNCHANGED <<cards, bindings, orphans, lost, faults>>
      BY <1>4 DEF Choose, call
    <2> HIDE DEF to
    <2>4. StageOK(to, Bound) /\ ViewOK(to, cards)
      BY <1>1, <2>1, <2>2 DEF StageOK, ViewOK, Carding, Linking
    <2>5. intents' \in [Phase -> {"none", "prepared", "completed"}]
      BY <1>1, <2>3 DEF TypeOK
    <2>6. faults' \in 0..MaxFaults /\ faults <= faults'
      BY <1>1, <2>3, BootstrapAssumption DEF TypeOK
    <2>7. CardsStep
      BY <1>1, <2>3, <2>6, SameCards
    <2>8. Bound' = Bound
      BY <2>3 DEF Bound
    <2>9. Staged' /\ process' \in [Process -> Run]
      BY <1>1, <2>2, <2>3, <2>4, <2>8, RunStep
    <2>10. orphans' \subseteq Call /\ lost' \in BOOLEAN
      BY <1>1, <2>3 DEF TypeOK
    <2>11. QED BY <1>1, <2>3, <2>5, <2>6, <2>7, <2>9, <2>10, BindingsKept, SoundAgain
  <1>5. QED BY <1>2, <1>3, <1>4 DEF Choose

\* The created card is bound.
LEMMA ReconcileSound == ASSUME Sound, NEW x \in Process, Reconcile(x) PROVE Sound'
  <1> DEFINE me == process[x]
             i == Select(Item(me), TRUE)
             to == [me EXCEPT !.pc = "complete", !.answer = 0]
  <1>1. TypeOK /\ me \in Run /\ me.pc = "reconcile" /\ Item(me) \in Phase
    BY Here, RunFields DEF Reconcile
  <1>2. CASE i > 0 /\ me.answer \in {0, i}
    <2>1. to \in Run /\ to.pc = "complete" /\ to.n = me.n /\ to.view = me.view
      BY <1>1 DEF Run, Pc
    <2>2. i \in Keyed(Item(me))
      BY <1>1, <1>2, SelectTyped
    <2>3. /\ bindings' = [bindings EXCEPT ![Item(me)] = i] /\ Goes(x, to)
          /\ UNCHANGED <<cards, intents, orphans, lost, faults>>
      BY <1>2 DEF Reconcile
    <2> HIDE DEF to, i
    <2>4. QED BY <1>1, <2>1, <2>2, <2>3, BindSound DEF Carding
  <1>3. CASE ~(i > 0 /\ me.answer \in {0, i})
    <2>1. Ends(x) /\ UNCHANGED <<cards, bindings, intents, orphans, lost, faults>>
      BY <1>3 DEF Reconcile
    <2>2. QED BY <1>1, <2>1, EndSound
  <1>4. QED BY <1>2, <1>3

\* The intent is completed, and the run goes on to the next phase without a card.
LEMMA CompleteSound == ASSUME Sound, NEW x \in Process, Complete(x) PROVE Sound'
  <1> DEFINE me == process[x]
             to == Following(me, me.n + 1, Phase \ Bound, "card", "parents")
  <1>1. /\ TypeOK /\ Counted /\ Staged /\ me \in Run /\ me.pc = "complete"
        /\ Item(me) \in Bound /\ \A m \in 1..me.n - 1 : Plan[m] \in Bound
        /\ ViewOK(me, cards)
    BY Here DEF Complete, StageOK, Carding
  <1>2. me.n \in 1..Len(Plan) /\ me.n + 1 \in Nat \ {0} /\ Len(Plan) \in Nat
    BY <1>1, RunFields, PhasesFinite
  <1>3. \A m \in 1..me.n : Plan[m] \in Bound
    BY <1>1, <1>2 DEF Item
  <1>4. /\ Goes(x, to) /\ UNCHANGED <<cards, bindings, orphans, lost, faults>>
        /\ intents' = [intents EXCEPT ![Item(me)] = IF @ = "none" THEN @ ELSE "completed"]
    BY DEF Complete, After
  <1>5. PassesTo(me, me.n + 1, Phase \ Bound, "card", "parents", to)
    BY <1>1, <1>2, FollowingTyped DEF Pc
  <1> HIDE DEF to
  <1>6. /\ \A m \in 1..Len(Plan) : Plan[m] \in Phase
        /\ to \in Run /\ to.view = me.view /\ to.pc \in {"card", "parents"}
    BY <1>5, BootstrapAssumption DEF PassesTo
  <1>7. StageOK(to, Bound)
    <2>1. CASE to.pc = "parents"
      <3>1. \A m \in me.n + 1..Len(Plan) : Plan[m] \in Bound
        BY <1>2, <1>5, <1>6, <2>1 DEF PassesTo
      <3>2. \A m \in 1..Len(Plan) : Plan[m] \in Bound
        BY <1>2, <1>3, <3>1
      <3>3. Bound = Phase
        BY <3>2, AllBound
      <3>4. QED BY <2>1, <3>3 DEF StageOK, Carding, Linking
    <2>2. CASE to.pc = "card"
      <3>1. to.n \in 1..Len(Plan) /\ \A m \in me.n + 1..to.n - 1 : Plan[m] \in Bound
        BY <1>2, <1>5, <1>6, <2>2 DEF PassesTo
      <3>2. \A m \in 1..to.n - 1 : Plan[m] \in Bound
        BY <1>2, <1>3, <3>1
      <3>3. QED BY <2>2, <3>2 DEF StageOK, Carding, Linking
    <2>3. QED BY <1>6, <2>1, <2>2
  <1>8. intents' \in [Phase -> {"none", "prepared", "completed"}]
    BY <1>1, <1>4 DEF TypeOK
  <1>9. faults' \in 0..MaxFaults /\ faults <= faults'
    BY <1>1, <1>4, BootstrapAssumption DEF TypeOK
  <1>10. CardsStep
    BY <1>1, <1>4, <1>9, SameCards
  <1>11. Bound' = Bound /\ ViewOK(to, cards')
    BY <1>1, <1>4, <1>6 DEF Bound, ViewOK
  <1>12. Staged' /\ process' \in [Process -> Run]
    BY <1>1, <1>4, <1>6, <1>7, <1>11, RunStep
  <1>13. orphans' \subseteq Call /\ lost' \in BOOLEAN
    BY <1>1, <1>4 DEF TypeOK
  <1>14. QED BY <1>1, <1>4, <1>8, <1>9, <1>10, <1>12, <1>13, BindingsKept, SoundAgain

\* A run of a later stage goes on or ends, and nothing else happens.
LEMMA LaterSound ==
  ASSUME Sound, NEW x \in Process, NEW to, Goes(x, to),
         process[x].pc # "idle", Linking(process[x]),
         \/ to = RunIdle
         \/ /\ to \in Run /\ StageOK(to, Phase)
            /\ to.view = process[x].view,
         UNCHANGED <<cards, bindings, intents, orphans, lost, faults>>
  PROVE  Sound'
  <1>1. /\ Bound = Phase /\ ViewOK(process[x], cards)
    BY Here DEF StageOK
  <1>2. CASE to = RunIdle
    BY <1>2, EndSound DEF Ends
  <1>3. CASE to \in Run /\ StageOK(to, Phase) /\ to.view = process[x].view
    <2>1. ViewOK(to, cards)
      BY <1>1, <1>3 DEF ViewOK
    <2>2. QED BY <1>1, <1>3, <2>1, OnlyRun
  <1>4. QED BY <1>2, <1>3

\* A run that goes on to a later place is where it can be.
LEMMA OnwardSound ==
  ASSUME Sound, NEW x \in Process, process[x].pc # "idle", Linking(process[x]),
         NEW me, me.view = process[x].view,
         NEW to, NEW pcs \in SUBSET Later, Onward(me, to, pcs), Goes(x, to),
         UNCHANGED <<cards, bindings, intents, orphans, lost, faults>>
  PROVE  Sound'
  <1>1. ViewOK(me, cards)
    BY Here DEF ViewOK
  <1>2. StageOK(to, Phase)
    BY <1>1, LaterIsRight
  <1>3. QED BY <1>2, LaterSound DEF Onward

\* The parents of a card are read.
LEMMA ReadParentsSound == ASSUME Sound, NEW x \in Process, ReadParents(x) PROVE Sound'
  <1> DEFINE old == process[x]
             missing == Expected(Item(old)) \ cards[bindings[Item(old)]].parents
             me == [old EXCEPT !.missing = missing]
  <1>1. /\ TypeOK /\ old \in Run /\ old.pc = "parents" /\ Linking(old) /\ Bound = Phase
        /\ Item(old) \in Phase
    BY Here, RunFields DEF ReadParents, StageOK, Linking
  <1>2. CASE cards[bindings[Item(old)]].parents \subseteq Expected(Item(old))
    <2>1. Expected(Item(old)) \subseteq Id
      <3>1. \A q \in Phase : bindings[q] \in 1..Len(cards)
        BY <1>1 DEF Bound, TypeOK
      <3>2. Len(cards) <= MaxCards /\ Len(cards) \in Nat /\ MaxCards \in Nat
        BY <1>1, PhasesFinite, BootstrapAssumption DEF TypeOK, MaxCards
      <3>3. \A q \in Phase : bindings[q] \in Id
        BY <3>1, <3>2 DEF Id
      <3>4. Deps[Item(old)] \subseteq Phase
        BY <1>1, BootstrapAssumption
      <3>5. QED BY <3>3, <3>4 DEF Expected
    <2>2. me \in Run /\ me.view = old.view
      <3>1. missing \in SUBSET Id
        BY <2>1
      <3> HIDE DEF missing
      <3>2. QED BY <1>1, <3>1 DEF Run
    <2>3. Goes(x, NextLink(me)) /\ UNCHANGED <<cards, bindings, intents, orphans, lost, faults>>
      BY <1>2 DEF ReadParents
    <2> HIDE DEF me
    <2>4. Onward(me, NextLink(me), {"link", "parents", "readback"})
      BY <2>2, NextLinkGoesOn
    <2>5. {"link", "parents", "readback"} \in SUBSET Later
      BY DEF Later
    <2>6. QED BY <1>1, <2>2, <2>3, <2>4, <2>5, OnwardSound
  <1>3. CASE ~(cards[bindings[Item(old)]].parents \subseteq Expected(Item(old)))
    BY <1>1, <1>3, EndSound DEF ReadParents
  <1>4. QED BY <1>2, <1>3

\* The next missing parent is linked.
LEMMA LinkSound == ASSUME Sound, NEW x \in Process, Link(x) PROVE Sound'
  <1> DEFINE me == process[x]
             parent == CHOOSE i \in me.missing : \A k \in me.missing : i <= k
             call == [kind |-> "link", parent |-> parent, child |-> bindings[Item(me)]]
             to == [me EXCEPT !.pc = "call", !.missing = @ \ {parent}, !.call = call]
  <1>1. /\ TypeOK /\ me \in Run /\ me.pc = "link" /\ Linking(me) /\ Bound = Phase
        /\ me.missing # {} /\ Item(me) \in Phase /\ me.missing \in SUBSET Id
    BY Here, RunFields DEF Link, StageOK, Linking
  <1>2. Id \subseteq Nat /\ Len(cards) <= MaxCards /\ Len(cards) \in Nat /\ MaxCards \in Nat
    BY <1>1, PhasesFinite, BootstrapAssumption DEF TypeOK, MaxCards, Id
  <1>3. parent \in me.missing
    BY <1>1, <1>2, LeastExists
  <1> HIDE DEF parent
  <1>4. bindings[Item(me)] \in Id
    BY <1>1, <1>2 DEF Bound, TypeOK, Id
  <1>5. call \in Call /\ call.kind = "link"
    BY <1>1, <1>3, <1>4 DEF Call
  <1> HIDE DEF call
  <1>6. /\ to \in Run /\ to.pc = "call" /\ to.call = call /\ to.view = me.view
    BY <1>1, <1>3, <1>5 DEF Run, Pc
  <1>7. Goes(x, to) /\ UNCHANGED <<cards, bindings, intents, orphans, lost, faults>>
    BY DEF Link, call, parent
  <1> HIDE DEF to
  <1>8. StageOK(to, Phase)
    BY <1>5, <1>6 DEF StageOK, Carding, Linking
  <1>9. QED BY <1>1, <1>6, <1>7, <1>8, LaterSound

\* A run that forgets its call.
LEMMA ForgetsCall ==
  ASSUME NEW me \in Run
  PROVE  LET new == [me EXCEPT !.call = NoCall]
         IN  new \in Run /\ new.view = me.view /\ new.flawed = me.flawed /\ new.call = NoCall
  BY DEF Run

\* Without an answer the parents are read again.
LEMMA ReadLinkedSound == ASSUME Sound, NEW x \in Process, ReadLinked(x) PROVE Sound'
  <1> DEFINE old == process[x]
             me == [old EXCEPT !.call = NoCall]
  <1>1. /\ old \in Run /\ old.pc = "linked" /\ Linking(old)
        /\ me \in Run /\ me.view = old.view
    BY Here, ForgetsCall DEF ReadLinked, Linking
  <1>2. /\ Goes(x, NextLink(me)) \/ Ends(x)
        /\ UNCHANGED <<cards, bindings, intents, orphans, lost, faults>>
    BY DEF ReadLinked
  <1> HIDE DEF me
  <1>3. Onward(me, NextLink(me), {"link", "parents", "readback"})
    BY <1>1, NextLinkGoesOn
  <1>4. {"link", "parents", "readback"} \in SUBSET Later
    BY DEF Later
  <1>5. CASE Goes(x, NextLink(me))
    BY <1>1, <1>2, <1>3, <1>4, <1>5, OnwardSound
  <1>6. CASE Ends(x)
    BY <1>1, <1>2, <1>6, EndSound
  <1>7. QED BY <1>2, <1>5, <1>6

\* Every card is read back.
LEMMA ReadbackSound == ASSUME Sound, NEW x \in Process, Readback(x) PROVE Sound'
  <1> DEFINE me == process[x]
             to == [me EXCEPT !.pc = "verify", !.n = 1]
  <1>1. /\ me \in Run /\ me.pc = "readback" /\ Linking(me)
    BY Here DEF Readback, Linking
  <1>2. Onward(me, to, {"verify"}) /\ {"verify"} \in SUBSET Later
    <2>1. 1 \in 1..Len(Plan)
      BY PhasesFinite
    <2>2. QED BY <1>1, <2>1 DEF Onward, Later, Run, Pc
  <1>3. /\ Goes(x, to) \/ Ends(x)
        /\ UNCHANGED <<cards, bindings, intents, orphans, lost, faults>>
    BY DEF Readback
  <1> HIDE DEF to
  <1>4. CASE Goes(x, to)
    BY <1>1, <1>2, <1>3, <1>4, OnwardSound
  <1>5. CASE Ends(x)
    BY <1>1, <1>3, <1>5, EndSound
  <1>6. QED BY <1>3, <1>4, <1>5

\* The edges of one card after the other are verified.
LEMMA VerifySound == ASSUME Sound, NEW x \in Process, Verify(x) PROVE Sound'
  <1> DEFINE me == process[x]
             next == [me EXCEPT !.n = @ + 1]
             root == Following(me, 1, Roots, "root", "idle")
  <1>1. /\ me \in Run /\ me.pc = "verify" /\ Linking(me) /\ Bound = Phase
        /\ me.n \in 1..Len(Plan) /\ Len(Plan) \in Nat
    BY Here, RunFields, PhasesFinite DEF Verify, Linking, StageOK
  <1>2. /\ \/ me.n < Len(Plan) /\ Goes(x, next)
           \/ Goes(x, root)
           \/ Ends(x)
        /\ UNCHANGED <<cards, bindings, intents, orphans, lost, faults>>
    BY DEF Verify
  <1>3. ASSUME me.n < Len(Plan), Goes(x, next) PROVE Sound'
    <2>1. me.n + 1 \in 1..Len(Plan)
      BY <1>1, <1>3
    <2>2. Onward(me, next, {"verify"}) /\ {"verify"} \in SUBSET Later
      BY <1>1, <2>1 DEF Onward, Later, Run
    <2> HIDE DEF next
    <2>3. QED BY <1>1, <1>2, <1>3, <2>2, OnwardSound
  <1>4. ASSUME Goes(x, root) PROVE Sound'
    <2>1. PassesTo(me, 1, Roots, "root", "idle", root)
      BY <1>1, FollowingTyped DEF Pc
    <2> HIDE DEF root
    <2>2. root \in Run /\ root.view = me.view /\ root.pc \in {"root", "idle"}
      BY <2>1 DEF PassesTo
    <2>3. StageOK(root, Phase)
      BY <2>2 DEF StageOK, Carding, Linking
    <2>4. QED BY <1>1, <1>2, <1>4, <2>2, <2>3, LaterSound
  <1>5. CASE Ends(x)
    BY <1>1, <1>2, <1>5, EndSound
  <1>6. QED BY <1>2, <1>3, <1>4, <1>5

\* The next root, or the end.
LEMMA NextRootSound ==
  ASSUME Sound, NEW x \in Process, process[x].pc # "idle", Linking(process[x]),
         NEW me \in Run, me.view = process[x].view, Goes(x, NextRoot(me)),
         UNCHANGED <<cards, bindings, intents, orphans, lost, faults>>
  PROVE  Sound'
  <1>1. {"root"} \in SUBSET Later
    BY DEF Later
  <1>2. QED BY <1>1, NextRootGoesOn, OnwardSound, LaterSound

\* The status of a root is read, and it is promoted if it is still to be done.
LEMMA ReadRootSound == ASSUME Sound, NEW x \in Process, ReadRoot(x) PROVE Sound'
  <1> DEFINE me == process[x]
             i == bindings[Item(me)]
             call == [kind |-> "promote", card |-> i]
             to == [me EXCEPT !.pc = "call", !.call = call]
  <1>1. /\ TypeOK /\ me \in Run /\ me.pc = "root" /\ Linking(me) /\ Bound = Phase
        /\ Item(me) \in Phase
    BY Here, RunFields DEF ReadRoot, StageOK, Linking
  <1>2. i \in Id
    <2>1. Len(cards) <= MaxCards /\ Len(cards) \in Nat /\ MaxCards \in Nat
      BY <1>1, PhasesFinite, BootstrapAssumption DEF TypeOK, MaxCards
    <2>2. QED BY <1>1, <2>1 DEF Bound, TypeOK, Id
  <1>3. call \in Call /\ call.kind = "promote"
    BY <1>2 DEF Call
  <1>4. /\ Goes(x, NextRoot(me)) \/ Goes(x, to) \/ Goes(x, RunIdle)
        /\ UNCHANGED <<cards, bindings, intents, orphans, lost, faults>>
    BY DEF ReadRoot
  <1> HIDE DEF call
  <1>5. to \in Run /\ to.pc = "call" /\ to.call = call /\ to.view = me.view
    BY <1>1, <1>3 DEF Run, Pc
  <1> HIDE DEF to
  <1>6. StageOK(to, Phase)
    BY <1>3, <1>5 DEF StageOK, Carding, Linking
  <1>7. CASE Goes(x, to)
    BY <1>1, <1>4, <1>5, <1>6, <1>7, LaterSound
  <1>8. CASE Goes(x, RunIdle)
    BY <1>1, <1>4, <1>8, LaterSound
  <1>9. CASE Goes(x, NextRoot(me))
    BY <1>1, <1>4, <1>9, NextRootSound
  <1>10. QED BY <1>4, <1>7, <1>8, <1>9

\* Without an answer the status is read again.
LEMMA ReadPromotedSound == ASSUME Sound, NEW x \in Process, ReadPromoted(x) PROVE Sound'
  <1> DEFINE me == [process[x] EXCEPT !.call = NoCall]
  <1>1. /\ process[x].pc = "promoted" /\ Linking(process[x])
        /\ me \in Run /\ me.view = process[x].view
    BY Here, ForgetsCall DEF ReadPromoted, Linking
  <1>2. /\ Goes(x, NextRoot(me)) \/ Ends(x)
        /\ UNCHANGED <<cards, bindings, intents, orphans, lost, faults>>
    BY DEF ReadPromoted
  <1> HIDE DEF me
  <1>3. CASE Goes(x, NextRoot(me))
    BY <1>1, <1>2, <1>3, NextRootSound
  <1>4. CASE Ends(x)
    BY <1>1, <1>2, <1>4, EndSound
  <1>5. QED BY <1>2, <1>3, <1>4

-----------------------------------------------------------------------------
(* Calls, the board and the ledger *)

\* What a run does with the answer of its call, or without one.  If the call was
\* answered, cs are the cards that it left.
LEMMA AnsweredGoesOn ==
  ASSUME Sound, NEW x \in Process, process[x].pc = "call", NEW ok \in BOOLEAN,
         ok => CardsStep /\ cards' = Executed(process[x].call)
  PROVE  LET to == Answered(process[x], ok)
         IN  \/ to = RunIdle
             \/ /\ to \in Run /\ to.view = process[x].view /\ StageOK(to, Bound)
                /\ to.flawed = process[x].flawed
                /\ to.call \in {process[x].call, NoCall}
                /\ to.pc \notin {"verify", "idle"}
                /\ to.pc \in {"root", "promoted"} => process[x].call.kind = "promote"
  <1> DEFINE old == process[x]
             me == [old EXCEPT !.call = NoCall]
             to == Answered(old, ok)
  <1>1. /\ TypeOK /\ old \in Run /\ old.pc = "call" /\ old.call \in Call
        /\ StageOK(old, Bound) /\ ViewOK(old, cards)
    BY Here DEF StageOK
  <1>2. /\ me \in Run /\ me.view = old.view /\ me.flawed = old.flawed /\ me.call = NoCall
    BY <1>1, ForgetsCall
  <1>3. CASE old.call.kind = "create" /\ old.call.phase \in Phase
    <2> DEFINE p == old.call.phase
               first == CHOOSE i \in Keyed(p) : \A k \in Keyed(p) : i <= k
               answer == IF ~ok THEN 0 ELSE IF Keyed(p) = {} THEN Len(cards) + 1 ELSE first
    <2>1. answer \in Id \cup {0}
      <3>1. CASE ~ok
        BY <3>1
      <3>2. CASE ok /\ Keyed(p) = {}
        <4>1. cards' = Append(cards, CardFor(p)) /\ Len(cards') <= MaxCards
          BY <1>3, <3>2 DEF Executed, CardsStep
        <4>2. Len(cards) \in Nat /\ MaxCards \in Nat /\ Len(cards') = Len(cards) + 1
          BY <1>1, <4>1, PhasesFinite, BootstrapAssumption DEF TypeOK, MaxCards
        <4>3. QED BY <3>2, <4>1, <4>2 DEF Id
      <3>3. CASE ok /\ Keyed(p) # {}
        <4>1. first \in Keyed(p)
          BY <1>1, <3>3, LeastExists, KeyedTyped
        <4> HIDE DEF first
        <4>2. QED BY <1>1, <3>3, <4>1, KeyedTyped
      <3>4. QED BY <3>1, <3>2, <3>3
    <2> HIDE DEF first
    <2>2. to = [old EXCEPT !.pc = "reconcile", !.call = NoCall, !.answer = answer]
      BY <1>3 DEF Answered, first
    <2> HIDE DEF answer
    <2>3. /\ to \in Run /\ to.pc = "reconcile" /\ to.call = NoCall /\ to.n = old.n
          /\ to.view = old.view /\ to.flawed = old.flawed
      BY <1>1, <2>1, <2>2 DEF Run, Pc
    <2> HIDE DEF to
    <2>4. StageOK(to, Bound)
      BY <1>1, <1>3, <2>3 DEF StageOK, Carding, Linking
    <2>5. QED BY <2>3, <2>4 DEF to
  <1>4. CASE old.call.kind = "link"
    <2>1. Bound = Phase
      BY <1>1, <1>4 DEF StageOK, Linking
    <2>2. CASE ok
      <3>1. to = NextLink(me)
        BY <1>4, <2>2 DEF Answered
      <3> HIDE DEF me
      <3>2. Onward(me, to, {"link", "parents", "readback"})
        BY <1>2, <3>1, NextLinkGoesOn
      <3>3. {"link", "parents", "readback"} \in SUBSET Later /\ ViewOK(me, cards)
        BY <1>1, <1>2 DEF Later, ViewOK
      <3> HIDE DEF to
      <3>4. StageOK(to, Phase)
        BY <3>2, <3>3, LaterIsRight
      <3>5. QED BY <1>2, <2>1, <3>2, <3>4 DEF Onward, to
    <2>3. CASE ~ok
      <3>1. to = [old EXCEPT !.pc = "linked"]
        BY <1>4, <2>3 DEF Answered
      <3>2. to \in Run /\ to.pc = "linked" /\ to.view = old.view /\ to.flawed = old.flawed
            /\ to.call = old.call
        BY <1>1, <3>1 DEF Run, Pc
      <3> HIDE DEF to
      <3>3. StageOK(to, Bound)
        BY <2>1, <3>2 DEF StageOK, Carding, Linking
      <3>4. QED BY <3>2, <3>3 DEF to
    <2>4. QED BY <2>2, <2>3
  <1>5. CASE old.call.kind = "promote"
    <2>1. Bound = Phase
      BY <1>1, <1>5 DEF StageOK, Linking
    <2>2. CASE ok
      <3>1. to = NextRoot(me)
        BY <1>5, <2>2 DEF Answered
      <3> HIDE DEF me
      <3>2. to = RunIdle \/ Onward(me, to, {"root"})
        BY <1>2, <3>1, NextRootGoesOn
      <3>3. {"root"} \in SUBSET Later /\ ViewOK(me, cards)
        BY <1>1, <1>2 DEF Later, ViewOK
      <3> HIDE DEF to
      <3>4. to = RunIdle \/ StageOK(to, Phase)
        BY <3>2, <3>3, LaterIsRight
      <3>5. QED BY <1>2, <1>5, <2>1, <3>2, <3>4 DEF Onward, to
    <2>3. CASE ~ok
      <3>1. to = [old EXCEPT !.pc = "promoted"]
        BY <1>5, <2>3 DEF Answered
      <3>2. to \in Run /\ to.pc = "promoted" /\ to.view = old.view /\ to.flawed = old.flawed
            /\ to.call = old.call
        BY <1>1, <3>1 DEF Run, Pc
      <3> HIDE DEF to
      <3>3. StageOK(to, Bound)
        BY <2>1, <3>2 DEF StageOK, Carding, Linking
      <3>4. QED BY <1>5, <3>2, <3>3 DEF to
    <2>4. QED BY <2>2, <2>3
  <1>6. QED BY <1>1, <1>3, <1>4, <1>5, CallKinds

\* A call is executed or fails, with or without its effect.
LEMMA CallSound ==
  ASSUME Sound, NEW x \in Process, Execute(x) \/ ExecuteFails(x)
  PROVE  Sound' /\ CardsStep
  <1>1. /\ TypeOK /\ Counted /\ process[x].pc = "call" /\ process[x].call \in Call
    BY Here DEF Execute, ExecuteFails, StageOK
  <1>2. faults' \in 0..MaxFaults /\ faults <= faults'
    <2>1. UNCHANGED faults \/ Fault
      BY DEF Execute, ExecuteFails
    <2>2. QED BY <1>1, <2>1, FaultsCount
  <1>3. CardsStep
    BY <1>1, <1>2, SameCards, ExecutedCall DEF Execute, ExecuteFails
  <1>4. UNCHANGED <<bindings, intents, orphans, lost>> /\ orphans' \subseteq Call
    BY <1>1 DEF Execute, ExecuteFails, TypeOK
  <1>5. PICK ok \in BOOLEAN : /\ Goes(x, Answered(process[x], ok))
                              /\ ok => cards' = Executed(process[x].call)
    BY DEF Execute, ExecuteFails
  <1> DEFINE to == Answered(process[x], ok)
  <1>6. to = RunIdle \/ (to \in Run /\ to.view = process[x].view /\ StageOK(to, Bound))
    BY <1>1, <1>3, <1>5, AnsweredGoesOn
  <1> HIDE DEF to
  <1>7. to \in Run /\ (to.pc # "idle" => StageOK(to, Bound) /\ to.view = process[x].view)
    <2>1. RunIdle \in Run /\ RunIdle.pc = "idle"
      BY IdleTyped DEF RunIdle
    <2>2. QED BY <1>6, <2>1
  <1>8. Goes(x, to)
    BY <1>5 DEF to
  <1>9. QED BY <1>1, <1>2, <1>3, <1>4, <1>7, <1>8, BoardAndRun

\* A run dies in a call.
LEMMA CrashSound == ASSUME Sound, NEW x \in Process, Crash(x) PROVE Sound' /\ CardsStep
  <1>1. /\ TypeOK /\ Counted /\ process[x].pc = "call" /\ process[x].call \in Call
    BY Here DEF Crash, StageOK
  <1>2. faults' \in 0..MaxFaults /\ faults <= faults'
    BY <1>1, FaultsCount DEF Crash
  <1>3. CardsStep
    BY <1>1, <1>2, SameCards DEF Crash
  <1>4. Goes(x, RunIdle) /\ RunIdle.pc = "idle" /\ orphans' \subseteq Call
        /\ UNCHANGED <<bindings, intents, lost>>
    BY <1>1 DEF Crash, Ends, RunIdle, TypeOK
  <1>5. QED BY <1>1, <1>2, <1>3, <1>4, IdleTyped, BoardAndRun

\* The board changes, and no run.
LEMMA BoardSound ==
  ASSUME Sound, CardsStep, UNCHANGED <<bindings, intents, process, lost>>,
         orphans' \subseteq Call, faults' \in 0..MaxFaults
  PROVE  Sound'
  <1>1. TypeOK /\ Staged
    BY DEF Sound
  <1>2. Staged' /\ process' \in [Process -> Run]
    BY <1>1, OthersStep DEF TypeOK
  <1>3. QED BY <1>1, <1>2, BindingsKept, SoundAgain DEF TypeOK

\* A late call, the work and the changes of others.
LEMMA OutsideSound ==
  ASSUME Sound, ExecuteOrphan \/ \E i \in 1..Len(cards) : Work(i) \/ Tamper(i)
  PROVE  Sound' /\ CardsStep
  <1>1. TypeOK /\ Counted /\ \A i \in 1..Len(cards) : cards[i] \in Card
    BY DEF Sound, TypeOK
  <1>2. faults' \in 0..MaxFaults /\ faults <= faults' /\ orphans' \subseteq Call
        /\ UNCHANGED <<bindings, intents, process, lost>>
    <2>1. UNCHANGED faults \/ Fault
      BY DEF ExecuteOrphan, Work, Tamper
    <2>2. orphans' \subseteq Call /\ UNCHANGED <<bindings, intents, process, lost>>
      BY <1>1 DEF ExecuteOrphan, Work, Tamper, TypeOK
    <2>3. QED BY <1>1, <2>1, <2>2, FaultsCount
  <1>3. CASE ExecuteOrphan
    <2>1. \E call \in Call : cards' = Executed(call)
      BY <1>1, <1>3 DEF ExecuteOrphan, TypeOK
    <2>2. CardsStep
      BY <1>1, <1>2, <2>1, ExecutedCall
    <2>3. QED BY <1>2, <2>2, BoardSound
  <1>4. ASSUME NEW i \in 1..Len(cards), Work(i) PROVE Sound' /\ CardsStep
    <2>1. PICK to \in Status : Moves(i, to)
      BY <1>4 DEF Work, Status
    <2> DEFINE card == [cards[i] EXCEPT !.status = to]
    <2>2. card \in Card /\ card.phase = cards[i].phase /\ card.intact = cards[i].intact
      BY <1>1 DEF Card
    <2>3. cards' = [cards EXCEPT ![i] = card]
      BY <2>1 DEF Moves
    <2> HIDE DEF card
    <2>4. CardsStep
      BY <1>1, <1>2, <2>2, <2>3, EditedCard
    <2>5. QED BY <1>2, <2>4, BoardSound
  <1>5. ASSUME NEW i \in 1..Len(cards), Tamper(i) PROVE Sound' /\ CardsStep
    <2>1. faults' = faults + 1
      BY <1>5 DEF Tamper, Fault
    <2>2. CASE cards' = [cards EXCEPT ![i].intact = FALSE]
      <3> DEFINE card == [cards[i] EXCEPT !.intact = FALSE]
      <3>1. card \in Card /\ card.phase = cards[i].phase /\ ~card.intact
        BY <1>1 DEF Card
      <3>2. cards' = [cards EXCEPT ![i] = card]
        BY <2>2
      <3> HIDE DEF card
      <3>3. CardsStep
        BY <1>1, <1>2, <3>1, <3>2, EditedCard
      <3>4. QED BY <1>2, <3>3, BoardSound
    <2>3. CASE cards' = Append(cards, [CardFor(cards[i].phase) EXCEPT !.copy = TRUE])
      <3> DEFINE card == [CardFor(cards[i].phase) EXCEPT !.copy = TRUE]
      <3>1. card \in Card
        BY <1>1 DEF CardFor, Card, Status
      <3> HIDE DEF card
      <3>2. CardsStep
        BY <1>1, <1>2, <2>1, <2>3, <3>1, AddedCard DEF card
      <3>3. QED BY <1>2, <3>2, BoardSound
    <2>4. QED BY <1>5, <2>2, <2>3 DEF Tamper
  <1>6. QED BY <1>3, <1>4, <1>5

\* The ledger is lost between runs.
LEMMA LoseLedgerSound == ASSUME Sound, LoseLedger PROVE Sound' /\ CardsStep
  <1>1. TypeOK /\ Counted /\ Staged
    BY DEF Sound
  <1>2. faults' \in 0..MaxFaults /\ faults <= faults' /\ lost' \in BOOLEAN
        /\ UNCHANGED <<cards, orphans, process>>
    BY <1>1, BootstrapAssumption DEF LoseLedger, Fault, TypeOK
  <1>3. CardsStep
    BY <1>1, <1>2, SameCards
  <1>4. Staged' /\ process' \in [Process -> Run]
    BY <1>1, <1>2 DEF LoseLedger, LockFree, Staged, TypeOK
  <1>5. bindings' \in [Phase -> 0..Len(cards')] /\ Bound' = {}
        /\ intents' \in [Phase -> {"none", "prepared", "completed"}]
    BY <1>1, <1>2 DEF LoseLedger, Bound, TypeOK
  <1>6. QED BY <1>1, <1>2, <1>3, <1>4, <1>5, SoundAgain DEF TypeOK

\* Every step keeps the invariant of the types, and lets the board only grow.
LEMMA SoundStep == ASSUME Sound, [Next]_vars PROVE Sound' /\ CardsStep
  <1>1. TypeOK /\ Counted
    BY DEF Sound
  <1>2. ASSUME UNCHANGED <<cards, faults>> \/ (UNCHANGED cards /\ Fault) PROVE CardsStep
    <2>1. faults' \in 0..MaxFaults /\ faults <= faults'
      BY <1>1, <1>2, BootstrapAssumption DEF Fault, TypeOK
    <2>2. QED BY <1>1, <1>2, <2>1, SameCards
  <1>3. ASSUME NEW x \in Process, Start(x) PROVE Sound' /\ CardsStep
    BY <1>2, <1>3, StartSound DEF Start
  <1>4. ASSUME NEW x \in Process, Steps(x), ~Execute(x) PROVE Sound' /\ CardsStep
    <2>1. Sound'
      BY <1>4, ListSound, ChooseSound, ReconcileSound, CompleteSound, ReadParentsSound, LinkSound,
         ReadLinkedSound, ReadbackSound, VerifySound, ReadRootSound, ReadPromotedSound DEF Steps
    <2>2. UNCHANGED <<cards, faults>>
      BY <1>4
      DEF Steps, ListExisting, Choose, Reconcile, Complete, ReadParents, Link, ReadLinked,
          Readback, Verify, ReadRoot, ReadPromoted
    <2>3. QED BY <1>2, <2>1, <2>2
  <1>5. ASSUME NEW x \in Process, Execute(x) \/ ExecuteFails(x) PROVE Sound' /\ CardsStep
    BY <1>5, CallSound
  <1>6. ASSUME NEW x \in Process, ReadFails(x) PROVE Sound' /\ CardsStep
    BY <1>2, <1>6, EndSound DEF ReadFails
  <1>7. ASSUME NEW x \in Process, Crash(x) PROVE Sound' /\ CardsStep
    BY <1>7, CrashSound
  <1>8. CASE UNCHANGED vars
    <2>1. Staged' /\ TypeOK'
      <3>1. Bound' = Bound
        BY <1>8 DEF vars, Bound
      <3>2. Staged
        BY DEF Sound
      <3>3. QED BY <1>1, <1>8, <3>1, <3>2 DEF vars, Staged, TypeOK
    <2>2. CardsStep
      BY <1>2, <1>8 DEF vars
    <2>3. QED BY <2>1, <2>2 DEF Sound, CardsStep
  <1>9. QED
    BY <1>3, <1>4, <1>5, <1>6, <1>7, <1>8, OutsideSound, LoseLedgerSound DEF Next

\* At the start there is nothing.
LEMMA SoundAtFirst == Init => Sound
  <1> SUFFICES ASSUME Init PROVE Sound
    OBVIOUS
  <1>1. MaxCards \in Nat /\ 0 \in 0..MaxFaults
    BY PhasesFinite, BootstrapAssumption DEF MaxCards
  <1>2. cards \in Seq(Card) /\ Len(cards) = 0 /\ Bound = {}
    BY DEF Init, Bound
  <1>3. TypeOK
    <2>1. process \in [Process -> Run] /\ faults \in 0..MaxFaults
      BY <1>1, IdleTyped DEF Init
    <2>2. bindings \in [Phase -> 0..Len(cards)] /\ Len(cards) \in 0..MaxCards
      BY <1>1, <1>2 DEF Init
    <2>3. QED BY <1>2, <2>1, <2>2 DEF Init, TypeOK
  <1>4. Counted
    <2>1. IsFiniteSet(Carded)
      BY PhasesFinite, FS_Subset DEF Carded
    <2>2. Cardinality(Carded) \in Nat
      BY <2>1, FS_CardinalityType
    <2>3. QED BY <1>2, <2>2 DEF Init, Counted
  <1>5. Staged
    BY DEF Init, RunIdle, Staged
  <1>6. QED BY <1>3, <1>4, <1>5 DEF Sound

\* The invariant holds always.
LEMMA AlwaysSound == Spec => []Sound
  BY SoundAtFirst, SoundStep, PTL DEF Spec

\* The board, the ledger and the runs keep their types.
THEOREM BootstrapIsTyped == Spec => []TypeOK
  <1>1. Sound => TypeOK
    BY DEF Sound
  <1>2. QED BY <1>1, AlwaysSound, PTL

-----------------------------------------------------------------------------
(* A flaw is not exposed *)

\* The places of a run that are behind the read-back.
Exposing == {"verify", "root", "promoted"}

\* A run that found a flaw is not behind the read-back.
Held(me) == me.flawed => me.pc \notin Exposing /\ me.call.kind # "promote"

\* The flaw that a run found is still there, and holds it.
FlawInv == \A x \in Process : Held(process[x]) /\ (process[x].flawed => Flawed)

\* No step of anybody mends a flaw.
LEMMA FlawStays == ASSUME Sound, CardsStep, Flawed PROVE Flawed'
  <1>1. TypeOK /\ Len(cards) \in Nat /\ Len(cards') \in Nat
    BY DEF Sound, TypeOK, CardsStep
  <1>2. PICK p \in Phase : Cardinality(Keyed(p)) > 1 \/ \E i \in Keyed(p) : ~cards[i].intact
    BY DEF Flawed
  <1>3. Keyed(p) \subseteq Keyed(p)'
    BY <1>1 DEF Keyed, CardsStep, Grown
  <1>4. CASE Cardinality(Keyed(p)) > 1
    <2>1. Keyed(p)' \in SUBSET (1..Len(cards')) /\ IsFiniteSet(1..Len(cards'))
      BY <1>1, FS_Interval DEF Keyed
    <2>2. IsFiniteSet(Keyed(p)')
      BY <2>1, FS_Subset
    <2>3. Cardinality(Keyed(p)) <= Cardinality(Keyed(p)')
      BY <1>3, <2>2, FS_Subset
    <2>4. Cardinality(Keyed(p)) \in Nat /\ Cardinality(Keyed(p)') \in Nat
      BY <1>1, <2>2, KeyedTyped, FS_CardinalityType
    <2>5. QED BY <1>4, <2>3, <2>4 DEF Flawed
  <1>5. ASSUME NEW i \in Keyed(p), ~cards[i].intact PROVE Flawed'
    <2>1. i \in Keyed(p)' /\ ~cards'[i].intact
      BY <1>1, <1>3, <1>5 DEF Keyed, CardsStep, Grown
    <2>2. QED BY <2>1 DEF Flawed
  <1>6. QED BY <1>2, <1>4, <1>5

\* A read-back that finds every card as it is bound finds no flaw.
LEMMA ReadbackFindsFlaws ==
  ASSUME Sound, NEW require_todo, \A p \in Phase : Select(p, require_todo) = bindings[p]
  PROVE  ~Flawed
  <1>1. TypeOK /\ \A p \in Phase : bindings[p] # -1
    BY DEF Sound, TypeOK
  <1>2. SUFFICES ASSUME NEW p \in Phase,
                        Cardinality(Keyed(p)) > 1 \/ \E i \in Keyed(p) : ~cards[i].intact
                 PROVE  FALSE
    BY DEF Flawed
  <1> DEFINE i == CHOOSE k \in Keyed(p) : TRUE
  <1>3. Keyed(p) # {} /\ i \in Keyed(p)
    BY <1>2, FS_EmptySet
  <1>4. Cardinality(Keyed(p)) = 1 /\ cards[i].intact
    BY <1>1, <1>3 DEF Select
  <1>5. PICK k : Keyed(p) = {k}
    BY <1>1, <1>4, KeyedTyped, FS_Singleton
  <1> HIDE DEF i
  <1>6. \A j \in Keyed(p) : cards[j].intact
    BY <1>3, <1>4, <1>5
  <1>7. QED BY <1>2, <1>4, <1>6

\* What a step makes of the run that takes it.
HoldsOn(x) == Held(process'[x]) /\ (process'[x].flawed => process[x].flawed)

\* A run that ends is held.
LEMMA EndHoldsOn ==
  ASSUME Sound, NEW x \in Process, Ends(x) \/ Goes(x, RunIdle) PROVE HoldsOn(x)
  <1>1. process'[x] = RunIdle
    BY DEF Ends, Goes, Sound, TypeOK
  <1>2. QED BY <1>1 DEF RunIdle, HoldsOn, Held

\* A run that goes to another place of the early stages, with no call or one that
\* promotes nothing.
LEMMA EarlyHoldsOn ==
  ASSUME Sound, NEW x \in Process, NEW to, Goes(x, to),
         to.flawed = process[x].flawed, to.pc \notin Exposing, to.call.kind # "promote"
  PROVE  HoldsOn(x)
  <1>1. process'[x] = to
    BY DEF Goes, Sound, TypeOK
  <1>2. QED BY <1>1 DEF HoldsOn, Held

\* A run that found no flaw is not held.
LEMMA FreeHoldsOn ==
  ASSUME Sound, NEW x \in Process, NEW to, Goes(x, to), ~process[x].flawed,
         to.flawed = process[x].flawed
  PROVE  HoldsOn(x)
  <1>1. process'[x] = to
    BY DEF Goes, Sound, TypeOK
  <1>2. QED BY <1>1 DEF HoldsOn, Held

\* The steps of the first stage.
LEMMA CardsHoldOn ==
  ASSUME Sound, NEW x \in Process, Held(process[x]),
         ListExisting(x) \/ Choose(x) \/ Reconcile(x) \/ Complete(x)
  PROVE  HoldsOn(x)
  <1> DEFINE me == process[x]
  <1>1. me \in Run /\ (me.flawed => me.call.kind # "promote") /\ me.n + 1 \in Nat \ {0}
    BY Here, RunFields DEF Held
  <1>2. CASE ListExisting(x)
    <2> DEFINE new == [me EXCEPT !.view = [p \in Phase |-> Select(p, TRUE)]]
               to == Following(new, 1, Phase \ Bound, "card", "parents")
    <2>1. new \in Run /\ new.flawed = me.flawed /\ new.call = me.call
      BY <1>1, Here, SelectTyped DEF Run
    <2>2. Goes(x, to)
      BY <1>2 DEF ListExisting
    <2> HIDE DEF new
    <2>3. PassesTo(new, 1, Phase \ Bound, "card", "parents", to)
      BY <2>1, FollowingTyped DEF Pc
    <2> HIDE DEF to
    <2>4. /\ to.flawed = me.flawed /\ to.call = me.call /\ to.pc \in {"card", "parents"}
      BY <2>1, <2>3 DEF PassesTo
    <2>5. QED BY <1>1, <2>2, <2>4, EarlyHoldsOn, FreeHoldsOn DEF Exposing
  <1>3. CASE Choose(x)
    <2> DEFINE take == [me EXCEPT !.pc = "complete"]
               create == [me EXCEPT !.pc = "call",
                                    !.call = [kind |-> "create", phase |-> Item(me)]]
    <2>1. Goes(x, take) \/ Ends(x) \/ Goes(x, create)
      BY <1>3 DEF Choose
    <2>2. /\ take.flawed = me.flawed /\ take.pc = "complete" /\ take.call = me.call
          /\ create.flawed = me.flawed /\ create.pc = "call" /\ create.call.kind = "create"
      BY <1>1 DEF Run
    <2> HIDE DEF take, create
    <2>3. QED BY <1>1, <2>1, <2>2, EndHoldsOn, EarlyHoldsOn, FreeHoldsOn DEF Exposing
  <1>4. CASE Reconcile(x)
    <2> DEFINE to == [me EXCEPT !.pc = "complete", !.answer = 0]
    <2>1. Goes(x, to) \/ Ends(x)
      BY <1>4 DEF Reconcile
    <2>2. /\ to.flawed = me.flawed /\ to.pc = "complete" /\ to.call = me.call
      BY <1>1 DEF Run
    <2> HIDE DEF to
    <2>3. QED BY <1>1, <2>1, <2>2, EndHoldsOn, EarlyHoldsOn, FreeHoldsOn DEF Exposing
  <1>5. CASE Complete(x)
    <2> DEFINE to == Following(me, me.n + 1, Phase \ Bound, "card", "parents")
    <2>1. Goes(x, to)
      BY <1>5 DEF Complete, After
    <2>2. PassesTo(me, me.n + 1, Phase \ Bound, "card", "parents", to)
      BY <1>1, FollowingTyped DEF Pc
    <2> HIDE DEF to
    <2>3. /\ to.flawed = me.flawed /\ to.call = me.call /\ to.pc \in {"card", "parents"}
      BY <2>2 DEF PassesTo
    <2>4. QED BY <1>1, <2>1, <2>3, EarlyHoldsOn, FreeHoldsOn DEF Exposing
  <1>6. QED BY <1>2, <1>3, <1>4, <1>5

\* The steps of the second stage.
LEMMA EdgesHoldOn ==
  ASSUME Sound, NEW x \in Process, Held(process[x]),
         ReadParents(x) \/ Link(x) \/ ReadLinked(x)
  PROVE  HoldsOn(x)
  <1> DEFINE old == process[x]
  <1>1. old \in Run /\ TypeOK /\ (old.flawed => old.call.kind # "promote")
    BY Here DEF Held
  <1>2. ASSUME NEW me \in Run, me.flawed = old.flawed, me.call \in {old.call, NoCall},
               Goes(x, NextLink(me))
        PROVE  HoldsOn(x)
    <2>1. Onward(me, NextLink(me), {"link", "parents", "readback"})
      BY NextLinkGoesOn
    <2>2. NoCall.kind # "promote"
      BY DEF NoCall
    <2>3. QED BY <1>1, <1>2, <2>1, <2>2, EarlyHoldsOn, FreeHoldsOn DEF Onward, Exposing
  <1>3. CASE ReadParents(x)
    <2> DEFINE missing == Expected(Item(old)) \ cards[bindings[Item(old)]].parents
               me == [old EXCEPT !.missing = missing]
    <2>1. CASE cards[bindings[Item(old)]].parents \subseteq Expected(Item(old))
      <3>1. missing \in SUBSET Id
        <4>1. Bound = Phase /\ Item(old) \in Phase
          BY <1>1, <1>3, Here, RunFields DEF ReadParents, StageOK, Linking
        <4>2. Deps[Item(old)] \subseteq Phase
          BY <4>1, BootstrapAssumption
        <4>3. \A q \in Phase : bindings[q] \in Id
          BY <1>1, <4>1, PhasesFinite, BootstrapAssumption DEF Bound, TypeOK, MaxCards, Id
        <4>4. QED BY <4>2, <4>3 DEF Expected
      <3> HIDE DEF missing
      <3>2. me \in Run /\ me.flawed = old.flawed /\ me.call = old.call
        BY <1>1, <3>1 DEF Run
      <3>3. Goes(x, NextLink(me))
        BY <1>3, <2>1 DEF ReadParents, missing
      <3> HIDE DEF me
      <3>4. QED BY <1>2, <3>2, <3>3
    <2>2. CASE ~(cards[bindings[Item(old)]].parents \subseteq Expected(Item(old)))
      BY <1>3, <2>2, EndHoldsOn DEF ReadParents
    <2>3. QED BY <2>1, <2>2
  <1>4. CASE Link(x)
    <2>1. PICK parent : Goes(x, [old EXCEPT !.pc = "call", !.missing = @ \ {parent},
                    !.call = [kind |-> "link", parent |-> parent, child |-> bindings[Item(old)]]])
      BY <1>4 DEF Link
    <2> DEFINE to == [old EXCEPT !.pc = "call", !.missing = @ \ {parent},
                    !.call = [kind |-> "link", parent |-> parent, child |-> bindings[Item(old)]]]
    <2>2. to.flawed = old.flawed /\ to.pc = "call" /\ to.call.kind = "link"
      BY <1>1 DEF Run
    <2> HIDE DEF to
    <2>3. QED BY <2>1, <2>2, EarlyHoldsOn DEF Exposing, to
  <1>5. CASE ReadLinked(x)
    <2> DEFINE me == [old EXCEPT !.call = NoCall]
    <2>1. me \in Run /\ me.flawed = old.flawed /\ me.call = NoCall
      BY <1>1, ForgetsCall
    <2>2. Goes(x, NextLink(me)) \/ Ends(x)
      BY <1>5 DEF ReadLinked
    <2> HIDE DEF me
    <2>3. QED BY <1>2, <2>1, <2>2, EndHoldsOn
  <1>6. QED BY <1>3, <1>4, <1>5

\* The read-back lets only a run go on that found no flaw.
LEMMA ReadbackHoldsOn ==
  ASSUME Sound, NEW x \in Process, Held(process[x]), process[x].flawed => Flawed, Readback(x)
  PROVE  HoldsOn(x)
  <1> DEFINE me == process[x]
             to == [me EXCEPT !.pc = "verify", !.n = 1]
  <1>1. to.flawed = me.flawed
    BY Here DEF Run
  <1>2. CASE \A p \in Phase : Select(p, RequireTodo(me)) = bindings[p]
    <2>1. ~me.flawed
      BY <1>2, ReadbackFindsFlaws
    <2>2. Goes(x, to)
      BY <1>2 DEF Readback
    <2> HIDE DEF to
    <2>3. QED BY <1>1, <2>1, <2>2, FreeHoldsOn
  <1>3. CASE ~(\A p \in Phase : Select(p, RequireTodo(me)) = bindings[p])
    BY <1>3, EndHoldsOn DEF Readback
  <1>4. QED BY <1>2, <1>3

\* The steps behind the read-back, of runs that found no flaw.
LEMMA RootsHoldOn ==
  ASSUME Sound, NEW x \in Process, Held(process[x]),
         Verify(x) \/ ReadRoot(x) \/ ReadPromoted(x)
  PROVE  HoldsOn(x)
  <1> DEFINE old == process[x]
  <1>1. old \in Run /\ ~old.flawed
    BY Here DEF Verify, ReadRoot, ReadPromoted, Held, Exposing
  <1>2. ASSUME NEW me \in Run, me.flawed = old.flawed, Goes(x, NextRoot(me)) PROVE HoldsOn(x)
    BY <1>1, <1>2, NextRootGoesOn, EndHoldsOn, FreeHoldsOn DEF Onward
  <1>3. CASE Verify(x)
    <2> DEFINE next == [old EXCEPT !.n = @ + 1]
               root == Following(old, 1, Roots, "root", "idle")
    <2>1. Goes(x, next) \/ Goes(x, root) \/ Ends(x)
      BY <1>3 DEF Verify
    <2>2. next.flawed = old.flawed
      BY <1>1 DEF Run
    <2>3. PassesTo(old, 1, Roots, "root", "idle", root)
      BY <1>1, FollowingTyped DEF Pc
    <2> HIDE DEF next, root
    <2>4. root.flawed = old.flawed
      BY <2>3 DEF PassesTo
    <2>5. QED BY <1>1, <2>1, <2>2, <2>4, EndHoldsOn, FreeHoldsOn
  <1>4. CASE ReadRoot(x)
    <2> DEFINE to == [old EXCEPT !.pc = "call",
                        !.call = [kind |-> "promote", card |-> bindings[Item(old)]]]
    <2>1. Goes(x, NextRoot(old)) \/ Goes(x, to) \/ Goes(x, RunIdle)
      BY <1>4 DEF ReadRoot
    <2>2. to.flawed = old.flawed
      BY <1>1 DEF Run
    <2> HIDE DEF to
    <2>3. QED BY <1>1, <1>2, <2>1, <2>2, EndHoldsOn, FreeHoldsOn
  <1>5. CASE ReadPromoted(x)
    <2> DEFINE me == [old EXCEPT !.call = NoCall]
    <2>1. me \in Run /\ me.flawed = old.flawed
      BY <1>1, ForgetsCall
    <2>2. Goes(x, NextRoot(me)) \/ Ends(x)
      BY <1>5 DEF ReadPromoted
    <2> HIDE DEF me
    <2>3. QED BY <1>2, <2>1, <2>2, EndHoldsOn
  <1>6. QED BY <1>3, <1>4, <1>5

\* The answer of a call.
LEMMA CallHoldsOn ==
  ASSUME Sound, NEW x \in Process, Held(process[x]), Execute(x) \/ ExecuteFails(x)
  PROVE  HoldsOn(x)
  <1> DEFINE old == process[x]
  <1>1. CardsStep /\ old.pc = "call" /\ (old.flawed => old.call.kind # "promote")
    BY CallSound DEF Execute, ExecuteFails, Held
  <1>2. PICK ok \in BOOLEAN : Goes(x, Answered(old, ok)) /\ (ok => cards' = Executed(old.call))
    BY DEF Execute, ExecuteFails
  <1> DEFINE to == Answered(old, ok)
  <1>3. \/ to = RunIdle
        \/ /\ to.flawed = old.flawed /\ to.call \in {old.call, NoCall} /\ to.pc # "verify"
           /\ to.pc \in {"root", "promoted"} => old.call.kind = "promote"
    BY <1>1, <1>2, AnsweredGoesOn
  <1>4. Goes(x, to) /\ NoCall.kind # "promote"
    BY <1>2 DEF NoCall
  <1> HIDE DEF to
  <1>5. QED BY <1>1, <1>3, <1>4, EndHoldsOn, EarlyHoldsOn, FreeHoldsOn DEF Exposing

\* A run takes the lock and looks at the board.
LEMMA StartHolds ==
  ASSUME Sound, NEW x \in Process, Start(x)
  PROVE  Held(process'[x]) /\ (process'[x].flawed => Flawed)
  <1> DEFINE to == [RunIdle EXCEPT !.pc = "list", !.known = Bound = Phase, !.flawed = Flawed]
  <1>1. process'[x] = to
    BY DEF Start, Goes, Sound, TypeOK
  <1>2. to.pc = "list" /\ to.call = NoCall /\ to.flawed = Flawed
    BY DEF RunIdle
  <1> HIDE DEF to
  <1>3. QED BY <1>1, <1>2 DEF Held, Exposing, NoCall

\* Every step keeps the invariant of the flaws.
LEMMA FlawStep == ASSUME Sound, FlawInv, [Next]_vars PROVE FlawInv'
  <1>1. Sound' /\ CardsStep /\ (Flawed => Flawed')
    BY SoundStep, FlawStays
  <1>2. ASSUME NEW x \in Process, Held(process'[x]), process'[x].flawed => Flawed,
               \A y \in Process \ {x} : process'[y] = process[y]
        PROVE  FlawInv'
    BY <1>1, <1>2 DEF FlawInv, Held
  <1>3. ASSUME NEW x \in Process, HoldsOn(x), NEW me, Goes(x, me) PROVE FlawInv'
    <2>1. \A y \in Process \ {x} : process'[y] = process[y]
      BY <1>3 DEF Goes, Sound, TypeOK
    <2>2. QED BY <1>2, <1>3, <2>1 DEF HoldsOn, FlawInv
  <1>4. ASSUME NEW x \in Process, Start(x) PROVE FlawInv'
    <2>1. \A y \in Process \ {x} : process'[y] = process[y]
      BY <1>4 DEF Start, Goes, Sound, TypeOK
    <2>2. QED BY <1>2, <1>4, <2>1, StartHolds
  <1>5. ASSUME NEW x \in Process, Steps(x) \/ ExecuteFails(x) PROVE FlawInv'
    <2>1. HoldsOn(x)
      BY <1>5, CardsHoldOn, EdgesHoldOn, ReadbackHoldsOn, RootsHoldOn, CallHoldsOn
      DEF Steps, FlawInv
    <2>2. \E me : Goes(x, me)
      BY <1>5
      DEF Steps, ListExisting, Choose, Reconcile, Complete, ReadParents, Link, ReadLinked,
          Readback, Verify, ReadRoot, ReadPromoted, Execute, ExecuteFails, Ends
    <2>3. QED BY <1>3, <2>1, <2>2
  <1>6. ASSUME NEW x \in Process, ReadFails(x) \/ Crash(x) PROVE FlawInv'
    <2>1. Ends(x)
      BY <1>6 DEF ReadFails, Crash
    <2>2. QED BY <1>3, <2>1, EndHoldsOn DEF Ends
  <1>7. CASE UNCHANGED process
    BY <1>1, <1>7 DEF FlawInv, Held
  <1>8. QED
    BY <1>4, <1>5, <1>6, <1>7
    DEF Next, ExecuteOrphan, Work, Tamper, LoseLedger, vars

\* A run that found a card edited, or a key twice, exposes nothing: whatever it
\* then lists, takes over, creates or links, the read-back ends it.
THEOREM FlawsStayHidden == Spec => []FlawIsNotExposed
  <1>1. Init => FlawInv
    BY DEF Init, RunIdle, NoCall, FlawInv, Held
  <1>2. FlawInv => FlawIsNotExposed
    BY DEF FlawInv, Held, Exposing, FlawIsNotExposed
  <1>3. QED BY <1>1, <1>2, AlwaysSound, FlawStep, PTL DEF Spec

-----------------------------------------------------------------------------
(* The graph grows as planned *)

\* Card k is the first of a phase that the phase of card i depends on.
EdgeOK(k, i) ==
  /\ k \in 1..Len(cards) /\ i \in 1..Len(cards)
  /\ k = First(cards[k].phase)
  /\ cards[k].phase \in Deps[cards[i].phase]

\* All edges into a phase are drawn.
DrawnInto(p) == \A q \in Deps[p] : Drawn(q, p)

\* The graph is whole: Graph!Whole, but that it may have more edges.
WholeNow == \A p \in Phase : Keyed(p) # {} /\ DrawnInto(p)

\* A call to link draws a planned edge; one to promote exposes a root of a
\* whole graph.
GoodCall(call) ==
  /\ call.kind = "link" => EdgeOK(call.parent, call.child)
  /\ call.kind = "promote" =>
       WholeNow /\ call.card \in 1..Len(cards) /\ cards[call.card].phase \in Roots

\* A run that has parents left to link, or links the last of them.
Links(me) == me.pc \in {"link", "linked"} \/ (me.pc = "call" /\ me.call.kind = "link")

\* The parents that a run is still to link are those of its item.
GoodMissing(me) ==
  IF Links(me) THEN Bound = Phase /\ me.missing \subseteq Expected(Item(me))
  ELSE me.missing = {}

\* What a run listed are the first cards of their phases.
GoodView(me) == \A p \in Phase : me.view[p] > 0 => me.view[p] \in Keyed(p) /\ me.view[p] = First(p)

\* Besides, what a run verified is drawn, and all is whole when it comes to the
\* roots.
GoodRun(me) ==
  /\ GoodView(me) /\ GoodMissing(me) /\ GoodCall(me.call)
  /\ me.pc = "verify" => \A m \in 1..me.n - 1 : DrawnInto(Plan[m])
  /\ me.pc \in {"root", "promoted"} => WholeNow
  /\ me.pc = "root" => Item(me) \in Roots

\* Phases are bound to their first cards.
BoundFirst == \A p \in Bound : bindings[p] \in Keyed(p) /\ bindings[p] = First(p)

\* Every edge is planned.
EdgesRight == \A i \in 1..Len(cards) : \A k \in cards[i].parents : EdgeOK(k, i)

\* Nothing is exposed before the graph is whole.
ExposedWhole ==
  \A p \in Phase : Keyed(p) # {} /\ cards[First(p)].status # "todo" => WholeNow

\* The inductive invariant behind ImplementsGraph.
GraphInv ==
  /\ BoundFirst /\ EdgesRight /\ ExposedWhole
  /\ \A x \in Process : GoodRun(process[x])
  /\ \A call \in orphans : GoodCall(call)

-----------------------------------------------------------------------------
(* What is planned stays right while the board grows *)

\* The first card of a phase is the least with its key.
LEMMA FirstIs ==
  ASSUME TypeOK, NEW p, Keyed(p) # {}
  PROVE  First(p) \in Keyed(p) /\ \A k \in Keyed(p) : First(p) <= k
  <1>1. \E i \in Keyed(p) : \A k \in Keyed(p) : i <= k
    BY KeyedTyped, LeastExists
  <1>2. QED BY <1>1 DEF First

\* No other card is.
LEMMA FirstOnly ==
  ASSUME TypeOK, NEW p, NEW i \in Keyed(p), \A k \in Keyed(p) : i <= k
  PROVE  First(p) = i
  <1>1. First(p) \in Keyed(p) /\ First(p) <= i /\ i <= First(p)
    BY FirstIs
  <1>2. QED BY <1>1, KeyedTyped

\* The cards keep their phases and their edges.
Growing ==
  /\ TypeOK /\ TypeOK' /\ Len(cards) <= Len(cards')
  /\ \A i \in 1..Len(cards) :
       cards'[i].phase = cards[i].phase /\ cards[i].parents \subseteq cards'[i].parents

\* The first card of a phase stays the first.
LEMMA FirstStays ==
  ASSUME Growing, NEW p, Keyed(p) # {}
  PROVE  Keyed(p) \subseteq Keyed(p)' /\ First(p)' = First(p)
  <1>1. Len(cards) \in Nat /\ Len(cards') \in Nat /\ TypeOK
    BY DEF Growing, TypeOK
  <1>2. Keyed(p) \subseteq Keyed(p)' /\ Keyed(p)' \cap 1..Len(cards) = Keyed(p)
    BY <1>1 DEF Growing, Keyed
  <1>3. First(p) \in Keyed(p) /\ \A k \in Keyed(p) : First(p) <= k
    BY <1>1, FirstIs
  <1>4. First(p) \in Keyed(p)' /\ \A k \in Keyed(p)' : First(p) <= k
    <2>1. First(p) \in 1..Len(cards) /\ \A k \in Keyed(p)' : k \in 1..Len(cards')
      BY <1>3 DEF Keyed
    <2>2. QED BY <1>1, <1>2, <1>3, <2>1
  <1>5. First(p)' \in Keyed(p)' /\ \A k \in Keyed(p)' : First(p)' <= k
    <2>1. Keyed(p)' \in SUBSET Nat /\ Keyed(p)' # {}
      BY <1>1, <1>4 DEF Keyed
    <2>2. \E i \in Keyed(p)' : \A k \in Keyed(p)' : i <= k
      BY <2>1, LeastExists
    <2>3. QED BY <2>2 DEF First
  <1>6. \A k \in Keyed(p)' : k \in Nat
    BY <1>1 DEF Keyed
  <1>7. QED BY <1>2, <1>4, <1>5, <1>6

\* So what is known of the graph is known for good.
LEMMA PlannedStays ==
  ASSUME Growing
  PROVE  /\ \A k, i : EdgeOK(k, i) => EdgeOK(k, i)'
         /\ \A p, q : Drawn(p, q) => Drawn(p, q)'
         /\ \A p \in Phase : DrawnInto(p) => DrawnInto(p)'
         /\ WholeNow => WholeNow'
  <1>1. Len(cards) \in Nat /\ Len(cards') \in Nat
    BY DEF Growing, TypeOK
  <1>2. ASSUME NEW k, NEW i, EdgeOK(k, i) PROVE EdgeOK(k, i)'
    <2>1. k \in 1..Len(cards) /\ i \in 1..Len(cards) /\ k \in Keyed(cards[k].phase)
      BY <1>2 DEF EdgeOK, Keyed
    <2>2. First(cards[k].phase)' = k /\ cards'[k].phase = cards[k].phase
      BY <1>2, <2>1, FirstStays DEF EdgeOK, Growing
    <2>3. QED BY <1>1, <1>2, <2>1, <2>2 DEF EdgeOK, Growing
  <1>3. ASSUME NEW p, NEW q, Drawn(p, q) PROVE Drawn(p, q)'
    <2>1. First(q) \in 1..Len(cards)
      BY <1>3, FirstIs DEF Drawn, Keyed, Growing
    <2>2. QED BY <1>3, <2>1, FirstStays DEF Drawn, Growing
  <1>4. QED BY <1>2, <1>3, FirstStays DEF DrawnInto, WholeNow

-----------------------------------------------------------------------------
(* What a step makes of the graph *)

\* Whoever may give card i another status, and which: Hermes and the workers,
\* and the promotion of a root of a whole graph.
Allowed(i, to) ==
  \/ <<cards[i].status, to>> \in {<<"ready", "running">>, <<"running", "done">>,
                                 <<"running", "blocked">>, <<"blocked", "ready">>}
  \/ /\ cards[i].status = "todo" /\ to = "ready"
     /\ \/ cards[i].phase \in Roots /\ WholeNow
        \/ /\ cards[i].parents # {}
           /\ \A k \in cards[i].parents : cards[k].status = "done"

\* A card is added that has no edges yet: the first of its phase, or a copy.
Adds(card) ==
  /\ card.status = "todo" /\ card.parents = {}
  /\ card.copy \/ Keyed(card.phase) = {}
  /\ cards' = Append(cards, card)

\* Card i becomes card, which has one more edge or another status, or is edited.
Edits(i, card) ==
  /\ cards' = [cards EXCEPT ![i] = card]
  /\ card.phase = cards[i].phase /\ card.copy = cards[i].copy
  /\ \/ card.status = cards[i].status /\ card.parents = cards[i].parents
     \/ /\ card.status = cards[i].status
        /\ \E k \in Id : EdgeOK(k, i) /\ card.parents = cards[i].parents \cup {k}
     \/ card.parents = cards[i].parents /\ Allowed(i, card.status)

\* The steps of the board.
BoardStep ==
  \/ UNCHANGED cards
  \/ \E card \in Card : Adds(card)
  \/ \E i \in 1..Len(cards), card \in Card : Edits(i, card)

\* The execution of a call that is right is one of them.
LEMMA CallIsBoardStep ==
  ASSUME TypeOK, NEW call \in Call, GoodCall(call), cards' = Executed(call)
  PROVE  BoardStep
  <1>1. Len(cards) \in Nat /\ \A i \in 1..Len(cards) : cards[i] \in Card
    BY DEF TypeOK
  <1>2. CASE call.kind = "create" /\ call.phase \in Phase
    <2>1. /\ CardFor(call.phase) \in Card
          /\ CardFor(call.phase).status = "todo" /\ CardFor(call.phase).parents = {}
          /\ CardFor(call.phase).phase = call.phase
      BY <1>2 DEF CardFor, Card, Status
    <2>2. \/ UNCHANGED cards
          \/ Keyed(call.phase) = {} /\ cards' = Append(cards, CardFor(call.phase))
      BY <1>2 DEF Executed
    <2>3. QED BY <2>1, <2>2 DEF BoardStep, Adds
  <1>3. CASE call.kind = "link" /\ call.parent \in Id /\ call.child \in Id
    <2> DEFINE i == call.child
               card == [cards[i] EXCEPT !.parents = @ \cup {call.parent}]
    <2>1. EdgeOK(call.parent, i) /\ i \in 1..Len(cards)
      BY <1>3 DEF GoodCall, EdgeOK
    <2>2. /\ card \in Card /\ card.phase = cards[i].phase /\ card.copy = cards[i].copy
          /\ card.status = cards[i].status
          /\ card.parents = cards[i].parents \cup {call.parent}
      BY <1>1, <1>3, <2>1 DEF Card
    <2>3. cards' = [cards EXCEPT ![i] = card]
      BY <1>3 DEF Executed
    <2> HIDE DEF card
    <2>4. Edits(i, card)
      BY <1>3, <2>1, <2>2, <2>3 DEF Edits
    <2>5. QED BY <2>1, <2>2, <2>4 DEF BoardStep
  <1>4. CASE call.kind = "promote" /\ call.card \in Id
    <2> DEFINE i == call.card
               card == [cards[i] EXCEPT !.status = "ready"]
    <2>1. i \in 1..Len(cards) /\ cards[i].phase \in Roots /\ WholeNow
      BY <1>4 DEF GoodCall
    <2>2. CASE cards[i].status = "todo"
      <3>1. /\ card \in Card /\ card.phase = cards[i].phase /\ card.copy = cards[i].copy
            /\ card.status = "ready"
            /\ card.parents = cards[i].parents
        BY <1>1, <2>1 DEF Card, Status
      <3>2. cards' = [cards EXCEPT ![i] = card]
        BY <1>4, <2>2 DEF Executed
      <3> HIDE DEF card
      <3>3. Edits(i, card)
        BY <2>1, <2>2, <3>1, <3>2 DEF Edits, Allowed
      <3>4. QED BY <2>1, <3>1, <3>3 DEF BoardStep
    <2>3. CASE cards[i].status # "todo"
      BY <1>4, <2>3 DEF Executed, BoardStep
    <2>4. QED BY <2>2, <2>3
  <1>5. QED BY <1>2, <1>3, <1>4, CallKinds

\* So is the work.
LEMMA WorkIsBoardStep ==
  ASSUME TypeOK, NEW i \in 1..Len(cards), Work(i)
  PROVE  BoardStep
  <1>0. cards[i] \in Card
    BY DEF TypeOK
  <1>1. PICK to \in Status : Moves(i, to) /\ Allowed(i, to)
    BY DEF Work, Allowed, Status
  <1> DEFINE card == [cards[i] EXCEPT !.status = to]
  <1>2. /\ card \in Card /\ card.phase = cards[i].phase /\ card.copy = cards[i].copy
        /\ card.status = to
        /\ card.parents = cards[i].parents
    BY <1>0 DEF Card
  <1>3. cards' = [cards EXCEPT ![i] = card]
    BY <1>1 DEF Moves
  <1> HIDE DEF card
  <1>4. QED BY <1>1, <1>2, <1>3 DEF BoardStep, Edits

\* So is what others edit and copy.
LEMMA TamperIsBoardStep ==
  ASSUME TypeOK, NEW i \in 1..Len(cards), Tamper(i)
  PROVE  BoardStep
  <1>1. cards[i] \in Card
    BY DEF TypeOK
  <1>2. CASE cards' = [cards EXCEPT ![i].intact = FALSE]
    <2> DEFINE card == [cards[i] EXCEPT !.intact = FALSE]
    <2>1. /\ card \in Card /\ card.phase = cards[i].phase /\ card.copy = cards[i].copy
          /\ card.status = cards[i].status
          /\ card.parents = cards[i].parents
      BY <1>1 DEF Card
    <2>2. cards' = [cards EXCEPT ![i] = card]
      BY <1>2
    <2> HIDE DEF card
    <2>3. QED BY <2>1, <2>2 DEF BoardStep, Edits
  <1>3. CASE cards' = Append(cards, [CardFor(cards[i].phase) EXCEPT !.copy = TRUE])
    <2> DEFINE card == [CardFor(cards[i].phase) EXCEPT !.copy = TRUE]
    <2>1. card \in Card /\ card.status = "todo" /\ card.parents = {} /\ card.copy
      BY <1>1 DEF CardFor, Card, Status
    <2> HIDE DEF card
    <2>2. QED BY <1>3, <2>1 DEF BoardStep, Adds, card
  <1>4. QED BY <1>2, <1>3 DEF Tamper

\* And so is every step, while the calls under way are right.
LEMMA EveryBoardStep ==
  ASSUME Sound, GraphInv, [Next]_vars
  PROVE  BoardStep
  <1>1. TypeOK
    BY DEF Sound
  <1>2. ASSUME NEW x \in Process, Execute(x) \/ ExecuteFails(x) PROVE BoardStep
    <2>1. process[x].call \in Call /\ GoodCall(process[x].call)
      BY <1>2, Here DEF Execute, ExecuteFails, StageOK, GraphInv, GoodRun
    <2>2. UNCHANGED cards \/ cards' = Executed(process[x].call)
      BY <1>2 DEF Execute, ExecuteFails
    <2>3. QED BY <1>1, <2>1, <2>2, CallIsBoardStep DEF BoardStep
  <1>3. CASE ExecuteOrphan
    <2>1. PICK call \in orphans : cards' = Executed(call)
      BY <1>3 DEF ExecuteOrphan
    <2>2. call \in Call /\ GoodCall(call)
      BY <1>1 DEF TypeOK, GraphInv
    <2>3. QED BY <1>1, <2>1, <2>2, CallIsBoardStep
  <1>4. ASSUME NEW i \in 1..Len(cards), Work(i) \/ Tamper(i) PROVE BoardStep
    BY <1>1, <1>4, WorkIsBoardStep, TamperIsBoardStep
  <1>5. ASSUME UNCHANGED cards PROVE BoardStep
    BY <1>5 DEF BoardStep
  <1>6. QED
    BY <1>2, <1>3, <1>4, <1>5
    DEF Next, vars, Start, Steps, ListExisting, Choose, Reconcile, Complete, ReadParents, Link,
        ReadLinked, Readback, Verify, ReadRoot, ReadPromoted, ReadFails, Crash, LoseLedger

-----------------------------------------------------------------------------
(* What the graph's readers make of it *)

\* The status and the edges of the graph.
Shown == [p \in Phase |-> StatusOf(p)]
Edges == {e \in Phase \X Phase : Drawn(e[1], e[2])}

\* A card has the key of its phase.
LEMMA CardsKey ==
  ASSUME TypeOK, NEW i \in 1..Len(cards)
  PROVE  cards[i] \in Card /\ cards[i].phase \in Phase /\ i \in Keyed(cards[i].phase)
  <1>1. cards[i] \in Card
    BY DEF TypeOK
  <1>2. QED BY <1>1 DEF Card, Keyed

\* A first card is one of the cards.
LEMMA FirstCard ==
  ASSUME TypeOK, NEW p \in Phase, Keyed(p) # {}
  PROVE  /\ First(p) \in 1..Len(cards) /\ cards[First(p)] \in Card
         /\ cards[First(p)].phase = p /\ StatusOf(p) = cards[First(p)].status
         /\ StatusOf(p) \in Status
  <1>1. First(p) \in 1..Len(cards) /\ cards[First(p)].phase = p
    BY FirstIs DEF Keyed
  <1>2. cards[First(p)] \in Card
    BY <1>1 DEF TypeOK
  <1>3. QED BY <1>1, <1>2 DEF StatusOf, Card

\* A drawn edge is a planned one.
LEMMA DrawnIsWanted ==
  ASSUME TypeOK, EdgesRight, NEW p \in Phase, NEW q \in Phase, Drawn(p, q)
  PROVE  p \in Deps[q] /\ EdgeOK(First(p), First(q))
  <1>1. EdgeOK(First(p), First(q))
    BY FirstCard DEF Drawn, EdgesRight
  <1>2. QED BY <1>1, FirstCard DEF Drawn, EdgeOK

\* A graph whose planned edges are all drawn is whole.
LEMMA WholeIsWhole ==
  ASSUME TypeOK, EdgesRight, WholeNow
  PROVE  Graph!Whole
  <1>1. \A p \in Phase : Shown[p] # "none"
    BY FirstCard DEF Shown, WholeNow, Status
  <1>2. ASSUME NEW p \in Phase, NEW q \in Phase PROVE Drawn(p, q) <=> p \in Deps[q]
    BY DrawnIsWanted DEF WholeNow, DrawnInto
  <1>3. Edges = {e \in Phase \X Phase : e[1] \in Deps[e[2]]}
    BY <1>2 DEF Edges
  <1>4. QED BY <1>1, <1>3 DEF Shown, Edges, Graph!Whole, Graph!Wanted

\* A new card is the first of its phase, or changes nothing.
LEMMA AddsMaps ==
  ASSUME TypeOK, EdgesRight, NEW card \in Card, Adds(card)
  PROVE  /\ Edges' = Edges
         /\ \/ Keyed(card.phase) # {} /\ Shown' = Shown
            \/ /\ Keyed(card.phase) = {}
               /\ Shown' = [Shown EXCEPT ![card.phase] = "todo"]
  <1> DEFINE p == card.phase
             n == Len(cards) + 1
  <1>1. /\ Len(cards) \in Nat /\ Len(cards') = n /\ cards'[n] = card /\ p \in Phase
        /\ \A i \in 1..Len(cards) : cards'[i] = cards[i]
        /\ card.status = "todo" /\ card.parents = {}
    BY DEF TypeOK, Adds, Card
  <1>2. /\ Keyed(p)' = Keyed(p) \cup {n}
        /\ \A q \in Phase \ {p} : Keyed(q)' = Keyed(q)
    BY <1>1 DEF Keyed
  <1>3. \A q \in Phase : Keyed(q) # {} => First(q) \in 1..Len(cards) /\ First(q)' = First(q)
    <2>1. ASSUME Keyed(p) # {} PROVE First(p)' = First(p)
      <3>1. First(p) \in Keyed(p) /\ \A k \in Keyed(p) : First(p) <= k /\ k \in 1..Len(cards)
        BY <2>1, FirstIs DEF Keyed
      <3>2. First(p) \in Keyed(p)' /\ \A k \in Keyed(p)' : First(p) <= k /\ k \in Nat
        BY <1>1, <1>2, <3>1
      <3>3. First(p)' \in Keyed(p)' /\ \A k \in Keyed(p)' : First(p)' <= k
        BY <3>2 DEF First
      <3>4. QED BY <3>2, <3>3
    <2>2. ASSUME NEW q \in Phase \ {p} PROVE First(q)' = First(q)
      BY <1>2, <2>2 DEF First
    <2>3. QED BY <2>1, <2>2, FirstCard
  <1>4. ASSUME Keyed(p) = {} PROVE First(p)' = n
    BY <1>2, <1>4 DEF First
  <1> HIDE DEF n
  <1>5. \A q \in Phase : Keyed(q) # {} => StatusOf(q)' = StatusOf(q)
    BY <1>1, <1>2, <1>3 DEF StatusOf
  <1>6. \A q \in Phase \ {p} : Keyed(q) = {} => StatusOf(q)' = StatusOf(q)
    BY <1>2 DEF StatusOf
  <1>7. ASSUME Keyed(p) = {} PROVE StatusOf(p)' = "todo"
    BY <1>1, <1>2, <1>4, <1>7 DEF StatusOf
  <1>8. ASSUME NEW a \in Phase, NEW b \in Phase PROVE Drawn(a, b)' <=> Drawn(a, b)
    <2>1. CASE Keyed(a) # {} /\ Keyed(b) # {}
      BY <1>1, <1>2, <1>3, <2>1 DEF Drawn
    <2>2. CASE Keyed(b) = {}
      <3>1. ~Drawn(a, b)
        BY <2>2 DEF Drawn
      <3>2. b = p => cards'[First(b)'].parents = {}
        BY <1>1, <1>4, <2>2
      <3>3. QED BY <1>2, <2>2, <3>1, <3>2 DEF Drawn
    <2>3. CASE Keyed(a) = {} /\ Keyed(b) # {}
      <3>1. ~Drawn(a, b)
        BY <2>3 DEF Drawn
      <3>2. ASSUME a = p PROVE ~(First(a)' \in cards'[First(b)'].parents)
        <4>1. First(b)' = First(b) /\ First(b) \in 1..Len(cards) /\ First(a)' = n
          BY <1>3, <1>4, <2>3, <3>2
        <4>2. cards'[First(b)'].parents = cards[First(b)].parents
          BY <1>1, <4>1
        <4>3. n \notin 1..Len(cards)
          BY <1>1 DEF n
        <4>4. QED BY <4>1, <4>2, <4>3 DEF EdgesRight, EdgeOK
      <3>3. QED BY <1>2, <2>3, <3>1, <3>2 DEF Drawn
    <2>4. QED BY <2>1, <2>2, <2>3
  <1>9. Edges' = Edges
    BY <1>8 DEF Edges
  <1>10. QED BY <1>1, <1>5, <1>6, <1>7, <1>9 DEF Shown

\* A card that becomes another keeps its key, and so its place.
LEMMA EditsKeep ==
  ASSUME TypeOK, NEW i \in 1..Len(cards), NEW card \in Card, Edits(i, card)
  PROVE  /\ Len(cards') = Len(cards) /\ cards'[i] = card
         /\ \A k \in 1..Len(cards) \ {i} : cards'[k] = cards[k]
         /\ \A k \in 1..Len(cards) : cards'[k].phase = cards[k].phase
         /\ \A p : Keyed(p)' = Keyed(p) /\ First(p)' = First(p)
  <1>1. /\ Len(cards') = Len(cards) /\ cards'[i] = card
        /\ \A k \in 1..Len(cards) \ {i} : cards'[k] = cards[k]
        /\ \A k \in 1..Len(cards) : cards'[k].phase = cards[k].phase
    BY DEF TypeOK, Edits
  <1>2. ASSUME NEW p PROVE Keyed(p)' = Keyed(p)
    BY <1>1 DEF Keyed
  <1>3. ASSUME NEW p PROVE First(p)' = First(p)
    BY <1>2 DEF First
  <1>4. QED BY <1>1, <1>2, <1>3

\* A change of a first card is one of its phase; of another, of nothing.
LEMMA EditsMaps ==
  ASSUME TypeOK, EdgesRight, NEW i \in 1..Len(cards), NEW card \in Card, Edits(i, card)
  PROVE  LET p == cards[i].phase IN
         /\ p \in Phase
         /\ Shown' = IF i = First(p) THEN [Shown EXCEPT ![p] = card.status] ELSE Shown
         /\ i = First(p) => Keyed(p) # {} /\ Shown[p] = cards[i].status
         /\ \/ card.parents = cards[i].parents /\ Edges' = Edges
            \/ /\ card.status = cards[i].status
               /\ \/ Edges' = Edges
                  \/ \E q \in Deps[p] :
                       /\ Keyed(p) # {} /\ Keyed(q) # {}
                       /\ Edges' = Edges \cup {<<q, p>>}
  <1> DEFINE p == cards[i].phase
  <1>1. p \in Phase /\ i \in Keyed(p) /\ Keyed(p)' = Keyed(p)
    BY EditsKeep, CardsKey
  <1>2. ASSUME NEW q \in Phase
        PROVE  StatusOf(q)' = IF q = p /\ i = First(p) THEN card.status ELSE StatusOf(q)
    <2>1. CASE Keyed(q) = {}
      BY <1>1, <2>1, EditsKeep DEF StatusOf
    <2>2. CASE Keyed(q) # {}
      <3>1. First(q) \in 1..Len(cards) /\ cards[First(q)].phase = q
        BY <2>2, FirstCard
      <3>2. StatusOf(q)' = cards'[First(q)].status
        BY <2>2, EditsKeep DEF StatusOf
      <3>3. StatusOf(q) = cards[First(q)].status
        BY <2>2, FirstCard
      <3>4. First(q) = i => q = p
        BY <3>1
      <3>5. QED BY <3>1, <3>2, <3>3, <3>4, EditsKeep
    <2>3. QED BY <2>1, <2>2
  <1>3. Shown' = IF i = First(p) THEN [Shown EXCEPT ![p] = card.status] ELSE Shown
    BY <1>1, <1>2 DEF Shown
  <1>4. i = First(p) => Keyed(p) # {} /\ Shown[p] = cards[i].status
    BY <1>1 DEF Shown, StatusOf
  <1>5. ASSUME NEW a \in Phase, NEW b \in Phase
        PROVE  Drawn(a, b)' <=> \/ Drawn(a, b)
                                \/ /\ Keyed(a) # {} /\ b = p /\ i = First(p)
                                   /\ First(a) \in card.parents
    <2>1. CASE Keyed(b) = {}
      BY <1>1, <2>1, EditsKeep DEF Drawn
    <2>2. CASE Keyed(b) # {}
      <3>1. First(b) \in 1..Len(cards) /\ cards[First(b)].phase = b
        BY <2>2, FirstCard
      <3>2. Drawn(a, b)' <=> Keyed(a) # {} /\ First(a) \in cards'[First(b)].parents
        BY <2>2, EditsKeep DEF Drawn
      <3>3. Drawn(a, b) <=> Keyed(a) # {} /\ First(a) \in cards[First(b)].parents
        BY <2>2 DEF Drawn
      <3>4. cards[i].parents \subseteq card.parents
        BY DEF Edits
      <3>5. First(b) = i => b = p
        BY <3>1
      <3>6. QED BY <3>1, <3>2, <3>3, <3>4, <3>5, EditsKeep
    <2>3. QED BY <2>1, <2>2
  <1>6. ASSUME card.parents = cards[i].parents PROVE Edges' = Edges
    <2>1. ASSUME NEW a \in Phase, NEW b \in Phase PROVE Drawn(a, b)' <=> Drawn(a, b)
      BY <1>1, <1>5, <1>6 DEF Drawn
    <2>2. QED BY <2>1 DEF Edges
  <1>7. ASSUME NEW k \in Id, EdgeOK(k, i), card.parents = cards[i].parents \cup {k}
        PROVE  \/ Edges' = Edges
               \/ \E q \in Deps[p] :
                    /\ Keyed(p) # {} /\ Keyed(q) # {}
                    /\ Edges' = Edges \cup {<<q, p>>}
    <2> DEFINE q == cards[k].phase
    <2>1. q \in Deps[p] /\ q \in Phase /\ k \in Keyed(q) /\ k = First(q)
      BY <1>7, CardsKey DEF EdgeOK
    <2>2. ASSUME NEW a \in Phase, Keyed(a) # {}, First(a) = k PROVE a = q
      BY <2>2, FirstCard
    <2> HIDE DEF q
    <2>3. CASE i # First(p)
      <3>1. ASSUME NEW a \in Phase, NEW b \in Phase PROVE Drawn(a, b)' <=> Drawn(a, b)
        BY <1>5, <2>3
      <3>2. QED BY <3>1 DEF Edges
    <2>4. CASE i = First(p)
      <3>1. ASSUME NEW a \in Phase, NEW b \in Phase
            PROVE  Drawn(a, b)' <=> Drawn(a, b) \/ (a = q /\ b = p)
        BY <1>1, <1>5, <1>7, <2>1, <2>2, <2>4 DEF Drawn
      <3>2. Edges' = Edges \cup {<<q, p>>}
        BY <1>1, <2>1, <3>1 DEF Edges
      <3>3. QED BY <1>1, <2>1, <3>2
    <2>5. QED BY <2>3, <2>4
  <1>8. QED BY <1>1, <1>3, <1>4, <1>6, <1>7 DEF Edits

\* An edge is into a first card, or from none that shows: so what waits for its
\* parents waits for all phases that its own depends on.
LEMMA ReleaseIsPlanned ==
  ASSUME TypeOK, EdgesRight, ExposedWhole, NEW i \in 1..Len(cards),
         i = First(cards[i].phase), cards[i].parents # {},
         \A k \in cards[i].parents : cards[k].status = "done"
  PROVE  /\ WholeNow /\ cards[i].phase \notin Roots
         /\ \A q \in Deps[cards[i].phase] : Shown[q] = "done"
  <1> DEFINE p == cards[i].phase
  <1>1. PICK k \in cards[i].parents : EdgeOK(k, i) /\ cards[k].status = "done"
    BY DEF EdgesRight
  <1>2. /\ k = First(cards[k].phase) /\ cards[k].phase \in Deps[p]
        /\ cards[k].phase \in Phase /\ Keyed(cards[k].phase) # {}
    BY <1>1, CardsKey DEF EdgeOK
  <1>3. WholeNow
    BY <1>1, <1>2 DEF ExposedWhole
  <1>4. p \in Phase /\ p \notin Roots
    BY <1>2, CardsKey DEF Roots
  <1>5. ASSUME NEW q \in Deps[p] PROVE Shown[q] = "done"
    <2>1. q \in Phase /\ Drawn(q, p)
      BY <1>3, <1>4, <1>5, BootstrapAssumption DEF WholeNow, DrawnInto
    <2>2. Keyed(q) # {} /\ First(q) \in cards[i].parents
      BY <2>1 DEF Drawn
    <2>3. QED BY <2>1, <2>2 DEF Shown, StatusOf
  <1>6. QED BY <1>3, <1>4, <1>5

\* A step of the board is one of the graph, or does not show.
LEMMA BoardMaps ==
  ASSUME TypeOK, EdgesRight, ExposedWhole, BoardStep
  PROVE  [Graph!Next]_(Graph!vars)
  <1>1. Shown' = Shown /\ Edges' = Edges => UNCHANGED Graph!vars
    BY DEF Shown, Edges, Graph!vars
  <1>2. CASE UNCHANGED cards
    <2>1. \A p : Keyed(p)' = Keyed(p)
      BY <1>2 DEF Keyed
    <2>2. \A p : First(p)' = First(p)
      BY <2>1 DEF First
    <2>3. Shown' = Shown /\ Edges' = Edges
      BY <1>2, <2>1, <2>2 DEF Shown, Edges, StatusOf, Drawn
    <2>4. QED BY <1>1, <2>3
  <1>3. ASSUME NEW card \in Card, Adds(card) PROVE [Graph!Next]_(Graph!vars)
    <2>1. CASE Keyed(card.phase) # {}
      BY <1>1, <1>3, <2>1, AddsMaps
    <2>2. CASE Keyed(card.phase) = {}
      <3>1. card.phase \in Phase /\ Shown[card.phase] = "none"
        BY <2>2 DEF Card, Shown, StatusOf
      <3>2. Shown' = [Shown EXCEPT ![card.phase] = "todo"] /\ Edges' = Edges
        BY <1>3, <2>2, AddsMaps
      <3>3. Graph!AddCard(card.phase)
        BY <3>1, <3>2 DEF Shown, Edges, Graph!AddCard
      <3>4. QED BY <3>1, <3>3 DEF Graph!Next
    <2>3. QED BY <2>1, <2>2
  <1>4. ASSUME NEW i \in 1..Len(cards), NEW card \in Card, Edits(i, card)
        PROVE  [Graph!Next]_(Graph!vars)
    <2> DEFINE p == cards[i].phase
    <2>1. p \in Phase
      BY CardsKey
    <2>2. /\ Shown' = IF i = First(p) THEN [Shown EXCEPT ![p] = card.status] ELSE Shown
          /\ i = First(p) => Keyed(p) # {} /\ Shown[p] = cards[i].status
      BY <1>4, EditsMaps
    <2>3. card.status = cards[i].status => Shown' = Shown
      BY <2>1, <2>2 DEF Shown
    <2>4. CASE Edges' = Edges /\ card.status = cards[i].status
      BY <1>1, <2>3, <2>4
    <2>5. ASSUME NEW q \in Deps[p], Keyed(p) # {}, Keyed(q) # {},
                 Edges' = Edges \cup {<<q, p>>}, card.status = cards[i].status
          PROVE  Graph!Next
      <3> DEFINE e == <<q, p>>
      <3>1. q \in Phase /\ e \in Graph!Wanted
        BY <2>1, <2>5, BootstrapAssumption DEF Graph!Wanted
      <3>2. Shown[e[1]] # "none" /\ Shown[e[2]] # "none"
        BY <2>1, <2>5, <3>1, FirstCard DEF Shown, Status
      <3>3. Graph!AddEdge(e)
        BY <2>3, <2>5, <3>2 DEF Shown, Edges, Graph!AddEdge
      <3>4. QED BY <3>1, <3>3 DEF Graph!Next
    <2>6. CASE Edges' = Edges /\ Allowed(i, card.status) /\ i = First(p)
      <3>1. Shown[p] = cards[i].status /\ Shown' = [Shown EXCEPT ![p] = card.status]
        BY <2>2, <2>6
      <3>2. CASE <<cards[i].status, card.status>> \in
                   {<<"ready", "running">>, <<"running", "done">>,
                    <<"running", "blocked">>, <<"blocked", "ready">>}
        <4>1. card.status \in {"running", "blocked", "done", "ready"}
          BY <3>2
        <4>2. Graph!Work(p)
          BY <2>6, <3>1, <3>2, <4>1 DEF Shown, Edges, Graph!Work
        <4>3. QED BY <2>1, <4>2 DEF Graph!Next
      <3>3. CASE /\ cards[i].status = "todo" /\ card.status = "ready"
                 /\ p \in Roots /\ WholeNow
        <4>1. Graph!Whole /\ p \in Graph!Roots
          BY <3>3, WholeIsWhole DEF Roots, Graph!Roots
        <4>2. Graph!Expose(p)
          BY <2>6, <3>1, <3>3, <4>1 DEF Shown, Edges, Graph!Expose
        <4>3. QED BY <2>1, <4>2 DEF Graph!Next
      <3>4. CASE /\ cards[i].status = "todo" /\ card.status = "ready"
                 /\ cards[i].parents # {}
                 /\ \A k \in cards[i].parents : cards[k].status = "done"
        <4>1. Graph!Whole /\ p \notin Graph!Roots /\ \A q \in Deps[p] : Shown[q] = "done"
          BY <2>6, <3>4, ReleaseIsPlanned, WholeIsWhole DEF Roots, Graph!Roots
        <4>2. Graph!Release(p)
          BY <2>6, <3>1, <3>4, <4>1 DEF Shown, Edges, Graph!Release
        <4>3. QED BY <2>1, <4>2 DEF Graph!Next
      <3>5. QED BY <2>6, <3>2, <3>3, <3>4 DEF Allowed
    <2>7. CASE Edges' = Edges /\ i # First(p)
      BY <1>1, <2>2, <2>7
    <2>8. QED BY <1>4, <2>4, <2>5, <2>6, <2>7, EditsMaps DEF Edits
  <1>5. QED BY <1>2, <1>3, <1>4 DEF BoardStep

\* The board keeps what the graph's readers rely on.
LEMMA BoardKeeps ==
  ASSUME TypeOK, TypeOK', EdgesRight, ExposedWhole, BoardStep
  PROVE  Growing /\ EdgesRight' /\ ExposedWhole'
  <1>1. Growing
    <2>0. cards \in Seq(Card) /\ Len(cards) \in Nat
      BY DEF TypeOK
    <2>1. ASSUME NEW card \in Card, Adds(card) PROVE Growing
      <3>1. Len(cards') = Len(cards) + 1 /\ \A i \in 1..Len(cards) : cards'[i] = cards[i]
        BY <2>0, <2>1 DEF Adds
      <3>2. QED BY <2>0, <3>1 DEF Growing
    <2>2. ASSUME NEW i \in 1..Len(cards), NEW card \in Card, Edits(i, card) PROVE Growing
      <3>1. cards[i].parents \subseteq card.parents
        BY <2>2 DEF Edits
      <3>2. /\ Len(cards') = Len(cards) /\ cards'[i] = card
            /\ \A k \in 1..Len(cards) \ {i} : cards'[k] = cards[k]
            /\ \A k \in 1..Len(cards) : cards'[k].phase = cards[k].phase
        BY <2>2, EditsKeep
      <3>3. QED BY <2>0, <3>1, <3>2 DEF Growing
    <2>3. QED BY <2>0, <2>1, <2>2 DEF BoardStep, Growing
  <1>2. EdgesRight'
    <2>1. SUFFICES ASSUME NEW i \in 1..Len(cards'), NEW k \in cards'[i].parents
                   PROVE  EdgeOK(k, i)'
      BY DEF EdgesRight
    <2>2. ASSUME i \in 1..Len(cards), k \in cards[i].parents PROVE EdgeOK(k, i)'
      BY <1>1, <2>2, PlannedStays DEF EdgesRight
    <2>3. ASSUME NEW card \in Card, Adds(card) PROVE EdgeOK(k, i)'
      <3>1. i \in 1..Len(cards) /\ cards'[i] = cards[i]
        BY <2>3 DEF Adds, TypeOK
      <3>2. QED BY <2>2, <3>1
    <2>4. ASSUME NEW j \in 1..Len(cards), NEW card \in Card, Edits(j, card)
          PROVE  EdgeOK(k, i)'
      <3>1. i \in 1..Len(cards) /\ (i # j => cards'[i] = cards[i]) /\ cards'[j] = card
        BY <2>4, EditsKeep
      <3>2. i = j /\ k \notin cards[i].parents => EdgeOK(k, i)
        BY <2>4, <3>1 DEF Edits
      <3>3. QED BY <1>1, <2>2, <3>1, <3>2, PlannedStays
    <2>5. QED BY <2>2, <2>3, <2>4 DEF BoardStep
  <1>3. ASSUME \A p \in Phase : Shown'[p] \in {Shown[p], "todo"} \/ WholeNow PROVE ExposedWhole'
    <2>1. SUFFICES ASSUME NEW p \in Phase, Keyed(p)' # {}, cards'[First(p)'].status # "todo"
                   PROVE  WholeNow'
      BY DEF ExposedWhole
    <2>2. Shown'[p] = cards'[First(p)'].status
      BY <2>1 DEF Shown, StatusOf
    <2>3. Shown'[p] # "none"
      <3>1. Keyed(p)' \subseteq Nat /\ First(p)' \in Keyed(p)'
        <4>1. Len(cards') \in Nat
          BY DEF TypeOK
        <4>2. Keyed(p)' \in SUBSET Nat
          BY <4>1 DEF Keyed
        <4>3. QED BY <2>1, <4>2, LeastExists DEF First
      <3>2. First(p)' \in 1..Len(cards')
        BY <3>1 DEF Keyed
      <3>3. cards'[First(p)'] \in Card
        BY <3>2 DEF TypeOK
      <3>4. QED BY <2>2, <3>3 DEF Card, Status
    <2>4. Shown[p] \notin {"none", "todo"} => WholeNow
      BY DEF ExposedWhole, Shown, StatusOf
    <2>5. QED BY <1>1, <1>3, <2>1, <2>2, <2>3, <2>4, PlannedStays
  <1>4. \A p \in Phase : Shown'[p] \in {Shown[p], "todo"} \/ WholeNow
    <2>1. CASE UNCHANGED cards
      BY <2>1 DEF Shown, StatusOf, Keyed, First
    <2>2. ASSUME NEW card \in Card, Adds(card)
          PROVE  \A p \in Phase : Shown'[p] \in {Shown[p], "todo"}
      BY <2>2, AddsMaps DEF Shown
    <2>3. ASSUME NEW i \in 1..Len(cards), NEW card \in Card, Edits(i, card),
                 NEW p \in Phase
          PROVE  Shown'[p] \in {Shown[p], "todo"} \/ WholeNow
      <3> DEFINE q == cards[i].phase
      <3>1. /\ Shown' = IF i = First(q) THEN [Shown EXCEPT ![q] = card.status] ELSE Shown
            /\ i = First(q) => Keyed(q) # {} /\ Shown[q] = cards[i].status
        BY <2>3, EditsMaps
      <3>2. q \in Phase
        BY CardsKey
      <3>3. CASE i # First(q) \/ p # q \/ card.status = cards[i].status
        BY <3>1, <3>2, <3>3 DEF Shown
      <3>4. CASE i = First(q) /\ cards[i].status # "todo"
        BY <3>1, <3>2, <3>4 DEF ExposedWhole
      <3>5. CASE i = First(q) /\ cards[i].status = "todo" /\ Allowed(i, card.status)
        BY <3>5, ReleaseIsPlanned DEF Allowed
      <3>6. QED BY <2>3, <3>3, <3>4, <3>5 DEF Edits
    <2>4. QED BY <2>1, <2>2, <2>3 DEF BoardStep
  <1>5. QED BY <1>1, <1>2, <1>3, <1>4

-----------------------------------------------------------------------------
(* What a run knows *)

\* A call that is right stays right.
LEMMA CallStays ==
  ASSUME Growing, NEW call, GoodCall(call)
  PROVE  GoodCall(call)'
  <1>1. call.kind = "link" => EdgeOK(call.parent, call.child)'
    BY PlannedStays DEF GoodCall
  <1>2. ASSUME call.kind = "promote"
        PROVE  /\ WholeNow' /\ call.card \in 1..Len(cards')
               /\ cards'[call.card].phase \in Roots
    <2>1. Len(cards) \in Nat /\ Len(cards') \in Nat
      BY DEF Growing, TypeOK
    <2>2. QED BY <1>2, <2>1, PlannedStays DEF GoodCall, Growing
  <1>3. QED BY <1>1, <1>2 DEF GoodCall, EdgeOK

\* What a run knows stays right while the board grows; and so do the parents
\* that it is to link while nothing is bound.
LEMMA RunStays ==
  ASSUME Growing, NEW x \in Process, NEW me, process'[x] = me, GoodRun(me),
         UNCHANGED bindings \/ ~Links(me)
  PROVE  GoodRun(process[x])'
  <1>1. ASSUME NEW p, NEW i, i \in Keyed(p), i = First(p)
        PROVE  i \in Keyed(p)' /\ i = First(p)'
    BY <1>1, FirstStays
  <1>2. GoodView(process[x])'
    BY <1>1 DEF GoodRun, GoodView
  <1>3. GoodMissing(process[x])'
    BY DEF GoodRun, GoodMissing, Links, Bound, Expected, Item
  <1>4. GoodCall(process[x].call)'
    <2>1. GoodCall(me.call)'
      BY CallStays DEF GoodRun
    <2>2. QED BY <2>1 DEF GoodCall, EdgeOK
  <1>5. me.pc = "verify" => \A m \in 1..me.n - 1 : DrawnInto(Plan[m])'
    BY PlannedStays DEF GoodRun, DrawnInto
  <1>6. me.pc \in {"root", "promoted"} => WholeNow'
    BY PlannedStays DEF GoodRun
  <1>7. me.pc = "root" => Item(me) \in Roots
    BY DEF GoodRun
  <1>8. QED BY <1>2, <1>3, <1>4, <1>5, <1>6, <1>7 DEF GoodRun, Item

\* The blank run knows nothing.
LEMMA IdleGood == GoodRun(RunIdle)
  BY DEF GoodRun, GoodView, GoodMissing, GoodCall, Links, RunIdle, NoCall

\* A listing selects the first card of a phase.
LEMMA SelectsFirst ==
  ASSUME TypeOK, NEW p \in Phase, NEW require_todo, Select(p, require_todo) > 0
  PROVE  Select(p, require_todo) \in Keyed(p) /\ Select(p, require_todo) = First(p)
  <1>1. Select(p, require_todo) \in Keyed(p) /\ Keyed(p) # {}
    BY SelectTyped
  <1>2. Cardinality(Keyed(p)) = 1
    BY <1>1, KeyedTyped DEF Select
  <1>3. PICK i : Keyed(p) = {i}
    BY <1>2, KeyedTyped, FS_Singleton
  <1>4. QED BY <1>1, <1>3, FirstIs

\* The first card of a phase is bound.
Binds(p) == bindings' = [bindings EXCEPT ![p] = First(p)] /\ Keyed(p) # {}

\* A run goes where what it knows is right, and binds first cards.
GoesWell(x) ==
  \E me : /\ Goes(x, me) /\ GoodRun(me)
          /\ \/ UNCHANGED bindings
             \/ ~Links(me) /\ \E p \in Phase : Binds(p)

\* In the first stage nothing is linked.
LEMMA NotLinking ==
  ASSUME NEW me, NEW to, GoodRun(me), ~Links(me),
         to.view = me.view, to.missing = me.missing, to.call = me.call,
         to.pc \in {"list", "card", "reconcile", "complete", "parents", "readback"}
  PROVE  GoodRun(to) /\ ~Links(to)
  BY DEF GoodRun, GoodView, GoodMissing, Links

\* The start of a run.
LEMMA StartGood == ASSUME Sound, GraphInv, NEW x \in Process, Start(x) PROVE GoesWell(x)
  <1> DEFINE me == [RunIdle EXCEPT !.pc = "list", !.known = Bound = Phase, !.flawed = Flawed]
  <1>1. /\ me.pc = "list" /\ me.view = RunIdle.view /\ me.missing = RunIdle.missing
        /\ me.call = RunIdle.call /\ ~Links(RunIdle)
    BY DEF RunIdle, Links
  <1>2. Goes(x, me) /\ UNCHANGED bindings
    BY DEF Start
  <1> HIDE DEF me
  <1>3. GoodRun(me)
    BY <1>1, IdleGood, NotLinking
  <1>4. QED BY <1>2, <1>3 DEF GoesWell

\* The listing of the board.
LEMMA ListGood == ASSUME Sound, GraphInv, NEW x \in Process, ListExisting(x) PROVE GoesWell(x)
  <1> DEFINE old == process[x]
             me == [old EXCEPT !.view = [p \in Phase |-> Select(p, TRUE)]]
             to == Following(me, 1, Phase \ Bound, "card", "parents")
  <1>1. /\ TypeOK /\ old \in Run /\ old.pc = "list" /\ ~Links(old) /\ GoodRun(old)
    BY Here DEF ListExisting, Links, GraphInv
  <1>2. /\ me \in Run /\ me.view = [p \in Phase |-> Select(p, TRUE)]
        /\ me.pc = old.pc /\ me.missing = old.missing /\ me.call = old.call
    BY <1>1, SelectTyped DEF Run
  <1>3. Goes(x, to) /\ UNCHANGED bindings
    BY DEF ListExisting
  <1> HIDE DEF me
  <1>4. GoodView(me)
    BY <1>1, <1>2, SelectsFirst DEF GoodView
  <1>5. GoodRun(me) /\ ~Links(me)
    BY <1>1, <1>2, <1>4 DEF GoodRun, GoodMissing, Links
  <1>6. PassesTo(me, 1, Phase \ Bound, "card", "parents", to)
    BY <1>2, FollowingTyped DEF Pc
  <1> HIDE DEF to
  <1>7. GoodRun(to)
    BY <1>5, <1>6, NotLinking DEF PassesTo
  <1>8. QED BY <1>3, <1>7 DEF GoesWell

\* The choice of a card, or of a new one.
LEMMA ChooseGood == ASSUME Sound, GraphInv, NEW x \in Process, Choose(x) PROVE GoesWell(x)
  <1> DEFINE me == process[x]
             p == Item(me)
  <1>1. /\ TypeOK /\ me \in Run /\ me.pc = "card" /\ ~Links(me) /\ GoodRun(me) /\ p \in Phase
    BY Here, RunFields DEF Choose, Links, GraphInv
  <1>2. CASE me.view[p] > 0
    <2> DEFINE to == [me EXCEPT !.pc = "complete"]
    <2>1. /\ to.pc = "complete" /\ to.view = me.view /\ to.missing = me.missing
          /\ to.call = me.call
      BY <1>1 DEF Run
    <2>2. Goes(x, to) /\ bindings' = [bindings EXCEPT ![p] = me.view[p]]
      BY <1>2 DEF Choose
    <2> HIDE DEF to
    <2>3. Binds(p)
      BY <1>1, <1>2, <2>2 DEF GoodRun, GoodView, Binds
    <2>4. QED BY <1>1, <2>1, <2>2, <2>3, NotLinking DEF GoesWell
  <1>3. CASE me.view[p] = -1
    BY <1>3, IdleGood DEF Choose, Ends, GoesWell
  <1>4. CASE me.view[p] = 0
    <2> DEFINE to == [me EXCEPT !.pc = "call", !.call = [kind |-> "create", phase |-> p]]
    <2>1. /\ to.pc = "call" /\ to.view = me.view /\ to.missing = me.missing
          /\ to.call.kind = "create"
      BY <1>1 DEF Run
    <2>2. Goes(x, to) /\ UNCHANGED bindings
      BY <1>4 DEF Choose
    <2> HIDE DEF to
    <2>3. GoodRun(to)
      BY <1>1, <2>1 DEF GoodRun, GoodView, GoodMissing, GoodCall, Links
    <2>4. QED BY <2>2, <2>3 DEF GoesWell
  <1>5. QED BY <1>2, <1>3, <1>4 DEF Choose

\* The look for a new card.
LEMMA ReconcileGood == ASSUME Sound, GraphInv, NEW x \in Process, Reconcile(x) PROVE GoesWell(x)
  <1> DEFINE me == process[x]
             p == Item(me)
             i == Select(p, TRUE)
             to == [me EXCEPT !.pc = "complete", !.answer = 0]
  <1>1. /\ TypeOK /\ me \in Run /\ me.pc = "reconcile" /\ ~Links(me) /\ GoodRun(me)
        /\ p \in Phase
    BY Here, RunFields DEF Reconcile, Links, GraphInv
  <1>2. CASE i > 0 /\ me.answer \in {0, i}
    <2>1. /\ to.pc = "complete" /\ to.view = me.view /\ to.missing = me.missing
          /\ to.call = me.call
      BY <1>1 DEF Run
    <2>2. Goes(x, to) /\ bindings' = [bindings EXCEPT ![p] = i]
      BY <1>2 DEF Reconcile
    <2> HIDE DEF to
    <2>3. Binds(p)
      BY <1>1, <1>2, <2>2, SelectsFirst DEF Binds
    <2>4. QED BY <1>1, <2>1, <2>2, <2>3, NotLinking DEF GoesWell
  <1>3. CASE ~(i > 0 /\ me.answer \in {0, i})
    BY <1>3, IdleGood DEF Reconcile, Ends, GoesWell
  <1>4. QED BY <1>2, <1>3

\* The completion of an intent.
LEMMA CompleteGood == ASSUME Sound, GraphInv, NEW x \in Process, Complete(x) PROVE GoesWell(x)
  <1> DEFINE me == process[x]
             to == Following(me, me.n + 1, Phase \ Bound, "card", "parents")
  <1>1. /\ me \in Run /\ me.pc = "complete" /\ ~Links(me) /\ GoodRun(me)
        /\ me.n + 1 \in Nat \ {0}
    BY Here, RunFields DEF Complete, Links, GraphInv
  <1>2. Goes(x, to) /\ UNCHANGED bindings
    BY DEF Complete, After
  <1>3. PassesTo(me, me.n + 1, Phase \ Bound, "card", "parents", to)
    BY <1>1, FollowingTyped DEF Pc
  <1> HIDE DEF to
  <1>4. GoodRun(to)
    BY <1>1, <1>3, NotLinking DEF PassesTo
  <1>5. QED BY <1>2, <1>4 DEF GoesWell

\* On to the next edge, which is one of the item's, or behind it.
LEMMA NextLinkGood ==
  ASSUME NEW me \in Run, Bound = Phase, me.missing \subseteq Expected(Item(me)),
         GoodView(me), GoodCall(me.call)
  PROVE  GoodRun(NextLink(me))
  <1>1. me.n + 1 \in Nat \ {0}
    BY RunFields
  <1>2. CASE me.missing # {}
    <2> DEFINE to == [me EXCEPT !.pc = "link"]
    <2>1. /\ to.pc = "link" /\ to.view = me.view /\ to.call = me.call
          /\ to.missing = me.missing /\ Item(to) = Item(me)
      BY DEF Run, Item
    <2>2. NextLink(me) = to
      BY <1>2 DEF NextLink
    <2> HIDE DEF to
    <2>3. QED BY <2>1, <2>2 DEF GoodRun, GoodView, GoodMissing, Links
  <1>3. CASE me.missing = {}
    <2> DEFINE to == Following(me, me.n + 1, Phase, "parents", "readback")
    <2>1. PassesTo(me, me.n + 1, Phase, "parents", "readback", to)
      BY <1>1, FollowingTyped DEF Pc
    <2>2. NextLink(me) = to
      BY <1>3 DEF NextLink, After
    <2> HIDE DEF to
    <2>3. QED BY <1>3, <2>1, <2>2 DEF PassesTo, GoodRun, GoodView, GoodMissing, Links
  <1>4. QED BY <1>2, <1>3

\* On to the next root of a whole graph, or to the end.
LEMMA NextRootGood ==
  ASSUME NEW me \in Run, WholeNow, me.missing = {}, GoodView(me), GoodCall(me.call),
         NEW first \in Nat \ {0}
  PROVE  GoodRun(Following(me, first, Roots, "root", "idle"))
  <1> DEFINE to == Following(me, first, Roots, "root", "idle")
  <1>1. PassesTo(me, first, Roots, "root", "idle", to)
    BY FollowingTyped DEF Pc
  <1> HIDE DEF to
  <1>2. GoodRun(to)
    BY <1>1 DEF PassesTo, GoodRun, GoodView, GoodMissing, Links
  <1>3. QED BY <1>2 DEF to

\* What stage 2 reads in the bindings.
LEMMA BoundCards ==
  ASSUME Sound, GraphInv, Bound = Phase, NEW p \in Phase
  PROVE  /\ Keyed(p) # {} /\ bindings[p] = First(p) /\ bindings[p] \in 1..Len(cards)
         /\ cards[bindings[p]].phase = p
         /\ \A k \in Expected(p) : EdgeOK(k, bindings[p])
  <1>1. \A q \in Phase :
          /\ Keyed(q) # {} /\ bindings[q] = First(q) /\ bindings[q] \in 1..Len(cards)
          /\ cards[bindings[q]].phase = q
    BY DEF GraphInv, BoundFirst, Keyed
  <1>2. Deps[p] \subseteq Phase
    BY BootstrapAssumption
  <1>3. QED BY <1>1, <1>2 DEF Expected, EdgeOK

\* The reading of a card's parents.
LEMMA ReadParentsGood ==
  ASSUME Sound, GraphInv, NEW x \in Process, ReadParents(x)
  PROVE  GoesWell(x)
  <1> DEFINE old == process[x]
             missing == Expected(Item(old)) \ cards[bindings[Item(old)]].parents
             me == [old EXCEPT !.missing = missing]
  <1>1. /\ TypeOK /\ old \in Run /\ old.pc = "parents" /\ Bound = Phase
        /\ Item(old) \in Phase /\ GoodRun(old)
    BY Here, RunFields DEF ReadParents, StageOK, Linking, GraphInv
  <1>2. CASE cards[bindings[Item(old)]].parents \subseteq Expected(Item(old))
    <2>1. missing \subseteq Id
      <3>1. Len(cards) <= MaxCards /\ Len(cards) \in Nat /\ MaxCards \in Nat
        BY <1>1, PhasesFinite, BootstrapAssumption DEF TypeOK, MaxCards
      <3>2. QED BY <1>1, <3>1, BoundCards DEF EdgeOK, Id
    <2>2. Goes(x, NextLink(me)) /\ UNCHANGED bindings
      BY <1>2 DEF ReadParents
    <2>3. missing \subseteq Expected(Item(old))
      OBVIOUS
    <2> HIDE DEF missing
    <2>4. /\ me \in Run /\ me.view = old.view /\ me.call = old.call /\ me.missing = missing
          /\ Item(me) = Item(old)
      BY <1>1, <2>1 DEF Run, Item
    <2> HIDE DEF me
    <2>5. GoodRun(NextLink(me))
      BY <1>1, <2>3, <2>4, NextLinkGood DEF GoodRun, GoodView
    <2>6. QED BY <2>2, <2>5 DEF GoesWell
  <1>3. CASE ~(cards[bindings[Item(old)]].parents \subseteq Expected(Item(old)))
    BY <1>3, IdleGood DEF ReadParents, Ends, GoesWell
  <1>4. QED BY <1>2, <1>3

\* The call for the next edge.
LEMMA LinkGood == ASSUME Sound, GraphInv, NEW x \in Process, Link(x) PROVE GoesWell(x)
  <1> DEFINE me == process[x]
             parent == CHOOSE i \in me.missing : \A k \in me.missing : i <= k
             call == [kind |-> "link", parent |-> parent, child |-> bindings[Item(me)]]
             to == [me EXCEPT !.pc = "call", !.missing = @ \ {parent}, !.call = call]
  <1>1. /\ TypeOK /\ me \in Run /\ me.pc = "link" /\ Bound = Phase
        /\ me.missing # {} /\ Item(me) \in Phase /\ me.missing \in SUBSET Id
        /\ GoodRun(me) /\ me.missing \subseteq Expected(Item(me))
    BY Here, RunFields DEF Link, StageOK, Linking, GraphInv, GoodRun, GoodMissing, Links
  <1>2. Id \subseteq Nat
    BY DEF Id
  <1>3. parent \in me.missing
    BY <1>1, <1>2, LeastExists
  <1>4. Goes(x, to) /\ UNCHANGED bindings
    BY DEF Link
  <1> HIDE DEF parent
  <1>5. EdgeOK(parent, bindings[Item(me)])
    BY <1>1, <1>3, BoundCards
  <1>6. /\ to.pc = "call" /\ to.view = me.view /\ to.missing \subseteq me.missing
        /\ to.call.kind = "link" /\ to.call.parent = parent
        /\ to.call.child = bindings[Item(me)] /\ Item(to) = Item(me)
    BY <1>1 DEF Run, Item
  <1> HIDE DEF to
  <1>7. GoodCall(to.call)
    BY <1>5, <1>6 DEF GoodCall
  <1>8. GoodRun(to)
    BY <1>1, <1>6, <1>7 DEF GoodRun, GoodView, GoodMissing, Links
  <1>9. QED BY <1>4, <1>8 DEF GoesWell

\* A run without its call.
LEMMA ForgettingGood ==
  ASSUME NEW me \in Run, GoodRun(me)
  PROVE  LET new == [me EXCEPT !.call = NoCall]
         IN  /\ new \in Run /\ new.view = me.view /\ new.missing = me.missing
             /\ new.n = me.n /\ Item(new) = Item(me)
             /\ GoodView(new) /\ GoodCall(new.call)
  <1> DEFINE new == [me EXCEPT !.call = NoCall]
  <1>1. /\ new \in Run /\ new.view = me.view /\ new.missing = me.missing /\ new.n = me.n
        /\ new.call = NoCall
    BY DEF Run
  <1> HIDE DEF new
  <1>2. GoodView(new) /\ GoodCall(new.call) /\ Item(new) = Item(me)
    BY <1>1 DEF GoodRun, GoodView, GoodCall, NoCall, Item
  <1>3. QED BY <1>1, <1>2 DEF new

\* The second reading of the parents.
LEMMA ReadLinkedGood == ASSUME Sound, GraphInv, NEW x \in Process, ReadLinked(x) PROVE GoesWell(x)
  <1> DEFINE old == process[x]
             me == [old EXCEPT !.call = NoCall]
  <1>1. /\ old \in Run /\ old.pc = "linked" /\ GoodRun(old)
        /\ Bound = Phase /\ old.missing \subseteq Expected(Item(old))
    BY Here DEF ReadLinked, GraphInv, GoodRun, GoodMissing, Links
  <1>2. /\ Goes(x, NextLink(me)) \/ Goes(x, RunIdle)
        /\ UNCHANGED bindings
    BY DEF ReadLinked, Ends
  <1>3. /\ me \in Run /\ me.missing = old.missing /\ Item(me) = Item(old)
        /\ GoodView(me) /\ GoodCall(me.call)
    BY <1>1, ForgettingGood
  <1> HIDE DEF me
  <1>4. GoodRun(NextLink(me))
    BY <1>1, <1>3, NextLinkGood
  <1>5. QED BY <1>2, <1>4, IdleGood DEF GoesWell

\* The read-back of the cards.
LEMMA ReadbackGood == ASSUME Sound, GraphInv, NEW x \in Process, Readback(x) PROVE GoesWell(x)
  <1> DEFINE me == process[x]
             to == [me EXCEPT !.pc = "verify", !.n = 1]
  <1>1. /\ me \in Run /\ me.pc = "readback" /\ ~Links(me) /\ GoodRun(me)
    BY Here DEF Readback, Links, GraphInv
  <1>2. /\ Goes(x, to) \/ Goes(x, RunIdle)
        /\ UNCHANGED bindings
    BY DEF Readback, Ends
  <1>3. /\ to.pc = "verify" /\ to.n = 1 /\ to.view = me.view /\ to.missing = me.missing
        /\ to.call = me.call
    BY <1>1 DEF Run
  <1> HIDE DEF to
  <1>4. GoodRun(to)
    BY <1>1, <1>3 DEF GoodRun, GoodView, GoodMissing, Links
  <1>5. QED BY <1>2, <1>4, IdleGood DEF GoesWell

\* The verification of the edges: behind the last item the graph is whole, for
\* no edge that was seen goes away.
LEMMA VerifyGood == ASSUME Sound, GraphInv, NEW x \in Process, Verify(x) PROVE GoesWell(x)
  <1> DEFINE me == process[x]
             next == [me EXCEPT !.n = @ + 1]
  <1>1. /\ me \in Run /\ me.pc = "verify" /\ ~Links(me) /\ GoodRun(me) /\ Bound = Phase
        /\ me.n \in 1..Len(Plan) /\ Len(Plan) \in Nat /\ Item(me) \in Phase
        /\ me.missing = {} /\ GoodView(me) /\ GoodCall(me.call)
    BY Here, RunFields, PhasesFinite
    DEF Verify, StageOK, Linking, Links, GraphInv, GoodRun, GoodMissing
  <1>2. CASE EdgesExact(Item(me))
    <2>1. DrawnInto(Item(me))
      <3>1. SUFFICES ASSUME NEW q \in Deps[Item(me)] PROVE Drawn(q, Item(me))
        BY DEF DrawnInto
      <3>2. q \in Phase
        BY <1>1, <3>1, BootstrapAssumption
      <3>3. bindings[q] \in cards[bindings[Item(me)]].parents
        BY <1>2, <3>1 DEF EdgesExact, Expected
      <3>4. QED BY <1>1, <3>2, <3>3, BoundCards DEF Drawn
    <2>2. \A m \in 1..me.n : DrawnInto(Plan[m])
      BY <1>1, <2>1 DEF GoodRun, Item
    <2>3. CASE me.n < Len(Plan)
      <3>1. Goes(x, next) /\ UNCHANGED bindings
        BY <1>2, <2>3 DEF Verify
      <3>2. /\ next.pc = "verify" /\ next.n = me.n + 1 /\ next.view = me.view
            /\ next.missing = me.missing /\ next.call = me.call
        BY <1>1 DEF Run
      <3> HIDE DEF next
      <3>3. \A m \in 1..next.n - 1 : DrawnInto(Plan[m])
        BY <1>1, <2>2, <3>2
      <3>4. GoodRun(next)
        BY <1>1, <3>2, <3>3 DEF GoodRun, GoodView, GoodMissing, Links
      <3>5. QED BY <3>1, <3>4 DEF GoesWell
    <2>4. CASE ~(me.n < Len(Plan))
      <3>1. Goes(x, Following(me, 1, Roots, "root", "idle")) /\ UNCHANGED bindings
        BY <1>2, <2>4 DEF Verify
      <3>2. WholeNow
        <4>1. \A m \in 1..Len(Plan) : DrawnInto(Plan[m])
          BY <1>1, <2>2, <2>4
        <4>2. QED BY <1>1, <4>1, BoundCards, BootstrapAssumption DEF WholeNow
      <3>3. GoodRun(Following(me, 1, Roots, "root", "idle"))
        BY <1>1, <3>2, NextRootGood
      <3>4. QED BY <3>1, <3>3 DEF GoesWell
    <2>5. QED BY <2>3, <2>4
  <1>3. CASE ~EdgesExact(Item(me))
    BY <1>3, IdleGood DEF Verify, Ends, GoesWell
  <1>4. QED BY <1>2, <1>3

\* From one root to the next.
LEMMA RootsGood ==
  ASSUME NEW me \in Run, WholeNow, me.missing = {}, GoodView(me), GoodCall(me.call)
  PROVE  GoodRun(NextRoot(me))
  <1>1. me.n + 1 \in Nat \ {0}
    BY RunFields
  <1>2. GoodRun(Following(me, me.n + 1, Roots, "root", "idle"))
    BY <1>1, NextRootGood
  <1>3. QED BY <1>2, IdleGood DEF NextRoot, After

\* The reading of a root's status, and the call to promote it.
LEMMA ReadRootGood == ASSUME Sound, GraphInv, NEW x \in Process, ReadRoot(x) PROVE GoesWell(x)
  <1> DEFINE me == process[x]
             i == bindings[Item(me)]
             to == [me EXCEPT !.pc = "call", !.call = [kind |-> "promote", card |-> i]]
  <1>1. /\ me \in Run /\ me.pc = "root" /\ GoodRun(me) /\ Bound = Phase /\ Item(me) \in Phase
        /\ me.missing = {} /\ GoodView(me) /\ GoodCall(me.call)
        /\ WholeNow /\ Item(me) \in Roots
    BY Here, RunFields
    DEF ReadRoot, StageOK, Linking, Links, GraphInv, GoodRun, GoodMissing
  <1>2. /\ Goes(x, NextRoot(me)) \/ Goes(x, to) \/ Goes(x, RunIdle)
        /\ UNCHANGED bindings
    BY DEF ReadRoot
  <1>3. /\ to.pc = "call" /\ to.view = me.view /\ to.missing = me.missing
        /\ to.call.kind = "promote" /\ to.call.card = i
    BY <1>1 DEF Run
  <1> HIDE DEF to
  <1>4. GoodCall(to.call)
    BY <1>1, <1>3, BoundCards DEF GoodCall
  <1>5. GoodRun(to)
    BY <1>1, <1>3, <1>4 DEF GoodRun, GoodView, GoodMissing, Links
  <1>6. GoodRun(NextRoot(me))
    BY <1>1, RootsGood
  <1>7. QED BY <1>2, <1>5, <1>6, IdleGood DEF GoesWell

\* The second reading of the status.
LEMMA ReadPromotedGood ==
  ASSUME Sound, GraphInv, NEW x \in Process, ReadPromoted(x)
  PROVE  GoesWell(x)
  <1> DEFINE old == process[x]
             me == [old EXCEPT !.call = NoCall]
  <1>1. old \in Run /\ old.pc = "promoted" /\ GoodRun(old) /\ WholeNow /\ old.missing = {}
    BY Here DEF ReadPromoted, Links, GraphInv, GoodRun, GoodMissing
  <1>2. /\ Goes(x, NextRoot(me)) \/ Goes(x, RunIdle)
        /\ UNCHANGED bindings
    BY DEF ReadPromoted, Ends
  <1>3. me \in Run /\ me.missing = old.missing /\ GoodView(me) /\ GoodCall(me.call)
    BY <1>1, ForgettingGood
  <1> HIDE DEF me
  <1>4. GoodRun(NextRoot(me))
    BY <1>1, <1>3, RootsGood
  <1>5. QED BY <1>2, <1>4, IdleGood DEF GoesWell

\* The answer of a call, or its absence.
LEMMA CallGood ==
  ASSUME Sound, GraphInv, NEW x \in Process, Execute(x) \/ ExecuteFails(x)
  PROVE  GoesWell(x)
  <1> DEFINE old == process[x]
             me == [old EXCEPT !.call = NoCall]
  <1>1. /\ old \in Run /\ old.pc = "call" /\ old.call \in Call /\ GoodRun(old)
        /\ GoodCall(old.call) /\ GoodView(old)
    BY Here DEF Execute, ExecuteFails, StageOK, GraphInv, GoodRun
  <1>2. PICK ok \in BOOLEAN : Goes(x, Answered(old, ok)) /\ UNCHANGED bindings
    BY DEF Execute, ExecuteFails
  <1>3. /\ me \in Run /\ me.missing = old.missing /\ Item(me) = Item(old)
        /\ GoodView(me) /\ GoodCall(me.call)
    BY <1>1, ForgettingGood
  <1>4. CASE old.call.kind = "create"
    <2>1. PICK i : Answered(old, ok) =
                     [old EXCEPT !.pc = "reconcile", !.call = NoCall, !.answer = i]
      BY <1>4 DEF Answered
    <2> DEFINE to == [old EXCEPT !.pc = "reconcile", !.call = NoCall, !.answer = i]
    <2>2. /\ to.pc = "reconcile" /\ to.view = old.view /\ to.missing = old.missing
          /\ to.call = NoCall
      BY <1>1 DEF Run
    <2>3. Goes(x, to)
      BY <1>2, <2>1
    <2> HIDE DEF to
    <2>4. GoodRun(to)
      BY <1>1, <1>4, <2>2 DEF GoodRun, GoodView, GoodMissing, GoodCall, Links, NoCall
    <2>5. QED BY <1>2, <2>3, <2>4 DEF GoesWell
  <1>5. CASE old.call.kind = "link"
    <2> DEFINE to == [old EXCEPT !.pc = "linked"]
    <2>1. Bound = Phase /\ old.missing \subseteq Expected(Item(old))
      BY <1>1, <1>5 DEF GoodRun, GoodMissing, Links
    <2>2. Goes(x, NextLink(me)) \/ Goes(x, to)
      BY <1>2, <1>5 DEF Answered
    <2>3. /\ to.pc = "linked" /\ to.view = old.view /\ to.missing = old.missing
          /\ to.call = old.call /\ Item(to) = Item(old)
      BY <1>1 DEF Run, Item
    <2> HIDE DEF to, me
    <2>4. GoodRun(to)
      BY <1>1, <2>1, <2>3 DEF GoodRun, GoodView, GoodMissing, Links
    <2>5. GoodRun(NextLink(me))
      BY <1>3, <2>1, NextLinkGood
    <2>6. QED BY <1>2, <2>2, <2>4, <2>5 DEF GoesWell
  <1>6. CASE old.call.kind = "promote"
    <2> DEFINE to == [old EXCEPT !.pc = "promoted"]
    <2>1. WholeNow /\ old.missing = {}
      BY <1>1, <1>6 DEF GoodRun, GoodMissing, GoodCall, Links
    <2>2. Goes(x, NextRoot(me)) \/ Goes(x, to)
      BY <1>2, <1>6 DEF Answered
    <2>3. /\ to.pc = "promoted" /\ to.view = old.view /\ to.missing = old.missing
          /\ to.call = old.call
      BY <1>1 DEF Run
    <2> HIDE DEF to, me
    <2>4. GoodRun(to)
      BY <1>1, <2>1, <2>3 DEF GoodRun, GoodView, GoodMissing, Links
    <2>5. GoodRun(NextRoot(me))
      BY <1>3, <2>1, RootsGood
    <2>6. QED BY <1>2, <2>2, <2>4, <2>5 DEF GoesWell
  <1>7. QED BY <1>1, <1>4, <1>5, <1>6, CallKinds

\* The end of a run by a failure or a crash.
LEMMA EndGood ==
  ASSUME NEW x \in Process, ReadFails(x) \/ Crash(x)
  PROVE  GoesWell(x)
  BY IdleGood DEF ReadFails, Crash, Ends, GoesWell

\* So every step of a run goes well.
LEMMA RunsGoWell ==
  ASSUME Sound, GraphInv, NEW x \in Process,
         Start(x) \/ Steps(x) \/ ExecuteFails(x) \/ ReadFails(x) \/ Crash(x)
  PROVE  GoesWell(x)
  BY StartGood, ListGood, ChooseGood, ReconcileGood, CompleteGood, ReadParentsGood, LinkGood,
     ReadLinkedGood, ReadbackGood, VerifyGood, ReadRootGood, ReadPromotedGood, CallGood, EndGood
  DEF Steps

-----------------------------------------------------------------------------
(* Every step, and the theorem *)

\* The bindings stay those of first cards.
LEMMA BoundStays ==
  ASSUME Growing, BoundFirst, UNCHANGED bindings \/ \E p \in Phase : Binds(p)
  PROVE  BoundFirst'
  <1>1. bindings \in [Phase -> Nat]
    BY DEF Growing, TypeOK
  <1>2. ASSUME NEW q \in Phase, Keyed(q) # {}
        PROVE  First(q) \in Keyed(q)' /\ First(q)' = First(q)
    BY <1>2, FirstIs, FirstStays DEF Growing
  <1>3. CASE UNCHANGED bindings
    BY <1>2, <1>3 DEF BoundFirst, Bound
  <1>4. ASSUME NEW p \in Phase, Binds(p) PROVE BoundFirst'
    <2>1. SUFFICES ASSUME NEW q \in Phase, bindings'[q] # 0
                   PROVE  bindings'[q] \in Keyed(q)' /\ bindings'[q] = First(q)'
      BY DEF BoundFirst, Bound
    <2>2. Keyed(p) # {} /\ bindings'[p] = First(p) /\ (q # p => bindings'[q] = bindings[q])
      BY <1>1, <1>4 DEF Binds
    <2>3. CASE q = p
      BY <1>2, <2>2, <2>3
    <2>4. CASE q # p
      <3>1. q \in Bound
        BY <2>1, <2>2, <2>4 DEF Bound
      <3>2. bindings[q] = First(q) /\ Keyed(q) # {}
        BY <3>1 DEF BoundFirst
      <3>3. QED BY <1>2, <2>2, <2>4, <3>2
    <2>5. QED BY <2>3, <2>4
  <1>5. QED BY <1>3, <1>4

\* Every step keeps the invariant of the graph.
LEMMA GraphStep == ASSUME Sound, GraphInv, [Next]_vars PROVE GraphInv'
  <1>1. TypeOK /\ TypeOK' /\ Staged
    BY SoundStep DEF Sound
  <1>2. Growing /\ EdgesRight' /\ ExposedWhole'
    BY <1>1, EveryBoardStep, BoardKeeps DEF GraphInv
  <1>3. \A call : GoodCall(call) => GoodCall(call)'
    BY <1>2, CallStays
  <1>4. ASSUME orphans' \subseteq orphans \cup {process[x].call : x \in Process}
        PROVE  \A call \in orphans' : GoodCall(call)'
    BY <1>3, <1>4 DEF GraphInv, GoodRun
  <1>5. ASSUME NEW x \in Process, GoesWell(x),
               process[x].pc # "idle" \/ LockFree,
               orphans' \subseteq orphans \cup {process[x].call}
        PROVE  GraphInv'
    <2>1. PICK me : /\ Goes(x, me) /\ GoodRun(me)
                    /\ \/ UNCHANGED bindings
                       \/ ~Links(me) /\ \E p \in Phase : Binds(p)
      BY <1>5 DEF GoesWell
    <2>2. process'[x] = me /\ \A y \in Process \ {x} : process'[y] = process[y]
      BY <1>1, <2>1 DEF Goes, TypeOK
    <2>3. \A y \in Process \ {x} : process[y].pc = "idle" /\ ~Links(process[y])
      BY <1>1, <1>5 DEF Staged, LockFree, Links
    <2>4. GoodRun(process[x])'
      BY <1>2, <2>1, <2>2, RunStays
    <2>5. ASSUME NEW y \in Process \ {x} PROVE GoodRun(process[y])'
      BY <1>2, <2>2, <2>3, RunStays DEF GraphInv
    <2>6. BoundFirst'
      BY <1>2, <2>1, BoundStays DEF GraphInv
    <2>7. QED BY <1>2, <1>4, <1>5, <2>4, <2>5, <2>6 DEF GraphInv
  <1>6. ASSUME NEW x \in Process,
               Start(x) \/ Steps(x) \/ ExecuteFails(x) \/ ReadFails(x) \/ Crash(x)
        PROVE  GraphInv'
    <2>1. process[x].pc # "idle" \/ LockFree
      BY <1>6
      DEF Start, Steps, ListExisting, Choose, Reconcile, Complete, ReadParents, Link,
          ReadLinked, Readback, Verify, ReadRoot, ReadPromoted, Execute, ExecuteFails,
          ReadFails, Crash
    <2>2. orphans' \subseteq orphans \cup {process[x].call}
      BY <1>6
      DEF Start, Steps, ListExisting, Choose, Reconcile, Complete, ReadParents, Link,
          ReadLinked, Readback, Verify, ReadRoot, ReadPromoted, Execute, ExecuteFails,
          ReadFails, Crash
    <2>3. QED BY <1>5, <1>6, <2>1, <2>2, RunsGoWell
  <1>7. ASSUME UNCHANGED process, orphans' \subseteq orphans, BoundFirst',
               UNCHANGED bindings \/ LockFree
        PROVE  GraphInv'
    <2>1. ASSUME NEW x \in Process PROVE GoodRun(process[x])'
      <3>1. LockFree => ~Links(process[x])
        BY DEF LockFree, Links
      <3>2. QED BY <1>2, <1>7, <3>1, RunStays DEF GraphInv
    <2>2. QED BY <1>2, <1>4, <1>7, <2>1 DEF GraphInv
  <1>8. ASSUME UNCHANGED <<process, bindings>>, orphans' \subseteq orphans PROVE GraphInv'
    BY <1>2, <1>7, <1>8, BoundStays DEF GraphInv
  <1>9. CASE LoseLedger
    <2>1. BoundFirst'
      BY <1>9 DEF LoseLedger, BoundFirst, Bound
    <2>2. QED BY <1>7, <1>9, <2>1 DEF LoseLedger
  <1>10. QED BY <1>6, <1>8, <1>9 DEF Next, ExecuteOrphan, Work, Tamper, vars

\* No phase has two cards that creates have made.
OneCardPerPhase == \A p \in Phase : \A i, j \in Created(p) : i = j

\* No step of the board makes a second card for a phase, but a copy.
LEMMA OneCardStep == ASSUME TypeOK, OneCardPerPhase, BoardStep PROVE OneCardPerPhase'
  <1>1. SUFFICES ASSUME NEW p \in Phase, NEW i \in Created(p)', NEW j \in Created(p)'
                 PROVE  i = j
    BY DEF OneCardPerPhase
  <1>2. /\ i \in 1..Len(cards') /\ cards'[i].phase = p /\ ~cards'[i].copy
        /\ j \in 1..Len(cards') /\ cards'[j].phase = p /\ ~cards'[j].copy
    BY DEF Created, Keyed
  <1>3. ASSUME NEW k \in 1..Len(cards), cards[k].phase = p, ~cards[k].copy
        PROVE  k \in Created(p)
    BY <1>3 DEF Created, Keyed
  <1>4. CASE UNCHANGED cards
    BY <1>2, <1>3, <1>4 DEF OneCardPerPhase
  <1>5. ASSUME NEW card \in Card, Adds(card) PROVE i = j
    <2>1. /\ Len(cards) \in Nat /\ Len(cards') = Len(cards) + 1 /\ cards'[Len(cards')] = card
          /\ \A k \in 1..Len(cards) : cards'[k] = cards[k]
      BY <1>5 DEF Adds, TypeOK
    <2>2. ASSUME NEW k \in 1..Len(cards), cards'[k].phase = p, ~cards'[k].copy
          PROVE  k \in Created(p) /\ Keyed(p) # {}
      BY <1>3, <2>1, <2>2 DEF Created
    <2>3. CASE card.phase = p /\ ~card.copy
      <3>1. Keyed(p) = {}
        BY <1>5, <2>3 DEF Adds
      <3>2. QED BY <1>2, <2>1, <2>2, <3>1
    <2>4. CASE ~(card.phase = p /\ ~card.copy)
      <3>1. i \in 1..Len(cards) /\ j \in 1..Len(cards)
        BY <1>2, <2>1, <2>4
      <3>2. QED BY <1>2, <2>2, <3>1 DEF OneCardPerPhase
    <2>5. QED BY <2>3, <2>4
  <1>6. ASSUME NEW n \in 1..Len(cards), NEW card \in Card, Edits(n, card) PROVE i = j
    <2>1. /\ Len(cards') = Len(cards)
          /\ \A k \in 1..Len(cards) :
               cards'[k].phase = cards[k].phase /\ cards'[k].copy = cards[k].copy
      BY <1>6 DEF Edits, TypeOK
    <2>2. QED BY <1>2, <1>3, <2>1 DEF OneCardPerPhase
  <1>7. QED BY <1>4, <1>5, <1>6 DEF BoardStep

\* The bootstrap implements its promise: one card for each phase beside the copies
\* that others make, every edge a planned one, and nothing exposed before the graph
\* is whole, whatever is lost, repeated or late.
THEOREM BootstrapImplementsGraph == Spec => ImplementsGraph
  <1>1. ASSUME Init PROVE GraphInv /\ OneCardPerPhase /\ Graph!Init
    <2>1. \A p : Keyed(p) = {}
      BY <1>1 DEF Init, Keyed
    <2>2. GraphInv
      BY <1>1, <2>1, IdleGood DEF Init, GraphInv, BoundFirst, Bound, EdgesRight, ExposedWhole
    <2>3. Graph!Init
      BY <2>1 DEF Graph!Init, StatusOf, Drawn
    <2>4. OneCardPerPhase
      BY <2>1 DEF OneCardPerPhase, Created
    <2>5. QED BY <2>2, <2>3, <2>4
  <1>2. ASSUME Sound, GraphInv, [Next]_vars PROVE GraphInv' /\ [Graph!Next]_(Graph!vars)
    BY <1>2, GraphStep, EveryBoardStep, BoardMaps DEF Sound, GraphInv
  <1>3. Sound /\ GraphInv /\ OneCardPerPhase /\ [Next]_vars => OneCardPerPhase'
    BY EveryBoardStep, OneCardStep DEF Sound
  <1>4. (\A p \in Phase : \A i, j \in Created(p) : i = j) <=> OneCardPerPhase
    BY DEF OneCardPerPhase
  <1>5. QED
    BY <1>1, <1>2, <1>3, <1>4, AlwaysSound, PTL DEF Spec, ImplementsGraph, Graph!Spec

================================================================================
