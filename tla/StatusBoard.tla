----------------------------- MODULE StatusBoard -----------------------------
(***************************************************************************)
(* From the cards of a mission to status.json: a tick reads the counter of *)
(* the ledger, collects the cards one by one while workers move them,      *)
(* derives the mission's state, commits incidents and counter in one       *)
(* transaction, and then replaces the status file, under no lock.  A tick  *)
(* that cannot open the ledger, or finds another manifest registered,      *)
(* publishes a critical status instead.                                    *)
(*                                                                         *)
(* One process is the timer's, the other an operator's manual tick.  What  *)
(* the manager plane does to incidents is in WakeLedger; here a row only   *)
(* opens and is closed by a clean tick; rows are never deleted.            *)
(***************************************************************************)
EXTENDS MissionState, Integers, FiniteSets

CONSTANTS
  Outcomes,   \* what becomes of a phase that runs: "done", and some ways to go wrong
  Capacity,   \* incident rows a projection may hold, 256 in the code
  MaxFaults   \* bound: bad outcomes, crashes, manual ticks and lost ledgers

ASSUME StatusAssumption ==
  /\ Outcomes \subseteq {"done", "bare", "blocked", "failed", "other"}
  /\ Capacity \in Nat /\ MaxFaults \in Nat

VARIABLES
  board,    \* external: the kind of each phase's card
  bound,    \* the phases the ledger binds
  usable,   \* the ledger opens and has the manifest's hash
  rows,     \* incident rows so far, at most one more than fit
  last,     \* the states that the last tick committed, with an incident for each bad one
  status,   \* status.json
  ticker,   \* the state of each process
  faults    \* failures and changes so far

vars == <<board, bound, usable, rows, last, status, ticker, faults>>

-----------------------------------------------------------------------------
Ticker == {"timer", "manual"}
Incident == Phase \X Bad

Status ==
  [kind : {"none", "mission", "critical"}, states : [Phase -> State],
   overtaken : BOOLEAN]

Nothing == [p \in Phase |-> "unknown"]
NoStatus == [kind |-> "none", states |-> Nothing, overtaken |-> FALSE]
Critical == [NoStatus EXCEPT !.kind = "critical"]

TickerState ==
  [pc : {"idle", "collect", "commit", "write"},
   seen : [Phase -> Kind],
   left : SUBSET Phase,     \* the cards still to be read
   overtaken : BOOLEAN,     \* somebody committed since it read the counter, or made its own
   status : Status,         \* what it is about to write
   listed : 0..Capacity + 1]   \* and the number of rows it lists

TickerIdle ==
  [pc |-> "idle", seen |-> [p \in Phase |-> "none"], left |-> {},
   overtaken |-> FALSE, status |-> NoStatus, listed |-> 0]

TypeOK ==
  /\ board \in [Phase -> Kind \ {"none"}]
  /\ bound \subseteq Phase
  /\ usable \in BOOLEAN
  /\ rows \in 0..Capacity + 1
  /\ last \in [Phase -> State]
  /\ status \in Status
  /\ ticker \in [Ticker -> TickerState]
  /\ faults \in 0..MaxFaults

Init ==
  /\ board = [p \in Phase |-> "todo"]
  /\ bound = Phase \ {Final}
  /\ usable = TRUE
  /\ rows = 0
  /\ last = [p \in Phase |-> "pending"]
  /\ status = NoStatus
  /\ ticker = [t \in Ticker |-> TickerIdle]
  /\ faults = 0

Goes(t, me) == ticker' = [ticker EXCEPT ![t] = me]
Fault == faults < MaxFaults /\ faults' = faults + 1

-----------------------------------------------------------------------------
(* run_tick *)

\* The ledger is opened, the hash compared, the counter read, and the bindings;
\* without any there is nothing to collect.
Begin(t) ==
  /\ ticker[t].pc = "idle"
  /\ Goes(t, IF usable = TRUE
             THEN [TickerIdle EXCEPT !.pc = IF bound = {} THEN "commit" ELSE "collect",
                                     !.left = bound]
             ELSE [TickerIdle EXCEPT !.pc = "write", !.status = Critical])
  /\ UNCHANGED <<board, bound, usable, rows, last, status>>

TimerBegin == Begin("timer") /\ UNCHANGED faults
ManualBegin == Begin("manual") /\ Fault

\* The cards are read in the order of their identifiers (here that of the keys).
NextCard(left) ==
  CHOOSE p \in left :
    \E n \in 1..Len(KeyOrder) : KeyOrder[n] = p /\ \A m \in 1..n - 1 : KeyOrder[m] \notin left

\* HermesAdapter.collect shows one card after the other.
Collect(t) ==
  /\ ticker[t].pc = "collect"
  /\ LET me == ticker[t]
         p == NextCard(me.left)
     IN  Goes(t, [me EXCEPT !.seen[p] = board[p], !.left = @ \ {p},
                            !.pc = IF me.left = {p} THEN "commit" ELSE @])
  /\ UNCHANGED <<board, bound, usable, rows, last, status, faults>>

\* incident_observations: what opens an incident, or keeps it open.
Observed(states) == {k \in Incident : states[k[1]] = k[2]}

\* Mutant: the counter is set and not compared.
Unmoved_Always(me) == TRUE

\* commit_tick's compare-and-set: nobody committed since the counter was read.
Unmoved(me) == ~me.overtaken

\* Incidents and counter are committed, or all of it is rolled back.
Commit(t) ==
  /\ ticker[t].pc = "commit"
  /\ LET me == ticker[t]
         states == States(me.seen)
         count == rows + Cardinality(Observed(states) \ Observed(last))
     IN  IF Unmoved(me)
         THEN /\ rows' = IF count <= Capacity THEN count ELSE Capacity + 1
              /\ last' = states
              /\ status' = [status EXCEPT !.overtaken = TRUE]
              /\ ticker' = [u \in Ticker |->
                   IF u = t
                   THEN [TickerIdle EXCEPT !.pc = "write", !.listed = rows',
                           !.status = [kind |-> "mission", states |-> states, overtaken |-> FALSE]]
                   ELSE [ticker[u] EXCEPT !.overtaken = TRUE]]
         ELSE Goes(t, TickerIdle) /\ UNCHANGED <<rows, last, status>>
  /\ UNCHANGED <<board, bound, usable, faults>>

\* Mutant: the bound is off by one.
Fits_Below(count) == count < Capacity

\* validate_projection's bound on the incidents it lists: the rows there were when
\* the tick committed.  A critical status lists only its own.
Fits(count) == count <= Capacity

\* The status file is replaced, unless the projection is refused.
Write(t) ==
  /\ ticker[t].pc = "write"
  /\ LET me == ticker[t] IN
       status' = IF me.status.kind = "critical" \/ Fits(me.listed)
                 THEN [me.status EXCEPT !.overtaken = me.overtaken] ELSE status
  /\ Goes(t, TickerIdle)
  /\ UNCHANGED <<board, bound, usable, rows, last, faults>>

\* The process dies, or the collection or the write fails.
Abort(t) ==
  /\ ticker[t].pc # "idle" /\ Fault
  /\ Goes(t, TickerIdle)
  /\ UNCHANGED <<board, bound, usable, rows, last, status>>

-----------------------------------------------------------------------------
(* External: workers, the bootstrap and the operator *)

\* Hermes lets a phase begin when its dependencies are finished, whatever their
\* evidence; done is for good, everything else may be tried again.
Work(p) ==
  /\ \E to \in Kind :
       /\ \/ board[p] = "todo" /\ to = "running" /\ \A q \in Deps[p] : board[q] \in {"bare", "done"}
          \/ board[p] = "running" /\ to \in Outcomes
          \/ board[p] \in {"blocked", "failed", "bare", "other"} /\ to = "running"
       /\ board' = [board EXCEPT ![p] = to]
       /\ IF to \notin {"running", "done"} THEN Fault ELSE UNCHANGED faults
  /\ UNCHANGED <<bound, usable, rows, last, status, ticker>>

\* A bootstrap under way binds a phase.
Bind(p) ==
  /\ p \notin bound
  /\ bound' = bound \cup {p}
  /\ UNCHANGED <<board, usable, rows, last, status, ticker, faults>>

\* The ledger cannot be opened for a while, or the manifest is edited.
LedgerTurns ==
  /\ usable' = ~usable
  /\ IF usable THEN Fault ELSE UNCHANGED faults
  /\ UNCHANGED <<board, bound, rows, last, status, ticker>>

-----------------------------------------------------------------------------
Run(t) == Collect(t) \/ Commit(t) \/ Write(t)

Next ==
  \/ TimerBegin \/ ManualBegin
  \/ \E t \in Ticker : Run(t) \/ Abort(t)
  \/ \E p \in Phase : Work(p) \/ Bind(p)
  \/ LedgerTurns

\* The timer fires on, and a tick that runs goes on.
Fairness == WF_vars(TimerBegin) /\ \A t \in Ticker : WF_vars(Run(t))

Spec == Init /\ [][Next]_vars /\ Fairness

-----------------------------------------------------------------------------
(* Properties *)

Shown == status.kind = "mission"

\* A mission shown as done is done, with all its evidence: neither a collection
\* torn by progress nor a file written late can claim it early.
DoneIsDone ==
  Shown /\ Outcome(status.states) = "done" => \A p \in Phase : board[p] = "done"

\* The phase shown as next is due, as what it depends on is shown as done, and a mission
\* shown without a next phase is done.
NextIsDue ==
  Shown =>
    /\ \A p \in NextPhases(status.states), q \in Phase :
         q \in Deps[p] => status.states[q] = "done"
    /\ NextPhases(status.states) = {} => Outcome(status.states) = "done"

\* A phase shown as running or ready has all that it depends on shown as done, although
\* Hermes starts a card behind one that is finished without its evidence, and the states
\* are found in one pass over the order.
RunningIsDue ==
  Shown =>
    \A p \in Phase : status.states[p] \in {"running", "ready"} =>
      \A q \in Deps[p] : status.states[q] = "done"

\* From commit to commit no phase falls back behind done, although each tick's
\* collection is of several moments and ticks overlap.
ProgressIsKept ==
  [][\A p \in Phase : last[p] = "done" => last'[p] = "done"]_vars

Current == Shown /\ ~status.overtaken

\* The status catches up with the ledger again and again once the ledger stays
\* usable, while the rows fit: overlapping ticks that write in the wrong order,
\* a crash between commit and write, and critical statuses are all repaired.
StatusCatchesUp == <>[]usable /\ [](rows <= Capacity) => []<>Current

\* What MONITORING.md and MANAGER_WAKEUP.md promise: the status is rewritten after
\* each successful tick, as resolved rows leave it after a while.
StatusStaysCurrent == <>[]usable => []<>Current

=============================================================================
