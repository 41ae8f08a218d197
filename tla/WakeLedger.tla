----------------------------- MODULE WakeLedger -----------------------------
(***************************************************************************)
(* The manager plane of the Cyclops ledger: incidents, wake attempts, the  *)
(* daily wake budget and the notification outbox, and the two programs     *)
(* that write them:                                                        *)
(*                                                                         *)
(*   ticker   `skynet-cyclops tick`: reads the tick counter, collects the  *)
(*            board, then commits one observation set (tick.run_tick,      *)
(*            Ledger.observe_manager_incidents, Ledger.commit_tick);       *)
(*   router   `skynet-cyclops manager router`: samples the clock, reads    *)
(*            the live attempt, collects the manager's results,            *)
(*            revalidates the board, and imports, resolves, or reconciles  *)
(*            and leases (manager.manager_router_gate and the ledger       *)
(*            operations it calls).                                        *)
(*                                                                         *)
(* Every SQLite transaction is one action; whatever a program holds        *)
(* between two transactions is in its own record, so tickers and routers   *)
(* interleave and crash between any two steps.  The board, the manager     *)
(* agent and the wall clock are external and nondeterministic.             *)
(*                                                                         *)
(* The ledger holds one mission, as one deployment does (one config, one   *)
(* manifest).  A board condition is the typed identity of an incident; its *)
(* observation fingerprint is a function of that identity in the deployed  *)
(* collector (tick.incident_observations), so fingerprints never differ.   *)
(***************************************************************************)
EXTENDS Integers, FiniteSets

CONSTANTS
  Incident,        \* stable incident identities
  Severity,        \* Incident -> 0 (critical) or 1 (warning)
  IdOrder,         \* Incident -> Nat, the order of the identity strings
  Router,          \* concurrent `manager router` processes
  Ticker,          \* concurrent `tick` processes
  Persistence,     \* ManagerPolicy.persistence_ticks
  LeaseSeconds,    \* ManagerPolicy.lease_seconds
  Backoff,         \* ManagerPolicy.retry_backoff_seconds
  MaxAttempts,     \* ManagerPolicy.max_attempts
  DailyLimit,      \* ManagerPolicy.daily_mission_limit
  GapDamper,       \* manifest gap_damper_seconds
  DayLength,       \* clock units in a UTC day
  NoAttempt,       \* current_manager_attempt returned None
  MaxStall,        \* longest life of a router process, in clock units
  MaxGeneration,   \* bound: recurrences of one incident
  MaxTick,         \* bound: committed ticks
  MaxClock         \* bound: wall clock

ASSUME PolicyAssumption ==
  /\ Persistence \in Nat \ {0}
  /\ LeaseSeconds \in Nat \ {0}
  /\ Backoff \in Nat
  /\ MaxAttempts \in Nat \ {0}
  /\ DailyLimit \in Nat \ {0}
  /\ GapDamper \in Nat
  /\ DayLength \in Nat \ {0}

ASSUME OrderAssumption ==
  /\ Severity \in [Incident -> {0, 1}]
  /\ IdOrder \in [Incident -> Nat]
  /\ \A i, j \in Incident : IdOrder[i] = IdOrder[j] => i = j

ASSUME BoundAssumption ==
  /\ MaxStall \in Nat
  /\ MaxGeneration \in Nat \ {0}
  /\ MaxTick \in Nat
  /\ MaxClock \in Nat

VARIABLES
  rows,       \* incidents: (incident_id, generation) -> row
  attempts,   \* wake_attempts: (incident_id, generation), attempt_no -> row
  used,       \* wake_budgets: day -> used
  intents,    \* notification_intents: {<<key, terminal_kind>>}
  tick_seq,   \* meta.tick_seq
  heartbeat,  \* meta.last_heartbeat
  last_wall,  \* meta.manager_last_wallclock
  post_gap,   \* status.json supervisor.post_gap of the last committed tick
  router,     \* local state of each router process
  ticker,     \* local state of each tick process
  board,      \* external: the conditions the Kanban board shows now
  clock       \* external: wall clock

vars == <<rows, attempts, used, intents, tick_seq, heartbeat, last_wall,
          post_gap, router, ticker, board, clock>>

-----------------------------------------------------------------------------
(* The tables *)

Generation == 1..MaxGeneration
Key        == Incident \X Generation
AttemptNo  == 1..MaxAttempts
Attempt    == Key \X AttemptNo
Time       == 0..MaxClock
NoTime     == -1
Day        == 0..(MaxClock \div DayLength)
DayOf(t)   == t \div DayLength

Terminal    == {"resolved", "human_required", "dead_letter"}
Notifiable  == {"human_required", "dead_letter"}
Lifecycle   == {"absent", "detected", "wake_sent"} \cup Terminal
Disposition == {"observing", "active", "resolved"}

Row ==
  [lifecycle       : Lifecycle,
   disposition     : Disposition,
   first_tick      : Nat,
   last_tick       : Nat,
   observed_ticks  : Nat,
   attempt_count   : 0..MaxAttempts,
   next_attempt_at : Nat,
   clean_tick      : BOOLEAN]

NoRow ==
  [lifecycle |-> "absent", disposition |-> "observing", first_tick |-> 0,
   last_tick |-> 0, observed_ticks |-> 0, attempt_count |-> 0,
   next_attempt_at |-> 0, clean_tick |-> FALSE]

\* finished_at is the completion time of the manager's valid ACK for the
\* attempt; Hermes keeps it, the ledger never stores it.
AttemptRow ==
  [state       : {"none", "leased", "ack_valid", "expired", "superseded"},
   acquired    : Time \cup {NoTime},
   expires     : Nat \cup {NoTime},
   finished_at : Time \cup {NoTime}]

NoAttemptRow == [state |-> "none", acquired |-> NoTime, expires |-> NoTime,
                 finished_at |-> NoTime]

Present(k) == rows[k].lifecycle # "absent"
IsOpen(k)  == Present(k) /\ ~rows[k].clean_tick
Leased(a)  == attempts[a].state = "leased"

\* An attempt leaves its lease.
Settled(attempt, state) == [attempt EXCEPT !.state = state]

\* The row "ORDER BY generation DESC LIMIT 1" finds for the incident of k.
IsLatest(k) == /\ Present(k)
               /\ \A g \in Generation : g > k[2] => ~Present(<<k[1], g>>)

-----------------------------------------------------------------------------
(* Local state of the processes *)

RouterPC == {"idle", "read", "collect", "revalidate", "import", "resolve",
             "reconcile", "lease"}

ASSUME NoAttemptAssumption == NoAttempt \notin Attempt

\* now is the timestamp sampled once when the gate starts; attempt is what
\* current_manager_attempt returned.
RouterState == [pc : RouterPC, now : Time, attempt : Attempt \cup {NoAttempt}]
RouterIdle  == [pc |-> "idle", now |-> 0, attempt |-> NoAttempt]

TickerState == [pc : {"idle", "collect", "commit"}, seq : Nat, now : Time,
                gap : BOOLEAN, seen : SUBSET Incident]
TickerIdle  == [pc |-> "idle", seq |-> 0, now |-> 0, gap |-> FALSE, seen |-> {}]

Goto(r, pc) == router' = [router EXCEPT ![r].pc = pc]
Done(r)     == router' = [router EXCEPT ![r] = RouterIdle]

TypeOK ==
  /\ rows \in [Key -> Row]
  /\ attempts \in [Attempt -> AttemptRow]
  /\ used \in [Day -> Nat]
  /\ intents \subseteq Key \X Notifiable
  /\ tick_seq \in Nat
  /\ heartbeat \in Time \cup {NoTime}
  /\ last_wall \in Time \cup {NoTime}
  /\ post_gap \in BOOLEAN
  /\ router \in [Router -> RouterState]
  /\ \A r \in Router : router[r].pc \in {"revalidate", "import", "resolve"}
                        => router[r].attempt \in Attempt
  /\ ticker \in [Ticker -> TickerState]
  /\ board \subseteq Incident
  /\ clock \in Time

Init ==
  /\ rows = [k \in Key |-> NoRow]
  /\ attempts = [a \in Attempt |-> NoAttemptRow]
  /\ used = [d \in Day |-> 0]
  /\ intents = {}
  /\ tick_seq = 0
  /\ heartbeat = NoTime
  /\ last_wall = NoTime
  /\ post_gap = FALSE
  /\ router = [r \in Router |-> RouterIdle]
  /\ ticker = [t \in Ticker |-> TickerIdle]
  /\ board \in SUBSET Incident
  /\ clock = 0

ledger == <<rows, attempts, used, intents, tick_seq, heartbeat, last_wall, post_gap>>

-----------------------------------------------------------------------------
(* Tick *)

\* A tick starts: it samples the clock, reads tick_seq and last_heartbeat
\* outside any transaction and decides whether it is the first tick after a
\* gap.  The code samples the clock before it opens the ledger and reads the
\* counter after that; a commit in between could only change the gap it finds,
\* and the two are one step here.
TickStart(t) ==
  /\ ticker[t].pc = "idle"
  /\ tick_seq < MaxTick
  /\ ticker' = [ticker EXCEPT ![t] =
       [pc |-> "collect", seq |-> tick_seq + 1, now |-> clock,
        gap |-> heartbeat # NoTime /\ clock - heartbeat > GapDamper,
        seen |-> {}]]
  /\ UNCHANGED <<ledger, router, board, clock>>

\* The collector reads the board: the typed observations of this tick.
TickCollect(t) ==
  /\ ticker[t].pc = "collect"
  /\ ticker' = [ticker EXCEPT ![t].pc = "commit", ![t].seen = board]
  /\ UNCHANGED <<ledger, router, board, clock>>

\* Mutant: off by one tick.
DispositionOf_Early(observed, gap) ==
  IF observed + 1 >= Persistence /\ ~gap THEN "active" ELSE "observing"

DispositionOf(observed, gap) ==
  IF observed >= Persistence /\ ~gap THEN "active" ELSE "observing"

\* Mutant: the clean tick is not required.
Recurs_Unclean(k) == rows[k].lifecycle \in Terminal

\* A closed generation admits a new one: it is terminal and a clean tick has
\* been recorded since.
Recurs(k) == rows[k].lifecycle \in Terminal /\ rows[k].clean_tick

\* k is the generation a tick inserts when its incident is observed.
Opens(k) ==
  \/ k[2] = 1 /\ \A g \in Generation : ~Present(<<k[1], g>>)
  \/ k[2] > 1 /\ IsLatest(<<k[1], k[2] - 1>>) /\ Recurs(<<k[1], k[2] - 1>>)

\* k is the generation a tick updates when its incident is observed.
Continues(k) == IsLatest(k) /\ ~Recurs(k)

Opened(seq, gap) ==
  [NoRow EXCEPT !.lifecycle = "detected",
                !.disposition = DispositionOf(1, gap),
                !.first_tick = seq,
                !.last_tick = seq,
                !.observed_ticks = 1]

Renewed(row, seq, gap) ==
  LET n == IF row.last_tick = seq - 1 THEN row.observed_ticks + 1 ELSE 1
  IN  [row EXCEPT !.last_tick = seq,
                  !.observed_ticks = n,
                  !.disposition = IF row.lifecycle = "detected"
                                  THEN DispositionOf(n, gap) ELSE @,
                  !.clean_tick = FALSE]

\* The condition is gone: the row ends without a notification.
Resolved(row) ==
  [row EXCEPT !.lifecycle = "resolved", !.disposition = "resolved", !.clean_tick = TRUE]

\* Mutant: every absent row is resolved, terminal or not.
Cleared_Always(row) == Resolved(row)

\* A row the tick does not see again: a terminal row records its clean tick,
\* a live one is resolved.
Cleared(row) ==
  IF row.lifecycle \in Terminal
  THEN [row EXCEPT !.clean_tick = TRUE]
  ELSE Resolved(row)

Observed(k, seen, seq, gap) ==
  CASE k[1] \in seen /\ Opens(k)      -> Opened(seq, gap)
    [] k[1] \in seen /\ Continues(k)  -> Renewed(rows[k], seq, gap)
    [] k[1] \notin seen /\ IsOpen(k)  -> Cleared(rows[k])
    [] OTHER                          -> rows[k]

\* Mutant: only the leases of rows already terminal are superseded.
Supersedes_Terminal(a, seen) ==
  /\ Leased(a)
  /\ a[1][1] \notin seen
  /\ IsOpen(a[1])
  /\ rows[a[1]].lifecycle \in Terminal

\* The attempts a tick supersedes: live leases of the rows it resolves.
Supersedes(a, seen) ==
  /\ Leased(a)
  /\ a[1][1] \notin seen
  /\ IsOpen(a[1])
  /\ rows[a[1]].lifecycle \notin Terminal

\* One transaction: the observation set, the absent conditions and the tick
\* counter's compare-and-set.  A ticker that lost the race rolls back all of
\* it.  MaxGeneration bounds recurrence.
TickCommit(t) ==
  /\ ticker[t].pc = "commit"
  /\ LET me == ticker[t] IN
       \/ /\ tick_seq = me.seq - 1
          /\ \A i \in me.seen : ~Recurs(<<i, MaxGeneration>>)
          /\ tick_seq' = me.seq
          /\ heartbeat' = me.now
          /\ post_gap' = me.gap
          /\ rows' = [k \in Key |-> Observed(k, me.seen, me.seq, me.gap)]
          /\ attempts' = [a \in Attempt |->
               IF Supersedes(a, me.seen)
               THEN Settled(attempts[a], "superseded")
               ELSE attempts[a]]
       \/ /\ tick_seq # me.seq - 1
          /\ UNCHANGED <<rows, attempts, tick_seq, heartbeat, post_gap>>
  /\ ticker' = [ticker EXCEPT ![t] = TickerIdle]
  /\ UNCHANGED <<used, intents, last_wall, router, board, clock>>

\* The process dies, or an exception (unavailable Hermes, invalid collection)
\* ends it before its commit.
TickAbort(t) ==
  /\ ticker[t].pc # "idle"
  /\ ticker' = [ticker EXCEPT ![t] = TickerIdle]
  /\ UNCHANGED <<ledger, router, board, clock>>

-----------------------------------------------------------------------------
(* Router *)

\* The gate passes the scope and activation checks and samples its clock.
RouterStart(r) ==
  /\ router[r].pc = "idle"
  /\ router' = [router EXCEPT ![r] =
       [pc |-> "read", now |-> clock, attempt |-> NoAttempt]]
  /\ UNCHANGED <<ledger, ticker, board, clock>>

\* current_manager_attempt: the live attempt, if there is exactly one.
RouterRead(r) ==
  /\ router[r].pc = "read"
  /\ \/ \E a \in Attempt :
          /\ Leased(a)
          /\ \A b \in Attempt : Leased(b) => b = a
          /\ router' = [router EXCEPT ![r].pc = "collect", ![r].attempt = a]
     \/ /\ ~\E a \in Attempt : Leased(a) /\ \A b \in Attempt : Leased(b) => b = a
        /\ Goto(r, "collect")
  /\ UNCHANGED <<ledger, ticker, board, clock>>

\* Mutant: an answer after the lease counts.
Matches_Late(a, now) ==
  /\ attempts[a].finished_at # NoTime
  /\ attempts[a].acquired <= attempts[a].finished_at
  /\ attempts[a].finished_at <= now

\* _matching_runtime_results: the manager's ACK names this attempt and
\* finished inside its lease, no later than the router's own timestamp.
Matches(a, now) ==
  /\ attempts[a].finished_at # NoTime
  /\ attempts[a].acquired <= attempts[a].finished_at
  /\ attempts[a].finished_at <= attempts[a].expires
  /\ attempts[a].finished_at <= now

\* The cron results are collected and decide the route.
RouterCollect(r) ==
  /\ router[r].pc = "collect"
  /\ LET a == router[r].attempt
         now == router[r].now
     IN  \/ a = NoAttempt /\ Goto(r, "reconcile")
         \/ a # NoAttempt /\ Matches(a, now) /\ Goto(r, "revalidate")
         \/ a # NoAttempt /\ ~Matches(a, now) /\ attempts[a].expires > now /\ Done(r)
         \/ a # NoAttempt /\ ~Matches(a, now) /\ attempts[a].expires <= now
              /\ Goto(r, "reconcile")
  /\ UNCHANGED <<ledger, ticker, board, clock>>

\* current_incident: a fresh read of the board.
RouterRevalidate(r) ==
  /\ router[r].pc = "revalidate"
  /\ Goto(r, IF router[r].attempt[1][1] \in board THEN "import" ELSE "resolve")
  /\ UNCHANGED <<ledger, ticker, board, clock>>

\* The row ends in a terminal the human is told of.
Ended(row, terminal) ==
  [row EXCEPT !.lifecycle = terminal, !.disposition = "resolved"]

\* import_manager_result and accept_manager_ack: the condition persists, so
\* the ACK makes the incident human_required and queues one notification.
\* The transaction checks the attempt and the incident again; when either
\* moved, it rolls back.  (Before it, import_manager_ack supersedes a leased
\* attempt whose incident it finds no longer waiting: WakeSentIffLeased says
\* that such an attempt is settled already, so that call changes nothing.)
RouterImport(r) ==
  /\ router[r].pc = "import"
  /\ LET a == router[r].attempt
         k == a[1]
     IN  \/ /\ Leased(a) /\ rows[k].lifecycle = "wake_sent"
            /\ attempts' = [attempts EXCEPT ![a] = Settled(@, "ack_valid")]
            /\ rows' = [rows EXCEPT ![k] = Ended(@, "human_required")]
            /\ intents' = intents \cup {<<k, "human_required">>}
         \/ /\ ~(Leased(a) /\ rows[k].lifecycle = "wake_sent")
            /\ UNCHANGED <<attempts, rows, intents>>
  /\ Done(r)
  /\ UNCHANGED <<used, tick_seq, heartbeat, last_wall, post_gap,
                 ticker, board, clock>>

\* resolve_manager_result: the condition is gone.  The attempt is superseded
\* and the incident resolved with its clean tick already recorded.
RouterResolve(r) ==
  /\ router[r].pc = "resolve"
  /\ LET a == router[r].attempt
         k == a[1]
     IN  \/ /\ Leased(a)
            /\ attempts' = [attempts EXCEPT ![a] = Settled(@, "superseded")]
            /\ rows' = [rows EXCEPT ![k] =
                 IF @.lifecycle = "wake_sent" THEN Resolved(@) ELSE @]
         \/ /\ ~Leased(a)
            /\ UNCHANGED <<attempts, rows>>
  /\ Done(r)
  /\ UNCHANGED <<used, intents, tick_seq, heartbeat, last_wall, post_gap,
                 ticker, board, clock>>

\* Mutants: an attempt expires whatever its state; one attempt too many; no
\* backoff.
Expired_AnyState(a, now) == attempts[a].state # "none" /\ attempts[a].expires <= now
IsLast_OneMore(n)        == n > MaxAttempts
RetryAt_Once(now)        == now

Expired(a, now) == Leased(a) /\ attempts[a].expires <= now
IsLast(n)       == n >= MaxAttempts
RetryAt(now)    == now + Backoff

Rescheduled(row, now) ==
  [row EXCEPT !.lifecycle = "detected", !.next_attempt_at = RetryAt(now)]

\* What the expired leases make of a row that waits for its manager.
Exhausted(k, now) ==
  /\ rows[k].lifecycle = "wake_sent"
  /\ \E n \in AttemptNo : Expired(<<k, n>>, now) /\ IsLast(n)
Retries(k, now) ==
  /\ rows[k].lifecycle = "wake_sent"
  /\ \E n \in AttemptNo : Expired(<<k, n>>, now) /\ ~IsLast(n)

\* lease_manager_incident, first transaction: refuse a clock that went back,
\* expire leases, schedule the retry or give up with a notification.
RouterReconcile(r) ==
  /\ router[r].pc = "reconcile"
  /\ LET now == router[r].now IN
       \/ /\ now < last_wall
          /\ Done(r)
          /\ UNCHANGED <<rows, attempts, intents, last_wall>>
       \/ /\ now >= last_wall
          /\ last_wall' = now
          /\ attempts' = [a \in Attempt |->
               IF Expired(a, now)
               THEN Settled(attempts[a], "expired")
               ELSE attempts[a]]
          /\ rows' = [k \in Key |->
               CASE Exhausted(k, now) -> Ended(rows[k], "dead_letter")
                 [] Retries(k, now) /\ ~Exhausted(k, now) -> Rescheduled(rows[k], now)
                 [] OTHER -> rows[k]]
          /\ intents' = intents \cup
               {<<k, "dead_letter">> : k \in {j \in Key : Exhausted(j, now)}}
          /\ Goto(r, "lease")
  /\ UNCHANGED <<used, tick_seq, heartbeat, post_gap, ticker, board, clock>>

\* Mutant: the acquisition time is compared instead of the expiry.
LeaseHeld_Acquired(now) == \E a \in Attempt : Leased(a) /\ attempts[a].acquired > now

LeaseHeld(now) == \E a \in Attempt : Leased(a) /\ attempts[a].expires > now

Eligible(k, now) ==
  /\ rows[k].lifecycle = "detected"
  /\ rows[k].disposition = "active"
  /\ rows[k].next_attempt_at <= now
  /\ rows[k].attempt_count < MaxAttempts

\* ORDER BY severity, first_tick, incident_id.
Precedes(j, k) ==
  \/ Severity[j[1]] < Severity[k[1]]
  \/ /\ Severity[j[1]] = Severity[k[1]]
     /\ \/ rows[j].first_tick < rows[k].first_tick
        \/ /\ rows[j].first_tick = rows[k].first_tick
           /\ IdOrder[j[1]] < IdOrder[k[1]]

Selected(k, now) ==
  /\ Eligible(k, now)
  /\ ~\E j \in Key : Eligible(j, now) /\ Precedes(j, k)

\* Mutants: off by one at the limit; a lease that ends before it starts.
BudgetLeft_OneMore(day) == used[day] <= DailyLimit
NewLease_Negative(now) ==
  [state |-> "leased", acquired |-> now, expires |-> now - LeaseSeconds - 1,
   finished_at |-> NoTime]

BudgetLeft(day) == used[day] < DailyLimit

Woken(row, n) == [row EXCEPT !.lifecycle = "wake_sent", !.attempt_count = n]

NewLease(now) ==
  [state |-> "leased", acquired |-> now, expires |-> now + LeaseSeconds,
   finished_at |-> NoTime]

\* lease_manager_incident, second transaction, with the same timestamp: at
\* most one lease, one attempt row and one unit of the day's budget.
RouterLease(r) ==
  /\ router[r].pc = "lease"
  /\ LET now == router[r].now
         day == DayOf(now)
     IN  \/ /\ \/ LeaseHeld(now)
               \/ ~\E k \in Key : Selected(k, now)
               \/ ~BudgetLeft(day)
            /\ UNCHANGED <<rows, attempts, used>>
         \/ /\ ~LeaseHeld(now)
            /\ BudgetLeft(day)
            /\ \E k \in Key :
                 LET n == rows[k].attempt_count + 1 IN
                 /\ Selected(k, now)
                 /\ attempts' = [attempts EXCEPT ![<<k, n>>] = NewLease(now)]
                 /\ used' = [used EXCEPT ![day] = @ + 1]
                 /\ rows' = [rows EXCEPT ![k] = Woken(@, n)]
  /\ Done(r)
  /\ UNCHANGED <<intents, tick_seq, heartbeat, last_wall, post_gap,
                 ticker, board, clock>>

\* The process dies between two transactions, or a collection fails or is
\* incomplete and the gate answers {"wakeAgent": false}.
RouterAbort(r) ==
  /\ router[r].pc # "idle"
  /\ Done(r)
  /\ UNCHANGED <<ledger, ticker, board, clock>>

-----------------------------------------------------------------------------
(* External: board, manager agent, clock *)

BoardChange(i) ==
  /\ board' = IF i \in board THEN board \ {i} ELSE board \cup {i}
  /\ UNCHANGED <<ledger, router, ticker, clock>>

\* The manager agent woken by an attempt ends with a valid ACK, in time or
\* late.  An agent that never answers, answers something else, or was never
\* started because the router died before printing the gate takes no step;
\* nor does an answer nobody can read any more, because the attempt is settled
\* and no router holds it.
ManagerFinish(a) ==
  /\ Leased(a) \/ \E r \in Router : router[r].attempt = a
  /\ attempts[a].finished_at = NoTime
  /\ attempts' = [attempts EXCEPT ![a].finished_at = clock]
  /\ UNCHANGED <<rows, used, intents, tick_seq, heartbeat, last_wall, post_gap,
                 router, ticker, board, clock>>

\* The clock moves on; a router lives at most MaxStall after its timestamp.
Advance ==
  /\ clock < MaxClock
  /\ \A r \in Router : router[r].pc # "idle" => clock < router[r].now + MaxStall
  /\ clock' = clock + 1
  /\ UNCHANGED <<ledger, router, ticker, board>>

-----------------------------------------------------------------------------
Tick(t) == TickStart(t) \/ TickCollect(t) \/ TickCommit(t) \/ TickAbort(t)

Route(r) ==
  \/ RouterStart(r) \/ RouterRead(r) \/ RouterCollect(r) \/ RouterRevalidate(r)
  \/ RouterImport(r) \/ RouterResolve(r) \/ RouterReconcile(r) \/ RouterLease(r)
  \/ RouterAbort(r)

Next ==
  \/ \E t \in Ticker : Tick(t)
  \/ \E r \in Router : Route(r)
  \/ \E i \in Incident : BoardChange(i)
  \/ \E a \in Attempt : ManagerFinish(a)
  \/ Advance

Spec == Init /\ [][Next]_vars

-----------------------------------------------------------------------------
(* Properties *)

\* Two routers never hold two manager leases at once, over all incidents
\* (MANAGER_WAKEUP.md: one manager lease globally), although the lease is
\* taken in a second transaction with a timestamp that may be stale.
AtMostOneLease ==
  \A a, b \in Attempt : Leased(a) /\ Leased(b) => a = b

\* An incident generation waits for a manager exactly while the attempt its
\* count names is leased: no interleaving of ticks, imports, expiries and
\* leases leaves an incident in wake_sent with nobody to answer for it, nor a
\* lease on an incident that moved on.
WakeSentIffLeased ==
  \A k \in Key :
    /\ rows[k].lifecycle = "wake_sent"
         => /\ rows[k].attempt_count \in AttemptNo
            /\ Leased(<<k, rows[k].attempt_count>>)
    /\ \A n \in AttemptNo : Leased(<<k, n>>)
         => rows[k].lifecycle = "wake_sent" /\ rows[k].attempt_count = n

\* A notification is queued exactly for the generations that ended in
\* human_required or dead_letter, with that terminal, and never for one that
\* resolved, whichever of the tick, the ACK and the expiry came first.
IntentIffNotifiable ==
  \A k \in Key, t \in Notifiable :
    <<k, t>> \in intents <=> rows[k].lifecycle = t

\* Generations of an incident follow each other: a generation opens only when
\* the one before it is terminal and closed, so ticks and late results never
\* act on two live generations of one incident.
OneOpenGeneration ==
  \A k \in Key : Present(k) =>
    \A g \in Generation : g < k[2] =>
      rows[<<k[1], g>>].lifecycle \in Terminal /\ rows[<<k[1], g>>].clean_tick

\* An attempt whose ACK was accepted finished inside its own lease, and its
\* generation is the one it made human_required, by its last attempt: a late
\* or stale result never decides anything.
AckWithinLease ==
  \A a \in Attempt : attempts[a].state = "ack_valid" =>
    /\ attempts[a].acquired <= attempts[a].finished_at
    /\ attempts[a].finished_at <= attempts[a].expires
    /\ rows[a[1]].lifecycle = "human_required"
    /\ rows[a[1]].attempt_count = a[2]

\* The second manager of a generation starts no earlier than the backoff
\* after the first one's lease ended, and only after that lease expired
\* without an answer.
RetryAfterBackoff ==
  \A k \in Key, n \in AttemptNo :
    n > 1 /\ attempts[<<k, n>>].state # "none" =>
      /\ attempts[<<k, n - 1>>].state = "expired"
      /\ attempts[<<k, n>>].acquired >= attempts[<<k, n - 1>>].expires + Backoff

\* The budget row of a day counts the attempts leased with a timestamp of
\* that day, no more and no fewer, and never exceeds the limit.
BudgetCountsAttempts ==
  \A d \in Day :
    /\ used[d] = Cardinality({a \in Attempt : /\ attempts[a].state # "none"
                                              /\ DayOf(attempts[a].acquired) = d})
    /\ used[d] <= DailyLimit

\* A wake is spent only on a condition seen in Persistence consecutive
\* committed ticks of this generation.
WakesArePersistent ==
  \A k \in Key : rows[k].attempt_count > 0 =>
    /\ rows[k].observed_ticks >= Persistence
    /\ rows[k].observed_ticks = rows[k].last_tick - rows[k].first_tick + 1

\* An attempt that is no longer leased never changes state again, and a
\* lease is never extended.
SettledAttemptIsFinal ==
  [][\A a \in Attempt :
       /\ attempts[a].state \notin {"none", "leased"}
            => attempts'[a].state = attempts[a].state
       /\ attempts[a].state # "none"
            => attempts'[a].expires = attempts[a].expires]_vars

\* What MANAGER_WAKEUP.md says of recurrence: a new generation means that a
\* committed tick in between did not see the condition.
RecurrenceNeedsCleanTick ==
  \A k \in Key : k[2] > 1 /\ Present(k) =>
    rows[k].first_tick > rows[<<k[1], k[2] - 1>>].last_tick + 1

\* What MANAGER_WAKEUP.md says of a gap: while the last committed tick is the
\* first one after a gap, no manager is woken.
NoWakeOnPostGapTick ==
  [][\A k \in Key : rows[k].lifecycle = "detected" /\ rows'[k].lifecycle = "wake_sent"
       => ~post_gap]_vars

\* The ledger implements the promised lifecycle.
Promised == INSTANCE IncidentLifecycle
  WITH stage    <- [k \in Key |-> rows[k].lifecycle],
       wakes    <- [k \in Key |-> rows[k].attempt_count],
       notified <- {k \in Key : \E t \in Notifiable : <<k, t>> \in intents}

\* Seen through its incidents, every behaviour of the ledger is one of the
\* promised lifecycle: one manager at work over all incidents, retries only
\* while attempts remain, dead_letter only when none does, one end per
\* generation, and a notification exactly for the ends that are not resolved.
ImplementsLifecycle == Promised!ASpec

=============================================================================
