--------------------------- MODULE WakeLedgerProofs ---------------------------
(***************************************************************************)
(* Theorems about WakeLedger, for every set of incidents, routers and      *)
(* tickers, every policy and every bound.                                  *)
(***************************************************************************)
EXTENDS WakeLedger, TLAPS

-----------------------------------------------------------------------------
(* Types of the records the transactions write *)

\* The day of a timestamp is a row of the budget table.
LEMMA DayTyped == ASSUME NEW t \in Time PROVE DayOf(t) \in Day
  BY PolicyAssumption, BoundAssumption, SMTT(30) DEF DayOf, Day, Time

\* The initial records have their types.
LEMMA BlanksTyped ==
  /\ NoRow \in Row
  /\ NoAttemptRow \in AttemptRow
  /\ RouterIdle \in RouterState
  /\ TickerIdle \in TickerState
  <1>1. NoRow \in Row
    BY PolicyAssumption DEF NoRow, Row, Lifecycle, Disposition
  <1>2. NoAttemptRow \in AttemptRow
    BY DEF NoAttemptRow, AttemptRow, Time, NoTime
  <1>3. RouterIdle \in RouterState
    BY BoundAssumption DEF RouterIdle, RouterState, RouterPC, Time
  <1>4. TickerIdle \in TickerState
    BY BoundAssumption DEF TickerIdle, TickerState, Time
  <1>5. QED BY <1>1, <1>2, <1>3, <1>4

\* What a tick makes of a row is a row.
LEMMA TickRowsTyped ==
  ASSUME NEW row \in Row, NEW seq \in Nat, NEW gap \in BOOLEAN
  PROVE  /\ Opened(seq, gap) \in Row
         /\ Renewed(row, seq, gap) \in Row
         /\ Cleared(row) \in Row
  <1>1. Opened(seq, gap) \in Row
    BY BlanksTyped DEF Opened, DispositionOf, Row, Lifecycle, Disposition
  <1>2. Renewed(row, seq, gap) \in Row
    <2> DEFINE n == IF row.last_tick = seq - 1 THEN row.observed_ticks + 1 ELSE 1
    <2>1. n \in Nat
      BY DEF Row
    <2>2. DispositionOf(n, gap) \in Disposition
      BY DEF DispositionOf, Disposition
    <2>3. QED BY <2>1, <2>2 DEF Renewed, Row
  <1>3. Cleared(row) \in Row
    BY DEF Cleared, Resolved, Row, Lifecycle, Disposition, Terminal
  <1>4. QED BY <1>1, <1>2, <1>3

\* What a router makes of a row is a row.
LEMMA RouterRowsTyped ==
  ASSUME NEW row \in Row, NEW now \in Time
  PROVE  /\ Ended(row, "human_required") \in Row
         /\ Ended(row, "dead_letter") \in Row
         /\ Resolved(row) \in Row
         /\ Rescheduled(row, now) \in Row
  <1>1. /\ Ended(row, "human_required") \in Row
        /\ Ended(row, "dead_letter") \in Row
    BY DEF Ended, Row, Lifecycle, Disposition, Terminal
  <1>2. Resolved(row) \in Row
    BY DEF Resolved, Row, Lifecycle, Disposition, Terminal
  <1>3. Rescheduled(row, now) \in Row
    <2>1. RetryAt(now) \in Nat
      BY PolicyAssumption DEF RetryAt, Time
    <2>2. QED BY <2>1 DEF Rescheduled, Row, Lifecycle
  <1>4. QED BY <1>1, <1>2, <1>3

\* A woken row is a row.
LEMMA WokenTyped ==
  ASSUME NEW row \in Row, NEW n \in AttemptNo
  PROVE  Woken(row, n) \in Row
  <1>1. n \in 0..MaxAttempts
    BY PolicyAssumption DEF AttemptNo
  <1>2. QED BY <1>1 DEF Woken, Row, Lifecycle

\* A settled attempt keeps its type.
LEMMA SettledTyped ==
  ASSUME NEW att \in AttemptRow
  PROVE  /\ Settled(att, "ack_valid") \in AttemptRow
         /\ Settled(att, "expired") \in AttemptRow
         /\ Settled(att, "superseded") \in AttemptRow
  BY DEF Settled, AttemptRow

\* The initial state is well typed.
LEMMA InitTyped == Init => TypeOK
  <1> SUFFICES ASSUME Init PROVE TypeOK
    OBVIOUS
  <1>1. rows \in [Key -> Row] /\ attempts \in [Attempt -> AttemptRow]
    BY BlanksTyped DEF Init
  <1>2. router \in [Router -> RouterState] /\ ticker \in [Ticker -> TickerState]
    BY BlanksTyped DEF Init
  <1>3. \A r \in Router : router[r].pc = "idle"
    BY DEF Init, RouterIdle
  <1>4. clock \in Time
    BY BoundAssumption DEF Init, Time
  <1>5. used \in [Day -> Nat]
    BY DEF Init
  <1>6. QED BY <1>1, <1>2, <1>3, <1>4, <1>5 DEF Init, TypeOK

-----------------------------------------------------------------------------
(* Type correctness, one lemma per program *)

\* The steps of a tick are well typed.
LEMMA TickTyped ==
  ASSUME TypeOK, NEW t \in Ticker, Tick(t)
  PROVE  TypeOK'
  <1>1. CASE TickStart(t)
    BY <1>1 DEF TickStart, TypeOK, ledger, TickerState
  <1>2. CASE TickCollect(t)
    BY <1>2 DEF TickCollect, TypeOK, ledger, TickerState
  <1>3. CASE TickCommit(t)
    <2> DEFINE me == ticker[t]
    <2>1. me.seq \in Nat /\ me.now \in Time /\ me.gap \in BOOLEAN
      BY DEF TypeOK, TickerState
    <2>2. CASE tick_seq = me.seq - 1
      <3>1. rows' \in [Key -> Row]
        <4>1. rows' = [k \in Key |-> Observed(k, me.seen, me.seq, me.gap)]
          BY <1>3, <2>2 DEF TickCommit
        <4>2. ASSUME NEW k \in Key PROVE Observed(k, me.seen, me.seq, me.gap) \in Row
          <5>1. rows[k] \in Row
            BY DEF TypeOK
          <5>2. QED BY <2>1, <5>1, TickRowsTyped DEF Observed
        <4>3. QED BY <4>1, <4>2
      <3>2. attempts' \in [Attempt -> AttemptRow]
        BY <1>3, <2>2, SettledTyped DEF TickCommit, TypeOK
      <3>3. QED
        BY <1>3, <2>1, <2>2, <3>1, <3>2, BlanksTyped DEF TickCommit, TypeOK
    <2>3. CASE tick_seq # me.seq - 1
      BY <1>3, <2>3, BlanksTyped DEF TickCommit, TypeOK
    <2>4. QED BY <2>2, <2>3
  <1>4. CASE TickAbort(t)
    BY <1>4, BlanksTyped DEF TickAbort, TypeOK, ledger
  <1>5. QED BY <1>1, <1>2, <1>3, <1>4 DEF Tick

\* The part of TypeOK that speaks of the routers.
RouterTyped ==
  /\ router \in [Router -> RouterState]
  /\ \A q \in Router : router[q].pc \in {"revalidate", "import", "resolve"}
                        => router[q].attempt \in Attempt

\* A router that is done is idle again and the others are as they were.
LEMMA DoneTyped ==
  ASSUME RouterTyped, NEW r \in Router, Done(r)
  PROVE  RouterTyped'
  BY BlanksTyped DEF RouterTyped, Done, RouterIdle

\* The attempt row of a new lease has its type.
LEMMA LeaseTyped == ASSUME NEW now \in Time PROVE NewLease(now) \in AttemptRow
  BY PolicyAssumption DEF NewLease, AttemptRow, Time

\* Router r takes the lease on k: the second branch of RouterLease, for the
\* witness k.
Leases(r, k) ==
  LET now == router[r].now
      n   == rows[k].attempt_count + 1
  IN  /\ ~LeaseHeld(now)
      /\ Selected(k, now)
      /\ attempts' = [attempts EXCEPT ![<<k, n>>] = NewLease(now)]
      /\ used' = [used EXCEPT ![DayOf(now)] = @ + 1]
      /\ rows' = [rows EXCEPT ![k] = Woken(@, n)]

\* The second transaction leases one row or writes nothing.
LEMMA LeaseCases ==
  ASSUME NEW r \in Router, RouterLease(r)
  PROVE  \/ UNCHANGED <<rows, attempts, used>>
         \/ \E k \in Key : Leases(r, k)
  BY DEF RouterLease, Leases

\* The steps of a router are well typed.
LEMMA RouteTyped ==
  ASSUME TypeOK, NEW r \in Router, Route(r)
  PROVE  TypeOK'
  <1>1. CASE RouterStart(r)
    BY <1>1 DEF RouterStart, TypeOK, ledger, RouterState, RouterPC
  <1>2. CASE RouterRead(r)
    BY <1>2 DEF RouterRead, TypeOK, ledger, RouterState, RouterPC, Goto
  <1>3. CASE RouterCollect(r)
    BY <1>3, BlanksTyped DEF RouterCollect, TypeOK, ledger, RouterState, RouterPC,
       Goto, Done, RouterIdle
  <1>4. CASE RouterRevalidate(r)
    BY <1>4 DEF RouterRevalidate, TypeOK, ledger, RouterState, RouterPC, Goto
  <1>5. CASE RouterImport(r)
    <2> DEFINE a == router[r].attempt
               k == a[1]
    <2>0. router[r].now \in Time
      BY DEF TypeOK, RouterState
    <2>1. a \in Attempt /\ k \in Key
      BY <1>5 DEF RouterImport, TypeOK, Attempt
    <2>2. rows' \in [Key -> Row]
      BY <1>5, <2>1, RouterRowsTyped, <2>0 DEF RouterImport, TypeOK
    <2>3. attempts' \in [Attempt -> AttemptRow]
      BY <1>5, <2>1, SettledTyped DEF RouterImport, TypeOK
    <2>4. intents' \subseteq Key \X Notifiable
      BY <1>5, <2>1 DEF RouterImport, TypeOK, Notifiable
    <2>5. QED
      BY <1>5, <2>2, <2>3, <2>4, DoneTyped DEF RouterImport, TypeOK, RouterTyped
  <1>6. CASE RouterResolve(r)
    <2> DEFINE a == router[r].attempt
               k == a[1]
    <2>0. router[r].now \in Time
      BY DEF TypeOK, RouterState
    <2>1. a \in Attempt /\ k \in Key
      BY <1>6 DEF RouterResolve, TypeOK, Attempt
    <2>2. rows' \in [Key -> Row]
      BY <1>6, <2>1, RouterRowsTyped, <2>0 DEF RouterResolve, TypeOK
    <2>3. attempts' \in [Attempt -> AttemptRow]
      BY <1>6, <2>1, SettledTyped DEF RouterResolve, TypeOK
    <2>4. QED
      BY <1>6, <2>2, <2>3, DoneTyped DEF RouterResolve, TypeOK, RouterTyped
  <1>7. CASE RouterReconcile(r)
    <2> DEFINE now == router[r].now
    <2>1. now \in Time
      BY DEF TypeOK, RouterState
    <2> DEFINE Refused ==
                 /\ now < last_wall
                 /\ Done(r)
                 /\ UNCHANGED <<rows, attempts, intents, last_wall>>
               Ran ==
                 /\ last_wall' = now
                 /\ attempts' = [a \in Attempt |->
                      IF Expired(a, now) THEN Settled(attempts[a], "expired")
                                         ELSE attempts[a]]
                 /\ rows' = [k \in Key |->
                      CASE Exhausted(k, now) -> Ended(rows[k], "dead_letter")
                        [] Retries(k, now) /\ ~Exhausted(k, now) -> Rescheduled(rows[k], now)
                        [] OTHER -> rows[k]]
                 /\ intents' = intents \cup
                      {<<k, "dead_letter">> : k \in {j \in Key : Exhausted(j, now)}}
                 /\ Goto(r, "lease")
    <2>2. CASE Refused
      BY <1>7, <2>1, <2>2, DoneTyped DEF RouterReconcile, TypeOK, RouterTyped
    <2>3. CASE Ran
      <3>2. rows' \in [Key -> Row]
        <4>1. \A k \in Key : rows'[k] \in Row
          BY <2>1, <2>3, RouterRowsTyped DEF TypeOK
        <4>2. QED BY <2>3, <4>1
      <3>3. attempts' \in [Attempt -> AttemptRow]
        <4>1. \A a \in Attempt : attempts'[a] \in AttemptRow
          BY <2>3, SettledTyped DEF TypeOK
        <4>2. QED BY <2>3, <4>1
      <3>4. intents' \subseteq Key \X Notifiable
        BY <2>3 DEF TypeOK, Notifiable
      <3>5. RouterTyped'
        BY <2>3 DEF TypeOK, RouterTyped, Goto, RouterState, RouterPC
      <3>6. last_wall' \in Time
        BY <2>1, <2>3
      <3> HIDE DEF Ran
      <3>7. QED
        BY <1>7, <3>2, <3>3, <3>4, <3>5, <3>6 DEF RouterReconcile, TypeOK, RouterTyped
    <2>4. Refused \/ Ran
      BY <1>7 DEF RouterReconcile
    <2>5. QED BY <2>2, <2>3, <2>4
  <1>8. CASE RouterLease(r)
    <2> DEFINE now == router[r].now
    <2>1. now \in Time /\ DayOf(now) \in Day
      BY DayTyped DEF TypeOK, RouterState
    <2>2. CASE UNCHANGED <<rows, attempts, used>>
      BY <1>8, <2>2, DoneTyped DEF RouterLease, TypeOK, RouterTyped
    <2>3. ASSUME NEW k \in Key, Leases(r, k) PROVE TypeOK'
      <3> DEFINE n == rows[k].attempt_count + 1
      <3>1. n \in AttemptNo
        BY <2>3, PolicyAssumption DEF Leases, Selected, Eligible, TypeOK, Row, AttemptNo
      <3>2. rows' \in [Key -> Row]
        BY <2>3, <3>1, WokenTyped DEF Leases, TypeOK
      <3>3. attempts' \in [Attempt -> AttemptRow]
        BY <2>1, <2>3, <3>1, LeaseTyped DEF Leases, TypeOK, Attempt
      <3>4. used' \in [Day -> Nat]
        BY <2>1, <2>3 DEF Leases, TypeOK
      <3>5. QED
        BY <1>8, <3>2, <3>3, <3>4, DoneTyped DEF RouterLease, TypeOK, RouterTyped
    <2>4. QED BY <1>8, <2>2, <2>3, LeaseCases
  <1>9. CASE RouterAbort(r)
    BY <1>9, BlanksTyped DEF RouterAbort, TypeOK, ledger, Done, RouterIdle
  <1>10. QED
    BY <1>1, <1>2, <1>3, <1>4, <1>5, <1>6, <1>7, <1>8, <1>9 DEF Route

\* The steps of the board, the manager and the clock are well typed.
LEMMA EnvironmentTyped ==
  ASSUME TypeOK,
         \/ \E i \in Incident : BoardChange(i)
         \/ \E a \in Attempt : ManagerFinish(a)
         \/ Advance
  PROVE  TypeOK'
  <1>1. ASSUME NEW i \in Incident, BoardChange(i) PROVE TypeOK'
    BY <1>1 DEF BoardChange, TypeOK, ledger
  <1>2. ASSUME NEW a \in Attempt, ManagerFinish(a) PROVE TypeOK'
    BY <1>2 DEF ManagerFinish, TypeOK, AttemptRow
  <1>3. CASE Advance
    BY <1>3, BoundAssumption DEF Advance, TypeOK, ledger, Time
  <1>4. QED BY <1>1, <1>2, <1>3

\* Every step keeps the types.
LEMMA TypedNext == ASSUME TypeOK, [Next]_vars PROVE TypeOK'
  <1>1. CASE \E t \in Ticker : Tick(t)
    BY <1>1, TickTyped
  <1>2. CASE \E r \in Router : Route(r)
    BY <1>2, RouteTyped
  <1>3. CASE \/ \E i \in Incident : BoardChange(i)
             \/ \E a \in Attempt : ManagerFinish(a)
             \/ Advance
    BY <1>3, EnvironmentTyped
  <1>4. CASE UNCHANGED vars
    BY <1>4 DEF vars, TypeOK
  <1>5. QED BY <1>1, <1>2, <1>3, <1>4 DEF Next

\* Every reachable state of the ledger and of its programs is well typed.
THEOREM TypeCorrect == Spec => []TypeOK
  BY InitTyped, TypedNext, PTL DEF Spec

-----------------------------------------------------------------------------
(* Rows and leases agree *)

\* What every transaction does to the two fields the agreement is about.
LEMMA RowFields ==
  ASSUME NEW row \in Row, NEW seq \in Nat, NEW gap \in BOOLEAN, NEW now \in Time,
         NEW n \in AttemptNo
  PROVE  /\ Opened(seq, gap).lifecycle = "detected"
         /\ Renewed(row, seq, gap).lifecycle = row.lifecycle
         /\ Renewed(row, seq, gap).attempt_count = row.attempt_count
         /\ row.lifecycle \in Terminal => Cleared(row).lifecycle = row.lifecycle
         /\ row.lifecycle \notin Terminal => Cleared(row).lifecycle = "resolved"
         /\ Resolved(row).lifecycle = "resolved"
         /\ Ended(row, "human_required").lifecycle = "human_required"
         /\ Ended(row, "dead_letter").lifecycle = "dead_letter"
         /\ Rescheduled(row, now).lifecycle = "detected"
         /\ Woken(row, n).lifecycle = "wake_sent"
         /\ Woken(row, n).attempt_count = n
  <1>1. Opened(seq, gap).lifecycle = "detected"
    BY DEF Opened, NoRow
  <1>2. /\ Renewed(row, seq, gap).lifecycle = row.lifecycle
        /\ Renewed(row, seq, gap).attempt_count = row.attempt_count
    BY DEF Renewed, Row
  <1>3. /\ row.lifecycle \in Terminal => Cleared(row).lifecycle = row.lifecycle
        /\ row.lifecycle \notin Terminal => Cleared(row).lifecycle = "resolved"
        /\ Resolved(row).lifecycle = "resolved"
    BY DEF Cleared, Resolved, Row
  <1>4. /\ Ended(row, "human_required").lifecycle = "human_required"
        /\ Ended(row, "dead_letter").lifecycle = "dead_letter"
    BY DEF Ended, Row
  <1>5. Rescheduled(row, now).lifecycle = "detected"
    BY DEF Rescheduled, Row
  <1>6. Woken(row, n).lifecycle = "wake_sent" /\ Woken(row, n).attempt_count = n
    BY DEF Woken, Row
  <1>7. QED BY <1>1, <1>2, <1>3, <1>4, <1>5, <1>6

\* A settled attempt is in the state it was settled in; a new lease is leased.
LEMMA AttemptFields ==
  ASSUME NEW att \in AttemptRow, NEW now
  PROVE  /\ Settled(att, "ack_valid").state = "ack_valid"
         /\ Settled(att, "expired").state = "expired"
         /\ Settled(att, "superseded").state = "superseded"
         /\ NewLease(now).state = "leased"
         /\ NewLease(now).expires = now + LeaseSeconds
  BY DEF Settled, AttemptRow, NewLease

\* The agreement for one generation; WakeSentIffLeased is this for each.
Agrees(k) ==
  /\ rows[k].lifecycle = "wake_sent"
       => /\ rows[k].attempt_count \in AttemptNo
          /\ Leased(<<k, rows[k].attempt_count>>)
  /\ \A n \in AttemptNo : Leased(<<k, n>>)
       => rows[k].lifecycle = "wake_sent" /\ rows[k].attempt_count = n

\* The invariant is the agreement of every generation.
LEMMA AgreesEverywhere == WakeSentIffLeased <=> \A k \in Key : Agrees(k)
  BY DEF WakeSentIffLeased, Agrees

\* A generation whose row and leases a step leaves alone still agrees.
LEMMA AgreesUntouched ==
  ASSUME NEW k \in Key, Agrees(k),
         rows'[k].lifecycle = rows[k].lifecycle,
         rows'[k].attempt_count = rows[k].attempt_count,
         \A n \in AttemptNo : attempts'[<<k, n>>].state = attempts[<<k, n>>].state
  PROVE  Agrees(k)'
  BY DEF Agrees, Leased

\* A generation that no longer waits agrees when no lease is left on it.
LEMMA AgreesNotWaiting ==
  ASSUME NEW k \in Key, rows'[k].lifecycle # "wake_sent",
         \A n \in AttemptNo : attempts'[<<k, n>>].state # "leased"
  PROVE  Agrees(k)'
  BY DEF Agrees, Leased

\* A tick keeps rows and leases in agreement: it supersedes the leases of
\* exactly the waiting rows it resolves.
LEMMA TickAgrees ==
  ASSUME TypeOK, WakeSentIffLeased, NEW t \in Ticker, Tick(t)
  PROVE  WakeSentIffLeased'
  <1> SUFFICES ASSUME NEW k \in Key PROVE Agrees(k)'
    BY DEF WakeSentIffLeased, Agrees
  <1>1. Agrees(k)
    BY AgreesEverywhere
  <1>2. CASE UNCHANGED <<rows, attempts>>
    BY <1>1, <1>2, AgreesUntouched
  <1>3. CASE TickCommit(t) /\ tick_seq = ticker[t].seq - 1
    <2> DEFINE me == ticker[t]
               i  == k[1]
    <2>1. me.seq \in Nat /\ me.gap \in BOOLEAN /\ rows[k] \in Row
      BY DEF TypeOK, TickerState
    <2>2. rows'[k] = Observed(k, me.seen, me.seq, me.gap)
      BY <1>3 DEF TickCommit
    <2>3. \A n \in AttemptNo :
            /\ <<k, n>> \in Attempt
            /\ attempts[<<k, n>>] \in AttemptRow
            /\ attempts'[<<k, n>>] = IF Supersedes(<<k, n>>, me.seen)
                                     THEN Settled(attempts[<<k, n>>], "superseded")
                                     ELSE attempts[<<k, n>>]
      BY <1>3 DEF TickCommit, TypeOK, Attempt
    <2>4. CASE i \in me.seen /\ Opens(k)
      <3>1. rows[k].lifecycle = "absent"
        <4>1. k = <<k[1], k[2]>> /\ k[2] \in Generation /\ k[2] \in Int
          BY DEF Key, Generation
        <4>2. CASE \A g \in Generation : ~Present(<<k[1], g>>)
          BY <4>1, <4>2 DEF Present
        <4>3. CASE k[2] > 1 /\ IsLatest(<<k[1], k[2] - 1>>)
          <5>1. ~Present(<<k[1], k[2]>>)
            BY <4>1, <4>3 DEF IsLatest
          <5>2. QED BY <4>1, <5>1 DEF Present
        <4>4. QED BY <2>4, <4>2, <4>3 DEF Opens
      <3>2. rows'[k].lifecycle = "detected"
        <4>1. rows'[k] = Opened(me.seq, me.gap)
          BY <2>2, <2>4, <3>1 DEF Observed, Continues, IsLatest, Present
        <4>2. Opened(me.seq, me.gap).lifecycle = "detected"
          BY DEF Opened, NoRow
        <4>3. QED BY <4>1, <4>2
      <3>3. \A n \in AttemptNo : attempts'[<<k, n>>].state # "leased"
        BY <1>1, <2>3, <3>1, <2>4 DEF Agrees, Leased, Supersedes
      <3>4. QED BY <3>2, <3>3, AgreesNotWaiting
    <2>5. CASE i \in me.seen /\ ~Opens(k) /\ Continues(k)
      <3>1. rows'[k] = Renewed(rows[k], me.seq, me.gap)
        BY <2>2, <2>5 DEF Observed
      <3>2. \A n \in AttemptNo : attempts'[<<k, n>>] = attempts[<<k, n>>]
        BY <2>3, <2>5 DEF Supersedes
      <3>3. /\ rows'[k].lifecycle = rows[k].lifecycle
            /\ rows'[k].attempt_count = rows[k].attempt_count
        BY <2>1, <3>1 DEF Renewed, Row
      <3>4. QED BY <1>1, <3>2, <3>3, AgreesUntouched
    <2>6. CASE i \notin me.seen /\ IsOpen(k) /\ rows[k].lifecycle \in Terminal
      <3>1. rows'[k] = Cleared(rows[k])
        BY <2>2, <2>6 DEF Observed
      <3>2. \A n \in AttemptNo : attempts'[<<k, n>>] = attempts[<<k, n>>]
        BY <2>3, <2>6 DEF Supersedes
      <3>3. /\ rows'[k].lifecycle = rows[k].lifecycle
            /\ rows'[k].attempt_count = rows[k].attempt_count
        BY <2>1, <2>6, <3>1 DEF Cleared, Row
      <3>4. QED BY <1>1, <3>2, <3>3, AgreesUntouched
    <2>7. CASE i \notin me.seen /\ IsOpen(k) /\ rows[k].lifecycle \notin Terminal
      <3>1. rows'[k].lifecycle = "resolved"
        BY <2>1, <2>2, <2>7 DEF Observed, Cleared, Resolved, Row
      <3>2. \A n \in AttemptNo : attempts'[<<k, n>>].state # "leased"
        BY <2>3, <2>7, AttemptFields DEF Supersedes, Leased
      <3>3. QED BY <3>1, <3>2, AgreesNotWaiting
    <2>8. CASE /\ ~(i \in me.seen /\ Opens(k))
               /\ ~(i \in me.seen /\ Continues(k))
               /\ ~(i \notin me.seen /\ IsOpen(k))
      <3>1. rows'[k] = rows[k]
        BY <2>2, <2>8 DEF Observed
      <3>2. \A n \in AttemptNo : attempts'[<<k, n>>] = attempts[<<k, n>>]
        BY <2>3, <2>8 DEF Supersedes
      <3>3. QED BY <1>1, <3>1, <3>2, AgreesUntouched
    <2>9. QED BY <2>4, <2>5, <2>6, <2>7, <2>8
  <1>4. \/ UNCHANGED <<rows, attempts>>
        \/ TickCommit(t) /\ tick_seq = ticker[t].seq - 1
    <2>1. CASE TickCommit(t)
      BY <2>1 DEF TickCommit
    <2>2. CASE TickStart(t) \/ TickCollect(t) \/ TickAbort(t)
      BY <2>2 DEF TickStart, TickCollect, TickAbort, ledger
    <2>3. QED BY <2>1, <2>2 DEF Tick
  <1>5. QED BY <1>2, <1>3, <1>4

\* A router keeps rows and leases in agreement.
LEMMA RouteAgrees ==
  ASSUME TypeOK, WakeSentIffLeased, NEW r \in Router, Route(r)
  PROVE  WakeSentIffLeased'
  <1> SUFFICES ASSUME NEW k \in Key PROVE Agrees(k)'
    BY DEF WakeSentIffLeased, Agrees
  <1> DEFINE a   == router[r].attempt
             now == router[r].now
  <1>0. now \in Time /\ rows[k] \in Row
    BY DEF TypeOK, RouterState
  <1>1. Agrees(k)
    BY AgreesEverywhere
  <1>2. CASE UNCHANGED <<rows, attempts>>
    BY <1>1, <1>2, AgreesUntouched
  <1>3. ASSUME a \in Attempt, Leased(a), rows[a[1]].lifecycle = "wake_sent",
               NEW s \in {"ack_valid", "superseded"},
               attempts' = [attempts EXCEPT ![a] = Settled(@, s)],
               \A j \in Key \ {a[1]} : rows'[j] = rows[j],
               rows'[a[1]].lifecycle # "wake_sent"
        PROVE  Agrees(k)'
    <2>1. a = <<a[1], a[2]>> /\ a[1] \in Key /\ a[2] \in AttemptNo
      BY <1>3 DEF Attempt
    <2>2. Settled(attempts[a], s).state = s
      BY <1>3, AttemptFields DEF TypeOK
    <2>3. CASE k = a[1]
      <3>1. \A n \in AttemptNo : attempts'[<<k, n>>].state # "leased"
        <4> SUFFICES ASSUME NEW n \in AttemptNo PROVE attempts'[<<k, n>>].state # "leased"
          OBVIOUS
        <4>1. CASE n = a[2]
          BY <1>3, <2>1, <2>2, <2>3, <4>1 DEF TypeOK
        <4>2. CASE n # a[2]
          <5>1. attempts'[<<k, n>>] = attempts[<<k, n>>]
            BY <1>3, <2>1, <2>3, <4>2 DEF TypeOK, Attempt
          <5>2. ~Leased(<<k, n>>)
            BY <1>1, <1>3, <2>1, <2>3, <4>2 DEF Agrees
          <5>3. QED BY <5>1, <5>2 DEF Leased
        <4>3. QED BY <4>1, <4>2
      <3>2. QED BY <1>3, <2>3, <3>1, AgreesNotWaiting
    <2>4. CASE k # a[1]
      <3>1. \A n \in AttemptNo : attempts'[<<k, n>>] = attempts[<<k, n>>]
        BY <1>3, <2>1, <2>4 DEF TypeOK, Attempt
      <3>2. rows'[k] = rows[k]
        BY <1>3, <2>4
      <3>3. QED BY <1>1, <3>1, <3>2, AgreesUntouched
    <2>5. QED BY <2>3, <2>4
  <1>4. CASE RouterImport(r)
    <2>1. a \in Attempt /\ a[1] \in Key
      BY <1>4 DEF RouterImport, TypeOK, Attempt
    <2>2. CASE Leased(a) /\ rows[a[1]].lifecycle = "wake_sent"
      <3>1. /\ attempts' = [attempts EXCEPT ![a] = Settled(@, "ack_valid")]
            /\ rows' = [rows EXCEPT ![a[1]] = Ended(@, "human_required")]
        BY <1>4, <2>2 DEF RouterImport
      <3>2. Ended(rows[a[1]], "human_required").lifecycle = "human_required"
        BY <2>1 DEF Ended, Row, TypeOK
      <3>3. QED BY <1>3, <2>1, <2>2, <3>1, <3>2 DEF TypeOK
    <2>3. CASE ~(Leased(a) /\ rows[a[1]].lifecycle = "wake_sent")
      BY <1>2, <1>4, <2>3 DEF RouterImport
    <2>4. QED BY <2>2, <2>3
  <1>5. CASE RouterResolve(r)
    <2>1. a \in Attempt /\ a[1] \in Key
      BY <1>5 DEF RouterResolve, TypeOK, Attempt
    <2>2. CASE Leased(a)
      <3>1. rows[a[1]].lifecycle = "wake_sent"
        <4>1. a = <<a[1], a[2]>> /\ a[2] \in AttemptNo
          BY <2>1 DEF Attempt
        <4>2. Agrees(a[1])
          BY <2>1, AgreesEverywhere
        <4>3. QED BY <2>2, <4>1, <4>2 DEF Agrees
      <3>2. /\ attempts' = [attempts EXCEPT ![a] = Settled(@, "superseded")]
            /\ rows' = [rows EXCEPT ![a[1]] = Resolved(@)]
        BY <1>5, <2>2, <3>1 DEF RouterResolve
      <3>3. Resolved(rows[a[1]]).lifecycle = "resolved"
        BY <2>1 DEF Resolved, Row, TypeOK
      <3>4. QED BY <1>3, <2>1, <2>2, <3>1, <3>2, <3>3 DEF TypeOK
    <2>3. CASE ~Leased(a)
      BY <1>2, <1>5, <2>3 DEF RouterResolve
    <2>4. QED BY <2>2, <2>3
  <1>6. CASE RouterReconcile(r) /\ now >= last_wall
    <2>0. /\ attempts' = [b \in Attempt |->
               IF Expired(b, now) THEN Settled(attempts[b], "expired") ELSE attempts[b]]
          /\ rows' = [j \in Key |->
               CASE Exhausted(j, now) -> Ended(rows[j], "dead_letter")
                 [] Retries(j, now) /\ ~Exhausted(j, now) -> Rescheduled(rows[j], now)
                 [] OTHER -> rows[j]]
      <3>1. now \in Int /\ last_wall \in Int
        BY <1>0 DEF TypeOK, Time, NoTime
      <3>2. ~(now < last_wall)
        BY <1>6, <3>1
      <3>3. QED BY <1>6, <3>2 DEF RouterReconcile
    <2>1. \A n \in AttemptNo :
            /\ <<k, n>> \in Attempt
            /\ attempts[<<k, n>>] \in AttemptRow
            /\ attempts'[<<k, n>>] = IF Expired(<<k, n>>, now)
                                     THEN Settled(attempts[<<k, n>>], "expired")
                                     ELSE attempts[<<k, n>>]
      BY <2>0 DEF TypeOK, Attempt
    <2>2. rows'[k] = CASE Exhausted(k, now) -> Ended(rows[k], "dead_letter")
                       [] Retries(k, now) /\ ~Exhausted(k, now) -> Rescheduled(rows[k], now)
                       [] OTHER -> rows[k]
      BY <2>0
    <2>3. CASE Exhausted(k, now) \/ Retries(k, now)
      <3>1. rows'[k].lifecycle \in {"dead_letter", "detected"}
        <4>1. /\ Ended(rows[k], "dead_letter").lifecycle = "dead_letter"
              /\ Rescheduled(rows[k], now).lifecycle = "detected"
          BY <1>0 DEF Ended, Rescheduled, Row
        <4>2. CASE Exhausted(k, now)
          BY <2>2, <4>1, <4>2
        <4>3. CASE Retries(k, now) /\ ~Exhausted(k, now)
          BY <2>2, <4>1, <4>3
        <4>4. QED BY <2>3, <4>2, <4>3
      <3>2. PICK m \in AttemptNo : Expired(<<k, m>>, now)
        BY <2>3 DEF Exhausted, Retries
      <3>3. \A n \in AttemptNo : attempts'[<<k, n>>].state # "leased"
        <4> SUFFICES ASSUME NEW n \in AttemptNo PROVE attempts'[<<k, n>>].state # "leased"
          OBVIOUS
        <4>1. CASE n = m
          BY <2>1, <3>2, <4>1, AttemptFields
        <4>2. CASE n # m
          BY <1>1, <2>1, <3>2, <4>2 DEF Agrees, Expired, Leased
        <4>3. QED BY <4>1, <4>2
      <3>4. QED BY <3>1, <3>3, AgreesNotWaiting
    <2>4. CASE ~Exhausted(k, now) /\ ~Retries(k, now)
      <3>1. rows'[k] = rows[k]
        BY <2>2, <2>4
      <3>2. \A n \in AttemptNo : attempts'[<<k, n>>] = attempts[<<k, n>>]
        BY <1>1, <2>1, <2>4 DEF Agrees, Exhausted, Retries, Expired
      <3>3. QED BY <1>1, <3>1, <3>2, AgreesUntouched
    <2>5. QED BY <2>3, <2>4
  <1>7. ASSUME NEW j \in Key, Leases(r, j) PROVE Agrees(k)'
    <2> DEFINE m == rows[j].attempt_count + 1
    <2>1. m \in AttemptNo /\ <<j, m>> \in Attempt
      <3>1. rows[j].attempt_count \in 0..MaxAttempts
        BY DEF TypeOK, Row
      <3>2. rows[j].attempt_count < MaxAttempts
        BY <1>7 DEF Leases, Selected, Eligible
      <3>3. QED BY <3>1, <3>2, PolicyAssumption DEF AttemptNo, Attempt
    <2>2. rows[j].lifecycle = "detected"
      BY <1>7 DEF Leases, Selected, Eligible
    <2>3. CASE k = j
      <3>1. rows'[k] = Woken(rows[k], m)
        <4>1. rows' = [rows EXCEPT ![j] = Woken(@, m)]
          BY <1>7 DEF Leases
        <4>2. QED BY <2>3, <4>1 DEF TypeOK
      <3>2. rows'[k].lifecycle = "wake_sent" /\ rows'[k].attempt_count = m
        BY <1>0, <2>1, <3>1 DEF Woken, Row
      <3>3. attempts'[<<k, m>>].state = "leased"
        BY <1>7, <2>1, <2>3 DEF Leases, TypeOK, NewLease
      <3>4. ASSUME NEW n \in AttemptNo, n # m PROVE attempts'[<<k, n>>].state # "leased"
        <4>1. attempts'[<<k, n>>] = attempts[<<k, n>>]
          BY <1>7, <2>3, <3>4 DEF Leases, TypeOK, Attempt
        <4>2. QED BY <1>1, <2>2, <2>3, <4>1 DEF Agrees, Leased
      <3>5. QED BY <2>1, <3>2, <3>3, <3>4 DEF Agrees, Leased
    <2>4. CASE k # j
      <3>1. \A n \in AttemptNo : attempts'[<<k, n>>] = attempts[<<k, n>>]
        BY <1>7, <2>4 DEF Leases, TypeOK, Attempt
      <3>2. rows'[k] = rows[k]
        BY <1>7, <2>4 DEF Leases, TypeOK
      <3>3. QED BY <1>1, <3>1, <3>2, AgreesUntouched
    <2>5. QED BY <2>3, <2>4
  <1>8. CASE RouterLease(r)
    BY <1>2, <1>7, <1>8, LeaseCases
  <1>9. CASE RouterReconcile(r) /\ now < last_wall
    BY <1>2, <1>9, <1>0 DEF RouterReconcile, TypeOK, Time, NoTime
  <1>10. CASE \/ RouterStart(r) \/ RouterRead(r) \/ RouterCollect(r)
              \/ RouterRevalidate(r) \/ RouterAbort(r)
    BY <1>2, <1>10
    DEF RouterStart, RouterRead, RouterCollect, RouterRevalidate, RouterAbort, ledger
  <1>11. now < last_wall \/ now >= last_wall
    BY <1>0 DEF TypeOK, Time, NoTime
  <1>12. QED BY <1>4, <1>5, <1>6, <1>8, <1>9, <1>10, <1>11 DEF Route

\* The board, the manager and the clock do not touch rows or leases.
LEMMA EnvironmentAgrees ==
  ASSUME TypeOK, WakeSentIffLeased,
         \/ \E i \in Incident : BoardChange(i)
         \/ \E a \in Attempt : ManagerFinish(a)
         \/ Advance
         \/ UNCHANGED vars
  PROVE  WakeSentIffLeased'
  <1> SUFFICES ASSUME NEW k \in Key PROVE Agrees(k)'
    BY DEF WakeSentIffLeased, Agrees
  <1>1. Agrees(k)
    BY AgreesEverywhere
  <1>2. rows' = rows
    BY DEF BoardChange, ManagerFinish, Advance, ledger, vars
  <1>3. \A n \in AttemptNo : attempts'[<<k, n>>].state = attempts[<<k, n>>].state
    <2>1. ASSUME NEW a \in Attempt, ManagerFinish(a), NEW n \in AttemptNo
          PROVE  attempts'[<<k, n>>].state = attempts[<<k, n>>].state
      <3>1. <<k, n>> \in Attempt /\ attempts[<<k, n>>] \in AttemptRow
        BY DEF Attempt, TypeOK
      <3>2. QED BY <2>1, <3>1 DEF ManagerFinish, AttemptRow, TypeOK
    <2>2. CASE UNCHANGED attempts
      BY <2>2
    <2>3. QED BY <2>1, <2>2 DEF BoardChange, Advance, ledger, vars
  <1>4. QED BY <1>1, <1>2, <1>3, AgreesUntouched

\* An incident waits for a manager exactly while the attempt its count names
\* is leased, whatever ticks, routers, crashes and answers interleave.
THEOREM WaitingIsLeased == Spec => []WakeSentIffLeased
  <1>1. Init => WakeSentIffLeased
    BY DEF Init, WakeSentIffLeased, NoRow, NoAttemptRow, Leased, Attempt
  <1>2. TypeOK /\ WakeSentIffLeased /\ [Next]_vars => WakeSentIffLeased'
    BY TickAgrees, RouteAgrees, EnvironmentAgrees DEF Next
  <1>3. QED BY <1>1, <1>2, TypeCorrect, PTL DEF Spec

-----------------------------------------------------------------------------
(* One lease at a time *)

\* A running router's timestamp is at most MaxStall old.
RouterFresh ==
  \A r \in Router : router[r].pc # "idle" =>
    /\ router[r].now <= clock
    /\ clock <= router[r].now + MaxStall

\* Between its two transactions a router knows that what is leased outlives
\* its timestamp: it expired the rest, and a lease another router took since
\* ends later than that, because no timestamp is older than a lease is long.
Reconciled ==
  \A r \in Router, a \in Attempt :
    router[r].pc = "lease" /\ Leased(a) => attempts[a].expires > router[r].now

\* The inductive invariant behind AtMostOneLease.
LeaseInv == RouterFresh /\ Reconciled /\ AtMostOneLease

\* Every lease after the step was there before, and ends when it did.
NoNewLease ==
  \A a \in Attempt : Leased(a)' =>
    /\ Leased(a)
    /\ attempts'[a].expires = attempts[a].expires

\* Routers that were between their transactions after the step were so before
\* it, with the same timestamp.
NoNewLeaser ==
  \A r \in Router : router'[r].pc = "lease" =>
    /\ router[r].pc = "lease"
    /\ router'[r].now = router[r].now

\* A step that adds neither a lease nor a router about to take one keeps both
\* facts about leases.
LEMMA LeasesShrink ==
  ASSUME LeaseInv, NoNewLease, NoNewLeaser
  PROVE  Reconciled' /\ AtMostOneLease'
  BY DEF LeaseInv, Reconciled, AtMostOneLease, NoNewLease, NoNewLeaser, Leased

\* A step by which routers only stop keeps every timestamp fresh.
LEMMA RoutersStop ==
  ASSUME RouterFresh, UNCHANGED clock,
         \A r \in Router : router'[r].pc # "idle" =>
           router[r].pc # "idle" /\ router'[r].now = router[r].now
  PROVE  RouterFresh'
  BY DEF RouterFresh

\* A settled attempt is not leased; any other keeps its state and its end.
LEMMA SettledEnds ==
  ASSUME NEW att \in AttemptRow, NEW s \in {"ack_valid", "expired", "superseded"}
  PROVE  Settled(att, s).state = s
  BY DEF Settled, AttemptRow

\* Ticks take no lease.
LEMMA TickLeases ==
  ASSUME TypeOK, LeaseInv, NEW t \in Ticker, Tick(t)
  PROVE  LeaseInv'
  <1>1. UNCHANGED <<router, clock>>
    BY DEF Tick, TickStart, TickCollect, TickCommit, TickAbort
  <1>2. NoNewLease
    <2>1. CASE UNCHANGED attempts
      BY <2>1 DEF NoNewLease, Leased
    <2>2. CASE attempts' = [a \in Attempt |-> IF Supersedes(a, ticker[t].seen)
                                             THEN Settled(attempts[a], "superseded")
                                             ELSE attempts[a]]
      <3> SUFFICES ASSUME NEW a \in Attempt, Leased(a)'
                   PROVE  Leased(a) /\ attempts'[a].expires = attempts[a].expires
        BY DEF NoNewLease
      <3>1. Settled(attempts[a], "superseded").state = "superseded"
        BY SettledEnds DEF TypeOK
      <3>2. QED BY <2>2, <3>1 DEF Leased
    <2>3. QED BY <2>1, <2>2 DEF Tick, TickStart, TickCollect, TickCommit, TickAbort, ledger
  <1>3. NoNewLeaser /\ RouterFresh'
    BY <1>1 DEF NoNewLeaser, LeaseInv, RouterFresh
  <1>4. QED BY <1>2, <1>3, LeasesShrink DEF LeaseInv

\* A router takes a lease only when nothing is leased.
LEMMA RouteLeases ==
  ASSUME MaxStall < LeaseSeconds,
         TypeOK, LeaseInv, NEW r \in Router, Route(r)
  PROVE  LeaseInv'
  <1> DEFINE now == router[r].now
  <1>0. now \in Time /\ router[r] \in RouterState
    BY DEF TypeOK, RouterState
  <1>1. CASE RouterStart(r)
    <2>1. RouterFresh'
      BY <1>1, BoundAssumption DEF RouterStart, RouterFresh, LeaseInv, TypeOK, Time
    <2>2. NoNewLeaser
      BY <1>1 DEF RouterStart, NoNewLeaser, TypeOK
    <2>3. NoNewLease
      BY <1>1 DEF RouterStart, NoNewLease, Leased, ledger
    <2>4. QED BY <2>1, <2>2, <2>3, LeasesShrink DEF LeaseInv
  <1>2. ASSUME NoNewLease, UNCHANGED clock, router[r].pc # "idle",
               \/ Done(r)
               \/ \E pc \in {"collect", "reconcile", "revalidate", "import", "resolve"} :
                    Goto(r, pc)
               \/ \E a \in Attempt :
                    router' = [router EXCEPT ![r].pc = "collect", ![r].attempt = a]
        PROVE  LeaseInv'
    <2>1. \A q \in Router : router'[q].pc # "idle" =>
             router[q].pc # "idle" /\ router'[q].now = router[q].now
      BY <1>2 DEF Done, Goto, RouterIdle, TypeOK, RouterState
    <2>2. NoNewLeaser
      BY <1>2 DEF Done, Goto, RouterIdle, TypeOK, RouterState, NoNewLeaser
    <2>3. QED BY <1>2, <2>1, <2>2, LeasesShrink, RoutersStop DEF LeaseInv
  <1>3. CASE RouterRead(r) \/ RouterCollect(r) \/ RouterRevalidate(r) \/ RouterAbort(r)
    <2>1. UNCHANGED <<attempts, clock>> /\ router[r].pc # "idle"
      BY <1>3 DEF RouterRead, RouterCollect, RouterRevalidate, RouterAbort, ledger
    <2>2. NoNewLease
      BY <2>1 DEF NoNewLease, Leased
    <2>3. \/ Done(r)
          \/ \E pc \in {"collect", "reconcile", "revalidate", "import", "resolve"} :
               Goto(r, pc)
          \/ \E a \in Attempt :
               router' = [router EXCEPT ![r].pc = "collect", ![r].attempt = a]
      BY <1>3 DEF RouterRead, RouterCollect, RouterRevalidate, RouterAbort
    <2>4. QED BY <1>2, <2>1, <2>2, <2>3
  <1>4. CASE RouterImport(r) \/ RouterResolve(r)
    <2> DEFINE a == router[r].attempt
    <2>1. a \in Attempt /\ attempts[a] \in AttemptRow
      BY <1>4 DEF RouterImport, RouterResolve, TypeOK
    <2>2. \/ UNCHANGED attempts
          \/ \E s \in {"ack_valid", "superseded"} :
               attempts' = [attempts EXCEPT ![a] = Settled(attempts[a], s)]
      BY <1>4 DEF RouterImport, RouterResolve
    <2>3. NoNewLease
      <3>1. CASE UNCHANGED attempts
        BY <3>1 DEF NoNewLease, Leased
      <3>2. ASSUME NEW s \in {"ack_valid", "superseded"},
                   attempts' = [attempts EXCEPT ![a] = Settled(attempts[a], s)]
            PROVE  NoNewLease
        <4>1. Settled(attempts[a], s).state = s
          BY <2>1, SettledEnds
        <4>2. QED BY <2>1, <3>2, <4>1 DEF NoNewLease, Leased, TypeOK
      <3>3. QED BY <2>2, <3>1, <3>2
    <2>4. Done(r) /\ UNCHANGED clock /\ router[r].pc # "idle"
      BY <1>4 DEF RouterImport, RouterResolve
    <2>5. QED BY <1>2, <2>3, <2>4
  <1>5. CASE RouterReconcile(r)
    <2>1. CASE Done(r) /\ UNCHANGED attempts
      <3>1. NoNewLease
        BY <2>1 DEF NoNewLease, Leased
      <3>2. QED BY <1>2, <1>5, <2>1, <3>1 DEF RouterReconcile
    <2>2. CASE /\ Goto(r, "lease")
               /\ attempts' = [a \in Attempt |->
                    IF Expired(a, now) THEN Settled(attempts[a], "expired")
                                       ELSE attempts[a]]
      <3>1. \A a \in Attempt : Leased(a)' =>
              Leased(a) /\ ~Expired(a, now) /\ attempts'[a] = attempts[a]
        <4> SUFFICES ASSUME NEW a \in Attempt, Leased(a)'
                     PROVE  Leased(a) /\ ~Expired(a, now) /\ attempts'[a] = attempts[a]
          OBVIOUS
        <4>1. Settled(attempts[a], "expired").state = "expired"
          BY SettledEnds DEF TypeOK
        <4>2. QED BY <2>2, <4>1 DEF Leased
      <3>2. AtMostOneLease'
        BY <3>1 DEF LeaseInv, AtMostOneLease, Leased
      <3>3. RouterFresh'
        BY <1>5, <2>2 DEF RouterReconcile, Goto, RouterFresh, LeaseInv, TypeOK, RouterState
      <3>4. Reconciled'
        <4> SUFFICES ASSUME NEW q \in Router, NEW a \in Attempt,
                            router'[q].pc = "lease", Leased(a)'
                     PROVE  attempts'[a].expires > router'[q].now
          BY DEF Reconciled, Leased
        <4>1. Leased(a) /\ ~Expired(a, now) /\ attempts'[a] = attempts[a]
          BY <3>1
        <4>2. attempts[a].expires \in Int /\ now \in Int
          BY <1>0 DEF TypeOK, AttemptRow, Time, NoTime
        <4>3. CASE q = r
          <5>1. router'[q].now = now
            BY <2>2, <4>3 DEF Goto, TypeOK, RouterState
          <5>2. QED BY <4>1, <4>2, <5>1 DEF Expired
        <4>4. CASE q # r
          <5>1. router'[q] = router[q]
            BY <2>2, <4>4 DEF Goto, TypeOK
          <5>2. QED BY <4>1, <5>1 DEF LeaseInv, Reconciled
        <4>5. QED BY <4>3, <4>4
      <3>5. QED BY <3>2, <3>3, <3>4 DEF LeaseInv
    <2>3. QED BY <1>5, <2>1, <2>2 DEF RouterReconcile
  <1>6. CASE RouterLease(r)
    <2>1. Done(r) /\ UNCHANGED clock /\ router[r].pc = "lease"
      BY <1>6 DEF RouterLease
    <2>2. CASE UNCHANGED <<rows, attempts, used>>
      <3>1. NoNewLease
        BY <2>2 DEF NoNewLease, Leased
      <3>2. QED BY <1>2, <2>1, <3>1
    <2>3. ASSUME NEW k \in Key, Leases(r, k) PROVE LeaseInv'
      <3> DEFINE new == <<k, rows[k].attempt_count + 1>>
      <3>1. \A a \in Attempt : ~Leased(a)
        BY <2>1, <2>3 DEF Leases, LeaseHeld, LeaseInv, Reconciled
      <3>2. \A a \in Attempt : Leased(a)' => a = new /\ attempts'[a] = NewLease(now)
        BY <2>3, <3>1 DEF Leases, Leased, TypeOK
      <3>3. \A q \in Router : router'[q].pc # "idle" =>
               q # r /\ router'[q] = router[q]
        BY <2>1 DEF Done, RouterIdle, TypeOK
      <3>4. AtMostOneLease'
        BY <3>2 DEF AtMostOneLease, Leased
      <3>5. RouterFresh'
        BY <2>1, <3>3, RoutersStop DEF LeaseInv
      <3>6. Reconciled'
        <4> SUFFICES ASSUME NEW q \in Router, NEW a \in Attempt,
                            router'[q].pc = "lease", Leased(a)'
                     PROVE  attempts'[a].expires > router'[q].now
          BY DEF Reconciled, Leased
        <4>1. attempts'[a].expires = now + LeaseSeconds
          BY <3>2 DEF NewLease
        <4>2. router'[q] = router[q] /\ router[q].pc = "lease" /\ router[q].now \in Time
          BY <3>3 DEF TypeOK, RouterState
        <4>3. router[q].now <= clock /\ clock <= now + MaxStall
          BY <2>1, <4>2 DEF LeaseInv, RouterFresh
        <4>4. QED
          BY <1>0, <4>1, <4>2, <4>3, PolicyAssumption, BoundAssumption DEF TypeOK, Time
      <3>7. QED BY <3>4, <3>5, <3>6 DEF LeaseInv
    <2>4. QED BY <1>6, <2>2, <2>3, LeaseCases
  <1>7. QED BY <1>1, <1>3, <1>4, <1>5, <1>6 DEF Route

\* The board and the manager take no lease; the clock respects MaxStall.
LEMMA EnvironmentLeases ==
  ASSUME TypeOK, LeaseInv,
         \/ \E i \in Incident : BoardChange(i)
         \/ \E a \in Attempt : ManagerFinish(a)
         \/ Advance
         \/ UNCHANGED vars
  PROVE  LeaseInv'
  <1>1. UNCHANGED router
    BY DEF BoardChange, ManagerFinish, Advance, vars
  <1>2. NoNewLease
    <2>1. ASSUME NEW a \in Attempt, ManagerFinish(a) PROVE NoNewLease
      <3> SUFFICES ASSUME NEW b \in Attempt
                   PROVE  /\ attempts'[b].state = attempts[b].state
                          /\ attempts'[b].expires = attempts[b].expires
        BY DEF NoNewLease, Leased
      <3>1. attempts[b] \in AttemptRow
        BY DEF TypeOK
      <3>2. QED BY <2>1, <3>1 DEF ManagerFinish, AttemptRow, TypeOK
    <2>2. CASE UNCHANGED attempts
      BY <2>2 DEF NoNewLease, Leased
    <2>3. QED BY <2>1, <2>2 DEF BoardChange, Advance, ledger, vars
  <1>3. NoNewLeaser
    BY <1>1 DEF NoNewLeaser
  <1>4. RouterFresh'
    <2>1. CASE UNCHANGED clock
      BY <1>1, <2>1 DEF LeaseInv, RouterFresh
    <2>2. CASE Advance
      <3> SUFFICES ASSUME NEW r \in Router, router[r].pc # "idle"
                   PROVE  router[r].now <= clock + 1 /\ clock + 1 <= router[r].now + MaxStall
        BY <2>2 DEF Advance, RouterFresh
      <3>1. router[r].now \in Int /\ clock \in Int /\ MaxStall \in Int
        BY BoundAssumption DEF TypeOK, RouterState, Time
      <3>2. router[r].now <= clock /\ clock < router[r].now + MaxStall
        BY <2>2 DEF LeaseInv, RouterFresh, Advance
      <3>3. QED BY <3>1, <3>2
    <2>3. QED BY <2>1, <2>2 DEF BoardChange, ManagerFinish, vars
  <1>5. QED BY <1>2, <1>3, <1>4, LeasesShrink DEF LeaseInv

\* Leases and the routers about to take one stay apart.
LEMMA LeasesApart ==
  ASSUME MaxStall < LeaseSeconds
  PROVE  Spec => []LeaseInv
  <1>1. Init => LeaseInv
    BY DEF Init, LeaseInv, RouterFresh, Reconciled, AtMostOneLease, Leased,
       RouterIdle, NoAttemptRow
  <1>2. TypeOK /\ LeaseInv /\ [Next]_vars => LeaseInv'
    BY TickLeases, RouteLeases, EnvironmentLeases DEF Next
  <1>3. QED BY <1>1, <1>2, TypeCorrect, PTL DEF Spec

\* Two managers are never at work at once, over all incidents and routers,
\* provided no router acts on a timestamp as old as a lease is long.
THEOREM OneLease ==
  ASSUME MaxStall < LeaseSeconds
  PROVE  Spec => []AtMostOneLease
  <1>1. LeaseInv => AtMostOneLease
    BY DEF LeaseInv
  <1>2. QED BY <1>1, LeasesApart, PTL

===============================================================================
