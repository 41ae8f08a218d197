--------------------------- MODULE WakeLedgerHistory ---------------------------
(***************************************************************************)
(* Theorems about the history of an incident's generations.  What one step *)
(* of the ledger can make of one generation (its row, its attempts and its *)
(* notifications) is proved once, by StepOfAKey; the rest argues over those *)
(* cases and not over the programs' actions: in which order generations    *)
(* open, how each ends, what its attempts and its notifications say of it, *)
(* that wakes are persistent, spaced and counted, and at last that the     *)
(* ledger implements the lifecycle IncidentLifecycle promises.  For that,  *)
(* ticks are looks at the board, and the imports, the resolutions, the     *)
(* expiries and the leases of routers are the steps of single generations, *)
(* because at most one attempt is leased.                                  *)
(***************************************************************************)
EXTENDS WakeLedgerProofs, FiniteSetTheorems

-----------------------------------------------------------------------------
(* The steps of a generation *)

\* The attempt stays in its state, and a manager's answer stays what it is.
Kept(a) ==
  /\ attempts'[a].state = attempts[a].state
  /\ attempts'[a].acquired = attempts[a].acquired
  /\ attempts'[a].expires = attempts[a].expires
  /\ attempts[a].finished_at # NoTime
       => attempts'[a].finished_at = attempts[a].finished_at

\* All attempts of a generation do.
AttemptsKept(k) == \A n \in AttemptNo : Kept(<<k, n>>)

\* The attempt the row's count names leaves its lease; the others stay.
AttemptSettled(k, s) ==
  LET n == rows[k].attempt_count
  IN  /\ n \in AttemptNo /\ Leased(<<k, n>>)
      /\ attempts'[<<k, n>>] = Settled(attempts[<<k, n>>], s)
      /\ \A m \in AttemptNo \ {n} : Kept(<<k, m>>)

\* No notification of the generation is queued.
NotesKept(k) == \A t \in Notifiable : <<k, t>> \in intents' <=> <<k, t>> \in intents

\* One is: that of its end as s.
Noted(k, s) ==
  \A t \in Notifiable : <<k, t>> \in intents' <=> <<k, t>> \in intents \/ t = s

\* A commit does not pass over the live row of an incident.
Stays(k) ==
  /\ rows'[k] = rows[k] /\ AttemptsKept(k) /\ NotesKept(k)
  /\ \/ tick_seq' = tick_seq
     \/ tick_seq' = tick_seq + 1 /\ ~(IsOpen(k) /\ IsLatest(k))

\* A tick opens the generation.
OpensRow(k) ==
  /\ ~Present(k) /\ Opens(k)
  /\ \E gap \in BOOLEAN : rows'[k] = Opened(tick_seq + 1, gap)
  /\ AttemptsKept(k) /\ NotesKept(k)
  /\ tick_seq' = tick_seq + 1

\* A tick sees the incident of an open row again.
RenewsRow(k) ==
  /\ Continues(k)
  /\ \E gap \in BOOLEAN : rows'[k] = Renewed(rows[k], tick_seq + 1, gap)
  /\ AttemptsKept(k) /\ NotesKept(k)
  /\ tick_seq' = tick_seq + 1

\* A tick misses the incident of a row that is over.
ClosesRow(k) ==
  /\ IsOpen(k) /\ rows[k].lifecycle \in Terminal
  /\ rows'[k] = [rows[k] EXCEPT !.clean_tick = TRUE]
  /\ AttemptsKept(k) /\ NotesKept(k)
  /\ tick_seq' = tick_seq + 1

\* A tick or a router finds the incident gone before it is over.
ResolvesRow(k) ==
  /\ rows'[k] = Resolved(rows[k])
  /\ \/ rows[k].lifecycle = "wake_sent" /\ AttemptSettled(k, "superseded")
     \/ rows[k].lifecycle = "detected" /\ AttemptsKept(k)
  /\ NotesKept(k)
  /\ tick_seq' \in {tick_seq, tick_seq + 1}

\* A router imports the answer of the manager.
AcceptsAck(k) ==
  /\ rows[k].lifecycle = "wake_sent"
  /\ rows'[k] = Ended(rows[k], "human_required")
  /\ AttemptSettled(k, "ack_valid")
  /\ Noted(k, "human_required")
  /\ \E r \in Router : /\ router[r].pc = "import"
                       /\ router[r].attempt = <<k, rows[k].attempt_count>>
  /\ tick_seq' = tick_seq

\* A router expires the last attempt.
GivesUp(k) ==
  /\ rows[k].lifecycle = "wake_sent" /\ IsLast(rows[k].attempt_count)
  /\ rows'[k] = Ended(rows[k], "dead_letter")
  /\ AttemptSettled(k, "expired")
  /\ Noted(k, "dead_letter")
  /\ tick_seq' = tick_seq

\* A router expires an earlier attempt and sets the time of the next.
RetriesRow(k) ==
  /\ rows[k].lifecycle = "wake_sent" /\ ~IsLast(rows[k].attempt_count)
  /\ \E now \in Time :
       /\ attempts[<<k, rows[k].attempt_count>>].expires <= now
       /\ rows'[k] = Rescheduled(rows[k], now)
  /\ AttemptSettled(k, "expired")
  /\ NotesKept(k)
  /\ tick_seq' = tick_seq

\* A router takes the lease of the next attempt.
WakesManager(k) ==
  LET n == rows[k].attempt_count + 1 IN
  /\ n \in AttemptNo
  /\ \E now \in Time :
       /\ Eligible(k, now)
       /\ attempts'[<<k, n>>] = NewLease(now)
  /\ rows'[k] = Woken(rows[k], n)
  /\ \A m \in AttemptNo \ {n} : Kept(<<k, m>>)
  /\ NotesKept(k)
  /\ tick_seq' = tick_seq

\* What a committed tick makes of a generation.
LooksAt(k) == Stays(k) \/ OpensRow(k) \/ RenewsRow(k) \/ ClosesRow(k) \/ ResolvesRow(k)

\* The steps of a generation.
StepOf(k) ==
  LooksAt(k) \/ AcceptsAck(k) \/ GivesUp(k) \/ RetriesRow(k) \/ WakesManager(k)

-----------------------------------------------------------------------------
(* Every step is one of them, for every generation *)

\* An attempt whose row does not change is kept.
LEMMA SameIsKept ==
  ASSUME NEW k \in Key, \A n \in AttemptNo : attempts'[<<k, n>>] = attempts[<<k, n>>]
  PROVE  AttemptsKept(k)
  BY DEF AttemptsKept, Kept

\* A step that leaves the tables alone stays.
LEMMA UntouchedStays ==
  ASSUME NEW k \in Key, UNCHANGED <<rows, attempts, intents, tick_seq>>
  PROVE  Stays(k)
  BY DEF Stays, AttemptsKept, Kept, NotesKept

\* An incident's generations are pairs; the one a tick opens has no row yet.
LEMMA OpensAbsent ==
  ASSUME NEW k \in Key, Opens(k)
  PROVE  ~Present(k)
  <1>1. k = <<k[1], k[2]>> /\ k[2] \in Generation /\ k[2] \in Int
    BY DEF Key, Generation
  <1>2. CASE \A g \in Generation : ~Present(<<k[1], g>>)
    BY <1>1, <1>2
  <1>3. CASE k[2] > 1 /\ IsLatest(<<k[1], k[2] - 1>>)
    BY <1>1, <1>3 DEF IsLatest
  <1>4. QED BY <1>2, <1>3 DEF Opens

\* The steps of a tick.
LEMMA TickStepOf ==
  ASSUME TypeOK, WakeSentIffLeased, NEW t \in Ticker, Tick(t), NEW k \in Key
  PROVE  LooksAt(k)
  <1> DEFINE me == ticker[t]
             i  == k[1]
  <1>1. CASE UNCHANGED <<rows, attempts, intents, tick_seq>>
    BY <1>1, UntouchedStays DEF LooksAt
  <1>2. CASE TickCommit(t) /\ tick_seq = me.seq - 1
    <2>1. /\ me.seq \in Nat /\ me.gap \in BOOLEAN /\ rows[k] \in Row /\ tick_seq \in Nat
          /\ me.seq = tick_seq + 1
      BY <1>2 DEF TypeOK, TickerState
    <2>2. /\ rows'[k] = Observed(k, me.seen, me.seq, me.gap)
          /\ tick_seq' = tick_seq + 1
          /\ intents' = intents
      BY <1>2, <2>1 DEF TickCommit
    <2>3. NotesKept(k)
      BY <2>2 DEF NotesKept
    <2>4. \A n \in AttemptNo :
            /\ <<k, n>> \in Attempt
            /\ attempts'[<<k, n>>] = IF Supersedes(<<k, n>>, me.seen)
                                     THEN Settled(attempts[<<k, n>>], "superseded")
                                     ELSE attempts[<<k, n>>]
      BY <1>2 DEF TickCommit, TypeOK, Attempt
    <2>5. CASE i \in me.seen
      <3>1. AttemptsKept(k)
        BY <2>4, <2>5, SameIsKept DEF Supersedes
      <3>2. CASE Opens(k)
        <4>1. rows'[k] = Opened(tick_seq + 1, me.gap)
          BY <2>1, <2>2, <2>5, <3>2, OpensAbsent DEF Observed, Continues, IsLatest, IsOpen
        <4>2. OpensRow(k)
          BY <2>1, <2>2, <2>3, <3>1, <3>2, <4>1, OpensAbsent DEF OpensRow
        <4>3. QED BY <4>2 DEF LooksAt
      <3>3. CASE ~Opens(k) /\ Continues(k)
        <4>1. rows'[k] = Renewed(rows[k], tick_seq + 1, me.gap)
          BY <2>1, <2>2, <2>5, <3>3 DEF Observed
        <4>2. RenewsRow(k)
          BY <2>1, <2>2, <2>3, <3>1, <3>3, <4>1 DEF RenewsRow
        <4>3. QED BY <4>2 DEF LooksAt
      <3>4. CASE ~Opens(k) /\ ~Continues(k)
        <4>1. rows'[k] = rows[k]
          BY <2>2, <2>5, <3>4 DEF Observed
        <4>2. ~(IsOpen(k) /\ IsLatest(k))
          BY <3>4 DEF Continues, Recurs, IsOpen
        <4>3. Stays(k)
          BY <2>2, <2>3, <3>1, <4>1, <4>2 DEF Stays
        <4>4. QED BY <4>3 DEF LooksAt
      <3>5. QED BY <3>2, <3>3, <3>4
    <2>6. CASE i \notin me.seen /\ ~IsOpen(k)
      <3>1. AttemptsKept(k)
        BY <2>4, <2>6, SameIsKept DEF Supersedes
      <3>2. rows'[k] = rows[k]
        BY <2>2, <2>6 DEF Observed
      <3>3. Stays(k)
        BY <2>2, <2>3, <2>6, <3>1, <3>2 DEF Stays
      <3>4. QED BY <3>3 DEF LooksAt
    <2>7. CASE i \notin me.seen /\ IsOpen(k) /\ rows[k].lifecycle \in Terminal
      <3>1. AttemptsKept(k)
        BY <2>4, <2>7, SameIsKept DEF Supersedes
      <3>2. rows'[k] = [rows[k] EXCEPT !.clean_tick = TRUE]
        BY <2>2, <2>7 DEF Observed, Cleared
      <3>3. ClosesRow(k)
        BY <2>2, <2>3, <2>7, <3>1, <3>2 DEF ClosesRow
      <3>4. QED BY <3>3 DEF LooksAt
    <2>8. CASE i \notin me.seen /\ IsOpen(k) /\ rows[k].lifecycle \notin Terminal
      <3>1. rows'[k] = Resolved(rows[k])
        BY <2>2, <2>8 DEF Observed, Cleared
      <3>2. rows[k].lifecycle \in {"detected", "wake_sent"}
        BY <2>1, <2>8 DEF IsOpen, Present, Row, Lifecycle
      <3>3. Agrees(k)
        BY AgreesEverywhere
      <3>4. \A n \in AttemptNo : attempts'[<<k, n>>] =
              IF Leased(<<k, n>>) THEN Settled(attempts[<<k, n>>], "superseded")
                                  ELSE attempts[<<k, n>>]
        BY <2>4, <2>8 DEF Supersedes
      <3>5. CASE rows[k].lifecycle = "wake_sent"
        <4>1. AttemptSettled(k, "superseded")
          BY <3>3, <3>4, <3>5 DEF AttemptSettled, Agrees, Kept
        <4>2. QED BY <2>2, <2>3, <3>1, <3>5, <4>1 DEF ResolvesRow, LooksAt
      <3>6. CASE rows[k].lifecycle = "detected"
        <4>1. AttemptsKept(k)
          BY <3>3, <3>4, <3>6 DEF AttemptsKept, Agrees, Kept
        <4>2. QED BY <2>2, <2>3, <3>1, <3>6, <4>1 DEF ResolvesRow, LooksAt
      <3>7. QED BY <3>2, <3>5, <3>6
    <2>9. QED BY <2>5, <2>6, <2>7, <2>8
  <1>3. \/ UNCHANGED <<rows, attempts, intents, tick_seq>>
        \/ TickCommit(t) /\ tick_seq = me.seq - 1
    BY DEF Tick, TickStart, TickCollect, TickCommit, TickAbort, ledger
  <1>4. QED BY <1>1, <1>2, <1>3

\* A router that writes nothing.
LEMMA QuietRouteStepOf ==
  ASSUME NEW r \in Router, NEW k \in Key,
         \/ RouterStart(r) \/ RouterRead(r) \/ RouterCollect(r) \/ RouterRevalidate(r)
         \/ RouterAbort(r)
  PROVE  Stays(k)
  BY UntouchedStays
  DEF RouterStart, RouterRead, RouterCollect, RouterRevalidate, RouterAbort, ledger

\* An import or a resolution settles the attempt the router holds, which is the
\* one its row's count names.
LEMMA DecisionStepOf ==
  ASSUME TypeOK, WakeSentIffLeased, NEW r \in Router, NEW k \in Key,
         RouterImport(r) \/ RouterResolve(r)
  PROVE  \/ Stays(k)
         \/ k = router[r].attempt[1] /\ (AcceptsAck(k) \/ ResolvesRow(k))
  <1> DEFINE a == router[r].attempt
             j == a[1]
  <1>1. a \in Attempt /\ j \in Key /\ a[2] \in AttemptNo /\ a = <<j, a[2]>>
    BY DEF RouterImport, RouterResolve, TypeOK, Attempt
  <1>2. Agrees(j) /\ rows[j] \in Row /\ attempts[a] \in AttemptRow
    BY <1>1, AgreesEverywhere DEF TypeOK
  <1>3. UNCHANGED tick_seq
    BY DEF RouterImport, RouterResolve
  <1>4. CASE ~Leased(a)
    BY <1>3, <1>4, UntouchedStays DEF RouterImport, RouterResolve
  <1>5. CASE Leased(a) /\ rows[j].lifecycle = "wake_sent"
    <2>1. a = <<j, rows[j].attempt_count>>
      BY <1>1, <1>2, <1>5 DEF Agrees
    <2>2. ASSUME NEW s \in {"ack_valid", "superseded"}, k = j,
                 attempts' = [attempts EXCEPT ![a] = Settled(@, s)]
          PROVE  AttemptSettled(k, s)
      <3>1. attempts'[a] = Settled(attempts[a], s)
        BY <1>1, <2>2 DEF TypeOK
      <3>2. \A m \in AttemptNo \ {rows[j].attempt_count} : attempts'[<<j, m>>] = attempts[<<j, m>>]
        BY <1>1, <2>1, <2>2 DEF TypeOK, Attempt
      <3>3. QED BY <1>1, <1>2, <1>5, <2>1, <2>2, <3>1, <3>2 DEF AttemptSettled, Agrees, Kept
    <2>3. CASE k # j
      <3>1. rows'[k] = rows[k]
        BY <1>1, <1>5, <2>3 DEF RouterImport, RouterResolve, TypeOK
      <3>2. \A n \in AttemptNo : attempts'[<<k, n>>] = attempts[<<k, n>>]
        BY <1>1, <1>5, <2>3 DEF RouterImport, RouterResolve, TypeOK, Attempt
      <3>3. NotesKept(k)
        BY <1>1, <1>5, <2>3 DEF RouterImport, RouterResolve, NotesKept
      <3>4. QED BY <1>3, <3>1, <3>2, <3>3, SameIsKept DEF Stays
    <2>4. CASE k = j /\ RouterImport(r)
      <3>1. /\ attempts' = [attempts EXCEPT ![a] = Settled(@, "ack_valid")]
            /\ rows' = [rows EXCEPT ![j] = Ended(@, "human_required")]
            /\ intents' = intents \cup {<<j, "human_required">>}
            /\ router[r].pc = "import"
        BY <1>5, <2>4 DEF RouterImport
      <3>2. AttemptSettled(k, "ack_valid")
        BY <2>2, <2>4, <3>1
      <3>3. rows'[k] = Ended(rows[k], "human_required")
        BY <1>1, <2>4, <3>1 DEF TypeOK
      <3>4. Noted(k, "human_required")
        BY <2>4, <3>1 DEF Noted
      <3>5. QED BY <1>3, <1>5, <2>1, <2>4, <3>1, <3>2, <3>3, <3>4 DEF AcceptsAck
    <2>5. CASE k = j /\ RouterResolve(r)
      <3>1. /\ attempts' = [attempts EXCEPT ![a] = Settled(@, "superseded")]
            /\ rows' = [rows EXCEPT ![j] = Resolved(@)]
            /\ UNCHANGED intents
        BY <1>5, <2>5 DEF RouterResolve
      <3>2. AttemptSettled(k, "superseded")
        BY <2>2, <2>5, <3>1
      <3>3. rows'[k] = Resolved(rows[k])
        BY <1>1, <2>5, <3>1 DEF TypeOK
      <3>4. NotesKept(k)
        BY <3>1 DEF NotesKept
      <3>5. QED BY <1>3, <1>5, <2>5, <3>2, <3>3, <3>4 DEF ResolvesRow
    <2>6. QED BY <2>3, <2>4, <2>5
  <1>6. CASE Leased(a) /\ rows[j].lifecycle # "wake_sent"
    BY <1>1, <1>2, <1>6 DEF Agrees
  <1>7. QED BY <1>4, <1>5, <1>6

\* The first transaction expires the attempts that are over; of a generation
\* that is at most the one its count names.
LEMMA ReconcileStepOf ==
  ASSUME TypeOK, WakeSentIffLeased, NEW r \in Router, NEW k \in Key, RouterReconcile(r)
  PROVE  Stays(k) \/ GivesUp(k) \/ RetriesRow(k)
  <1> DEFINE now == router[r].now
             n   == rows[k].attempt_count
  <1>1. /\ now \in Time /\ now \in Int /\ last_wall \in Int
        /\ rows[k] \in Row /\ Agrees(k) /\ UNCHANGED tick_seq
    BY AgreesEverywhere DEF TypeOK, RouterState, RouterReconcile, Time, NoTime
  <1>2. CASE now < last_wall
    BY <1>1, <1>2, UntouchedStays DEF RouterReconcile
  <1>3. CASE ~(now < last_wall)
    <2>1. /\ rows'[k] = CASE Exhausted(k, now) -> Ended(rows[k], "dead_letter")
                          [] Retries(k, now) /\ ~Exhausted(k, now) -> Rescheduled(rows[k], now)
                          [] OTHER -> rows[k]
          /\ intents' = intents \cup {<<j, "dead_letter">> : j \in {i \in Key : Exhausted(i, now)}}
      BY <1>3 DEF RouterReconcile
    <2>2. \A m \in AttemptNo : attempts'[<<k, m>>] =
            IF Expired(<<k, m>>, now) THEN Settled(attempts[<<k, m>>], "expired")
                                      ELSE attempts[<<k, m>>]
      BY <1>3 DEF RouterReconcile, Attempt
    <2>3. \A m \in AttemptNo : Expired(<<k, m>>, now) => m = n /\ rows[k].lifecycle = "wake_sent"
      BY <1>1 DEF Agrees, Expired
    <2>4. CASE \A m \in AttemptNo : ~Expired(<<k, m>>, now)
      <3>1. rows'[k] = rows[k] /\ ~Exhausted(k, now)
        BY <2>1, <2>4 DEF Exhausted, Retries
      <3>2. AttemptsKept(k)
        BY <2>2, <2>4, SameIsKept
      <3>3. NotesKept(k)
        BY <2>1, <3>1 DEF NotesKept
      <3>4. QED BY <1>1, <3>1, <3>2, <3>3 DEF Stays
    <2>5. CASE \E m \in AttemptNo : Expired(<<k, m>>, now)
      <3>1. /\ n \in AttemptNo /\ Expired(<<k, n>>, now) /\ Leased(<<k, n>>)
            /\ attempts[<<k, n>>].expires <= now
            /\ rows[k].lifecycle = "wake_sent"
        BY <2>3, <2>5 DEF Expired
      <3>2. AttemptSettled(k, "expired")
        BY <2>2, <2>3, <3>1 DEF AttemptSettled, Kept
      <3>3. Exhausted(k, now) <=> IsLast(n)
        BY <2>3, <3>1 DEF Exhausted
      <3>4. Retries(k, now) <=> ~IsLast(n)
        BY <2>3, <3>1 DEF Retries
      <3>5. CASE IsLast(n)
        <4>1. rows'[k] = Ended(rows[k], "dead_letter")
          BY <2>1, <3>3, <3>5
        <4>2. Noted(k, "dead_letter")
          BY <2>1, <3>3, <3>5 DEF Noted
        <4>3. QED BY <1>1, <3>1, <3>2, <3>5, <4>1, <4>2 DEF GivesUp
      <3>6. CASE ~IsLast(n)
        <4>1. rows'[k] = Rescheduled(rows[k], now)
          BY <2>1, <3>3, <3>4, <3>6
        <4>2. NotesKept(k)
          BY <2>1, <3>3, <3>6 DEF NotesKept
        <4>3. QED BY <1>1, <3>1, <3>2, <3>6, <4>1, <4>2 DEF RetriesRow
      <3>7. QED BY <3>5, <3>6
    <2>6. QED BY <2>4, <2>5
  <1>4. QED BY <1>2, <1>3

\* The second transaction leases the next attempt of one generation.
LEMMA LeaseStepOf ==
  ASSUME TypeOK, NEW r \in Router, RouterLease(r), NEW j \in Key, Leases(r, j), NEW k \in Key
  PROVE  IF k = j THEN WakesManager(k) ELSE Stays(k)
  <1> DEFINE now == router[r].now
             n   == rows[j].attempt_count + 1
  <1>1. now \in Time /\ UNCHANGED <<tick_seq, intents>> /\ NotesKept(k)
    BY DEF TypeOK, RouterState, RouterLease, NotesKept
  <1>2. n \in AttemptNo
    BY PolicyAssumption DEF Leases, Selected, Eligible, TypeOK, Row, AttemptNo
  <1>3. /\ attempts' = [attempts EXCEPT ![<<j, n>>] = NewLease(now)]
        /\ rows' = [rows EXCEPT ![j] = Woken(@, n)]
        /\ Eligible(j, now)
    BY DEF Leases, Selected
  <1>4. CASE k # j
    <2>1. AttemptsKept(k)
      BY <1>3, <1>4, SameIsKept DEF TypeOK, Attempt
    <2>2. rows'[k] = rows[k]
      BY <1>3, <1>4 DEF TypeOK
    <2>3. QED BY <1>1, <1>4, <2>1, <2>2 DEF Stays
  <1>5. CASE k = j
    <2>1. attempts'[<<k, n>>] = NewLease(now) /\ rows'[k] = Woken(rows[k], n)
      BY <1>2, <1>3, <1>5 DEF TypeOK, Attempt
    <2>2. \A m \in AttemptNo \ {n} : Kept(<<k, m>>)
      BY <1>3, <1>5 DEF TypeOK, Attempt, Kept
    <2>3. WakesManager(k)
      BY <1>1, <1>2, <1>3, <1>5, <2>1, <2>2 DEF WakesManager
    <2>4. QED BY <1>5, <2>3
  <1>6. QED BY <1>4, <1>5

\* Or it writes nothing.
LEMMA NoLeaseStays ==
  ASSUME NEW r \in Router, RouterLease(r), ~\E j \in Key : Leases(r, j), NEW k \in Key
  PROVE  Stays(k)
  BY LeaseCases, UntouchedStays DEF RouterLease

\* An answer is recorded once; the board and the clock write nothing.
LEMMA EnvironmentStepOf ==
  ASSUME TypeOK, NEW k \in Key,
         \/ \E i \in Incident : BoardChange(i)
         \/ \E a \in Attempt : ManagerFinish(a)
         \/ Advance
         \/ UNCHANGED vars
  PROVE  Stays(k)
  <1>1. CASE \/ \E i \in Incident : BoardChange(i)
             \/ Advance
             \/ UNCHANGED vars
    BY <1>1, UntouchedStays DEF BoardChange, Advance, ledger, vars
  <1>2. ASSUME NEW a \in Attempt, ManagerFinish(a) PROVE Stays(k)
    <2>1. AttemptsKept(k)
      <3> SUFFICES ASSUME NEW n \in AttemptNo PROVE Kept(<<k, n>>)
        BY DEF AttemptsKept
      <3>1. <<k, n>> \in Attempt /\ attempts[<<k, n>>] \in AttemptRow /\ attempts[a] \in AttemptRow
        BY DEF Attempt, TypeOK
      <3>2. QED BY <1>2, <3>1 DEF ManagerFinish, AttemptRow, TypeOK, Kept
    <2>2. UNCHANGED <<rows, intents, tick_seq>> /\ NotesKept(k)
      BY <1>2 DEF ManagerFinish, NotesKept
    <2>3. QED BY <2>1, <2>2 DEF Stays
  <1>3. QED BY <1>1, <1>2

\* Whatever the system does, each generation makes one of the named steps.
LEMMA StepOfAKey ==
  ASSUME TypeOK, WakeSentIffLeased, [Next]_vars, NEW k \in Key
  PROVE  StepOf(k)
  <1>1. ASSUME NEW t \in Ticker, Tick(t) PROVE StepOf(k)
    BY <1>1, TickStepOf DEF StepOf
  <1>2. ASSUME NEW r \in Router, RouterLease(r) PROVE StepOf(k)
    BY <1>2, LeaseStepOf, NoLeaseStays DEF StepOf, LooksAt
  <1>3. ASSUME NEW r \in Router, Route(r) PROVE StepOf(k)
    BY <1>2, <1>3, QuietRouteStepOf, DecisionStepOf, ReconcileStepOf
    DEF Route, StepOf, LooksAt
  <1>4. QED BY <1>1, <1>3, EnvironmentStepOf DEF Next, StepOf, LooksAt

-----------------------------------------------------------------------------
(* Generations follow each other *)

\* A terminal row with a clean tick is history.
LEMMA ClosedIsHistory ==
  ASSUME NEW k \in Key, StepOf(k), Recurs(k)
  PROVE  rows'[k] = rows[k]
  BY DEF StepOf, LooksAt, Stays, OpensRow, RenewsRow, ClosesRow, ResolvesRow, AcceptsAck, GivesUp,
     RetriesRow, WakesManager, Recurs, Continues, IsOpen, Present, Eligible, Terminal

\* A row appears only by opening.
LEMMA PresentStays ==
  ASSUME NEW k \in Key, StepOf(k), ~Present(k), Present(k)'
  PROVE  OpensRow(k)
  BY DEF StepOf, LooksAt, Stays, RenewsRow, ClosesRow, ResolvesRow, AcceptsAck, GivesUp,
     RetriesRow, WakesManager, Continues, IsLatest, IsOpen, Present, Eligible

\* A generation opens only when all before it are terminal and clean, and none
\* of them ever changes again.
THEOREM GenerationsFollow == Spec => []OneOpenGeneration
  <1>1. Init => OneOpenGeneration
    BY DEF Init, OneOpenGeneration, NoRow, Present
  <1>2. TypeOK /\ WakeSentIffLeased /\ OneOpenGeneration /\ [Next]_vars => OneOpenGeneration'
    <2> SUFFICES ASSUME TypeOK, WakeSentIffLeased, OneOpenGeneration, [Next]_vars,
                        NEW k \in Key, Present(k)', NEW g \in Generation, g < k[2]
                 PROVE  Recurs(<<k[1], g>>)'
      BY DEF OneOpenGeneration, Recurs
    <2> DEFINE j == <<k[1], g>>
    <2>1. /\ j \in Key /\ k = <<k[1], k[2]>> /\ k[1] \in Incident
          /\ k[2] \in Generation /\ k[2] \in Int /\ g \in Int
      BY DEF Key, Generation
    <2>2. StepOf(k) /\ StepOf(j)
      BY <2>1, StepOfAKey
    <2>3. Recurs(j)
      <3>1. CASE Present(k)
        BY <3>1 DEF OneOpenGeneration, Recurs
      <3>2. CASE ~Present(k)
        <4> DEFINE p == <<k[1], k[2] - 1>>
        <4>1. Opens(k)
          BY <2>2, <3>2, PresentStays DEF OpensRow
        <4>2. k[2] > 1 /\ IsLatest(p) /\ Recurs(p) /\ p \in Key /\ p[1] = k[1] /\ p[2] = k[2] - 1
          <5>1. ~(k[2] = 1 /\ \A h \in Generation : ~Present(<<k[1], h>>)) => k[2] > 1
            BY <4>1 DEF Opens
          <5>2. k[2] # 1
            BY <2>1, BoundAssumption DEF Generation
          <5>3. k[2] - 1 \in Generation
            BY <2>1, <5>2, BoundAssumption DEF Generation
          <5>4. p \in Key
            BY <2>1, <5>3 DEF Key
          <5>5. QED BY <4>1, <5>2, <5>4 DEF Opens
        <4>3. CASE g = k[2] - 1
          BY <4>2, <4>3
        <4>4. CASE g < k[2] - 1
          BY <4>2, <4>4 DEF OneOpenGeneration, IsLatest, Recurs
        <4>5. QED BY <2>1, <4>3, <4>4
      <3>3. QED BY <3>1, <3>2
    <2>4. rows'[j] = rows[j]
      BY <2>1, <2>2, <2>3, ClosedIsHistory
    <2>5. QED BY <2>3, <2>4 DEF Recurs
  <1>3. QED BY <1>1, <1>2, TypeCorrect, WaitingIsLeased, PTL DEF Spec

-----------------------------------------------------------------------------
(* Notifications *)

\* A notification is queued exactly for the generations that ended in its
\* terminal: the three programs that end a generation exclude one another.
THEOREM NotificationsAreEnds == Spec => []IntentIffNotifiable
  <1>1. Init => IntentIffNotifiable
    BY DEF Init, IntentIffNotifiable, NoRow, Notifiable
  <1>2. TypeOK /\ WakeSentIffLeased /\ IntentIffNotifiable /\ [Next]_vars => IntentIffNotifiable'
    <2> SUFFICES ASSUME TypeOK, WakeSentIffLeased, IntentIffNotifiable, [Next]_vars,
                        NEW k \in Key, NEW t \in Notifiable
                 PROVE  <<k, t>> \in intents' <=> rows'[k].lifecycle = t
      BY DEF IntentIffNotifiable
    <2>1. StepOf(k) /\ rows[k] \in Row /\ (<<k, t>> \in intents <=> rows[k].lifecycle = t)
      BY StepOfAKey DEF TypeOK, IntentIffNotifiable
    <2>2. CASE Stays(k) \/ ClosesRow(k)
      BY <2>1, <2>2 DEF Stays, ClosesRow, NotesKept, Row
    <2>3. CASE OpensRow(k)
      BY <2>1, <2>3 DEF OpensRow, Opened, NoRow, NotesKept, Notifiable, Present
    <2>4. CASE RenewsRow(k)
      BY <2>1, <2>4 DEF RenewsRow, Renewed, NotesKept, Row
    <2>5. CASE ResolvesRow(k)
      BY <2>1, <2>5 DEF ResolvesRow, Resolved, NotesKept, Row, Notifiable
    <2>6. CASE AcceptsAck(k) \/ GivesUp(k)
      BY <2>1, <2>6 DEF AcceptsAck, GivesUp, Ended, Noted, Row, Notifiable
    <2>7. CASE RetriesRow(k)
      BY <2>1, <2>7 DEF RetriesRow, Rescheduled, NotesKept, Row, Notifiable
    <2>8. CASE WakesManager(k)
      BY <2>1, <2>8 DEF WakesManager, Woken, NotesKept, Row, Notifiable, Eligible
    <2>9. QED BY <2>1, <2>2, <2>3, <2>4, <2>5, <2>6, <2>7, <2>8 DEF StepOf, LooksAt
  <1>3. QED BY <1>1, <1>2, TypeCorrect, WaitingIsLeased, PTL DEF Spec

-----------------------------------------------------------------------------
(* Attempts are numbered, and each is leased once *)

\* The count of a row is the number of its attempts, which are the first ones.
NumberedOf(k) ==
  /\ ~Present(k) => rows[k].attempt_count = 0
  /\ \A n \in AttemptNo : attempts[<<k, n>>].state # "none" <=> n <= rows[k].attempt_count

\* It holds of every generation.
Numbered == \A k \in Key : NumberedOf(k)

\* What settling does to the fields of an attempt.
LEMMA SettledFields ==
  ASSUME NEW att \in AttemptRow, NEW s
  PROVE  /\ Settled(att, s).state = s
         /\ Settled(att, s).acquired = att.acquired
         /\ Settled(att, s).expires = att.expires
         /\ Settled(att, s).finished_at = att.finished_at
  BY DEF Settled, AttemptRow

\* A settled attempt existed and exists, and so do the others.
LEMMA SettlingNumbered ==
  ASSUME TypeOK, NEW k \in Key, NEW s \in {"ack_valid", "expired", "superseded"},
         AttemptSettled(k, s), NumberedOf(k), rows'[k].attempt_count = rows[k].attempt_count,
         rows'[k].lifecycle # "absent"
  PROVE  NumberedOf(k)'
  <1>1. \A n \in AttemptNo : <<k, n>> \in Attempt /\ attempts[<<k, n>>] \in AttemptRow
    BY DEF Attempt, TypeOK
  <1>2. \A n \in AttemptNo :
          attempts'[<<k, n>>].state # "none" <=> attempts[<<k, n>>].state # "none"
    BY <1>1, SettledFields DEF AttemptSettled, Kept, Leased
  <1>3. QED BY <1>2 DEF NumberedOf, Present

\* Attempts are taken in order, none twice.
LEMMA AttemptsNumbered == Spec => []Numbered
  <1>1. Init => Numbered
    BY PolicyAssumption DEF Init, Numbered, NumberedOf, NoRow, NoAttemptRow, Attempt, AttemptNo
  <1>2. TypeOK /\ WakeSentIffLeased /\ Numbered /\ [Next]_vars => Numbered'
    <2> SUFFICES ASSUME TypeOK, WakeSentIffLeased, Numbered, [Next]_vars, NEW k \in Key
                 PROVE  NumberedOf(k)'
      BY DEF Numbered
    <2>1. StepOf(k) /\ rows[k] \in Row /\ NumberedOf(k)
      BY StepOfAKey DEF TypeOK, Numbered
    <2>2. CASE /\ AttemptsKept(k)
               /\ rows'[k].attempt_count = rows[k].attempt_count
               /\ Present(k)' <=> Present(k)
      BY <2>1, <2>2 DEF AttemptsKept, Kept, NumberedOf
    <2>3. CASE Stays(k) \/ ClosesRow(k)
      BY <2>1, <2>2, <2>3 DEF Stays, ClosesRow, Present, Row
    <2>4. CASE OpensRow(k)
      BY <2>1, <2>4 DEF OpensRow, Opened, NoRow, AttemptsKept, Kept, NumberedOf, Present
    <2>5. CASE RenewsRow(k)
      BY <2>1, <2>2, <2>5 DEF RenewsRow, Renewed, Present, Row
    <2>6. CASE ResolvesRow(k)
      <3>1. /\ rows'[k].attempt_count = rows[k].attempt_count
            /\ rows'[k].lifecycle = "resolved" /\ Present(k)
        BY <2>1, <2>6 DEF ResolvesRow, Resolved, Row, Present
      <3>2. QED BY <2>1, <2>2, <2>6, <3>1, SettlingNumbered DEF ResolvesRow, Present
    <2>7. CASE AcceptsAck(k) \/ GivesUp(k) \/ RetriesRow(k)
      <3>1. /\ rows'[k].attempt_count = rows[k].attempt_count
            /\ rows'[k].lifecycle # "absent"
        BY <2>1, <2>7 DEF AcceptsAck, GivesUp, RetriesRow, Ended, Rescheduled, Row
      <3>2. QED BY <2>1, <2>7, <3>1, SettlingNumbered DEF AcceptsAck, GivesUp, RetriesRow
    <2>8. CASE WakesManager(k)
      <3> DEFINE n == rows[k].attempt_count + 1
      <3>1. /\ n \in AttemptNo /\ attempts'[<<k, n>>].state = "leased"
            /\ \A m \in AttemptNo \ {n} : attempts'[<<k, m>>].state = attempts[<<k, m>>].state
        BY <2>8 DEF WakesManager, NewLease, Kept
      <3>2. rows'[k].attempt_count = n /\ rows'[k].lifecycle = "wake_sent"
        BY <2>1, <2>8 DEF WakesManager, Woken, Row
      <3>3. \A m \in AttemptNo : m \in Int /\ rows[k].attempt_count \in Int
        BY <2>1 DEF AttemptNo, Row
      <3>4. QED BY <2>1, <3>1, <3>2, <3>3 DEF NumberedOf, Present
    <2>9. QED BY <2>1, <2>3, <2>4, <2>5, <2>6, <2>7, <2>8 DEF StepOf, LooksAt
  <1>3. QED BY <1>1, <1>2, TypeCorrect, WaitingIsLeased, PTL DEF Spec

\* What is settled is unchanged, and a lease neither moves nor is taken again.
LEMMA AttemptGoesOn ==
  ASSUME TypeOK, WakeSentIffLeased, Numbered, [Next]_vars, NEW a \in Attempt,
         attempts[a].state # "none"
  PROVE  /\ attempts'[a].state # "none"
         /\ attempts[a].state # "leased" => attempts'[a].state = attempts[a].state
         /\ attempts'[a].acquired = attempts[a].acquired
         /\ attempts'[a].expires = attempts[a].expires
         /\ attempts[a].finished_at # NoTime
              => attempts'[a].finished_at = attempts[a].finished_at
  <1> DEFINE k == a[1]
             n == a[2]
  <1>1. k \in Key /\ n \in AttemptNo /\ a = <<k, n>> /\ attempts[a] \in AttemptRow
    BY DEF Attempt, TypeOK
  <1>2. StepOf(k) /\ rows[k] \in Row
    BY <1>1, StepOfAKey DEF TypeOK
  <1>3. CASE Kept(a)
    BY <1>3 DEF Kept
  <1>4. ASSUME NEW s \in {"ack_valid", "expired", "superseded"}, AttemptSettled(k, s)
        PROVE  \/ Kept(a)
               \/ Leased(a) /\ attempts'[a] = Settled(attempts[a], s)
    BY <1>1, <1>4 DEF AttemptSettled
  <1>5. ASSUME NEW s \in {"ack_valid", "expired", "superseded"}, Leased(a),
               attempts'[a] = Settled(attempts[a], s)
        PROVE  /\ attempts'[a].state # "none"
               /\ attempts'[a].acquired = attempts[a].acquired
               /\ attempts'[a].expires = attempts[a].expires
               /\ attempts'[a].finished_at = attempts[a].finished_at
    BY <1>1, <1>5, SettledFields
  <1>6. CASE WakesManager(k)
    <2>1. n # rows[k].attempt_count + 1
      <3>1. n <= rows[k].attempt_count
        BY <1>1 DEF Numbered, NumberedOf
      <3>2. QED BY <1>1, <1>2, <3>1 DEF AttemptNo, Row
    <2>2. Kept(a)
      BY <1>1, <1>6, <2>1 DEF WakesManager
    <2>3. QED BY <1>3, <2>2
  <1>7. CASE Stays(k) \/ OpensRow(k) \/ RenewsRow(k) \/ ClosesRow(k)
    <2>1. Kept(a)
      BY <1>1, <1>7 DEF Stays, OpensRow, RenewsRow, ClosesRow, AttemptsKept
    <2>2. QED BY <1>3, <2>1
  <1>8. CASE ResolvesRow(k) \/ AcceptsAck(k) \/ GivesUp(k) \/ RetriesRow(k)
    <2>1. \/ AttemptsKept(k)
          \/ \E s \in {"ack_valid", "expired", "superseded"} : AttemptSettled(k, s)
      BY <1>8 DEF ResolvesRow, AcceptsAck, GivesUp, RetriesRow
    <2>2. \/ Kept(a)
          \/ \E s \in {"ack_valid", "expired", "superseded"} :
               Leased(a) /\ attempts'[a] = Settled(attempts[a], s)
      BY <1>1, <1>4, <2>1 DEF AttemptsKept
    <2>3. QED BY <1>3, <1>5, <2>2 DEF Leased
  <1>9. QED BY <1>2, <1>6, <1>7, <1>8 DEF StepOf, LooksAt

\* No step takes an attempt out of the state it was settled in, and no lease is
\* extended: a number is leased once.
THEOREM SettledForGood == Spec => SettledAttemptIsFinal
  <1>1. TypeOK /\ WakeSentIffLeased /\ Numbered /\ [Next]_vars =>
          [\A a \in Attempt :
             /\ attempts[a].state \notin {"none", "leased"}
                  => attempts'[a].state = attempts[a].state
             /\ attempts[a].state # "none"
                  => attempts'[a].expires = attempts[a].expires]_vars
    BY AttemptGoesOn
  <1>2. QED
    BY <1>1, TypeCorrect, WaitingIsLeased, AttemptsNumbered, PTL
    DEF Spec, SettledAttemptIsFinal

-----------------------------------------------------------------------------
(* A late answer decides nothing *)

\* A generation that ended keeps its end and its attempts.
LEMMA EndedStays ==
  ASSUME TypeOK, NEW k \in Key, StepOf(k), rows[k].lifecycle \in Terminal
  PROVE  /\ rows'[k].lifecycle = rows[k].lifecycle
         /\ rows'[k].attempt_count = rows[k].attempt_count
         /\ AttemptsKept(k)
  <1>1. rows[k] \in Row
    BY DEF TypeOK
  <1>2. Stays(k) \/ RenewsRow(k) \/ ClosesRow(k)
    BY DEF StepOf, LooksAt, OpensRow, ResolvesRow, AcceptsAck, GivesUp, RetriesRow, WakesManager,
       Eligible, Present, Terminal
  <1>3. QED BY <1>1, <1>2 DEF Stays, RenewsRow, ClosesRow, Renewed, Row

\* The answer of the attempt is known and lies inside its lease.
InLease(a) ==
  /\ attempts[a].finished_at # NoTime
  /\ attempts[a].acquired <= attempts[a].finished_at
  /\ attempts[a].finished_at <= attempts[a].expires

\* A router that has chosen a route by an answer.
Decides(r) == router[r].pc \in {"revalidate", "import", "resolve"}

\* What a router holds was leased once, and what it decides by is in time.
HandOf(r) ==
  /\ router[r].attempt # NoAttempt => attempts[router[r].attempt].state # "none"
  /\ Decides(r) => InLease(router[r].attempt)

\* An accepted answer ended its generation, by its last attempt, in time.
AcceptedOf(a) ==
  attempts[a].state = "ack_valid" =>
    /\ InLease(a)
    /\ rows[a[1]].lifecycle = "human_required"
    /\ rows[a[1]].attempt_count = a[2]

\* The inductive invariant behind AckWithinLease.
AckInv == (\A r \in Router : HandOf(r)) /\ (\A a \in Attempt : AcceptedOf(a))

\* A router comes to hold only what is leased, and decides only by what it
\* found in time.
LEMMA HandMoves ==
  ASSUME TypeOK, [Next]_vars, NEW r \in Router
  PROVE  \/ router'[r].attempt = NoAttempt /\ ~Decides(r)'
         \/ router'[r].attempt \in Attempt /\ Leased(router'[r].attempt) /\ ~Decides(r)'
         \/ /\ router'[r].attempt = router[r].attempt
            /\ Decides(r)' => Decides(r) \/ InLease(router[r].attempt)
  <1>1. CASE UNCHANGED router
    BY <1>1 DEF Decides
  <1>2. ASSUME NEW q \in Router, Route(q)
        PROVE  \/ UNCHANGED router
               \/ Done(q)
               \/ router' = [router EXCEPT ![q] =
                               [pc |-> "read", now |-> clock, attempt |-> NoAttempt]]
               \/ \E a \in Attempt : Leased(a) /\
                    router' = [router EXCEPT ![q].pc = "collect", ![q].attempt = a]
               \/ Goto(q, "collect") \/ Goto(q, "reconcile") \/ Goto(q, "lease")
               \/ Goto(q, "revalidate") /\ InLease(router[q].attempt)
               \/ (Goto(q, "import") \/ Goto(q, "resolve")) /\ Decides(q)
    BY <1>2 DEF Route, RouterStart, RouterRead, RouterCollect, RouterRevalidate, RouterImport,
       RouterResolve, RouterReconcile, RouterLease, RouterAbort, Matches, InLease, Decides
  <1>3. ASSUME NEW q \in Router, Route(q), r # q PROVE UNCHANGED router[r]
    BY <1>2, <1>3 DEF Done, Goto, TypeOK
  <1>4. CASE Route(r)
    <2>1. router[r] \in RouterState /\ router \in [Router -> RouterState]
      BY DEF TypeOK
    <2>2. CASE \/ Done(r)
               \/ router' = [router EXCEPT ![r] =
                               [pc |-> "read", now |-> clock, attempt |-> NoAttempt]]
      BY <2>1, <2>2 DEF Done, RouterIdle, Decides
    <2>3. CASE \E a \in Attempt : Leased(a) /\
                 router' = [router EXCEPT ![r].pc = "collect", ![r].attempt = a]
      BY <2>1, <2>3 DEF RouterState, Decides
    <2>4. ASSUME NEW pc, Goto(r, pc)
          PROVE  router'[r].attempt = router[r].attempt /\ router'[r].pc = pc
      BY <2>1, <2>4 DEF Goto, RouterState
    <2>5. QED BY <1>1, <1>2, <1>4, <2>2, <2>3, <2>4 DEF Decides
  <1>5. \/ UNCHANGED router
        \/ \E q \in Router : Route(q)
    BY DEF Next, vars, Tick, TickStart, TickCollect, TickCommit, TickAbort, BoardChange,
       ManagerFinish, Advance
  <1>6. QED BY <1>1, <1>3, <1>4, <1>5 DEF Decides

\* Only an accepted answer makes an attempt ack_valid.
LEMMA AckAccepts ==
  ASSUME TypeOK, NEW k \in Key, NEW n \in AttemptNo, StepOf(k),
         attempts[<<k, n>>].state # "ack_valid", attempts'[<<k, n>>].state = "ack_valid"
  PROVE  AcceptsAck(k) /\ n = rows[k].attempt_count
  <1>1. ASSUME NEW s \in {"expired", "superseded"} PROVE ~AttemptSettled(k, s)
    <2> SUFFICES ASSUME AttemptSettled(k, s) PROVE FALSE
      OBVIOUS
    <2> DEFINE m == rows[k].attempt_count
    <2>1. m \in AttemptNo /\ attempts'[<<k, m>>] = Settled(attempts[<<k, m>>], s)
      BY DEF AttemptSettled
    <2>2. attempts'[<<k, m>>].state = s
      BY <2>1, SettledFields DEF TypeOK, Attempt
    <2>3. QED BY <2>1, <2>2 DEF AttemptSettled, Kept
  <1>2. ~Kept(<<k, n>>) /\ ~AttemptsKept(k)
    BY DEF AttemptsKept, Kept
  <1>3. ~WakesManager(k)
    <2> SUFFICES ASSUME WakesManager(k) PROVE FALSE
      OBVIOUS
    <2>1. n = rows[k].attempt_count + 1
      BY <1>2 DEF WakesManager
    <2>2. attempts'[<<k, n>>].state = "leased"
      BY <2>1 DEF WakesManager, NewLease
    <2>3. QED BY <2>2
  <1>4. AcceptsAck(k)
    BY <1>1, <1>2, <1>3
    DEF StepOf, LooksAt, Stays, OpensRow, RenewsRow, ClosesRow, ResolvesRow, GivesUp, RetriesRow
  <1>5. QED BY <1>2, <1>4 DEF AcceptsAck, AttemptSettled

\* A manager's answer decides only inside the lease of its own attempt, and
\* what it decided stands.
THEOREM AnswersInTime == Spec => []AckWithinLease
  <1>1. Init => AckInv
    BY DEF Init, AckInv, HandOf, AcceptedOf, Decides, RouterIdle, NoAttemptRow
  <1>2. TypeOK /\ WakeSentIffLeased /\ Numbered /\ AckInv /\ [Next]_vars => AckInv'
    <2> SUFFICES ASSUME TypeOK, WakeSentIffLeased, Numbered, AckInv, [Next]_vars
                 PROVE  AckInv'
      OBVIOUS
    <2>1. ASSUME NEW a \in Attempt, attempts[a].state # "none", InLease(a)
          PROVE  InLease(a)'
      BY <2>1, AttemptGoesOn DEF InLease
    <2>2. ASSUME NEW r \in Router PROVE HandOf(r)'
      <3>1. /\ router[r].attempt \in Attempt \cup {NoAttempt}
            /\ Decides(r) => router[r].attempt \in Attempt
        BY DEF TypeOK, RouterState, Decides
      <3>2. HandOf(r)
        BY DEF AckInv
      <3>3. CASE router'[r].attempt = NoAttempt /\ ~Decides(r)'
        BY <3>3 DEF HandOf
      <3>4. CASE router'[r].attempt \in Attempt /\ Leased(router'[r].attempt) /\ ~Decides(r)'
        BY <3>4, AttemptGoesOn DEF HandOf, Leased
      <3>5. CASE /\ router'[r].attempt = router[r].attempt
                 /\ Decides(r)' => Decides(r) \/ InLease(router[r].attempt)
        <4>1. CASE router[r].attempt = NoAttempt
          <5>1. ~Decides(r)'
            <6>1. router'[r].pc \in {"revalidate", "import", "resolve"}
                  => router'[r].attempt \in Attempt
              BY TypedNext DEF TypeOK
            <6>2. QED BY <3>5, <4>1, <6>1, NoAttemptAssumption DEF Decides
          <5>2. QED BY <3>5, <4>1, <5>1 DEF HandOf
        <4>2. CASE router[r].attempt \in Attempt
          <5>1. attempts[router[r].attempt].state # "none"
            BY <3>2, <4>2, NoAttemptAssumption DEF HandOf
          <5>2. attempts'[router[r].attempt].state # "none"
            BY <4>2, <5>1, AttemptGoesOn
          <5>3. Decides(r)' => InLease(router[r].attempt)'
            BY <2>1, <3>2, <3>5, <4>2, <5>1 DEF HandOf
          <5>4. QED BY <3>5, <5>2, <5>3 DEF HandOf, InLease
        <4>3. QED BY <3>1, <4>1, <4>2
      <3>6. QED BY <3>3, <3>4, <3>5, HandMoves
    <2>3. ASSUME NEW a \in Attempt, attempts'[a].state = "ack_valid"
          PROVE  /\ InLease(a)'
                 /\ rows'[a[1]].lifecycle = "human_required"
                 /\ rows'[a[1]].attempt_count = a[2]
      <3> DEFINE k == a[1]
                 n == a[2]
      <3>1. k \in Key /\ n \in AttemptNo /\ a = <<k, n>>
        BY DEF Attempt
      <3>2. StepOf(k) /\ rows[k] \in Row
        BY <3>1, StepOfAKey DEF TypeOK
      <3>3. CASE attempts[a].state = "ack_valid"
        <4>1. InLease(a) /\ rows[k].lifecycle = "human_required" /\ rows[k].attempt_count = n
          BY <3>3 DEF AckInv, AcceptedOf
        <4>2. InLease(a)'
          BY <2>1, <3>3, <4>1
        <4>3. QED BY <3>1, <3>2, <4>1, <4>2, EndedStays DEF Terminal
      <3>4. CASE attempts[a].state # "ack_valid"
        <4>1. AcceptsAck(k) /\ n = rows[k].attempt_count
          BY <2>3, <3>1, <3>2, <3>4, AckAccepts
        <4>2. PICK r \in Router : router[r].pc = "import" /\ router[r].attempt = a
          BY <3>1, <4>1 DEF AcceptsAck
        <4>3. InLease(a)
          BY <4>2 DEF AckInv, HandOf, Decides
        <4>4. attempts[a].state # "none"
          BY <3>1, <4>1 DEF AcceptsAck, AttemptSettled, Leased
        <4>5. InLease(a)'
          BY <2>1, <4>3, <4>4
        <4>6. QED BY <3>2, <4>1, <4>5 DEF AcceptsAck, Ended, Row
      <3>5. QED BY <3>3, <3>4
    <2>4. QED BY <2>2, <2>3 DEF AckInv, AcceptedOf
  <1>3. AckInv => AckWithinLease
    BY DEF AckInv, AcceptedOf, InLease, AckWithinLease
  <1>4. QED
    BY <1>1, <1>2, <1>3, TypeCorrect, WaitingIsLeased, AttemptsNumbered, PTL DEF Spec

-----------------------------------------------------------------------------
(* Retries are spaced *)

\* An attempt begins only when its row is woken for it.
LEMMA AttemptBegins ==
  ASSUME NEW k \in Key, NEW n \in AttemptNo, StepOf(k),
         attempts[<<k, n>>].state = "none", attempts'[<<k, n>>].state # "none"
  PROVE  WakesManager(k) /\ n = rows[k].attempt_count + 1
  <1>1. ~Kept(<<k, n>>) /\ ~AttemptsKept(k)
    BY DEF AttemptsKept, Kept
  <1>2. ASSUME NEW s PROVE ~AttemptSettled(k, s)
    BY <1>1 DEF AttemptSettled, Leased
  <1>3. WakesManager(k)
    BY <1>1, <1>2
    DEF StepOf, LooksAt, Stays, OpensRow, RenewsRow, ClosesRow, ResolvesRow, AcceptsAck,
        GivesUp, RetriesRow
  <1>4. QED BY <1>1, <1>3 DEF WakesManager

\* The earliest start of an attempt after attempt n of a generation.
EarliestAfter(k, n) == attempts[<<k, n>>].expires + Backoff

\* The inductive invariant behind RetryAfterBackoff: a row that waits for its
\* next attempt remembers when the last one was over.
SpacedOf(k) ==
  /\ \A n \in AttemptNo : n > 1 /\ attempts[<<k, n>>].state # "none" =>
       /\ attempts[<<k, n - 1>>].state = "expired"
       /\ attempts[<<k, n>>].acquired >= EarliestAfter(k, n - 1)
  /\ rows[k].lifecycle = "detected" /\ rows[k].attempt_count > 0 =>
       /\ attempts[<<k, rows[k].attempt_count>>].state = "expired"
       /\ rows[k].next_attempt_at >= EarliestAfter(k, rows[k].attempt_count)

\* It holds of every generation.
Spaced == \A k \in Key : SpacedOf(k)

\* No manager of a generation starts before the backoff after the lease of the
\* one before it, which expired unanswered.
THEOREM RetriesAreSpaced == Spec => []RetryAfterBackoff
  <1>1. Init => Spaced
    BY DEF Init, Spaced, SpacedOf, NoRow, NoAttemptRow, Attempt
  <1>2. TypeOK /\ WakeSentIffLeased /\ Numbered /\ Spaced /\ [Next]_vars => Spaced'
    <2> SUFFICES ASSUME TypeOK, WakeSentIffLeased, Numbered, Spaced, [Next]_vars, NEW k \in Key
                 PROVE  SpacedOf(k)'
      BY DEF Spaced
    <2> DEFINE c == rows[k].attempt_count
    <2>1. /\ StepOf(k) /\ rows[k] \in Row /\ NumberedOf(k) /\ SpacedOf(k)
          /\ c \in 0..MaxAttempts /\ c \in Int
      BY StepOfAKey DEF TypeOK, Numbered, Spaced, Row
    <2>2. \A n \in AttemptNo :
            /\ n \in Int /\ <<k, n>> \in Attempt
            /\ attempts[<<k, n>>].expires \in Int /\ attempts[<<k, n>>].acquired \in Int
      BY DEF Attempt, TypeOK, AttemptRow, AttemptNo, Time, NoTime
    <2>3. ASSUME NEW n \in AttemptNo, n > 1 PROVE n - 1 \in AttemptNo
      BY <2>3, PolicyAssumption DEF AttemptNo
    <2>4. ASSUME NEW n \in AttemptNo, n > 1, attempts'[<<k, n>>].state # "none"
          PROVE  /\ attempts'[<<k, n - 1>>].state = "expired"
                 /\ attempts'[<<k, n>>].acquired >= EarliestAfter(k, n - 1)'
      <3>1. CASE attempts[<<k, n>>].state # "none"
        <4>1. /\ attempts[<<k, n - 1>>].state = "expired"
              /\ attempts[<<k, n>>].acquired >= EarliestAfter(k, n - 1)
          BY <2>1, <2>4, <3>1 DEF SpacedOf
        <4>2. attempts'[<<k, n>>].acquired = attempts[<<k, n>>].acquired
          BY <2>2, <3>1, AttemptGoesOn
        <4>3. /\ attempts'[<<k, n - 1>>].state = "expired"
              /\ attempts'[<<k, n - 1>>].expires = attempts[<<k, n - 1>>].expires
          BY <2>2, <2>3, <2>4, <4>1, AttemptGoesOn
        <4>4. QED BY <4>1, <4>2, <4>3 DEF EarliestAfter
      <3>2. CASE attempts[<<k, n>>].state = "none"
        <4>1. WakesManager(k) /\ n = c + 1
          BY <2>1, <2>4, <3>2, AttemptBegins
        <4>2. c = n - 1 /\ c > 0 /\ c \in AttemptNo
          BY <2>1, <2>2, <2>3, <2>4, <4>1
        <4>3. PICK now \in Time : Eligible(k, now) /\ attempts'[<<k, n>>] = NewLease(now)
          BY <4>1 DEF WakesManager
        <4>4. /\ attempts[<<k, c>>].state = "expired"
              /\ rows[k].next_attempt_at >= EarliestAfter(k, c)
              /\ rows[k].next_attempt_at <= now
          BY <2>1, <4>2, <4>3 DEF SpacedOf, Eligible
        <4>5. attempts'[<<k, n>>].acquired = now
          BY <4>3 DEF NewLease
        <4>6. /\ attempts'[<<k, c>>].state = "expired"
              /\ attempts'[<<k, c>>].expires = attempts[<<k, c>>].expires
          BY <2>2, <4>2, <4>4, AttemptGoesOn
        <4>7. now >= EarliestAfter(k, c)
          BY <2>1, <2>2, <4>2, <4>4, PolicyAssumption DEF EarliestAfter, Row, Time
        <4>8. QED BY <4>2, <4>5, <4>6, <4>7 DEF EarliestAfter
      <3>3. QED BY <3>1, <3>2
    <2>5. ASSUME rows'[k].lifecycle = "detected", rows'[k].attempt_count > 0
          PROVE  /\ attempts'[<<k, rows'[k].attempt_count>>].state = "expired"
                 /\ rows'[k].next_attempt_at
                      >= attempts'[<<k, rows'[k].attempt_count>>].expires + Backoff
      <3>1. CASE /\ rows'[k].attempt_count = c
                 /\ rows'[k].next_attempt_at = rows[k].next_attempt_at
                 /\ rows[k].lifecycle = "detected"
        <4>1. c \in AttemptNo
          BY <2>1, <2>5, <3>1 DEF AttemptNo
        <4>2. /\ attempts[<<k, c>>].state = "expired"
              /\ rows[k].next_attempt_at >= EarliestAfter(k, c)
          BY <2>1, <2>5, <3>1 DEF SpacedOf
        <4>3. /\ attempts'[<<k, c>>].state = "expired"
              /\ attempts'[<<k, c>>].expires = attempts[<<k, c>>].expires
          BY <2>2, <4>1, <4>2, AttemptGoesOn
        <4>4. QED BY <3>1, <4>2, <4>3 DEF EarliestAfter
      <3>2. CASE RetriesRow(k)
        <4>1. PICK now \in Time : /\ attempts[<<k, c>>].expires <= now
                                  /\ rows'[k] = Rescheduled(rows[k], now)
          BY <3>2 DEF RetriesRow
        <4>2. rows'[k].attempt_count = c /\ rows'[k].next_attempt_at = now + Backoff
          BY <2>1, <4>1 DEF Rescheduled, RetryAt, Row
        <4>3. /\ c \in AttemptNo
              /\ attempts'[<<k, c>>] = Settled(attempts[<<k, c>>], "expired")
          BY <3>2 DEF RetriesRow, AttemptSettled
        <4>4. /\ attempts'[<<k, c>>].state = "expired"
              /\ attempts'[<<k, c>>].expires = attempts[<<k, c>>].expires
          BY <2>2, <4>3, SettledFields DEF TypeOK
        <4>5. attempts[<<k, c>>].expires + Backoff <= now + Backoff
          BY <2>2, <4>1, <4>3, PolicyAssumption DEF Time
        <4>6. QED BY <4>2, <4>4, <4>5 DEF EarliestAfter
      <3>3. CASE OpensRow(k)
        BY <2>5, <3>3 DEF OpensRow, Opened, NoRow
      <3>4. CASE \/ Stays(k) \/ RenewsRow(k) \/ ClosesRow(k)
        BY <2>1, <2>5, <3>1, <3>4 DEF Stays, RenewsRow, Renewed, ClosesRow, Row
      <3>5. CASE \/ ResolvesRow(k) \/ AcceptsAck(k) \/ GivesUp(k) \/ WakesManager(k)
        BY <2>1, <2>5, <3>5 DEF ResolvesRow, Resolved, AcceptsAck, GivesUp, Ended,
           WakesManager, Woken, Row
      <3>6. QED BY <2>1, <3>2, <3>3, <3>4, <3>5 DEF StepOf, LooksAt
    <2>6. QED BY <2>4, <2>5 DEF SpacedOf, EarliestAfter
  <1>3. Spaced => RetryAfterBackoff
    BY DEF Spaced, SpacedOf, EarliestAfter, RetryAfterBackoff
  <1>4. QED
    BY <1>1, <1>2, <1>3, TypeCorrect, WaitingIsLeased, AttemptsNumbered, PTL DEF Spec

-----------------------------------------------------------------------------
(* Wakes are persistent *)

\* The inductive invariant behind WakesArePersistent: an open row was observed
\* in every committed tick since it opened, the last one included, so a tick
\* that sees it again never starts its count anew.
ObservedOf(k) ==
  Present(k) =>
    /\ rows[k].observed_ticks = rows[k].last_tick - rows[k].first_tick + 1
    /\ ~rows[k].clean_tick => rows[k].last_tick = tick_seq
    /\ rows[k].clean_tick => rows[k].lifecycle \in Terminal
    /\ rows[k].disposition = "active" \/ rows[k].attempt_count > 0
         => rows[k].observed_ticks >= Persistence

\* It holds of every generation.
ObservedThroughout == \A k \in Key : ObservedOf(k)

\* The open generation of an incident is its latest.
LEMMA OpenIsLatest ==
  ASSUME OneOpenGeneration, NEW k \in Key, IsOpen(k)
  PROVE  IsLatest(k)
  <1>1. k = <<k[1], k[2]>> /\ k[1] \in Incident /\ k[2] \in Generation
    BY DEF Key
  <1>2. SUFFICES ASSUME NEW g \in Generation, g > k[2], Present(<<k[1], g>>) PROVE FALSE
    BY DEF IsLatest, IsOpen
  <1>3. <<k[1], g>> \in Key /\ k[2] < g
    BY <1>1, <1>2 DEF Key, Generation
  <1>4. rows[k].clean_tick
    BY <1>1, <1>2, <1>3 DEF OneOpenGeneration
  <1>5. QED BY <1>4 DEF IsOpen

\* A manager is woken only for a condition seen in Persistence consecutive
\* committed ticks, whatever ticks lost their race in between.
THEOREM WakesPersist == Spec => []WakesArePersistent
  <1>1. Init => ObservedThroughout
    BY DEF Init, ObservedThroughout, ObservedOf, NoRow, Present
  <1>2. TypeOK /\ WakeSentIffLeased /\ OneOpenGeneration /\ Numbered /\ ObservedThroughout
          /\ [Next]_vars => ObservedThroughout'
    <2> SUFFICES ASSUME TypeOK, WakeSentIffLeased, OneOpenGeneration, Numbered,
                        ObservedThroughout, [Next]_vars, NEW k \in Key
                 PROVE  ObservedOf(k)'
      BY DEF ObservedThroughout
    <2>1. /\ StepOf(k) /\ rows[k] \in Row /\ tick_seq \in Nat /\ ObservedOf(k)
          /\ Persistence \in Nat \ {0}
      BY StepOfAKey, PolicyAssumption DEF TypeOK, ObservedThroughout
    <2>2. IsOpen(k) => IsLatest(k)
      BY OpenIsLatest
    <2>3. CASE Stays(k)
      BY <2>1, <2>2, <2>3 DEF Stays, ObservedOf, IsOpen, Present
    <2>4. CASE OpensRow(k)
      <3>1. PICK gap \in BOOLEAN : rows'[k] = Opened(tick_seq + 1, gap)
        BY <2>4 DEF OpensRow
      <3>2. tick_seq' = tick_seq + 1
        BY <2>4 DEF OpensRow
      <3>3. QED BY <2>1, <3>1, <3>2 DEF Opened, NoRow, DispositionOf, ObservedOf, Present
    <2>5. CASE RenewsRow(k)
      <3>1. PICK gap \in BOOLEAN : rows'[k] = Renewed(rows[k], tick_seq + 1, gap)
        BY <2>5 DEF RenewsRow
      <3>2. Continues(k) /\ tick_seq' = tick_seq + 1
        BY <2>5 DEF RenewsRow
      <3>3. Present(k) /\ ~rows[k].clean_tick /\ rows[k].last_tick = tick_seq
        BY <2>1, <3>2 DEF Continues, Recurs, IsLatest, ObservedOf
      <3>4. /\ rows'[k].last_tick = tick_seq + 1
            /\ rows'[k].first_tick = rows[k].first_tick
            /\ rows'[k].observed_ticks = rows[k].observed_ticks + 1
            /\ rows'[k].attempt_count = rows[k].attempt_count
            /\ rows'[k].clean_tick = FALSE
            /\ rows'[k].disposition = IF rows[k].lifecycle = "detected"
                                      THEN DispositionOf(rows[k].observed_ticks + 1, gap)
                                      ELSE rows[k].disposition
        BY <2>1, <3>1, <3>3 DEF Renewed, Row
      <3>5. /\ rows[k].observed_ticks \in Nat /\ rows[k].last_tick \in Nat
            /\ rows[k].first_tick \in Nat
        BY <2>1 DEF Row
      <3>6. rows'[k].observed_ticks = rows'[k].last_tick - rows'[k].first_tick + 1
        BY <2>1, <3>3, <3>4, <3>5 DEF ObservedOf
      <3>7. rows'[k].disposition = "active" \/ rows'[k].attempt_count > 0
              => rows'[k].observed_ticks >= Persistence
        BY <2>1, <3>3, <3>4, <3>5 DEF ObservedOf, DispositionOf
      <3>8. QED BY <3>2, <3>4, <3>6, <3>7 DEF ObservedOf
    <2>6. CASE ClosesRow(k)
      BY <2>1, <2>6 DEF ClosesRow, ObservedOf, IsOpen, Present, Row
    <2>7. CASE ResolvesRow(k)
      BY <2>1, <2>7 DEF ResolvesRow, Resolved, ObservedOf, Present, Terminal, Row
    <2>8. CASE AcceptsAck(k) \/ GivesUp(k)
      BY <2>1, <2>8 DEF AcceptsAck, GivesUp, Ended, ObservedOf, Present, Terminal, Row
    <2>9. CASE RetriesRow(k)
      BY <2>1, <2>9 DEF RetriesRow, Rescheduled, ObservedOf, Present, Terminal, Row
    <2>10. CASE WakesManager(k)
      BY <2>1, <2>10 DEF WakesManager, Woken, Eligible, ObservedOf, Present, Terminal, Row
    <2>11. QED BY <2>1, <2>3, <2>4, <2>5, <2>6, <2>7, <2>8, <2>9, <2>10 DEF StepOf, LooksAt
  <1>3. ObservedThroughout /\ Numbered => WakesArePersistent
    BY DEF ObservedThroughout, ObservedOf, Numbered, NumberedOf, WakesArePersistent
  <1>4. QED
    BY <1>1, <1>2, <1>3, TypeCorrect, WaitingIsLeased, GenerationsFollow, AttemptsNumbered, PTL
    DEF Spec

-----------------------------------------------------------------------------
(* The budget counts *)

\* The attempts leased with a timestamp of the day.
LeasedOn(d) ==
  {a \in Attempt : attempts[a].state # "none" /\ DayOf(attempts[a].acquired) = d}

\* The inductive invariant behind BudgetCountsAttempts.
CountedOf(d) ==
  /\ IsFiniteSet(LeasedOn(d))
  /\ used[d] = Cardinality(LeasedOn(d))
  /\ used[d] <= DailyLimit

\* It holds of every day.
Counted == \A d \in Day : CountedOf(d)

\* A day whose attempts and whose budget row stay as they are stays counted.
LEMMA CountedStays ==
  ASSUME NEW d \in Day, CountedOf(d), LeasedOn(d)' = LeasedOn(d), used'[d] = used[d]
  PROVE  CountedOf(d)'
  BY DEF CountedOf

\* The attempts of each day stay what they are unless one begins.
LEMMA LeasedOnStays ==
  ASSUME TypeOK, WakeSentIffLeased, Numbered, [Next]_vars, NEW d,
         \A a \in Attempt : attempts[a].state = "none" => attempts'[a].state = "none"
  PROVE  LeasedOn(d)' = LeasedOn(d)
  <1>1. ASSUME NEW a \in Attempt, attempts[a].state # "none"
        PROVE  attempts'[a].state # "none" /\ attempts'[a].acquired = attempts[a].acquired
    BY <1>1, AttemptGoesOn
  <1>2. QED BY <1>1 DEF LeasedOn, DayOf

\* Steps other than a lease begin no attempt and spend no budget.
LEMMA OnlyLeasesSpend ==
  ASSUME TypeOK, [Next]_vars
  PROVE  \/ \E r \in Router, k \in Key : RouterLease(r) /\ Leases(r, k)
         \/ /\ UNCHANGED used
            /\ \A a \in Attempt : attempts[a].state = "none" => attempts'[a].state = "none"
  <1>1. CASE UNCHANGED <<attempts, used>>
    BY <1>1
  <1>2. ASSUME NEW t \in Ticker, Tick(t)
        PROVE  /\ UNCHANGED used
               /\ \A a \in Attempt : attempts[a].state = "none" => attempts'[a].state = "none"
    BY <1>2 DEF Tick, TickStart, TickCollect, TickCommit, TickAbort, Supersedes, Leased, ledger
  <1>3. ASSUME NEW r \in Router, RouterImport(r) \/ RouterResolve(r) \/ RouterReconcile(r)
        PROVE  /\ UNCHANGED used
               /\ \A a \in Attempt : attempts[a].state = "none" => attempts'[a].state = "none"
    <2>1. CASE RouterReconcile(r)
      BY <2>1 DEF RouterReconcile, Expired, Leased
    <2>2. CASE RouterImport(r) \/ RouterResolve(r)
      BY <2>2 DEF RouterImport, RouterResolve, Leased, TypeOK
    <2>3. QED BY <1>3, <2>1, <2>2
  <1>4. ASSUME NEW b \in Attempt, ManagerFinish(b)
        PROVE  /\ UNCHANGED used
               /\ \A a \in Attempt : attempts[a].state = "none" => attempts'[a].state = "none"
    BY <1>4 DEF ManagerFinish, TypeOK, AttemptRow
  <1>5. ASSUME NEW r \in Router, RouterLease(r)
        PROVE  UNCHANGED <<attempts, used>> \/ \E k \in Key : Leases(r, k)
    BY <1>5, LeaseCases
  <1>6. \/ UNCHANGED <<attempts, used>>
        \/ \E t \in Ticker : Tick(t)
        \/ \E r \in Router : RouterImport(r) \/ RouterResolve(r) \/ RouterReconcile(r)
                             \/ RouterLease(r)
        \/ \E b \in Attempt : ManagerFinish(b)
    BY DEF Next, Route, RouterStart, RouterRead, RouterCollect, RouterRevalidate, RouterAbort,
       BoardChange, Advance, vars, ledger
  <1>7. QED BY <1>1, <1>2, <1>3, <1>4, <1>5, <1>6

\* A lease adds one attempt to its day and one unit to the day's budget, which
\* had one left.
LEMMA LeaseSpends ==
  ASSUME TypeOK, Numbered, NEW r \in Router, NEW k \in Key, RouterLease(r), Leases(r, k)
  PROVE  LET a == <<k, rows[k].attempt_count + 1>>
         IN  /\ a \in Attempt
             /\ attempts[a].state = "none"
             /\ attempts'[a].state # "none"
             /\ DayOf(attempts'[a].acquired) = DayOf(router[r].now)
             /\ \A b \in Attempt \ {a} : attempts'[b] = attempts[b]
             /\ BudgetLeft(DayOf(router[r].now))
             /\ used' = [used EXCEPT ![DayOf(router[r].now)] = @ + 1]
  <1> DEFINE n == rows[k].attempt_count + 1
             a == <<k, n>>
             now == router[r].now
  <1>1. n \in AttemptNo /\ n \in Int /\ rows[k].attempt_count \in Int /\ a \in Attempt
    BY PolicyAssumption DEF Leases, Selected, Eligible, TypeOK, Row, AttemptNo, Attempt
  <1>2. attempts[a].state = "none"
    BY <1>1 DEF Numbered, NumberedOf
  <1>3. attempts'[a] = NewLease(now) /\ \A b \in Attempt \ {a} : attempts'[b] = attempts[b]
    BY <1>1 DEF Leases, TypeOK
  <1>4. attempts'[a].state = "leased" /\ attempts'[a].acquired = now
    BY <1>3 DEF NewLease
  <1>5. used' = [used EXCEPT ![DayOf(now)] = @ + 1]
    BY DEF Leases
  <1>6. BudgetLeft(DayOf(now))
    <2>1. DayOf(now) \in Day /\ used[DayOf(now)] \in Int
      BY DayTyped DEF TypeOK, RouterState
    <2>2. used' # used
      BY <1>5, <2>1 DEF TypeOK
    <2>3. QED BY <2>2 DEF RouterLease
  <1>7. QED BY <1>1, <1>2, <1>3, <1>4, <1>5, <1>6

\* The wake budget of a day counts exactly the managers woken with a timestamp
\* of that day, and the limit holds, whatever interleaves and crashes.
THEOREM BudgetIsExact == Spec => []BudgetCountsAttempts
  <1>1. Init => Counted
    <2> SUFFICES ASSUME Init, NEW d \in Day PROVE CountedOf(d)
      BY DEF Counted
    <2>1. LeasedOn(d) = {}
      BY DEF Init, LeasedOn, NoAttemptRow
    <2>2. QED BY <2>1, FS_EmptySet, PolicyAssumption DEF Init, CountedOf
  <1>2. TypeOK /\ WakeSentIffLeased /\ Numbered /\ Counted /\ [Next]_vars => Counted'
    <2> SUFFICES ASSUME TypeOK, WakeSentIffLeased, Numbered, Counted, [Next]_vars,
                        NEW d \in Day
                 PROVE  CountedOf(d)'
      BY DEF Counted, Day
    <2>1. CountedOf(d)
      BY DEF Counted
    <2>2. CASE /\ UNCHANGED used
               /\ \A a \in Attempt : attempts[a].state = "none" => attempts'[a].state = "none"
      <3>1. LeasedOn(d)' = LeasedOn(d)
        BY <2>2, LeasedOnStays
      <3>2. QED BY <2>1, <2>2, <3>1, CountedStays
    <2>3. ASSUME NEW r \in Router, NEW k \in Key, RouterLease(r), Leases(r, k)
          PROVE  CountedOf(d)'
      <3> DEFINE a == <<k, rows[k].attempt_count + 1>>
                 day == DayOf(router[r].now)
      <3>1. /\ a \in Attempt /\ attempts[a].state = "none" /\ attempts'[a].state # "none"
            /\ DayOf(attempts'[a].acquired) = day
            /\ \A b \in Attempt \ {a} : attempts'[b] = attempts[b]
            /\ BudgetLeft(day)
            /\ used' = [used EXCEPT ![day] = @ + 1]
        BY <2>3, LeaseSpends
      <3>2. LeasedOn(d)' = LeasedOn(d) \cup {b \in {a} : DayOf(attempts'[b].acquired) = d}
        BY <3>1 DEF LeasedOn, DayOf
      <3>3. a \notin LeasedOn(d)
        BY <3>1 DEF LeasedOn
      <3>4. CASE d = day
        <4>1. LeasedOn(d)' = LeasedOn(d) \cup {a}
          BY <3>1, <3>2, <3>4
        <4>2. /\ IsFiniteSet(LeasedOn(d)')
              /\ Cardinality(LeasedOn(d)') = Cardinality(LeasedOn(d)) + 1
          BY <2>1, <3>3, <4>1, FS_AddElement DEF CountedOf
        <4>3. used'[d] = used[d] + 1 /\ used[d] < DailyLimit /\ used[d] \in Nat
          BY <3>1, <3>4 DEF BudgetLeft, TypeOK
        <4>4. used'[d] <= DailyLimit
          BY <4>3, PolicyAssumption
        <4>5. QED BY <2>1, <4>2, <4>3, <4>4 DEF CountedOf
      <3>5. CASE d # day
        <4>1. LeasedOn(d)' = LeasedOn(d)
          BY <3>1, <3>2, <3>5
        <4>2. used'[d] = used[d]
          BY <3>1, <3>5 DEF TypeOK
        <4>3. QED BY <2>1, <4>1, <4>2, CountedStays
      <3>6. QED BY <3>4, <3>5
    <2>4. QED BY <2>2, <2>3, OnlyLeasesSpend
  <1>3. Counted => BudgetCountsAttempts
    BY DEF Counted, CountedOf, LeasedOn, BudgetCountsAttempts
  <1>4. QED
    BY <1>1, <1>2, <1>3, TypeCorrect, WaitingIsLeased, AttemptsNumbered, PTL DEF Spec

-----------------------------------------------------------------------------
(* What the promise sees of a generation *)

\* A notification is queued for the generation.
Told(k) == \E t \in Notifiable : <<k, t>> \in intents

\* The step leaves all the promise sees of the generation as it is.
Unseen(k) ==
  /\ rows'[k].lifecycle = rows[k].lifecycle
  /\ rows'[k].attempt_count = rows[k].attempt_count
  /\ Told(k)' <=> Told(k)

\* A generation that stays is not seen to move.
LEMMA StaysUnseen == ASSUME NEW k \in Key, Stays(k) PROVE Unseen(k)
  BY DEF Stays, NotesKept, Unseen, Told

\* What a tick makes of a generation is what a look may make of it.
LEMMA LooksSeen ==
  ASSUME TypeOK, Numbered, NEW k \in Key, LooksAt(k)
  PROVE  /\ \/ rows'[k].lifecycle = rows[k].lifecycle
            \/ /\ rows[k].lifecycle = "absent" /\ rows'[k].lifecycle = "detected"
               /\ Opens(k)
            \/ /\ rows[k].lifecycle \in {"detected", "wake_sent"}
               /\ rows'[k].lifecycle = "resolved"
         /\ rows'[k].attempt_count = rows[k].attempt_count
         /\ Told(k)' <=> Told(k)
  <1>1. rows[k] \in Row /\ NumberedOf(k)
    BY DEF TypeOK, Numbered
  <1>2. Told(k)' <=> Told(k)
    BY DEF LooksAt, Stays, OpensRow, RenewsRow, ClosesRow, ResolvesRow, NotesKept, Told
  <1>3. CASE OpensRow(k)
    BY <1>1, <1>2, <1>3 DEF OpensRow, Opened, NoRow, NumberedOf, Present
  <1>4. CASE Stays(k) \/ RenewsRow(k) \/ ClosesRow(k)
    BY <1>1, <1>2, <1>4 DEF Stays, RenewsRow, Renewed, ClosesRow, Row
  <1>5. CASE ResolvesRow(k)
    BY <1>1, <1>2, <1>5 DEF ResolvesRow, Resolved, Row
  <1>6. QED BY <1>3, <1>4, <1>5 DEF LooksAt

\* The generation before the one that opens is over.
LEMMA OpensFollows ==
  ASSUME NEW k \in Key, Opens(k), k[2] # 1
  PROVE  <<k[1], k[2] - 1>> \in Key /\ rows[<<k[1], k[2] - 1>>].lifecycle \in Terminal
  <1>1. k[1] \in Incident /\ k[2] \in Generation
    BY DEF Key
  <1>2. <<k[1], k[2] - 1>> \in Key
    BY <1>1, BoundAssumption DEF Key, Generation
  <1>3. QED BY <1>2 DEF Opens, Recurs

-----------------------------------------------------------------------------
(* Steps *)

\* The generations of the promise are those of the ledger.
LEMMA SameKeys == Promised!AKey = Key
  BY DEF Promised!AKey, Key, Generation

\* A step that only looks is a look, or leaves everything as it was.
LEMMA LookMaps ==
  ASSUME TypeOK, TypeOK', Numbered, \A k \in Key : LooksAt(k)
  PROVE  Promised!Look
  <1> DEFINE stage == [k \in Key |-> rows[k].lifecycle]
             wakes == [k \in Key |-> rows[k].attempt_count]
             told  == {k \in Key : \E t \in Notifiable : <<k, t>> \in intents}
  <1>1. stage' \in [Key -> {"absent"} \cup Promised!Alive \cup Promised!Ended]
    BY DEF TypeOK, Row, Lifecycle, Terminal, Promised!Alive, Promised!Ended
  <1>2. \A k \in Key :
          \/ stage'[k] = stage[k]
          \/ stage[k] = "absent" /\ Promised!Follows(k) /\ stage'[k] = "detected"
          \/ stage[k] \in Promised!Alive /\ stage'[k] = "resolved"
    <2> SUFFICES ASSUME NEW k \in Key
                 PROVE  \/ stage'[k] = stage[k]
                        \/ stage[k] = "absent" /\ Promised!Follows(k) /\ stage'[k] = "detected"
                        \/ stage[k] \in Promised!Alive /\ stage'[k] = "resolved"
      OBVIOUS
    <2>1. Opens(k) => Promised!Follows(k)
      BY OpensFollows DEF Promised!Follows, Promised!Ended, Terminal
    <2>2. QED BY <2>1, LooksSeen DEF Promised!Alive
  <1>3. wakes' = wakes
    BY LooksSeen
  <1>4. told' = told
    BY LooksSeen DEF Told
  <1>5. QED BY <1>1, <1>2, <1>3, <1>4, SameKeys DEF Promised!Look

\* What the promise sees after a step that moves one generation.
LEMMA OneMoves ==
  ASSUME NEW j \in Key, \A k \in Key \ {j} : Unseen(k)
  PROVE  /\ [k \in Key |-> rows'[k].lifecycle] =
              [[k \in Key |-> rows[k].lifecycle] EXCEPT ![j] = rows'[j].lifecycle]
         /\ [k \in Key |-> rows'[k].attempt_count] =
              [[k \in Key |-> rows[k].attempt_count] EXCEPT ![j] = rows'[j].attempt_count]
         /\ (Told(j)' <=> Told(j)) =>
              {k \in Key : \E t \in Notifiable : <<k, t>> \in intents'} =
                {k \in Key : \E t \in Notifiable : <<k, t>> \in intents}
         /\ Told(j)' =>
              {k \in Key : \E t \in Notifiable : <<k, t>> \in intents'} =
                {k \in Key : \E t \in Notifiable : <<k, t>> \in intents} \cup {j}
  BY DEF Unseen, Told

\* An accepted answer escalates.
LEMMA AckMaps ==
  ASSUME TypeOK, NEW j \in Key, AcceptsAck(j), \A k \in Key \ {j} : Unseen(k)
  PROVE  Promised!Escalate(j)
  <1>1. /\ rows[j].lifecycle = "wake_sent"
        /\ rows'[j].lifecycle = "human_required"
        /\ rows'[j].attempt_count = rows[j].attempt_count
        /\ Told(j)'
    BY DEF AcceptsAck, Ended, Noted, Told, Notifiable, TypeOK, Row
  <1>2. QED BY <1>1, OneMoves, SameKeys DEF Promised!Escalate, Promised!End

\* An expiry that leaves no attempt gives up.
LEMMA GiveUpMaps ==
  ASSUME TypeOK, NEW j \in Key, GivesUp(j), \A k \in Key \ {j} : Unseen(k)
  PROVE  Promised!GiveUp(j)
  <1>1. /\ rows[j].lifecycle = "wake_sent"
        /\ rows'[j].lifecycle = "dead_letter"
        /\ rows'[j].attempt_count = rows[j].attempt_count
        /\ Told(j)'
    BY DEF GivesUp, Ended, Noted, Told, Notifiable, TypeOK, Row
  <1>2. rows[j].attempt_count = MaxAttempts
    <2>1. rows[j].attempt_count \in 0..MaxAttempts
      BY DEF TypeOK, Row
    <2>2. QED BY <2>1, PolicyAssumption DEF GivesUp, IsLast
  <1>3. QED BY <1>1, <1>2, OneMoves, SameKeys DEF Promised!GiveUp, Promised!End

\* An expiry that leaves one retries.
LEMMA RetryMaps ==
  ASSUME TypeOK, NEW j \in Key, RetriesRow(j), \A k \in Key \ {j} : Unseen(k)
  PROVE  Promised!Retry(j)
  <1>1. /\ rows[j].lifecycle = "wake_sent"
        /\ rows'[j].lifecycle = "detected"
        /\ rows'[j].attempt_count = rows[j].attempt_count
        /\ Told(j)' <=> Told(j)
    BY DEF RetriesRow, Rescheduled, NotesKept, Told, TypeOK, Row
  <1>2. rows[j].attempt_count < MaxAttempts
    BY PolicyAssumption DEF RetriesRow, IsLast, TypeOK, Row
  <1>3. QED BY <1>1, <1>2, OneMoves, SameKeys DEF Promised!Retry

\* A lease wakes one manager while no other is at work.
LEMMA WakeMaps ==
  ASSUME TypeOK, NEW j \in Key, WakesManager(j), \A k \in Key \ {j} : Unseen(k),
         \A k \in Key : rows[k].lifecycle # "wake_sent"
  PROVE  Promised!Wake(j)
  <1>1. /\ rows[j].lifecycle = "detected"
        /\ rows[j].attempt_count < MaxAttempts
        /\ rows'[j].lifecycle = "wake_sent"
        /\ rows'[j].attempt_count = rows[j].attempt_count + 1
        /\ Told(j)' <=> Told(j)
    <2>1. \E now \in Time : Eligible(j, now)
      BY DEF WakesManager
    <2>2. rows[j] \in Row
      BY DEF TypeOK
    <2>3. rows'[j] = Woken(rows[j], rows[j].attempt_count + 1)
      BY DEF WakesManager
    <2>4. Told(j)' <=> Told(j)
      BY DEF WakesManager, NotesKept, Told
    <2>5. QED BY <2>1, <2>2, <2>3, <2>4 DEF Eligible, Woken, Row
  <1>2. QED BY <1>1, OneMoves, SameKeys DEF Promised!Wake

\* Every step of the ledger is a step of the promise.
LEMMA StepMaps ==
  ASSUME TypeOK, WakeSentIffLeased, Numbered, LeaseInv, [Next]_vars
  PROVE  Promised!ANext
  <1>0. TypeOK'
    BY TypedNext
  <1>1. CASE \A k \in Key : LooksAt(k)
    BY <1>0, <1>1, LookMaps DEF Promised!ANext
  <1>2. ASSUME NEW j \in Key, AcceptsAck(j) \/ GivesUp(j) \/ RetriesRow(j),
               \A k \in Key \ {j} : Stays(k)
        PROVE  Promised!ANext
    <2>1. \A k \in Key \ {j} : Unseen(k)
      BY <1>2, StaysUnseen
    <2>2. QED BY <1>2, <2>1, AckMaps, GiveUpMaps, RetryMaps, SameKeys DEF Promised!ANext
  <1>3. ASSUME NEW t \in Ticker, Tick(t) PROVE Promised!ANext
    BY <1>1, <1>3, TickStepOf
  <1>4. ASSUME NEW r \in Router, RouterImport(r) \/ RouterResolve(r)
        PROVE  Promised!ANext
    <2> DEFINE j == router[r].attempt[1]
    <2>1. j \in Key
      BY <1>4 DEF RouterImport, RouterResolve, TypeOK, Attempt
    <2>2. \A k \in Key : Stays(k) \/ (k = j /\ (AcceptsAck(k) \/ ResolvesRow(k)))
      BY <1>4, DecisionStepOf
    <2>3. CASE AcceptsAck(j)
      BY <1>2, <2>1, <2>2, <2>3
    <2>4. CASE ~AcceptsAck(j)
      BY <1>1, <2>2, <2>4 DEF LooksAt
    <2>5. QED BY <2>3, <2>4
  <1>5. ASSUME NEW r \in Router, RouterReconcile(r)
        PROVE  Promised!ANext
    <2>1. \A k \in Key : Stays(k) \/ GivesUp(k) \/ RetriesRow(k)
      BY <1>5, ReconcileStepOf
    <2>2. ASSUME NEW k \in Key, GivesUp(k) \/ RetriesRow(k)
          PROVE  rows[k].attempt_count \in AttemptNo /\ Leased(<<k, rows[k].attempt_count>>)
      BY <2>2 DEF GivesUp, RetriesRow, AttemptSettled
    <2>3. \A j, k \in Key :
             (GivesUp(j) \/ RetriesRow(j)) /\ (GivesUp(k) \/ RetriesRow(k)) => j = k
      BY <2>2 DEF LeaseInv, AtMostOneLease, Attempt
    <2>4. CASE \A k \in Key : Stays(k)
      BY <1>1, <2>4 DEF LooksAt
    <2>5. CASE \E j \in Key : GivesUp(j) \/ RetriesRow(j)
      BY <1>2, <2>1, <2>3, <2>5
    <2>6. QED BY <2>1, <2>4, <2>5
  <1>6. ASSUME NEW r \in Router, RouterLease(r)
        PROVE  Promised!ANext
    <2>1. CASE ~\E j \in Key : Leases(r, j)
      BY <1>1, <1>6, <2>1, NoLeaseStays DEF LooksAt
    <2>2. ASSUME NEW j \in Key, Leases(r, j) PROVE Promised!ANext
      <3>1. \A a \in Attempt : ~Leased(a)
        BY <1>6, <2>2 DEF RouterLease, Leases, LeaseHeld, LeaseInv, Reconciled
      <3>2. \A k \in Key : rows[k].lifecycle # "wake_sent"
        BY <3>1 DEF WakeSentIffLeased, Attempt
      <3>3. WakesManager(j) /\ \A k \in Key \ {j} : Unseen(k)
        BY <1>6, <2>2, LeaseStepOf, StaysUnseen
      <3>4. QED BY <3>2, <3>3, WakeMaps, SameKeys DEF Promised!ANext
    <2>3. QED BY <2>1, <2>2
  <1>7. CASE \/ \E r \in Router : RouterStart(r) \/ RouterRead(r) \/ RouterCollect(r)
                                  \/ RouterRevalidate(r) \/ RouterAbort(r)
             \/ \E i \in Incident : BoardChange(i)
             \/ \E a \in Attempt : ManagerFinish(a)
             \/ Advance
             \/ UNCHANGED vars
    BY <1>1, <1>7, QuietRouteStepOf, EnvironmentStepOf DEF LooksAt
  <1>8. QED BY <1>3, <1>4, <1>5, <1>6, <1>7 DEF Next, Route

\* Seen through its incidents, the ledger does only what the lifecycle
\* promises, provided no router acts on a timestamp as old as a lease is long.
THEOREM LedgerImplementsLifecycle ==
  ASSUME MaxStall < LeaseSeconds
  PROVE  Spec => ImplementsLifecycle
  <1>1. Init => Promised!AInit
    <2> SUFFICES ASSUME Init PROVE Promised!AInit
      OBVIOUS
    <2>1. \A k \in Key : rows[k].lifecycle = "absent" /\ rows[k].attempt_count = 0
      BY DEF Init, NoRow
    <2>2. intents = {}
      BY DEF Init
    <2>3. QED BY <2>1, <2>2, SameKeys DEF Promised!AInit
  <1>2. TypeOK /\ WakeSentIffLeased /\ Numbered /\ LeaseInv /\ [Next]_vars
          => [Promised!ANext]_(Promised!avars)
    BY StepMaps
  <1>3. QED
    BY <1>1, <1>2, TypeCorrect, WaitingIsLeased, AttemptsNumbered, LeasesApart, PTL
    DEF Spec, ImplementsLifecycle, Promised!ASpec

================================================================================
