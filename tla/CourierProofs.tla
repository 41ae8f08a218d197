----------------------------- MODULE CourierProofs -----------------------------
(***************************************************************************)
(* Theorems about the notification outbox and its couriers, for any number *)
(* of packets and couriers and for any lease, delay and stall: types, that *)
(* each attempt is printed at most once, that sent means delivered, that a *)
(* repeat waits, that no packet overtakes an older one, and, when couriers *)
(* live less than half the retry delay, that a delivery reported in time   *)
(* settles its lease.                                                      *)
(***************************************************************************)
EXTENDS Courier, FiniteSetTheorems, TLAPS

-----------------------------------------------------------------------------
(* Types *)

\* The blank records have their types.
LEMMA BlanksTyped ==
  /\ NoIntent \in Intent
  /\ NoRun \in Run
  /\ CourierIdle \in CourierState
  <1>1. 0 \in Time /\ 1 \in Ticks
    BY CourierAssumption DEF Time, Ticks
  <1>2. NoIntent \in Intent
    BY <1>1 DEF NoIntent, Intent
  <1>3. NoRun \in Run
    BY <1>1 DEF NoRun, Run, Outcome
  <1>4. CourierIdle \in CourierState
    BY <1>1 DEF CourierIdle, CourierState, Outcome
  <1>5. QED BY <1>2, <1>3, <1>4

\* What the courier's transactions make of an intent is an intent.
LEMMA IntentsTyped ==
  ASSUME NEW intent \in Intent, NEW now \in Time
  PROVE  /\ \A outcome \in Outcome : Recorded(intent, outcome, now) \in Intent
         /\ Reaped(intent, now) \in Intent
         /\ Reaped(intent, now).attempts = intent.attempts
         /\ Reaped(intent, now).created = intent.created
         /\ Ready(Reaped(intent, now), now) => Reaped(intent, now) = intent
  <1>1. RetryAt(now) \in Nat /\ RetryAt(now) > now
    BY CourierAssumption DEF RetryAt, Time
  <1>2. ASSUME NEW outcome \in Outcome PROVE Recorded(intent, outcome, now) \in Intent
    BY <1>1 DEF Recorded, Intent
  <1>3. CASE ~(intent.state = "leased" /\ intent.expires <= now)
    <2>1. Reaped(intent, now) = intent
      BY <1>3 DEF Reaped
    <2>2. QED BY <1>2, <2>1
  <1>4. CASE intent.state = "leased" /\ intent.expires <= now
    <2>1. CASE intent.attempts < 2
      <3>1. Reaped(intent, now) = [intent EXCEPT !.state = "pending", !.acquired = NoTime,
                                                 !.expires = NoTime, !.next_at = RetryAt(now)]
        BY <1>4, <2>1 DEF Reaped
      <3>2. /\ Reaped(intent, now) \in Intent
            /\ Reaped(intent, now).attempts = intent.attempts
            /\ Reaped(intent, now).created = intent.created
            /\ Reaped(intent, now).next_at > now
        BY <1>1, <3>1 DEF Intent
      <3>3. QED BY <1>1, <1>2, <3>2 DEF Ready, Intent, Time
    <2>2. CASE ~(intent.attempts < 2)
      <3>1. Reaped(intent, now) = [intent EXCEPT !.state = "failed"]
        BY <1>4, <2>2 DEF Reaped
      <3>2. QED BY <1>2, <3>1 DEF Intent, Ready
    <2>3. QED BY <2>1, <2>2
  <1>5. QED BY <1>3, <1>4

\* Courier c leases p: the second branch of CourierLease, for the witness p.
\* The reaping it starts with has left p as it was.
Leases(c, p) ==
  LET now == courier[c].now IN
  /\ courier[c].pc = "lease"
  /\ Ready(intents[p], now)
  /\ \A q \in Packet \ {p} : Ready(intents[q], now) => Older(p, q)
  /\ intents'[p] = Taken(intents[p], now)
  /\ \A q \in Packet \ {p} : intents'[q] = Reaped(intents[q], now)
  /\ courier' = [courier EXCEPT ![c] =
                   [@ EXCEPT !.pc = "emit", !.packet = p,
                             !.attempt = intents[p].attempts + 1, !.shown = observed[p]]]

\* The transaction leases one packet or only gives leases back.
LEMMA LeaseCases ==
  ASSUME TypeOK, NEW c \in Couriers, CourierLease(c)
  PROVE  /\ intents' = [q \in Packet |-> intents'[q]]
         /\ \/ /\ \A p \in Packet : intents'[p] = Reaped(intents[p], courier[c].now)
               /\ Done(c)
            \/ \E p \in Packet : Leases(c, p)
  <1> DEFINE now == courier[c].now
             reaped == [p \in Packet |-> Reaped(intents[p], now)]
             ready == {p \in Packet : Ready(reaped[p], now)}
  <1>1. now \in Time /\ \A p \in Packet : intents[p] \in Intent
    BY DEF TypeOK, CourierState
  <1>2. \A p \in Packet : Ready(reaped[p], now) => reaped[p] = intents[p]
    BY <1>1, IntentsTyped
  <1>3. \A p \in Packet : Ready(intents[p], now) => reaped[p] = intents[p]
    BY DEF Ready, Reaped
  <1>4. ASSUME NEW p \in ready,
               \A q \in ready \ {p} : Older(p, q),
               intents' = [reaped EXCEPT ![p] = Taken(@, now)],
               courier' = [courier EXCEPT ![c] =
                   [@ EXCEPT !.pc = "emit", !.packet = p,
                             !.attempt = reaped[p].attempts + 1,
                             !.shown = observed[p]]]
        PROVE  intents' = [q \in Packet |-> intents'[q]] /\ Leases(c, p)
    <2>1. Ready(intents[p], now) /\ reaped[p] = intents[p]
      BY <1>2, <1>4
    <2>2. \A q \in Packet \ {p} : Ready(intents[q], now) => Older(p, q)
      BY <1>3, <1>4
    <2>3. \A q \in Packet \ {p} : intents'[q] = Reaped(intents[q], now)
      BY <1>4
    <2>4. intents' = [q \in Packet |-> intents'[q]]
      BY <1>4
    <2>5. intents'[p] = Taken(intents[p], now)
      BY <1>4, <2>1
    <2>6. courier' = [courier EXCEPT ![c] =
                        [@ EXCEPT !.pc = "emit", !.packet = p,
                                  !.attempt = intents[p].attempts + 1, !.shown = observed[p]]]
      BY <1>4, <2>1
    <2>7. courier[c].pc = "lease" /\ p \in Packet
      BY <1>4 DEF CourierLease
    <2>8. Leases(c, p)
      BY <2>1, <2>2, <2>3, <2>5, <2>6, <2>7 DEF Leases
    <2>9. QED BY <2>4, <2>8
  <1>5. QED BY <1>4 DEF CourierLease

\* A courier that has collected, or prints, names a packet: without this the
\* type of what it records does not follow.
Holds == \A c \in Couriers : courier[c].pc \in {"collect", "record", "emit"}
                               => courier[c].packet \in Packet

\* The inductive invariant behind TypeOK.
Typed == TypeOK /\ Holds

\* The ledger's other programs are well typed.
LEMMA LedgerTyped ==
  ASSUME Typed, NEW p \in Packet, Ledger(p)
  PROVE  Typed'
  <1>1. CASE Enqueue(p)
    BY <1>1 DEF Enqueue, Typed, TypeOK, Holds, Intent
  <1>2. CASE TickCounts(p)
    <2>1. observed[p] + 1 \in Ticks
      BY <1>2, CourierAssumption DEF TickCounts, Typed, TypeOK, Holds, Ticks
    <2>2. QED BY <1>2, <2>1 DEF TickCounts, Typed, TypeOK, Holds
  <1>3. CASE Acknowledge(p)
    BY <1>3 DEF Acknowledge, Typed, TypeOK, Holds, Intent
  <1>4. QED BY <1>1, <1>2, <1>3 DEF Ledger

\* The steps of a courier are well typed.
LEMMA DrainTyped ==
  ASSUME Typed, NEW c \in Couriers, Drain(c)
  PROVE  Typed'
  <1> DEFINE me == courier[c]
  <1>0. TypeOK /\ me \in CourierState
    BY DEF Typed, TypeOK
  <1>1. ASSUME Done(c), UNCHANGED <<observed, clock>>,
               intents' \in [Packet -> Intent], runs' \in [Packet \X AttemptNo -> Run]
        PROVE  Typed'
    BY <1>1, BlanksTyped DEF Done, CourierIdle, Typed, TypeOK, Holds
  <1>2. CASE CourierStart(c)
    BY <1>2 DEF CourierStart, Typed, TypeOK, Holds, CourierState
  <1>3. CASE CourierRead(c)
    <2>1. CASE Goto(c, "lease")
      BY <1>3, <2>1 DEF CourierRead, Goto, Typed, TypeOK, Holds, CourierState
    <2>2. ASSUME NEW p \in Packet,
                 courier' = [courier EXCEPT ![c] =
                   [@ EXCEPT !.pc = "collect", !.packet = p,
                             !.acquired = intents[p].acquired,
                             !.expires = intents[p].expires,
                             !.shown = observed[p]]]
          PROVE  Typed'
      <3>1. /\ intents[p].acquired \in Time \cup {NoTime}
            /\ intents[p].expires \in Nat \cup {NoTime}
            /\ observed[p] \in Ticks
        BY DEF Typed, TypeOK, Intent
      <3>2. courier'[c] \in CourierState /\ courier'[c].packet = p
        BY <1>0, <2>2, <3>1 DEF CourierState, Typed, TypeOK
      <3>3. courier' \in [Couriers -> CourierState]
        BY <2>2, <3>2 DEF Typed, TypeOK
      <3>4. Holds'
        BY <2>2, <3>2 DEF Holds, Typed, TypeOK
      <3>5. QED BY <1>3, <3>3, <3>4 DEF CourierRead, Typed, TypeOK
    <2>3. QED BY <1>3, <2>1, <2>2 DEF CourierRead
  <1>4. CASE CourierCollect(c)
    <2>1. ASSUME NEW outcome \in Outcome, Decide(c, outcome)
          PROVE  Typed'
      <3>1. me.packet \in Packet
        BY <1>4 DEF CourierCollect, Typed, Holds
      <3> DEFINE new == [CourierIdle EXCEPT !.pc = "record", !.now = me.now,
                                            !.packet = me.packet, !.outcome = outcome]
      <3>2. new \in CourierState /\ new.packet \in Packet
        BY <1>0, <3>1, BlanksTyped DEF CourierState
      <3>3. courier' = [courier EXCEPT ![c] = new]
        BY <2>1 DEF Decide
      <3>4. courier' \in [Couriers -> CourierState] /\ Holds'
        <4> HIDE DEF new
        <4>1. QED BY <3>2, <3>3 DEF Typed, TypeOK, Holds
      <3>5. QED BY <1>4, <3>4 DEF CourierCollect, Typed, TypeOK
    <2>2. ASSUME NEW n \in AttemptNo PROVE runs[<<me.packet, n>>].outcome \in Outcome
      <3>1. me.packet \in Packet
        BY <1>4 DEF CourierCollect, Typed, Holds
      <3>2. QED BY <3>1 DEF Typed, TypeOK, Run
    <2>3. CASE Done(c)
      BY <1>1, <1>4, <2>3 DEF CourierCollect, Typed, TypeOK
    <2>4. Done(c) \/ \E outcome \in Outcome : Decide(c, outcome)
      BY <1>4, <2>2 DEF CourierCollect, Outcome
    <2>5. QED BY <2>1, <2>3, <2>4
  <1>5. CASE CourierRecord(c)
    <2>1. intents' \in [Packet -> Intent]
      <3>1. \A p \in Packet : Recorded(intents[p], me.outcome, me.now) \in Intent
        BY <1>0, IntentsTyped DEF Typed, TypeOK, Holds, CourierState
      <3>2. CASE me.packet \in Packet
        BY <1>5, <3>1, <3>2 DEF CourierRecord, Typed, TypeOK, Holds
      <3>3. CASE me.packet \notin Packet
        BY <1>5, <3>3 DEF CourierRecord, Typed, TypeOK, Holds
      <3>4. QED BY <3>2, <3>3
    <2>2. QED BY <1>1, <1>5, <2>1 DEF CourierRecord, Typed, TypeOK, Holds
  <1>6. CASE CourierLease(c)
    <2>1. \A p \in Packet : Reaped(intents[p], me.now) \in Intent
      BY <1>0, IntentsTyped DEF Typed, TypeOK, Holds, CourierState
    <2>2. CASE /\ \A p \in Packet : intents'[p] = Reaped(intents[p], me.now)
               /\ Done(c)
      <3>1. intents' \in [Packet -> Intent]
        BY <1>0, <1>6, <2>1, <2>2, LeaseCases
      <3>2. QED BY <1>1, <1>6, <2>2, <3>1 DEF CourierLease, Typed, TypeOK, Holds
    <2>3. ASSUME NEW p \in Packet, Leases(c, p)
          PROVE  Typed'
      <3>1. intents[p] \in Intent /\ intents[p].attempts \in {0, 1}
        BY <2>3 DEF Typed, TypeOK, Holds, Leases, Ready, Intent
      <3>2. Taken(intents[p], me.now) \in Intent
        <4>1. /\ intents[p].attempts + 1 \in 0..2
              /\ me.now \in Time /\ me.now + LeaseSeconds \in Nat
          BY <1>0, <3>1, CourierAssumption DEF CourierState, Time
        <4>2. QED BY <3>1, <4>1 DEF Taken, Intent
      <3>3. \A q \in Packet : intents'[q] \in Intent
        BY <2>1, <2>3, <3>2 DEF Leases
      <3>4. intents' \in [Packet -> Intent]
        BY <1>0, <1>6, <3>3, LeaseCases
      <3> DEFINE new == [me EXCEPT !.pc = "emit", !.packet = p,
                                   !.attempt = intents[p].attempts + 1, !.shown = observed[p]]
      <3>5. new \in CourierState /\ new.packet = p
        <4>1. intents[p].attempts + 1 \in 0..2 /\ observed[p] \in Ticks
          BY <1>0, <3>1 DEF TypeOK
        <4>2. QED BY <1>0, <4>1 DEF CourierState
      <3>6. courier' = [courier EXCEPT ![c] = new]
        BY <2>3 DEF Leases
      <3>7. courier' \in [Couriers -> CourierState] /\ Holds'
        <4> HIDE DEF new
        <4>1. QED BY <3>5, <3>6 DEF Typed, TypeOK, Holds
      <3>8. UNCHANGED <<observed, runs, clock>>
        BY <1>6 DEF CourierLease
      <3>9. QED BY <3>4, <3>7, <3>8 DEF Typed, TypeOK
    <2>4. QED BY <1>0, <1>6, <2>2, <2>3, LeaseCases
  <1>7. CASE CourierEmit(c)
    <2>1. [NoRun EXCEPT !.state = "running", !.started = me.now, !.shown = me.shown] \in Run
      BY <1>0, BlanksTyped DEF Run, CourierState
    <2>2. runs' \in [Packet \X AttemptNo -> Run]
      BY <1>7, <2>1 DEF CourierEmit, Typed, TypeOK, Holds
    <2>3. QED BY <1>1, <1>7, <2>2 DEF CourierEmit, Typed, TypeOK, Holds
  <1>8. CASE CourierAbort(c)
    BY <1>1, <1>8 DEF CourierAbort, Typed, TypeOK, Holds
  <1>9. QED BY <1>2, <1>3, <1>4, <1>5, <1>6, <1>7, <1>8 DEF Drain

\* Hermes and the clock.
LEMMA ExternalTyped ==
  ASSUME Typed, (\E p \in Packet, n \in AttemptNo : HermesFinish(p, n)) \/ Advance
  PROVE  Typed'
  <1>1. ASSUME NEW p \in Packet, NEW n \in AttemptNo, HermesFinish(p, n) PROVE Typed'
    BY <1>1 DEF HermesFinish, Typed, TypeOK, Holds, Run
  <1>2. CASE Advance
    BY <1>2, CourierAssumption DEF Advance, Typed, TypeOK, Holds, Time
  <1>3. QED BY <1>1, <1>2

\* Every step keeps the types.
LEMMA TypedNext == ASSUME Typed, [Next]_vars PROVE Typed'
  <1>1. CASE UNCHANGED vars
    BY <1>1 DEF vars, Typed, TypeOK, Holds
  <1>2. QED BY <1>1, LedgerTyped, DrainTyped, ExternalTyped DEF Next

\* The inductive form of the types.
LEMMA OutboxHolds == Spec => []Typed
  <1>1. Init => Typed
    BY BlanksTyped, CourierAssumption
    DEF Init, Typed, TypeOK, Holds, Time, Ticks, CourierIdle
  <1>2. QED BY <1>1, TypedNext, PTL DEF Spec

\* Every reachable state of the outbox and of its couriers is well typed; in
\* particular no intent has more than two attempts or a lease without an end.
THEOREM OutboxTyped == Spec => []TypeOK
  <1>1. Typed => TypeOK
    BY DEF Typed
  <1>2. QED BY <1>1, OutboxHolds, PTL

-----------------------------------------------------------------------------
(* What one step makes of an intent, of a courier and of a run *)

\* The fields of an intent after the writes of the courier's transactions.
LEMMA IntentFields ==
  ASSUME NEW intent \in Intent, NEW now \in Time, NEW outcome \in Outcome
  PROVE  /\ LET new == Recorded(intent, outcome, now) IN
              /\ new.attempts = intent.attempts /\ new.created = intent.created
              /\ new.state = IF outcome = "delivered" THEN "sent"
                             ELSE IF intent.attempts >= 2 THEN "failed" ELSE "pending"
              /\ new.state = "pending" => new.next_at = now + RetryDelay
         /\ LET new == Reaped(intent, now) IN
              \/ new = intent
              \/ /\ intent.state = "leased" /\ intent.expires <= now
                 /\ new.attempts = intent.attempts /\ new.created = intent.created
                 /\ \/ new.state = "pending" /\ new.next_at = now + RetryDelay
                    \/ new.state = "failed" /\ intent.attempts = 2
         /\ LET new == Taken(intent, now) IN
              /\ new.state = "leased" /\ new.attempts = intent.attempts + 1
              /\ new.created = intent.created
              /\ new.acquired = now /\ new.expires = now + LeaseSeconds
  <1>1. intent.attempts \in {0, 1, 2}
    BY DEF Intent
  <1>2. LET new == Recorded(intent, outcome, now) IN
          /\ new.attempts = intent.attempts /\ new.created = intent.created
          /\ new.state = IF outcome = "delivered" THEN "sent"
                         ELSE IF intent.attempts >= 2 THEN "failed" ELSE "pending"
          /\ new.state = "pending" => new.next_at = now + RetryDelay
    BY <1>1 DEF Recorded, Intent, RetryAt, Outcome
  <1>3. LET new == Reaped(intent, now) IN
          \/ new = intent
          \/ /\ intent.state = "leased" /\ intent.expires <= now
             /\ new.attempts = intent.attempts /\ new.created = intent.created
             /\ \/ new.state = "pending" /\ new.next_at = now + RetryDelay
                \/ new.state = "failed" /\ intent.attempts = 2
    BY <1>1 DEF Reaped, Intent, RetryAt
  <1>4. LET new == Taken(intent, now) IN
          /\ new.state = "leased" /\ new.attempts = intent.attempts + 1
          /\ new.created = intent.created
          /\ new.acquired = now /\ new.expires = now + LeaseSeconds
    BY DEF Taken, Intent
  <1>5. QED BY <1>2, <1>3, <1>4

\* The kinds of steps of an intent.  The packet is queued.
Queues(p) ==
  /\ intents[p].state = "none"
  /\ intents'[p] = [intents[p] EXCEPT !.state = "pending", !.created = clock]
  /\ \A q \in Packet \ {p} : intents'[q] = intents[q]

\* A human acknowledges the packet.
Acks(p) ==
  /\ intents[p].state = "sent"
  /\ intents'[p] = [intents[p] EXCEPT !.state = "acknowledged"]

\* A courier records how the printed packet fared.
Records(c, p) ==
  /\ courier[c].pc = "record" /\ courier[c].packet = p
  /\ Leased(p)
  /\ intents'[p] = Recorded(intents[p], courier[c].outcome, courier[c].now)

\* A courier on its way to a lease expires the lease of the packet, if it is over.
Reaps(c, p) ==
  /\ courier[c].pc = "lease"
  /\ intents'[p] = Reaped(intents[p], courier[c].now)

\* The steps of an intent.
IntentStep(p) ==
  \/ intents'[p] = intents[p] \/ Queues(p) \/ Acks(p)
  \/ \E c \in Couriers : Records(c, p) \/ Reaps(c, p) \/ Leases(c, p)

\* Every step of an intent is one of them.
LEMMA IntentStepOf ==
  ASSUME Typed, [Next]_vars, NEW p \in Packet
  PROVE  IntentStep(p)
  <1>0. TypeOK
    BY DEF Typed
  <1>1. CASE UNCHANGED intents
    BY <1>1 DEF IntentStep
  <1>2. ASSUME NEW q \in Packet, Enqueue(q) PROVE IntentStep(p)
    <2>1. CASE p = q
      BY <1>0, <1>2, <2>1 DEF Enqueue, IntentStep, Queues, TypeOK
    <2>2. CASE p # q
      BY <1>0, <1>2, <2>2 DEF Enqueue, IntentStep, TypeOK
    <2>3. QED BY <2>1, <2>2
  <1>3. ASSUME NEW q \in Packet, Acknowledge(q) PROVE IntentStep(p)
    BY <1>0, <1>3 DEF Acknowledge, IntentStep, Acks, TypeOK
  <1>4. ASSUME NEW c \in Couriers, CourierRecord(c) PROVE IntentStep(p)
    BY <1>0, <1>4 DEF CourierRecord, IntentStep, Records, TypeOK
  <1>5. ASSUME NEW c \in Couriers, CourierLease(c) PROVE IntentStep(p)
    <2>1. courier[c].pc = "lease"
      BY <1>5 DEF CourierLease
    <2>2. \/ intents'[p] = Reaped(intents[p], courier[c].now)
          \/ Leases(c, p)
      BY <1>0, <1>5, LeaseCases DEF Leases
    <2>3. QED BY <2>1, <2>2 DEF IntentStep, Reaps
  <1>6. QED
    BY <1>1, <1>2, <1>3, <1>4, <1>5
    DEF Next, vars, Ledger, Drain, TickCounts, CourierStart, CourierRead, CourierCollect,
        CourierEmit, CourierAbort, HermesFinish, Advance

\* Nothing but courier c moves, or what it writes.
Only(c) == UNCHANGED <<observed, clock>> /\ \A d \in Couriers \ {c} : courier'[d] = courier[d]

\* The kinds of steps of a courier.  It starts.
Starts(c) ==
  /\ courier[c].pc = "idle"
  /\ courier'[c].pc = "read" /\ courier'[c].now = clock
  /\ Only(c) /\ UNCHANGED <<intents, runs>>

\* It finds no leased packet, or several.
SeesNothing(c) ==
  /\ courier[c].pc = "read"
  /\ courier'[c].pc = "lease" /\ courier'[c].now = courier[c].now
  /\ Cardinality({p \in Packet : Leased(p)}) # 1
  /\ Only(c) /\ UNCHANGED <<intents, runs>>

\* It finds a leased one.
Reads(c, p) ==
  /\ courier[c].pc = "read" /\ Leased(p)
  /\ courier'[c].pc = "collect" /\ courier'[c].now = courier[c].now
  /\ courier'[c].packet = p
  /\ courier'[c].acquired = intents[p].acquired
  /\ courier'[c].expires = intents[p].expires
  /\ courier'[c].shown = observed[p]
  /\ Only(c) /\ UNCHANGED <<intents, runs>>

\* It knows how that one fared.
Decides(c) ==
  /\ courier[c].pc = "collect"
  /\ courier'[c].pc = "record" /\ courier'[c].now = courier[c].now
  /\ courier'[c].packet = courier[c].packet
  /\ \/ \E n \in Matching(courier[c]) :
          courier'[c].outcome = runs[<<courier[c].packet, n>>].outcome
     \/ /\ courier'[c].outcome = "failed" /\ courier[c].expires <= courier[c].now
        /\ Matching(courier[c]) = {}
  /\ Only(c) /\ UNCHANGED <<intents, runs>>

\* It leases a packet that it goes on to print.
Prints(c, p) ==
  /\ Leases(c, p)
  /\ courier'[c].pc = "emit" /\ courier'[c].now = courier[c].now
  /\ courier'[c].packet = p /\ courier'[c].attempt = intents[p].attempts + 1
  /\ courier'[c].shown = observed[p]
  /\ Only(c) /\ UNCHANGED runs

\* The steps of a courier.
CourierStep(c) ==
  \/ courier'[c] = courier[c] \/ courier'[c] = CourierIdle
  \/ Starts(c) \/ SeesNothing(c) \/ (\E p \in Packet : Reads(c, p)) \/ Decides(c)
  \/ \E p \in Packet : Prints(c, p)

\* A lease is what its courier goes on to print.
LEMMA LeasesPrints ==
  ASSUME Typed, NEW c \in Couriers, NEW p \in Packet, CourierLease(c), Leases(c, p)
  PROVE  Prints(c, p)
  <1> DEFINE n == intents[p].attempts + 1
             new == [courier[c] EXCEPT !.pc = "emit", !.packet = p,
                                       !.attempt = n, !.shown = observed[p]]
  <1>1. courier' = [courier EXCEPT ![c] = new]
    BY DEF Leases
  <1>2. /\ new.pc = "emit" /\ new.packet = p /\ new.attempt = n /\ new.now = courier[c].now
        /\ new.shown = observed[p]
    BY DEF Typed, TypeOK, CourierState
  <1>3. courier'[c] = new /\ \A d \in Couriers \ {c} : courier'[d] = courier[d]
    <2> HIDE DEF new
    <2>1. QED BY <1>1 DEF Typed, TypeOK
  <1>4. courier'[c].pc = "emit" /\ courier'[c].packet = p /\ courier'[c].attempt = n
          /\ courier'[c].now = courier[c].now /\ courier'[c].shown = observed[p]
    <2> HIDE DEF new
    <2>1. QED BY <1>2, <1>3
  <1>5. QED BY <1>3, <1>4 DEF Prints, Only, CourierLease

\* Every step of a courier is one of them.
LEMMA CourierStepOf ==
  ASSUME Typed, [Next]_vars, NEW c \in Couriers
  PROVE  CourierStep(c)
  <1>0. courier[c] \in CourierState /\ courier \in [Couriers -> CourierState]
    BY DEF Typed, TypeOK
  <1>1. CASE courier'[c] = courier[c]
    BY <1>1 DEF CourierStep
  <1>2. CASE Done(c)
    BY <1>0, <1>2 DEF Done, CourierStep
  <1>3. CASE CourierStart(c)
    BY <1>0, <1>3 DEF CourierStart, CourierStep, Starts, Only, CourierState
  <1>4. CASE CourierRead(c)
    <2>1. CASE Goto(c, "lease") /\ Cardinality({p \in Packet : Leased(p)}) # 1
      BY <1>0, <1>4, <2>1
      DEF CourierRead, Goto, CourierStep, SeesNothing, Only, CourierState
    <2>2. ASSUME NEW p \in Packet, Leased(p),
                 courier' = [courier EXCEPT ![c] =
                   [@ EXCEPT !.pc = "collect", !.packet = p,
                             !.acquired = intents[p].acquired,
                             !.expires = intents[p].expires,
                             !.shown = observed[p]]]
          PROVE  Reads(c, p)
      <3>1. courier'[c] = [courier[c] EXCEPT !.pc = "collect", !.packet = p,
                             !.acquired = intents[p].acquired,
                             !.expires = intents[p].expires,
                             !.shown = observed[p]]
        BY <1>0, <2>2
      <3>2. courier[c].pc = "read" /\ Only(c) /\ UNCHANGED <<intents, runs>>
        BY <1>0, <1>4, <2>2 DEF CourierRead, Only
      <3>3. QED BY <1>0, <2>2, <3>1, <3>2 DEF Reads, CourierState
    <2>3. QED BY <1>4, <2>1, <2>2 DEF CourierRead, CourierStep
  <1>5. CASE CourierCollect(c)
    <2>1. ASSUME NEW outcome, Decide(c, outcome)
          PROVE  /\ courier'[c].pc = "record" /\ courier'[c].now = courier[c].now
                 /\ courier'[c].packet = courier[c].packet
                 /\ courier'[c].outcome = outcome
                 /\ \A d \in Couriers \ {c} : courier'[d] = courier[d]
      <3>1. courier'[c] = [CourierIdle EXCEPT !.pc = "record", !.now = courier[c].now,
                             !.packet = courier[c].packet, !.outcome = outcome]
        BY <1>0, <2>1 DEF Decide
      <3>2. \A d \in Couriers \ {c} : courier'[d] = courier[d]
        BY <1>0, <2>1 DEF Decide
      <3>3. QED BY <3>1, <3>2 DEF CourierIdle
    <2>2. \/ Done(c)
          \/ \E n \in Matching(courier[c]) : Decide(c, runs[<<courier[c].packet, n>>].outcome)
          \/ /\ Decide(c, "failed") /\ courier[c].expires <= courier[c].now
             /\ Matching(courier[c]) = {}
      BY <1>5 DEF CourierCollect
    <2>3. courier[c].pc = "collect" /\ UNCHANGED <<intents, observed, runs, clock>>
      BY <1>5 DEF CourierCollect
    <2>4. Done(c) \/ Decides(c)
      BY <2>1, <2>2, <2>3 DEF Decides, Only
    <2>5. QED BY <1>2, <2>4 DEF CourierStep
  <1>6. CASE CourierLease(c)
    <2>1. Done(c) \/ \E p \in Packet : Leases(c, p)
      BY <1>6, LeaseCases DEF Typed
    <2>2. QED BY <1>2, <1>6, <2>1, LeasesPrints DEF CourierStep
  <1>7. CASE CourierRecord(c) \/ CourierEmit(c) \/ CourierAbort(c)
    BY <1>2, <1>7 DEF CourierRecord, CourierEmit, CourierAbort
  <1>8. ASSUME NEW d \in Couriers, Drain(d), d # c PROVE courier'[c] = courier[c]
    BY <1>0, <1>8 DEF Drain, CourierStart, CourierRead, CourierCollect, CourierRecord,
       CourierLease, CourierEmit, CourierAbort, Done, Goto, Decide
  <1>9. \/ UNCHANGED courier
        \/ \E d \in Couriers : Drain(d)
    BY DEF Next, vars, Ledger, Enqueue, TickCounts, Acknowledge, HermesFinish, Advance
  <1>10. QED BY <1>1, <1>3, <1>4, <1>5, <1>6, <1>7, <1>8, <1>9 DEF Drain

\* Where a courier is tells how it came there.
LEMMA CourierCameBy ==
  ASSUME Typed, [Next]_vars, NEW c \in Couriers, courier'[c] # courier[c]
  PROVE  /\ courier'[c].pc = "read" => Starts(c)
         /\ courier'[c].pc = "lease" => SeesNothing(c)
         /\ courier'[c].pc = "collect" => \E p \in Packet : Reads(c, p)
         /\ courier'[c].pc = "record" => Decides(c)
         /\ courier'[c].pc = "emit" => \E p \in Packet : Prints(c, p)
  <1>1. Starts(c) => courier'[c].pc = "read"
    BY DEF Starts
  <1>2. SeesNothing(c) => courier'[c].pc = "lease"
    BY DEF SeesNothing
  <1>3. \A p \in Packet : Reads(c, p) => courier'[c].pc = "collect"
    BY DEF Reads
  <1>4. Decides(c) => courier'[c].pc = "record"
    BY DEF Decides
  <1>5. \A p \in Packet : Prints(c, p) => courier'[c].pc = "emit"
    BY DEF Prints
  <1>6. courier'[c] = CourierIdle => courier'[c].pc = "idle"
    BY DEF CourierIdle
  <1>7. QED BY <1>1, <1>2, <1>3, <1>4, <1>5, <1>6, CourierStepOf DEF CourierStep

\* The kinds of steps of the run of attempt n of p.
Begins(c, p, n) ==
  /\ courier[c].pc = "emit" /\ courier[c].packet = p /\ courier[c].attempt = n
  /\ courier'[c] = CourierIdle
  /\ runs'[<<p, n>>].state = "running" /\ runs'[<<p, n>>].started = courier[c].now
  /\ runs'[<<p, n>>].shown = courier[c].shown
  /\ Only(c) /\ UNCHANGED intents

\* It ends.
Ends(p, n) ==
  /\ runs[<<p, n>>].state = "running"
  /\ runs'[<<p, n>>].state = "done" /\ runs'[<<p, n>>].started = runs[<<p, n>>].started
  /\ runs'[<<p, n>>].shown = runs[<<p, n>>].shown /\ runs'[<<p, n>>].finished = clock
  /\ UNCHANGED <<intents, observed, courier, clock>>

\* The steps of a run.
RunStep(p, n) ==
  \/ runs'[<<p, n>>] = runs[<<p, n>>]
  \/ Ends(p, n)
  \/ \E c \in Couriers : Begins(c, p, n)

\* Every step of a run is one of them.
LEMMA RunStepOf ==
  ASSUME Typed, [Next]_vars, NEW p \in Packet, NEW n \in AttemptNo
  PROVE  RunStep(p, n)
  <1>0. runs \in [Packet \X AttemptNo -> Run] /\ runs[<<p, n>>] \in Run
    BY DEF Typed, TypeOK
  <1>1. CASE UNCHANGED runs
    BY <1>1 DEF RunStep
  <1>2. ASSUME NEW c \in Couriers, CourierEmit(c) PROVE RunStep(p, n)
    <2> DEFINE e   == <<courier[c].packet, courier[c].attempt>>
               new == [NoRun EXCEPT !.state = "running", !.started = courier[c].now,
                                    !.shown = courier[c].shown]
    <2>1. runs' = [runs EXCEPT ![e] = new]
      BY <1>2 DEF CourierEmit
    <2>2. /\ new.state = "running" /\ new.started = courier[c].now
          /\ new.shown = courier[c].shown
      BY DEF NoRun
    <2>3. /\ courier[c].pc = "emit" /\ courier'[c] = CourierIdle
          /\ Only(c) /\ UNCHANGED intents
      BY <1>2 DEF CourierEmit, Done, Only, Typed, TypeOK
    <2>4. CASE e = <<p, n>>
      <3>1. runs'[<<p, n>>] = new
        <4> HIDE DEF new
        <4>1. QED BY <1>0, <2>1, <2>4
      <3>2. QED BY <2>2, <2>3, <2>4, <3>1 DEF RunStep, Begins
    <2>5. CASE e # <<p, n>>
      <3>1. runs'[<<p, n>>] = runs[<<p, n>>]
        <4> HIDE DEF new, e
        <4>1. QED BY <1>0, <2>1, <2>5
      <3>2. QED BY <3>1 DEF RunStep
    <2>6. QED BY <2>4, <2>5
  <1>3. ASSUME NEW q \in Packet, NEW m \in AttemptNo, HermesFinish(q, m) PROVE RunStep(p, n)
    BY <1>0, <1>3 DEF HermesFinish, RunStep, Ends, Run
  <1>4. QED
    BY <1>1, <1>2, <1>3
    DEF Next, vars, Ledger, Enqueue, TickCounts, Acknowledge, Drain, CourierStart, CourierRead,
        CourierCollect, CourierRecord, CourierLease, CourierAbort, Advance

-----------------------------------------------------------------------------
(* Each attempt is printed at most once *)

\* The counts of attempts never shrink, and grow with a lease only.
LEMMA AttemptsGrow ==
  ASSUME Typed, [Next]_vars, NEW p \in Packet
  PROVE  /\ intents[p].attempts \in 0..2 /\ intents'[p].attempts \in 0..2
         /\ intents[p].attempts <= intents'[p].attempts
         /\ \/ intents'[p].attempts = intents[p].attempts
            \/ \E c \in Couriers : Leases(c, p)
         /\ \A c \in Couriers : Leases(c, p) =>
              /\ intents[p].state = "pending" /\ intents[p].attempts \in {0, 1}
              /\ intents'[p].attempts = intents[p].attempts + 1
  <1>1. intents[p] \in Intent /\ intents'[p] \in Intent
    BY TypedNext DEF Typed, TypeOK
  <1>2. \A c \in Couriers : courier[c].now \in Time /\ courier[c].outcome \in Outcome
    BY DEF Typed, TypeOK, CourierState
  <1>3. ASSUME NEW c \in Couriers, Leases(c, p)
        PROVE  /\ intents[p].state = "pending" /\ intents[p].attempts \in {0, 1}
               /\ intents'[p].attempts = intents[p].attempts + 1
    BY <1>1, <1>2, <1>3, IntentFields DEF Leases, Ready, Intent
  <1>4. ASSUME ~\E c \in Couriers : Leases(c, p)
        PROVE  intents'[p].attempts = intents[p].attempts
    <2>1. CASE intents'[p] = intents[p] \/ Queues(p) \/ Acks(p)
      BY <1>1, <2>1 DEF Queues, Acks, Intent
    <2>2. ASSUME NEW c \in Couriers, Records(c, p)
          PROVE  intents'[p].attempts = intents[p].attempts
      BY <1>1, <1>2, <2>2, IntentFields DEF Records
    <2>3. ASSUME NEW c \in Couriers, Reaps(c, p)
          PROVE  intents'[p].attempts = intents[p].attempts
      BY <1>1, <1>2, <2>3, IntentFields DEF Reaps
    <2>4. QED BY <1>4, <2>1, <2>2, <2>3, IntentStepOf DEF IntentStep
  <1>5. intents[p].attempts \in 0..2 /\ intents'[p].attempts \in 0..2
    BY <1>1 DEF Intent
  <1>6. QED BY <1>3, <1>4, <1>5

\* Courier c is about to print attempt n of p.
Emits(c, p, n) ==
  /\ courier[c].pc = "emit"
  /\ courier[c].packet = p
  /\ courier[c].attempt = n

\* What is about to be printed was leased and has no run yet; no two couriers
\* print the same attempt; and no attempt has a run before it is leased.
PrintedOnce ==
  /\ \A c \in Couriers, p \in Packet, n \in 0..2 : Emits(c, p, n) =>
       /\ n \in AttemptNo
       /\ n <= intents[p].attempts
       /\ runs[<<p, n>>].state = "none"
  /\ \A c, d \in Couriers, p \in Packet, n \in 0..2 :
       Emits(c, p, n) /\ Emits(d, p, n) => c = d
  /\ \A p \in Packet, n \in AttemptNo :
       runs[<<p, n>>].state # "none" => n <= intents[p].attempts

\* A courier about to print was so before, or has just leased.
LEMMA EmitsBy ==
  ASSUME Typed, [Next]_vars, NEW c \in Couriers, NEW p \in Packet, NEW n \in 0..2,
         Emits(c, p, n)'
  PROVE  \/ Emits(c, p, n) /\ courier'[c] = courier[c]
         \/ Prints(c, p) /\ n = intents[p].attempts + 1
  <1>1. courier'[c].pc = "emit" /\ courier'[c].packet = p /\ courier'[c].attempt = n
    BY DEF Emits
  <1>2. courier'[c] # CourierIdle
    BY <1>1 DEF CourierIdle
  <1>3. courier'[c] = courier[c] \/ \E q \in Packet : Prints(c, q)
    BY <1>1, <1>2, CourierStepOf DEF CourierStep, Starts, SeesNothing, Reads, Decides
  <1>4. QED BY <1>1, <1>3 DEF Prints, Emits

\* No attempt is printed twice, however many couriers race.
LEMMA AttemptsPrintedOnce == Spec => []PrintedOnce
  <1>1. Init => PrintedOnce
    BY DEF Init, PrintedOnce, Emits, CourierIdle, NoRun
  <1>2. Typed /\ PrintedOnce /\ [Next]_vars => PrintedOnce'
    <2> SUFFICES ASSUME Typed, PrintedOnce, [Next]_vars PROVE PrintedOnce'
      OBVIOUS
    <2>1. ASSUME NEW c \in Couriers, NEW p \in Packet, NEW n \in 0..2, Emits(c, p, n)'
          PROVE  n \in AttemptNo /\ n <= intents'[p].attempts /\ runs'[<<p, n>>].state = "none"
      <3>1. CASE Emits(c, p, n) /\ courier'[c] = courier[c]
        <4>1. n \in AttemptNo /\ n <= intents[p].attempts /\ runs[<<p, n>>].state = "none"
          BY <3>1 DEF PrintedOnce
        <4>2. ~Ends(p, n)
          BY <4>1 DEF Ends
        <4>3. ASSUME NEW d \in Couriers, Begins(d, p, n) PROVE FALSE
          <5>1. d = c
            BY <3>1, <4>3 DEF Begins, Emits, PrintedOnce
          <5>2. QED BY <3>1, <4>3, <5>1 DEF Begins, Emits, CourierIdle
        <4>4. runs'[<<p, n>>] = runs[<<p, n>>]
          BY <4>1, <4>2, <4>3, RunStepOf DEF RunStep
        <4>5. n <= intents'[p].attempts
          BY <4>1, AttemptsGrow
        <4>6. QED BY <4>1, <4>4, <4>5
      <3>2. CASE Prints(c, p) /\ n = intents[p].attempts + 1
        <4>1. n \in AttemptNo /\ n = intents'[p].attempts /\ ~(n <= intents[p].attempts)
          BY <3>2, AttemptsGrow DEF Prints, AttemptNo
        <4>2. runs[<<p, n>>].state = "none"
          BY <4>1 DEF PrintedOnce
        <4>3. QED BY <3>2, <4>1, <4>2 DEF Prints
      <3>3. QED BY <2>1, <3>1, <3>2, EmitsBy
    <2>2. ASSUME NEW c \in Couriers, NEW d \in Couriers, NEW p \in Packet, NEW n \in 0..2,
                 Emits(c, p, n)', Emits(d, p, n)'
          PROVE  c = d
      <3>1. CASE Emits(c, p, n) /\ Emits(d, p, n)
        BY <3>1 DEF PrintedOnce
      <3>2. ASSUME NEW a \in Couriers, NEW b \in Couriers, a # b, Emits(b, p, n)',
                   Prints(a, p), n = intents[p].attempts + 1
            PROVE  FALSE
        <4>1. Emits(b, p, n)
          BY <3>2 DEF Prints, Only, Emits
        <4>2. n <= intents[p].attempts
          BY <4>1 DEF PrintedOnce
        <4>3. QED BY <3>2, <4>2, AttemptsGrow
      <3>3. QED BY <2>2, <3>1, <3>2, EmitsBy
    <2>3. ASSUME NEW p \in Packet, NEW n \in AttemptNo, runs'[<<p, n>>].state # "none"
          PROVE  n <= intents'[p].attempts
      <3>1. n <= intents[p].attempts
        <4>1. CASE runs[<<p, n>>].state # "none"
          BY <4>1 DEF PrintedOnce
        <4>2. CASE runs[<<p, n>>].state = "none"
          <5>1. PICK c \in Couriers : Begins(c, p, n)
            BY <2>3, <4>2, RunStepOf DEF RunStep, Ends
          <5>2. n \in 0..2 /\ Emits(c, p, n)
            BY <5>1 DEF Begins, Emits, AttemptNo
          <5>3. QED BY <5>2 DEF PrintedOnce
        <4>3. QED BY <4>1, <4>2
      <3>2. QED BY <3>1, AttemptsGrow DEF AttemptNo
    <2>4. QED BY <2>1, <2>2, <2>3 DEF PrintedOnce
  <1>3. QED BY <1>1, <1>2, OutboxHolds, PTL DEF Spec

\* What Hermes has reported of an attempt stays reported.
LEMMA ReportStands ==
  ASSUME Typed, PrintedOnce, [Next]_vars, NEW p \in Packet, NEW n \in AttemptNo
  PROVE  /\ runs[<<p, n>>].state = "done" => runs'[<<p, n>>] = runs[<<p, n>>]
         /\ runs[<<p, n>>].state # "none" =>
              /\ runs'[<<p, n>>].state # "none"
              /\ runs'[<<p, n>>].started = runs[<<p, n>>].started
  <1>1. ASSUME NEW c \in Couriers, Begins(c, p, n) PROVE runs[<<p, n>>].state = "none"
    <2>1. n \in 0..2 /\ Emits(c, p, n)
      BY <1>1 DEF Begins, Emits, AttemptNo
    <2>2. QED BY <2>1 DEF PrintedOnce
  <1>2. QED BY <1>1, RunStepOf DEF RunStep, Ends

-----------------------------------------------------------------------------
(* Sent means delivered *)

\* One of the packet's own runs was delivered.
Delivered(p) ==
  \E n \in AttemptNo :
    /\ runs[<<p, n>>].state = "done"
    /\ runs[<<p, n>>].outcome = "delivered"

\* The inductive invariant behind SentMeansDelivered: also what a courier is
\* about to record was delivered, although the lease it read may be gone.
SentInv ==
  /\ \A p \in Packet : intents[p].state \in {"sent", "acknowledged"} => Delivered(p)
  /\ \A c \in Couriers :
       courier[c].pc = "record" /\ courier[c].outcome = "delivered"
         => Delivered(courier[c].packet)

\* No race of couriers and no lost run marks a packet sent that Hermes did not
\* deliver.
THEOREM SentIsDelivered == Spec => []SentMeansDelivered
  <1>1. Init => SentInv
    BY DEF Init, SentInv, NoIntent, CourierIdle
  <1>2. Typed /\ PrintedOnce /\ SentInv /\ [Next]_vars => SentInv'
    <2> SUFFICES ASSUME Typed, PrintedOnce, SentInv, [Next]_vars PROVE SentInv'
      OBVIOUS
    <2>1. ASSUME NEW p \in Packet, Delivered(p) PROVE Delivered(p)'
      BY <2>1, ReportStands DEF Delivered
    <2>2. ASSUME NEW p \in Packet, intents'[p].state \in {"sent", "acknowledged"}
          PROVE  Delivered(p)
      <3>1. intents[p] \in Intent
        BY DEF Typed, TypeOK
      <3>2. ASSUME NEW c \in Couriers
            PROVE  courier[c].now \in Time /\ courier[c].outcome \in Outcome
        BY DEF Typed, TypeOK, CourierState
      <3>3. CASE intents[p].state \in {"sent", "acknowledged"}
        BY <3>3 DEF SentInv
      <3>4. ASSUME NEW c \in Couriers, Records(c, p) PROVE Delivered(p)
        <4>1. courier[c].outcome = "delivered"
          BY <2>2, <3>1, <3>2, <3>4, IntentFields DEF Records
        <4>2. QED BY <3>4, <4>1 DEF Records, SentInv
      <3>5. CASE Queues(p)
        BY <2>2, <3>1, <3>5 DEF Queues, Intent
      <3>6. ASSUME NEW c \in Couriers, Reaps(c, p) PROVE Delivered(p)
        BY <2>2, <3>1, <3>2, <3>3, <3>6, IntentFields DEF Reaps
      <3>7. ASSUME NEW c \in Couriers, Leases(c, p) PROVE FALSE
        BY <2>2, <3>1, <3>2, <3>7, IntentFields DEF Leases
      <3>8. CASE intents'[p] = intents[p] \/ Acks(p)
        BY <2>2, <3>3, <3>8 DEF Acks
      <3>9. QED BY <3>4, <3>5, <3>6, <3>7, <3>8, IntentStepOf DEF IntentStep
    <2>3. ASSUME NEW c \in Couriers, courier'[c].pc = "record",
                 courier'[c].outcome = "delivered"
          PROVE  courier'[c].packet \in Packet /\ Delivered(courier[c].packet)
                   /\ courier'[c].packet = courier[c].packet
      <3>1. courier'[c].packet \in Packet
        BY <2>3, TypedNext DEF Typed, Holds
      <3>2. courier'[c] = courier[c] \/ Decides(c)
        BY <2>3, CourierCameBy
      <3>3. CASE courier'[c] = courier[c]
        BY <2>3, <3>1, <3>3 DEF SentInv
      <3>4. CASE Decides(c)
        <4>1. PICK n \in Matching(courier[c]) :
                courier'[c].outcome = runs[<<courier[c].packet, n>>].outcome
          BY <2>3, <3>4 DEF Decides
        <4>2. n \in AttemptNo /\ runs[<<courier[c].packet, n>>].state = "done"
          BY DEF Matching
        <4>3. QED BY <2>3, <3>1, <3>4, <4>1, <4>2 DEF Decides, Delivered
      <3>5. QED BY <3>2, <3>3, <3>4
    <2>4. ASSUME NEW c \in Couriers, courier'[c].pc = "record",
                 courier'[c].outcome = "delivered"
          PROVE  \E n \in AttemptNo :
                   /\ runs'[<<courier'[c].packet, n>>].state = "done"
                   /\ runs'[<<courier'[c].packet, n>>].outcome = "delivered"
      BY <2>1, <2>3, <2>4 DEF Delivered
    <2>5. QED BY <2>1, <2>2, <2>4 DEF SentInv, Delivered
  <1>3. SentInv => SentMeansDelivered
    BY DEF SentInv, Delivered, SentMeansDelivered
  <1>4. QED BY <1>1, <1>2, <1>3, OutboxHolds, AttemptsPrintedOnce, PTL DEF Spec

-----------------------------------------------------------------------------
(* No packet overtakes an older one *)

\* A packet that was never leased waits for nothing but its turn, and no
\* packet was queued in the future.
Unleased ==
  \A p \in Packet :
    /\ intents[p].state = "none" => intents[p].attempts = 0
    /\ intents[p].attempts = 0 =>
         intents[p].state \in {"none", "pending"} /\ intents[p].next_at = 0
    /\ intents[p].state # "none" => intents[p].created <= clock

\* Only queueing dates an intent.
LEMMA DatesStand ==
  ASSUME Typed, [Next]_vars, NEW p \in Packet, ~Queues(p)
  PROVE  /\ intents'[p].created = intents[p].created
         /\ intents'[p].state = "none" <=> intents[p].state = "none"
  <1>1. intents[p] \in Intent
    BY DEF Typed, TypeOK
  <1>2. \A c \in Couriers : courier[c].now \in Time /\ courier[c].outcome \in Outcome
    BY DEF Typed, TypeOK, CourierState
  <1>3. CASE intents'[p] = intents[p] \/ Acks(p)
    BY <1>1, <1>3 DEF Acks, Intent
  <1>4. ASSUME NEW c \in Couriers, Records(c, p) \/ Reaps(c, p) \/ Leases(c, p)
        PROVE  /\ intents'[p].created = intents[p].created
               /\ intents'[p].state # "none" /\ intents[p].state # "none"
               \/ intents'[p] = intents[p]
    <2>1. CASE Records(c, p)
      BY <1>1, <1>2, <2>1, IntentFields DEF Records, Leased
    <2>2. CASE Reaps(c, p)
      BY <1>1, <1>2, <2>2, IntentFields DEF Reaps, Outcome
    <2>3. CASE Leases(c, p)
      BY <1>1, <1>2, <2>3, IntentFields DEF Leases, Ready, Outcome
    <2>4. QED BY <1>4, <2>1, <2>2, <2>3
  <1>5. QED BY <1>3, <1>4, IntentStepOf DEF IntentStep

\* The clock never goes back.
LEMMA ClockGrows ==
  ASSUME Typed, [Next]_vars
  PROVE  clock \in Nat /\ clock' \in Nat /\ clock <= clock'
  <1>1. clock \in Nat
    BY DEF Typed, TypeOK, Time
  <1>2. clock' = clock \/ clock' = clock + 1
    BY DEF Next, vars, Ledger, Enqueue, TickCounts, Acknowledge, Drain, CourierStart, CourierRead,
       CourierCollect, CourierRecord, CourierLease, CourierEmit, CourierAbort, HermesFinish,
       Advance
  <1>3. QED BY <1>1, <1>2

\* Nothing but a lease delays a packet.
LEMMA UnleasedHolds == Spec => []Unleased
  <1>1. Init => Unleased
    BY DEF Init, Unleased, NoIntent
  <1>2. Typed /\ Unleased /\ [Next]_vars => Unleased'
    <2> SUFFICES ASSUME Typed, Unleased, [Next]_vars, NEW p \in Packet
                 PROVE  /\ intents'[p].state = "none" => intents'[p].attempts = 0
                        /\ intents'[p].attempts = 0 =>
                             /\ intents'[p].state \in {"none", "pending"}
                             /\ intents'[p].next_at = 0
                        /\ intents'[p].state # "none" => intents'[p].created <= clock'
      BY DEF Unleased
    <2>1. intents[p] \in Intent /\ intents'[p] \in Intent
      BY TypedNext DEF Typed, TypeOK
    <2>2. clock \in Nat /\ clock' \in Nat /\ clock <= clock'
      BY ClockGrows
    <2>3. CASE Queues(p)
      BY <2>1, <2>2, <2>3 DEF Queues, Unleased, Intent
    <2>4. CASE ~Queues(p)
      <3>1. /\ intents'[p].created = intents[p].created
            /\ intents'[p].state = "none" <=> intents[p].state = "none"
        BY <2>4, DatesStand
      <3>2. intents'[p].state # "none" => intents'[p].created <= clock'
        BY <2>1, <2>2, <3>1 DEF Unleased, Intent, Time
      <3>3. intents'[p].state = "none" => intents'[p].attempts = 0
        <4>1. \A c \in Couriers : Leases(c, p) => intents[p].state = "pending"
          BY DEF Leases, Ready
        <4>2. QED BY <3>1, <4>1, AttemptsGrow DEF Unleased
      <3>4. ASSUME intents'[p].attempts = 0
            PROVE  intents'[p].state \in {"none", "pending"} /\ intents'[p].next_at = 0
        <4>1. intents[p].attempts = 0
          BY <3>4, AttemptsGrow
        <4>2. intents[p].state \in {"none", "pending"} /\ intents[p].next_at = 0
          BY <4>1 DEF Unleased
        <4>3. \A c \in Couriers : ~Leases(c, p) /\ ~Records(c, p)
          BY <3>4, <4>2, AttemptsGrow DEF Records, Leased
        <4>4. \A c \in Couriers : Reaps(c, p) => intents'[p] = intents[p]
          BY <4>2 DEF Reaps, Reaped
        <4>5. ~Acks(p)
          BY <4>2 DEF Acks
        <4>6. QED BY <2>4, <4>2, <4>3, <4>4, <4>5, IntentStepOf DEF IntentStep
      <3>5. QED BY <3>2, <3>3, <3>4
    <2>5. QED BY <2>3, <2>4
  <1>3. QED BY <1>1, <1>2, OutboxHolds, PTL DEF Spec

\* No packet overtakes one that was queued before it, whichever courier comes
\* first and whatever the retries of either.
THEOREM OldestGoesFirst == Spec => []OldestFirst
  <1>1. Init => OldestFirst
    BY DEF Init, OldestFirst, NoIntent
  <1>2. Typed /\ Unleased /\ OldestFirst /\ [Next]_vars => OldestFirst'
    <2> SUFFICES ASSUME Typed, Unleased, OldestFirst, [Next]_vars,
                        NEW p \in Packet, NEW q \in Packet,
                        intents'[p].state # "none", intents'[q].attempts > 0,
                        intents'[p].created < intents'[q].created,
                        ~(intents'[p].attempts > 0)
                 PROVE  FALSE
      BY DEF OldestFirst
    <2>1. /\ intents[p] \in Intent /\ intents'[p] \in Intent
          /\ intents[q] \in Intent /\ intents'[q] \in Intent
      BY TypedNext DEF Typed, TypeOK
    <2>2. intents[p].attempts = 0 /\ intents'[p].attempts = 0
      BY AttemptsGrow
    <2>3. intents[q].state # "none"
      <3>1. CASE intents[q].attempts = 0
        <4>1. PICK c \in Couriers : Leases(c, q)
          BY <3>1, AttemptsGrow
        <4>2. QED BY <4>1, AttemptsGrow
      <3>2. CASE intents[q].attempts # 0
        BY <3>2 DEF Unleased
      <3>3. QED BY <3>1, <3>2
    <2>4. intents'[q].created = intents[q].created
      <3>1. ~Queues(q)
        BY <2>3 DEF Queues
      <3>2. QED BY <3>1, DatesStand
    <2>5. CASE Queues(p)
      <3>1. intents'[p].created = clock
        BY <2>1, <2>5 DEF Queues, Intent
      <3>2. intents[q].created <= clock
        BY <2>3 DEF Unleased
      <3>3. clock \in Nat /\ intents[q].created \in Nat
        BY <2>1 DEF Typed, TypeOK, Time, Intent
      <3>4. QED BY <2>4, <3>1, <3>2, <3>3
    <2>6. CASE ~Queues(p)
      <3>1. intents[p].created < intents[q].created /\ intents[p].state # "none"
        BY <2>4, <2>6, DatesStand
      <3>2. CASE intents[q].attempts > 0
        BY <2>2, <3>1, <3>2 DEF OldestFirst
      <3>3. CASE ~(intents[q].attempts > 0)
        <4>1. PICK c \in Couriers : Leases(c, q)
          BY <3>3, AttemptsGrow
        <4>2. p # q
          BY <2>2
        <4>3. Ready(intents[p], courier[c].now)
          <5>1. courier[c].now \in Nat
            BY DEF Typed, TypeOK, CourierState, Time
          <5>2. intents[p].state = "pending" /\ intents[p].next_at = 0
            BY <2>2, <3>1 DEF Unleased
          <5>3. QED BY <2>2, <5>1, <5>2 DEF Ready
        <4>4. Older(q, p)
          BY <4>1, <4>2, <4>3 DEF Leases
        <4>5. intents[p].created \in Nat /\ intents[q].created \in Nat
          BY <2>1 DEF Intent, Time
        <4>6. QED BY <3>1, <4>4, <4>5 DEF Older
      <3>4. QED BY <3>2, <3>3
    <2>7. QED BY <2>5, <2>6
  <1>3. QED BY <1>1, <1>2, OutboxHolds, UnleasedHolds, PTL DEF Spec

-----------------------------------------------------------------------------
(* A repeat waits *)

\* Attempt n of p was printed at t, or is about to be.
Printing(p, n, t) ==
  \/ runs[<<p, n>>].state # "none" /\ runs[<<p, n>>].started = t
  \/ \E c \in Couriers : Emits(c, p, n) /\ courier[c].now = t

\* A lease runs for its full length from the moment it was taken.
LeaseTimed ==
  \A p \in Packet : Leased(p) =>
    /\ intents[p].attempts \in AttemptNo
    /\ intents[p].acquired \in Nat
    /\ intents[p].expires = intents[p].acquired + LeaseSeconds

\* Whatever a courier read of a first lease, or decided about it, is not older
\* than that lease while it lasts.
FirstLease(p) == intents[p].attempts = 1 /\ Leased(p)

\* The invariant that RepeatIsDelayed needs of the couriers.
LookIsFresh ==
  \A c \in Couriers :
    LET me == courier[c] IN
    /\ me.pc \in {"collect", "record"} => intents[me.packet].attempts >= 1
    /\ me.pc = "collect" /\ FirstLease(me.packet) =>
         /\ me.acquired = intents[me.packet].acquired
         /\ me.expires = intents[me.packet].expires
    /\ me.pc = "record" /\ FirstLease(me.packet) =>
         me.now >= intents[me.packet].acquired

\* The first printing dates the first lease; once that lease is given back the
\* retry waits, and the second printing has waited.
RetryWaits ==
  \A p \in Packet, t \in Int : Printing(p, 1, t) =>
    /\ FirstLease(p) => intents[p].acquired = t
    /\ intents[p].attempts = 1 /\ intents[p].state = "pending" =>
         intents[p].next_at >= t + RetryDelay
    /\ \A u \in Int : Printing(p, 2, u) => u >= t + RetryDelay

\* The inductive invariant behind RepeatIsDelayed.
DelayInv == LeaseTimed /\ LookIsFresh /\ RetryWaits

\* What one step makes of a packet with its first attempt behind it.
LEMMA FirstAttemptStep ==
  ASSUME Typed, Unleased, [Next]_vars, NEW p \in Packet, intents[p].attempts = 1
  PROVE  /\ FirstLease(p)' => intents'[p] = intents[p]
         /\ intents'[p].state = "pending" /\ intents'[p].attempts = 1 =>
              \/ intents'[p] = intents[p]
              \/ \E c \in Couriers :
                   /\ FirstLease(p)
                   /\ intents'[p].next_at = courier[c].now + RetryDelay
                   /\ \/ courier[c].pc = "record" /\ courier[c].packet = p
                      \/ intents[p].expires <= courier[c].now
  <1>1. intents[p] \in Intent /\ intents'[p] \in Intent
    BY TypedNext DEF Typed, TypeOK
  <1>2. \A c \in Couriers : courier[c].now \in Time /\ courier[c].outcome \in Outcome
    BY DEF Typed, TypeOK, CourierState
  <1>3. CASE intents'[p] = intents[p] \/ Acks(p) \/ Queues(p)
    <2>1. ~Queues(p)
      BY DEF Queues, Unleased
    <2>2. QED BY <1>1, <1>3, <2>1 DEF Acks, FirstLease, Leased, Intent
  <1>4. ASSUME NEW c \in Couriers, Leases(c, p)
        PROVE  intents'[p].attempts = 2
    BY <1>4, AttemptsGrow
  <1>5. ASSUME NEW c \in Couriers, Records(c, p)
        PROVE  /\ intents'[p].state # "leased"
               /\ intents'[p].state = "pending" =>
                    /\ FirstLease(p)
                    /\ courier[c].pc = "record" /\ courier[c].packet = p
                    /\ intents'[p].next_at = courier[c].now + RetryDelay
    BY <1>1, <1>2, <1>5, IntentFields DEF Records, FirstLease
  <1>6. ASSUME NEW c \in Couriers, Reaps(c, p)
        PROVE  \/ intents'[p] = intents[p]
               \/ /\ intents'[p].state # "leased"
                  /\ intents'[p].state = "pending" =>
                       /\ FirstLease(p)
                       /\ intents[p].expires <= courier[c].now
                       /\ intents'[p].next_at = courier[c].now + RetryDelay
    BY <1>1, <1>2, <1>6, IntentFields DEF Reaps, FirstLease, Leased, Outcome
  <1>7. QED BY <1>3, <1>4, <1>5, <1>6, IntentStepOf DEF IntentStep, FirstLease, Leased

\* Only a lease begins a printing.
LEMMA PrintingBy ==
  ASSUME Typed, [Next]_vars, NEW p \in Packet, NEW n \in AttemptNo, NEW t \in Int,
         Printing(p, n, t)'
  PROVE  \/ Printing(p, n, t)
         \/ \E c \in Couriers :
              Prints(c, p) /\ n = intents[p].attempts + 1 /\ t = courier[c].now
  <1>1. n \in 0..2
    BY DEF AttemptNo
  <1>2. ASSUME NEW c \in Couriers, Emits(c, p, n)', courier'[c].now = t
        PROVE  \/ Emits(c, p, n) /\ courier[c].now = t
               \/ Prints(c, p) /\ n = intents[p].attempts + 1 /\ t = courier[c].now
    <2>1. CASE Emits(c, p, n) /\ courier'[c] = courier[c]
      BY <1>2, <2>1
    <2>2. CASE Prints(c, p) /\ n = intents[p].attempts + 1
      BY <1>2, <2>2 DEF Prints
    <2>3. QED BY <1>1, <1>2, <2>1, <2>2, EmitsBy
  <1>3. ASSUME runs'[<<p, n>>].state # "none", runs'[<<p, n>>].started = t
        PROVE  Printing(p, n, t)
    <2>1. CASE runs'[<<p, n>>] = runs[<<p, n>>] \/ Ends(p, n)
      BY <1>3, <2>1 DEF Ends, Printing
    <2>2. ASSUME NEW c \in Couriers, Begins(c, p, n) PROVE Printing(p, n, t)
      BY <1>3, <2>2 DEF Begins, Emits, Printing
    <2>3. QED BY <2>1, <2>2, RunStepOf DEF RunStep
  <1>4. \/ runs'[<<p, n>>].state # "none" /\ runs'[<<p, n>>].started = t
        \/ \E c \in Couriers : Emits(c, p, n)' /\ courier'[c].now = t
    BY DEF Printing, Emits
  <1>5. CASE runs'[<<p, n>>].state # "none" /\ runs'[<<p, n>>].started = t
    BY <1>3, <1>5
  <1>6. ASSUME NEW c \in Couriers, Emits(c, p, n)', courier'[c].now = t
        PROVE  \/ Printing(p, n, t)
               \/ Prints(c, p) /\ n = intents[p].attempts + 1 /\ t = courier[c].now
    BY <1>2, <1>6 DEF Printing
  <1>7. QED BY <1>4, <1>5, <1>6

\* What was printed, or is about to be, was leased before.
LEMMA PrintingLeased ==
  ASSUME Typed, PrintedOnce, NEW p \in Packet, NEW n \in AttemptNo, NEW t, Printing(p, n, t)
  PROVE  n <= intents[p].attempts
  <1>1. n \in 0..2
    BY DEF AttemptNo
  <1>2. QED BY <1>1 DEF Printing, PrintedOnce

\* Leases keep their length.
LEMMA LeaseTimedNext ==
  ASSUME Typed, LeaseTimed, [Next]_vars
  PROVE  LeaseTimed'
  <1> SUFFICES ASSUME NEW p \in Packet, Leased(p)'
               PROVE  /\ intents'[p].attempts \in AttemptNo
                      /\ intents'[p].acquired \in Nat
                      /\ intents'[p].expires = intents'[p].acquired + LeaseSeconds
    BY DEF LeaseTimed
  <1>1. intents[p] \in Intent /\ intents'[p].state = "leased"
    BY DEF Typed, TypeOK, Leased
  <1>2. \A c \in Couriers :
          courier[c].now \in Time /\ courier[c].outcome \in Outcome /\ courier[c].now \in Nat
    BY DEF Typed, TypeOK, CourierState, Time
  <1>3. CASE intents'[p] = intents[p]
    BY <1>1, <1>3 DEF LeaseTimed, Leased
  <1>4. ~Acks(p) /\ ~Queues(p)
    BY <1>1 DEF Acks, Queues, Intent
  <1>5. ASSUME NEW c \in Couriers, Leases(c, p)
        PROVE  /\ intents'[p].attempts \in AttemptNo
               /\ intents'[p].acquired \in Nat
               /\ intents'[p].expires = intents'[p].acquired + LeaseSeconds
    <2>1. intents'[p].attempts \in AttemptNo
      BY <1>5, AttemptsGrow DEF AttemptNo
    <2>2. /\ intents'[p].acquired = courier[c].now
          /\ intents'[p].expires = courier[c].now + LeaseSeconds
      BY <1>1, <1>2, <1>5, IntentFields DEF Leases, Outcome
    <2>3. QED BY <1>2, <2>1, <2>2
  <1>6. \A c \in Couriers : ~Records(c, p)
    BY <1>1, <1>2, IntentFields DEF Records
  <1>7. \A c \in Couriers : Reaps(c, p) => intents'[p] = intents[p]
    BY <1>1, <1>2, IntentFields DEF Reaps, Outcome
  <1>8. QED BY <1>3, <1>4, <1>5, <1>6, <1>7, IntentStepOf DEF IntentStep

\* A courier's look at a first lease never becomes older than the lease.
LEMMA LookIsFreshNext ==
  ASSUME Typed, Unleased, LeaseTimed, LookIsFresh, [Next]_vars
  PROVE  LookIsFresh'
  <1> SUFFICES ASSUME NEW c \in Couriers
               PROVE  LET p == courier'[c].packet
                          still == intents'[p].attempts = 1 /\ intents'[p].state = "leased"
                      IN  /\ courier'[c].pc \in {"collect", "record"} =>
                               intents'[p].attempts >= 1
                          /\ courier'[c].pc = "collect" /\ still =>
                               /\ courier'[c].acquired = intents'[p].acquired
                               /\ courier'[c].expires = intents'[p].expires
                          /\ courier'[c].pc = "record" /\ still =>
                               courier'[c].now >= intents'[p].acquired
    BY DEF LookIsFresh, FirstLease, Leased
  <1> DEFINE p == courier'[c].packet
             still == intents'[p].attempts = 1 /\ intents'[p].state = "leased"
  <1>1. CASE courier'[c].pc \notin {"collect", "record"}
    BY <1>1
  <1>2. ASSUME courier'[c].pc \in {"collect", "record"}
        PROVE  p \in Packet /\ (courier'[c] = courier[c] \/ Decides(c) \/ Reads(c, p))
    <2>1. p \in Packet
      BY <1>2, TypedNext DEF Typed, Holds
    <2>2. courier'[c] # CourierIdle
      BY <1>2 DEF CourierIdle
    <2>3. QED BY <1>2, <2>1, <2>2, CourierStepOf DEF CourierStep, Starts, SeesNothing, Prints, Reads
  <1>3. ASSUME courier'[c].pc \in {"collect", "record"}
        PROVE  intents[p].attempts >= 1
    <2>1. CASE courier'[c] = courier[c] \/ Decides(c)
      BY <1>3, <2>1 DEF Decides, LookIsFresh
    <2>2. CASE Reads(c, p)
      BY <1>2, <1>3, <2>2 DEF Reads, LeaseTimed, AttemptNo
    <2>3. QED BY <1>2, <1>3, <2>1, <2>2
  <1>4. ASSUME courier'[c].pc \in {"collect", "record"}
        PROVE  intents'[p].attempts >= 1
    BY <1>2, <1>3, <1>4, AttemptsGrow
  <1>5. ASSUME courier'[c].pc \in {"collect", "record"}, still
        PROVE  FirstLease(p) /\ intents'[p] = intents[p]
    <2>1. p \in Packet
      BY <1>2, <1>5
    <2>2. intents[p].attempts = 1
      <3> HIDE DEF p
      <3>1. QED BY <1>3, <1>5, <2>1, AttemptsGrow
    <2>3. intents'[p] = intents[p]
      <3>1. ASSUME NEW q \in Packet, intents[q].attempts = 1,
                   intents'[q].attempts = 1 /\ intents'[q].state = "leased"
            PROVE  intents'[q] = intents[q]
        BY <3>1, FirstAttemptStep DEF FirstLease, Leased
      <3>2. QED BY <1>5, <2>1, <2>2, <3>1
    <2>4. QED BY <1>5, <2>3 DEF FirstLease, Leased
  <1>6. ASSUME courier'[c].pc = "collect", still
        PROVE  courier'[c].acquired = intents'[p].acquired
                 /\ courier'[c].expires = intents'[p].expires
    <2>1. FirstLease(p) /\ intents'[p] = intents[p]
      BY <1>5, <1>6
    <2>2. CASE courier'[c] = courier[c]
      BY <1>6, <2>1, <2>2 DEF LookIsFresh
    <2>3. CASE Reads(c, p)
      BY <2>1, <2>3 DEF Reads
    <2>4. QED BY <1>2, <1>6, <2>2, <2>3 DEF Decides
  <1>7. ASSUME courier'[c].pc = "record", still
        PROVE  courier'[c].now >= intents'[p].acquired
    <2>1. FirstLease(p) /\ intents'[p] = intents[p] /\ p \in Packet
      BY <1>2, <1>5, <1>7
    <2>2. CASE courier'[c] = courier[c]
      BY <1>7, <2>1, <2>2 DEF LookIsFresh
    <2>3. CASE Decides(c)
      <3>1. /\ courier[c].pc = "collect" /\ courier[c].packet = p
            /\ courier'[c].now = courier[c].now
        BY <2>3 DEF Decides
      <3>2. /\ courier[c].acquired = intents[p].acquired
            /\ courier[c].expires = intents[p].expires
        BY <2>1, <3>1 DEF LookIsFresh
      <3>3. /\ intents[p].acquired \in Nat
            /\ intents[p].expires = intents[p].acquired + LeaseSeconds
        BY <2>1 DEF FirstLease, LeaseTimed
      <3>4. courier[c].now \in Nat
        BY DEF Typed, TypeOK, CourierState, Time
      <3>5. ASSUME NEW n \in Matching(courier[c]) PROVE courier[c].now >= intents[p].acquired
        <4>1. /\ n \in AttemptNo
              /\ courier[c].acquired <= runs[<<p, n>>].finished
              /\ runs[<<p, n>>].finished <= courier[c].now
          BY <3>1 DEF Matching
        <4>2. runs[<<p, n>>].finished \in Time \cup {NoTime}
          BY <2>1, <4>1 DEF Typed, TypeOK, Run
        <4>3. QED BY <3>2, <3>3, <3>4, <4>1, <4>2 DEF Time, NoTime
      <3>6. ASSUME courier[c].expires <= courier[c].now
            PROVE  courier[c].now >= intents[p].acquired
        BY <3>2, <3>3, <3>4, <3>6, CourierAssumption
      <3>7. courier[c].now >= intents[p].acquired
        BY <2>3, <3>5, <3>6 DEF Decides
      <3>8. QED BY <2>1, <3>1, <3>7
    <2>4. QED BY <1>2, <1>7, <2>2, <2>3 DEF Reads
  <1>8. QED BY <1>4, <1>6, <1>7

\* The retry goes on waiting.
LEMMA RetryWaitsNext ==
  ASSUME Typed, Unleased, PrintedOnce, LeaseTimed, LookIsFresh, RetryWaits, [Next]_vars
  PROVE  RetryWaits'
  <1> SUFFICES ASSUME NEW p \in Packet, NEW t \in Int, Printing(p, 1, t)'
               PROVE  /\ FirstLease(p)' => intents'[p].acquired = t
                      /\ intents'[p].attempts = 1 /\ intents'[p].state = "pending" =>
                           intents'[p].next_at >= t + RetryDelay
                      /\ \A u \in Int : Printing(p, 2, u)' => u >= t + RetryDelay
    BY DEF RetryWaits, FirstLease, Leased, Printing, Emits
  <1>0. /\ 1 \in AttemptNo /\ 2 \in AttemptNo
        /\ intents[p] \in Intent /\ intents'[p] \in Intent
        /\ \A c \in Couriers : courier[c].now \in Nat /\ courier[c].now \in Time
                                 /\ courier[c].outcome \in Outcome
    BY TypedNext DEF Typed, TypeOK, AttemptNo, Time, CourierState
  <1>1. ASSUME NEW c \in Couriers, Prints(c, p), intents[p].attempts = 0, t = courier[c].now
        PROVE  /\ FirstLease(p)' => intents'[p].acquired = t
               /\ intents'[p].state # "pending"
               /\ \A u \in Int : ~Printing(p, 2, u)'
    <2>1. intents'[p].acquired = t /\ intents'[p].state = "leased"
      BY <1>0, <1>1, IntentFields DEF Prints, Leases
    <2>2. ASSUME NEW u \in Int, Printing(p, 2, u)' PROVE FALSE
      <3>1. Printing(p, 2, u)
        BY <1>0, <1>1, <2>2, PrintingBy
      <3>2. QED BY <1>0, <1>1, <3>1, PrintingLeased
    <2>3. QED BY <2>1, <2>2
  <1>2. CASE Printing(p, 1, t)
    <2>1. intents[p].attempts \in {1, 2}
      BY <1>0, <1>2, PrintingLeased, AttemptsGrow
    <2>2. FirstLease(p)' => intents'[p].acquired = t
      <3>1. SUFFICES ASSUME FirstLease(p)' PROVE intents'[p].acquired = t
        OBVIOUS
      <3>2. intents'[p].attempts = 1
        BY <3>1 DEF FirstLease
      <3>3. intents[p].attempts = 1
        BY <2>1, <3>2, AttemptsGrow
      <3>4. intents'[p] = intents[p]
        BY <3>1, <3>3, FirstAttemptStep
      <3>5. FirstLease(p)
        BY <3>1, <3>4 DEF FirstLease, Leased
      <3>6. QED BY <1>2, <3>4, <3>5 DEF RetryWaits
    <2>3. ASSUME intents'[p].attempts = 1, intents'[p].state = "pending"
          PROVE  intents'[p].next_at >= t + RetryDelay
      <3>1. intents[p].attempts = 1
        BY <2>1, <2>3, AttemptsGrow
      <3>2. CASE intents'[p] = intents[p]
        BY <1>2, <2>3, <3>2 DEF RetryWaits
      <3>3. ASSUME NEW c \in Couriers, FirstLease(p),
                   intents'[p].next_at = courier[c].now + RetryDelay,
                   \/ courier[c].pc = "record" /\ courier[c].packet = p
                   \/ intents[p].expires <= courier[c].now
            PROVE  intents'[p].next_at >= t + RetryDelay
        <4>1. intents[p].acquired = t /\ intents[p].expires = t + LeaseSeconds
          BY <1>2, <3>3 DEF RetryWaits, LeaseTimed, FirstLease
        <4>2. courier[c].now >= t
          <5>1. CASE courier[c].pc = "record" /\ courier[c].packet = p
            BY <3>3, <4>1, <5>1 DEF LookIsFresh
          <5>2. CASE intents[p].expires <= courier[c].now
            <6>1. intents[p].acquired \in Nat
              BY <3>3 DEF FirstLease, LeaseTimed
            <6>2. QED BY <1>0, <4>1, <5>2, <6>1, CourierAssumption
          <5>3. QED BY <3>3, <5>1, <5>2
        <4>3. QED BY <1>0, <3>3, <4>2, CourierAssumption
      <3>4. QED BY <2>3, <3>1, <3>2, <3>3, FirstAttemptStep
    <2>4. ASSUME NEW u \in Int, Printing(p, 2, u)'
          PROVE  u >= t + RetryDelay
      <3>1. CASE Printing(p, 2, u)
        BY <1>2, <3>1 DEF RetryWaits
      <3>2. ASSUME NEW c \in Couriers, Prints(c, p), 2 = intents[p].attempts + 1,
                   u = courier[c].now
            PROVE  u >= t + RetryDelay
        <4>1. intents[p].attempts = 1
          BY <2>1, <3>2
        <4>2. intents[p].state = "pending" /\ intents[p].next_at <= u
          BY <3>2 DEF Prints, Leases, Ready
        <4>3. intents[p].next_at >= t + RetryDelay
          BY <1>2, <4>1, <4>2 DEF RetryWaits
        <4>4. intents[p].next_at \in Nat /\ u \in Nat
          BY <1>0, <3>2 DEF Intent
        <4>5. QED BY <1>0, <4>2, <4>3, <4>4, CourierAssumption
      <3>3. QED BY <1>0, <2>4, <3>1, <3>2, PrintingBy
    <2>5. QED BY <2>2, <2>3, <2>4
  <1>3. CASE ~Printing(p, 1, t)
    <2>1. PICK c \in Couriers :
            Prints(c, p) /\ 1 = intents[p].attempts + 1 /\ t = courier[c].now
      BY <1>0, <1>3, PrintingBy
    <2>2. intents[p].attempts = 0
      BY <2>1, AttemptsGrow
    <2>3. QED BY <1>1, <2>1, <2>2
  <1>4. QED BY <1>2, <1>3

\* Leases keep their length, looks at them stay fresh, and a retry waits.
LEMMA DelayHolds == Spec => []DelayInv
  <1>1. Init => DelayInv
    <2> SUFFICES ASSUME Init PROVE DelayInv
      OBVIOUS
    <2>1. \A p \in Packet : ~Leased(p)
      BY DEF Init, Leased, NoIntent
    <2>2. \A c \in Couriers : courier[c].pc = "idle"
      BY DEF Init, CourierIdle
    <2>3. \A p \in Packet, t \in Int : ~Printing(p, 1, t)
      BY <2>2 DEF Init, Printing, Emits, NoRun, AttemptNo
    <2>4. QED BY <2>1, <2>2, <2>3 DEF DelayInv, LeaseTimed, LookIsFresh, RetryWaits
  <1>2. Typed /\ Unleased /\ PrintedOnce /\ DelayInv /\ [Next]_vars => DelayInv'
    BY LeaseTimedNext, LookIsFreshNext, RetryWaitsNext DEF DelayInv
  <1>3. QED BY <1>1, <1>2, OutboxHolds, UnleasedHolds, AttemptsPrintedOnce, PTL DEF Spec

\* However leases end and whichever courier looks, a packet is printed a second
\* time no sooner than the retry delay after the first printing.
THEOREM RepeatsWait == Spec => []RepeatIsDelayed
  <1>1. Typed /\ DelayInv => RepeatIsDelayed
    <2> SUFFICES ASSUME Typed, DelayInv, NEW p \in Packet,
                        runs[<<p, 1>>].state # "none", runs[<<p, 2>>].state # "none"
                 PROVE  runs[<<p, 2>>].started >= runs[<<p, 1>>].started + RetryDelay
      BY DEF RepeatIsDelayed
    <2>1. Printing(p, 1, runs[<<p, 1>>].started) /\ Printing(p, 2, runs[<<p, 2>>].started)
      BY DEF Printing
    <2>2. runs[<<p, 1>>].started \in Int /\ runs[<<p, 2>>].started \in Int
      BY DEF Typed, TypeOK, AttemptNo, Run, Time, NoTime
    <2>3. QED BY <2>1, <2>2 DEF DelayInv, RetryWaits
  <1>2. QED BY <1>1, OutboxHolds, DelayHolds, PTL

-----------------------------------------------------------------------------
(* A verified delivery settles its lease *)

\* A courier that runs has sampled its clock in the past, and not long ago.
LookIsYoung ==
  \A c \in Couriers : courier[c].pc # "idle" =>
    courier[c].now <= clock /\ clock <= courier[c].now + MaxStall

\* What a run shows was counted before, and it ended after it began.
RunsDated ==
  /\ \A p \in Packet, n \in AttemptNo :
       LET run == runs[<<p, n>>] IN
       /\ run.shown <= observed[p]
       /\ run.state # "none" => run.started <= clock
       /\ run.state = "done" => run.started <= run.finished /\ run.finished <= clock
  /\ \A c \in Couriers : courier[c].pc = "emit" =>
       courier[c].shown <= observed[courier[c].packet]

\* No packet but p was ever leased.
Alone(p) == \A q \in Packet \ {p} : intents[q].attempts = 0

\* Who saw no lease before it was taken is not too late for a run in time: the
\* runs of that lease end after the courier's sample of the clock.
LooksBefore ==
  \A c \in Couriers, p \in Packet : courier[c].pc = "lease" /\ Leased(p) /\ Alone(p) =>
    \A n \in AttemptNo :
      runs[<<p, n>>].state = "done" /\ runs[<<p, n>>].started = intents[p].acquired =>
        courier[c].now <= runs[<<p, n>>].finished

\* The run of attempt n ended in time in the lease of p, with the packet the row gives.
Answers(p, n) ==
  /\ InTime(runs[<<p, n>>])
  /\ runs[<<p, n>>].started = intents[p].acquired
  /\ runs[<<p, n>>].shown = observed[p]

\* While a courier that has read a lease of p runs, p is not leased anew; as long as
\* that lease lasts, what the courier read of it stands, and if it is about to record
\* a failure, then a run has failed or none has answered in time.
LookStands ==
  \A c \in Couriers :
    LET me == courier[c]
        p == me.packet
    IN  /\ me.pc \in {"collect", "record"} /\ intents[p].state = "pending" =>
             me.now + RetryDelay <= intents[p].next_at + MaxStall
        /\ me.pc = "collect" => me.shown <= observed[p]
        /\ me.pc = "collect" /\ Leased(p) =>
             /\ me.acquired = intents[p].acquired /\ me.expires = intents[p].expires
             /\ \A n \in AttemptNo : runs[<<p, n>>].shown <= me.shown
             /\ \A d \in Couriers, n \in 0..2 : Emits(d, p, n) => courier[d].shown <= me.shown
        /\ me.pc = "record" /\ me.outcome = "failed" /\ Leased(p) =>
             \/ \E n \in AttemptNo :
                  runs[<<p, n>>].state = "done" /\ runs[<<p, n>>].outcome = "failed"
             \/ intents[p].expires <= me.now /\ \A n \in AttemptNo : ~Answers(p, n)

\* A step moves the clock alone, or the count of a row alone, or neither.
LEMMA WorldStep ==
  ASSUME Typed, [Next]_vars
  PROVE  /\ \/ clock' = clock
            \/ /\ clock' = clock + 1 /\ UNCHANGED <<intents, observed, runs, courier>>
               /\ \A c \in Couriers : courier[c].pc # "idle" => clock < courier[c].now + MaxStall
         /\ \/ observed' = observed
            \/ UNCHANGED <<intents, runs, courier, clock>>
         /\ \A p \in Packet : /\ observed[p] \in Nat /\ observed'[p] \in Nat
                              /\ observed[p] <= observed'[p]
  <1>1. \A p \in Packet : observed[p] \in Ticks /\ observed'[p] \in Ticks
    BY TypedNext DEF Typed, TypeOK
  <1>2. observed \in [Packet -> Ticks]
    BY DEF Typed, TypeOK
  <1>3. \/ clock' = clock
        \/ /\ clock' = clock + 1 /\ UNCHANGED <<intents, observed, runs, courier>>
           /\ \A c \in Couriers : courier[c].pc # "idle" => clock < courier[c].now + MaxStall
    BY DEF Next, vars, Ledger, Enqueue, TickCounts, Acknowledge, Drain, CourierStart, CourierRead,
       CourierCollect, CourierRecord, CourierLease, CourierEmit, CourierAbort, HermesFinish,
       Advance
  <1>4. \/ observed' = observed
        \/ UNCHANGED <<intents, runs, courier, clock>>
           /\ \E q \in Packet : observed' = [observed EXCEPT ![q] = @ + 1]
    BY DEF Next, vars, Ledger, Enqueue, TickCounts, Acknowledge, Drain, CourierStart, CourierRead,
       CourierCollect, CourierRecord, CourierLease, CourierEmit, CourierAbort, HermesFinish,
       Advance
  <1>5. ASSUME NEW p \in Packet PROVE observed[p] <= observed'[p]
    <2>1. observed[p] \in Nat
      BY <1>1 DEF Ticks
    <2>2. observed'[p] = observed[p] \/ observed'[p] = observed[p] + 1
      BY <1>2, <1>4
    <2>3. QED BY <2>1, <2>2
  <1>6. QED BY <1>1, <1>3, <1>4, <1>5 DEF Ticks

\* The samples of the clock stay young.
LEMMA LookIsYoungNext == ASSUME Typed, LookIsYoung, [Next]_vars PROVE LookIsYoung'
  <1> SUFFICES ASSUME NEW c \in Couriers, courier'[c].pc # "idle"
               PROVE  courier'[c].now <= clock' /\ clock' <= courier'[c].now + MaxStall
    BY DEF LookIsYoung
  <1>1. clock \in Nat /\ courier[c].now \in Nat /\ MaxStall \in Nat
    BY CourierAssumption DEF Typed, TypeOK, CourierState, Time
  <1>2. CASE courier'[c] = courier[c]
    BY <1>1, <1>2, WorldStep DEF LookIsYoung
  <1>3. CASE courier'[c] # courier[c]
    <2>1. courier'[c] # CourierIdle
      BY DEF CourierIdle
    <2>2. \/ Starts(c)
          \/ courier[c].pc # "idle" /\ courier'[c].now = courier[c].now /\ Only(c)
      BY <1>3, <2>1, CourierStepOf
      DEF CourierStep, Starts, SeesNothing, Reads, Decides, Prints, Leases
    <2>3. QED BY <1>1, <2>2 DEF Starts, Only, LookIsYoung
  <1>4. QED BY <1>2, <1>3

\* The dates of the runs stay in order.
LEMMA RunsDatedNext ==
  ASSUME Typed, PrintedOnce, LookIsYoung, RunsDated, [Next]_vars
  PROVE  RunsDated'
  <1>1. ASSUME NEW p \in Packet, NEW n \in AttemptNo
        PROVE  LET run == runs'[<<p, n>>] IN
               /\ run.shown <= observed'[p]
               /\ run.state # "none" => run.started <= clock'
               /\ run.state = "done" => run.started <= run.finished /\ run.finished <= clock'
    <2>1. /\ runs[<<p, n>>] \in Run /\ runs'[<<p, n>>] \in Run
          /\ clock \in Nat /\ clock' \in Nat /\ clock <= clock'
          /\ observed[p] \in Nat /\ observed'[p] \in Nat /\ observed[p] <= observed'[p]
      BY TypedNext, ClockGrows, WorldStep DEF Typed, TypeOK
    <2>2. CASE runs'[<<p, n>>] = runs[<<p, n>>]
      <3>1. /\ runs[<<p, n>>].shown \in Nat /\ runs[<<p, n>>].started \in Int
            /\ runs[<<p, n>>].finished \in Int
        BY <2>1 DEF Run, Ticks, Time, NoTime
      <3>2. QED BY <2>1, <2>2, <3>1 DEF RunsDated
    <2>3. CASE Ends(p, n)
      BY <2>1, <2>3 DEF Ends, RunsDated
    <2>4. ASSUME NEW c \in Couriers, Begins(c, p, n)
          PROVE  /\ runs'[<<p, n>>].shown <= observed'[p]
                 /\ runs'[<<p, n>>].started <= clock' /\ runs'[<<p, n>>].state # "done"
      BY <2>1, <2>4 DEF Begins, Only, RunsDated, LookIsYoung
    <2>5. QED BY <2>2, <2>3, <2>4, RunStepOf DEF RunStep
  <1>2. ASSUME NEW c \in Couriers, courier'[c].pc = "emit"
        PROVE  courier'[c].shown <= observed'[courier'[c].packet]
    <2>1. CASE courier'[c] = courier[c]
      <3>1. courier[c].packet \in Packet /\ courier[c].shown \in Nat
        BY <1>2, <2>1 DEF Typed, TypeOK, Holds, CourierState, Ticks
      <3>2. courier[c].shown <= observed[courier[c].packet]
        BY <1>2, <2>1 DEF RunsDated
      <3>3. QED BY <2>1, <3>1, <3>2, WorldStep
    <2>2. ASSUME NEW p \in Packet, Prints(c, p)
          PROVE  courier'[c].shown <= observed'[courier'[c].packet]
      BY <2>2, WorldStep DEF Prints, Only
    <2>3. QED BY <1>2, <2>1, <2>2, CourierCameBy
  <1>3. QED BY <1>1, <1>2 DEF RunsDated

\* A lease that is taken is later than all that was printed of the packet.
LEMMA LeaseIsLater ==
  ASSUME Typed, Unleased, PrintedOnce, RetryWaits, [Next]_vars,
         NEW c \in Couriers, NEW p \in Packet, Leases(c, p),
         NEW n \in AttemptNo, runs[<<p, n>>].state # "none"
  PROVE  runs[<<p, n>>].started # courier[c].now
  <1>1. n <= intents[p].attempts
    BY DEF PrintedOnce
  <1>2. intents[p].state = "pending" /\ intents[p].attempts \in {0, 1}
    BY AttemptsGrow
  <1>3. n = 1 /\ intents[p].attempts = 1
    BY <1>1, <1>2 DEF AttemptNo
  <1>4. runs[<<p, n>>].started \in Int /\ courier[c].now \in Int /\ intents[p].next_at \in Int
    BY DEF Typed, TypeOK, Run, Time, NoTime, CourierState, Intent
  <1>5. Printing(p, 1, runs[<<p, n>>].started)
    BY <1>3 DEF Printing
  <1>6. intents[p].next_at >= runs[<<p, n>>].started + RetryDelay
    BY <1>2, <1>3, <1>4, <1>5 DEF RetryWaits
  <1>7. intents[p].next_at <= courier[c].now
    BY DEF Leases, Ready
  <1>8. QED BY <1>4, <1>6, <1>7, CourierAssumption

\* A packet that is leased after a step was leased so before, or is leased by it.
LEMMA LeasedBy ==
  ASSUME Typed, [Next]_vars, NEW p \in Packet, intents'[p].state = "leased"
  PROVE  \/ intents'[p] = intents[p] /\ Leased(p)
         \/ \E c \in Couriers : Leases(c, p)
  <1>1. intents[p] \in Intent
    BY DEF Typed, TypeOK
  <1>2. \A c \in Couriers : courier[c].now \in Time /\ courier[c].outcome \in Outcome
    BY DEF Typed, TypeOK, CourierState
  <1>3. ~Acks(p) /\ ~Queues(p)
    BY <1>1 DEF Acks, Queues, Intent
  <1>4. \A c \in Couriers : ~Records(c, p)
    BY <1>1, <1>2, IntentFields DEF Records
  <1>5. \A c \in Couriers : Reaps(c, p) => intents'[p] = intents[p]
    BY <1>1, <1>2, IntentFields DEF Reaps, Outcome
  <1>6. QED BY <1>3, <1>4, <1>5, IntentStepOf DEF IntentStep, Leased

\* The look that found nothing goes on to be early.
LEMMA LooksBeforeNext ==
  ASSUME Typed, Unleased, PrintedOnce, DelayInv, LookIsYoung, LooksBefore, [Next]_vars
  PROVE  LooksBefore'
  <1> SUFFICES ASSUME NEW c \in Couriers, NEW p \in Packet, courier'[c].pc = "lease",
                      intents'[p].state = "leased", Alone(p)', NEW n \in AttemptNo,
                      runs'[<<p, n>>].state = "done",
                      runs'[<<p, n>>].started = intents'[p].acquired
               PROVE  courier'[c].now <= runs'[<<p, n>>].finished
    BY DEF LooksBefore, Leased
  <1>1. Alone(p)
    <2>1. ASSUME NEW q \in Packet \ {p} PROVE intents[q].attempts = 0
      <3>1. intents'[q].attempts = 0
        BY DEF Alone
      <3>2. QED BY <3>1, AttemptsGrow
    <2>2. QED BY <2>1 DEF Alone
  <1>2. CASE courier'[c] # courier[c]
    <2>1. SeesNothing(c)
      BY <1>2, CourierCameBy
    <2>2. Leased(p)
      BY <2>1 DEF SeesNothing, Leased
    <2>3. ASSUME NEW q \in Packet, Leased(q) PROVE q = p
      <3>1. intents[q].attempts \in AttemptNo
        BY <2>3 DEF DelayInv, LeaseTimed
      <3>2. intents[q].attempts # 0
        BY <3>1 DEF AttemptNo
      <3>3. QED BY <1>1, <3>2 DEF Alone
    <2>4. {q \in Packet : Leased(q)} = {p}
      BY <2>2, <2>3
    <2>5. Cardinality({p}) = 1
      BY FS_Singleton
    <2>6. QED BY <2>1, <2>4, <2>5 DEF SeesNothing
  <1>3. CASE courier'[c] = courier[c]
    <2>1. ASSUME NEW d \in Couriers, Leases(d, p) PROVE FALSE
      <3>1. intents[p] \in Intent /\ courier[d].now \in Time /\ courier[d].outcome \in Outcome
        BY DEF Typed, TypeOK, CourierState
      <3>2. intents'[p].acquired = courier[d].now
        BY <2>1, <3>1, IntentFields DEF Leases
      <3>3. courier'[d] # courier[d] /\ courier'[d].pc = "emit"
        <4>1. courier[d].pc = "lease" /\ courier[d] \in CourierState
          BY <2>1 DEF Leases, Typed, TypeOK
        <4>2. courier'[d] = [courier[d] EXCEPT !.pc = "emit", !.packet = p,
                               !.attempt = intents[p].attempts + 1, !.shown = observed[p]]
          BY <2>1 DEF Leases, Typed, TypeOK
        <4>3. courier'[d].pc = "emit"
          BY <4>1, <4>2 DEF CourierState
        <4>4. QED BY <4>1, <4>3
      <3>4. runs' = runs
        BY <3>3, CourierCameBy DEF Prints
      <3>5. QED BY <2>1, <3>2, <3>4, LeaseIsLater DEF DelayInv
    <2>2. intents'[p] = intents[p] /\ Leased(p)
      BY <2>1, LeasedBy
    <2>3. CASE runs'[<<p, n>>] = runs[<<p, n>>]
      BY <1>1, <1>3, <2>2, <2>3 DEF LooksBefore
    <2>4. CASE Ends(p, n)
      BY <1>3, <2>4 DEF Ends, LookIsYoung
    <2>5. \A d \in Couriers : ~Begins(d, p, n)
      BY DEF Begins
    <2>6. QED BY <2>3, <2>4, <2>5, RunStepOf DEF RunStep
  <1>4. QED BY <1>2, <1>3

\* A packet that waits for a retry after a step waited so before, or a courier that
\* gives back its lease has set the date.
LEMMA WaitsBy ==
  ASSUME Typed, Unleased, [Next]_vars, NEW p \in Packet, intents[p].attempts >= 1,
         intents'[p].state = "pending"
  PROVE  \/ intents'[p] = intents[p]
         \/ \E d \in Couriers :
              courier[d].pc # "idle" /\ intents'[p].next_at = courier[d].now + RetryDelay
  <1>1. intents[p] \in Intent
    BY DEF Typed, TypeOK
  <1>2. \A d \in Couriers : courier[d].now \in Time /\ courier[d].outcome \in Outcome
    BY DEF Typed, TypeOK, CourierState
  <1>3. ~Acks(p) /\ ~Queues(p)
    BY <1>1 DEF Acks, Queues, Unleased, Intent
  <1>4. ASSUME NEW d \in Couriers, Leases(d, p) PROVE FALSE
    BY <1>1, <1>2, <1>4, IntentFields DEF Leases, Outcome
  <1>5. ASSUME NEW d \in Couriers, Records(d, p)
        PROVE  courier[d].pc # "idle" /\ intents'[p].next_at = courier[d].now + RetryDelay
    BY <1>1, <1>2, <1>5, IntentFields DEF Records
  <1>6. ASSUME NEW d \in Couriers, Reaps(d, p)
        PROVE  \/ intents'[p] = intents[p]
               \/ courier[d].pc # "idle" /\ intents'[p].next_at = courier[d].now + RetryDelay
    BY <1>1, <1>2, <1>6, IntentFields DEF Reaps, Outcome
  <1>7. QED BY <1>3, <1>4, <1>5, <1>6, IntentStepOf DEF IntentStep

\* A packet that a running courier has read is not leased anew.
LEMMA NotLeasedAnew ==
  ASSUME 2 * MaxStall < RetryDelay, Typed, LookIsYoung, LookStands, [Next]_vars,
         NEW c \in Couriers, courier[c].pc \in {"collect", "record"},
         NEW d \in Couriers
  PROVE  ~Leases(d, courier[c].packet)
  <1> DEFINE p == courier[c].packet
  <1> SUFFICES ASSUME Leases(d, p) PROVE FALSE
    OBVIOUS
  <1>1. p \in Packet
    BY DEF Typed, Holds
  <1>2. intents[p].state = "pending" /\ intents[p].next_at <= courier[d].now
          /\ courier[d].pc = "lease"
    BY DEF Leases, Ready
  <1>3. courier[c].now + RetryDelay <= intents[p].next_at + MaxStall
    BY <1>2 DEF LookStands
  <1>4. courier[d].now <= clock /\ clock <= courier[c].now + MaxStall
    BY <1>2 DEF LookIsYoung
  <1>5. /\ courier[c].now \in Nat /\ courier[d].now \in Nat /\ clock \in Nat
        /\ intents[p].next_at \in Nat
    BY <1>1 DEF Typed, TypeOK, CourierState, Intent, Time
  <1> HIDE DEF p
  <1>6. QED BY <1>2, <1>3, <1>4, <1>5, CourierAssumption

\* A lease that a running courier has read and that is there after a step was there
\* before, and the step has left it alone.
LEMMA LeaseReadStays ==
  ASSUME 2 * MaxStall < RetryDelay, Typed, LookIsYoung, LookStands, [Next]_vars,
         NEW c \in Couriers, courier[c].pc \in {"collect", "record"},
         NEW p \in Packet, p = courier[c].packet, intents'[p].state = "leased"
  PROVE  intents'[p] = intents[p] /\ Leased(p)
  BY NotLeasedAnew, LeasedBy

\* LookStands for a courier that did not move.
LEMMA OldLookStands ==
  ASSUME 2 * MaxStall < RetryDelay,
         Typed, Unleased, PrintedOnce, DelayInv, LookIsYoung, RunsDated, LookStands,
         [Next]_vars, NEW c \in Couriers, NEW p \in Packet, p = courier'[c].packet,
         courier'[c] = courier[c], courier[c].pc \in {"collect", "record"}
  PROVE  LET me == courier'[c] IN
        /\ intents'[p].state = "pending" =>
             me.now + RetryDelay <= intents'[p].next_at + MaxStall
        /\ me.pc = "collect" => me.shown <= observed'[p]
        /\ me.pc = "collect" /\ Leased(p)' =>
             /\ me.acquired = intents'[p].acquired /\ me.expires = intents'[p].expires
             /\ \A n \in AttemptNo : runs'[<<p, n>>].shown <= me.shown
             /\ \A d \in Couriers, n \in 0..2 : Emits(d, p, n)' => courier'[d].shown <= me.shown
        /\ me.pc = "record" /\ me.outcome = "failed" /\ Leased(p)' =>
             \/ \E n \in AttemptNo :
                  runs'[<<p, n>>].state = "done" /\ runs'[<<p, n>>].outcome = "failed"
             \/ intents'[p].expires <= me.now /\ \A n \in AttemptNo : ~Answers(p, n)'
  <1> DEFINE me == courier[c]
  <1>0. /\ p = me.packet /\ me.now \in Nat /\ clock \in Nat /\ me.shown \in Nat
        /\ observed[p] \in Nat /\ observed'[p] \in Nat /\ observed[p] <= observed'[p]
    BY WorldStep DEF Typed, TypeOK, CourierState, Time, Ticks
  <1>1. ASSUME intents'[p].state = "pending"
        PROVE  me.now + RetryDelay <= intents'[p].next_at + MaxStall
    <2>1. intents[p].attempts >= 1
      BY <1>0 DEF DelayInv, LookIsFresh
    <2>2. CASE intents'[p] = intents[p]
      BY <1>0, <1>1, <2>2 DEF LookStands
    <2>3. ASSUME NEW d \in Couriers, courier[d].pc # "idle",
                 intents'[p].next_at = courier[d].now + RetryDelay
          PROVE  me.now + RetryDelay <= intents'[p].next_at + MaxStall
      <3>1. me.now <= clock /\ clock <= courier[d].now + MaxStall /\ courier[d].now \in Nat
        BY <2>3 DEF LookIsYoung, Typed, TypeOK, CourierState, Time
      <3>2. QED BY <1>0, <2>3, <3>1, CourierAssumption
    <2>4. QED BY <1>1, <2>1, <2>2, <2>3, WaitsBy
  <1>2. ASSUME me.pc = "collect" PROVE me.shown <= observed'[p]
    <2>1. me.shown <= observed[p]
      BY <1>0, <1>2 DEF LookStands
    <2>2. QED BY <1>0, <2>1
  <1>3. ASSUME Leased(p)' PROVE intents'[p] = intents[p] /\ Leased(p)
    BY <1>0, <1>3, LeaseReadStays DEF Leased
  <1>4. ASSUME me.pc = "collect", Leased(p)'
        PROVE  /\ me.acquired = intents'[p].acquired /\ me.expires = intents'[p].expires
               /\ \A n \in AttemptNo : runs'[<<p, n>>].shown <= me.shown
               /\ \A d \in Couriers, n \in 0..2 :
                    Emits(d, p, n)' => courier'[d].shown <= me.shown
    <2>1. intents'[p] = intents[p] /\ Leased(p)
      BY <1>3, <1>4
    <2>2. /\ me.acquired = intents[p].acquired /\ me.expires = intents[p].expires
          /\ \A n \in AttemptNo : runs[<<p, n>>].shown <= me.shown
          /\ \A d \in Couriers, n \in 0..2 : Emits(d, p, n) => courier[d].shown <= me.shown
      BY <1>0, <1>4, <2>1 DEF LookStands
    <2>3. ASSUME NEW n \in AttemptNo PROVE runs'[<<p, n>>].shown <= me.shown
      <3>1. n \in 0..2
        BY DEF AttemptNo
      <3>2. ASSUME NEW d \in Couriers, Begins(d, p, n)
            PROVE  runs'[<<p, n>>].shown <= me.shown
        <4>1. Emits(d, p, n)
          BY <3>2 DEF Begins, Emits
        <4>2. QED BY <2>2, <3>1, <3>2, <4>1 DEF Begins
      <3>3. QED BY <2>2, <3>2, RunStepOf DEF RunStep, Ends
    <2>4. ASSUME NEW d \in Couriers, NEW n \in 0..2, Emits(d, p, n)'
          PROVE  courier'[d].shown <= me.shown
      <3>1. ~Prints(d, p)
        BY <2>1 DEF Prints, Leases, Ready, Leased
      <3>2. Emits(d, p, n) /\ courier'[d] = courier[d]
        BY <2>4, <3>1, EmitsBy
      <3>3. QED BY <2>2, <3>2
    <2>5. QED BY <2>1, <2>2, <2>3, <2>4
  <1>5. ASSUME me.pc = "record", me.outcome = "failed", Leased(p)'
        PROVE  \/ \E n \in AttemptNo :
                    runs'[<<p, n>>].state = "done" /\ runs'[<<p, n>>].outcome = "failed"
               \/ intents'[p].expires <= me.now /\ \A n \in AttemptNo : ~Answers(p, n)'
    <2>1. intents'[p] = intents[p] /\ Leased(p)
      BY <1>3, <1>5
    <2>2. CASE \E n \in AttemptNo :
                 runs[<<p, n>>].state = "done" /\ runs[<<p, n>>].outcome = "failed"
      BY <2>2, ReportStands
    <2>3. CASE intents[p].expires <= me.now /\ \A n \in AttemptNo : ~Answers(p, n)
      <3>1. ASSUME NEW n \in AttemptNo, Answers(p, n)' PROVE FALSE
        <4>1. /\ InTime(runs'[<<p, n>>])
              /\ runs'[<<p, n>>].started = intents[p].acquired
              /\ runs'[<<p, n>>].shown = observed'[p]
          BY <2>1, <3>1 DEF Answers
        <4>2. CASE runs'[<<p, n>>] = runs[<<p, n>>]
          <5>1. runs[<<p, n>>].shown <= observed[p]
            BY DEF RunsDated
          <5>2. observed'[p] = observed[p]
            BY <1>0, <4>1, <4>2, <5>1
          <5>3. QED BY <2>3, <4>1, <4>2, <5>2 DEF Answers
        <4>3. CASE Ends(p, n)
          <5>1. runs'[<<p, n>>].finished = clock
            BY <4>3 DEF Ends
          <5>2. clock < intents[p].acquired + LeaseSeconds
            BY <4>1, <5>1 DEF InTime
          <5>3. /\ intents[p].expires = intents[p].acquired + LeaseSeconds
                /\ intents[p].acquired \in Nat
            BY <2>1 DEF DelayInv, LeaseTimed
          <5>4. me.now <= clock
            BY <1>5 DEF LookIsYoung
          <5>5. QED BY <1>0, <2>3, <5>2, <5>3, <5>4, CourierAssumption
        <4>4. ASSUME NEW d \in Couriers, Begins(d, p, n) PROVE FALSE
          BY <4>1, <4>4 DEF Begins, InTime
        <4>5. QED BY <4>2, <4>3, <4>4, RunStepOf DEF RunStep
      <3>2. QED BY <2>1, <2>3, <3>1
    <2>4. QED BY <1>0, <1>5, <2>1, <2>2, <2>3 DEF LookStands
  <1>6. QED BY <1>1, <1>2, <1>4, <1>5

\* LookStands for a courier that reads a lease: the count is as new as can be.
LEMMA NewLookStands ==
  ASSUME Typed, RunsDated, [Next]_vars,
         NEW c \in Couriers, NEW p \in Packet, p = courier'[c].packet,
         courier'[c].pc = "collect", Reads(c, p)
  PROVE  LET me == courier'[c] IN
        /\ intents'[p].state # "pending"
        /\ me.shown <= observed'[p]
        /\ me.acquired = intents'[p].acquired /\ me.expires = intents'[p].expires
        /\ \A n \in AttemptNo : runs'[<<p, n>>].shown <= me.shown
        /\ \A d \in Couriers, n \in 0..2 : Emits(d, p, n)' => courier'[d].shown <= me.shown
  <1>1. /\ courier'[c].shown = observed[p] /\ observed'[p] = observed[p]
        /\ intents' = intents /\ runs' = runs /\ Leased(p)
        /\ courier'[c].acquired = intents[p].acquired
        /\ courier'[c].expires = intents[p].expires
    BY DEF Reads, Only
  <1>2. ASSUME NEW d \in Couriers, NEW n \in 0..2, Emits(d, p, n)'
        PROVE  courier'[d].shown <= observed[p]
    <2>1. courier'[d] = courier[d]
      BY <1>2, EmitsBy DEF Prints, Reads, Only, Emits
    <2>2. QED BY <1>2, <2>1 DEF RunsDated, Emits
  <1>3. observed[p] \in Nat
    BY DEF Typed, TypeOK, Ticks
  <1>4. QED BY <1>1, <1>2, <1>3 DEF RunsDated, Leased

\* LookStands for a courier that decides: a failure has a failed run behind it, or
\* no run that it could have taken for an answer.
LEMMA DecisionStands ==
  ASSUME Typed, DelayInv, RunsDated, LookStands, [Next]_vars,
         NEW c \in Couriers, NEW p \in Packet, p = courier'[c].packet,
         courier'[c].pc = "record", Decides(c)
  PROVE  LET me == courier'[c] IN
        /\ intents'[p].state = "pending" =>
             me.now + RetryDelay <= intents'[p].next_at + MaxStall
        /\ me.outcome = "failed" /\ Leased(p)' =>
             \/ \E n \in AttemptNo :
                  runs'[<<p, n>>].state = "done" /\ runs'[<<p, n>>].outcome = "failed"
             \/ intents'[p].expires <= me.now /\ \A n \in AttemptNo : ~Answers(p, n)'
  <1> DEFINE me == courier[c]
  <1>1. /\ me.pc = "collect" /\ me.packet = p /\ courier'[c].now = me.now
        /\ intents' = intents /\ runs' = runs /\ observed' = observed
    BY DEF Decides, Only
  <1>2. intents'[p].state = "pending" => me.now + RetryDelay <= intents'[p].next_at + MaxStall
    BY <1>1 DEF LookStands
  <1>3. ASSUME courier'[c].outcome = "failed", Leased(p)
        PROVE  \/ \E n \in AttemptNo :
                    runs[<<p, n>>].state = "done" /\ runs[<<p, n>>].outcome = "failed"
               \/ intents[p].expires <= me.now /\ \A n \in AttemptNo : ~Answers(p, n)
    <2>1. /\ me.acquired = intents[p].acquired /\ me.expires = intents[p].expires
          /\ me.shown <= observed[p]
          /\ \A n \in AttemptNo : runs[<<p, n>>].shown <= me.shown
      BY <1>1, <1>3 DEF LookStands
    <2>2. CASE \E n \in Matching(me) : courier'[c].outcome = runs[<<p, n>>].outcome
      BY <1>1, <1>3, <2>2 DEF Matching
    <2>3. CASE me.expires <= me.now /\ Matching(me) = {}
      <3>1. ASSUME NEW n \in AttemptNo, Answers(p, n) PROVE FALSE
        <4> DEFINE run == runs[<<p, n>>]
        <4>1. /\ run.state = "done" /\ run.finished < run.started + LeaseSeconds
              /\ run.started = intents[p].acquired /\ run.shown = observed[p]
          BY <3>1 DEF Answers, InTime
        <4>2. run.started <= run.finished
          BY <4>1 DEF RunsDated
        <4>3. /\ intents[p].expires = intents[p].acquired + LeaseSeconds
              /\ intents[p].acquired \in Nat
          BY <1>3 DEF DelayInv, LeaseTimed
        <4>4. /\ run.finished \in Int /\ run.shown \in Nat /\ me.shown \in Nat
              /\ me.now \in Nat /\ LeaseSeconds \in Nat
          BY CourierAssumption DEF Typed, TypeOK, Run, CourierState, Ticks, Time, NoTime
        <4>5. run.shown <= me.shown /\ me.shown <= run.shown
          BY <2>1, <4>1
        <4> HIDE DEF run, me
        <4>6. run.shown = me.shown
          BY <4>4, <4>5
        <4>7. /\ run.started <= me.acquired /\ me.acquired <= run.finished
              /\ run.finished <= me.expires /\ run.finished <= me.now
          BY <2>1, <2>3, <4>1, <4>2, <4>3, <4>4
        <4>8. n \in Matching(me)
          BY <1>1, <4>1, <4>6, <4>7 DEF Matching, run
        <4>9. QED BY <2>3, <4>8
      <3>2. QED BY <2>1, <2>3, <3>1
    <2>4. QED BY <1>1, <1>3, <2>2, <2>3 DEF Decides
  <1>4. QED BY <1>1, <1>2, <1>3 DEF Leased, Answers

\* What a courier read stays as good as it was.
LEMMA LookStandsNext ==
  ASSUME 2 * MaxStall < RetryDelay,
         Typed, Unleased, PrintedOnce, DelayInv, LookIsYoung, RunsDated, LookStands,
         [Next]_vars
  PROVE  LookStands'
  <1> SUFFICES ASSUME NEW c \in Couriers, NEW p, p = courier'[c].packet
               PROVE  LET me == courier'[c] IN
        /\ me.pc \in {"collect", "record"} /\ intents'[p].state = "pending" =>
             me.now + RetryDelay <= intents'[p].next_at + MaxStall
        /\ me.pc = "collect" => me.shown <= observed'[p]
        /\ me.pc = "collect" /\ Leased(p)' =>
             /\ me.acquired = intents'[p].acquired /\ me.expires = intents'[p].expires
             /\ \A n \in AttemptNo : runs'[<<p, n>>].shown <= me.shown
             /\ \A d \in Couriers, n \in 0..2 : Emits(d, p, n)' => courier'[d].shown <= me.shown
        /\ me.pc = "record" /\ me.outcome = "failed" /\ Leased(p)' =>
             \/ \E n \in AttemptNo :
                  runs'[<<p, n>>].state = "done" /\ runs'[<<p, n>>].outcome = "failed"
             \/ intents'[p].expires <= me.now /\ \A n \in AttemptNo : ~Answers(p, n)'
    BY DEF LookStands, Leased, Answers, Emits
  <1>1. CASE courier'[c].pc \notin {"collect", "record"}
    BY <1>1
  <1>2. CASE courier'[c].pc \in {"collect", "record"}
    <2>1. p \in Packet
      BY <1>2, TypedNext DEF Typed, Holds
    <2>2. \/ courier'[c] = courier[c]
          \/ courier'[c].pc = "collect" /\ Reads(c, p)
          \/ courier'[c].pc = "record" /\ Decides(c)
      BY <1>2, CourierCameBy DEF Reads
    <2>3. CASE courier'[c] = courier[c]
      BY <1>2, <2>1, <2>3, OldLookStands
    <2>4. CASE courier'[c].pc = "collect" /\ Reads(c, p)
      BY <2>1, <2>4, NewLookStands
    <2>5. CASE courier'[c].pc = "record" /\ Decides(c)
      BY <2>1, <2>5, DecisionStands
    <2>6. QED BY <2>2, <2>3, <2>4, <2>5
  <1>3. QED BY <1>1, <1>2

\* The invariant behind VerifiedIsSettled.
LookInv == LookIsYoung /\ RunsDated /\ LooksBefore /\ LookStands

\* It holds when no courier outlives half the retry delay.
LEMMA LookHolds == ASSUME 2 * MaxStall < RetryDelay PROVE Spec => []LookInv
  <1>1. Init => LookInv
    <2> SUFFICES ASSUME Init PROVE LookInv
      OBVIOUS
    <2>1. \A c \in Couriers : courier[c].pc = "idle"
      BY DEF Init, CourierIdle
    <2>2. RunsDated
      BY <2>1 DEF Init, RunsDated, NoRun
    <2>3. QED BY <2>1, <2>2 DEF LookInv, LookIsYoung, LooksBefore, LookStands
  <1>2. Typed /\ Unleased /\ PrintedOnce /\ DelayInv /\ LookInv /\ [Next]_vars => LookInv'
    BY LookIsYoungNext, RunsDatedNext, LooksBeforeNext, LookStandsNext DEF LookInv
  <1>3. QED
    BY <1>1, <1>2, OutboxHolds, UnleasedHolds, AttemptsPrintedOnce, DelayHolds, PTL DEF Spec

\* The end of a verified lease: who records it records the delivery, and who looked
\* for a lease in vain is too early to expire it.
LEMMA VerifiedEnds ==
  ASSUME Typed, DelayInv, LookInv, [Next]_vars, NEW p \in Packet,
         Leased(p), Verified(p), Alone(p), intents'[p].state # "leased"
  PROVE  intents'[p].state = "sent"
  <1>0. /\ intents[p] \in Intent
        /\ intents[p].expires = intents[p].acquired + LeaseSeconds
        /\ \A c \in Couriers : courier[c].now \in Time /\ courier[c].outcome \in Outcome
    BY DEF Typed, TypeOK, CourierState, DelayInv, LeaseTimed
  <1>1. PICK n \in AttemptNo :
          /\ Answers(p, n)
          /\ \A m \in AttemptNo \ {n} : runs[<<p, m>>].state # "done"
    BY DEF Verified, Answers
  <1>2. ~(intents'[p] = intents[p]) /\ ~Queues(p) /\ ~Acks(p)
    BY DEF Leased, Queues, Acks
  <1>3. ASSUME NEW c \in Couriers, Records(c, p)
        PROVE  intents'[p].state = "sent"
    <2>1. courier[c].outcome # "failed"
      <3>1. SUFFICES ASSUME courier[c].outcome = "failed" PROVE FALSE
        OBVIOUS
      <3>2. courier[c].pc = "record" /\ courier[c].packet = p
        BY <1>3 DEF Records
      <3>3. \/ \E m \in AttemptNo :
                 runs[<<p, m>>].state = "done" /\ runs[<<p, m>>].outcome = "failed"
            \/ \A m \in AttemptNo : ~Answers(p, m)
        BY <3>1, <3>2 DEF LookInv, LookStands
      <3>4. QED BY <1>1, <3>3 DEF Answers, InTime
    <2>2. courier[c].outcome = "delivered"
      BY <1>0, <2>1 DEF Outcome
    <2>3. QED BY <1>0, <1>3, <2>2, IntentFields DEF Records
  <1>4. ASSUME NEW c \in Couriers, Reaps(c, p) PROVE FALSE
    <2>1. courier[c].pc = "lease" /\ intents[p].expires <= courier[c].now
      BY <1>0, <1>2, <1>4, IntentFields DEF Reaps, Outcome
    <2> DEFINE run == runs[<<p, n>>]
    <2>2. /\ run.state = "done" /\ run.started = intents[p].acquired
          /\ run.finished < run.started + LeaseSeconds
      BY <1>1 DEF Answers, InTime
    <2>3. courier[c].now <= run.finished
      BY <2>1, <2>2 DEF LookInv, LooksBefore
    <2>4. /\ run.finished \in Int /\ intents[p].acquired \in Int
          /\ courier[c].now \in Int /\ LeaseSeconds \in Int
      BY <1>0, CourierAssumption DEF Typed, TypeOK, Run, Intent, Time, NoTime
    <2> HIDE DEF run
    <2>5. QED BY <1>0, <2>1, <2>2, <2>3, <2>4
  <1>5. \A c \in Couriers : ~Leases(c, p)
    BY DEF Leases, Ready, Leased
  <1>6. QED BY <1>2, <1>3, <1>4, <1>5, IntentStepOf DEF IntentStep

\* A delivery that Hermes reported in time is never retried nor given up, however
\* late couriers look and whoever races whom, when a courier lives less than half the
\* retry delay: one that lives longer can record the failure of a first lease in the
\* second.
THEOREM VerifiedSettles == ASSUME 2 * MaxStall < RetryDelay PROVE Spec => VerifiedIsSettled
  <1>1. ASSUME Typed, DelayInv, LookInv, [Next]_vars
        PROVE  \A p \in Packet :
                 /\ Leased(p)
                 /\ Verified(p)
                 /\ \A q \in Packet \ {p} : intents[q].attempts = 0
                 /\ intents'[p].state # "leased"
                 => intents'[p].state = "sent"
    BY <1>1, VerifiedEnds DEF Alone
  <1>2. QED BY <1>1, OutboxHolds, DelayHolds, LookHolds, PTL DEF Spec, VerifiedIsSettled

===============================================================================
