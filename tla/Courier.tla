------------------------------- MODULE Courier -------------------------------
(***************************************************************************)
(* The notification outbox and the program that drains it:                 *)
(*                                                                         *)
(*   courier  `skynet-cyclops manager courier`: samples the clock, reads   *)
(*            the intent that is leased, collects the results of its own   *)
(*            earlier cron runs, then records the outcome of that lease or *)
(*            leases the next intent and prints its packet                 *)
(*            (manager.notification_courier, Ledger.current_notification,  *)
(*            Ledger.record_notification_result,                           *)
(*            Ledger.lease_notification).                                  *)
(*                                                                         *)
(* Every SQLite transaction is one action.  Hermes runs the printed packet *)
(* through its transport and later reports, per run, when it finished and  *)
(* how; a run may be lost.  The incidents behind the packets belong to     *)
(* WakeLedger: here a row is only the tick count its packet shows, which   *)
(* every tick moves on while the condition persists.                       *)
(***************************************************************************)
EXTENDS Integers, FiniteSets

CONSTANTS
  Packet,          \* decision packets, one per notification intent
  PacketOrder,     \* Packet -> Nat, the order of the packet identifiers
  Couriers,        \* concurrent `manager courier` processes
  LeaseSeconds,    \* 300 in the code
  RetryDelay,      \* 300 in the code
  NoPacket,        \* current_notification returned None
  MaxStall,        \* longest life of a courier process, in clock units
  MaxObserved,     \* bound: ticks counted by a row
  MaxClock         \* bound: wall clock

ASSUME CourierAssumption ==
  /\ PacketOrder \in [Packet -> Nat]
  /\ \A p, q \in Packet : PacketOrder[p] = PacketOrder[q] => p = q
  /\ LeaseSeconds \in Nat \ {0}
  /\ RetryDelay \in Nat \ {0}
  /\ NoPacket \notin Packet
  /\ MaxStall \in Nat
  /\ MaxObserved \in Nat \ {0}
  /\ MaxClock \in Nat

VARIABLES
  intents,    \* notification_intents, one row per packet
  observed,   \* incidents.observed_ticks of the row behind the packet
  runs,       \* external: Hermes' record of the run that printed attempt n
  courier,    \* local state of each courier process
  clock       \* external: wall clock

vars == <<intents, observed, runs, courier, clock>>

-----------------------------------------------------------------------------
(* Tables and local state *)

AttemptNo == 1..2      \* attempt_count BETWEEN 0 AND 2
Time      == 0..MaxClock
NoTime    == -1
Ticks     == 1..MaxObserved

Intent ==
  [state    : {"none", "pending", "leased", "sent", "failed", "acknowledged"},
   attempts : 0..2,
   created  : Time,
   acquired : Time \cup {NoTime},
   expires  : Nat \cup {NoTime},
   next_at  : Nat]

NoIntent == [state |-> "none", attempts |-> 0, created |-> 0,
             acquired |-> NoTime, expires |-> NoTime, next_at |-> 0]

\* "failed" stands for every outcome that is not "delivered"; shown is the
\* tick count in the printed packet, the part of it that can change.
Outcome == {"delivered", "failed"}
Run     == [state    : {"none", "running", "done"},
            started  : Time \cup {NoTime},
            finished : Time \cup {NoTime},
            outcome  : Outcome,
            shown    : Ticks]
NoRun   == [state |-> "none", started |-> NoTime, finished |-> NoTime,
            outcome |-> "failed", shown |-> 1]

\* packet, acquired, expires and shown are the snapshot of the leased intent
\* (current_notification), or, in "emit", the packet to print; outcome is what
\* the courier decided to record.
CourierState ==
  [pc       : {"idle", "read", "collect", "record", "lease", "emit"},
   now      : Time,
   packet   : Packet \cup {NoPacket},
   attempt  : 0..2,
   acquired : Time \cup {NoTime},
   expires  : Nat \cup {NoTime},
   shown    : Ticks,
   outcome  : Outcome]

CourierIdle == [pc |-> "idle", now |-> 0, packet |-> NoPacket, attempt |-> 0,
                acquired |-> NoTime, expires |-> NoTime, shown |-> 1,
                outcome |-> "failed"]

Goto(c, pc) == courier' = [courier EXCEPT ![c].pc = pc]
Done(c)     == courier' = [courier EXCEPT ![c] = CourierIdle]
Leased(p)   == intents[p].state = "leased"

TypeOK ==
  /\ intents \in [Packet -> Intent]
  /\ observed \in [Packet -> Ticks]
  /\ runs \in [Packet \X AttemptNo -> Run]
  /\ courier \in [Couriers -> CourierState]
  /\ clock \in Time

Init ==
  /\ intents = [p \in Packet |-> NoIntent]
  /\ observed = [p \in Packet |-> 1]
  /\ runs = [e \in Packet \X AttemptNo |-> NoRun]
  /\ courier = [c \in Couriers |-> CourierIdle]
  /\ clock = 0

-----------------------------------------------------------------------------
(* The rest of the ledger, as the courier sees it *)

\* An incident ends in human_required or dead_letter: its packet is queued.
Enqueue(p) ==
  /\ intents[p].state = "none"
  /\ intents' = [intents EXCEPT ![p].state = "pending", ![p].created = clock]
  /\ UNCHANGED <<observed, runs, courier, clock>>

\* A committed tick sees the condition again: the row counts it, terminal or
\* not.  Once a tick does not see it, no such step follows.
TickCounts(p) ==
  /\ observed[p] < MaxObserved
  /\ observed' = [observed EXCEPT ![p] = @ + 1]
  /\ UNCHANGED <<intents, runs, courier, clock>>

\* acknowledge_incident: the operator has seen a packet that was sent.
Acknowledge(p) ==
  /\ intents[p].state = "sent"
  /\ intents' = [intents EXCEPT ![p].state = "acknowledged"]
  /\ UNCHANGED <<observed, runs, courier, clock>>

-----------------------------------------------------------------------------
(* Courier *)

\* The gate passes the scope and activation checks and samples its clock.
CourierStart(c) ==
  /\ courier[c].pc = "idle"
  /\ courier' = [courier EXCEPT ![c].pc = "read", ![c].now = clock]
  /\ UNCHANGED <<intents, observed, runs, clock>>

\* current_notification: the leased intent with the packet its row gives now,
\* or nothing when none or several are leased.
CourierRead(c) ==
  /\ courier[c].pc = "read"
  /\ \/ \E p \in Packet :
          /\ Leased(p)
          /\ \A q \in Packet : Leased(q) => q = p
          /\ courier' = [courier EXCEPT ![c] =
               [@ EXCEPT !.pc = "collect", !.packet = p,
                         !.acquired = intents[p].acquired,
                         !.expires = intents[p].expires,
                         !.shown = observed[p]]]
     \/ /\ Cardinality({p \in Packet : Leased(p)}) # 1
        /\ Goto(c, "lease")
  /\ UNCHANGED <<intents, observed, runs, clock>>

\* Mutant: the run must have begun before the lease, not with it.
Matching_Strict(me) ==
  {n \in AttemptNo :
     LET run == runs[<<me.packet, n>>] IN
     /\ run.state = "done"
     /\ run.started < me.acquired
     /\ run.finished <= me.expires
     /\ run.shown = me.shown}

\* The runs that answer for the lease: they began before it, finished inside
\* it, and printed exactly the packet the row gives now.
Matching(me) ==
  {n \in AttemptNo :
     LET run == runs[<<me.packet, n>>] IN
     /\ run.state = "done"
     /\ run.started <= me.acquired
     /\ me.acquired <= run.finished
     /\ run.finished <= me.expires
     /\ run.finished <= me.now
     /\ run.shown = me.shown}

Decide(c, outcome) ==
  courier' = [courier EXCEPT ![c] =
    [CourierIdle EXCEPT !.pc = "record", !.now = courier[c].now,
                        !.packet = courier[c].packet, !.outcome = outcome]]

\* The cron results are collected and decide what to record.
CourierCollect(c) ==
  /\ courier[c].pc = "collect"
  /\ LET me == courier[c]
         matches == Matching(me)
     IN  \/ Cardinality(matches) > 1 /\ Done(c)
         \/ \E n \in AttemptNo :
              /\ matches = {n}
              /\ Decide(c, runs[<<me.packet, n>>].outcome)
         \/ matches = {} /\ me.expires > me.now /\ Done(c)
         \/ matches = {} /\ me.expires <= me.now /\ Decide(c, "failed")
  /\ UNCHANGED <<intents, observed, runs, clock>>

\* Mutants: every outcome counts as sent; the retry is not delayed; it is
\* dated back.
Recorded_AlwaysSent(intent, outcome, now) ==
  [intent EXCEPT !.state = "sent", !.acquired = NoTime, !.expires = NoTime]
RetryAt_Once(now) == now
RetryAt_Back(now) == now - RetryDelay

RetryAt(now) == now + RetryDelay

\* What an outcome makes of the leased intent.
Recorded(intent, outcome, now) ==
  [intent EXCEPT
     !.state = IF outcome = "delivered" THEN "sent"
               ELSE IF intent.attempts >= 2 THEN "failed" ELSE "pending",
     !.next_at = IF outcome # "delivered" /\ intent.attempts < 2
                 THEN RetryAt(now) ELSE 0,
     !.acquired = NoTime,
     !.expires = NoTime]

\* record_notification_result.  The transaction finds the intent by its packet
\* and only asks that it is leased; otherwise it changes nothing.
CourierRecord(c) ==
  /\ courier[c].pc = "record"
  /\ LET me == courier[c] IN
       \/ /\ Leased(me.packet)
          /\ intents' = [intents EXCEPT ![me.packet] = Recorded(@, me.outcome, me.now)]
       \/ /\ ~Leased(me.packet)
          /\ UNCHANGED intents
  /\ Done(c)
  /\ UNCHANGED <<observed, runs, clock>>

\* lease_notification first gives back or gives up the leases that ended.
Reaped(intent, now) ==
  IF intent.state = "leased" /\ intent.expires <= now
  THEN IF intent.attempts < 2
       THEN [intent EXCEPT !.state = "pending", !.acquired = NoTime,
                           !.expires = NoTime, !.next_at = RetryAt(now)]
       ELSE [intent EXCEPT !.state = "failed"]
  ELSE intent

Ready(intent, now) ==
  /\ intent.state = "pending"
  /\ intent.attempts < 2
  /\ intent.next_at <= now

\* Mutant: newest first.
Older_Newest(p, q) == intents[p].created > intents[q].created

\* ORDER BY created_at, decision_packet_id.
Older(p, q) ==
  \/ intents[p].created < intents[q].created
  \/ intents[p].created = intents[q].created /\ PacketOrder[p] < PacketOrder[q]

\* The intent begins its next attempt.
Taken(intent, now) ==
  [intent EXCEPT !.state = "leased", !.attempts = @ + 1,
                 !.acquired = now, !.expires = now + LeaseSeconds]

\* lease_notification: one transaction.
CourierLease(c) ==
  /\ courier[c].pc = "lease"
  /\ LET now == courier[c].now
         reaped == [p \in Packet |-> Reaped(intents[p], now)]
         ready == {p \in Packet : Ready(reaped[p], now)}
     IN  \/ /\ ready = {}
            /\ intents' = reaped
            /\ Done(c)
         \/ \E p \in ready :
              /\ \A q \in ready \ {p} : Older(p, q)
              /\ intents' = [reaped EXCEPT ![p] = Taken(@, now)]
              /\ courier' = [courier EXCEPT ![c] =
                   [@ EXCEPT !.pc = "emit", !.packet = p,
                             !.attempt = reaped[p].attempts + 1,
                             !.shown = observed[p]]]
  /\ UNCHANGED <<observed, runs, clock>>

\* The packet is printed and Hermes delivers it.
CourierEmit(c) ==
  /\ courier[c].pc = "emit"
  /\ LET me == courier[c] IN
       runs' = [runs EXCEPT ![<<me.packet, me.attempt>>] =
         [NoRun EXCEPT !.state = "running", !.started = me.now, !.shown = me.shown]]
  /\ Done(c)
  /\ UNCHANGED <<intents, observed, clock>>

\* The process dies, or the collection fails or is incomplete.
CourierAbort(c) ==
  /\ courier[c].pc # "idle"
  /\ Done(c)
  /\ UNCHANGED <<intents, observed, runs, clock>>

-----------------------------------------------------------------------------
(* External: Hermes, clock *)

\* A run ends; one that never does takes no step.
HermesFinish(p, n) ==
  /\ runs[<<p, n>>].state = "running"
  /\ \E outcome \in Outcome :
       runs' = [runs EXCEPT ![<<p, n>>] =
         [@ EXCEPT !.state = "done", !.finished = clock, !.outcome = outcome]]
  /\ UNCHANGED <<intents, observed, courier, clock>>

\* The clock moves on; a courier lives at most MaxStall after its timestamp.
Advance ==
  /\ clock < MaxClock
  /\ \A c \in Couriers : courier[c].pc # "idle" => clock < courier[c].now + MaxStall
  /\ clock' = clock + 1
  /\ UNCHANGED <<intents, observed, runs, courier>>

-----------------------------------------------------------------------------
Ledger(p) == Enqueue(p) \/ TickCounts(p) \/ Acknowledge(p)

Drain(c) ==
  \/ CourierStart(c) \/ CourierRead(c) \/ CourierCollect(c) \/ CourierRecord(c)
  \/ CourierLease(c) \/ CourierEmit(c) \/ CourierAbort(c)

Next ==
  \/ \E p \in Packet : Ledger(p)
  \/ \E c \in Couriers : Drain(c)
  \/ \E p \in Packet, n \in AttemptNo : HermesFinish(p, n)
  \/ Advance

Spec == Init /\ [][Next]_vars

-----------------------------------------------------------------------------
(* Properties *)

\* A delivery that Hermes reported within the lease it was printed under.
InTime(run) ==
  /\ run.state = "done"
  /\ run.outcome = "delivered"
  /\ run.finished < run.started + LeaseSeconds

\* A packet counts as sent only when one of its own runs was delivered,
\* whatever couriers raced to record an outcome or gave the lease back.
SentMeansDelivered ==
  \A p \in Packet : intents[p].state \in {"sent", "acknowledged"} =>
    \E n \in AttemptNo :
      /\ runs[<<p, n>>].state = "done"
      /\ runs[<<p, n>>].outcome = "delivered"

\* A packet is printed a second time no sooner than the retry delay after the
\* first printing.
RepeatIsDelayed ==
  \A p \in Packet :
    runs[<<p, 1>>].state # "none" /\ runs[<<p, 2>>].state # "none" =>
      runs[<<p, 2>>].started >= runs[<<p, 1>>].started + RetryDelay

\* No packet overtakes an older one: the first lease of a packet means every
\* packet queued before it has been leased.
OldestFirst ==
  \A p, q \in Packet :
    /\ intents[p].state # "none"
    /\ intents[q].attempts > 0
    /\ intents[p].created < intents[q].created
    => intents[p].attempts > 0

\* The only run of p that ended inside the lease p is in was delivered, with
\* the packet its row still gives.
Verified(p) ==
  \E n \in AttemptNo :
    /\ InTime(runs[<<p, n>>])
    /\ runs[<<p, n>>].started = intents[p].acquired
    /\ runs[<<p, n>>].shown = observed[p]
    /\ \A m \in AttemptNo \ {n} : runs[<<p, m>>].state # "done"

\* A verified delivery settles its lease: while its row stands still and no
\* other packet was ever leased, p never leaves that lease for a retry or for
\* failed, however late a courier looks and whoever races it.
VerifiedIsSettled ==
  [][\A p \in Packet :
       /\ Leased(p)
       /\ Verified(p)
       /\ \A q \in Packet \ {p} : intents[q].attempts = 0
       /\ intents'[p].state # "leased"
       => intents'[p].state = "sent"]_vars

\* What MANAGER_WAKEUP.md says of delivery: a packet that a courier run
\* delivered in time is not printed again.
VerifiedDeliverySuppressesRepeats ==
  [][\A p \in Packet, n \in AttemptNo :
       InTime(runs[<<p, n>>]) => intents'[p].attempts = intents[p].attempts]_vars

=============================================================================
