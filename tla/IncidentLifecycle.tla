-------------------------- MODULE IncidentLifecycle --------------------------
(***************************************************************************)
(* What the manager plane promises about incidents, as the lifecycle       *)
(* diagram of docs/MANAGER_WAKEUP.md has it, without ledger, clock,        *)
(* leases, or processes: every generation of an incident is detected once, *)
(* woken a bounded number of times, by one manager at a time over all      *)
(* incidents, and ends once; the human is told exactly when it ends        *)
(* without being resolved.  The diagram's `claimed` is not a step of its   *)
(* own: the code accepts an ACK and decides the terminal in one            *)
(* transaction.  WakeLedger implements this specification.                 *)
(***************************************************************************)
EXTENDS Integers

CONSTANTS Incident, MaxGeneration, MaxAttempts

VARIABLES
  stage,     \* generation -> lifecycle
  wakes,     \* generation -> managers woken for it
  notified   \* generations queued for human delivery

avars == <<stage, wakes, notified>>

AKey   == Incident \X (1..MaxGeneration)
Ended  == {"resolved", "human_required", "dead_letter"}
Alive  == {"detected", "wake_sent"}

AInit ==
  /\ stage = [k \in AKey |-> "absent"]
  /\ wakes = [k \in AKey |-> 0]
  /\ notified = {}

\* The generation before k is over.
Follows(k) == k[2] = 1 \/ stage[<<k[1], k[2] - 1>>] \in Ended

\* One look at the board: some generations open, some live ones are over
\* because their condition is gone.
Look ==
  /\ stage' \in [AKey -> {"absent"} \cup Alive \cup Ended]
  /\ \A k \in AKey :
       \/ stage'[k] = stage[k]
       \/ stage[k] = "absent" /\ Follows(k) /\ stage'[k] = "detected"
       \/ stage[k] \in Alive /\ stage'[k] = "resolved"
  /\ UNCHANGED <<wakes, notified>>

\* One manager is woken, and no other is at work.
Wake(k) ==
  /\ stage[k] = "detected"
  /\ wakes[k] < MaxAttempts
  /\ \A j \in AKey : stage[j] # "wake_sent"
  /\ stage' = [stage EXCEPT ![k] = "wake_sent"]
  /\ wakes' = [wakes EXCEPT ![k] = @ + 1]
  /\ UNCHANGED notified

\* The manager did not answer in time.
Retry(k) ==
  /\ stage[k] = "wake_sent"
  /\ wakes[k] < MaxAttempts
  /\ stage' = [stage EXCEPT ![k] = "detected"]
  /\ UNCHANGED <<wakes, notified>>

End(k, terminal) ==
  /\ stage[k] = "wake_sent"
  /\ stage' = [stage EXCEPT ![k] = terminal]
  /\ notified' = notified \cup {k}
  /\ UNCHANGED wakes

\* The condition persists after a valid answer.
Escalate(k) == End(k, "human_required")

\* No attempt is left.
GiveUp(k) == wakes[k] = MaxAttempts /\ End(k, "dead_letter")

ANext ==
  \/ Look
  \/ \E k \in AKey : Wake(k) \/ Retry(k) \/ Escalate(k) \/ GiveUp(k)

ASpec == AInit /\ [][ANext]_avars

=============================================================================
