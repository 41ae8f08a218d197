---------------------------- MODULE ResultWindow ----------------------------
(***************************************************************************)
(* The window through which a cron job of Cyclops sees its own results,    *)
(* and what it does to the job's lease.  Hermes fires the job again and    *)
(* again; every fire is a run, and the script of the run collects the      *)
(* newest Window runs of its job with the results of those that completed  *)
(* (HermesCronResultAdapter.collect).  One unreadable result fails the     *)
(* collection; one that does not reach back to the lease is incomplete;    *)
(* more than one result matched with the lease is ambiguous; one that is   *)
(* matched may still fail its fences, or its revalidation on the board.    *)
(* Each time the gate stays quiet and leaves the lease as it is, whether   *)
(* the lease is over or not (manager_router_gate, notification_courier).   *)
(*                                                                         *)
(* A fire is one action here: how its transactions interleave with those   *)
(* of other processes is WakeLedger's and Courier's subject.  Time is      *)
(* counted in fires.  For the router the lease is a wake attempt, for the  *)
(* courier a notification.                                                 *)
(***************************************************************************)
EXTENDS Integers, Sequences, FiniteSets

CONSTANTS
  Window,      \* _RUN_LIMIT: 32
  LeaseFires   \* fires within one lease: 10 or 5 minutes at one per 2 minutes

ASSUME WindowAssumption ==
  /\ Window \in Nat \ {0}
  /\ LeaseFires \in Nat
  /\ LeaseFires + 1 < Window

VARIABLES
  job,       \* which of the two jobs this is; never changes
  runs,      \* Hermes' newest runs of the job, newest first
  held,      \* the job's lease is held
  expired,   \* the clock has passed the end of that lease
  active,    \* the activation verdict of the job's scripts
  board      \* what the router would see of the leased condition on the board

vars == <<job, runs, held, expired, active, board>>

-----------------------------------------------------------------------------
(* The kind of a run: "working" is the agent or the delivery the current   *)
(* lease started, "stray" one of an earlier lease, "answer" a result that  *)
(* is matched with the current lease and is as it should be, "rejected"    *)
(* one that names the attempt of the current lease but not its incident,   *)
(* generation, observation, nonce and token; "unreadable" is a result that *)
(* parse_result refuses, and "quiet" every other one, and a run that has   *)
(* none.  old says that the run was claimed no later than the lease.       *)

Kind == {"working", "stray", "answer", "rejected", "unreadable", "quiet"}
Entry == [kind : Kind, old : BOOLEAN]

\* The leased condition, collected afresh: unchanged, gone or changed, or out of
\* reach.  The courier does not look.
Board == {"same", "changed", "unreadable"}

TypeOK ==
  /\ job \in {"router", "courier"}
  /\ runs \in Seq(Entry)
  /\ Len(runs) <= Window
  /\ held \in BOOLEAN
  /\ expired \in BOOLEAN
  /\ active \in BOOLEAN
  /\ board \in Board

Init ==
  /\ job \in {"router", "courier"}
  /\ runs = <<>>
  /\ held = FALSE
  /\ expired = FALSE
  /\ active \in BOOLEAN
  /\ board = "same"

Lists(list, kind) == \E n \in DOMAIN list : list[n].kind = kind
Readable(list)    == ~Lists(list, "unreadable")

\* The results matched with the lease: by the attempt a manager names, by the
\* packet a courier printed.
Matched(list) == {n \in DOMAIN list : list[n].kind \in {"answer", "rejected"}}

\* Mutant: a changed condition neither resolves nor supersedes the attempt.
Settles_Unchanged(list) ==
  \E n \in DOMAIN list :
    /\ Matched(list) = {n}
    /\ job = "courier" \/ (board = "same" /\ list[n].kind = "answer")

\* Exactly one result is matched, and it settles the lease: the courier records
\* it; the router resolves or supersedes the attempt when the condition is gone
\* or changed, and otherwise takes the answer if its fences hold.
Settles(list) ==
  \E n \in DOMAIN list :
    /\ Matched(list) = {n}
    /\ \/ job = "courier"
       \/ board = "changed"
       \/ board = "same" /\ list[n].kind = "answer"

\* Runs claimed since the lease was taken.
Since == Cardinality({n \in DOMAIN runs : ~runs[n].old})

\* Mutant: the window is not cut.
Claimed_Uncut(list) == <<[kind |-> "quiet", old |-> FALSE]>> \o list

\* Hermes claims a run and keeps the newest Window in view.
Claimed(list) ==
  LET longer == <<[kind |-> "quiet", old |-> FALSE]>> \o list
  IN  IF Len(longer) > Window THEN SubSeq(longer, 1, Window) ELSE longer

\* Mutants: a full window is never complete; its oldest run must have been
\* claimed before the lease; every window is complete.
Complete_Short(list)  == Len(list) < Window
Complete_Before(list) == Len(list) < Window \/ list[Len(list) - 1].old
Complete_Always(list) == TRUE

\* The collection reaches back to the lease.
Complete(list) == Len(list) < Window \/ list[Len(list)].old

\* The lease is over: its agent and its answer belong to nothing now.
Forgotten(list) ==
  [n \in DOMAIN list |->
     [list[n] EXCEPT !.kind = CASE @ = "working" -> "stray"
                                [] @ \in {"answer", "rejected"} -> "quiet"
                                [] OTHER -> @]]

\* The newest run takes a lease.
Started(list) ==
  [n \in DOMAIN list |->
     [kind |-> IF n = 1 THEN "working" ELSE Forgotten(list)[n].kind, old |-> TRUE]]

-----------------------------------------------------------------------------
\* The script prints a negative gate: the job is not active, the collection
\* failed or is incomplete, the matched result is not one that settles the lease,
\* or there is none and the lease is not over.
Quiet(list) ==
  /\ \/ ~active
     \/ ~Readable(list)
     \/ held /\ ~Complete(list)
     \/ held /\ Matched(list) # {} /\ ~Settles(list)
     \/ held /\ Matched(list) = {} /\ ~expired
  /\ runs' = list
  /\ UNCHANGED <<held, expired>>

\* The lease is settled by the result matched with it.
Import(list) ==
  /\ active /\ Readable(list)
  /\ held /\ Complete(list) /\ Settles(list)
  /\ runs' = Forgotten(list)
  /\ held' = FALSE
  /\ expired' = FALSE

\* The lease ended without a matched result: the courier records that, the
\* router goes on to take the next lease if an incident is eligible.
GiveBack(list) ==
  /\ active /\ Readable(list)
  /\ held /\ Complete(list) /\ Matched(list) = {} /\ expired
  /\ \/ runs' = Forgotten(list) /\ held' = FALSE
     \/ job = "router" /\ runs' = Started(list) /\ held' = TRUE
  /\ expired' = FALSE

\* Nothing is leased: take a lease, if anything waits for one.
TakeLease(list) ==
  /\ active /\ Readable(list) /\ ~held
  /\ \/ runs' = list /\ held' = FALSE
     \/ runs' = Started(list) /\ held' = TRUE
  /\ UNCHANGED expired

\* Hermes fires the job and its script runs.  A lease lasts LeaseFires fires.
Fire ==
  /\ held /\ ~expired => Since < LeaseFires
  /\ LET list == Claimed(runs)
     IN  Quiet(list) \/ Import(list) \/ GiveBack(list) \/ TakeLease(list)
  /\ UNCHANGED <<job, active, board>>

\* The clock passes the end of the lease.
Expire ==
  /\ held /\ ~expired
  /\ expired' = TRUE
  /\ UNCHANGED <<job, runs, held, active, board>>

\* An agent or a delivery ends.  In time it may be matched: the agent of the
\* lease names the attempt, rightly or with a wrong fence, and a delivery prints
\* the packet, also one of an earlier lease of it that comes late.  An agent may
\* always end in nothing of use, or in a result over the adapter's bounds.
Finish(n) ==
  /\ runs[n].kind \in {"working", "stray"}
  /\ \E kind \in {"answer", "rejected", "unreadable", "quiet"} :
       /\ kind \in {"answer", "rejected"} => held /\ ~expired
       /\ kind = "answer" => job = "courier" \/ runs[n].kind = "working"
       /\ kind = "rejected" => job = "router" /\ runs[n].kind = "working"
       /\ kind = "unreadable" => job = "router"
       /\ runs' = [runs EXCEPT ![n].kind = kind]
  /\ UNCHANGED <<job, held, expired, active, board>>

\* A tick no longer sees the condition and supersedes the attempt.
Supersede ==
  /\ job = "router" /\ held
  /\ runs' = Forgotten(runs)
  /\ held' = FALSE
  /\ expired' = FALSE
  /\ UNCHANGED <<job, active, board>>

\* The operator activates or deactivates, or the verdict drifts.
Toggle ==
  /\ active' = ~active
  /\ UNCHANGED <<job, runs, held, expired, board>>

\* The condition the router leased goes, changes or comes back, and the board
\* is out of reach for a while.
Observe ==
  /\ job = "router"
  /\ board' \in Board \ {board}
  /\ UNCHANGED <<job, runs, held, expired, active>>

Next ==
  \/ Fire
  \/ Expire
  \/ \E n \in DOMAIN runs : Finish(n)
  \/ Supersede
  \/ Toggle
  \/ Observe

\* Hermes' scheduler fires the job forever and time passes; agents, operators
\* and the board owe nothing.
Fairness == WF_vars(Fire) /\ WF_vars(Expire)

Spec == Init /\ [][Next]_vars /\ Fairness

-----------------------------------------------------------------------------
(* Properties *)

\* Nothing is wrong around the job: its scripts are active, every result in view
\* can be read, the board can be collected, and the agent of the lease did not
\* answer with a wrong fence.  A run that is still going is nothing wrong, nor is
\* one that ended in nothing, nor are several deliveries of one packet.
InService ==
  /\ active
  /\ Readable(runs)
  /\ board # "unreadable"
  /\ ~Lists(runs, "rejected")

\* The run that took the lease has left the window.
Lost == held /\ \A n \in DOMAIN runs : ~runs[n].old

\* As long as the job stays in service, every lease that ran out is settled:
\* answers and ends are never missed for a window that is too short, and several
\* deliveries of one packet block their lease only until the earlier ones have
\* left the window.
ServiceSettles == []InService => (expired ~> ~expired)

\* The next fire still sees the run that took the lease.
InView == \E n \in DOMAIN Claimed(runs) : Claimed(runs)[n].old

\* Outages do no lasting harm while the lease stays in view: if the next fire
\* still sees it when the job is back in service for good, a lease that ran out
\* is settled, to the last fire of the window.
OutageInViewSettles == [](expired /\ InView /\ []InService => <>~expired)

\* And in service it stays in view: no lease is lost without an outage, however
\* the fires, the end of the lease and the end of its agent fall together.
LeaseStaysInView == []InService => [](held => InView)

\* A notification lease that left the window is never settled again, by
\* anybody: no later fire, activation or result brings the outbox back.
LostIsForever == [][job = "courier" /\ Lost => Lost']_vars

\* What MANAGER_WAKEUP.md says of output that is over the bounds: it only
\* invalidates the ACK, so that the lease of an active router still expires when
\* nothing else is wrong.
InvalidAnswerExpires ==
  [](active /\ board # "unreadable" /\ ~Lists(runs, "rejected")) => (expired ~> ~expired)

\* And of an ACK with a mismatched fence: it only invalidates the ACK, so that
\* with every result readable and the board in reach the lease still expires.
MismatchExpires ==
  [](active /\ Readable(runs) /\ board # "unreadable") => (expired ~> ~expired)

=============================================================================
