# Skynet-Cyclops in TLA+

Skynet-Cyclops observes one Hermes Kanban mission, keeps a private SQLite
ledger of what it sees, and, when an incident persists, wakes a manager agent
through a Hermes cron job and tells a human how it ended.  This directory
specifies that behaviour, model-checks it with TLC and proves theorems about it
with TLAPS.  Paths below are relative to the repository; `X.py` is
`src/skynet_cyclops/X.py`.

## The system

| Part | Code | State it keeps | Operations |
|---|---|---|---|
| Ledger, manager plane | `ledger.py` | `meta`, `incidents`, `wake_attempts`, `wake_budgets` | observe, commit tick, lease, accept ACK, resolve |
| Ledger, outbox | `ledger.py` | `notification_intents` | enqueue, lease, record, acknowledge |
| Tick | `tick.py`, systemd timer every 120 s, killed after 45 s | one snapshot per process | read counter, collect, commit, write projection |
| Router | `manager.py`, Hermes cron every 2 minutes | one timestamp and one attempt snapshot per process | collect results, revalidate, import / resolve / reconcile and lease |
| Courier | `manager.py`, Hermes cron every 2 minutes | one timestamp and one intent snapshot per process | collect results, record / lease and print |
| Cron result adapter | `hermes_results.py` | none | last 32 runs of a job and their results |
| Projection | `projection.py` | `status.json` | atomic write, strict read |
| Mission state, manifest | `state.py`, `manifest.py` | none | pure functions |
| Bootstrap | `bootstrap.py`, `ledger.py` | creation intents, bindings, a file lock | create a card per phase once, link, read back, promote the roots |
| Activation | `activation.py` | `manager-activation.json`, a file lock | activate, deactivate, verdict of each fire |
| Cron installer | `manager_install.py` | staged files, cron jobs | stage, execute, roll back |
| Migration | `ledger.py` | schema version | v1 to v2 to v3 |
| Collector, config, CLI, dashboard, scripts | the rest | none | input and output |

Tick, router, courier, bootstrap and the operator's commands are separate
processes.  They share the ledger (every write is one `BEGIN IMMEDIATE`
transaction, so transactions are atomic and totally ordered) and a few files.
Nothing but a transaction protects a value: what a process read before its
collection, which may take tens of seconds, it uses afterwards.  Hermes, the
board, the manager agent, the chat transport and the wall clock are external.

What must be right, per component:

* manager plane: one manager at work over all incidents; an incident waits
  exactly while its attempt is leased; retries are bounded and spaced; a late or
  stale answer decides nothing; every generation ends once and the human hears of
  exactly the ends that are not "resolved"; wakes are persistent and budgeted.
* outbox: a packet counts as sent only if it was delivered; it is repeated at
  most once and not too soon; a verified delivery is not repeated; oldest first.
* result adapter: a lease comes to an end while its job is in service, and is not
  lost for a window that is too short.
* tick and projection: an outdated observation is rolled back whole; a mission
  is shown as done only when it is; the status file catches up with the ledger.
* bootstrap: one card per phase through lost answers and restarts, and nothing
  for a worker to take before the graph is whole; repeated, it is completed.
* activation: a wake runs the installation the operator attested, and a
  deactivation is not lost.
* installer: what an attempt reports of jobs and files is what they are.

What is hard here: two routers, two couriers or two ticks overlapping; time
passing between a clock sample and the transaction that uses it; a crash between
lease and output; answers after expiry; comparison with a row that moved on;
calls of Hermes that fail with their effect, or take effect after their caller
died; files, jobs and cards read one after the other while they change.
`PROJECT.json` lists these hazards with their lines and the properties about them.

## Modules

**`WakeLedger`** models the manager plane with ticks and routers.

| Variable | Code |
|---|---|
| `rows` | `incidents`, keyed by (incident_id, generation); `NoRow` is a missing row |
| `attempts` | `wake_attempts`, keyed by generation and attempt_no; `finished_at` is Hermes' completion time of the manager's ACK, which the ledger does not store |
| `used` | `wake_budgets`, by UTC day |
| `intents` | the keys of `notification_intents` |
| `tick_seq`, `heartbeat`, `last_wall` | `meta` |
| `post_gap` | the `post_gap` flag the last committed tick published |
| `router`, `ticker` | locals of each running process, with a program counter |
| `board`, `clock` | external |

| Action | Code |
|---|---|
| `TickStart`, `TickCollect` | `run_tick`: clock, `tick_state`, gap; then the collector |
| `TickCommit` | `observe_manager_incidents(commit=False)` and `commit_tick`: one transaction, rolled back whole when another tick committed first |
| `RouterStart`, `RouterRead`, `RouterCollect` | `manager_router_gate` up to its decision |
| `RouterRevalidate` | `current_incident` of the CLI: a fresh board |
| `RouterImport` | `import_manager_result`, `accept_manager_ack` |
| `RouterResolve` | `resolve_manager_result` |
| `RouterReconcile`, `RouterLease` | the first and the second transaction of `lease_manager_incident` |
| `TickAbort`, `RouterAbort` | crash at any step, failed or incomplete collection |
| `BoardChange`, `ManagerFinish`, `Advance` | external |

Abstractions.  One ledger holds one mission, as one deployment does.  An
observation fingerprint is a function of the incident's identity in the deployed
collector (`tick.py:34-56`), so fingerprints never differ and the branches for a
changed one cannot be taken.  Nonces, tokens and job identifiers fence against
answers that are not this attempt's; `Matches` takes them as equal for the
attempt's own answer and considers no other.  The clock is in abstract units and
monotone, but a process may hold an old sample of it, which reaches the
`now < manager_last_wallclock` refusal.  A tick samples the clock before it opens
the ledger and reads the counter after that; `TickStart` is both, since a commit in
between could only change the gap it finds.

**`IncidentLifecycle`** is the abstract specification: the lifecycle of a
generation as `docs/MANAGER_WAKEUP.md` draws it, with neither ledger, clock nor
processes.  `WakeLedger!ImplementsLifecycle` is `IncidentLifecycle` under the
mapping stage = lifecycle, wakes = attempt_count, notified = the generations with
an intent; TLC checks it in the run with recurrences, and the theorem covers races.

**`Courier`** models the outbox with couriers.  `CourierRead` is
`current_notification`, `CourierCollect` the matching in `notification_courier`,
`CourierRecord` `record_notification_result`, `CourierLease`
`lease_notification`, `CourierEmit` the printing.  `runs` is what Hermes recorded
of the run that printed attempt n of a packet.  The incident behind a packet is
reduced to `observed`, the one field of the packet that ticks change.  Every
outcome other than "delivered" takes the same path in the code and is "failed".

**`ResultWindow`** models what a job's script can see of its own results: the
newest 32 runs (`Window`).  A run is quiet, at work, unreadable, an answer to the
lease, or "rejected": a manager's answer that names the attempt, which is all that
`_matching_runtime_results` compares, and not its incident, generation,
observation, nonce and token, which `import_manager_ack` compares afterwards.
`board` is what the revalidation finds: the condition as it was, changed or gone,
or a collector that fails.  A fire of the job is one action with the outcomes of
the gate.

| Outcome | When |
|---|---|
| `Quiet` | inactive; a collection that failed or does not reach back to the lease; a lease with several matched results, or with one that does not settle it; a lease with none that is not over |
| `Import` | exactly one matched result, which `Settles` the lease: recorded by the courier; resolved or superseded by the router when the board has changed; accepted when the board is the same and the fences hold |
| `GiveBack` | no matched result and the lease is over |
| `TakeLease` | nothing is leased |

The order is that of the code: whatever fails on the way to the import is caught
before the end of the lease is looked at (`manager.py:347-350`).  Time is counted
in fires; `LeaseFires` is the lease in fires (5 for the router, 2 for the
courier).  Both jobs are covered, chosen in `Init`: the router's lease can also be
superseded by a tick, the courier's cannot; only the router has agents that answer
wrongly or without bounds, only the courier's packet can be delivered by several
runs in one lease.

**`CronInstall`** models the installer: attempts that plan, stage and execute.

| Variable | Code |
|---|---|
| `files` | the two scripts and `manager-install.json`; a file is who wrote it: an attempt (whose nonce is in it), the prior release, somebody else, or nobody |
| `jobs` | Hermes' cron jobs with the two stable names: name, release of the definition, whether edited, paused or scheduled |
| `issued`, `resumed` | external: identifiers given out; jobs the operator enabled |
| `attempt` | locals of `stage_cron_install` and `execute_cron_install_spec`, with a program counter; `stale` says whether others changed jobs since the attempt's last read-back |

| Action | Code |
|---|---|
| `Plan` | the snapshot and `build_cron_install_spec` |
| `StageStart`, `StageWrite`, `StageFail`, `StageRestore` | `stage_cron_install` under `_installer_lock`, one target at a time, and `_restore_target` |
| `ExecStart` | the read-back before an upgrade |
| `ExecCreate`, `ExecCreated`, `ExecPause`, `ExecUpdate`, `ExecSettled` | one call of the cronjob tool or one read-back of the operations' loop |
| `ExecVerify` | the seam verifier, which accepts or not |
| `RollbackRemove`, `RollbackUpdate`, `ExecFinal` | the rollback's calls and its last read-back |
| `Crash`, `EnableJob`, `ChangeJob`, `ChangeFile` | external |

A read-back (the list of jobs and the full prompts) is one step.  An attempt
executes the specification it staged, and only after staging it.  Validation of
a specification is pure and accepts what the planner builds.  An update gives a
job every field an edit may have changed.

**`Activation`** extends `CronInstall` with the record, the evidence file and two
collectors, the activate command's and that of a router's fire.  `LoadConfig`,
`LoadScripts` and `LoadJob` (once for each job) are the steps of
`load_activation_inputs`; `ActivateStart` and `ActivateCommit` are
`activate_manager` under its lock (the collection before the lock is thrown away
and left out), `Deactivate` is `deactivate_manager`, and `GateStart` and
`GateVerdict` are the fire up to the verdict that the CLI takes once.
`WriteEvidence` and `UpgradeHermes` are external.

**`MissionGraph`** is the abstract specification of the bootstrap: a phase has one
card, no root is exposed before all cards and exactly the manifest's edges exist,
and after that a phase is released when its dependencies are done.
**`Bootstrap`** models the code: `Start` to `Complete` are stage 1 of
`_apply_bootstrap_locked`, `ReadParents` to `ReadLinked` stage 2, `Readback` and
`Verify` stage 3, `ReadRoot` and `ReadPromoted` stage 4; every call of Hermes that
changes the board is an `Execute` of its own, and may fail with or without its
effect (`ExecuteFails`) or outlive its caller (`Crash`, `ExecuteOrphan`).
`ImplementsGraph` is `MissionGraph` under the mapping of a phase to the first card
with its key, and one conjunct more, since that mapping does not show a second
card: of the cards that creates have made, no two are of one phase. External and
assumed: a create whose idempotency key exists answers the card that has it, and
nobody removes edges. Intents may stay "prepared" when a run dies between bind and
completion; nothing reads them.

**`MissionState`** has the pure part of a tick as operators: the graphs that
`_validate_graph` admits (an assumption on the constants), `topological_phases`
(`Order`: wave after wave of what is `Unblocked`, each wave `Sorted` by key) and
`derive_mission_state` (`States`, `Outcome`, `NextPhases`).  The recursion is in
recursive functions, so that theorems can be proved about it.
**`StatusBoard`** extends it with the tick from collection to status file.

| Variable | Code |
|---|---|
| `board` | external: the kind of each phase's card |
| `bound`, `usable` | the ledger's bindings; whether it opens with this manifest's hash |
| `rows`, `last` | the number of incident rows; the states the last tick committed |
| `status` | `status.json`; `overtaken` says that a commit has followed its own |
| `ticker` | locals of the timer's tick and of a manual one; `overtaken` is the failing comparison of `commit_tick` |

`Begin` is `run_tick` up to its collection, or one of the two critical statuses;
`Collect` is `HermesAdapter.collect`, card by card, and left out when no phase is
bound; `Commit` is everything from the derivation to `commit_tick`; `Write` is
`write_projection`, with the bound on the incidents it lists, which are those of
its own commit (`listed`).  What the manager
plane does to a row, debounce and gaps are in `WakeLedger` and left out here: a
row opens when its state is observed and is over with the first tick that does
not observe it.  The timer starts a oneshot service, so its ticks do not overlap
one another.

**`MC...`** modules give the constants to TLC.  Definitions named
`Name_Variant` next to `Name` are mutants: `Name` with a plausible bug, used to
see that a property can fail; no action uses them.

**`WakeLedgerProofs`**, **`WakeLedgerHistory`**, **`CourierProofs`**,
**`ResultWindowProofs`**, **`InstallProofs`**, **`ActivationProofs`**,
**`StatusBoardProofs`** and **`BootstrapProofs`** hold the theorems.

## Runs

Passing runs:

* `races` (2 incidents, 2 routers, 1 ticker, clock 0..3, lease 2, stall 1):
  `AtMostOneLease` and the type invariant under every order of
  two routers' transactions, crashes included.
* `recurrence` (1 incident, 2 generations, 3 ticks, clock 0..4): expiry, retry,
  dead letter, late and early ACK, resolution by tick and by router, recurrence.
  Three ticks are the fewest that close a generation and open the next; two
  attempts are the code's maximum.
* `budget` (2 incidents, 2 tickers, persistence 2, backoff 1, limit 1, days of 3
  units, damper 1): the clock crosses a day and a gap, the limit is reached, and
  a losing ticker's stale observations arrive.
* `outbox` (1 packet, 2 couriers, lease 2, delay 3, clock 0..7): both attempts of
  a packet from queueing to the end of the second lease.
* `queue` (2 packets, 2 couriers): order, and two leases at once.
* `service` (both jobs, window 6, lease of 3 fires): liveness of leases, that none
  leaves the window while the job is in service, and that one which did is lost.
  The window is full and sliding; outages shorter and longer than it occur, and so
  do rejected answers, several deliveries of one packet and a board out of reach.
* `install` (2 attempts, 4 identifiers, 1 change by the operator, and enabling at
  will): two attempts are the fewest that interleave, four identifiers let each
  create both jobs, one change puts an edit, a removal or a foreign file at any
  place.  The system may really stop here (all attempts over), so deadlock is not
  checked.
* `activation` (1 attempt, 2 identifiers, 1 change, 1 deactivation): an
  installation under way, an activation and a fire, one step of each at a time.
* `bootstrap` (2 roots and a phase that depends on both, 2 processes, 2 faults):
  two faults put a lost answer or a crash before another one; the refinement, no
  second card for a phase, and that a repeated bootstrap is completed.
* `status` (a chain of 3 phases whose final key sorts first, room for 1 row, 2
  faults): torn collections, overlapping ticks, crashes between commit and write,
  a ledger that is lost for a while, and more rows than fit.  With the final key
  first, an order by key alone shows a phase as next before its dependencies.
  Workers end with all evidence or without (`Outcomes`): the other ends (failed,
  blocked, a status the code does not know) are kinds of the model, open an incident
  or none in the same way, and are covered by the theorems.

Symmetry is used for routers, tickers, couriers and attempts only, which no
definition orders, and in runs without liveness; incidents and packets are
ordered by the code and are not symmetric.

Violations, each a statement of the documentation which the code does not meet:

* `repeats`: the courier compares the delivered text with a packet built from the
  live row, whose `observed_ticks` goes on counting; a delivered packet is
  printed again.  Five minutes of lease and a tick every two minutes make this
  the ordinary case as long as the condition persists.
* `frozen`: incident rows are never deleted and a projection lists at most 256 of
  them; from the 257th on every tick commits and then fails to write, and the
  status file keeps its last content.  (So does a phase with more than 100 failed
  runs, which is not modelled.)

Further disagreements between code and documentation are stated by properties
that no listed run checks; the configurations that show them are kept, to be run
by hand (`tlc -config MCWakeLedger_stall.cfg MCWakeLedger`):

* `MCWakeLedger_stall.cfg`, `AtMostOneLease`: with a router held up for as long as
  a lease (`MaxStall = LeaseSeconds`) two managers are leased.  The lease is taken
  in a second transaction with the timestamp sampled before the collection
  (`ledger.py:779`).  In the deployment a lease is ten minutes and nothing in the
  code limits a router's life to that.
* `MCWakeLedger_resolve.cfg`, `RecurrenceNeedsCleanTick`: `resolve_manager_result`
  sets `clean_tick` itself, so two generations can have adjacent ticks.
* `MCWakeLedger_gap.cfg`, `NoWakeOnPostGapTick`: a waiting row keeps `active`
  through the observe-only tick after a gap, and its retry is woken while that
  tick is the last one.
* `MCResultWindow_wedge.cfg`, `InvalidAnswerExpires`: one manager answer over the
  adapter's bounds makes every collection fail while it is in the window; once it
  has left, the lease has left too and is never settled.
* `MCResultWindow_fence.cfg`, `MismatchExpires`: a manager's answer with the right
  attempt and a wrong nonce, token or hash is matched, raises at its import and is
  caught, fire after fire, before the end of the lease is looked at
  (`manager.py:349`); when its run has left the window, so has the lease, and is
  never settled.  The document says that such an answer is invalid and that the
  lease then expires.
* `MCCronInstall_clobber.cfg`, `EditSurvivesRollback`: the rollback of an upgrade
  overwrites a job that the operator edited after the last read-back.
* `MCActivation_deny.cfg`, `DenyIsImmediate`: a fire that has its verdict goes on
  after a deactivation.

## Fairness

`WakeLedger`, `Courier`, `CronInstall` and `Activation` state safety properties
only and assume none.
`ResultWindow` assumes that Hermes fires the job again and again and that time
passes (`WF` of `Fire` and `Expire`): the first is what a cron schedule is.
Nothing is assumed of the agent, the transport, the board, the tick or the
operator; that a job is in service is a hypothesis of the properties, not of
the specification.  `InService` says what that is: the scripts are active, every result
in view is readable, the board can be collected, and the agent of the lease did not
answer with a wrong fence.  Each part is needed, since without any one of them a
fire may be quiet before it looks at the end of the lease: `MCResultWindow_wedge.cfg`
and `MCResultWindow_fence.cfg` show it for the second and the last.  `OutageInViewSettles` asks for
it only from some time on.  `Bootstrap` assumes that a run that has begun goes on and that
the operator repeats the command, as the documentation asks after a failure;
faults are bounded, workers owe nothing.  A bootstrap is stuck while an earlier
root is blocked (stage 4 raises before the later roots), so that no root stays
blocked is a hypothesis of `BootstrapCompletes`; so is that no card is tampered
with, and that the ledger is not lost after a root was promoted, both of which
the code refuses on purpose.  `StatusBoard` assumes that the timer fires again and
again and that a running tick goes on (or is aborted, a fault).

## Bounds

`MaxClock`, `MaxTick`, `MaxGeneration` and `MaxObserved` bound what grows without
limit in the code.  They are guards of `Advance`, `TickStart`, `TickCommit` and
`TickCounts`; the system may stop at them, but a board that changes or a process
that starts and dies is always possible, so deadlock checking stays on.
`MaxJobs`, `MaxChanges`, `MaxDenies` and `MaxFaults` bound what others do to the
newer modules' systems: identifiers, changes, deactivations, and faults of any
kind.  `Capacity` is the projection's bound of 256 rows, small in the runs.
`ResultWindow` needs no bound: the window itself bounds its state, and it asks
that a lease and one more fire fit in the window, as 5 and 2 do in 32.
`MaxStall` is the longest time a router or courier lives after its clock sample.
It is not a bound for TLC's sake but an assumption on the environment: the
guarantee against two leases depends on it.  `VerifiedIsSettled` depends on it
too, since record and lease are fenced by the packet alone: two stalls must be
shorter than the retry delay (`outbox` takes a stall of 1 and a delay of 3).  With
a stall of 1 and a delay of 2, TLC finds a courier that read the first lease and
settles the second.  How a stall compares with the lease does not matter.

## Theorems

All hold for every set of processes, every mission, every policy and every
bound, from the named assumptions of the models (`...Assumption`, each in the
module that declares the constants), which the runs evaluate.  Three theorems have
a hypothesis of their own, given below; all three bound the life of a process.  A
component's proofs first reduce its actions to the kinds of steps that one of
its objects (a generation, an intent, a run, an attempt, a card) can take; the
invariants then argue over those.  Every invariant and every action property that
a passing run checks is a theorem.

**`WakeLedgerProofs`**

* `TypeCorrect`: `Spec => []TypeOK`.  One lemma per program; the records a
  transaction writes are typed by lemmas of their own.  `TypeOK` includes that a
  router past its decision holds an attempt.
* `WaitingIsLeased`: `Spec => []WakeSentIffLeased`.  The invariant is inductive
  relative to `TypeOK`: the lease writes row and attempt together
  (`AgreesAfterLease`), every end of a lease takes the row with it, and the
  attempt a row's count names is the only one that can be leased, so expiry never
  finds two attempts of a row.
* `OneLease`: `MaxStall < LeaseSeconds` implies `Spec => []AtMostOneLease`.
  `AtMostOneLease` is not inductive: a second transaction with an old timestamp
  can take a lease that has ended for one that never was.  `LeaseInv` adds
  `RouterFresh` (a running router's timestamp is at most `MaxStall` old) and
  `Reconciled` (a router between its transactions knows that every lease outlives
  its timestamp: it expired the others, and a lease taken since, by a router no
  more than `MaxStall` older, ends later because a lease is longer than that).
  With `<=` for `<` the theorem is false, which `MCWakeLedger_stall.cfg` shows.

**`WakeLedgerHistory`** goes on with the history of a generation.  `StepOfAKey`
says what one step can make of one: a tick looks at it (it stays, opens, is
renewed, closed or resolved), or a router accepts its answer, gives it up,
reschedules it, wakes its manager or resolves it.

* `GenerationsFollow` (`OneOpenGeneration`) and `NotificationsAreEnds`
  (`IntentIffNotifiable`) are inductive over these cases.
* `SettledForGood` (`SettledAttemptIsFinal`) needs `Numbered`: the attempts of a
  row are the first ones up to its count, so a lease takes a number nobody had.
* `AnswersInTime` (`AckWithinLease`) needs `AckInv`: what a router decides by was
  in time when it read it and is so still, and an accepted answer has ended its
  generation.
* `RetriesAreSpaced` (`RetryAfterBackoff`) needs `Spaced`: a row that waits for its
  next attempt remembers when the last one was over.
* `WakesPersist` (`WakesArePersistent`) needs `ObservedThroughout`: an open row was
  seen by every committed tick since it opened, so no look starts its count anew.
* `BudgetIsExact` (`BudgetCountsAttempts`) needs `Counted`: the budget row of a day
  is the cardinality of the attempts leased on it, which a lease raises by one.
* `LedgerImplementsLifecycle`: `MaxStall < LeaseSeconds` implies
  `Spec => ImplementsLifecycle`.  Every commit of a tick is a look of the lifecycle,
  and every transaction of a router is the step of a single generation or none;
  for expiry that is so only because at most one attempt is leased, hence the
  hypothesis of `OneLease`.

**`CourierProofs`**

* `OutboxTyped` (`TypeOK`), with the packet that a courier at work names.
* `SentIsDelivered` (`SentMeansDelivered`) needs `SentInv`: a courier with the
  outcome "delivered" at hand knows of a delivered run of its packet.
* `OldestGoesFirst` (`OldestFirst`) needs `Unleased`: a packet that was never
  leased waits for nothing but its turn, and none is dated in the future.
* `RepeatsWait` (`RepeatIsDelayed`) needs `DelayInv`: the first printing dates the
  first lease, what couriers know of that lease is not older than it, and once it
  is given back the retry waits from then.
* `VerifiedSettles`: `2 * MaxStall < RetryDelay` implies
  `Spec => VerifiedIsSettled`.  The invariant `LookInv` has four parts.
  `LookIsYoung`: a courier's sample of the clock is at most `MaxStall` old.
  `RunsDated`: runs end after they begin, and show no more ticks than were counted.
  `LooksBefore`: a courier that found no lease and goes on to take one sampled its
  clock before any run of a lease taken since was over, so it is too early to
  expire a lease whose run ended in time.  `LookStands`: a lease that a courier has
  read is not followed by another one while that courier lives (a retry waits
  longer than two stalls), and if the courier is about to record a failure, a run
  has failed, or no run answers in time with the packet the row gives, and none
  will.  The last part is why the row must stand still: the count never falls, so
  the printed packet and the row's differ for good once they do.

**`ResultWindowProofs`**

* `WindowIsTyped` (`TypeOK`), with what each operator makes of a window
  (`ClaimedIs`, `ForgottenIs`, `StartedIs`, `FinishIs`).
* `LostLeaseStaysLost` (`LostIsForever`) needs `LostIsFull`: a lease whose run is not
  in the window has a full window before it.  A window that is not full counts as
  complete, and a lease would be given back with it.
* `ServiceKeepsLeases` (`LeaseStaysInView`) needs `NearLease`: the run that took the
  lease is right behind those claimed since, which are at most `LeaseFires` before
  the lease is over and fewer than the window has room for after it.  It is an
  invariant only while the job is in service.  A fire that finds the lease over
  settles it, because the run is in view, because a lease and one more fire fit in
  the window; unless two results are matched with it (`AloneSettles`).  Only runs
  claimed before the lease can be (`UnderIsOld`), so the older one is still in view,
  behind the run that took the lease, and the window has not moved past that.

**`InstallProofs`** and **`ActivationProofs`**

* `InstallIsTyped` (`TypeOK` of the installer) needs `Placed`: the jobs that an
  attempt addresses were given out.
* `StagingIsWhole` (`StagedIsWhole`) needs `StagingInv`: the lock admits one
  staging, what it remembers to give back is whole, and the targets before its own
  are the ones it wrote.
* `EnabledJobsAreReported` (`EnabledIsReported`) needs `EnabledInv`: for each job
  enabled in silence an attempt still has to answer.
* `AppliedIsTheTruth` (`AppliedIsPlanned`) and `RolledBackIsTheTruth`
  (`RolledBackIsRestored`) need `ReportInv`: at each place in the loop the attempt
  expects what its finished operations make of the plan, and while nobody has
  interfered since its last read-back the jobs are what it expects.  The two
  identifiers of an install differ, which holds because none is given out twice.
* `ActivationIsTyped` (`ActivationTypeOK`).
* `DenyIsFinal` (`DenyStopsLaterFires`) and `NoActivationUndoesADeny`
  (`DenyIsNotUndone`) need `DenyInv`: a fire saw at most the deactivations there have
  been, an activation under the lock saw them all.
* `FiresRunThePlan` (`WakeRunsThePlan`) needs `WakeInv`: an enabled record binds the
  definitions as planned, and what a fire has collected is still so while nobody
  interferes.

**`StatusBoardProofs`**

* `BoardIsTyped` (`TypeOK`), for which the rows must be finitely many.
* `ShownDoneIsDone` (`DoneIsDone`) needs `Truth`: done is said only of done cards, by
  every collection, draft, status file and ledger; done cards stay done.
* `CommitsKeepProgress` (`ProgressIsKept`) needs `Fresh`: a tick that nobody has
  overtaken has read as done what the last commit found done, or is still to read it.
* `OrderIsTopological`: for every graph that `_validate_graph` admits, `Order` has
  every phase once, behind all that it depends on.  That a wave keeps this is
  `LongerIsOrdered`.  That no phase is left out takes the graph: among the phases left
  out, one with the fewest ancestors would have all its dependencies in the order
  (an ancestor has fewer ancestors, because no phase is its own), so it would be in
  the next wave (`SomeUnblocked`); and the waves have stopped growing after as many of
  them as there are phases (`GrowthStops`).
* `ShownNextIsDue` (`NextIsDue`) and `ShownRunningIsDue` (`RunningIsDue`) follow: all
  that is before the first phase not done is done, a status with no next phase is
  done, and the single pass that derives the states meets the dependencies of a
  phase before the phase (`OnePassIsEnough`).  The second one needs `Sounds`: the
  states of every draft and of the status were derived so.

**`BootstrapProofs`**

* `BootstrapIsTyped` (`TypeOK`) needs `Counted` (there are at most as many cards as
  phases that have one and faults so far: idempotency keys) and `Staged` (the lock
  admits one run, and a run at an item has bound those before it; without that the
  read-back need not find a card).
* `FlawsStayHidden` (`FlawIsNotExposed`) needs `FlawInv`: a flaw that a run found is
  not mended by any step, so the run does not come past its read-back.
* `BootstrapImplementsGraph` (`ImplementsGraph`) needs `GraphInv`.  Bindings and what
  a listing selects name the first card with a key, which stays the first; every edge,
  and every call to link that is under way, of a run or of one that died, is planned;
  an edge that was verified is never removed, so behind the last item the graph is
  whole for good; and a call to promote was made only then.  With it every step is one
  of the board (`EveryBoardStep`), and a step of the board is one of the graph or does
  not show (`BoardMaps`).  That no phase is created twice is inductive over the same
  steps (`OneCardStep`): a create adds a card only where none has the key.

The proofs about `Order`, which is recursive, avoid the library's induction
theorems, whose operator parameter the provers cannot instantiate.  A set of
numbers with zero and all successors has every number, since what is left out
would have a least member (`AllNumbers`, from the well-foundedness of `<`); a
function given by its first value and a step exists (`RecursionExists`); and what
every step keeps holds of all its values (`StepsKeep`).

What stays with TLC is liveness, which TLAPS cannot prove: `ServiceSettles`,
`OutageInViewSettles`, `StatusCatchesUp` and `BootstrapCompletes`.  For the first
two, `ServiceKeepsLeases` proves the half that is safety: the fire that has to
settle the lease can do it.  The violations are TLC's as well.

## Not modelled

Parsing and validation of Hermes' JSON and of the manifest, subprocess handling,
configuration, the dashboard, packaging, the repository scanner and the seam
verifier have no state worth a model.  `import_manager_outputs` and
`reconcile_incidents` have no caller in the CLI, and `migrate_v1` and `migrate_v2`
none outside the tests: each is one transaction with a backup beside it, and no
process of this release works on a ledger that is not migrated.  File modes,
ownership and `fsync` are checks that make a step fail; a file is replaced
atomically and survives.  The health shown by the supervisor field of a status
("degraded" from the first incident row on, `tick.py:197`) is not modelled.

## Plan

No proof of a safety property is left open.  What would extend the project:

1. `migrate_v2` as a step of `WakeLedger`, if a release ever migrates a ledger while
   its processes run.
2. The hazards in `PROJECT.json` that have a note in place of a property: a clock
   that is set back, an operator's edit during a rollback, and the waiting row after
   a gap; each would be a statement of the documentation first.
3. The manifest's validation of a graph against `ValidGraph`.
