----------------------------- MODULE CronInstall -----------------------------
(***************************************************************************)
(* The installation of the two cron jobs of Cyclops, the Manager router    *)
(* and the Notification courier.  An attempt plans against a snapshot of   *)
(* Hermes' jobs, stages two scripts and the specification under the        *)
(* profile home, and then executes the specification's operations through  *)
(* the cronjob tool, reading back after each one and rolling back on any   *)
(* failure.  Staging is serialised by a file lock; execution is not.       *)
(*                                                                         *)
(* Every call of the tool may fail, with or without its effect; a process  *)
(* may die anywhere; the operator may change jobs and files at any time.   *)
(* Only jobs with the two stable names are modelled.                       *)
(***************************************************************************)
EXTENDS Integers, Sequences, FiniteSets

CONSTANTS
  Attempt,     \* attempts to install or upgrade, each with its nonce
  Prior,       \* the files of the installation of the prior release
  Foreign,     \* a file that no attempt wrote
  NoFile,
  MaxJobs,     \* bound: jobs Hermes ever creates
  MaxChanges   \* bound: changes the operator makes

ASSUME InstallAssumption ==
  /\ {Prior, Foreign, NoFile} \cap Attempt = {}
  /\ Prior # Foreign /\ Prior # NoFile /\ Foreign # NoFile
  /\ MaxJobs \in Nat /\ MaxJobs >= 2
  /\ MaxChanges \in Nat

VARIABLES
  files,     \* what each staged file holds: the attempt that wrote it
  jobs,      \* Hermes' jobs, by identifier
  issued,    \* identifiers Hermes has given out
  resumed,   \* jobs the operator has enabled
  attempt,   \* the state of each attempt
  changes    \* changes the operator has made

installVars == <<files, jobs, issued, resumed, attempt, changes>>

-----------------------------------------------------------------------------
(* Jobs and files *)

StableNames == <<"router", "courier">>
Targets == <<"router_script", "courier_script", "config">>
File == {Targets[n] : n \in 1..3}
Content == Attempt \cup {Prior, Foreign, NoFile}

\* A definition is the one a release gives its job, or that one edited.
Job == [name : {"router", "courier", "none"}, release : {"prior", "planned"},
        edited : BOOLEAN, state : {"paused", "scheduled"}]
NoJob == [name |-> "none", release |-> "prior", edited |-> FALSE, state |-> "paused"]
JobOf(name, release, state) ==
  [name |-> name, release |-> release, edited |-> FALSE, state |-> state]

\* What cronjob.list shows of the stable names.
View(js) == {<<i, js[i]>> : i \in {k \in 1..MaxJobs : js[k] # NoJob}}
Visible == View(jobs)
Named(view, name) == {p \in view : p[2].name = name}

\* The prompts are the prior release's; the courier never has one.
PriorPrompts(view) ==
  \A p \in view : p[2].name = "router" => p[2].release = "prior"

-----------------------------------------------------------------------------
(* Attempts *)

Staging == {"write", "restore"}
Executing == {"start", "call", "created", "pause", "settled", "verify", "rollback", "final"}
Result == {"none", "refused", "stage_failed", "stage_rollback_failed", "stage_crashed",
           "crashed", "applied_paused", "rolled_back", "rollback_failed"}

AttemptState ==
  [pc : {"idle", "planned", "done"} \cup Staging \cup Executing,
   op : {"install", "upgrade"},
   snapshot : SUBSET ((1..MaxJobs) \X Job),  \* the plan's view of the jobs
   expected : SUBSET ((1..MaxJobs) \X Job),  \* the view the next read-back must give
   previous : [File -> Content],             \* the files before staging
   step : 1..3,
   created : [1..2 -> 0..MaxJobs],           \* identifiers returned by creates
   failures : BOOLEAN,                       \* a rollback call failed
   stale : BOOLEAN,                          \* others changed jobs since the last read-back
   result : Result]

AttemptIdle ==
  [pc |-> "idle", op |-> "install", snapshot |-> {}, expected |-> {},
   previous |-> [f \in File |-> NoFile], step |-> 1, created |-> [n \in 1..2 |-> 0],
   failures |-> FALSE, stale |-> FALSE, result |-> "none"]

\* An attempt that has come to an end keeps only what its report says.
Ended(me, result) ==
  [AttemptIdle EXCEPT !.pc = "done", !.op = me.op, !.result = result,
                      !.snapshot = me.snapshot, !.stale = me.stale]

TypeOK ==
  /\ files \in [File -> Content]
  /\ jobs \in [1..MaxJobs -> Job]
  /\ issued \in 0..MaxJobs
  /\ \A i \in 1..MaxJobs : jobs[i] # NoJob => i <= issued /\ jobs[i].name # "none"
  /\ resumed \subseteq 1..MaxJobs
  /\ attempt \in [Attempt -> AttemptState]
  /\ changes \in 0..MaxChanges

\* Nothing is installed, or the prior release is, paused for the upgrade.
InstallInit ==
  /\ \/ /\ files = [f \in File |-> NoFile]
        /\ jobs = [i \in 1..MaxJobs |-> NoJob]
        /\ issued = 0
     \/ /\ files = [f \in File |-> Prior]
        /\ jobs = [i \in 1..MaxJobs |->
             IF i \in 1..2 THEN JobOf(StableNames[i], "prior", "paused") ELSE NoJob]
        /\ issued = 2
  /\ resumed = {}
  /\ attempt = [a \in Attempt |-> AttemptIdle]
  /\ changes = 0

Becomes(a, me) == attempt' = [attempt EXCEPT ![a] = me]

\* Attempt a goes on as me and the jobs become js; the others' views are stale.
Acts(a, me, js) ==
  /\ jobs' = js
  /\ attempt' = [b \in Attempt |->
       IF b = a THEN me
       ELSE [attempt[b] EXCEPT !.stale = @ \/ (js # jobs /\ attempt[b].pc # "idle")]]

-----------------------------------------------------------------------------
(* Planning *)

\* build_cron_install_spec: an install refuses visible stable names, an
\* upgrade wants each of them once, paused.
Plannable(op, view) ==
  \/ op = "install" /\ view = {}
  \/ /\ op = "upgrade"
     /\ \A n \in 1..2 : \E p \in view :
          /\ Named(view, StableNames[n]) = {p}
          /\ p[2].state = "paused"

\* The snapshot is taken and the specification built from it.
Plan(a) ==
  /\ attempt[a].pc = "idle"
  /\ \E op \in {"install", "upgrade"} :
       /\ Plannable(op, Visible)
       /\ Becomes(a, [AttemptIdle EXCEPT !.pc = "planned", !.op = op, !.snapshot = Visible])
  /\ UNCHANGED <<files, jobs, issued, resumed, changes>>

-----------------------------------------------------------------------------
(* Staging: stage_cron_install *)

\* Mutant: the installer lock does not exclude.
LockFree_Always == TRUE

\* The flock on manager-install.lock, which a process gives up when it dies.
LockFree == \A a \in Attempt : attempt[a].pc \notin Staging

\* The lock is taken and the previous contents are read.
StageStart(a) ==
  /\ attempt[a].pc = "planned"
  /\ LockFree
  /\ Becomes(a, [attempt[a] EXCEPT !.pc = "write", !.previous = files])
  /\ UNCHANGED <<files, jobs, issued, resumed, changes>>

\* One target is replaced, the two scripts first, and read back.
StageWrite(a) ==
  /\ attempt[a].pc = "write"
  /\ files' = [files EXCEPT ![Targets[attempt[a].step]] = a]
  /\ Becomes(a, IF attempt[a].step < 3
                THEN [attempt[a] EXCEPT !.step = @ + 1]
                ELSE [attempt[a] EXCEPT !.pc = "start", !.step = 1,
                                        !.previous = AttemptIdle.previous])
  /\ UNCHANGED <<jobs, issued, resumed, changes>>

\* The write fails, or its read-back does.
StageFail(a) ==
  /\ attempt[a].pc = "write"
  /\ \/ UNCHANGED files
     \/ files' = [files EXCEPT ![Targets[attempt[a].step]] = a]
  /\ Becomes(a, [attempt[a] EXCEPT !.pc = "restore"])
  /\ UNCHANGED <<jobs, issued, resumed, changes>>

\* Mutant: a target that was written is left as it is.
Restored_Config(a, f) ==
  IF f = "config" /\ files[f] \in {a, attempt[a].previous[f]}
  THEN attempt[a].previous[f] ELSE files[f]

\* _restore_target puts the previous content back unless somebody else wrote.
Restored(a, f) ==
  IF files[f] \in {a, attempt[a].previous[f]} THEN attempt[a].previous[f] ELSE files[f]

\* All targets are restored, some of which may fail.
StageRestore(a) ==
  /\ attempt[a].pc = "restore"
  /\ \E stuck \in SUBSET File :
       /\ \A f \in File : files[f] \notin {a, attempt[a].previous[f]} => f \in stuck
       /\ files' = [f \in File |-> IF f \in stuck THEN files[f] ELSE Restored(a, f)]
       /\ Becomes(a, Ended(attempt[a],
            IF stuck = {} THEN "stage_failed" ELSE "stage_rollback_failed"))
  /\ UNCHANGED <<jobs, issued, resumed, changes>>

-----------------------------------------------------------------------------
(* Execution: execute_cron_install_spec *)

\* A failure sends the attempt to its rollback, last operation first.
Failing(me) == [me EXCEPT !.pc = "rollback", !.step = 2, !.failures = FALSE]

\* Mutant: a read-back compares names only.
Matches_Names(expected) == {p[2].name : p \in Visible} = {p[2].name : p \in expected}

\* _readback_matches: the visible jobs are exactly the expected ones.
Matches(expected) == Visible = expected

\* A read-back that may also fail itself: on TRUE go on as passed.
Reads(a, expected, passed) ==
  \/ Matches(expected) /\ Becomes(a, [passed EXCEPT !.stale = FALSE])
  \/ Becomes(a, Failing(attempt[a]))

\* An upgrade first wants to find the jobs of the snapshot, with the prompts
\* of the prior release.
ExecStart(a) ==
  /\ attempt[a].pc = "start"
  /\ LET me == attempt[a]
         ready == [me EXCEPT !.pc = "call", !.expected = me.snapshot, !.stale = FALSE]
     IN  \/ me.op = "install" /\ Becomes(a, [ready EXCEPT !.stale = me.stale])
         \/ /\ me.op = "upgrade"
            /\ Matches(me.snapshot) /\ PriorPrompts(Visible)
            /\ Becomes(a, ready)
         \/ me.op = "upgrade" /\ Becomes(a, Ended(me, "refused"))
  /\ UNCHANGED <<files, jobs, issued, resumed, changes>>

\* Create the job of this step.  Without a response its identifier is lost.
ExecCreate(a) ==
  /\ attempt[a].pc = "call" /\ attempt[a].op = "install"
  /\ LET me == attempt[a]
         id == issued + 1
         job == JobOf(StableNames[me.step], "planned", "scheduled")
     IN  \/ /\ issued < MaxJobs
            /\ issued' = id
            /\ \/ Acts(a, [me EXCEPT !.pc = "created", !.created[me.step] = id,
                                     !.expected = @ \cup {<<id, job>>}],
                       [jobs EXCEPT ![id] = job])
               \/ Acts(a, Failing(me), [jobs EXCEPT ![id] = job])
         \/ Becomes(a, Failing(me)) /\ UNCHANGED <<jobs, issued>>
  /\ UNCHANGED <<files, resumed, changes>>

\* The planned identifier of a step of an upgrade.
Bound(me, n) == CHOOSE i \in 1..MaxJobs :
  \E p \in Named(me.snapshot, StableNames[n]) : p[1] = i

\* cronjob.update gives job i the definition of a release; a job that is not
\* paused stays so.
Updated(i, release) ==
  [jobs EXCEPT ![i] = [@ EXCEPT !.release = release, !.edited = FALSE]]

\* Update the job of this step.
ExecUpdate(a) ==
  /\ attempt[a].pc = "call" /\ attempt[a].op = "upgrade"
  /\ LET me == attempt[a]
         i == Bound(me, me.step)
         job == JobOf(StableNames[me.step], "planned", "paused")
     IN  \/ /\ jobs[i] # NoJob /\ jobs[i].state = "paused"
            /\ Acts(a, [me EXCEPT !.pc = "settled",
                          !.expected = {p \in @ : p[1] # i} \cup {<<i, job>>}],
                    Updated(i, "planned"))
         \/ jobs[i] # NoJob /\ Acts(a, Failing(me), Updated(i, "planned"))
         \/ Becomes(a, Failing(me)) /\ UNCHANGED jobs
  /\ UNCHANGED <<files, issued, resumed, changes>>

\* The read-back after a create.
ExecCreated(a) ==
  /\ attempt[a].pc = "created"
  /\ Reads(a, attempt[a].expected, [attempt[a] EXCEPT !.pc = "pause"])
  /\ UNCHANGED <<files, jobs, issued, resumed, changes>>

\* Pause the job just created.
ExecPause(a) ==
  /\ attempt[a].pc = "pause"
  /\ LET me == attempt[a]
         i == me.created[me.step]
         paused == [jobs EXCEPT ![i].state = "paused"]
         job == JobOf(StableNames[me.step], "planned", "paused")
     IN  \/ /\ jobs[i] # NoJob
            /\ resumed' = resumed \ {i}
            /\ \/ Acts(a, [me EXCEPT !.pc = "settled",
                             !.expected = {p \in @ : p[1] # i} \cup {<<i, job>>}], paused)
               \/ Acts(a, Failing(me), paused)
         \/ Becomes(a, Failing(me)) /\ UNCHANGED <<jobs, resumed>>
  /\ UNCHANGED <<files, issued, changes>>

\* The read-back that ends a step.
ExecSettled(a) ==
  /\ attempt[a].pc = "settled"
  /\ Reads(a, attempt[a].expected,
           IF attempt[a].step < 2
           THEN [attempt[a] EXCEPT !.pc = "call", !.step = 2]
           ELSE [attempt[a] EXCEPT !.pc = "verify"])
  /\ UNCHANGED <<files, jobs, issued, resumed, changes>>

\* The seam verifier accepts the installed Hermes, or not.
ExecVerify(a) ==
  /\ attempt[a].pc = "verify"
  /\ \/ Becomes(a, Ended(attempt[a], "applied_paused"))
     \/ Becomes(a, Failing(attempt[a]))
  /\ UNCHANGED <<files, jobs, issued, resumed, changes>>

\* Mutant: the rollback goes on below the first operation.
RolledBack_Below(me, ok) ==
  [me EXCEPT !.failures = @ \/ ~ok, !.step = @ - 1, !.pc = "rollback"]

\* After a rollback call: the next one, or the last read-back.
RolledBack(me, ok) ==
  [me EXCEPT !.failures = @ \/ ~ok,
             !.step = 1, !.pc = IF me.step = 2 THEN "rollback" ELSE "final"]

\* Undo an install: remove the job this step created, if it is known.
RollbackRemove(a) ==
  /\ attempt[a].pc = "rollback" /\ attempt[a].op = "install"
  /\ LET me == attempt[a]
         i == me.created[me.step]
     IN  \/ i = 0 /\ Becomes(a, RolledBack(me, TRUE)) /\ UNCHANGED <<jobs, resumed>>
         \/ /\ i # 0 /\ jobs[i] # NoJob
            /\ \E ok \in BOOLEAN : Acts(a, RolledBack(me, ok), [jobs EXCEPT ![i] = NoJob])
            /\ resumed' = resumed \ {i}
         \/ i # 0 /\ Becomes(a, RolledBack(me, FALSE)) /\ UNCHANGED <<jobs, resumed>>
  /\ UNCHANGED <<files, issued, changes>>

\* Undo an upgrade: update the job to what the prior release gave it.
RollbackUpdate(a) ==
  /\ attempt[a].pc = "rollback" /\ attempt[a].op = "upgrade"
  /\ LET me == attempt[a]
         i == Bound(me, me.step)
     IN  \/ /\ jobs[i] # NoJob
            /\ \E ok \in {FALSE, jobs[i].state = "paused"} :
                 Acts(a, RolledBack(me, ok), Updated(i, "prior"))
         \/ Becomes(a, RolledBack(me, FALSE)) /\ UNCHANGED jobs
  /\ UNCHANGED <<files, issued, resumed, changes>>

\* Mutant: the report looks at the rollback calls only.
Restores_Calls(me) == ~me.failures

\* The last read-back finds the snapshot again.
Restores(me) ==
  /\ ~me.failures
  /\ Matches(me.snapshot)
  /\ me.op = "upgrade" => PriorPrompts(Visible)

\* The rollback's report.
ExecFinal(a) ==
  /\ attempt[a].pc = "final"
  /\ LET me == [attempt[a] EXCEPT !.stale = FALSE] IN
       \/ Restores(me) /\ Becomes(a, Ended(me, "rolled_back"))
       \/ Becomes(a, Ended(me, "rollback_failed"))
  /\ UNCHANGED <<files, jobs, issued, resumed, changes>>

\* The process dies.
Crash(a) ==
  /\ attempt[a].pc \in Staging \cup Executing
  /\ Becomes(a, Ended(attempt[a],
       IF attempt[a].pc \in Staging THEN "stage_crashed" ELSE "crashed"))
  /\ UNCHANGED <<files, jobs, issued, resumed, changes>>

-----------------------------------------------------------------------------
(* External: the operator *)

\* Everybody else's views of the jobs are stale.
Disturb(js) ==
  /\ jobs' = js
  /\ attempt' = [b \in Attempt |-> [attempt[b] EXCEPT !.stale = @ \/ attempt[b].pc # "idle"]]

\* Enable a job, as the last step of an activation or out of order.
EnableJob(i) ==
  /\ jobs[i] # NoJob /\ jobs[i].state = "paused"
  /\ Disturb([jobs EXCEPT ![i].state = "scheduled"])
  /\ resumed' = resumed \cup {i}
  /\ UNCHANGED <<files, issued, changes>>

\* Edit a job, or remove it.
ChangeJob(i) ==
  /\ changes < MaxChanges /\ jobs[i] # NoJob
  /\ \/ ~jobs[i].edited /\ Disturb([jobs EXCEPT ![i].edited = TRUE]) /\ UNCHANGED resumed
     \/ Disturb([jobs EXCEPT ![i] = NoJob]) /\ resumed' = resumed \ {i}
  /\ changes' = changes + 1
  /\ UNCHANGED <<files, issued>>

\* Change a staged file.
ChangeFile(f) ==
  /\ changes < MaxChanges /\ files[f] # Foreign
  /\ files' = [files EXCEPT ![f] = Foreign]
  /\ changes' = changes + 1
  /\ UNCHANGED <<jobs, issued, resumed, attempt>>

-----------------------------------------------------------------------------
Install(a) ==
  \/ Plan(a) \/ StageStart(a) \/ StageWrite(a) \/ StageFail(a) \/ StageRestore(a)
  \/ ExecStart(a) \/ ExecCreate(a) \/ ExecUpdate(a) \/ ExecCreated(a) \/ ExecPause(a)
  \/ ExecSettled(a) \/ ExecVerify(a) \/ RollbackRemove(a) \/ RollbackUpdate(a)
  \/ ExecFinal(a) \/ Crash(a)

Operate ==
  \/ \E i \in 1..MaxJobs : EnableJob(i) \/ ChangeJob(i)
  \/ \E f \in File : ChangeFile(f)

InstallNext == (\E a \in Attempt : Install(a)) \/ Operate

InstallSpec == InstallInit /\ [][InstallNext]_installVars

-----------------------------------------------------------------------------
(* Properties *)

\* The jobs are the two of this release, once each and paused.
PlannedPaused ==
  \E i, k \in 1..MaxJobs :
    Visible = {<<i, JobOf("router", "planned", "paused")>>,
               <<k, JobOf("courier", "planned", "paused")>>}

\* A report of success is the truth: with nobody else at work since the last
\* read-back, exactly the two planned jobs exist and both are paused, whatever
\* calls were lost before and whoever interfered until then.
AppliedIsPlanned ==
  \A a \in Attempt :
    attempt[a].result = "applied_paused" /\ ~attempt[a].stale => PlannedPaused

\* A report of a complete rollback is the truth: the jobs are the snapshot's,
\* even if the response of a create or of a removal was lost.
RolledBackIsRestored ==
  \A a \in Attempt :
    attempt[a].result = "rolled_back" /\ ~attempt[a].stale => Visible = attempt[a].snapshot

\* No enabled job is left behind in silence: one that the operator did not
\* enable belongs to an attempt still at work, or one died or said it failed.
EnabledIsReported ==
  \A i \in 1..MaxJobs :
    jobs[i].state = "scheduled" /\ i \notin resumed =>
      \E a \in Attempt :
        attempt[a].pc \in Executing \/ attempt[a].result \in {"crashed", "rollback_failed"}

\* The staged files are of one attempt whenever nobody is writing them, unless
\* a staging died or could not be undone, or the operator wrote one.
StagedIsWhole ==
  \/ \E a \in Attempt :
       \/ attempt[a].pc \in Staging
       \/ attempt[a].result \in {"stage_crashed", "stage_rollback_failed"}
  \/ \E f \in File : files[f] = Foreign
  \/ \A f \in File : files[f] = files["config"]

\* What MANAGER_WAKEUP.md says of rollback: it is not destructive to a job the
\* operator changed meanwhile.
EditSurvivesRollback ==
  [][\A a \in Attempt, i \in 1..MaxJobs :
       attempt[a].pc = "rollback" /\ attempt'[a] # attempt[a] /\ jobs[i].edited
       => jobs'[i] = jobs[i]]_installVars

=============================================================================
