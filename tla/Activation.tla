------------------------------ MODULE Activation ------------------------------
(***************************************************************************)
(* The activation of the Manager router on top of the installation.  The   *)
(* operator's activate command attests one state of files, jobs and Hermes *)
(* in a private record; every fire of the router collects that state       *)
(* again, compares it with the record, and wakes a manager only if they    *)
(* agree (activation_verdict).  Deactivation overwrites the record.        *)
(* Activation and deactivation exclude one another by a lock; installers   *)
(* and the operator's changes know nothing of it, and a collection reads   *)
(* files and jobs one after the other while they change.                   *)
(***************************************************************************)
EXTENDS CronInstall

CONSTANT MaxDenies   \* bound: deactivations

ASSUME ActivationAssumption == MaxDenies \in Nat

VARIABLES
  evidence,   \* the identifiers in the operator's evidence file
  record,     \* manager-activation.json
  collector,  \* what the activate command and the router's fire have collected
  denies,     \* deactivations so far
  hermes      \* the version of Hermes

activationVars == <<evidence, record, collector, denies, hermes>>
vars == <<installVars, activationVars>>

-----------------------------------------------------------------------------
MaxVersion == MaxChanges + 1
Role == {"router", "courier"}
Collects == {"activate", "gate"}

\* The definition a job's hash stands for: everything but its pause state.
DefinitionOf(job) == [job EXCEPT !.state = "paused"]

Collector ==
  [pc : {"idle", "config", "scripts", "router", "courier", "ready", "go"},
   config : Attempt \cup {NoFile},
   id : [Role -> 0..MaxJobs],
   seen : [Role -> Job],
   version : 0..MaxVersion,
   denies : 0..MaxDenies,   \* deactivations when the collection began
   fresh : BOOLEAN]         \* nobody has changed files, jobs or record since

CollectorIdle ==
  [pc |-> "idle", config |-> NoFile, id |-> [r \in Role |-> 0], seen |-> [r \in Role |-> NoJob],
   version |-> 0, denies |-> 0, fresh |-> FALSE]

Record ==
  [state : {"absent", "enabled", "disabled"}, spec : Attempt \cup {NoFile},
   version : 0..MaxVersion, id : [Role -> 0..MaxJobs], bound : [Role -> Job]]

NoRecord ==
  [state |-> "absent", spec |-> NoFile, version |-> 0,
   id |-> [r \in Role |-> 0], bound |-> [r \in Role |-> NoJob]]

ActivationTypeOK ==
  /\ TypeOK
  /\ evidence \in [Role -> 0..MaxJobs]
  /\ record \in Record
  /\ collector \in [Collects -> Collector]
  /\ denies \in 0..MaxDenies
  /\ hermes \in 1..MaxVersion

Init ==
  /\ InstallInit
  /\ evidence = [r \in Role |-> 0]
  /\ record = NoRecord
  /\ collector = [p \in Collects |-> CollectorIdle]
  /\ denies = 0
  /\ hermes = 1

Goes(p, me) == collector' = [collector EXCEPT ![p] = me]

-----------------------------------------------------------------------------
(* load_activation_inputs *)

\* Mutant: any staged specification will do.
ValidSpec_Any(config) == config # NoFile

\* validate_cron_install_spec accepts the specification of this release only.
ValidSpec(config) == config \in Attempt

\* The evidence, and the staged specification.
LoadConfig(p) ==
  /\ collector[p].pc = "config"
  /\ IF ValidSpec(files["config"])
     THEN Goes(p, [collector[p] EXCEPT !.pc = "scripts", !.config = files["config"],
                                       !.id = evidence])
     ELSE Goes(p, CollectorIdle)
  /\ UNCHANGED <<installVars, evidence, record, denies, hermes>>

\* Mutant: the scripts are not compared with the specification.
ScriptsMatch_Any(config) == TRUE

\* _scripts_match_spec: both scripts are the ones the specification hashes.
ScriptsMatch(config) == \A f \in File \ {"config"} : files[f] = config

\* The staged scripts; those of another attempt deny everything that follows.
LoadScripts(p) ==
  /\ collector[p].pc = "scripts"
  /\ IF ScriptsMatch(collector[p].config)
     THEN Goes(p, [collector[p] EXCEPT !.pc = "router"])
     ELSE Goes(p, CollectorIdle)
  /\ UNCHANGED <<installVars, evidence, record, denies, hermes>>

\* HermesCronDefinitionAdapter.collect: the version, and then the definition
\* of each job the evidence names.  A call that fails fails the collection.
LoadJob(p) ==
  /\ collector[p].pc \in Role
  /\ LET role == collector[p].pc
         i == collector[p].id[role]
     IN  IF i # 0 /\ jobs[i] # NoJob
         THEN Goes(p, [collector[p] EXCEPT
                         !.pc = IF role = "router" THEN "courier" ELSE "ready",
                         !.version = IF role = "router" THEN hermes ELSE @,
                         !.seen[role] = jobs[i]])
         ELSE Goes(p, CollectorIdle)
  /\ UNCHANGED <<installVars, evidence, record, denies, hermes>>

\* The process dies, a read or a call fails, or the fire is over.
CollectAbort(p) ==
  /\ collector[p].pc # "idle"
  /\ Goes(p, CollectorIdle)
  /\ UNCHANGED <<installVars, evidence, record, denies, hermes>>

-----------------------------------------------------------------------------
(* activate_manager, deactivate_manager *)

\* Mutant: the lock does not exclude.
RecordLockFree_Always == TRUE

\* The flock on manager-activation.lock.
RecordLockFree == collector["activate"].pc = "idle"

\* The command takes the lock and collects under it.  (A first collection, made
\* before the lock, is thrown away.)
ActivateStart ==
  /\ collector["activate"].pc = "idle"
  /\ RecordLockFree
  /\ Goes("activate", [CollectorIdle EXCEPT !.pc = "config", !.denies = denies])
  /\ UNCHANGED <<installVars, evidence, record, denies, hermes>>

\* Mutant: any paused definition will do.
Attestable_AnyDefinition(me) == \A r \in Role : me.seen[r].state = "paused"

\* _enabled_record: both jobs are paused and as the specification wants them.
Attestable(me) == \A r \in Role : me.seen[r] = JobOf(r, "planned", "paused")

\* The record is written, still under the lock.
ActivateCommit ==
  /\ collector["activate"].pc = "ready"
  /\ LET me == collector["activate"] IN
       record' = IF Attestable(me)
                 THEN [state |-> "enabled", spec |-> me.config, version |-> me.version,
                       id |-> me.id,
                       bound |-> [r \in Role |-> DefinitionOf(me.seen[r])]]
                 ELSE record
  /\ collector' = [collector EXCEPT !["activate"] = CollectorIdle,
                                    !["gate"].fresh = @ /\ record' = record]
  /\ UNCHANGED <<installVars, evidence, denies, hermes>>

\* deactivate_manager, whose read and write are one step under the lock.
Deactivate ==
  /\ denies < MaxDenies
  /\ RecordLockFree
  /\ record' = [record EXCEPT !.state = "disabled"]
  /\ denies' = denies + 1
  /\ collector' = [collector EXCEPT !["gate"].fresh = FALSE]
  /\ UNCHANGED <<installVars, evidence, hermes>>

-----------------------------------------------------------------------------
(* The router's fire, up to the decision to go on *)

\* Hermes fires an enabled job whose script is the router's.
GateStart ==
  /\ collector["gate"].pc = "idle"
  /\ \E i \in 1..MaxJobs : jobs[i].name = "router" /\ jobs[i].state = "scheduled"
  /\ Goes("gate", [CollectorIdle EXCEPT !.pc = "config", !.denies = denies, !.fresh = TRUE])
  /\ UNCHANGED <<installVars, evidence, record, denies, hermes>>

\* Mutants: a disabled record supports; the definitions are not compared.
Supported_Disabled(me) ==
  /\ record.state # "absent"
  /\ record.version = me.version
  /\ record.spec = me.config
  /\ \A r \in Role : record.id[r] = me.id[r] /\ record.bound[r] = DefinitionOf(me.seen[r])
Supported_AnyDefinition(me) ==
  /\ record.state = "enabled"
  /\ record.version = me.version
  /\ record.spec = me.config
  /\ \A r \in Role : record.id[r] = me.id[r]

\* activation_verdict, which reads the record last.
Supported(me) ==
  /\ record.state = "enabled"
  /\ record.version = me.version
  /\ record.spec = me.config
  /\ \A r \in Role : record.id[r] = me.id[r] /\ record.bound[r] = DefinitionOf(me.seen[r])

\* The verdict, taken once for the rest of the fire.
GateVerdict ==
  /\ collector["gate"].pc = "ready"
  /\ IF Supported(collector["gate"])
     THEN Goes("gate", [CollectorIdle EXCEPT !.pc = "go", !.denies = collector["gate"].denies,
                                             !.fresh = collector["gate"].fresh])
     ELSE Goes("gate", CollectorIdle)
  /\ UNCHANGED <<installVars, evidence, record, denies, hermes>>

-----------------------------------------------------------------------------
(* External: the operator *)

\* Write the evidence file for the jobs that bear the names.
WriteEvidence ==
  /\ \E i, k \in 1..MaxJobs :
       /\ jobs[i].name = "router" /\ jobs[k].name = "courier"
       /\ evidence' = [r \in Role |-> IF r = "router" THEN i ELSE k]
  /\ evidence' # evidence
  /\ collector' = [collector EXCEPT !["gate"].fresh = FALSE]
  /\ UNCHANGED <<installVars, record, denies, hermes>>

\* Hermes is replaced by another version.
UpgradeHermes ==
  /\ changes < MaxChanges
  /\ changes' = changes + 1
  /\ hermes' = hermes + 1
  /\ collector' = [collector EXCEPT !["gate"].fresh = FALSE]
  /\ UNCHANGED <<files, jobs, issued, resumed, attempt, evidence, record, denies>>

-----------------------------------------------------------------------------
\* A step of the installation: what a fire collected may have changed.
Installation ==
  /\ InstallNext
  /\ collector' = [collector EXCEPT !["gate"].fresh = @ /\ <<files, jobs>>' = <<files, jobs>>]
  /\ UNCHANGED <<evidence, record, denies, hermes>>

Collect(p) == LoadConfig(p) \/ LoadScripts(p) \/ LoadJob(p) \/ CollectAbort(p)

Next ==
  \/ Installation
  \/ \E p \in Collects : Collect(p)
  \/ ActivateStart \/ ActivateCommit \/ Deactivate
  \/ GateStart \/ GateVerdict
  \/ WriteEvidence \/ UpgradeHermes

Spec == Init /\ [][Next]_vars

-----------------------------------------------------------------------------
(* Properties *)

Gate == collector["gate"]

\* The installation is one attempt's: its files, and its two definitions under
\* the identifiers the operator attested, in the Hermes he attested.
InstalledWhole ==
  /\ hermes = record.version
  /\ \E a \in Attempt : \A f \in File : files[f] = a
  /\ \A r \in Role :
       /\ evidence[r] # 0
       /\ DefinitionOf(jobs[evidence[r]]) = JobOf(r, "planned", "paused")

\* A fire that goes on while nobody interferes runs a whole installation, as
\* its specification planned it, although the verdict itself only compares with
\* a record that may stem from long ago.
WakeRunsThePlan == Gate.pc = "go" /\ Gate.fresh => InstalledWhole

\* A deactivation holds for every fire that begins after it: one that goes on
\* although the record is disabled began before.
DenyStopsLaterFires ==
  Gate.pc = "go" /\ record.state = "disabled" => Gate.denies < denies

\* An activation never undoes a deactivation it has not seen: whatever it
\* collected, it collected after the last one.
DenyIsNotUndone ==
  [][record'.state = "enabled" /\ record' # record
     => collector["activate"].denies = denies]_vars

\* What CHANGELOG.md says of deactivation: an immediate deny.
DenyIsImmediate == Gate.pc = "go" => record.state = "enabled"

=============================================================================
