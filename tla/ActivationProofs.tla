---------------------------- MODULE ActivationProofs ----------------------------
(***************************************************************************)
(* Theorems about the activation: what a fire that goes on may trust, and  *)
(* what a deactivation stops.  The fire compares what it has collected     *)
(* with a record, so each of them has an invariant of its own.             *)
(***************************************************************************)
EXTENDS InstallProofs

-----------------------------------------------------------------------------
(* Types *)

\* The types of the fields of a collection, by name.
Pcs      == {"idle", "config", "scripts", "router", "courier", "ready", "go"}
Configs  == Attempt \cup {NoFile}
Ids      == [Role -> 0..MaxJobs]
Seens    == [Role -> Job]
Versions == 0..MaxVersion
Denials  == 0..MaxDenies

\* A collection and a record are their fields.
LEMMA CollectorIs ==
  /\ Collector = [pc : Pcs, config : Configs, id : Ids, seen : Seens, version : Versions,
                  denies : Denials, fresh : BOOLEAN]
  /\ Record = [state : {"absent", "enabled", "disabled"}, spec : Configs, version : Versions,
               id : Ids, bound : Seens]
  BY DEF Collector, Record, Pcs, Configs, Ids, Seens, Versions, Denials

\* The inductive invariant behind ActivationTypeOK: every upgrade of Hermes is
\* one of the operator's changes.
ActivationTyped ==
  /\ InstallTyped
  /\ evidence \in Ids
  /\ record \in Record
  /\ collector \in [Collects -> Collector]
  /\ denies \in Denials
  /\ hermes \in Nat /\ 1 <= hermes /\ hermes <= changes + 1

\* The roles are the two names, and the definition of a job is a job.
LEMMA Roles ==
  /\ "router" \in Role /\ "courier" \in Role /\ \A r \in Role : r = "router" \/ r = "courier"
  /\ \A r \in Role : JobOf(r, "planned", "paused") \in Job
  /\ \A job \in Job : DefinitionOf(job) \in Job
  /\ \A r \in Role :
       DefinitionOf(JobOf(r, "planned", "paused")) = JobOf(r, "planned", "paused")
  <1>1. ASSUME NEW r \in Role PROVE JobOf(r, "planned", "paused") \in Job
    BY DEF Role, JobOf, Job
  <1>2. ASSUME NEW job \in Job PROVE DefinitionOf(job) \in Job
    BY DEF DefinitionOf, Job
  <1>3. ASSUME NEW r \in Role
        PROVE  DefinitionOf(JobOf(r, "planned", "paused")) = JobOf(r, "planned", "paused")
    <2> DEFINE job == JobOf(r, "planned", "paused")
    <2>1. job \in Job /\ job.name = r /\ job.release = "planned" /\ job.edited = FALSE
      BY <1>1 DEF JobOf
    <2> HIDE DEF job
    <2>2. [job EXCEPT !.state = "paused"]
            = [name |-> r, release |-> "planned", edited |-> FALSE, state |-> "paused"]
      BY <2>1, JobFields
    <2>3. QED BY <2>2 DEF DefinitionOf, job, JobOf
  <1>4. QED BY <1>1, <1>2, <1>3 DEF Role

\* The blank collection and the blank record have their types.
LEMMA BlankTyped ==
  /\ CollectorIdle \in Collector /\ NoRecord \in Record /\ [r \in Role |-> 0] \in Ids
  /\ 0 \in Denials
  <1>1. MaxJobs \in Nat /\ MaxChanges \in Nat /\ MaxDenies \in Nat
    BY InstallAssumption, ActivationAssumption
  <1>2. /\ [r \in Role |-> 0] \in Ids /\ [r \in Role |-> NoJob] \in Seens /\ NoFile \in Configs
        /\ 0 \in Versions /\ 0 \in Denials
    BY <1>1, JobsTyped DEF Ids, Seens, Configs, Versions, MaxVersion, Denials
  <1>3. "idle" \in Pcs
    BY DEF Pcs
  <1>4. CollectorIdle \in Collector
    BY <1>2, <1>3, CollectorIs DEF CollectorIdle
  <1>5. NoRecord \in Record
    BY <1>2, CollectorIs DEF NoRecord
  <1>6. QED BY <1>2, <1>4, <1>5

-----------------------------------------------------------------------------
(* The steps of a collection *)

\* What a step of collector p makes of its collection.
Collected(p, me, new) ==
  \/ new = CollectorIdle
  \/ /\ me.pc = "config" /\ files["config"] \in Attempt
     /\ new = [me EXCEPT !.pc = "scripts", !.config = files["config"], !.id = evidence]
  \/ /\ me.pc = "scripts" /\ ScriptsMatch(me.config)
     /\ new = [me EXCEPT !.pc = "router"]
  \/ /\ me.pc = "router" /\ me.id["router"] # 0
     /\ new = [me EXCEPT !.pc = "courier", !.version = hermes,
                         !.seen = [me.seen EXCEPT !["router"] = jobs[me.id["router"]]]]
  \/ /\ me.pc = "courier" /\ me.id["courier"] # 0
     /\ new = [me EXCEPT !.pc = "ready",
                         !.seen = [me.seen EXCEPT !["courier"] = jobs[me.id["courier"]]]]

\* Every step of a collection is one of these, and leaves the rest alone.
LEMMA CollectStep ==
  ASSUME ActivationTyped, NEW p \in Collects, Collect(p)
  PROVE  /\ Collected(p, collector[p], collector'[p])
         /\ \A q \in Collects \ {p} : collector'[q] = collector[q]
         /\ collector' = [q \in Collects |-> collector'[q]]
         /\ UNCHANGED <<installVars, evidence, record, denies, hermes>>
  <1> DEFINE me == collector[p]
  <1>0. collector \in [Collects -> Collector] /\ me \in Collector
    BY DEF ActivationTyped
  <1>1. ASSUME NEW it, Goes(p, it)
        PROVE  /\ collector'[p] = it
               /\ \A q \in Collects \ {p} : collector'[q] = collector[q]
               /\ collector' = [q \in Collects |-> collector'[q]]
    BY <1>0, <1>1 DEF Goes
  <1>2. UNCHANGED <<installVars, evidence, record, denies, hermes>>
    BY DEF Collect, LoadConfig, LoadScripts, LoadJob, CollectAbort
  <1>3. \E it : Goes(p, it) /\ Collected(p, me, it)
    <2>1. CASE LoadConfig(p)
      BY <2>1 DEF LoadConfig, Collected, ValidSpec
    <2>2. CASE LoadScripts(p)
      BY <2>2 DEF LoadScripts, Collected
    <2>3. CASE LoadJob(p)
      <3> DEFINE role == me.pc
                 i == me.id[role]
                 it == [me EXCEPT
                         !.pc = IF role = "router" THEN "courier" ELSE "ready",
                         !.version = IF role = "router" THEN hermes ELSE me.version,
                         !.seen[role] = jobs[i]]
      <3>1. role \in Role /\ ((i # 0 /\ Goes(p, it)) \/ Goes(p, CollectorIdle))
        BY <2>3 DEF LoadJob
      <3>2. CASE role = "router"
        <4>1. it = [me EXCEPT !.pc = "courier", !.version = hermes,
                              !.seen = [me.seen EXCEPT !["router"] = jobs[me.id["router"]]]]
          BY <1>0, <3>2, CollectorIs
        <4>2. QED BY <3>1, <3>2, <4>1 DEF Collected
      <3>3. CASE role = "courier"
        <4>1. it = [me EXCEPT !.pc = "ready",
                              !.seen = [me.seen EXCEPT !["courier"] = jobs[me.id["courier"]]]]
          BY <1>0, <3>3, CollectorIs
        <4>2. QED BY <3>1, <3>3, <4>1 DEF Collected
      <3>4. QED BY <3>1, <3>2, <3>3, Roles
    <2>4. CASE CollectAbort(p)
      BY <2>4 DEF CollectAbort, Collected
    <2>5. QED BY <2>1, <2>2, <2>3, <2>4 DEF Collect
  <1>4. QED BY <1>1, <1>2, <1>3

\* A step of a collection, field by field.
LEMMA CollectFields ==
  ASSUME ActivationTyped, NEW p, NEW me \in Collector, NEW new, Collected(p, me, new)
  PROVE  /\ new \in Collector
         /\ \/ new = CollectorIdle
            \/ /\ new.denies = me.denies /\ new.fresh = me.fresh
               /\ \/ /\ me.pc = "config" /\ new.pc = "scripts" /\ files["config"] \in Attempt
                     /\ new.config = files["config"] /\ new.id = evidence
                  \/ /\ new.config = me.config /\ new.id = me.id
                     /\ \/ me.pc = "scripts" /\ new.pc = "router" /\ ScriptsMatch(me.config)
                        \/ /\ me.pc = "router" /\ new.pc = "courier" /\ me.id["router"] # 0
                           /\ new.version = hermes
                           /\ new.seen["router"] = jobs[me.id["router"]]
                        \/ /\ me.pc = "courier" /\ new.pc = "ready" /\ me.id["courier"] # 0
                           /\ new.version = me.version
                           /\ new.seen["router"] = me.seen["router"]
                           /\ new.seen["courier"] = jobs[me.id["courier"]]
  <1>0. /\ hermes \in Versions /\ evidence \in Ids
        /\ me.id \in [Role -> 0..MaxJobs] /\ me.seen \in [Role -> Job]
        /\ jobs \in [1..MaxJobs -> Job]
        /\ MaxJobs \in Nat
    <2>1. hermes \in 0..MaxVersion
      BY InstallAssumption DEF ActivationTyped, InstallTyped, TypeOK, MaxVersion
    <2>2. QED BY <2>1, InstallAssumption, CollectorIs
              DEF ActivationTyped, InstallTyped, TypeOK, Versions, Ids, Seens
  <1>1. CASE new = CollectorIdle
    BY <1>1, BlankTyped
  <1>2. CASE /\ me.pc = "config" /\ files["config"] \in Attempt
             /\ new = [me EXCEPT !.pc = "scripts", !.config = files["config"], !.id = evidence]
    <2>1. "scripts" \in Pcs /\ files["config"] \in Configs
      BY <1>2 DEF Pcs, Configs
    <2>2. /\ new \in Collector /\ new.denies = me.denies /\ new.fresh = me.fresh
          /\ new.pc = "scripts" /\ new.config = files["config"] /\ new.id = evidence
      BY <1>0, <1>2, <2>1, CollectorIs
    <2>3. QED BY <1>2, <2>2
  <1>3. CASE me.pc = "scripts" /\ ScriptsMatch(me.config) /\ new = [me EXCEPT !.pc = "router"]
    <2>1. "router" \in Pcs
      BY DEF Pcs
    <2>2. /\ new \in Collector /\ new.denies = me.denies /\ new.fresh = me.fresh
          /\ new.pc = "router" /\ new.config = me.config /\ new.id = me.id
      BY <1>3, <2>1, CollectorIs
    <2>3. QED BY <1>3, <2>2
  <1>4. ASSUME NEW role \in Role, me.id[role] # 0
        PROVE  LET seen == [me.seen EXCEPT ![role] = jobs[me.id[role]]] IN
               /\ seen \in Seens /\ seen[role] = jobs[me.id[role]]
               /\ \A r \in Role \ {role} : seen[r] = me.seen[r]
    <2>1. jobs[me.id[role]] \in Job
      BY <1>0, <1>4
    <2>2. QED BY <1>0, <2>1 DEF Seens
  <1>5. CASE /\ me.pc = "router" /\ me.id["router"] # 0
             /\ new = [me EXCEPT !.pc = "courier", !.version = hermes,
                         !.seen = [me.seen EXCEPT !["router"] = jobs[me.id["router"]]]]
    <2> DEFINE seen == [me.seen EXCEPT !["router"] = jobs[me.id["router"]]]
    <2>1. "courier" \in Pcs /\ seen \in Seens /\ seen["router"] = jobs[me.id["router"]]
      BY <1>4, <1>5, Roles DEF Pcs
    <2> HIDE DEF seen
    <2>2. new = [me EXCEPT !.pc = "courier", !.version = hermes, !.seen = seen]
      BY <1>5 DEF seen
    <2>3. /\ new \in Collector /\ new.denies = me.denies /\ new.fresh = me.fresh
          /\ new.pc = "courier" /\ new.config = me.config /\ new.id = me.id
          /\ new.version = hermes /\ new.seen = seen
      BY <1>0, <2>1, <2>2, CollectorIs
    <2>4. QED BY <1>5, <2>1, <2>3
  <1>6. CASE /\ me.pc = "courier" /\ me.id["courier"] # 0
             /\ new = [me EXCEPT !.pc = "ready",
                         !.seen = [me.seen EXCEPT !["courier"] = jobs[me.id["courier"]]]]
    <2> DEFINE seen == [me.seen EXCEPT !["courier"] = jobs[me.id["courier"]]]
    <2>1. /\ "ready" \in Pcs /\ seen \in Seens /\ seen["courier"] = jobs[me.id["courier"]]
          /\ seen["router"] = me.seen["router"]
      BY <1>4, <1>6, Roles DEF Pcs
    <2> HIDE DEF seen
    <2>2. new = [me EXCEPT !.pc = "ready", !.seen = seen]
      BY <1>6 DEF seen
    <2>3. /\ new \in Collector /\ new.denies = me.denies /\ new.fresh = me.fresh
          /\ new.pc = "ready" /\ new.config = me.config /\ new.id = me.id
          /\ new.version = me.version /\ new.seen = seen
      BY <1>0, <2>1, <2>2, CollectorIs
    <2>4. QED BY <1>6, <2>1, <2>3
  <1>7. QED BY <1>1, <1>2, <1>3, <1>5, <1>6 DEF Collected

\* What a step that is not a collection's may do to a collection under way is
\* to make it stale.
Ages(p) ==
  /\ collector'[p].fresh \in BOOLEAN
  /\ collector'[p] = [collector[p] EXCEPT !.fresh = collector'[p].fresh]
  /\ collector'[p].fresh => collector[p].fresh
  /\ p = "gate" /\ collector'[p].fresh =>
       UNCHANGED <<files, jobs, evidence, record, hermes>>

\* All that a collection loses is its freshness.
LEMMA AgesKeeps ==
  ASSUME NEW p \in Collects, collector \in [Collects -> Collector], Ages(p)
  PROVE  LET me == collector[p]
             new == collector'[p]
         IN  /\ new \in Collector
             /\ new.pc = me.pc /\ new.config = me.config /\ new.id = me.id
             /\ new.seen = me.seen /\ new.version = me.version /\ new.denies = me.denies
  BY CollectorIs DEF Ages

\* The collector after a step that only ages the fire's collection.
LEMMA AgesAll ==
  ASSUME collector \in [Collects -> Collector],
         NEW same \in BOOLEAN,
         same => UNCHANGED <<files, jobs, evidence, record, hermes>>,
         collector' = [collector EXCEPT !["gate"].fresh = collector["gate"].fresh /\ same]
  PROVE  \A p \in Collects : Ages(p)
  <1> DEFINE gate == [collector["gate"] EXCEPT !.fresh = collector["gate"].fresh /\ same]
  <1>1. "gate" \in Collects
    BY DEF Collects
  <1>2. collector' = [collector EXCEPT !["gate"] = gate]
    OBVIOUS
  <1>3. gate.fresh = (collector["gate"].fresh /\ same) /\ gate.fresh \in BOOLEAN
    BY <1>1, CollectorIs
  <1>4. Ages("gate")
    BY <1>1, <1>2, <1>3 DEF Ages
  <1>5. ASSUME NEW p \in Collects, p # "gate" PROVE Ages(p)
    <2>1. collector'[p] = collector[p] /\ collector[p] \in Collector
      BY <1>2, <1>5
    <2>2. collector[p] = [collector[p] EXCEPT !.fresh = collector[p].fresh]
            /\ collector[p].fresh \in BOOLEAN
      BY <2>1, CollectorIs
    <2>3. QED BY <1>5, <2>1, <2>2 DEF Ages
  <1>6. QED BY <1>4, <1>5

-----------------------------------------------------------------------------
(* The steps of the activation *)

\* The steps of others: what was collected may be out of date after them.
Aging == Installation \/ Deactivate \/ WriteEvidence \/ UpgradeHermes

\* The collections after a step of somebody else.
LEMMA AgingAges ==
  ASSUME ActivationTyped, Aging
  PROVE  /\ \A p \in Collects : Ages(p)
         /\ collector' = [p \in Collects |-> collector'[p]]
  <1>0. collector \in [Collects -> Collector] /\ "gate" \in Collects
    BY DEF ActivationTyped, Collects
  <1>1. ASSUME NEW same \in BOOLEAN,
               same => UNCHANGED <<files, jobs, evidence, record, hermes>>,
               collector' = [collector EXCEPT !["gate"].fresh = collector["gate"].fresh /\ same]
        PROVE  /\ \A p \in Collects : Ages(p)
               /\ collector' = [p \in Collects |-> collector'[p]]
    <2>1. \A p \in Collects : Ages(p)
      BY <1>0, <1>1, AgesAll
    <2>2. collector' = [p \in Collects |-> collector'[p]]
      BY <1>0, <1>1
    <2>3. QED BY <2>1, <2>2
  <1>2. CASE Installation
    <2> DEFINE same == <<files, jobs>>' = <<files, jobs>>
    <2>1. /\ same \in BOOLEAN
          /\ same => UNCHANGED <<files, jobs, evidence, record, hermes>>
          /\ collector' = [collector EXCEPT !["gate"].fresh = collector["gate"].fresh /\ same]
      BY <1>2 DEF Installation
    <2> HIDE DEF same
    <2>2. QED BY <1>1, <2>1
  <1>3. CASE Deactivate \/ WriteEvidence \/ UpgradeHermes
    <2>1. collector' = [collector EXCEPT !["gate"].fresh = FALSE]
      BY <1>3 DEF Deactivate, WriteEvidence, UpgradeHermes
    <2>2. collector' = [collector EXCEPT !["gate"].fresh = collector["gate"].fresh /\ FALSE]
      BY <2>1
    <2>3. QED BY <1>1, <2>2
  <1>4. QED BY <1>2, <1>3 DEF Aging

\* A commit ends the command's collection; the fire's is out of date if the
\* record is another one.
LEMMA CommitAges ==
  ASSUME ActivationTyped, ActivateCommit
  PROVE  /\ collector'["activate"] = CollectorIdle
         /\ Ages("gate")
         /\ collector' = [p \in Collects |-> collector'[p]]
  <1> DEFINE same == record' = record
             gate == [collector["gate"] EXCEPT !.fresh = collector["gate"].fresh /\ same]
  <1>0. collector \in [Collects -> Collector] /\ "gate" \in Collects /\ "activate" \in Collects
    BY DEF ActivationTyped, Collects
  <1>1. /\ collector' = [collector EXCEPT !["activate"] = CollectorIdle, !["gate"] = gate]
        /\ UNCHANGED <<files, jobs, evidence, hermes>>
    BY DEF ActivateCommit, installVars
  <1>2. gate.fresh = (collector["gate"].fresh /\ same) /\ gate.fresh \in BOOLEAN
    BY <1>0, CollectorIs
  <1> HIDE DEF same
  <1>3. Ages("gate")
    BY <1>0, <1>1, <1>2 DEF Ages, same
  <1>4. QED BY <1>0, <1>1, <1>3

\* The steps that set a collection, and the one it becomes.
LEMMA SetSteps ==
  ASSUME ActivationTyped, NEW p \in Collects, NEW it, Goes(p, it)
  PROVE  /\ collector'[p] = it
         /\ \A q \in Collects \ {p} : collector'[q] = collector[q]
         /\ collector' = [q \in Collects |-> collector'[q]]
  BY DEF ActivationTyped, Goes

\* A collection that has nothing yet.
BegunAt(pc, n, fresh) == [CollectorIdle EXCEPT !.pc = pc, !.denies = n, !.fresh = fresh]

\* The beginning of a collection, and its end.
LEMMA Begun ==
  ASSUME NEW pc \in Pcs, NEW n \in Denials, NEW fresh \in BOOLEAN
  PROVE  /\ BegunAt(pc, n, fresh) \in Collector
         /\ [CollectorIdle EXCEPT !.pc = pc, !.denies = n] = BegunAt(pc, n, FALSE)
  <1>1. CollectorIdle \in Collector
    BY BlankTyped
  <1>2. CollectorIdle.fresh = FALSE
    BY DEF CollectorIdle
  <1>3. QED BY <1>1, <1>2, CollectorIs DEF BegunAt

\* The begun collections of the two commands.
LEMMA Starts ==
  ASSUME ActivationTyped
  PROVE  /\ ActivateStart =>
              /\ collector'["activate"] = BegunAt("config", denies, FALSE)
              /\ collector'["gate"] = collector["gate"]
              /\ collector' = [q \in Collects |-> collector'[q]]
         /\ GateStart =>
              /\ collector'["gate"] = BegunAt("config", denies, TRUE)
              /\ collector'["activate"] = collector["activate"]
              /\ collector' = [q \in Collects |-> collector'[q]]
         /\ GateVerdict =>
              /\ \/ /\ Supported(collector["gate"])
                    /\ collector'["gate"]
                         = BegunAt("go", collector["gate"].denies, collector["gate"].fresh)
                 \/ collector'["gate"] = CollectorIdle
              /\ collector'["activate"] = collector["activate"]
              /\ collector' = [q \in Collects |-> collector'[q]]
  <1>0. /\ "gate" \in Collects /\ "activate" \in Collects /\ "gate" # "activate"
        /\ "config" \in Pcs /\ denies \in Denials
    BY DEF Collects, Pcs, ActivationTyped
  <1>1. [CollectorIdle EXCEPT !.pc = "config", !.denies = denies]
          = BegunAt("config", denies, FALSE)
    BY <1>0, Begun
  <1>2. ASSUME ActivateStart
        PROVE  /\ collector'["activate"] = BegunAt("config", denies, FALSE)
               /\ collector'["gate"] = collector["gate"]
               /\ collector' = [q \in Collects |-> collector'[q]]
    BY <1>0, <1>1, <1>2, SetSteps DEF ActivateStart
  <1>3. ASSUME GateStart
        PROVE  /\ collector'["gate"] = BegunAt("config", denies, TRUE)
               /\ collector'["activate"] = collector["activate"]
               /\ collector' = [q \in Collects |-> collector'[q]]
    BY <1>0, <1>3, SetSteps DEF GateStart, BegunAt
  <1>4. ASSUME GateVerdict
        PROVE  /\ \/ /\ Supported(collector["gate"])
                     /\ collector'["gate"]
                          = BegunAt("go", collector["gate"].denies, collector["gate"].fresh)
                  \/ collector'["gate"] = CollectorIdle
               /\ collector'["activate"] = collector["activate"]
               /\ collector' = [q \in Collects |-> collector'[q]]
    BY <1>0, <1>4, SetSteps DEF GateVerdict, BegunAt
  <1>5. QED BY <1>2, <1>3, <1>4

\* Their fields.
LEMMA StartFields ==
  ASSUME ActivationTyped
  PROVE  /\ BegunAt("config", denies, FALSE).pc = "config"
         /\ BegunAt("config", denies, FALSE).denies = denies
         /\ BegunAt("config", denies, TRUE).pc = "config"
         /\ BegunAt("config", denies, TRUE).denies = denies
         /\ LET me == collector["gate"]
                new == BegunAt("go", me.denies, me.fresh)
            IN  new.pc = "go" /\ new.denies = me.denies /\ new.fresh = me.fresh
  <1> DEFINE me == collector["gate"]
  <1>1. "config" \in Pcs /\ "go" \in Pcs /\ denies \in Denials /\ me.denies \in Denials
          /\ me.fresh \in BOOLEAN /\ TRUE \in BOOLEAN /\ FALSE \in BOOLEAN
    BY CollectorIs DEF Pcs, ActivationTyped, Collects
  <1>2. ASSUME NEW pc \in Pcs, NEW n \in Denials, NEW fresh \in BOOLEAN
        PROVE  /\ BegunAt(pc, n, fresh).pc = pc /\ BegunAt(pc, n, fresh).denies = n
               /\ BegunAt(pc, n, fresh).fresh = fresh
    <2>1. CollectorIdle \in Collector
      BY BlankTyped
    <2>2. QED BY <2>1, CollectorIs DEF BegunAt
  <1>3. /\ BegunAt("config", denies, FALSE).pc = "config"
        /\ BegunAt("config", denies, FALSE).denies = denies
    BY <1>1, <1>2
  <1>4. /\ BegunAt("config", denies, TRUE).pc = "config"
        /\ BegunAt("config", denies, TRUE).denies = denies
    BY <1>1, <1>2
  <1>5. /\ BegunAt("go", me.denies, me.fresh).pc = "go"
        /\ BegunAt("go", me.denies, me.fresh).denies = me.denies
        /\ BegunAt("go", me.denies, me.fresh).fresh = me.fresh
    BY <1>1, <1>2
  <1>6. QED BY <1>3, <1>4, <1>5

\* What each step does to the record.
LEMMA RecordSteps ==
  ASSUME ActivationTyped, Next
  PROVE  /\ record' \in Record
         /\ \/ record' = record
            \/ Deactivate /\ record'.state = "disabled"
            \/ /\ ActivateCommit
               /\ LET me == collector["activate"] IN
                  /\ me.pc = "ready" /\ Attestable(me)
                  /\ record'.state = "enabled"
                  /\ record'.spec = me.config /\ record'.version = me.version
                  /\ record'.id = me.id
                  /\ record'.bound = [r \in Role |-> DefinitionOf(me.seen[r])]
  <1>0. record \in Record /\ collector \in [Collects -> Collector] /\ "activate" \in Collects
    BY DEF ActivationTyped, Collects
  <1>1. CASE Deactivate
    <2>1. record' = [record EXCEPT !.state = "disabled"]
      BY <1>1 DEF Deactivate
    <2>2. record' \in Record /\ record'.state = "disabled"
      BY <1>0, <2>1, CollectorIs
    <2>3. QED BY <1>1, <2>2
  <1>2. CASE ActivateCommit
    <2> DEFINE me == collector["activate"]
               bound == [r \in Role |-> DefinitionOf(me.seen[r])]
    <2>1. me \in Collector /\ me.seen \in [Role -> Job]
      BY <1>0, CollectorIs DEF Seens
    <2>2. bound \in Seens
      BY <2>1, Roles DEF Seens
    <2>3. /\ me.pc = "ready"
          /\ \/ Attestable(me) /\ record' = [state |-> "enabled", spec |-> me.config,
                                             version |-> me.version, id |-> me.id,
                                             bound |-> bound]
             \/ record' = record
      BY <1>2 DEF ActivateCommit
    <2>4. [state |-> "enabled", spec |-> me.config, version |-> me.version, id |-> me.id,
           bound |-> bound] \in Record
      BY <2>1, <2>2, CollectorIs
    <2>5. QED BY <1>0, <1>2, <2>3, <2>4
  <1>3. CASE ~Deactivate /\ ~ActivateCommit
    BY <1>0, <1>3 DEF Next, Installation, Collect, LoadConfig, LoadScripts, LoadJob, CollectAbort,
       ActivateStart, GateStart, GateVerdict, WriteEvidence, UpgradeHermes
  <1>4. QED BY <1>1, <1>2, <1>3

\* Every step of the activation keeps the types.
LEMMA ActivationTypedNext == ASSUME ActivationTyped, [Next]_vars PROVE ActivationTyped'
  <1>0. /\ InstallTyped /\ TypeOK /\ evidence \in Ids /\ record \in Record
        /\ collector \in [Collects -> Collector] /\ denies \in 0..MaxDenies
        /\ hermes \in Nat /\ 1 <= hermes /\ hermes <= changes + 1 /\ changes \in Nat
        /\ MaxDenies \in Nat
    BY InstallAssumption, ActivationAssumption
    DEF ActivationTyped, InstallTyped, TypeOK, Denials
  <1>1. CASE UNCHANGED vars
    <2>1. InstallTyped'
      BY <1>0, <1>1, InstallTypedNext DEF vars
    <2>2. UNCHANGED <<evidence, record, collector, denies, hermes, changes>>
      BY <1>1 DEF vars, activationVars, installVars
    <2>3. QED BY <1>0, <2>1, <2>2 DEF ActivationTyped, Denials
  <1>2. CASE Next
    <2>1. InstallTyped'
      <3>1. CASE [InstallNext]_installVars
        BY <1>0, <3>1, InstallTypedNext
      <3>2. CASE UpgradeHermes
        <4>1. UNCHANGED <<files, jobs, issued, resumed, attempt>> /\ changes' = changes + 1
                /\ changes < MaxChanges
          BY <3>2 DEF UpgradeHermes
        <4>2. changes' \in 0..MaxChanges
          BY <1>0, <4>1, InstallAssumption
        <4>3. QED BY <1>0, <4>1, <4>2 DEF InstallTyped, TypeOK, Placed
      <3>3. QED BY <1>2, <3>1, <3>2 DEF Next, Installation, Collect, LoadConfig, LoadScripts,
                 LoadJob, CollectAbort, ActivateStart, ActivateCommit, Deactivate, GateStart,
                 GateVerdict, WriteEvidence
    <2>2. changes' = changes \/ changes' = changes + 1
      <3>1. CASE InstallNext
        BY <3>1 DEF InstallNext, Operate, EnableJob, ChangeJob, ChangeFile, Install, Plan,
           StageStart, StageWrite, StageFail, StageRestore, ExecStart, ExecCreate, ExecUpdate,
           ExecCreated, ExecPause, ExecSettled, ExecVerify, RollbackRemove, RollbackUpdate,
           ExecFinal, Crash
      <3>2. CASE UpgradeHermes
        BY <3>2 DEF UpgradeHermes
      <3>3. CASE UNCHANGED installVars
        BY <3>3 DEF installVars
      <3>4. QED BY <1>2, <3>1, <3>2, <3>3 DEF Next, Installation, Collect, LoadConfig,
                 LoadScripts, LoadJob, CollectAbort, ActivateStart, ActivateCommit, Deactivate,
                 GateStart, GateVerdict, WriteEvidence
    <2>3. hermes' \in Nat /\ 1 <= hermes' /\ hermes' <= changes' + 1
      <3>1. CASE UpgradeHermes
        <4>1. hermes' = hermes + 1 /\ changes' = changes + 1
          BY <3>1 DEF UpgradeHermes
        <4>2. QED BY <1>0, <4>1
      <3>2. CASE ~UpgradeHermes
        <4>1. hermes' = hermes
          BY <1>2, <3>2 DEF Next, Installation, Collect, LoadConfig, LoadScripts, LoadJob,
             CollectAbort, ActivateStart, ActivateCommit, Deactivate, GateStart, GateVerdict,
             WriteEvidence
        <4>2. QED BY <1>0, <2>2, <4>1
      <3>3. QED BY <3>1, <3>2
    <2>4. denies' \in 0..MaxDenies
      <3>1. CASE Deactivate
        BY <1>0, <3>1 DEF Deactivate
      <3>2. CASE ~Deactivate
        BY <1>0, <1>2, <3>2 DEF Next, Installation, Collect, LoadConfig, LoadScripts, LoadJob,
           CollectAbort, ActivateStart, ActivateCommit, GateStart, GateVerdict, WriteEvidence,
           UpgradeHermes
      <3>3. QED BY <3>1, <3>2
    <2>5. evidence' \in Ids
      <3>1. CASE WriteEvidence
        <4>1. PICK i \in 1..MaxJobs, k \in 1..MaxJobs :
                evidence' = [r \in Role |-> IF r = "router" THEN i ELSE k]
          BY <3>1 DEF WriteEvidence
        <4>2. QED BY <4>1 DEF Ids
      <3>2. CASE ~WriteEvidence
        BY <1>0, <1>2, <3>2 DEF Next, Installation, Collect, LoadConfig, LoadScripts, LoadJob,
           CollectAbort, ActivateStart, ActivateCommit, Deactivate, GateStart, GateVerdict,
           UpgradeHermes
      <3>3. QED BY <3>1, <3>2
    <2>6. collector' \in [Collects -> Collector]
      <3>0. /\ "gate" \in Collects /\ "activate" \in Collects
            /\ \A p \in Collects : p = "gate" \/ p = "activate"
            /\ "config" \in Pcs /\ "go" \in Pcs /\ denies \in Denials
            /\ collector["gate"].denies \in Denials /\ collector["gate"].fresh \in BOOLEAN
        BY <1>0, CollectorIs DEF Collects, Pcs, Denials
      <3>1. /\ BegunAt("config", denies, FALSE) \in Collector
            /\ BegunAt("config", denies, TRUE) \in Collector
            /\ BegunAt("go", collector["gate"].denies, collector["gate"].fresh) \in Collector
            /\ CollectorIdle \in Collector
        <4>1. TRUE \in BOOLEAN /\ FALSE \in BOOLEAN
          OBVIOUS
        <4>2. QED BY <3>0, <4>1, Begun, BlankTyped
      <3>2. CASE Aging
        BY <1>0, <3>2, AgingAges, AgesKeeps
      <3>3. CASE ActivateCommit
        BY <1>0, <3>0, <3>3, CommitAges, AgesKeeps, BlankTyped
      <3>4. ASSUME NEW p \in Collects, Collect(p) PROVE collector' \in [Collects -> Collector]
        <4>1. collector[p] \in Collector
          BY <1>0
        <4>2. collector'[p] \in Collector
          BY <3>4, <4>1, CollectStep, CollectFields
        <4>3. QED BY <1>0, <3>4, <4>2, CollectStep
      <3>5. CASE ActivateStart
        <4>1. collector'["activate"] \in Collector /\ collector'["gate"] \in Collector
          BY <1>0, <3>0, <3>1, <3>5, Starts
        <4>2. QED BY <3>0, <3>5, <4>1, Starts
      <3>6. CASE GateStart
        <4>1. collector'["activate"] \in Collector /\ collector'["gate"] \in Collector
          BY <1>0, <3>0, <3>1, <3>6, Starts
        <4>2. QED BY <3>0, <3>6, <4>1, Starts
      <3>7. CASE GateVerdict
        <4>1. collector'["activate"] \in Collector /\ collector'["gate"] \in Collector
          BY <1>0, <3>0, <3>1, <3>7, Starts
        <4>2. QED BY <3>0, <3>7, <4>1, Starts
      <3>8. QED BY <1>2, <3>2, <3>3, <3>4, <3>5, <3>6, <3>7 DEF Next, Aging
    <2>7. QED BY <1>2, <2>1, <2>3, <2>4, <2>5, <2>6, RecordSteps DEF ActivationTyped, Denials
  <1>3. QED BY <1>1, <1>2

\* The inductive form of the types.
LEMMA ActivationHolds == Spec => []ActivationTyped
  <1>1. Init => ActivationTyped
    <2> SUFFICES ASSUME Init PROVE ActivationTyped
      OBVIOUS
    <2>1. InstallTyped /\ changes = 0
      BY InstallTypedInit DEF Init, InstallInit
    <2>2. QED BY <2>1, BlankTyped DEF Init, ActivationTyped
  <1>2. QED BY <1>1, ActivationTypedNext, PTL DEF Spec

\* Every reachable state of the activation is well typed: a version of Hermes
\* and a number of deactivations are within their bounds, a record names jobs
\* that were given out.
THEOREM ActivationIsTyped == Spec => []ActivationTypeOK
  <1>1. ActivationTyped => ActivationTypeOK
    <2> SUFFICES ASSUME ActivationTyped PROVE ActivationTypeOK
      OBVIOUS
    <2>1. hermes \in 1..MaxVersion
      BY InstallAssumption DEF ActivationTyped, InstallTyped, TypeOK, MaxVersion
    <2>2. QED BY <2>1 DEF ActivationTyped, ActivationTypeOK, InstallTyped, Ids, Denials
  <1>2. QED BY <1>1, ActivationHolds, PTL

-----------------------------------------------------------------------------
(* Deactivation *)

\* The inductive invariant behind the two properties: a fire saw at most the
\* deactivations there have been, and an activation under the lock saw all.
DenyInv ==
  /\ collector["gate"].denies <= denies
  /\ DenyStopsLaterFires
  /\ collector["activate"].pc # "idle" => collector["activate"].denies = denies

\* No step undoes a deactivation.
LEMMA DenyNext == ASSUME ActivationTyped, DenyInv, Next PROVE DenyInv'
  <1> DEFINE gate == collector["gate"]
             act  == collector["activate"]
  <1>0. /\ gate \in Collector /\ act \in Collector /\ denies \in Nat /\ gate.denies \in Nat
        /\ collector \in [Collects -> Collector]
        /\ "gate" \in Collects /\ "activate" \in Collects
        /\ \A p \in Collects : p = "gate" \/ p = "activate"
        /\ CollectorIdle.denies = 0 /\ CollectorIdle.pc = "idle"
    <2>1. gate \in Collector /\ act \in Collector
      BY DEF ActivationTyped, Collects
    <2>2. denies \in Denials /\ gate.denies \in Denials
      BY <2>1, CollectorIs DEF ActivationTyped
    <2>3. QED BY <2>1, <2>2, ActivationAssumption
              DEF ActivationTyped, Collects, Denials, CollectorIdle
  <1>1. CASE UNCHANGED <<record, denies>> /\ Aging
    <2>1. /\ collector'["gate"].denies = gate.denies /\ collector'["gate"].pc = gate.pc
          /\ collector'["activate"].denies = act.denies /\ collector'["activate"].pc = act.pc
      BY <1>0, <1>1, AgingAges, AgesKeeps
    <2>2. QED BY <1>1, <2>1 DEF DenyInv, DenyStopsLaterFires, Gate
  <1>2. CASE Deactivate
    <2>1. Aging
      BY <1>2 DEF Aging
    <2>2. /\ collector'["gate"].denies = gate.denies /\ collector'["gate"].pc = gate.pc
          /\ collector'["activate"].pc = act.pc
      BY <1>0, <2>1, AgingAges, AgesKeeps
    <2>3. denies' = denies + 1 /\ act.pc = "idle"
      BY <1>2 DEF Deactivate, RecordLockFree
    <2>4. QED BY <1>0, <2>2, <2>3 DEF DenyInv, DenyStopsLaterFires, Gate
  <1>3. CASE ActivateCommit
    <2>1. /\ collector'["gate"].denies = gate.denies /\ collector'["gate"].pc = gate.pc
          /\ collector'["activate"].pc = "idle"
      BY <1>0, <1>3, CommitAges, AgesKeeps
    <2>2. denies' = denies /\ (record' = record \/ record'.state = "enabled")
      BY <1>3, RecordSteps DEF ActivateCommit, Deactivate
    <2>3. QED BY <2>1, <2>2 DEF DenyInv, DenyStopsLaterFires, Gate
  <1>4. ASSUME NEW p \in Collects, Collect(p) PROVE DenyInv'
    <2> DEFINE me == collector[p]
               new == collector'[p]
    <2>1. new = CollectorIdle \/ (new.denies = me.denies /\ new.pc # "go" /\ me.pc # "idle")
      <3>1. me \in Collector
        BY <1>0
      <3>2. QED BY <1>4, <3>1, CollectStep, CollectFields
    <2>2. UNCHANGED <<record, denies>>
      BY <1>4, CollectStep
    <2>3. \A q \in Collects \ {p} : collector'[q] = collector[q]
      BY <1>4, CollectStep
    <2>4. CASE p = "gate"
      <3>1. collector'["activate"] = act
        BY <1>0, <2>3, <2>4
      <3>2. QED BY <1>0, <2>1, <2>2, <2>4, <3>1 DEF DenyInv, DenyStopsLaterFires, Gate
    <2>5. CASE p = "activate"
      <3>1. collector'["gate"] = gate
        BY <1>0, <2>3, <2>5
      <3>2. QED BY <1>0, <2>1, <2>2, <2>5, <3>1 DEF DenyInv, DenyStopsLaterFires, Gate
    <2>6. QED BY <1>0, <2>4, <2>5
  <1>5. CASE ActivateStart
    <2>1. /\ collector'["activate"].denies = denies /\ collector'["gate"] = gate
          /\ UNCHANGED <<record, denies>>
      BY <1>5, Starts, StartFields DEF ActivateStart
    <2>2. QED BY <2>1 DEF DenyInv, DenyStopsLaterFires, Gate
  <1>6. CASE GateStart
    <2>1. /\ collector'["gate"].denies = denies /\ collector'["gate"].pc = "config"
          /\ collector'["activate"] = act /\ UNCHANGED <<record, denies>>
      BY <1>6, Starts, StartFields DEF GateStart
    <2>2. QED BY <1>0, <2>1 DEF DenyInv, DenyStopsLaterFires, Gate
  <1>7. CASE GateVerdict
    <2>1. collector'["activate"] = act /\ UNCHANGED <<record, denies>>
      BY <1>7, Starts DEF GateVerdict
    <2>2. \/ collector'["gate"] = CollectorIdle
          \/ record.state = "enabled" /\ collector'["gate"].denies = gate.denies
      BY <1>7, Starts, StartFields DEF Supported
    <2>3. QED BY <1>0, <2>1, <2>2 DEF DenyInv, DenyStopsLaterFires, Gate
  <1>8. (Installation \/ WriteEvidence \/ UpgradeHermes) => UNCHANGED <<record, denies>> /\ Aging
    BY DEF Installation, WriteEvidence, UpgradeHermes, Aging
  <1>9. QED BY <1>1, <1>2, <1>3, <1>4, <1>5, <1>6, <1>7, <1>8 DEF Next

\* The inductive form of the deactivation's promises.
LEMMA DenyHolds == Spec => []DenyInv
  <1>1. Init => DenyInv
    BY DEF Init, DenyInv, DenyStopsLaterFires, Gate, CollectorIdle, NoRecord, Collects
  <1>2. ActivationTyped /\ DenyInv /\ [Next]_vars => DenyInv'
    <2>1. ASSUME DenyInv, UNCHANGED vars PROVE DenyInv'
      BY <2>1 DEF vars, activationVars, DenyInv, DenyStopsLaterFires, Gate
    <2>2. QED BY <2>1, DenyNext
  <1>3. QED BY <1>1, <1>2, ActivationHolds, PTL DEF Spec

\* A deactivation holds for every fire that begins after it, whatever another
\* process collects, attests or removes meanwhile.
THEOREM DenyIsFinal == Spec => []DenyStopsLaterFires
  <1>1. DenyInv => DenyStopsLaterFires
    BY DEF DenyInv
  <1>2. QED BY <1>1, DenyHolds, PTL

\* A record is only ever enabled by an activation that collected what it
\* attests after the last deactivation.
THEOREM NoActivationUndoesADeny == Spec => DenyIsNotUndone
  <1>1. ASSUME ActivationTyped, DenyInv, Next, record'.state = "enabled", record' # record
        PROVE  collector["activate"].denies = denies
    <2>1. collector["activate"].pc = "ready"
      BY <1>1, RecordSteps
    <2>2. QED BY <1>1, <2>1 DEF DenyInv
  <1>2. ActivationTyped /\ DenyInv /\ [Next]_vars
          => [record'.state = "enabled" /\ record' # record
                => collector["activate"].denies = denies]_vars
    BY <1>1
  <1>3. QED BY <1>2, ActivationHolds, DenyHolds, PTL DEF Spec, DenyIsNotUndone

-----------------------------------------------------------------------------
(* What a fire may trust *)

\* What a collection has found by the place it has come to.
Found(me) ==
  /\ me.pc \in {"scripts", "router", "courier", "ready"} => me.config \in Attempt
  /\ me.pc \in {"courier", "ready"} => me.id["router"] # 0
  /\ me.pc = "ready" => me.id["courier"] # 0

\* An enabled record has bound the definitions as an attempt planned them.
Sound(rec) ==
  rec.state = "enabled" => \A r \in Role : rec.bound[r] = JobOf(r, "planned", "paused")

\* What a fire has collected is still so, while nobody has interfered.
StillSo(me) ==
  /\ me.pc \in {"scripts", "router", "courier", "ready"} =>
       me.config = files["config"] /\ me.id = evidence
  /\ me.pc \in {"router", "courier", "ready"} => \A f \in File : files[f] = me.config
  /\ me.pc \in {"courier", "ready"} =>
       me.version = hermes /\ me.seen["router"] = jobs[me.id["router"]]
  /\ me.pc = "ready" => me.seen["courier"] = jobs[me.id["courier"]]
  /\ me.pc = "go" => InstalledWhole

\* The inductive invariant behind WakeRunsThePlan.
WakeInv ==
  /\ \A p \in Collects : Found(collector[p])
  /\ Sound(record)
  /\ Gate.fresh => StillSo(Gate)

\* A step that ages the fire's collection leaves it true while it is fresh.
LEMMA WakeAges ==
  ASSUME ActivationTyped, WakeInv, Ages("gate")
  PROVE  (Gate.fresh => StillSo(Gate))' /\ Found(collector'["gate"])
  <1> DEFINE me  == collector["gate"]
             new == collector'["gate"]
  <1>1. /\ new.pc = me.pc /\ new.config = me.config /\ new.id = me.id
        /\ new.seen = me.seen /\ new.version = me.version
    BY AgesKeeps DEF ActivationTyped, Collects
  <1>2. Found(new)
    BY <1>1 DEF WakeInv, Found, Collects
  <1>3. ASSUME new.fresh PROVE StillSo(Gate)'
    <2>1. UNCHANGED <<files, jobs, evidence, record, hermes>> /\ me.fresh
      BY <1>3 DEF Ages
    <2>2. StillSo(me)
      BY <2>1 DEF WakeInv, Gate
    <2>3. QED BY <1>1, <2>1, <2>2 DEF StillSo, InstalledWhole, Gate
  <1>4. QED BY <1>2, <1>3 DEF Gate

\* No step makes the fire's collection untrue while it is fresh.
LEMMA WakeNext == ASSUME ActivationTyped, WakeInv, Next PROVE WakeInv'
  <1> DEFINE gate == collector["gate"]
             act  == collector["activate"]
  <1>0. /\ gate \in Collector /\ act \in Collector
        /\ "gate" \in Collects /\ "activate" \in Collects
        /\ \A p \in Collects : p = "gate" \/ p = "activate"
        /\ CollectorIdle.fresh = FALSE /\ CollectorIdle.pc = "idle"
    BY DEF ActivationTyped, Collects, CollectorIdle
  <1>1. Sound(record')
    <2>1. CASE record' = record
      BY <2>1 DEF WakeInv
    <2>2. CASE record'.state = "disabled"
      BY <2>2 DEF Sound
    <2>3. CASE /\ Attestable(act)
               /\ record'.bound = [r \in Role |-> DefinitionOf(act.seen[r])]
      BY <2>3, Roles DEF Sound, Attestable
    <2>4. QED BY <2>1, <2>2, <2>3, RecordSteps
  <1>2. ASSUME Found(collector'["gate"]), Found(collector'["activate"]),
               (Gate.fresh => StillSo(Gate))'
        PROVE  WakeInv'
    <2>1. \A p \in Collects : Found(collector'[p])
      BY <1>0, <1>2
    <2>2. QED BY <1>1, <1>2, <2>1 DEF WakeInv, Found, Sound
  <1>3. CASE Aging
    <2>1. Ages("gate") /\ Ages("activate")
      BY <1>0, <1>3, AgingAges
    <2>2. Found(collector'["activate"])
      <3>1. /\ collector'["activate"].pc = act.pc /\ collector'["activate"].config = act.config
            /\ collector'["activate"].id = act.id
        BY <1>0, <2>1, AgesKeeps DEF ActivationTyped
      <3>2. QED BY <1>0, <3>1 DEF WakeInv, Found
    <2>3. QED BY <1>2, <2>1, <2>2, WakeAges
  <1>4. CASE ActivateCommit
    <2>1. Ages("gate") /\ collector'["activate"] = CollectorIdle
      BY <1>4, CommitAges
    <2>2. Found(collector'["activate"])
      BY <1>0, <2>1 DEF Found
    <2>3. QED BY <1>2, <2>1, <2>2, WakeAges
  <1>5. ASSUME NEW p \in Collects, Collect(p) PROVE WakeInv'
    <2> DEFINE me  == collector[p]
               new == collector'[p]
    <2>0. /\ me \in Collector /\ Found(me)
          /\ UNCHANGED <<files, jobs, evidence, record, hermes>>
          /\ \A q \in Collects \ {p} : collector'[q] = collector[q]
      <3>1. UNCHANGED <<installVars, evidence, record, hermes>>
        BY <1>5, CollectStep
      <3>2. me \in Collector /\ Found(me)
        BY DEF ActivationTyped, WakeInv
      <3>3. QED BY <1>5, <3>1, <3>2, CollectStep DEF installVars
    <2>1. \/ new = CollectorIdle
          \/ /\ new.fresh = me.fresh
             /\ \/ /\ me.pc = "config" /\ new.pc = "scripts" /\ files["config"] \in Attempt
                   /\ new.config = files["config"] /\ new.id = evidence
                \/ /\ new.config = me.config /\ new.id = me.id
                   /\ \/ me.pc = "scripts" /\ new.pc = "router" /\ ScriptsMatch(me.config)
                      \/ /\ me.pc = "router" /\ new.pc = "courier" /\ me.id["router"] # 0
                         /\ new.version = hermes
                         /\ new.seen["router"] = jobs[me.id["router"]]
                      \/ /\ me.pc = "courier" /\ new.pc = "ready" /\ me.id["courier"] # 0
                         /\ new.version = me.version
                         /\ new.seen["router"] = me.seen["router"]
                         /\ new.seen["courier"] = jobs[me.id["courier"]]
      BY <1>5, <2>0, CollectStep, CollectFields
    <2>2. Found(new)
      BY <1>0, <2>0, <2>1 DEF Found
    <2>3. ASSUME p = "gate", new.fresh PROVE StillSo(Gate)'
      <3>1. new # CollectorIdle /\ me.fresh /\ new.pc # "go"
        BY <1>0, <2>1, <2>3
      <3>2. StillSo(me)
        BY <2>3, <3>1 DEF WakeInv, Gate
      <3>3. ScriptsMatch(me.config) /\ me.config = files["config"] =>
              \A f \in File : files[f] = me.config
        BY DEF ScriptsMatch
      <3>4. QED BY <2>0, <2>1, <2>3, <3>1, <3>2, <3>3 DEF StillSo, Gate
    <2>4. CASE p = "gate"
      <3>1. collector'["activate"] = act
        BY <1>0, <2>0, <2>4
      <3>2. QED BY <1>0, <1>2, <2>2, <2>3, <2>4, <3>1 DEF WakeInv, Gate
    <2>5. CASE p = "activate"
      <3>1. collector'["gate"] = gate
        BY <1>0, <2>0, <2>5
      <3>2. (Gate.fresh => StillSo(Gate))'
        BY <2>0, <3>1 DEF WakeInv, Gate, StillSo, InstalledWhole
      <3>3. QED BY <1>0, <1>2, <2>2, <2>5, <3>1, <3>2 DEF WakeInv
    <2>6. QED BY <1>0, <2>4, <2>5
  <1>6. CASE ActivateStart
    <2>1. /\ collector'["activate"].pc = "config" /\ collector'["gate"] = gate
          /\ UNCHANGED <<files, jobs, evidence, record, hermes>>
      BY <1>6, Starts, StartFields DEF ActivateStart, installVars
    <2>2. (Gate.fresh => StillSo(Gate))'
      BY <2>1 DEF WakeInv, Gate, StillSo, InstalledWhole
    <2>3. QED BY <1>0, <1>2, <2>1, <2>2 DEF WakeInv, Found
  <1>7. CASE GateStart
    <2>1. collector'["gate"].pc = "config" /\ collector'["activate"] = act
      BY <1>7, Starts, StartFields
    <2>2. QED BY <1>0, <1>2, <2>1 DEF WakeInv, Found, StillSo, Gate
  <1>8. CASE GateVerdict
    <2>1. /\ collector'["activate"] = act /\ gate.pc = "ready"
          /\ UNCHANGED <<files, jobs, evidence, record, hermes>>
          /\ \/ collector'["gate"] = CollectorIdle
             \/ /\ Supported(gate) /\ collector'["gate"].pc = "go"
                /\ collector'["gate"].fresh = gate.fresh
      BY <1>8, Starts, StartFields DEF GateVerdict, installVars
    <2>2. ASSUME Supported(gate), gate.fresh PROVE InstalledWhole
      <3>1. StillSo(gate) /\ Found(gate)
        BY <1>0, <2>2 DEF WakeInv, Gate
      <3>2. hermes = record.version /\ \A f \in File : files[f] = gate.config
        BY <2>1, <2>2, <3>1 DEF StillSo, Supported
      <3>3. ASSUME NEW r \in Role
            PROVE  /\ evidence[r] # 0
                   /\ DefinitionOf(jobs[evidence[r]]) = JobOf(r, "planned", "paused")
        <4>1. evidence[r] # 0 /\ gate.seen[r] = jobs[evidence[r]]
          BY <2>1, <3>1, Roles DEF StillSo, Found
        <4>2. record.bound[r] = DefinitionOf(gate.seen[r])
                /\ record.bound[r] = JobOf(r, "planned", "paused")
          BY <2>2 DEF Supported, WakeInv, Sound
        <4>3. QED BY <4>1, <4>2
      <3>4. gate.config \in Attempt
        BY <2>1, <3>1 DEF Found
      <3>5. QED BY <3>2, <3>3, <3>4 DEF InstalledWhole
    <2>3. InstalledWhole => InstalledWhole'
      BY <2>1 DEF InstalledWhole
    <2>4. Found(collector'["gate"])
      BY <1>0, <2>1 DEF Found
    <2>5. (Gate.fresh => StillSo(Gate))'
      BY <1>0, <2>1, <2>2, <2>3 DEF Gate, StillSo
    <2>6. QED BY <1>0, <1>2, <2>1, <2>4, <2>5 DEF WakeInv
  <1>9. QED BY <1>3, <1>4, <1>5, <1>6, <1>7, <1>8 DEF Next, Aging

\* The inductive form of what a fire may trust.
LEMMA WakeHolds == Spec => []WakeInv
  <1>1. Init => WakeInv
    BY DEF Init, WakeInv, Found, Sound, Gate, StillSo, CollectorIdle, NoRecord, Collects
  <1>2. ActivationTyped /\ WakeInv /\ [Next]_vars => WakeInv'
    <2>1. ASSUME WakeInv, UNCHANGED vars PROVE WakeInv'
      BY <2>1 DEF vars, activationVars, installVars, WakeInv, Found, Sound, Gate, StillSo,
         InstalledWhole
    <2>2. QED BY <2>1, WakeNext
  <1>3. QED BY <1>1, <1>2, ActivationHolds, PTL DEF Spec

\* A fire that goes on while nobody interferes runs a whole installation as its
\* specification planned it, in the Hermes that was attested, however old the
\* record is that it compared with.
THEOREM FiresRunThePlan == Spec => []WakeRunsThePlan
  <1>1. WakeInv => WakeRunsThePlan
    BY DEF WakeInv, WakeRunsThePlan, StillSo
  <1>2. QED BY <1>1, WakeHolds, PTL

================================================================================
