----------------------------- MODULE InstallProofs -----------------------------
(***************************************************************************)
(* Theorems about the cron installer beneath the activation, for any       *)
(* number of attempts, jobs and changes by the operator: types, whole      *)
(* staging, and what the installer reports.  A report of success, or of a  *)
(* complete rollback, is a statement about the jobs that Hermes has at     *)
(* that moment; the attempt only knows what it expected, and that the last *)
(* read-back was equal to it.                                              *)
(***************************************************************************)
EXTENDS Activation, TLAPS

-----------------------------------------------------------------------------
(* Types of the installation *)

\* What an attempt's place in the code says of the rest of it: without this
\* the jobs that it addresses need not exist.
Placed(me) ==
  /\ me.pc \in Executing => me.step \in 1..2
  /\ me.pc \in {"created", "pause"} =>
       me.op = "install" /\ me.created[me.step] \in 1..MaxJobs
  /\ me.pc # "idle" => Plannable(me.op, me.snapshot)

\* The inductive invariant behind TypeOK.
InstallTyped ==
  /\ TypeOK
  /\ \A a \in Attempt : Placed(attempt[a])

\* The tables of names.
LEMMA Names ==
  /\ StableNames[1] = "router" /\ StableNames[2] = "courier"
  /\ \A n \in 1..2 : StableNames[n] \in {"router", "courier"}
  /\ Targets[1] = "router_script" /\ Targets[2] = "courier_script" /\ Targets[3] = "config"
  /\ File = {"router_script", "courier_script", "config"}
  /\ \A n \in 1..3 : Targets[n] \in File
  <1>1. 1..2 = {1, 2} /\ 1..3 = {1, 2, 3}
    OBVIOUS
  <1>2. StableNames[1] = "router" /\ StableNames[2] = "courier"
    BY DEF StableNames
  <1>3. Targets[1] = "router_script" /\ Targets[2] = "courier_script" /\ Targets[3] = "config"
    BY DEF Targets
  <1>4. File = {Targets[1], Targets[2], Targets[3]}
    BY <1>1 DEF File
  <1>5. QED BY <1>1, <1>2, <1>3, <1>4

\* The blank records, and the jobs the installer makes, have their types.
LEMMA JobsTyped ==
  /\ NoJob \in Job
  /\ \A n \in 1..2, release \in {"prior", "planned"}, state \in {"paused", "scheduled"} :
       /\ JobOf(StableNames[n], release, state) \in Job
       /\ JobOf(StableNames[n], release, state) # NoJob
       /\ JobOf(StableNames[n], release, state).name = StableNames[n]
       /\ JobOf(StableNames[n], release, state).state = state
  /\ AttemptIdle \in AttemptState
  <1>1. NoJob \in Job
    BY DEF NoJob, Job
  <1>2. ASSUME NEW n \in 1..2, NEW release \in {"prior", "planned"},
               NEW state \in {"paused", "scheduled"}
        PROVE  /\ JobOf(StableNames[n], release, state) \in Job
               /\ JobOf(StableNames[n], release, state) # NoJob
               /\ JobOf(StableNames[n], release, state).name = StableNames[n]
               /\ JobOf(StableNames[n], release, state).state = state
    BY Names DEF JobOf, Job, NoJob
  <1>3. AttemptIdle \in AttemptState
    BY InstallAssumption DEF AttemptIdle, AttemptState, Content, Result
  <1>4. QED BY <1>1, <1>2, <1>3

\* A job is its fields.
LEMMA JobFields ==
  ASSUME NEW job \in Job
  PROVE  /\ job = [name |-> job.name, release |-> job.release, edited |-> job.edited,
                   state |-> job.state]
         /\ \A release \in {"prior", "planned"}, edited \in BOOLEAN :
              [job EXCEPT !.release = release, !.edited = edited] =
                [name |-> job.name, release |-> release, edited |-> edited, state |-> job.state]
         /\ \A state \in {"paused", "scheduled"} :
              [job EXCEPT !.state = state] =
                [name |-> job.name, release |-> job.release, edited |-> job.edited,
                 state |-> state]
  <1> DEFINE Ns == {"router", "courier", "none"}
             Rs == {"prior", "planned"}
             Ss == {"paused", "scheduled"}
             Bs == BOOLEAN
  <1>1. job \in [name : Ns, release : Rs, edited : Bs, state : Ss]
    BY DEF Job
  <1> HIDE DEF Ns, Rs, Ss, Bs
  <1>2. job = [name |-> job.name, release |-> job.release, edited |-> job.edited,
               state |-> job.state]
    BY <1>1
  <1>3. ASSUME NEW release, NEW edited
        PROVE  [job EXCEPT !.release = release, !.edited = edited] =
                [name |-> job.name, release |-> release, edited |-> edited, state |-> job.state]
    <2> DEFINE new == [job EXCEPT !.release = release, !.edited = edited]
    <2>1. /\ new.name = job.name /\ new.release = release /\ new.edited = edited
          /\ new.state = job.state
      BY <1>1
    <2>2. new \in [name : Ns, release : {release}, edited : {edited}, state : Ss]
      BY <1>1
    <2> HIDE DEF new
    <2>3. new = [name |-> new.name, release |-> new.release, edited |-> new.edited,
                 state |-> new.state]
      BY <2>2
    <2>4. QED BY <2>1, <2>3 DEF new
  <1>4. ASSUME NEW state
        PROVE  [job EXCEPT !.state = state] =
                [name |-> job.name, release |-> job.release, edited |-> job.edited,
                 state |-> state]
    BY <1>1
  <1>5. QED BY <1>2, <1>3, <1>4

\* What an attempt sees of the jobs.
LEMMA ViewTyped ==
  ASSUME NEW js \in [1..MaxJobs -> Job]
  PROVE  /\ View(js) \in SUBSET ((1..MaxJobs) \X Job)
         /\ View(js) = {p \in (1..MaxJobs) \X Job : p[2] = js[p[1]] /\ p[2] # NoJob}
         /\ \A i \in 1..MaxJobs, job \in Job :
              <<i, job>> \in View(js) <=> job = js[i] /\ job # NoJob
  BY DEF View

\* The types of the fields of an attempt, by name.
Place   == {"idle", "planned", "done"} \cup Staging \cup Executing
Op      == {"install", "upgrade"}
Views   == SUBSET ((1..MaxJobs) \X Job)
Before  == [File -> Content]
Step    == 1..3
Issued  == [1..2 -> 0..MaxJobs]

\* An attempt is its fields.
LEMMA AttemptStateIs ==
  AttemptState =
    [pc : Place, op : Op, snapshot : Views, expected : Views, previous : Before, step : Step,
     created : Issued, failures : BOOLEAN, stale : BOOLEAN, result : Result]
  BY DEF AttemptState, Place, Op, Views, Before, Step, Issued

\* The operators of the executor, field by field.
LEMMA AttemptFields ==
  ASSUME NEW me \in AttemptState
  PROVE  /\ \A result \in Result :
              LET new == Ended(me, result) IN
              /\ new \in AttemptState
              /\ new.pc = "done" /\ new.op = me.op /\ new.snapshot = me.snapshot
              /\ new.stale = me.stale /\ new.result = result
         /\ LET new == Failing(me) IN
              /\ new \in AttemptState
              /\ new.pc = "rollback" /\ new.step = 2
              /\ new.op = me.op /\ new.snapshot = me.snapshot /\ new.created = me.created
              /\ new.stale = me.stale /\ new.result = me.result
         /\ \A ok \in BOOLEAN :
              LET new == RolledBack(me, ok) IN
              /\ new \in AttemptState
              /\ new.pc = (IF me.step = 2 THEN "rollback" ELSE "final") /\ new.step = 1
              /\ new.op = me.op /\ new.snapshot = me.snapshot /\ new.created = me.created
              /\ new.stale = me.stale /\ new.result = me.result
  <1>0. /\ "done" \in Place /\ "rollback" \in Place /\ "final" \in Place
        /\ 1 \in Step /\ 2 \in Step
    BY DEF Place, Step, Executing
  <1>1. ASSUME NEW result \in Result
        PROVE  LET new == Ended(me, result) IN
              /\ new \in AttemptState
              /\ new.pc = "done" /\ new.op = me.op /\ new.snapshot = me.snapshot
              /\ new.stale = me.stale /\ new.result = result
    BY <1>0, AttemptStateIs, JobsTyped DEF Ended, AttemptIdle
  <1>2. LET new == Failing(me) IN
              /\ new \in AttemptState
              /\ new.pc = "rollback" /\ new.step = 2
              /\ new.op = me.op /\ new.snapshot = me.snapshot /\ new.created = me.created
              /\ new.stale = me.stale /\ new.result = me.result
    BY <1>0, AttemptStateIs DEF Failing
  <1>3. ASSUME NEW ok \in BOOLEAN
        PROVE LET new == RolledBack(me, ok) IN
              /\ new \in AttemptState
              /\ new.pc = (IF me.step = 2 THEN "rollback" ELSE "final") /\ new.step = 1
              /\ new.op = me.op /\ new.snapshot = me.snapshot /\ new.created = me.created
              /\ new.stale = me.stale /\ new.result = me.result
    BY <1>0, AttemptStateIs DEF RolledBack
  <1>4. QED BY <1>1, <1>2, <1>3

\* An upgrade knows the one paused job that bears each name.
LEMMA BoundIsNamed ==
  ASSUME NEW me \in AttemptState, Plannable("upgrade", me.snapshot), NEW n \in 1..2
  PROVE  /\ Bound(me, n) \in 1..MaxJobs
         /\ \E job \in Job :
              /\ Named(me.snapshot, StableNames[n]) = {<<Bound(me, n), job>>}
              /\ <<Bound(me, n), job>> \in me.snapshot
              /\ job.name = StableNames[n] /\ job.state = "paused"
  <1>1. PICK p \in me.snapshot :
          Named(me.snapshot, StableNames[n]) = {p} /\ p[2].state = "paused"
    BY DEF Plannable
  <1>2. p[1] \in 1..MaxJobs /\ p[2] \in Job /\ p = <<p[1], p[2]>>
    BY DEF AttemptState
  <1>3. Bound(me, n) = p[1]
    <2>1. \A i \in 1..MaxJobs :
            (\E q \in Named(me.snapshot, StableNames[n]) : q[1] = i) <=> i = p[1]
      BY <1>1, <1>2
    <2>2. QED BY <1>2, <2>1 DEF Bound
  <1>4. p[2].name = StableNames[n]
    BY <1>1 DEF Named
  <1>5. QED BY <1>1, <1>2, <1>3, <1>4

\* What a step of somebody else makes of attempt b: its view of the jobs may be
\* stale from now on.
Watches(b) ==
  /\ attempt'[b].stale \in BOOLEAN
  /\ attempt'[b] = [attempt[b] EXCEPT !.stale = attempt'[b].stale]
  /\ attempt[b].stale => attempt'[b].stale
  /\ ~attempt'[b].stale /\ attempt[b].pc # "idle" => jobs' = jobs

\* Attempt a becomes me while the others watch.
Moves(a, me) ==
  /\ attempt'[a] = me
  /\ \A b \in Attempt \ {a} : Watches(b)

\* The two ways the actions write an attempt.
LEMMA AttemptWrites ==
  ASSUME TypeOK, NEW a \in Attempt, NEW me
  PROVE  /\ Becomes(a, me) /\ UNCHANGED jobs => Moves(a, me)
         /\ \A js : Acts(a, me, js) => Moves(a, me) /\ jobs' = js
  <1>1. ASSUME NEW b \in Attempt PROVE attempt[b] \in AttemptState /\ attempt[b].stale \in BOOLEAN
    BY AttemptStateIs DEF TypeOK
  <1>2. ASSUME Becomes(a, me), UNCHANGED jobs PROVE Moves(a, me)
    <2>1. ASSUME NEW b \in Attempt \ {a} PROVE Watches(b)
      <3>1. attempt'[b] = attempt[b]
        BY <1>2 DEF Becomes, TypeOK
      <3>2. attempt[b] = [attempt[b] EXCEPT !.stale = attempt[b].stale]
        BY <1>1, AttemptStateIs
      <3>3. QED BY <1>1, <1>2, <3>1, <3>2 DEF Watches
    <2>2. QED BY <1>2, <2>1 DEF Becomes, TypeOK, Moves
  <1>3. ASSUME NEW js, Acts(a, me, js) PROVE Moves(a, me) /\ jobs' = js
    <2>1. ASSUME NEW b \in Attempt \ {a} PROVE Watches(b)
      <3> DEFINE stale == attempt[b].stale \/ (js # jobs /\ attempt[b].pc # "idle")
      <3>1. attempt'[b] = [attempt[b] EXCEPT !.stale = stale] /\ jobs' = js
        BY <1>3 DEF Acts
      <3>2. attempt'[b].stale = stale
        BY <1>1, <3>1, AttemptStateIs
      <3>3. QED BY <3>1, <3>2 DEF Watches
    <2>2. QED BY <1>3, <2>1 DEF Acts, Moves
  <1>4. QED BY <1>2, <1>3

\* All that a watching attempt may lose is a fresh view.
LEMMA WatchesKeeps ==
  ASSUME TypeOK, NEW b \in Attempt, Watches(b)
  PROVE  /\ attempt'[b] \in AttemptState
         /\ attempt'[b].pc = attempt[b].pc /\ attempt'[b].op = attempt[b].op
         /\ attempt'[b].snapshot = attempt[b].snapshot
         /\ attempt'[b].expected = attempt[b].expected
         /\ attempt'[b].previous = attempt[b].previous
         /\ attempt'[b].step = attempt[b].step /\ attempt'[b].created = attempt[b].created
         /\ attempt'[b].result = attempt[b].result
         /\ Placed(attempt[b]) => Placed(attempt'[b])
  <1>1. attempt[b] \in AttemptState
    BY DEF TypeOK
  <1>2. /\ attempt'[b] \in AttemptState
        /\ attempt'[b].pc = attempt[b].pc /\ attempt'[b].op = attempt[b].op
        /\ attempt'[b].snapshot = attempt[b].snapshot
        /\ attempt'[b].expected = attempt[b].expected
        /\ attempt'[b].previous = attempt[b].previous
        /\ attempt'[b].step = attempt[b].step /\ attempt'[b].created = attempt[b].created
        /\ attempt'[b].result = attempt[b].result
    BY <1>1, AttemptStateIs DEF Watches
  <1>3. QED BY <1>2 DEF Placed

\* The types hold after a step that moves one attempt to a state that is typed
\* and placed.
LEMMA MovesTyped ==
  ASSUME InstallTyped, NEW a \in Attempt, NEW me \in AttemptState, Placed(me), Moves(a, me),
         Becomes(a, me) \/ \E js : Acts(a, me, js)
  PROVE  /\ attempt' \in [Attempt -> AttemptState]
         /\ \A b \in Attempt : Placed(attempt'[b])
  <1>0. TypeOK
    BY DEF InstallTyped
  <1>1. ASSUME NEW b \in Attempt PROVE attempt'[b] \in AttemptState /\ Placed(attempt'[b])
    BY <1>0, WatchesKeeps DEF Moves, InstallTyped
  <1>2. attempt' = [b \in Attempt |-> attempt'[b]]
    BY <1>0 DEF Becomes, Acts, TypeOK
  <1>3. QED BY <1>1, <1>2

\* The jobs with n identifiers given out are typed.
JobsOK(js, n) ==
  /\ js \in [1..MaxJobs -> Job]
  /\ \A i \in 1..MaxJobs : js[i] # NoJob => i <= n /\ js[i].name # "none"

\* The calls of the cronjob tool keep the types of the jobs.
LEMMA JobWrites ==
  ASSUME NEW n \in 0..MaxJobs, JobsOK(jobs, n), NEW i \in 1..MaxJobs
  PROVE  /\ JobsOK([jobs EXCEPT ![i] = NoJob], n)
         /\ jobs[i] # NoJob =>
              /\ \A release \in {"prior", "planned"} :
                   LET new == Updated(i, release)[i] IN
                   /\ JobsOK(Updated(i, release), n)
                   /\ \A k \in 1..MaxJobs \ {i} : Updated(i, release)[k] = jobs[k]
                   /\ new = [name |-> jobs[i].name, release |-> release, edited |-> FALSE,
                             state |-> jobs[i].state]
              /\ \A state \in {"paused", "scheduled"} :
                   JobsOK([jobs EXCEPT ![i].state = state], n)
              /\ JobsOK([jobs EXCEPT ![i].edited = TRUE], n)
         /\ n < MaxJobs => \A m \in 1..2 :
              JobsOK([jobs EXCEPT ![n + 1] = JobOf(StableNames[m], "planned", "scheduled")], n + 1)
  <1>0. MaxJobs \in Nat /\ NoJob.name = "none"
    BY InstallAssumption DEF NoJob
  <1>1. JobsOK([jobs EXCEPT ![i] = NoJob], n)
    BY JobsTyped DEF JobsOK
  <1>2. ASSUME jobs[i] # NoJob, NEW release \in {"prior", "planned"}
        PROVE  LET new == Updated(i, release)[i] IN
                   /\ JobsOK(Updated(i, release), n)
                   /\ \A k \in 1..MaxJobs \ {i} : Updated(i, release)[k] = jobs[k]
                   /\ new = [name |-> jobs[i].name, release |-> release, edited |-> FALSE,
                             state |-> jobs[i].state]
    <2> DEFINE new == [jobs[i] EXCEPT !.release = release, !.edited = FALSE]
    <2>1. Updated(i, release) = [jobs EXCEPT ![i] = new]
      BY DEF Updated
    <2>2. /\ new \in Job /\ new.name = jobs[i].name
          /\ new = [name |-> jobs[i].name, release |-> release, edited |-> FALSE,
                    state |-> jobs[i].state]
      <3>1. jobs[i] \in Job
        BY DEF JobsOK
      <3>2. new \in Job /\ new.name = jobs[i].name
        BY <3>1 DEF Job
      <3>3. new = [name |-> jobs[i].name, release |-> release, edited |-> FALSE,
                   state |-> jobs[i].state]
        BY <3>1, JobFields
      <3>4. QED BY <3>2, <3>3
    <2> HIDE DEF new
    <2>3. QED BY <1>0, <1>2, <2>1, <2>2 DEF JobsOK
  <1>3. ASSUME jobs[i] # NoJob, NEW state \in {"paused", "scheduled"}
        PROVE  JobsOK([jobs EXCEPT ![i].state = state], n)
    <2> DEFINE new == [jobs[i] EXCEPT !.state = state]
    <2>1. new \in Job /\ new.name = jobs[i].name
      BY DEF JobsOK, Job
    <2> HIDE DEF new
    <2>2. JobsOK([jobs EXCEPT ![i] = new], n)
      BY <1>0, <1>3, <2>1 DEF JobsOK
    <2>3. QED BY <2>2 DEF new
  <1>4. ASSUME jobs[i] # NoJob
        PROVE  JobsOK([jobs EXCEPT ![i].edited = TRUE], n)
    <2> DEFINE new == [jobs[i] EXCEPT !.edited = TRUE]
    <2>1. new \in Job /\ new.name = jobs[i].name
      BY DEF JobsOK, Job
    <2> HIDE DEF new
    <2>2. JobsOK([jobs EXCEPT ![i] = new], n)
      BY <1>0, <1>4, <2>1 DEF JobsOK
    <2>3. QED BY <2>2 DEF new
  <1>5. ASSUME n < MaxJobs, NEW m \in 1..2
        PROVE  JobsOK([jobs EXCEPT ![n + 1] = JobOf(StableNames[m], "planned", "scheduled")], n + 1)
    <2> DEFINE new == JobOf(StableNames[m], "planned", "scheduled")
    <2>1. new \in Job /\ new.name # "none"
      BY JobsTyped, Names
    <2> HIDE DEF new
    <2>2. n + 1 \in 1..MaxJobs
      BY <1>0, <1>5
    <2>3. JobsOK([jobs EXCEPT ![n + 1] = new], n + 1)
      BY <1>0, <2>1, <2>2 DEF JobsOK
    <2>4. QED BY <2>3 DEF new
  <1>6. QED BY <1>1, <1>2, <1>3, <1>4, <1>5

\* The steps before the executor: planning and staging.
LEMMA StageTyped ==
  ASSUME InstallTyped, NEW a \in Attempt,
         Plan(a) \/ StageStart(a) \/ StageWrite(a) \/ StageFail(a) \/ StageRestore(a)
  PROVE  InstallTyped'
  <1> DEFINE me == attempt[a]
  <1>0. /\ TypeOK /\ me \in AttemptState /\ Placed(me)
        /\ files \in [File -> Content] /\ a \in Content
    BY DEF InstallTyped, TypeOK, Content
  <1>1. ASSUME NEW new \in AttemptState, Placed(new), Becomes(a, new),
               files' \in [File -> Content], UNCHANGED <<jobs, issued, resumed, changes>>
        PROVE  InstallTyped'
    <2>1. /\ attempt' \in [Attempt -> AttemptState]
          /\ \A b \in Attempt : Placed(attempt'[b])
      BY <1>0, <1>1, AttemptWrites, MovesTyped
    <2>2. QED BY <1>0, <1>1, <2>1 DEF InstallTyped, TypeOK, Placed
  <1>2. /\ {"planned", "write", "start", "restore", "done"} \subseteq Place /\ 1 \in Step
        /\ Visible \in Views /\ "install" \in Op /\ "upgrade" \in Op
    BY <1>0, ViewTyped DEF Place, Step, Views, Op, Staging, Executing, Visible, TypeOK
  <1>3. ASSUME Plan(a) PROVE InstallTyped'
    <2>1. PICK op \in {"install", "upgrade"} :
            /\ Plannable(op, Visible)
            /\ Becomes(a, [AttemptIdle EXCEPT !.pc = "planned", !.op = op, !.snapshot = Visible])
      BY <1>3 DEF Plan
    <2> DEFINE new == [AttemptIdle EXCEPT !.pc = "planned", !.op = op, !.snapshot = Visible]
    <2>2. new \in AttemptState
      BY <1>2, JobsTyped, AttemptStateIs DEF Op
    <2>3. Placed(new)
      BY <2>1 DEF Placed, AttemptIdle, Executing
    <2> HIDE DEF new
    <2>4. Becomes(a, new)
      BY <2>1 DEF new
    <2>5. QED BY <1>0, <1>1, <1>3, <2>2, <2>3, <2>4 DEF Plan
  <1>4. ASSUME StageStart(a) PROVE InstallTyped'
    <2> DEFINE new == [me EXCEPT !.pc = "write", !.previous = files]
    <2>1. new \in AttemptState
      BY <1>0, <1>2, AttemptStateIs DEF Before
    <2>2. Placed(new)
      BY <1>0, <1>4, AttemptStateIs DEF StageStart, Placed, Executing
    <2>3. Becomes(a, new) /\ UNCHANGED <<files, jobs, issued, resumed, changes>>
      BY <1>4 DEF StageStart
    <2> HIDE DEF new
    <2>4. QED BY <1>0, <1>1, <2>1, <2>2, <2>3
  <1>5. ASSUME StageWrite(a) PROVE InstallTyped'
    <2>1. files' \in [File -> Content]
      BY <1>0, <1>5 DEF StageWrite
    <2>2. ASSUME me.step < 3, Becomes(a, [me EXCEPT !.step = @ + 1]) PROVE InstallTyped'
      <3> DEFINE new == [me EXCEPT !.step = me.step + 1]
      <3>1. me.step + 1 \in Step
        BY <1>0, <2>2, AttemptStateIs DEF Step
      <3>2. new \in AttemptState
        BY <1>0, <3>1, AttemptStateIs
      <3>3. Placed(new)
        BY <1>0, <1>5, AttemptStateIs DEF StageWrite, Placed, Executing
      <3>4. Becomes(a, new) /\ UNCHANGED <<jobs, issued, resumed, changes>>
        BY <1>5, <2>2 DEF StageWrite
      <3> HIDE DEF new
      <3>5. QED BY <1>1, <2>1, <3>2, <3>3, <3>4
    <2>3. ASSUME Becomes(a, [me EXCEPT !.pc = "start", !.step = 1,
                                       !.previous = AttemptIdle.previous])
          PROVE  InstallTyped'
      <3> DEFINE new == [me EXCEPT !.pc = "start", !.step = 1, !.previous = AttemptIdle.previous]
      <3>1. AttemptIdle.previous \in Before
        BY JobsTyped, AttemptStateIs
      <3>2. new \in AttemptState
        BY <1>0, <1>2, <3>1, AttemptStateIs
      <3>3. Placed(new)
        BY <1>0, <1>5, AttemptStateIs DEF StageWrite, Placed, Executing
      <3>4. Becomes(a, new) /\ UNCHANGED <<jobs, issued, resumed, changes>>
        BY <1>5, <2>3 DEF StageWrite
      <3> HIDE DEF new
      <3>5. QED BY <1>1, <2>1, <3>2, <3>3, <3>4
    <2>4. QED BY <1>5, <2>2, <2>3 DEF StageWrite
  <1>6. ASSUME StageFail(a) PROVE InstallTyped'
    <2> DEFINE new == [me EXCEPT !.pc = "restore"]
    <2>1. files' \in [File -> Content]
      BY <1>0, <1>6 DEF StageFail
    <2>2. new \in AttemptState
      BY <1>0, <1>2, AttemptStateIs
    <2>3. Placed(new)
      BY <1>0, <1>6, AttemptStateIs DEF StageFail, Placed, Executing
    <2>4. Becomes(a, new) /\ UNCHANGED <<jobs, issued, resumed, changes>>
      BY <1>6 DEF StageFail
    <2> HIDE DEF new
    <2>5. QED BY <1>1, <2>1, <2>2, <2>3, <2>4
  <1>7. ASSUME StageRestore(a) PROVE InstallTyped'
    <2>1. PICK stuck \in SUBSET File :
            /\ files' = [f \in File |-> IF f \in stuck THEN files[f] ELSE Restored(a, f)]
            /\ Becomes(a, Ended(me, IF stuck = {} THEN "stage_failed"
                                    ELSE "stage_rollback_failed"))
      BY <1>7 DEF StageRestore
    <2>2. files' \in [File -> Content]
      BY <1>0, <2>1, AttemptStateIs DEF Restored, Before
    <2>3. ASSUME NEW result \in Result PROVE Ended(me, result) \in AttemptState
                                              /\ Placed(Ended(me, result))
      BY <1>0, <1>7, AttemptFields DEF Placed, Executing, StageRestore
    <2>4. \E result \in Result : Becomes(a, Ended(me, result))
      BY <2>1 DEF Result
    <2>5. QED BY <1>1, <1>7, <2>2, <2>3, <2>4 DEF StageRestore
  <1>8. QED BY <1>3, <1>4, <1>5, <1>6, <1>7

\* The executor's steps that only look, and a process that dies.
LEMMA LookTyped ==
  ASSUME InstallTyped, NEW a \in Attempt,
         \/ ExecStart(a) \/ ExecCreated(a) \/ ExecSettled(a) \/ ExecVerify(a) \/ ExecFinal(a)
         \/ Crash(a)
  PROVE  InstallTyped'
  <1> DEFINE me == attempt[a]
  <1>0. TypeOK /\ me \in AttemptState /\ Placed(me) /\ me.pc # "idle"
    BY DEF InstallTyped, TypeOK, ExecStart, ExecCreated, ExecSettled, ExecVerify, ExecFinal, Crash,
       Staging, Executing
  <1>1. ASSUME NEW new \in AttemptState, Placed(new), Becomes(a, new) PROVE InstallTyped'
    <2>1. UNCHANGED <<files, jobs, issued, resumed, changes>>
      BY DEF ExecStart, ExecCreated, ExecSettled, ExecVerify, ExecFinal, Crash
    <2>2. /\ attempt' \in [Attempt -> AttemptState]
          /\ \A b \in Attempt : Placed(attempt'[b])
      BY <1>0, <1>1, <2>1, AttemptWrites, MovesTyped
    <2>3. QED BY <1>0, <1>1, <2>1, <2>2 DEF InstallTyped, TypeOK, Placed
  <1>2. /\ {"call", "pause", "verify"} \subseteq Place /\ 2 \in Step /\ me.snapshot \in Views
        /\ FALSE \in BOOLEAN /\ me.stale \in BOOLEAN /\ me.op \in Op
    BY <1>0, AttemptStateIs DEF Place, Step, Staging, Executing
  <1>3. ASSUME NEW result \in Result, NEW old \in AttemptState, old.snapshot = me.snapshot,
               old.op = me.op
        PROVE  Ended(old, result) \in AttemptState /\ Placed(Ended(old, result))
    BY <1>0, <1>3, AttemptFields DEF Placed, Executing
  <1>4. Failing(me) \in AttemptState /\ Placed(Failing(me))
    BY <1>0, AttemptFields DEF Placed, Executing
  <1>5. CASE ExecStart(a)
    <2> DEFINE ready == [me EXCEPT !.pc = "call", !.expected = me.snapshot, !.stale = FALSE]
               kept  == [ready EXCEPT !.stale = me.stale]
    <2>1. ready \in AttemptState /\ kept \in AttemptState
      BY <1>0, <1>2, AttemptStateIs
    <2>2. /\ ready.pc = "call" /\ kept.pc = "call"
          /\ ready.step = me.step /\ kept.step = me.step
          /\ ready.op = me.op /\ kept.op = me.op
          /\ ready.snapshot = me.snapshot /\ kept.snapshot = me.snapshot
      BY <1>0, AttemptStateIs
    <2>3. Placed(ready) /\ Placed(kept)
      BY <1>0, <1>5, <2>2 DEF Placed, ExecStart, Executing
    <2>4. Becomes(a, kept) \/ Becomes(a, ready) \/ Becomes(a, Ended(me, "refused"))
      BY <1>5 DEF ExecStart
    <2> HIDE DEF ready, kept
    <2>5. "refused" \in Result
      BY DEF Result
    <2>6. QED BY <1>0, <1>1, <1>3, <2>1, <2>3, <2>4, <2>5
  <1>6. CASE ExecCreated(a)
    <2> DEFINE new == [me EXCEPT !.pc = "pause", !.stale = FALSE]
    <2>1. Becomes(a, new) \/ Becomes(a, Failing(me))
      <3>1. Becomes(a, [[me EXCEPT !.pc = "pause"] EXCEPT !.stale = FALSE])
              \/ Becomes(a, Failing(me))
        BY <1>6 DEF ExecCreated, Reads
      <3>2. [[me EXCEPT !.pc = "pause"] EXCEPT !.stale = FALSE] = new
        BY <1>0, AttemptStateIs
      <3>3. QED BY <3>1, <3>2
    <2>2. new \in AttemptState
      BY <1>0, <1>2, AttemptStateIs
    <2>3. Placed(new)
      BY <1>0, <1>6, AttemptStateIs DEF ExecCreated, Placed, Executing
    <2> HIDE DEF new
    <2>4. QED BY <1>1, <1>4, <2>1, <2>2, <2>3
  <1>7. CASE ExecSettled(a)
    <2> DEFINE next == [me EXCEPT !.pc = "call", !.step = 2, !.stale = FALSE]
               last == [me EXCEPT !.pc = "verify", !.stale = FALSE]
    <2>1. Becomes(a, next) \/ Becomes(a, last) \/ Becomes(a, Failing(me))
      <3>1. \/ Becomes(a, [[me EXCEPT !.pc = "call", !.step = 2] EXCEPT !.stale = FALSE])
            \/ Becomes(a, [[me EXCEPT !.pc = "verify"] EXCEPT !.stale = FALSE])
            \/ Becomes(a, Failing(me))
        BY <1>7 DEF ExecSettled, Reads
      <3>2. /\ [[me EXCEPT !.pc = "call", !.step = 2] EXCEPT !.stale = FALSE] = next
            /\ [[me EXCEPT !.pc = "verify"] EXCEPT !.stale = FALSE] = last
        BY <1>0, AttemptStateIs
      <3>3. QED BY <3>1, <3>2
    <2>2. next \in AttemptState /\ last \in AttemptState
      BY <1>0, <1>2, AttemptStateIs
    <2>3. Placed(next) /\ Placed(last)
      BY <1>0, <1>7, AttemptStateIs DEF ExecSettled, Placed, Executing
    <2> HIDE DEF next, last
    <2>4. QED BY <1>1, <1>4, <2>1, <2>2, <2>3
  <1>8. CASE ExecVerify(a)
    <2>1. "applied_paused" \in Result
      BY DEF Result
    <2>2. QED BY <1>0, <1>1, <1>3, <1>4, <1>8, <2>1 DEF ExecVerify
  <1>9. CASE ExecFinal(a)
    <2> DEFINE old == [me EXCEPT !.stale = FALSE]
    <2>1. old \in AttemptState /\ old.snapshot = me.snapshot /\ old.op = me.op
      BY <1>0, <1>2, AttemptStateIs
    <2>2. Becomes(a, Ended(old, "rolled_back")) \/ Becomes(a, Ended(old, "rollback_failed"))
      BY <1>9 DEF ExecFinal
    <2>3. "rolled_back" \in Result /\ "rollback_failed" \in Result
      BY DEF Result
    <2> HIDE DEF old
    <2>4. QED BY <1>1, <1>3, <2>1, <2>2, <2>3
  <1>10. CASE Crash(a)
    <2>1. "stage_crashed" \in Result /\ "crashed" \in Result
      BY DEF Result
    <2>2. QED BY <1>0, <1>1, <1>3, <1>10, <2>1 DEF Crash
  <1>11. QED BY <1>5, <1>6, <1>7, <1>8, <1>9, <1>10

\* The executor's calls.
LEMMA CallTyped ==
  ASSUME InstallTyped, NEW a \in Attempt,
         ExecCreate(a) \/ ExecUpdate(a) \/ ExecPause(a) \/ RollbackRemove(a) \/ RollbackUpdate(a)
  PROVE  InstallTyped'
  <1> DEFINE me == attempt[a]
             n  == me.step
  <1>0. /\ TypeOK /\ me \in AttemptState /\ Placed(me) /\ me.pc # "idle" /\ n \in 1..2
        /\ MaxJobs \in Nat /\ issued \in 0..MaxJobs /\ JobsOK(jobs, issued)
    BY InstallAssumption
    DEF InstallTyped, TypeOK, JobsOK, Placed, ExecCreate, ExecUpdate, ExecPause, RollbackRemove,
        RollbackUpdate, Executing
  <1>1. ASSUME NEW new \in AttemptState, Placed(new), JobsOK(jobs', issued'),
               Acts(a, new, jobs') \/ (Becomes(a, new) /\ UNCHANGED jobs),
               issued' \in 0..MaxJobs, resumed' \subseteq 1..MaxJobs
        PROVE  InstallTyped'
    <2>1. UNCHANGED <<files, changes>>
      BY DEF ExecCreate, ExecUpdate, ExecPause, RollbackRemove, RollbackUpdate
    <2>2. /\ attempt' \in [Attempt -> AttemptState]
          /\ \A b \in Attempt : Placed(attempt'[b])
      BY <1>0, <1>1, AttemptWrites, MovesTyped
    <2>3. QED BY <1>0, <1>1, <2>1, <2>2 DEF InstallTyped, TypeOK, Placed, JobsOK
  <1>2. Failing(me) \in AttemptState /\ Placed(Failing(me))
    BY <1>0, AttemptFields DEF Placed, Executing
  <1>3. ASSUME NEW ok \in BOOLEAN
        PROVE  RolledBack(me, ok) \in AttemptState /\ Placed(RolledBack(me, ok))
    BY <1>0, AttemptFields DEF Placed, Executing
  <1>4. "created" \in Place /\ "settled" \in Place
    BY DEF Place, Executing
  <1>5. CASE ExecCreate(a)
    <2> DEFINE id  == issued + 1
               job == JobOf(StableNames[n], "planned", "scheduled")
               new == [me EXCEPT !.pc = "created", !.created[n] = id,
                                 !.expected = me.expected \cup {<<id, job>>}]
    <2>1. /\ resumed' = resumed
          /\ \/ /\ issued < MaxJobs /\ issued' = id
                /\ \E new2 \in {new, Failing(me)} : Acts(a, new2, [jobs EXCEPT ![id] = job])
             \/ Becomes(a, Failing(me)) /\ UNCHANGED <<jobs, issued>>
      BY <1>5 DEF ExecCreate
    <2>2. CASE Becomes(a, Failing(me)) /\ UNCHANGED <<jobs, issued>>
      BY <1>0, <1>1, <1>2, <2>1, <2>2 DEF TypeOK
    <2>3. ASSUME issued < MaxJobs, issued' = id, NEW new2 \in {new, Failing(me)},
                 Acts(a, new2, [jobs EXCEPT ![id] = job])
          PROVE  InstallTyped'
      <3>1. id \in 1..MaxJobs /\ job \in Job
        BY <1>0, <2>3, JobsTyped
      <3>2. [me.created EXCEPT ![n] = id] \in Issued
        BY <1>0, <3>1, AttemptStateIs DEF Issued
      <3>3. me.expected \cup {<<id, job>>} \in Views
        BY <1>0, <3>1, AttemptStateIs DEF Views
      <3>4. new = [me EXCEPT !.pc = "created", !.created = [me.created EXCEPT ![n] = id],
                             !.expected = me.expected \cup {<<id, job>>}]
        BY <1>0, AttemptStateIs
      <3>5. new \in AttemptState
        BY <1>0, <1>4, <3>2, <3>3, <3>4, AttemptStateIs
      <3>6. /\ new.pc = "created" /\ new.step = me.step /\ new.op = me.op
            /\ new.snapshot = me.snapshot /\ new.created[n] = id
        <4>1. me.created \in [1..2 -> 0..MaxJobs]
          BY <1>0, AttemptStateIs DEF Issued
        <4>2. QED BY <1>0, <3>4, <4>1, AttemptStateIs
      <3>7. Placed(new)
        BY <1>0, <1>5, <3>1, <3>6 DEF ExecCreate, Placed, Executing
      <3>8. JobsOK([jobs EXCEPT ![id] = job], id)
        BY <1>0, <2>3, JobWrites, <3>1
      <3> HIDE DEF new, id, job
      <3>9. jobs' = [jobs EXCEPT ![id] = job]
        BY <2>3 DEF Acts
      <3>10. new2 \in AttemptState /\ Placed(new2) /\ id \in 0..MaxJobs
        BY <1>2, <2>3, <3>1, <3>5, <3>7
      <3>11. QED BY <1>0, <1>1, <2>1, <2>3, <3>8, <3>9, <3>10 DEF TypeOK
    <2>4. QED BY <2>1, <2>2, <2>3
  <1>6. CASE ExecUpdate(a)
    <2> DEFINE i   == Bound(me, n)
               job == JobOf(StableNames[n], "planned", "paused")
               new == [me EXCEPT !.pc = "settled",
                                 !.expected = {p \in me.expected : p[1] # i} \cup {<<i, job>>}]
    <2>0. i \in 1..MaxJobs
      BY <1>0, <1>6, BoundIsNamed DEF ExecUpdate, Placed
    <2>1. /\ UNCHANGED <<resumed, issued>>
          /\ \/ /\ jobs[i] # NoJob
                /\ \E new2 \in {new, Failing(me)} : Acts(a, new2, Updated(i, "planned"))
             \/ Becomes(a, Failing(me)) /\ UNCHANGED jobs
      BY <1>6 DEF ExecUpdate
    <2>2. new \in AttemptState
      <3>1. {p \in me.expected : p[1] # i} \cup {<<i, job>>} \in Views
        BY <1>0, <2>0, JobsTyped, AttemptStateIs DEF Views
      <3>2. QED BY <1>0, <1>4, <3>1, AttemptStateIs
    <2>3. Placed(new)
      <3>1. new.pc = "settled" /\ new.step = n /\ new.op = me.op /\ new.snapshot = me.snapshot
        BY <1>0, AttemptStateIs
      <3>2. QED BY <1>0, <3>1 DEF Placed
    <2> HIDE DEF new, i
    <2>4. ASSUME jobs[i] # NoJob, NEW new2 \in {new, Failing(me)},
                 Acts(a, new2, Updated(i, "planned"))
          PROVE  InstallTyped'
      <3>1. JobsOK(Updated(i, "planned"), issued)
        BY <1>0, <2>0, <2>4, JobWrites
      <3>2. jobs' = Updated(i, "planned")
        BY <2>4 DEF Acts
      <3>3. new2 \in AttemptState /\ Placed(new2)
        BY <1>2, <2>2, <2>3, <2>4
      <3>4. QED BY <1>0, <1>1, <2>1, <2>4, <3>1, <3>2, <3>3 DEF TypeOK
    <2>5. CASE Becomes(a, Failing(me)) /\ UNCHANGED jobs
      BY <1>0, <1>1, <1>2, <2>1, <2>5 DEF TypeOK
    <2>6. QED BY <2>1, <2>4, <2>5
  <1>7. CASE ExecPause(a)
    <2> DEFINE i   == me.created[n]
               job == JobOf(StableNames[n], "planned", "paused")
               new == [me EXCEPT !.pc = "settled",
                                 !.expected = {p \in me.expected : p[1] # i} \cup {<<i, job>>}]
    <2>0. i \in 1..MaxJobs
      BY <1>0, <1>7 DEF ExecPause, Placed
    <2>1. /\ UNCHANGED issued
          /\ \/ /\ jobs[i] # NoJob /\ resumed' = resumed \ {i}
                /\ \E new2 \in {new, Failing(me)} :
                     Acts(a, new2, [jobs EXCEPT ![i].state = "paused"])
             \/ Becomes(a, Failing(me)) /\ UNCHANGED <<jobs, resumed>>
      BY <1>7 DEF ExecPause
    <2>2. new \in AttemptState
      <3>1. {p \in me.expected : p[1] # i} \cup {<<i, job>>} \in Views
        BY <1>0, <2>0, JobsTyped, AttemptStateIs DEF Views
      <3>2. QED BY <1>0, <1>4, <3>1, AttemptStateIs
    <2>3. Placed(new)
      <3>1. new.pc = "settled" /\ new.step = n /\ new.op = me.op /\ new.snapshot = me.snapshot
        BY <1>0, AttemptStateIs
      <3>2. QED BY <1>0, <3>1 DEF Placed
    <2> HIDE DEF new, i
    <2>4. ASSUME jobs[i] # NoJob, NEW new2 \in {new, Failing(me)}, resumed' = resumed \ {i},
                 Acts(a, new2, [jobs EXCEPT ![i].state = "paused"])
          PROVE  InstallTyped'
      <3>1. JobsOK([jobs EXCEPT ![i].state = "paused"], issued)
        BY <1>0, <2>0, <2>4, JobWrites
      <3>2. jobs' = [jobs EXCEPT ![i].state = "paused"]
        BY <2>4 DEF Acts
      <3>3. new2 \in AttemptState /\ Placed(new2)
        BY <1>2, <2>2, <2>3, <2>4
      <3>4. QED BY <1>0, <1>1, <2>1, <2>4, <3>1, <3>2, <3>3 DEF TypeOK
    <2>5. CASE Becomes(a, Failing(me)) /\ UNCHANGED <<jobs, resumed>>
      BY <1>0, <1>1, <1>2, <2>1, <2>5 DEF TypeOK
    <2>6. QED BY <2>1, <2>4, <2>5
  <1>8. CASE RollbackRemove(a)
    <2> DEFINE i == me.created[n]
    <2>1. i \in 0..MaxJobs
      BY <1>0, AttemptStateIs DEF Issued
    <2>2. /\ UNCHANGED issued
          /\ \/ \E ok \in BOOLEAN : Becomes(a, RolledBack(me, ok)) /\ UNCHANGED <<jobs, resumed>>
             \/ /\ i # 0 /\ resumed' = resumed \ {i}
                /\ \E ok \in BOOLEAN : Acts(a, RolledBack(me, ok), [jobs EXCEPT ![i] = NoJob])
      BY <1>8 DEF RollbackRemove
    <2> HIDE DEF i
    <2>3. ASSUME NEW ok \in BOOLEAN, Becomes(a, RolledBack(me, ok)), UNCHANGED <<jobs, resumed>>
          PROVE  InstallTyped'
      BY <1>0, <1>1, <1>3, <2>2, <2>3 DEF TypeOK
    <2>4. ASSUME NEW ok \in BOOLEAN, i # 0, resumed' = resumed \ {i},
                 Acts(a, RolledBack(me, ok), [jobs EXCEPT ![i] = NoJob])
          PROVE  InstallTyped'
      <3>1. jobs' = [jobs EXCEPT ![i] = NoJob]
        BY <2>4 DEF Acts
      <3>2. i \in 1..MaxJobs
        BY <1>0, <2>1, <2>4
      <3>3. JobsOK(jobs', issued')
        BY <1>0, <2>2, <3>1, <3>2, JobWrites
      <3>4. QED BY <1>0, <1>1, <1>3, <2>2, <2>4, <3>1, <3>3 DEF TypeOK
    <2>5. QED BY <2>2, <2>3, <2>4
  <1>9. CASE RollbackUpdate(a)
    <2> DEFINE i == Bound(me, n)
    <2>1. i \in 1..MaxJobs
      BY <1>0, <1>9, BoundIsNamed DEF RollbackUpdate, Placed
    <2>2. /\ UNCHANGED <<resumed, issued>>
          /\ \/ \E ok \in BOOLEAN : Becomes(a, RolledBack(me, ok)) /\ UNCHANGED jobs
             \/ /\ jobs[i] # NoJob
                /\ \E ok \in BOOLEAN : Acts(a, RolledBack(me, ok), Updated(i, "prior"))
      BY <1>9 DEF RollbackUpdate
    <2> HIDE DEF i
    <2>3. ASSUME NEW ok \in BOOLEAN, Becomes(a, RolledBack(me, ok)), UNCHANGED jobs
          PROVE  InstallTyped'
      BY <1>0, <1>1, <1>3, <2>2, <2>3 DEF TypeOK
    <2>4. ASSUME NEW ok \in BOOLEAN, jobs[i] # NoJob,
                 Acts(a, RolledBack(me, ok), Updated(i, "prior"))
          PROVE  InstallTyped'
      <3>1. jobs' = Updated(i, "prior")
        BY <2>4 DEF Acts
      <3>2. JobsOK(jobs', issued')
        BY <1>0, <2>1, <2>2, <2>4, <3>1, JobWrites
      <3>3. QED BY <1>0, <1>1, <1>3, <2>2, <2>4, <3>1, <3>2 DEF TypeOK
    <2>5. QED BY <2>2, <2>3, <2>4
  <1>10. QED BY <1>5, <1>6, <1>7, <1>8, <1>9

\* A step of the operator leaves every attempt where it is.
LEMMA OperateWatches ==
  ASSUME TypeOK, Operate
  PROVE  /\ \A b \in Attempt : Watches(b)
         /\ attempt' = [b \in Attempt |-> attempt'[b]]
  <1>1. ASSUME NEW b \in Attempt PROVE attempt[b] \in AttemptState /\ attempt[b].stale \in BOOLEAN
    BY AttemptStateIs DEF TypeOK
  <1>2. ASSUME NEW js, Disturb(js) PROVE \A b \in Attempt : Watches(b)
    <2> SUFFICES ASSUME NEW b \in Attempt PROVE Watches(b)
      OBVIOUS
    <2> DEFINE stale == attempt[b].stale \/ attempt[b].pc # "idle"
    <2>1. attempt'[b] = [attempt[b] EXCEPT !.stale = stale]
      BY <1>2 DEF Disturb
    <2>2. attempt'[b].stale = stale
      BY <1>1, <2>1, AttemptStateIs
    <2>3. QED BY <2>1, <2>2 DEF Watches
  <1>3. ASSUME UNCHANGED <<jobs, attempt>> PROVE \A b \in Attempt : Watches(b)
    <2>1. \A b \in Attempt : attempt[b] = [attempt[b] EXCEPT !.stale = attempt[b].stale]
      BY <1>1, AttemptStateIs
    <2>2. QED BY <1>1, <1>3, <2>1 DEF Watches
  <1>4. (\E js : Disturb(js)) \/ UNCHANGED <<jobs, attempt>>
    BY DEF Operate, EnableJob, ChangeJob, ChangeFile
  <1>5. attempt' = [b \in Attempt |-> attempt'[b]]
    BY <1>4 DEF Disturb, TypeOK
  <1>6. QED BY <1>2, <1>3, <1>4, <1>5

\* The operator's steps are well typed.
LEMMA OperateTyped ==
  ASSUME InstallTyped, Operate
  PROVE  InstallTyped'
  <1>0. TypeOK /\ JobsOK(jobs, issued) /\ issued \in 0..MaxJobs /\ MaxChanges \in Nat
    BY InstallAssumption DEF InstallTyped, TypeOK, JobsOK
  <1>1. attempt' \in [Attempt -> AttemptState] /\ \A b \in Attempt : Placed(attempt'[b])
    <2>1. ASSUME NEW b \in Attempt PROVE attempt'[b] \in AttemptState /\ Placed(attempt'[b])
      BY <1>0, OperateWatches, WatchesKeeps DEF InstallTyped
    <2>2. QED BY <1>0, <2>1, OperateWatches
  <1>2. /\ JobsOK(jobs', issued) /\ issued' = issued
        /\ files' \in [File -> Content] /\ resumed' \subseteq 1..MaxJobs
        /\ changes' \in 0..MaxChanges
    <2>1. ASSUME NEW i \in 1..MaxJobs, EnableJob(i)
          PROVE  JobsOK(jobs', issued)
      BY <1>0, <2>1, JobWrites DEF EnableJob, Disturb
    <2>2. ASSUME NEW i \in 1..MaxJobs, ChangeJob(i)
          PROVE  JobsOK(jobs', issued)
      BY <1>0, <2>2, JobWrites DEF ChangeJob, Disturb
    <2>3. changes' \in 0..MaxChanges
      <3>1. changes' = changes \/ (changes < MaxChanges /\ changes' = changes + 1)
        BY DEF Operate, EnableJob, ChangeJob, ChangeFile
      <3>2. changes \in 0..MaxChanges
        BY <1>0 DEF TypeOK
      <3>3. QED BY <1>0, <3>1, <3>2
    <2>4. files' \in [File -> Content]
      BY <1>0 DEF TypeOK, Operate, EnableJob, ChangeJob, ChangeFile, Content
    <2>5. JobsOK(jobs', issued)
      BY <1>0, <2>1, <2>2 DEF Operate, ChangeFile
    <2>6. issued' = issued /\ resumed' \subseteq 1..MaxJobs
      <3>1. resumed \subseteq 1..MaxJobs
        BY <1>0 DEF TypeOK
      <3>2. QED BY <3>1 DEF Operate, EnableJob, ChangeJob, ChangeFile
    <2>7. QED BY <2>3, <2>4, <2>5, <2>6
  <1>3. QED BY <1>0, <1>1, <1>2 DEF InstallTyped, TypeOK, JobsOK, Placed

\* Every step of the installation keeps the types.
LEMMA InstallTypedNext == ASSUME InstallTyped, [InstallNext]_installVars PROVE InstallTyped'
  <1>1. CASE UNCHANGED installVars
    BY <1>1 DEF installVars, InstallTyped, TypeOK, Placed
  <1>2. QED BY <1>1, StageTyped, LookTyped, CallTyped, OperateTyped DEF InstallNext, Install

\* The initial states of the installation are typed.
LEMMA InstallTypedInit == ASSUME InstallInit PROVE InstallTyped
  <1>1. /\ MaxJobs \in Nat /\ MaxJobs >= 2 /\ MaxChanges \in Nat /\ 1..2 \subseteq 1..MaxJobs
        /\ NoFile \in Content /\ Prior \in Content
    BY InstallAssumption DEF Content
  <1>2. JobsOK(jobs, issued) /\ issued \in 0..MaxJobs
    <2>1. CASE jobs = [i \in 1..MaxJobs |-> NoJob] /\ issued = 0
      BY <1>1, <2>1, JobsTyped DEF JobsOK
    <2>2. CASE /\ jobs = [i \in 1..MaxJobs |->
                    IF i \in 1..2 THEN JobOf(StableNames[i], "prior", "paused") ELSE NoJob]
               /\ issued = 2
      <3>1. \A i \in 1..2 : /\ JobOf(StableNames[i], "prior", "paused") \in Job
                            /\ JobOf(StableNames[i], "prior", "paused").name # "none"
        BY JobsTyped, Names
      <3>2. QED BY <1>1, <2>2, <3>1, JobsTyped DEF JobsOK
    <2>3. QED BY <2>1, <2>2 DEF InstallInit
  <1>3. \A a \in Attempt : Placed(attempt[a])
    BY DEF InstallInit, Placed, AttemptIdle, Executing
  <1>4. QED BY <1>1, <1>2, <1>3, JobsTyped DEF InstallInit, InstallTyped, TypeOK, JobsOK

\* The inductive form of the types.
LEMMA InstallHolds == InstallSpec => []InstallTyped
  BY InstallTypedInit, InstallTypedNext, PTL DEF InstallSpec

\* Every reachable state of the installer is well typed: every identifier an
\* attempt addresses was given out, and no job without a name exists.
THEOREM InstallIsTyped == InstallSpec => []TypeOK
  <1>1. InstallTyped => TypeOK
    BY DEF InstallTyped
  <1>2. QED BY <1>1, InstallHolds, PTL

-----------------------------------------------------------------------------
(* The control of an attempt *)

\* The kinds of steps of an attempt, with what each does to the staged files.
\* It plans the jobs.
Plans(me, new) ==
  me.pc = "idle" /\ new.pc = "planned" /\ new.step = 1 /\ new.result = "none"

\* It takes the lock and remembers the files.
StartsStaging(me, new) ==
  /\ me.pc = "planned" /\ LockFree
  /\ new.pc = "write" /\ new.step = me.step /\ new.previous = files /\ new.result = me.result

\* It replaces one target, the last one included.
Writes(a, me, new) ==
  /\ me.pc = "write" /\ new.result = me.result
  /\ files' = [files EXCEPT ![Targets[me.step]] = a]
  /\ \/ me.step < 3 /\ new.pc = "write" /\ new.step = me.step + 1 /\ new.previous = me.previous
     \/ me.step = 3 /\ new.pc = "start" /\ new.step = 1

\* A write fails.
FailsStaging(me, new) ==
  /\ me.pc = "write"
  /\ new.pc = "restore" /\ new.previous = me.previous /\ new.result = me.result

\* It restores the files, or cannot.
GivesBack(a, me, new) ==
  /\ me.pc = "restore" /\ new.pc = "done"
  /\ \/ new.result = "stage_rollback_failed"
     \/ new.result = "stage_failed" /\ files' = me.previous

\* It dies with files half written.
DiesStaging(me, new) ==
  me.pc \in Staging /\ new.pc = "done" /\ new.result = "stage_crashed"

\* It works on the jobs.
Executes(me, new) ==
  /\ me.pc \in Executing
  /\ new.op = me.op /\ new.snapshot = me.snapshot
  /\ \/ new.pc \in Executing /\ new.result = me.result
     \/ new.pc = "done" /\ new.result \in {"refused", "crashed", "applied_paused", "rolled_back",
                                           "rollback_failed"}

\* The steps of an attempt.
AttemptStep(a, me, new) ==
  \/ (Plans(me, new) \/ StartsStaging(me, new) \/ DiesStaging(me, new) \/ Executes(me, new))
       /\ UNCHANGED files
  \/ Writes(a, me, new) \/ FailsStaging(me, new) \/ GivesBack(a, me, new)

\* Every step of an attempt is one of them, and the others watch.
LEMMA AttemptStepOf ==
  ASSUME InstallTyped, NEW a \in Attempt, Install(a)
  PROVE  /\ AttemptStep(a, attempt[a], attempt'[a])
         /\ \A b \in Attempt \ {a} : Watches(b)
  <1> DEFINE me == attempt[a]
             new == attempt'[a]
  <1>0. TypeOK /\ me \in AttemptState /\ Placed(me) /\ files \in [File -> Content]
    BY DEF InstallTyped, TypeOK
  <1>1. ASSUME NEW it, (Becomes(a, it) /\ UNCHANGED jobs) \/ \E js : Acts(a, it, js)
        PROVE  new = it /\ \A b \in Attempt \ {a} : Watches(b)
    BY <1>0, <1>1, AttemptWrites DEF Moves
  <1>2. CASE Plan(a)
    <2>1. PICK op \in {"install", "upgrade"} :
            Becomes(a, [AttemptIdle EXCEPT !.pc = "planned", !.op = op, !.snapshot = Visible])
      BY <1>2 DEF Plan
    <2>2. LET it == [AttemptIdle EXCEPT !.pc = "planned", !.op = op, !.snapshot = Visible]
          IN  it.pc = "planned" /\ it.step = 1 /\ it.result = "none"
      BY DEF AttemptIdle
    <2>3. me.pc = "idle" /\ UNCHANGED <<files, jobs>>
      BY <1>2 DEF Plan
    <2>4. QED BY <1>1, <2>1, <2>2, <2>3 DEF AttemptStep, Plans
  <1>3. CASE StageStart(a)
    <2> DEFINE it == [me EXCEPT !.pc = "write", !.previous = files]
    <2>1. it.pc = "write" /\ it.step = me.step /\ it.previous = files /\ it.result = me.result
      BY <1>0, AttemptStateIs
    <2>2. me.pc = "planned" /\ LockFree /\ UNCHANGED <<files, jobs>> /\ Becomes(a, it)
      BY <1>3 DEF StageStart
    <2> HIDE DEF it
    <2>3. QED BY <1>1, <2>1, <2>2 DEF AttemptStep, StartsStaging
  <1>4. CASE StageWrite(a)
    <2> DEFINE next == [me EXCEPT !.step = me.step + 1]
               last == [me EXCEPT !.pc = "start", !.step = 1, !.previous = AttemptIdle.previous]
    <2>1. /\ me.pc = "write" /\ UNCHANGED jobs
          /\ files' = [files EXCEPT ![Targets[me.step]] = a]
          /\ Becomes(a, IF me.step < 3 THEN next ELSE last)
      BY <1>4 DEF StageWrite
    <2>2. /\ next.pc = me.pc /\ next.step = me.step + 1 /\ next.previous = me.previous
          /\ next.result = me.result
          /\ last.pc = "start" /\ last.step = 1 /\ last.result = me.result
      BY <1>0, AttemptStateIs
    <2>3. me.step \in 1..3
      BY <1>0, AttemptStateIs DEF Step
    <2> HIDE DEF next, last
    <2>4. CASE me.step < 3
      BY <1>1, <2>1, <2>2, <2>4 DEF AttemptStep, Writes
    <2>5. CASE me.step = 3
      BY <1>1, <2>1, <2>2, <2>5 DEF AttemptStep, Writes
    <2>6. QED BY <2>3, <2>4, <2>5
  <1>5. CASE StageFail(a)
    <2> DEFINE it == [me EXCEPT !.pc = "restore"]
    <2>1. it.pc = "restore" /\ it.previous = me.previous /\ it.result = me.result
      BY <1>0, AttemptStateIs
    <2>2. me.pc = "write" /\ UNCHANGED jobs /\ Becomes(a, it)
      BY <1>5 DEF StageFail
    <2> HIDE DEF it
    <2>3. QED BY <1>1, <2>1, <2>2 DEF AttemptStep, FailsStaging
  <1>6. CASE StageRestore(a)
    <2>1. PICK stuck \in SUBSET File :
            /\ \A f \in File : files[f] \notin {a, me.previous[f]} => f \in stuck
            /\ files' = [f \in File |-> IF f \in stuck THEN files[f] ELSE Restored(a, f)]
            /\ Becomes(a, Ended(me, IF stuck = {} THEN "stage_failed"
                                    ELSE "stage_rollback_failed"))
      BY <1>6 DEF StageRestore
    <2>2. me.pc = "restore" /\ UNCHANGED jobs
      BY <1>6 DEF StageRestore
    <2>3. {"stage_failed", "stage_rollback_failed"} \subseteq Result
      BY DEF Result
    <2>4. CASE stuck = {}
      <3>1. new.pc = "done" /\ new.result = "stage_failed"
        BY <1>0, <1>1, <2>1, <2>2, <2>3, <2>4, AttemptFields
      <3>2. files' = me.previous
        <4>1. me.previous = [f \in File |-> me.previous[f]]
          BY <1>0, AttemptStateIs DEF Before
        <4>2. \A f \in File : Restored(a, f) = me.previous[f]
          BY <2>1, <2>4 DEF Restored
        <4>3. QED BY <2>1, <2>4, <4>1, <4>2
      <3>3. QED BY <1>1, <2>1, <2>2, <3>1, <3>2 DEF AttemptStep, GivesBack
    <2>5. CASE stuck # {}
      <3>1. new.pc = "done" /\ new.result = "stage_rollback_failed"
        <4> DEFINE it == Ended(me, "stage_rollback_failed")
        <4>1. Becomes(a, it)
          BY <2>1, <2>5
        <4>2. it.pc = "done" /\ it.result = "stage_rollback_failed"
          BY <1>0, <2>3, AttemptFields
        <4> HIDE DEF it
        <4>3. QED BY <1>1, <2>2, <4>1, <4>2
      <3>2. QED BY <1>1, <2>1, <2>2, <3>1 DEF AttemptStep, GivesBack
    <2>6. QED BY <2>4, <2>5
  <1>7. CASE Crash(a)
    <2> DEFINE result == IF me.pc \in Staging THEN "stage_crashed" ELSE "crashed"
    <2>1. Becomes(a, Ended(me, result)) /\ UNCHANGED <<files, jobs>>
      BY <1>7 DEF Crash
    <2>2. result \in Result
      BY DEF Result
    <2>3. /\ new.pc = "done" /\ new.result = result /\ new.op = me.op
          /\ new.snapshot = me.snapshot
      BY <1>0, <1>1, <2>1, <2>2, AttemptFields
    <2>4. me.pc \in Staging \cup Executing
      BY <1>7 DEF Crash
    <2>5. QED BY <1>1, <2>1, <2>3, <2>4 DEF AttemptStep, DiesStaging, Executes
  <1>8. ASSUME NEW it, it = Failing(me) \/ \E ok \in BOOLEAN : it = RolledBack(me, ok)
        PROVE  it.pc \in Executing /\ it.result = me.result /\ it.op = me.op
                 /\ it.snapshot = me.snapshot
    BY <1>0, <1>8, AttemptFields DEF Executing
  <1>9. CASE ExecStart(a)
    <2> DEFINE ready == [me EXCEPT !.pc = "call", !.expected = me.snapshot, !.stale = FALSE]
               kept  == [ready EXCEPT !.stale = me.stale]
    <2>1. /\ me.pc = "start" /\ UNCHANGED <<files, jobs>>
          /\ Becomes(a, kept) \/ Becomes(a, ready) \/ Becomes(a, Ended(me, "refused"))
      BY <1>9 DEF ExecStart
    <2>2. /\ ready.pc = "call" /\ ready.op = me.op /\ ready.snapshot = me.snapshot
          /\ ready.result = me.result
          /\ kept.pc = "call" /\ kept.op = me.op /\ kept.snapshot = me.snapshot
          /\ kept.result = me.result
      BY <1>0, AttemptStateIs
    <2>3. LET it == Ended(me, "refused") IN
            it.pc = "done" /\ it.result = "refused" /\ it.op = me.op /\ it.snapshot = me.snapshot
      BY <1>0, AttemptFields DEF Result
    <2> HIDE DEF ready, kept
    <2>4. QED BY <1>1, <2>1, <2>2, <2>3 DEF AttemptStep, Executes, Executing
  <1>10. CASE ExecCreated(a) \/ ExecSettled(a)
    <2>1. /\ me.pc \in {"created", "settled"} /\ UNCHANGED <<files, jobs>>
          /\ \/ Becomes(a, Failing(me))
             \/ Becomes(a, [[me EXCEPT !.pc = "pause"] EXCEPT !.stale = FALSE])
             \/ Becomes(a, [[me EXCEPT !.pc = "call", !.step = 2] EXCEPT !.stale = FALSE])
             \/ Becomes(a, [[me EXCEPT !.pc = "verify"] EXCEPT !.stale = FALSE])
      BY <1>10 DEF ExecCreated, ExecSettled, Reads
    <2>2. ASSUME NEW pc \in {"pause", "call", "verify"}, NEW step \in {2, me.step}
          PROVE  LET it == [[me EXCEPT !.pc = pc, !.step = step] EXCEPT !.stale = FALSE] IN
                 it.pc = pc /\ it.op = me.op /\ it.snapshot = me.snapshot /\ it.result = me.result
      BY <1>0, AttemptStateIs
    <2>3. /\ [me EXCEPT !.pc = "pause"] = [me EXCEPT !.pc = "pause", !.step = me.step]
          /\ [me EXCEPT !.pc = "verify"] = [me EXCEPT !.pc = "verify", !.step = me.step]
      BY <1>0, AttemptStateIs
    <2> DEFINE Fits(it) == /\ it.pc \in Executing /\ it.result = me.result /\ it.op = me.op
                           /\ it.snapshot = me.snapshot
               Kept(pc, step) == [[me EXCEPT !.pc = pc, !.step = step] EXCEPT !.stale = FALSE]
    <2>4. \E it : Becomes(a, it) /\ Fits(it)
      <3>1. Fits(Failing(me))
        BY <1>8
      <3>2. /\ Fits(Kept("pause", me.step)) /\ Fits(Kept("call", 2))
            /\ Fits(Kept("verify", me.step))
        BY <2>2 DEF Executing
      <3>3. \/ Becomes(a, Failing(me)) \/ Becomes(a, Kept("pause", me.step))
            \/ Becomes(a, Kept("call", 2)) \/ Becomes(a, Kept("verify", me.step))
        BY <2>1, <2>3
      <3> HIDE DEF Fits, Kept
      <3>4. QED BY <3>1, <3>2, <3>3
    <2>5. QED BY <1>1, <2>1, <2>4 DEF AttemptStep, Executes, Executing
  <1>11. CASE ExecVerify(a)
    <2>1. /\ me.pc = "verify" /\ UNCHANGED <<files, jobs>>
          /\ Becomes(a, Ended(me, "applied_paused")) \/ Becomes(a, Failing(me))
      BY <1>11 DEF ExecVerify
    <2>2. LET it == Ended(me, "applied_paused") IN
            /\ it.pc = "done" /\ it.result = "applied_paused" /\ it.op = me.op
            /\ it.snapshot = me.snapshot
      BY <1>0, AttemptFields DEF Result
    <2>3. QED BY <1>1, <1>8, <2>1, <2>2 DEF AttemptStep, Executes, Executing
  <1>12. CASE ExecFinal(a)
    <2> DEFINE old == [me EXCEPT !.stale = FALSE]
    <2>1. /\ me.pc = "final" /\ UNCHANGED <<files, jobs>>
          /\ Becomes(a, Ended(old, "rolled_back")) \/ Becomes(a, Ended(old, "rollback_failed"))
      BY <1>12 DEF ExecFinal
    <2>2. old \in AttemptState /\ old.op = me.op /\ old.snapshot = me.snapshot
      BY <1>0, AttemptStateIs
    <2> HIDE DEF old
    <2>3. \A result \in {"rolled_back", "rollback_failed"} :
            LET it == Ended(old, result) IN
            it.pc = "done" /\ it.result = result /\ it.op = me.op /\ it.snapshot = me.snapshot
      BY <2>2, AttemptFields DEF Result
    <2>4. QED BY <1>1, <2>1, <2>3 DEF AttemptStep, Executes, Executing
  <1>13. CASE ExecCreate(a)
    <2> DEFINE id  == issued + 1
               job == JobOf(StableNames[me.step], "planned", "scheduled")
               it  == [me EXCEPT !.pc = "created", !.created[me.step] = id,
                                 !.expected = me.expected \cup {<<id, job>>}]
    <2>1. /\ me.pc = "call" /\ UNCHANGED files
          /\ \/ \E js : Acts(a, it, js) \/ Acts(a, Failing(me), js)
             \/ Becomes(a, Failing(me)) /\ UNCHANGED jobs
      BY <1>13 DEF ExecCreate
    <2>2. it.pc = "created" /\ it.result = me.result /\ it.op = me.op /\ it.snapshot = me.snapshot
      BY <1>0, AttemptStateIs
    <2> HIDE DEF it
    <2>3. QED BY <1>1, <1>8, <2>1, <2>2 DEF AttemptStep, Executes, Executing
  <1>14. CASE ExecUpdate(a) \/ ExecPause(a)
    <2>1. /\ me.pc \in {"call", "pause"} /\ UNCHANGED files
          /\ \/ \E js, view : Acts(a, [me EXCEPT !.pc = "settled", !.expected = view], js)
             \/ \E js : Acts(a, Failing(me), js)
             \/ Becomes(a, Failing(me)) /\ UNCHANGED jobs
      BY <1>14 DEF ExecUpdate, ExecPause
    <2>2. \A view : LET it == [me EXCEPT !.pc = "settled", !.expected = view] IN
            /\ it.pc = "settled" /\ it.result = me.result /\ it.op = me.op
            /\ it.snapshot = me.snapshot
      BY <1>0, AttemptStateIs
    <2> DEFINE Fits(it) == /\ it.pc \in Executing /\ it.result = me.result /\ it.op = me.op
                           /\ it.snapshot = me.snapshot
               Settles(view) == [me EXCEPT !.pc = "settled", !.expected = view]
    <2>3. Fits(Failing(me)) /\ \A view : Fits(Settles(view))
      BY <1>8, <2>2 DEF Executing
    <2>4. \E it : /\ (Becomes(a, it) /\ UNCHANGED jobs) \/ \E js : Acts(a, it, js)
                  /\ Fits(it)
      <3> HIDE DEF Fits
      <3>1. \/ \E js, view : Acts(a, Settles(view), js)
            \/ \E js : Acts(a, Failing(me), js)
            \/ Becomes(a, Failing(me)) /\ UNCHANGED jobs
        BY <2>1
      <3> HIDE DEF Settles
      <3>2. QED BY <2>3, <3>1
    <2>5. PICK it : /\ (Becomes(a, it) /\ UNCHANGED jobs) \/ \E js : Acts(a, it, js)
                    /\ Fits(it)
      BY <2>4
    <2>6. new = it /\ \A b \in Attempt \ {a} : Watches(b)
      BY <1>1, <2>5
    <2>7. me.pc \in Executing
      BY <2>1 DEF Executing
    <2>8. QED BY <2>1, <2>5, <2>6, <2>7 DEF AttemptStep, Executes
  <1>15. CASE RollbackRemove(a) \/ RollbackUpdate(a)
    <2>1. /\ me.pc = "rollback" /\ UNCHANGED files
          /\ \E ok \in BOOLEAN :
               \/ \E js : Acts(a, RolledBack(me, ok), js)
               \/ Becomes(a, RolledBack(me, ok)) /\ UNCHANGED jobs
      BY <1>15 DEF RollbackRemove, RollbackUpdate
    <2>2. QED BY <1>1, <1>8, <2>1 DEF AttemptStep, Executes, Executing
  <1>16. QED
    BY <1>2, <1>3, <1>4, <1>5, <1>6, <1>7, <1>9, <1>10, <1>11, <1>12, <1>13, <1>14, <1>15
    DEF Install

-----------------------------------------------------------------------------
(* Staging *)

\* Something happened to the staged files that no later staging need undo.
Died == \E a \in Attempt : attempt[a].result \in {"stage_crashed", "stage_rollback_failed"}

\* The staged files are of one attempt, or the operator has written one.
Whole(content) ==
  \/ \E f \in File : content[f] = Foreign
  \/ \A f \in File : content[f] = content["config"]

\* The inductive invariant behind StagedIsWhole: one attempt stages at a time,
\* it found whole files, and has written the ones below its step.
StagingInv ==
  /\ \A a \in Attempt : attempt[a].result # "none" => attempt[a].pc = "done"
  /\ \A a, b \in Attempt : attempt[a].pc \in Staging /\ attempt[b].pc \in Staging => a = b
  /\ \A a \in Attempt : attempt[a].pc \in Staging => Died \/ Whole(attempt[a].previous)
  /\ \A a \in Attempt : attempt[a].pc = "write" =>
       \A n \in 1..2 : n < attempt[a].step => files[Targets[n]] \in {a, Foreign}
  /\ (\E a \in Attempt : attempt[a].pc \in Staging) \/ Died \/ Whole(files)
  /\ \A a \in Attempt : attempt[a].pc = "planned" => attempt[a].step = 1

\* What a step does to the files when it is not an attempt's.
LEMMA OperateFiles ==
  ASSUME TypeOK, Operate
  PROVE  files' = files \/ \E f \in File : files' = [files EXCEPT ![f] = Foreign]
  BY DEF Operate, EnableJob, ChangeJob, ChangeFile

\* Staging excludes staging, for any step of an attempt.
LEMMA StagingNext ==
  ASSUME InstallTyped, StagingInv, NEW a \in Attempt, Install(a)
  PROVE  StagingInv'
  <1> DEFINE me == attempt[a]
             new == attempt'[a]
  <1>0. /\ AttemptStep(a, me, new) /\ \A b \in Attempt \ {a} : Watches(b)
        /\ TypeOK /\ me \in AttemptState /\ me.step \in 1..3
    BY AttemptStepOf, AttemptStateIs DEF InstallTyped, TypeOK, Step
  <1>1. ASSUME NEW b \in Attempt \ {a}
        PROVE  /\ attempt'[b].pc = attempt[b].pc /\ attempt'[b].result = attempt[b].result
               /\ attempt'[b].previous = attempt[b].previous
               /\ attempt'[b].step = attempt[b].step
    BY <1>0, WatchesKeeps
  <1>2. me.pc # "done" /\ me.result = "none"
    <2>1. me.pc # "done"
      BY <1>0 DEF AttemptStep, Plans, StartsStaging, Writes, FailsStaging, GivesBack, DiesStaging,
         Executes, Staging, Executing
    <2>2. QED BY <2>1 DEF StagingInv
  <1>3. Died => Died'
    BY <1>1, <1>2 DEF Died
  <1>4. new.result \in {"stage_crashed", "stage_rollback_failed"} => Died'
    BY DEF Died
  <1>5. \A b \in Attempt : attempt'[b].result # "none" => attempt'[b].pc = "done"
    <2>1. new.result # "none" => new.pc = "done"
      BY <1>0, <1>2 DEF AttemptStep, Plans, StartsStaging, Writes, FailsStaging, GivesBack,
         DiesStaging, Executes
    <2>2. QED BY <1>1, <2>1 DEF StagingInv
  <1>6. \A b \in Attempt : attempt'[b].pc = "planned" => attempt'[b].step = 1
    <2>1. new.pc = "planned" => new.step = 1
      BY <1>0 DEF AttemptStep, Plans, StartsStaging, Writes, FailsStaging, GivesBack,
         DiesStaging, Executes, Executing
    <2>2. QED BY <1>1, <2>1 DEF StagingInv
  <1>7. ASSUME new.pc \in Staging, NEW b \in Attempt \ {a}, attempt'[b].pc \in Staging
        PROVE  FALSE
    <2>1. attempt[b].pc \in Staging
      BY <1>1, <1>7
    <2>2. me.pc \in Staging \/ LockFree
      BY <1>0, <1>7 DEF AttemptStep, Plans, StartsStaging, Writes, FailsStaging, GivesBack,
         DiesStaging, Executes, Staging, Executing
    <2>3. QED BY <2>1, <2>2 DEF StagingInv, LockFree
  <1>8. ASSUME new.pc \in Staging
        PROVE  Died' \/ Whole(new.previous)
    <2>1. CASE StartsStaging(me, new)
      BY <1>3, <2>1 DEF StartsStaging, StagingInv, LockFree
    <2>2. CASE me.pc \in Staging /\ new.previous = me.previous
      BY <1>3, <2>2 DEF StagingInv
    <2>3. QED BY <1>0, <1>8, <2>1, <2>2 DEF AttemptStep, Plans, Writes, FailsStaging, GivesBack,
               DiesStaging, Executes, Staging, Executing
  <1>9. ASSUME Writes(a, me, new), NEW n \in 1..3,
               n <= me.step
        PROVE  files'[Targets[n]] \in {a, Foreign}
    <2>1. files' = [files EXCEPT ![Targets[me.step]] = a] /\ Targets[me.step] \in File
            /\ Targets[n] \in File
      BY <1>0, <1>9, Names DEF Writes
    <2>2. CASE n = me.step
      BY <1>0, <2>1, <2>2 DEF TypeOK
    <2>3. CASE n < me.step
      <3>1. n \in 1..2
        BY <1>0, <2>3
      <3>2. files[Targets[n]] \in {a, Foreign}
        BY <1>9, <2>3, <3>1 DEF StagingInv, Writes
      <3>3. QED BY <1>0, <2>1, <3>2 DEF TypeOK
    <2>4. QED BY <1>0, <1>9, <2>2, <2>3
  <1>10. ASSUME new.pc = "write", NEW n \in 1..2, n < new.step
         PROVE  files'[Targets[n]] \in {a, Foreign}
    <2>1. CASE StartsStaging(me, new)
      BY <1>10, <2>1 DEF StartsStaging, StagingInv
    <2>2. CASE Writes(a, me, new)
      <3>1. n <= me.step
        BY <1>0, <1>10, <2>2 DEF Writes
      <3>2. QED BY <1>9, <2>2, <3>1
    <2>3. QED BY <1>0, <1>10, <2>1, <2>2 DEF AttemptStep, Plans, FailsStaging, GivesBack,
               DiesStaging, Executes, Executing
  <1>11. ASSUME NEW b \in Attempt \ {a}, attempt'[b].pc = "write",
                NEW n \in 1..2, n < attempt'[b].step
         PROVE  files'[Targets[n]] \in {b, Foreign}
    <2>1. attempt[b].pc = "write" /\ n < attempt[b].step
      BY <1>1, <1>11
    <2>2. me.pc \notin Staging
      BY <2>1 DEF StagingInv, Staging
    <2>3. UNCHANGED files
      BY <1>0, <2>2 DEF AttemptStep, Writes, FailsStaging, GivesBack, Staging
    <2>4. QED BY <2>1, <2>3 DEF StagingInv
  <1>12. (\E b \in Attempt : attempt'[b].pc \in Staging) \/ Died' \/ Whole(files')
    <2>1. SUFFICES ASSUME \A b \in Attempt : attempt'[b].pc \notin Staging, ~Died'
                   PROVE  Whole(files')
      OBVIOUS
    <2>2. ~Died /\ new.pc \notin Staging
      BY <1>3, <2>1
    <2>3. CASE me.pc \notin Staging
      <3>1. UNCHANGED files
        BY <1>0, <2>3 DEF AttemptStep, Writes, FailsStaging, GivesBack, Staging
      <3>2. \A b \in Attempt : attempt[b].pc \notin Staging
        BY <1>1, <2>1, <2>3
      <3>3. QED BY <2>2, <3>1, <3>2 DEF StagingInv
    <2>4. CASE Writes(a, me, new)
      <3>1. me.step = 3
        BY <2>2, <2>4 DEF Writes, Staging
      <3>2. \A n \in 1..3 : files'[Targets[n]] \in {a, Foreign}
        BY <1>9, <2>4, <3>1
      <3>3. \A f \in File : files'[f] \in {a, Foreign}
        BY <3>2 DEF File
      <3>4. "config" \in File
        BY Names
      <3>5. QED BY <3>3, <3>4 DEF Whole
    <2>5. CASE GivesBack(a, me, new)
      <3>1. files' = me.previous
        BY <1>4, <2>1, <2>5 DEF GivesBack
      <3>2. QED BY <2>2, <2>5, <3>1 DEF GivesBack, StagingInv, Staging
    <2>6. QED BY <1>0, <1>4, <2>1, <2>2, <2>3, <2>4, <2>5
          DEF AttemptStep, Plans, StartsStaging, FailsStaging, DiesStaging, Executes, Staging,
              Executing
  <1>13. \A b, c \in Attempt :
           attempt'[b].pc \in Staging /\ attempt'[c].pc \in Staging => b = c
    BY <1>1, <1>7 DEF StagingInv
  <1>14. \A b \in Attempt : attempt'[b].pc \in Staging => Died' \/ Whole(attempt'[b].previous)
    BY <1>1, <1>3, <1>8 DEF StagingInv
  <1>15. \A b \in Attempt : attempt'[b].pc = "write" =>
           \A n \in 1..2 : n < attempt'[b].step => files'[Targets[n]] \in {b, Foreign}
    BY <1>10, <1>11
  <1>16. QED BY <1>5, <1>6, <1>12, <1>13, <1>14, <1>15 DEF StagingInv, Whole

\* Nor does the operator disturb it.
LEMMA StagingDisturbed ==
  ASSUME InstallTyped, StagingInv, Operate
  PROVE  StagingInv'
  <1>0. TypeOK
    BY DEF InstallTyped
  <1>1. ASSUME NEW b \in Attempt
        PROVE  /\ attempt'[b].pc = attempt[b].pc /\ attempt'[b].result = attempt[b].result
               /\ attempt'[b].previous = attempt[b].previous
               /\ attempt'[b].step = attempt[b].step
    BY <1>0, OperateWatches, WatchesKeeps
  <1>2. Died <=> Died'
    BY <1>1 DEF Died
  <1>3. \A f \in File : files'[f] = files[f] \/ files'[f] = Foreign
    BY <1>0, OperateFiles DEF TypeOK
  <1>4. Whole(files) => Whole(files')
    <2>1. "config" \in File
      BY Names
    <2>2. CASE files' = files
      BY <2>2
    <2>3. CASE \E f \in File : files' = [files EXCEPT ![f] = Foreign]
      <3>1. \E f \in File : files'[f] = Foreign
        BY <1>0, <2>3 DEF TypeOK
      <3>2. QED BY <3>1 DEF Whole
    <2>4. QED BY <1>0, <2>2, <2>3, OperateFiles
  <1>5. \A b \in Attempt : attempt'[b].pc = "write" =>
           \A n \in 1..2 : n < attempt'[b].step => files'[Targets[n]] \in {b, Foreign}
    <2>1. \A n \in 1..2 : Targets[n] \in File
      BY Names
    <2>2. QED BY <1>1, <1>3, <2>1 DEF StagingInv
  <1>6. \A b, c \in Attempt :
           attempt'[b].pc \in Staging /\ attempt'[c].pc \in Staging => b = c
    BY <1>1 DEF StagingInv
  <1>7. \A b \in Attempt : attempt'[b].pc \in Staging => Died' \/ Whole(attempt'[b].previous)
    BY <1>1, <1>2 DEF StagingInv
  <1>8. (\E b \in Attempt : attempt'[b].pc \in Staging) \/ Died' \/ Whole(files')
    BY <1>1, <1>2, <1>4 DEF StagingInv
  <1>9. \A b \in Attempt : /\ attempt'[b].result # "none" => attempt'[b].pc = "done"
                           /\ attempt'[b].pc = "planned" => attempt'[b].step = 1
    BY <1>1 DEF StagingInv
  <1>10. QED BY <1>5, <1>6, <1>7, <1>8, <1>9 DEF StagingInv, Whole

\* The inductive form of whole staging.
LEMMA StagingHolds == InstallSpec => []StagingInv
  <1>1. InstallInit => StagingInv
    <2> SUFFICES ASSUME InstallInit PROVE StagingInv
      OBVIOUS
    <2>1. \A a \in Attempt : attempt[a].pc = "idle" /\ attempt[a].result = "none"
      BY DEF InstallInit, AttemptIdle
    <2>2. Whole(files)
      BY Names DEF InstallInit, Whole
    <2>3. QED BY <2>1, <2>2 DEF StagingInv, Staging
  <1>2. InstallTyped /\ StagingInv /\ [InstallNext]_installVars => StagingInv'
    <2>1. ASSUME StagingInv, UNCHANGED installVars PROVE StagingInv'
      BY <2>1 DEF installVars, StagingInv, Died, Whole
    <2>2. QED BY <2>1, StagingNext, StagingDisturbed DEF InstallNext
  <1>3. QED BY <1>1, <1>2, InstallHolds, PTL DEF InstallSpec

\* Whatever attempts race, fail or die, and whatever the operator writes, files
\* nobody is writing are whole unless a staging died, could not be undone, or
\* the operator wrote one of them.
THEOREM StagingIsWhole == InstallSpec => []StagedIsWhole
  <1>1. StagingInv => StagedIsWhole
    BY DEF StagingInv, StagedIsWhole, Died, Whole
  <1>2. QED BY <1>1, StagingHolds, PTL

-----------------------------------------------------------------------------
(* What an attempt leaves enabled *)

\* The attempt that has an enabled job on its conscience.
Answers(me, i) ==
  \/ me.result \in {"crashed", "rollback_failed"}
  \/ me.op = "install" /\ me.pc \in {"created", "pause"} /\ me.created[me.step] = i
  \/ me.op = "install" /\ me.pc \in {"rollback", "final"}

\* The inductive invariant behind EnabledIsReported.
EnabledInv ==
  \A i \in 1..MaxJobs :
    jobs[i].state = "scheduled" /\ i \notin resumed => \E a \in Attempt : Answers(attempt[a], i)

\* A step of an attempt leaves nobody's job enabled in silence.
LEMMA EnabledNext ==
  ASSUME InstallTyped, StagingInv, EnabledInv, NEW a \in Attempt, Install(a)
  PROVE  EnabledInv'
  <1> DEFINE me == attempt[a]
             new == attempt'[a]
             n == me.step
             Silent(i) == jobs[i].state = "scheduled" /\ i \notin resumed
             Silent1(i) == jobs'[i].state = "scheduled" /\ i \notin resumed'
  <1>0. /\ TypeOK /\ me \in AttemptState /\ Placed(me)
        /\ jobs \in [1..MaxJobs -> Job] /\ NoJob.state = "paused"
        /\ \A b \in Attempt \ {a} : Watches(b)
    BY AttemptStepOf DEF InstallTyped, TypeOK, NoJob
  <1>1. me.result = "none"
    BY AttemptStepOf DEF AttemptStep, Plans, StartsStaging, Writes, FailsStaging, GivesBack,
       DiesStaging, Executes, Staging, Executing, StagingInv
  <1>2. SUFFICES ASSUME NEW i \in 1..MaxJobs, Silent1(i)
                 PROVE  \E b \in Attempt : Answers(attempt'[b], i)
    BY DEF EnabledInv, Answers
  <1>3. ASSUME Silent(i), Answers(me, i) => Answers(new, i)
        PROVE  \E b \in Attempt : Answers(attempt'[b], i)
    <2>1. PICK b \in Attempt : Answers(attempt[b], i)
      BY <1>3 DEF EnabledInv
    <2>2. b # a => Answers(attempt'[b], i)
      BY <1>0, <2>1, WatchesKeeps DEF Answers
    <2>3. QED BY <1>3, <2>1, <2>2
  <1>4. ASSUME me.op = "install", Moves(a, Failing(me)) PROVE Answers(new, i)
    BY <1>0, <1>4, AttemptFields DEF Moves, Answers
  <1>5. CASE \/ Plan(a) \/ StageStart(a) \/ StageWrite(a) \/ StageFail(a) \/ StageRestore(a)
             \/ ExecStart(a) \/ ExecSettled(a) \/ ExecVerify(a)
    <2>1. UNCHANGED <<jobs, resumed>>
      BY <1>5 DEF Plan, StageStart, StageWrite, StageFail, StageRestore, ExecStart, ExecSettled,
         ExecVerify
    <2>2. me.pc \notin {"created", "pause", "rollback", "final"}
      BY <1>5 DEF Plan, StageStart, StageWrite, StageFail, StageRestore, ExecStart, ExecSettled,
         ExecVerify
    <2>3. QED BY <1>1, <1>2, <1>3, <2>1, <2>2 DEF Answers
  <1>6. CASE ExecCreate(a)
    <2> DEFINE id  == issued + 1
               job == JobOf(StableNames[n], "planned", "scheduled")
               it  == [me EXCEPT !.pc = "created", !.created[n] = id,
                                 !.expected = me.expected \cup {<<id, job>>}]
    <2>1. /\ me.pc = "call" /\ me.op = "install" /\ resumed' = resumed
          /\ \/ /\ issued < MaxJobs
                /\ \E new2 \in {it, Failing(me)} : Acts(a, new2, [jobs EXCEPT ![id] = job])
             \/ Becomes(a, Failing(me)) /\ UNCHANGED jobs
      BY <1>6 DEF ExecCreate
    <2>2. CASE Becomes(a, Failing(me)) /\ UNCHANGED jobs
      BY <1>0, <1>4, <2>1, <2>2, AttemptWrites
    <2>3. ASSUME NEW new2 \in {it, Failing(me)}, Acts(a, new2, [jobs EXCEPT ![id] = job])
          PROVE  \E b \in Attempt : Answers(attempt'[b], i)
      <3>1. jobs' = [jobs EXCEPT ![id] = job] /\ Moves(a, new2)
        BY <1>0, <2>3, AttemptWrites
      <3>2. it.pc = "created" /\ it.op = me.op /\ it.created[n] = id /\ it.step = n
        <4>1. n \in 1..2 /\ me.created \in [1..2 -> 0..MaxJobs]
          BY <1>0, <2>1, AttemptStateIs DEF Issued, Placed, Executing
        <4>2. it.created = [me.created EXCEPT ![n] = id]
          BY <1>0, AttemptStateIs
        <4>3. it.pc = "created" /\ it.op = me.op /\ it.step = n
          BY <1>0, AttemptStateIs
        <4>4. QED BY <4>1, <4>2, <4>3
      <3> HIDE DEF it, job
      <3>3. CASE i # id
        <4>1. Silent(i)
          BY <1>0, <1>2, <2>1, <3>1, <3>3
        <4>2. ~Answers(me, i)
          BY <1>1, <2>1 DEF Answers
        <4>3. QED BY <1>3, <4>1, <4>2
      <3>4. CASE i = id
        <4>1. CASE new2 = it
          BY <2>1, <3>1, <3>2, <3>4, <4>1 DEF Moves, Answers
        <4>2. CASE new2 = Failing(me)
          BY <1>4, <2>1, <3>1, <4>2
        <4>3. QED BY <2>3, <4>1, <4>2
      <3>5. QED BY <3>3, <3>4
    <2>4. QED BY <2>1, <2>2, <2>3
  <1>7. CASE ExecCreated(a)
    <2> DEFINE it == [me EXCEPT !.pc = "pause", !.stale = FALSE]
    <2>1. /\ me.pc = "created" /\ me.op = "install" /\ UNCHANGED <<jobs, resumed>>
          /\ Becomes(a, it) \/ Becomes(a, Failing(me))
      <3>1. [[me EXCEPT !.pc = "pause"] EXCEPT !.stale = FALSE] = it
        BY <1>0, AttemptStateIs
      <3>2. QED BY <1>0, <1>7, <3>1 DEF ExecCreated, Reads, Placed
    <2>2. it.pc = "pause" /\ it.op = me.op /\ it.created = me.created /\ it.step = n
      BY <1>0, AttemptStateIs
    <2> HIDE DEF it
    <2>3. Answers(me, i) => Answers(new, i)
      BY <1>0, <1>1, <1>4, <2>1, <2>2, AttemptWrites DEF Answers, Moves
    <2>4. QED BY <1>2, <1>3, <2>1, <2>3
  <1>8. CASE ExecPause(a)
    <2> DEFINE k    == me.created[n]
               job  == JobOf(StableNames[n], "planned", "paused")
               view == {p \in me.expected : p[1] # k} \cup {<<k, job>>}
               it   == [me EXCEPT !.pc = "settled", !.expected = view]
               js   == [jobs EXCEPT ![k].state = "paused"]
    <2>0. me.pc = "pause" /\ me.op = "install" /\ k \in 1..MaxJobs
      BY <1>0, <1>8 DEF ExecPause, Placed
    <2>1. \/ Acts(a, it, js) /\ resumed' = resumed \ {k}
          \/ Acts(a, Failing(me), js) /\ resumed' = resumed \ {k}
          \/ Becomes(a, Failing(me)) /\ UNCHANGED <<jobs, resumed>>
      BY <1>8 DEF ExecPause
    <2> HIDE DEF it
    <2>2. CASE Becomes(a, Failing(me)) /\ UNCHANGED <<jobs, resumed>>
      BY <1>0, <1>4, <2>0, <2>2, AttemptWrites
    <2>3. CASE Acts(a, Failing(me), js)
      BY <1>0, <1>4, <2>0, <2>3, AttemptWrites
    <2>4. CASE Acts(a, it, js) /\ resumed' = resumed \ {k}
      <3>1. jobs' = js
        BY <2>4 DEF Acts
      <3>2. jobs[k] \in Job /\ jobs'[k].state = "paused"
        BY <1>0, <2>0, <3>1 DEF Job
      <3>3. i # k
        BY <1>2, <3>2
      <3>4. Silent(i) /\ ~Answers(me, i)
        BY <1>0, <1>1, <1>2, <2>0, <2>4, <3>1, <3>3 DEF Answers
      <3>5. QED BY <1>3, <3>4
    <2>5. QED BY <2>1, <2>2, <2>3, <2>4
  <1>9. CASE ExecUpdate(a) \/ RollbackUpdate(a)
    <2>1. \E k \in 1..MaxJobs, release \in {"prior", "planned"} :
            UNCHANGED jobs \/ jobs' = Updated(k, release)
      <3>1. 1 \in 1..MaxJobs
        BY InstallAssumption
      <3>2. Bound(me, n) \in 1..MaxJobs
        BY <1>0, <1>9, BoundIsNamed DEF Placed, Executing, ExecUpdate, RollbackUpdate
      <3>3. \/ UNCHANGED jobs
            \/ jobs' = Updated(Bound(me, n), "planned") \/ jobs' = Updated(Bound(me, n), "prior")
        BY <1>9 DEF ExecUpdate, RollbackUpdate, Acts
      <3>4. QED BY <3>1, <3>2, <3>3
    <2>2. jobs'[i].state = jobs[i].state
      <3>1. PICK k \in 1..MaxJobs, release \in {"prior", "planned"} :
              UNCHANGED jobs \/ jobs' = Updated(k, release)
        BY <2>1
      <3>2. CASE jobs' = Updated(k, release)
        <4>1. jobs[k] \in Job /\ [jobs[k] EXCEPT !.release = release, !.edited = FALSE].state
                                  = jobs[k].state
          BY <1>0 DEF Job
        <4>2. QED BY <1>0, <3>2, <4>1 DEF Updated
      <3>3. QED BY <3>1, <3>2
    <2>3. resumed' = resumed
      BY <1>9 DEF ExecUpdate, RollbackUpdate
    <2>4. ~Answers(me, i)
      BY <1>1, <1>9 DEF ExecUpdate, RollbackUpdate, Answers
    <2>5. QED BY <1>2, <1>3, <2>2, <2>3, <2>4
  <1>10. CASE RollbackRemove(a)
    <2> DEFINE k == me.created[n]
    <2>1. /\ me.pc = "rollback" /\ me.op = "install"
          /\ \/ UNCHANGED <<jobs, resumed>>
             \/ jobs' = [jobs EXCEPT ![k] = NoJob] /\ resumed' = resumed \ {k}
          /\ \E ok \in BOOLEAN : Moves(a, RolledBack(me, ok))
      <3>1. \E ok \in BOOLEAN :
               \/ Becomes(a, RolledBack(me, ok)) /\ UNCHANGED <<jobs, resumed>>
               \/ /\ Acts(a, RolledBack(me, ok), [jobs EXCEPT ![k] = NoJob])
                  /\ resumed' = resumed \ {k}
        BY <1>10 DEF RollbackRemove
      <3>2. me.pc = "rollback" /\ me.op = "install"
        BY <1>10 DEF RollbackRemove
      <3>3. QED BY <1>0, <3>1, <3>2, AttemptWrites
    <2>2. Silent(i)
      BY <1>0, <1>2, <2>1
    <2>3. Answers(new, i)
      BY <1>0, <2>1, AttemptFields DEF Moves, Answers
    <2>4. QED BY <1>3, <2>2, <2>3
  <1>11. CASE ExecFinal(a)
    <2> DEFINE old == [me EXCEPT !.stale = FALSE]
    <2>1. old \in AttemptState /\ old.op = me.op /\ old.snapshot = me.snapshot
            /\ old.failures = me.failures
      BY <1>0, AttemptStateIs
    <2>2. /\ me.pc = "final" /\ UNCHANGED <<jobs, resumed>>
          /\ \/ Restores(old) /\ Becomes(a, Ended(old, "rolled_back"))
             \/ Becomes(a, Ended(old, "rollback_failed"))
      BY <1>11 DEF ExecFinal
    <2> HIDE DEF old
    <2>3. CASE Becomes(a, Ended(old, "rollback_failed"))
      <3>1. Ended(old, "rollback_failed").result = "rollback_failed"
        BY <2>1, AttemptFields DEF Result
      <3>2. Answers(new, i)
        BY <1>0, <2>2, <2>3, <3>1, AttemptWrites DEF Moves, Answers
      <3>3. QED BY <1>2, <1>3, <2>2, <3>2
    <2>4. CASE Restores(old)
      <3>1. CASE me.op = "install"
        <4>1. Visible = {}
          BY <1>0, <2>1, <2>2, <2>4, <3>1 DEF Restores, Matches, Placed, Plannable
        <4>2. jobs[i] = NoJob
          BY <1>0, <4>1, ViewTyped DEF Visible
        <4>3. QED BY <1>0, <1>2, <2>2, <4>2
      <3>2. CASE me.op # "install"
        BY <1>1, <1>2, <1>3, <2>2, <3>2 DEF Answers
      <3>3. QED BY <3>1, <3>2
    <2>5. QED BY <2>2, <2>3, <2>4
  <1>12. CASE Crash(a)
    <2>1. UNCHANGED <<jobs, resumed>> /\ me.pc \in Staging \cup Executing
            /\ Becomes(a, Ended(me, IF me.pc \in Staging THEN "stage_crashed" ELSE "crashed"))
      BY <1>12 DEF Crash
    <2>2. CASE me.pc \in Staging
      BY <1>1, <1>2, <1>3, <2>1, <2>2 DEF Answers, Staging
    <2>3. CASE me.pc \notin Staging
      <3>1. Becomes(a, Ended(me, "crashed"))
        BY <2>1, <2>3
      <3>2. Ended(me, "crashed").result = "crashed"
        BY <1>0, AttemptFields DEF Result
      <3>3. Answers(new, i)
        BY <1>0, <2>1, <3>1, <3>2, AttemptWrites DEF Moves, Answers
      <3>4. QED BY <1>2, <1>3, <2>1, <3>3
    <2>4. QED BY <2>2, <2>3
  <1>13. QED BY <1>5, <1>6, <1>7, <1>8, <1>9, <1>10, <1>11, <1>12 DEF Install

\* What the operator enables is his own.
LEMMA EnabledDisturbed ==
  ASSUME InstallTyped, EnabledInv, Operate
  PROVE  EnabledInv'
  <1>0. TypeOK /\ jobs \in [1..MaxJobs -> Job] /\ NoJob.state = "paused"
    BY DEF InstallTyped, TypeOK, NoJob
  <1>1. SUFFICES ASSUME NEW i \in 1..MaxJobs, jobs'[i].state = "scheduled", i \notin resumed'
                 PROVE  \E b \in Attempt : Answers(attempt'[b], i)
    BY DEF EnabledInv, Answers
  <1>2. jobs[i].state = "scheduled" /\ i \notin resumed
    <2>1. ASSUME NEW k \in 1..MaxJobs, EnableJob(k)
          PROVE  jobs[i].state = "scheduled" /\ i \notin resumed
      BY <1>0, <1>1, <2>1 DEF EnableJob, Disturb
    <2>2. ASSUME NEW k \in 1..MaxJobs, ChangeJob(k)
          PROVE  jobs[i].state = "scheduled" /\ i \notin resumed
      <3>1. CASE jobs' = [jobs EXCEPT ![k].edited = TRUE] /\ UNCHANGED resumed
        <4>1. jobs[i] \in Job /\ jobs'[i].state = jobs[i].state
          BY <1>0, <3>1 DEF Job
        <4>2. QED BY <1>1, <3>1, <4>1
      <3>2. CASE jobs' = [jobs EXCEPT ![k] = NoJob] /\ resumed' = resumed \ {k}
        BY <1>0, <1>1, <3>2
      <3>3. QED BY <2>2, <3>1, <3>2 DEF ChangeJob, Disturb
    <2>3. QED BY <1>1, <2>1, <2>2 DEF Operate, ChangeFile
  <1>3. PICK b \in Attempt : Answers(attempt[b], i)
    BY <1>2 DEF EnabledInv
  <1>4. QED BY <1>0, <1>3, OperateWatches, WatchesKeeps DEF Answers

\* No job is left enabled in silence: not by a lost response, a crash between
\* create and pause, a race of attempts, or a rollback that says it is complete.
THEOREM EnabledJobsAreReported == InstallSpec => []EnabledIsReported
  <1>1. InstallInit => EnabledInv
    <2> SUFFICES ASSUME InstallInit, NEW i \in 1..MaxJobs PROVE jobs[i].state = "paused"
      BY DEF EnabledInv
    <2>1. CASE jobs = [k \in 1..MaxJobs |-> NoJob]
      BY <2>1 DEF NoJob
    <2>2. CASE jobs = [k \in 1..MaxJobs |->
                 IF k \in 1..2 THEN JobOf(StableNames[k], "prior", "paused") ELSE NoJob]
      <3>1. \A k \in 1..2 : JobOf(StableNames[k], "prior", "paused").state = "paused"
        BY JobsTyped
      <3>2. QED BY <2>2, <3>1 DEF NoJob
    <2>3. QED BY <2>1, <2>2 DEF InstallInit
  <1>2. InstallTyped /\ StagingInv /\ EnabledInv /\ [InstallNext]_installVars => EnabledInv'
    <2>1. ASSUME EnabledInv, UNCHANGED installVars PROVE EnabledInv'
      BY <2>1 DEF installVars, EnabledInv
    <2>2. QED BY <2>1, EnabledNext, EnabledDisturbed DEF InstallNext
  <1>3. EnabledInv => EnabledIsReported
    BY DEF EnabledInv, EnabledIsReported, Answers, Executing
  <1>4. QED BY <1>1, <1>2, <1>3, InstallHolds, StagingHolds, PTL DEF InstallSpec

-----------------------------------------------------------------------------
(* What an attempt expects of the jobs *)

\* The job that operation n of an attempt is about.
Target(me, n) == IF me.op = "install" THEN me.created[n] ELSE Bound(me, n)

\* What is to be seen of that job in a state.
Entry(me, n, state) == <<Target(me, n), JobOf(StableNames[n], "planned", state)>>

\* A view without what is seen under an identifier.
Without(view, i) == {p \in view : p[1] # i}

\* The view before the first operation.
Base(me) == IF me.op = "install" THEN {} ELSE me.snapshot

\* The view after operation n, which leaves one paused job under its identifier.
Replaced(view, me, n) == Without(view, Target(me, n)) \cup {Entry(me, n, "paused")}

\* The view after the first n operations.
After(me, n) ==
  IF n = 0 THEN Base(me)
  ELSE IF n = 1 THEN Replaced(Base(me), me, 1)
  ELSE Replaced(Replaced(Base(me), me, 1), me, 2)

\* What an attempt expects is what its finished operations make of the plan.
Expectation(me) ==
  /\ me.pc = "start" => me.step = 1
  /\ me.pc = "call" => me.expected = After(me, me.step - 1)
  /\ me.pc \in {"created", "pause"} =>
       me.expected = After(me, me.step - 1) \cup {Entry(me, me.step, "scheduled")}
  /\ me.pc = "settled" => me.expected = After(me, me.step)
  /\ me.pc = "verify" => me.expected = After(me, 2)

\* The two jobs of an install are two, and every one of them is among the n
\* that were given out.
Distinct(me, n) ==
  /\ \A k \in 1..2 : me.created[k] <= n
  /\ /\ me.op = "install"
     /\ \/ me.step = 2 /\ me.pc \in {"created", "pause", "settled"}
        \/ me.pc = "verify"
     => me.created[1] # me.created[2]

\* A plan sees one job under an identifier, and stable names only.
SnapshotOK(me) ==
  /\ \A p, q \in me.snapshot : p[1] = q[1] => p = q
  /\ \A p \in me.snapshot : p[2].name \in {"router", "courier"}

\* A view of the two jobs of this release, once each and paused.
PlannedIn(view) ==
  \E i, k \in 1..MaxJobs :
    view = {<<i, JobOf("router", "planned", "paused")>>,
            <<k, JobOf("courier", "planned", "paused")>>}

\* While nobody else has changed the jobs since the last read-back, they are
\* what the attempt takes them for.
Faithful(me, view) ==
  ~me.stale =>
    /\ me.pc \in {"planned", "write", "start"} => view = me.snapshot
    /\ me.pc \in {"call", "created", "pause", "settled", "verify"} => view = me.expected
    /\ me.result = "applied_paused" => PlannedIn(view)
    /\ me.result = "rolled_back" => view = me.snapshot

\* The inductive invariant behind the two reports of success.
Reporting(me, view, n) ==
  Expectation(me) /\ Distinct(me, n) /\ SnapshotOK(me) /\ Faithful(me, view)

\* It holds of every attempt.
ReportInv == \A a \in Attempt : Reporting(attempt[a], View(jobs), issued)

-----------------------------------------------------------------------------
(* Views *)

\* One job more, or another one, in a view.
LEMMA ViewWrite ==
  ASSUME NEW js \in [1..MaxJobs -> Job], NEW i \in 1..MaxJobs, NEW job \in Job, job # NoJob
  PROVE  /\ View([js EXCEPT ![i] = job]) = Without(View(js), i) \cup {<<i, job>>}
         /\ js[i] = NoJob => View([js EXCEPT ![i] = job]) = View(js) \cup {<<i, job>>}
  <1> DEFINE new == [js EXCEPT ![i] = job]
  <1>1. new \in [1..MaxJobs -> Job] /\ new[i] = job /\ \A k \in 1..MaxJobs \ {i} : new[k] = js[k]
    OBVIOUS
  <1> HIDE DEF new
  <1>2. /\ View(new) = {p \in (1..MaxJobs) \X Job : p[2] = new[p[1]] /\ p[2] # NoJob}
        /\ View(js) = {p \in (1..MaxJobs) \X Job : p[2] = js[p[1]] /\ p[2] # NoJob}
    BY <1>1, ViewTyped
  <1>3. ASSUME NEW p PROVE p \in View(new) <=> p \in {q \in View(js) : q[1] # i} \cup {<<i, job>>}
    <2>1. p \in View(new) <=> p \in (1..MaxJobs) \X Job /\ p[2] = new[p[1]] /\ p[2] # NoJob
      BY <1>2
    <2>2. p \in View(js) <=> p \in (1..MaxJobs) \X Job /\ p[2] = js[p[1]] /\ p[2] # NoJob
      BY <1>2
    <2>3. p \in (1..MaxJobs) \X Job => p = <<p[1], p[2]>> /\ p[1] \in 1..MaxJobs
      OBVIOUS
    <2>4. CASE p \in (1..MaxJobs) \X Job /\ p[1] = i
      BY <1>1, <2>1, <2>3, <2>4
    <2>5. CASE p \in (1..MaxJobs) \X Job /\ p[1] # i
      <3>1. p # <<i, job>>
        BY <2>5
      <3>2. QED BY <1>1, <2>1, <2>2, <2>3, <2>5, <3>1
    <2>6. CASE p \notin (1..MaxJobs) \X Job
      <3>1. p # <<i, job>>
        BY <2>6
      <3>2. QED BY <2>1, <2>2, <2>6, <3>1
    <2>7. QED BY <2>4, <2>5, <2>6
  <1>4. View(new) = Without(View(js), i) \cup {<<i, job>>}
    BY <1>3 DEF Without
  <1>5. ASSUME js[i] = NoJob PROVE Without(View(js), i) = View(js)
    BY <1>5, <1>2 DEF Without
  <1>6. QED BY <1>4, <1>5 DEF new

\* Each operation works on the view that the one before it left.
LEMMA AfterNext ==
  ASSUME NEW me, NEW n \in 1..2
  PROVE  After(me, n) = Replaced(After(me, n - 1), me, n)
  <1>1. CASE n = 1
    <2>1. n - 1 = 0
      BY <1>1
    <2>2. QED BY <1>1, <2>1 DEF After
  <1>2. CASE n = 2
    <2>1. n - 1 = 1
      BY <1>2
    <2>2. QED BY <1>2, <2>1 DEF After
  <1>3. QED BY <1>1, <1>2

\* What an attempt is about does not depend on where it is.
LEMMA Steady ==
  ASSUME NEW me \in AttemptState, NEW new \in AttemptState, Plannable(me.op, me.snapshot),
         new.op = me.op, new.snapshot = me.snapshot
  PROVE  /\ \A n \in 1..2 : new.created[n] = me.created[n] =>
              /\ Target(new, n) = Target(me, n)
              /\ \A state : Entry(new, n, state) = Entry(me, n, state)
              /\ \A view : Replaced(view, new, n) = Replaced(view, me, n)
         /\ After(new, 0) = After(me, 0)
         /\ new.created[1] = me.created[1] => After(new, 1) = After(me, 1)
         /\ new.created = me.created => After(new, 2) = After(me, 2)
  <1>0. me.op \in {"install", "upgrade"}
    BY AttemptStateIs DEF Op
  <1>1. ASSUME NEW n \in 1..2, new.created[n] = me.created[n]
        PROVE  Target(new, n) = Target(me, n)
    <2>1. CASE me.op = "install"
      BY <1>1, <2>1 DEF Target
    <2>2. CASE me.op = "upgrade"
      <3>1. PICK job \in Job : Named(me.snapshot, StableNames[n]) = {<<Bound(me, n), job>>}
        BY <2>2, BoundIsNamed
      <3>2. PICK job2 \in Job : Named(me.snapshot, StableNames[n]) = {<<Bound(new, n), job2>>}
        BY <2>2, BoundIsNamed
      <3>3. <<Bound(me, n), job>> = <<Bound(new, n), job2>>
        BY <3>1, <3>2
      <3>4. QED BY <2>2, <3>3 DEF Target
    <2>3. QED BY <1>0, <2>1, <2>2
  <1>2. ASSUME NEW n \in 1..2, new.created[n] = me.created[n]
        PROVE  /\ \A state : Entry(new, n, state) = Entry(me, n, state)
               /\ \A view : Replaced(view, new, n) = Replaced(view, me, n)
    BY <1>1, <1>2 DEF Entry, Replaced
  <1>3. Base(new) = Base(me)
    BY DEF Base
  <1>4. After(new, 0) = After(me, 0)
    BY <1>3 DEF After
  <1>5. ASSUME new.created[1] = me.created[1] PROVE After(new, 1) = After(me, 1)
    BY <1>2, <1>3, <1>5 DEF After
  <1>6. ASSUME new.created = me.created PROVE After(new, 2) = After(me, 2)
    BY <1>2, <1>3, <1>6 DEF After
  <1>7. QED BY <1>1, <1>2, <1>4, <1>5, <1>6

\* Somebody else's step can only make a view stale.
LEMMA WatchReports ==
  ASSUME InstallTyped, StagingInv, NEW b \in Attempt, Watches(b),
         Reporting(attempt[b], View(jobs), issued), issued' \in Nat, issued <= issued'
  PROVE  Reporting(attempt'[b], View(jobs'), issued')
  <1> DEFINE me == attempt[b]
             new == attempt'[b]
  <1>0. /\ TypeOK /\ me \in AttemptState /\ Placed(me) /\ issued \in Nat
        /\ me.created \in [1..2 -> 0..MaxJobs] /\ MaxJobs \in Nat
    BY InstallAssumption, AttemptStateIs DEF InstallTyped, TypeOK, Issued
  <1>1. /\ new \in AttemptState
        /\ new.pc = me.pc /\ new.op = me.op /\ new.snapshot = me.snapshot
        /\ new.expected = me.expected /\ new.step = me.step /\ new.created = me.created
        /\ new.result = me.result
    BY <1>0, WatchesKeeps
  <1>2. me.stale => new.stale
    BY DEF Watches
  <1>3. ~new.stale /\ me.pc # "idle" => jobs' = jobs
    BY DEF Watches
  <1>4. me.pc = "idle" => me.result = "none"
    BY DEF StagingInv
  <1>5. Distinct(new, issued')
    <2>1. \A k \in 1..2 : new.created[k] <= issued'
      <3> SUFFICES ASSUME NEW k \in 1..2 PROVE new.created[k] <= issued'
        OBVIOUS
      <3>1. me.created[k] <= issued /\ me.created[k] \in Nat
        BY <1>0 DEF Reporting, Distinct
      <3>2. QED BY <1>0, <1>1, <3>1
    <2>2. QED BY <1>1, <2>1 DEF Reporting, Distinct
  <1>6. SnapshotOK(new)
    BY <1>1 DEF Reporting, SnapshotOK
  <1>7. Expectation(new)
    <2>1. CASE me.pc = "idle"
      BY <1>1, <2>1 DEF Expectation
    <2>2. CASE me.pc \in {"call", "created", "pause", "settled", "verify"}
      <3>1. /\ Plannable(me.op, me.snapshot)
            /\ me.pc # "verify" => me.step \in 1..2
        BY <1>0, <2>2 DEF Placed, Executing
      <3>2. /\ \A n \in 0..2 : After(new, n) = After(me, n)
            /\ \A n \in 1..2 : \A state : Entry(new, n, state) = Entry(me, n, state)
        BY <1>0, <1>1, <3>1, Steady
      <3>3. QED BY <1>1, <2>2, <3>1, <3>2 DEF Reporting, Expectation
    <2>3. QED BY <1>1, <2>1, <2>2 DEF Reporting, Expectation
  <1>8. Faithful(new, View(jobs'))
    <2>1. CASE me.pc = "idle"
      BY <1>1, <1>4, <2>1 DEF Faithful
    <2>2. CASE me.pc # "idle"
      BY <1>1, <1>2, <1>3, <2>2 DEF Reporting, Faithful
    <2>3. QED BY <2>1, <2>2
  <1>9. QED BY <1>5, <1>6, <1>7, <1>8 DEF Reporting

\* An attempt that comes to an end has nothing to answer for but its report.
LEMMA EndReports ==
  ASSUME NEW me \in AttemptState, SnapshotOK(me), NEW n \in Nat, NEW view,
         NEW result \in Result,
         result = "applied_paused" /\ ~me.stale => PlannedIn(view),
         result = "rolled_back" /\ ~me.stale => view = me.snapshot
  PROVE  Reporting(Ended(me, result), view, n)
  <1> DEFINE new == Ended(me, result)
  <1>1. /\ new.pc = "done" /\ new.op = me.op /\ new.snapshot = me.snapshot
        /\ new.stale = me.stale /\ new.result = result
    BY AttemptFields
  <1>2. \A k \in 1..2 : new.created[k] = 0
    BY DEF Ended, AttemptIdle
  <1> HIDE DEF new
  <1>3. Reporting(new, view, n)
    BY <1>1, <1>2 DEF Reporting, Expectation, Distinct, SnapshotOK, Faithful
  <1>4. QED BY <1>3 DEF new

\* An attempt in its rollback expects nothing.
LEMMA RollbackReports ==
  ASSUME NEW me \in AttemptState, SnapshotOK(me), NEW n \in Nat, NEW view, me.result = "none",
         \A k \in 1..2 : me.created[k] <= n
  PROVE  /\ Reporting(Failing(me), view, n)
         /\ \A ok \in BOOLEAN : Reporting(RolledBack(me, ok), view, n)
  <1>1. ASSUME NEW new, new.pc \in {"rollback", "final"}, new.snapshot = me.snapshot,
               new.created = me.created, new.result = me.result
        PROVE  Reporting(new, view, n)
    BY <1>1 DEF Reporting, Expectation, Distinct, SnapshotOK, Faithful
  <1>2. Reporting(Failing(me), view, n)
    <2> DEFINE new == Failing(me)
    <2>1. /\ new.pc \in {"rollback", "final"} /\ new.snapshot = me.snapshot
          /\ new.created = me.created /\ new.result = me.result
      BY AttemptFields
    <2> HIDE DEF new
    <2>2. Reporting(new, view, n)
      BY <1>1, <2>1
    <2>3. QED BY <2>2 DEF new
  <1>3. ASSUME NEW ok \in BOOLEAN PROVE Reporting(RolledBack(me, ok), view, n)
    <2> DEFINE new == RolledBack(me, ok)
    <2>1. /\ new.pc \in {"rollback", "final"} /\ new.snapshot = me.snapshot
          /\ new.created = me.created /\ new.result = me.result
      BY AttemptFields
    <2> HIDE DEF new
    <2>2. Reporting(new, view, n)
      BY <1>1, <2>1
    <2>3. QED BY <2>2 DEF new
  <1>4. QED BY <1>2, <1>3

\* What is known of an attempt before it moves.
LEMMA Beforehand ==
  ASSUME InstallTyped, StagingInv, ReportInv, NEW a \in Attempt
  PROVE  /\ TypeOK /\ attempt[a] \in AttemptState /\ Placed(attempt[a]) /\ issued \in Nat
         /\ jobs \in [1..MaxJobs -> Job]
         /\ Reporting(attempt[a], View(jobs), issued)
         /\ \A k \in 1..2 : attempt[a].created[k] <= issued
         /\ SnapshotOK(attempt[a])
         /\ attempt[a].pc # "done" => attempt[a].result = "none"
         /\ attempt[a].created \in [1..2 -> 0..MaxJobs] /\ attempt[a].step \in 1..3
  BY AttemptStateIs
  DEF InstallTyped, TypeOK, StagingInv, ReportInv, Reporting, Distinct, Issued, Step

\* Planning and staging.
LEMMA StageReports ==
  ASSUME InstallTyped, StagingInv, ReportInv, NEW a \in Attempt,
         \/ Plan(a) \/ StageStart(a) \/ StageWrite(a) \/ StageFail(a) \/ StageRestore(a)
         \/ Crash(a)
  PROVE  Reporting(attempt'[a], View(jobs'), issued')
  <1> DEFINE me == attempt[a]
             view == View(jobs)
  <1>0. /\ TypeOK /\ me \in AttemptState /\ Placed(me) /\ issued \in Nat
        /\ jobs \in [1..MaxJobs -> Job] /\ Reporting(me, view, issued)
        /\ \A k \in 1..2 : me.created[k] <= issued
        /\ SnapshotOK(me) /\ (me.pc # "done" => me.result = "none") /\ me.step \in 1..3
    BY Beforehand
  <1>1. UNCHANGED <<jobs, issued>>
    BY DEF Plan, StageStart, StageWrite, StageFail, StageRestore, Crash
  <1>2. ASSUME NEW it, Becomes(a, it), Reporting(it, view, issued)
        PROVE  Reporting(attempt'[a], View(jobs'), issued')
    <2>1. attempt'[a] = it
      BY <1>0, <1>1, <1>2, AttemptWrites DEF Moves
    <2>2. QED BY <1>1, <1>2, <2>1
  <1> HIDE DEF view
  <1>3. CASE Plan(a)
    <2>1. PICK op \in {"install", "upgrade"} :
            Becomes(a, [AttemptIdle EXCEPT !.pc = "planned", !.op = op, !.snapshot = view])
      BY <1>3 DEF Plan, Visible, view
    <2> DEFINE it == [AttemptIdle EXCEPT !.pc = "planned", !.op = op, !.snapshot = view]
    <2>2. /\ it.pc = "planned" /\ it.snapshot = view /\ it.result = "none"
          /\ \A k \in 1..2 : it.created[k] = 0
      BY DEF AttemptIdle
    <2> HIDE DEF it
    <2>3. SnapshotOK(it)
      <3>1. view = {p \in (1..MaxJobs) \X Job : p[2] = jobs[p[1]] /\ p[2] # NoJob}
        BY <1>0, ViewTyped DEF view
      <3>2. \A i \in 1..MaxJobs : jobs[i] # NoJob => jobs[i].name \in {"router", "courier"}
        BY <1>0 DEF TypeOK, Job
      <3>3. \A p \in view : p[1] \in 1..MaxJobs /\ p[2] = jobs[p[1]] /\ p[2] # NoJob
                              /\ p = <<p[1], p[2]>>
        BY <3>1
      <3>4. QED BY <2>2, <3>2, <3>3 DEF SnapshotOK
    <2>4. Reporting(it, view, issued)
      BY <1>0, <2>2, <2>3 DEF Reporting, Expectation, Distinct, Faithful
    <2>5. QED BY <1>2, <2>1, <2>4 DEF it
  <1>4. CASE StageStart(a)
    <2> DEFINE it == [me EXCEPT !.pc = "write", !.previous = files]
    <2>1. /\ it.pc = "write" /\ it.snapshot = me.snapshot /\ it.created = me.created
          /\ it.stale = me.stale /\ it.result = me.result
      BY <1>0, AttemptStateIs
    <2>2. me.pc = "planned" /\ Becomes(a, it)
      BY <1>4 DEF StageStart
    <2> HIDE DEF it
    <2>3. Reporting(it, view, issued)
      BY <1>0, <2>1, <2>2 DEF Reporting, Expectation, Distinct, Faithful, SnapshotOK
    <2>4. QED BY <1>2, <2>2, <2>3
  <1>5. CASE StageWrite(a)
    <2> DEFINE next == [me EXCEPT !.step = me.step + 1]
               last == [me EXCEPT !.pc = "start", !.step = 1, !.previous = AttemptIdle.previous]
    <2>1. /\ next.pc = me.pc /\ next.snapshot = me.snapshot /\ next.created = me.created
          /\ next.stale = me.stale /\ next.result = me.result
          /\ last.pc = "start" /\ last.snapshot = me.snapshot /\ last.created = me.created
          /\ last.stale = me.stale /\ last.result = me.result /\ last.step = 1
      BY <1>0, AttemptStateIs
    <2>2. me.pc = "write" /\ (Becomes(a, next) \/ Becomes(a, last))
      BY <1>5 DEF StageWrite
    <2> HIDE DEF next, last
    <2>3. Reporting(next, view, issued) /\ Reporting(last, view, issued)
      BY <1>0, <2>1, <2>2 DEF Reporting, Expectation, Distinct, Faithful, SnapshotOK
    <2>4. QED BY <1>2, <2>2, <2>3
  <1>6. CASE StageFail(a)
    <2> DEFINE it == [me EXCEPT !.pc = "restore"]
    <2>1. /\ it.pc = "restore" /\ it.snapshot = me.snapshot /\ it.created = me.created
          /\ it.result = me.result
      BY <1>0, AttemptStateIs
    <2>2. me.pc = "write" /\ Becomes(a, it)
      BY <1>6 DEF StageFail
    <2> HIDE DEF it
    <2>3. Reporting(it, view, issued)
      BY <1>0, <2>1, <2>2 DEF Reporting, Expectation, Distinct, Faithful, SnapshotOK
    <2>4. QED BY <1>2, <2>2, <2>3
  <1>7. CASE StageRestore(a) \/ Crash(a)
    <2>1. PICK result \in {"stage_failed", "stage_rollback_failed", "stage_crashed", "crashed"} :
            Becomes(a, Ended(me, result))
      BY <1>7 DEF StageRestore, Crash
    <2>2. result \in Result
      BY DEF Result
    <2>3. Reporting(Ended(me, result), view, issued)
      BY <1>0, <2>1, <2>2, EndReports
    <2>4. QED BY <1>2, <2>1, <2>3
  <1>8. QED BY <1>3, <1>4, <1>5, <1>6, <1>7

\* The two jobs that an attempt which has done both operations looks for are all.
LEMMA PlannedAfter ==
  ASSUME NEW me \in AttemptState, Plannable(me.op, me.snapshot), SnapshotOK(me),
         me.op = "install" => me.created[1] # me.created[2],
         NEW view \in SUBSET ((1..MaxJobs) \X Job), view = After(me, 2)
  PROVE  PlannedIn(view)
  <1> DEFINE t1 == Target(me, 1)
             t2 == Target(me, 2)
             e1 == <<t1, JobOf("router", "planned", "paused")>>
             e2 == <<t2, JobOf("courier", "planned", "paused")>>
  <1>1. After(me, 2) = Without(Without(Base(me), t1) \cup {e1}, t2) \cup {e2}
    BY Names DEF After, Replaced, Entry
  <1>2. SUFFICES ASSUME t1 # t2, \A p \in Base(me) : p[1] = t1 \/ p[1] = t2
                 PROVE  PlannedIn(view)
    <2>1. me.op \in {"install", "upgrade"}
      BY AttemptStateIs DEF Op
    <2>2. CASE me.op = "install"
      BY <1>2, <2>2 DEF Target, Base
    <2>3. CASE me.op = "upgrade"
      <3>1. PICK j1 \in Job :
              Named(me.snapshot, "router") = {<<t1, j1>>} /\ <<t1, j1>> \in me.snapshot
                /\ j1.name = "router"
        <4>1. t1 = Bound(me, 1) /\ Plannable("upgrade", me.snapshot) /\ 1 \in 1..2
          BY <2>3 DEF Target
        <4> HIDE DEF t1
        <4>2. QED BY <4>1, BoundIsNamed, Names
      <3>2. PICK j2 \in Job :
              Named(me.snapshot, "courier") = {<<t2, j2>>} /\ <<t2, j2>> \in me.snapshot
                /\ j2.name = "courier"
        <4>1. t2 = Bound(me, 2) /\ Plannable("upgrade", me.snapshot) /\ 2 \in 1..2
          BY <2>3 DEF Target
        <4> HIDE DEF t2
        <4>2. QED BY <4>1, BoundIsNamed, Names
      <3>3. t1 # t2
        <4>1. SUFFICES ASSUME t1 = t2 PROVE FALSE
          OBVIOUS
        <4>2. <<t1, j1>> = <<t2, j2>>
          BY <3>1, <3>2, <4>1 DEF SnapshotOK
        <4>3. QED BY <3>1, <3>2, <4>2
      <3>4. ASSUME NEW p \in me.snapshot PROVE p[1] = t1 \/ p[1] = t2
        <4>1. p \in Named(me.snapshot, "router") \/ p \in Named(me.snapshot, "courier")
          BY DEF SnapshotOK, Named
        <4>2. p = <<t1, j1>> \/ p = <<t2, j2>>
          BY <3>1, <3>2, <4>1
        <4>3. QED BY <4>2
      <3>5. QED BY <1>2, <2>3, <3>3, <3>4 DEF Base
    <2>4. QED BY <2>1, <2>2, <2>3
  <1> HIDE DEF t1, t2
  <1>3. view = {e1, e2}
    <2>1. e1[1] = t1 /\ e2[1] = t2
      OBVIOUS
    <2>2. ASSUME NEW p PROVE p \in After(me, 2) <=> p = e1 \/ p = e2
      BY <1>1, <1>2, <2>1 DEF Without
    <2>3. QED BY <2>2
  <1>4. t1 \in 1..MaxJobs /\ t2 \in 1..MaxJobs
    <2>1. e1 \in (1..MaxJobs) \X Job /\ e2 \in (1..MaxJobs) \X Job
      BY <1>3
    <2>2. QED BY <2>1
  <1>5. QED BY <1>3, <1>4 DEF PlannedIn

\* The steps of the executor that leave the jobs alone.
LEMMA LookReports ==
  ASSUME InstallTyped, StagingInv, ReportInv, NEW a \in Attempt,
         ExecStart(a) \/ ExecCreated(a) \/ ExecSettled(a) \/ ExecVerify(a) \/ ExecFinal(a)
  PROVE  Reporting(attempt'[a], View(jobs'), issued')
  <1> DEFINE me == attempt[a]
             view == View(jobs)
             n == me.step
  <1>0. /\ TypeOK /\ me \in AttemptState /\ Placed(me) /\ issued \in Nat
        /\ jobs \in [1..MaxJobs -> Job] /\ Reporting(me, view, issued)
        /\ \A k \in 1..2 : me.created[k] <= issued
        /\ SnapshotOK(me) /\ (me.pc # "done" => me.result = "none")
    BY Beforehand
  <1>1. UNCHANGED <<jobs, issued>>
    BY DEF ExecStart, ExecCreated, ExecSettled, ExecVerify, ExecFinal
  <1>2. ASSUME NEW it, Becomes(a, it), Reporting(it, view, issued)
        PROVE  Reporting(attempt'[a], View(jobs'), issued')
    <2>1. attempt'[a] = it
      BY <1>0, <1>1, <1>2, AttemptWrites DEF Moves
    <2>2. QED BY <1>1, <1>2, <2>1
  <1>3. /\ Plannable(me.op, me.snapshot) /\ n \in 1..2 /\ me.result = "none"
        /\ me.pc \in Executing
    BY <1>0 DEF Placed, Executing, ExecStart, ExecCreated, ExecSettled, ExecVerify, ExecFinal
  <1>4. Reporting(Failing(me), view, issued)
    BY <1>0, <1>3, RollbackReports
  <1>5. CASE ExecStart(a)
    <2> DEFINE ready == [me EXCEPT !.pc = "call", !.expected = me.snapshot, !.stale = FALSE]
               kept  == [ready EXCEPT !.stale = me.stale]
    <2>1. /\ ready.pc = "call" /\ ready.op = me.op /\ ready.snapshot = me.snapshot
          /\ ready.expected = me.snapshot /\ ready.step = n /\ ready.created = me.created
          /\ ready.stale = FALSE /\ ready.result = me.result
          /\ kept.pc = "call" /\ kept.op = me.op /\ kept.snapshot = me.snapshot
          /\ kept.expected = me.snapshot /\ kept.step = n /\ kept.created = me.created
          /\ kept.stale = me.stale /\ kept.result = me.result
      BY <1>0, AttemptStateIs
    <2>2. /\ me.pc = "start"
          /\ \/ me.op = "install" /\ Becomes(a, kept)
             \/ me.op = "upgrade" /\ view = me.snapshot /\ Becomes(a, ready)
             \/ Becomes(a, Ended(me, "refused"))
      BY <1>5 DEF ExecStart, Matches, Visible
    <2>3. ready \in AttemptState /\ kept \in AttemptState
      <3>1. "call" \in Place
        BY DEF Place, Executing
      <3>2. QED BY <1>0, <3>1, AttemptStateIs
    <2> HIDE DEF ready, kept
    <2>4. n = 1 /\ me.snapshot = After(me, n - 1)
      <3>1. n = 1
        BY <1>0, <2>2 DEF Reporting, Expectation
      <3>2. After(me, 0) = Base(me)
        BY DEF After
      <3>3. me.snapshot = Base(me)
        BY <1>3 DEF Base, Plannable
      <3>4. QED BY <3>1, <3>2, <3>3
    <2>5. After(kept, n - 1) = After(me, n - 1) /\ After(ready, n - 1) = After(me, n - 1)
      BY <1>0, <1>3, <2>1, <2>3, <2>4, Steady
    <2>6. ASSUME me.op = "install" PROVE Reporting(kept, view, issued)
      <3>1. Expectation(kept)
        BY <2>1, <2>4, <2>5 DEF Expectation
      <3>2. Faithful(kept, view)
        BY <1>0, <1>3, <2>1, <2>2 DEF Reporting, Faithful
      <3>3. Distinct(kept, issued) /\ SnapshotOK(kept)
        BY <1>0, <2>1, <2>4 DEF Distinct, SnapshotOK
      <3>4. QED BY <3>1, <3>2, <3>3 DEF Reporting
    <2>7. ASSUME view = me.snapshot PROVE Reporting(ready, view, issued)
      <3>1. Expectation(ready)
        BY <2>1, <2>4, <2>5 DEF Expectation
      <3>2. Faithful(ready, view)
        BY <1>3, <2>1, <2>7 DEF Faithful
      <3>3. Distinct(ready, issued) /\ SnapshotOK(ready)
        BY <1>0, <2>1, <2>4 DEF Distinct, SnapshotOK
      <3>4. QED BY <3>1, <3>2, <3>3 DEF Reporting
    <2>8. Reporting(Ended(me, "refused"), view, issued)
      BY <1>0, EndReports DEF Result
    <2>9. QED BY <1>2, <2>2, <2>6, <2>7, <2>8
  <1>6. CASE ExecCreated(a)
    <2> DEFINE it == [me EXCEPT !.pc = "pause", !.stale = FALSE]
    <2>1. /\ me.pc = "created"
          /\ (view = me.expected /\ Becomes(a, it)) \/ Becomes(a, Failing(me))
      <3>1. [[me EXCEPT !.pc = "pause"] EXCEPT !.stale = FALSE] = it
        BY <1>0, AttemptStateIs
      <3>2. QED BY <1>6, <3>1 DEF ExecCreated, Reads, Matches, Visible
    <2>2. /\ it.pc = "pause" /\ it.op = me.op /\ it.snapshot = me.snapshot
          /\ it.expected = me.expected /\ it.step = n /\ it.created = me.created
          /\ it.stale = FALSE /\ it.result = me.result
      BY <1>0, AttemptStateIs
    <2>3. it \in AttemptState
      <3>1. "pause" \in Place
        BY DEF Place, Executing
      <3>2. QED BY <1>0, <3>1, AttemptStateIs
    <2> HIDE DEF it
    <2>4. /\ After(it, n - 1) = After(me, n - 1)
          /\ Entry(it, n, "scheduled") = Entry(me, n, "scheduled")
      <3>1. n - 1 = 0 \/ n - 1 = 1
        BY <1>3
      <3>2. QED BY <1>0, <1>3, <2>2, <2>3, <3>1, Steady
    <2>5. ASSUME view = me.expected PROVE Reporting(it, view, issued)
      <3>1. Expectation(it)
        BY <1>0, <2>1, <2>2, <2>4 DEF Reporting, Expectation
      <3>2. Faithful(it, view)
        BY <1>3, <2>2, <2>5 DEF Faithful
      <3>3. Distinct(it, issued) /\ SnapshotOK(it)
        BY <1>0, <2>1, <2>2 DEF Reporting, Distinct, SnapshotOK
      <3>4. QED BY <3>1, <3>2, <3>3 DEF Reporting
    <2>6. QED BY <1>2, <1>4, <2>1, <2>5
  <1>7. CASE ExecSettled(a)
    <2> DEFINE next == [me EXCEPT !.pc = "call", !.step = 2, !.stale = FALSE]
               last == [me EXCEPT !.pc = "verify", !.stale = FALSE]
    <2>1. /\ me.pc = "settled"
          /\ \/ n < 2 /\ view = me.expected /\ Becomes(a, next)
             \/ n >= 2 /\ view = me.expected /\ Becomes(a, last)
             \/ Becomes(a, Failing(me))
      <3>1. /\ [[me EXCEPT !.pc = "call", !.step = 2] EXCEPT !.stale = FALSE] = next
            /\ [[me EXCEPT !.pc = "verify"] EXCEPT !.stale = FALSE] = last
        BY <1>0, AttemptStateIs
      <3>2. n < 2 \/ n >= 2
        BY <1>3
      <3>3. QED BY <1>7, <3>1, <3>2 DEF ExecSettled, Reads, Matches, Visible
    <2>2. /\ next.pc = "call" /\ next.op = me.op /\ next.snapshot = me.snapshot
          /\ next.expected = me.expected /\ next.step = 2 /\ next.created = me.created
          /\ next.stale = FALSE /\ next.result = me.result
          /\ last.pc = "verify" /\ last.op = me.op /\ last.snapshot = me.snapshot
          /\ last.expected = me.expected /\ last.step = n /\ last.created = me.created
          /\ last.stale = FALSE /\ last.result = me.result
      BY <1>0, AttemptStateIs
    <2>3. next \in AttemptState /\ last \in AttemptState
      <3>1. "call" \in Place /\ "verify" \in Place /\ 2 \in Step
        BY DEF Place, Executing, Step
      <3>2. QED BY <1>0, <3>1, AttemptStateIs
    <2> HIDE DEF next, last
    <2>4. After(next, 1) = After(me, 1) /\ After(last, 2) = After(me, 2)
      BY <1>0, <1>3, <2>2, <2>3, Steady
    <2>5. me.expected = After(me, n)
      BY <1>0, <2>1 DEF Reporting, Expectation
    <2>6. ASSUME n < 2, view = me.expected PROVE Reporting(next, view, issued)
      <3>1. n = 1
        BY <1>3, <2>6
      <3>2. Expectation(next)
        BY <2>2, <2>4, <2>5, <3>1 DEF Expectation
      <3>3. Faithful(next, view)
        BY <1>3, <2>2, <2>6 DEF Faithful
      <3>4. Distinct(next, issued) /\ SnapshotOK(next)
        BY <1>0, <2>2 DEF Distinct, SnapshotOK
      <3>5. QED BY <3>2, <3>3, <3>4 DEF Reporting
    <2>7. ASSUME n >= 2, view = me.expected PROVE Reporting(last, view, issued)
      <3>1. n = 2
        BY <1>3, <2>7
      <3>2. Expectation(last)
        BY <2>2, <2>4, <2>5, <3>1 DEF Expectation
      <3>3. Faithful(last, view)
        BY <1>3, <2>2, <2>7 DEF Faithful
      <3>4. Distinct(last, issued) /\ SnapshotOK(last)
        BY <1>0, <2>1, <2>2, <3>1 DEF Reporting, Distinct, SnapshotOK
      <3>5. QED BY <3>2, <3>3, <3>4 DEF Reporting
    <2>8. QED BY <1>2, <1>4, <2>1, <2>6, <2>7
  <1>8. CASE ExecVerify(a)
    <2>1. /\ me.pc = "verify"
          /\ Becomes(a, Ended(me, "applied_paused")) \/ Becomes(a, Failing(me))
      BY <1>8 DEF ExecVerify
    <2>2. ASSUME ~me.stale PROVE PlannedIn(view)
      <3>1. view = After(me, 2) /\ (me.op = "install" => me.created[1] # me.created[2])
        BY <1>0, <2>1, <2>2 DEF Reporting, Expectation, Faithful, Distinct
      <3>2. view \in SUBSET ((1..MaxJobs) \X Job)
        BY <1>0, ViewTyped
      <3>3. QED BY <1>0, <1>3, <3>1, <3>2, PlannedAfter
    <2>3. Reporting(Ended(me, "applied_paused"), view, issued)
      BY <1>0, <2>2, EndReports DEF Result
    <2>4. QED BY <1>2, <1>4, <2>1, <2>3
  <1>9. CASE ExecFinal(a)
    <2> DEFINE old == [me EXCEPT !.stale = FALSE]
    <2>1. /\ old \in AttemptState /\ old.snapshot = me.snapshot /\ old.op = me.op
      BY <1>0, AttemptStateIs
    <2>2. \/ view = old.snapshot /\ Becomes(a, Ended(old, "rolled_back"))
          \/ Becomes(a, Ended(old, "rollback_failed"))
      BY <1>9 DEF ExecFinal, Restores, Matches, Visible
    <2> HIDE DEF old
    <2>3. SnapshotOK(old)
      BY <1>0, <2>1 DEF SnapshotOK
    <2>4. view = old.snapshot => Reporting(Ended(old, "rolled_back"), view, issued)
      BY <1>0, <2>1, <2>3, EndReports DEF Result
    <2>5. Reporting(Ended(old, "rollback_failed"), view, issued)
      BY <1>0, <2>1, <2>3, EndReports DEF Result
    <2>6. QED BY <1>2, <2>2, <2>4, <2>5
  <1>10. QED BY <1>5, <1>6, <1>7, <1>8, <1>9

\* What is seen under an identifier is the job that has it.
LEMMA Seen ==
  ASSUME NEW js \in [1..MaxJobs -> Job], NEW i \in 1..MaxJobs, NEW job \in Job,
         <<i, job>> \in View(js)
  PROVE  js[i] = job
  <1>1. \A k \in 1..MaxJobs, j \in Job : <<k, j>> \in View(js) <=> j = js[k] /\ j # NoJob
    BY ViewTyped
  <1>2. QED BY <1>1

\* A job that the plan has bound is still there under its name, when the jobs
\* are what the operations before its own have made of them; its update is then
\* what the next read-back expects.
LEMMA UpdateIsSeen ==
  ASSUME NEW me \in AttemptState, me.op = "upgrade", Plannable(me.op, me.snapshot),
         SnapshotOK(me), NEW n \in 1..2
  PROVE  /\ Bound(me, n) \in 1..MaxJobs /\ Bound(me, n) = Target(me, n)
         /\ \A js \in [1..MaxJobs -> Job] :
              View(js) = After(me, n - 1) /\ js[Bound(me, n)].state = "paused" =>
                View([js EXCEPT ![Bound(me, n)] =
                        [js[Bound(me, n)] EXCEPT !.release = "planned", !.edited = FALSE]])
                  = Without(View(js), Bound(me, n)) \cup {Entry(me, n, "paused")}
  <1> DEFINE i == Bound(me, n)
  <1>1. PICK job \in Job : <<i, job>> \in me.snapshot /\ job.name = StableNames[n]
    BY BoundIsNamed
  <1>2. i \in 1..MaxJobs /\ i = Target(me, n)
    BY BoundIsNamed DEF Target
  <1>3. <<i, job>> \in After(me, n - 1)
    <2>1. CASE n = 1
      <3>1. n - 1 = 0
        BY <2>1
      <3>2. QED BY <1>1, <3>1 DEF After, Base
    <2>2. CASE n = 2
      <3>1. 1 \in 1..2
        OBVIOUS
      <3>2. PICK job1 \in Job :
              <<Bound(me, 1), job1>> \in me.snapshot /\ job1.name = StableNames[1]
        BY <3>1, BoundIsNamed
      <3>3. i # Bound(me, 1)
        <4>1. <<i, job>> # <<Bound(me, 1), job1>>
          BY <1>1, <2>2, <3>2, Names
        <4>2. QED BY <1>1, <3>2, <4>1 DEF SnapshotOK
      <3>4. n - 1 = 1
        BY <2>2
      <3>5. QED BY <1>1, <3>3, <3>4 DEF After, Base, Replaced, Without, Target
    <2>3. QED BY <2>1, <2>2
  <1> HIDE DEF i
  <1>4. ASSUME NEW js \in [1..MaxJobs -> Job], View(js) = After(me, n - 1),
               js[i].state = "paused"
        PROVE  View([js EXCEPT ![i] = [js[i] EXCEPT !.release = "planned", !.edited = FALSE]])
                 = Without(View(js), i) \cup {Entry(me, n, "paused")}
    <2> DEFINE new == [js[i] EXCEPT !.release = "planned", !.edited = FALSE]
    <2>1. js[i] = job
      BY <1>2, <1>3, <1>4, Seen
    <2>2. new = JobOf(StableNames[n], "planned", "paused")
      <3>1. new = [name |-> js[i].name, release |-> "planned", edited |-> FALSE,
                   state |-> js[i].state]
        BY <2>1, JobFields
      <3>2. QED BY <1>1, <1>4, <2>1, <3>1 DEF JobOf
    <2>3. new \in Job /\ new # NoJob /\ <<i, new>> = Entry(me, n, "paused")
      BY <1>2, <2>2, JobsTyped DEF Entry
    <2> HIDE DEF new
    <2>4. View([js EXCEPT ![i] = new]) = Without(View(js), i) \cup {<<i, new>>}
      BY <1>2, <2>3, ViewWrite
    <2>5. QED BY <2>3, <2>4 DEF new
  <1>5. QED BY <1>2, <1>4 DEF i

\* The same for the pause of a job that was just seen.
LEMMA PauseIsSeen ==
  ASSUME NEW js \in [1..MaxJobs -> Job], NEW me, NEW n \in 1..2, Target(me, n) \in 1..MaxJobs,
         Entry(me, n, "scheduled") \in View(js)
  PROVE  View([js EXCEPT ![Target(me, n)].state = "paused"])
           = Without(View(js), Target(me, n)) \cup {Entry(me, n, "paused")}
  <1> DEFINE i == Target(me, n)
             old == JobOf(StableNames[n], "planned", "scheduled")
             new == JobOf(StableNames[n], "planned", "paused")
  <1>1. old \in Job /\ new \in Job /\ new # NoJob /\ [old EXCEPT !.state = "paused"] = new
    <2>1. /\ old \in Job /\ new \in Job /\ new # NoJob
          /\ old.name = StableNames[n] /\ old.release = "planned" /\ old.edited = FALSE
      BY JobsTyped DEF JobOf
    <2> HIDE DEF old
    <2>2. [old EXCEPT !.state = "paused"] = new
      BY <2>1, JobFields DEF JobOf
    <2>3. QED BY <2>1, <2>2
  <1>2. <<i, old>> = Entry(me, n, "scheduled") /\ <<i, new>> = Entry(me, n, "paused")
    BY DEF Entry
  <1> HIDE DEF i, old, new
  <1>3. i \in 1..MaxJobs
    BY DEF i
  <1>4. js[i] = old
    <2>1. <<i, old>> \in View(js)
      BY <1>2
    <2>2. QED BY <1>1, <1>3, <2>1, Seen
  <1>5. [js EXCEPT ![i].state = "paused"] = [js EXCEPT ![i] = new]
    BY <1>1, <1>4
  <1>6. View([js EXCEPT ![i] = new]) = Without(View(js), i) \cup {<<i, new>>}
    BY <1>1, <1>3, ViewWrite
  <1>7. QED BY <1>2, <1>5, <1>6 DEF i

\* The calls of the cronjob tool.
LEMMA CallReports ==
  ASSUME InstallTyped, StagingInv, ReportInv, NEW a \in Attempt,
         ExecCreate(a) \/ ExecUpdate(a) \/ ExecPause(a) \/ RollbackRemove(a) \/ RollbackUpdate(a)
  PROVE  Reporting(attempt'[a], View(jobs'), issued')
  <1> DEFINE me == attempt[a]
             view == View(jobs)
             n == me.step
  <1>0. /\ TypeOK /\ me \in AttemptState /\ Placed(me) /\ issued \in Nat
        /\ jobs \in [1..MaxJobs -> Job] /\ Reporting(me, view, issued)
        /\ \A k \in 1..2 : me.created[k] <= issued
        /\ SnapshotOK(me) /\ (me.pc # "done" => me.result = "none")
        /\ me.created \in [1..2 -> 0..MaxJobs]
    BY Beforehand
  <1>1. ASSUME NEW it, (Becomes(a, it) /\ UNCHANGED jobs) \/ (\E js : Acts(a, it, js)),
               Reporting(it, View(jobs'), issued')
        PROVE  Reporting(attempt'[a], View(jobs'), issued')
    BY <1>0, <1>1, AttemptWrites DEF Moves
  <1>2. /\ Plannable(me.op, me.snapshot) /\ n \in 1..2 /\ me.result = "none"
        /\ me.pc \in Executing
    BY <1>0 DEF Placed, Executing, ExecCreate, ExecUpdate, ExecPause, RollbackRemove,
       RollbackUpdate
  <1>3. ASSUME NEW m \in Nat, issued <= m
        PROVE  /\ \A js : Reporting(Failing(me), js, m)
               /\ \A js : \A ok \in BOOLEAN : Reporting(RolledBack(me, ok), js, m)
    <2>1. \A k \in 1..2 : me.created[k] <= m
      BY <1>0, <1>3
    <2>2. QED BY <1>0, <1>2, <2>1, RollbackReports
  <1>4. /\ n - 1 \in 0..1 /\ After(me, n) = Replaced(After(me, n - 1), me, n)
    BY <1>2, AfterNext
  <1>5. CASE ExecCreate(a)
    <2> DEFINE id  == issued + 1
               job == JobOf(StableNames[n], "planned", "scheduled")
               it  == [me EXCEPT !.pc = "created", !.created[n] = id,
                                 !.expected = me.expected \cup {<<id, job>>}]
    <2>1. /\ me.pc = "call" /\ me.op = "install"
          /\ \/ /\ issued < MaxJobs /\ issued' = id /\ jobs' = [jobs EXCEPT ![id] = job]
                /\ \/ Acts(a, it, [jobs EXCEPT ![id] = job])
                   \/ Acts(a, Failing(me), [jobs EXCEPT ![id] = job])
             \/ Becomes(a, Failing(me)) /\ UNCHANGED <<jobs, issued>>
      BY <1>5 DEF ExecCreate, Acts
    <2>2. CASE Becomes(a, Failing(me)) /\ UNCHANGED <<jobs, issued>>
      BY <1>0, <1>1, <1>3, <2>2
    <2>3. ASSUME issued < MaxJobs PROVE Reporting(it, View([jobs EXCEPT ![id] = job]), id)
      <3>1. id \in 1..MaxJobs /\ job \in Job /\ job # NoJob /\ id \in Nat /\ issued <= id
        BY <1>0, <1>2, <2>3, JobsTyped, InstallAssumption
      <3>2. [me.created EXCEPT ![n] = id] \in Issued
        BY <1>0, <1>2, <3>1 DEF Issued
      <3>3. me.expected \cup {<<id, job>>} \in Views
        BY <1>0, <3>1, AttemptStateIs DEF Views
      <3>4. it = [me EXCEPT !.pc = "created", !.created = [me.created EXCEPT ![n] = id],
                            !.expected = me.expected \cup {<<id, job>>}]
        BY <1>0, AttemptStateIs
      <3>5. it \in AttemptState
        <4>1. "created" \in Place
          BY DEF Place, Executing
        <4>2. QED BY <1>0, <3>2, <3>3, <3>4, <4>1, AttemptStateIs
      <3>6. /\ it.pc = "created" /\ it.step = n /\ it.op = me.op /\ it.snapshot = me.snapshot
            /\ it.created = [me.created EXCEPT ![n] = id] /\ it.stale = me.stale
            /\ it.result = me.result /\ it.expected = me.expected \cup {<<id, job>>}
        BY <1>0, <3>4, AttemptStateIs
      <3> HIDE DEF it, id, job
      <3>7. me.expected = After(me, n - 1)
        BY <1>0, <2>1 DEF Reporting, Expectation
      <3>8. it.created[n] = id /\ \A k \in 1..2 \ {n} : it.created[k] = me.created[k]
        BY <1>0, <1>2, <3>6
      <3>9. After(it, n - 1) = After(me, n - 1)
        <4>1. n - 1 = 0 \/ (n - 1 = 1 /\ it.created[1] = me.created[1])
          BY <1>2, <3>8
        <4>2. QED BY <1>0, <1>2, <3>5, <3>6, <4>1, Steady
      <3>10. Entry(it, n, "scheduled") = <<id, job>>
        BY <2>1, <3>6, <3>8 DEF Entry, Target, job
      <3>11. Expectation(it)
        BY <3>6, <3>7, <3>9, <3>10 DEF Expectation
      <3>12. Distinct(it, id)
        <4>1. \A k \in 1..2 : it.created[k] <= id
          BY <1>0, <3>1, <3>8
        <4>2. n = 2 => it.created[1] # it.created[2]
          <5>1. id = issued + 1
            BY DEF id
          <5>2. QED BY <1>0, <3>8, <5>1
        <4>3. QED BY <3>6, <4>1, <4>2 DEF Distinct
      <3>13. SnapshotOK(it)
        BY <1>0, <3>6 DEF SnapshotOK
      <3>14. Faithful(it, View([jobs EXCEPT ![id] = job]))
        <4>1. jobs[id] = NoJob
          <5>1. id = issued + 1
            BY DEF id
          <5>2. QED BY <1>0, <3>1, <5>1 DEF TypeOK
        <4>2. View([jobs EXCEPT ![id] = job]) = view \cup {<<id, job>>}
          BY <1>0, <3>1, <4>1, ViewWrite
        <4>3. ~me.stale => view = me.expected
          BY <1>0, <2>1 DEF Reporting, Faithful
        <4>4. QED BY <1>2, <3>6, <4>2, <4>3 DEF Faithful
      <3>15. Reporting(it, View([jobs EXCEPT ![id] = job]), id)
        BY <3>11, <3>12, <3>13, <3>14 DEF Reporting
      <3>16. QED BY <3>15 DEF it, id, job
    <2>4. ASSUME issued < MaxJobs, issued' = id, jobs' = [jobs EXCEPT ![id] = job],
                 \/ Acts(a, it, [jobs EXCEPT ![id] = job])
                 \/ Acts(a, Failing(me), [jobs EXCEPT ![id] = job])
          PROVE  Reporting(attempt'[a], View(jobs'), issued')
      <3>1. id \in Nat /\ issued <= id
        BY <1>0
      <3> HIDE DEF it, id, job
      <3>2. Reporting(it, View(jobs'), issued') /\ Reporting(Failing(me), View(jobs'), issued')
        BY <1>3, <2>3, <2>4, <3>1
      <3>3. QED BY <1>1, <2>4, <3>2
    <2>5. QED BY <2>1, <2>2, <2>4
  <1>6. ASSUME NEW i \in 1..MaxJobs, i = Target(me, n),
               Without(me.expected, i) = Without(After(me, n - 1), i),
               NEW js, ~me.stale => View(js) = Without(view, i) \cup {Entry(me, n, "paused")},
               ~me.stale => view = me.expected,
               me.op = "install" /\ n = 2 => me.created[1] # me.created[2]
        PROVE  Reporting([me EXCEPT !.pc = "settled",
                            !.expected = Without(me.expected, i)
                                           \cup {Entry(me, n, "paused")}], View(js), issued)
    <2> DEFINE exp == Without(me.expected, i) \cup {Entry(me, n, "paused")}
               it == [me EXCEPT !.pc = "settled", !.expected = exp]
    <2>1. exp \in Views
      <3>1. Entry(me, n, "paused") \in (1..MaxJobs) \X Job
        BY <1>2, <1>6, JobsTyped DEF Entry
      <3>2. QED BY <1>0, <3>1, AttemptStateIs DEF Views, Without
    <2>2. exp = After(me, n)
      BY <1>4, <1>6 DEF Replaced
    <2>3. ~me.stale => View(js) = exp
      BY <1>6
    <2> HIDE DEF exp
    <2>4. it \in AttemptState
      <3>1. "settled" \in Place
        BY DEF Place, Executing
      <3>2. QED BY <1>0, <2>1, <3>1, AttemptStateIs
    <2>5. /\ it.pc = "settled" /\ it.step = n /\ it.op = me.op /\ it.snapshot = me.snapshot
          /\ it.created = me.created /\ it.stale = me.stale /\ it.result = me.result
          /\ it.expected = exp
      BY <1>0, AttemptStateIs
    <2> HIDE DEF it
    <2>6. After(it, n) = After(me, n)
      BY <1>0, <1>2, <2>4, <2>5, Steady
    <2>7. Expectation(it) /\ SnapshotOK(it)
      BY <1>0, <2>2, <2>5, <2>6 DEF Expectation, SnapshotOK
    <2>8. Distinct(it, issued) /\ Faithful(it, View(js))
      BY <1>0, <1>2, <1>6, <2>3, <2>5 DEF Distinct, Faithful
    <2>9. Reporting(it, View(js), issued)
      BY <2>7, <2>8 DEF Reporting
    <2>10. QED BY <2>9 DEF it, exp
  <1>7. CASE ExecUpdate(a)
    <2> DEFINE i  == Bound(me, n)
               it == [me EXCEPT !.pc = "settled",
                        !.expected = Without(me.expected, i) \cup {Entry(me, n, "paused")}]
    <2>1. /\ me.pc = "call" /\ me.op = "upgrade" /\ issued' = issued
          /\ \/ jobs[i] # NoJob /\ jobs[i].state = "paused" /\ Acts(a, it, Updated(i, "planned"))
             \/ Acts(a, Failing(me), Updated(i, "planned"))
             \/ Becomes(a, Failing(me)) /\ UNCHANGED jobs
      BY <1>7 DEF ExecUpdate, Entry, Target, Without
    <2>2. /\ i \in 1..MaxJobs /\ i = Target(me, n)
          /\ View(jobs) = After(me, n - 1) /\ jobs[i].state = "paused" =>
               View([jobs EXCEPT ![i] = [jobs[i] EXCEPT !.release = "planned", !.edited = FALSE]])
                  = Without(View(jobs), i) \cup {Entry(me, n, "paused")}
      BY <1>0, <1>2, <2>1, UpdateIsSeen
    <2> HIDE DEF i
    <2>3. me.expected = After(me, n - 1) /\ (~me.stale => view = me.expected)
      BY <1>0, <2>1 DEF Reporting, Expectation, Faithful
    <2>4. ASSUME ~me.stale, jobs[i].state = "paused"
          PROVE  View(Updated(i, "planned")) = Without(view, i) \cup {Entry(me, n, "paused")}
      BY <2>2, <2>3, <2>4 DEF Updated
    <2>5. ASSUME jobs[i] # NoJob, jobs[i].state = "paused"
          PROVE  Reporting(it, View(Updated(i, "planned")), issued)
      BY <1>6, <2>1, <2>2, <2>3, <2>4, <2>5
    <2> HIDE DEF it
    <2>6. \A js : Reporting(Failing(me), js, issued)
      BY <1>0, <1>3
    <2>7. \A new, js : Acts(a, new, js) => jobs' = js
      BY DEF Acts
    <2>8. CASE jobs[i] # NoJob /\ jobs[i].state = "paused" /\ Acts(a, it, Updated(i, "planned"))
      <3>1. Reporting(it, View(jobs'), issued')
        BY <2>1, <2>5, <2>7, <2>8
      <3>2. QED BY <1>1, <2>8, <3>1
    <2>9. CASE Acts(a, Failing(me), Updated(i, "planned"))
      BY <1>1, <2>1, <2>6, <2>9
    <2>10. CASE Becomes(a, Failing(me)) /\ UNCHANGED jobs
      BY <1>1, <2>1, <2>6, <2>10
    <2>11. QED BY <2>1, <2>8, <2>9, <2>10
  <1>8. CASE ExecPause(a)
    <2> DEFINE i  == me.created[n]
               js == [jobs EXCEPT ![i].state = "paused"]
               it == [me EXCEPT !.pc = "settled",
                        !.expected = Without(me.expected, i) \cup {Entry(me, n, "paused")}]
    <2>0. me.pc = "pause" /\ me.op = "install" /\ i \in 1..MaxJobs /\ i = Target(me, n)
      BY <1>0, <1>8 DEF ExecPause, Placed, Target
    <2>1. /\ issued' = issued
          /\ \/ jobs[i] # NoJob /\ Acts(a, it, js)
             \/ Acts(a, Failing(me), js)
             \/ Becomes(a, Failing(me)) /\ UNCHANGED jobs
      BY <1>8, <2>0 DEF ExecPause, Entry, Without
    <2> HIDE DEF i
    <2>2. /\ me.expected = After(me, n - 1) \cup {Entry(me, n, "scheduled")}
          /\ ~me.stale => view = me.expected
          /\ n = 2 => me.created[1] # me.created[2]
      BY <1>0, <2>0 DEF Reporting, Expectation, Faithful, Distinct
    <2>3. Without(me.expected, i) = Without(After(me, n - 1), i)
      <3>1. Entry(me, n, "scheduled")[1] = i
        BY <2>0 DEF Entry
      <3>2. QED BY <2>2, <3>1 DEF Without
    <2>4. ASSUME ~me.stale
          PROVE  View(js) = Without(view, i) \cup {Entry(me, n, "paused")}
      <3>1. Entry(me, n, "scheduled") \in View(jobs)
        BY <2>2, <2>4
      <3>2. View([jobs EXCEPT ![Target(me, n)].state = "paused"])
              = Without(View(jobs), Target(me, n)) \cup {Entry(me, n, "paused")}
        BY <1>0, <1>2, <2>0, <3>1, PauseIsSeen
      <3>3. QED BY <2>0, <3>2
    <2> HIDE DEF js
    <2>5. Reporting(it, View(js), issued)
      BY <1>6, <2>0, <2>2, <2>3, <2>4
    <2> HIDE DEF it
    <2>6. \A view2 : Reporting(Failing(me), view2, issued)
      BY <1>0, <1>3
    <2>7. \A new, js2 : Acts(a, new, js2) => jobs' = js2
      BY DEF Acts
    <2>8. CASE Acts(a, it, js)
      <3>1. Reporting(it, View(jobs'), issued')
        BY <2>1, <2>5, <2>7, <2>8
      <3>2. QED BY <1>1, <2>8, <3>1
    <2>9. CASE Acts(a, Failing(me), js)
      BY <1>1, <2>1, <2>6, <2>9
    <2>10. CASE Becomes(a, Failing(me)) /\ UNCHANGED jobs
      BY <1>1, <2>1, <2>6, <2>10
    <2>11. QED BY <2>1, <2>8, <2>9, <2>10
  <1>9. CASE RollbackRemove(a) \/ RollbackUpdate(a)
    <2>1. /\ issued' = issued
          /\ \E ok \in BOOLEAN :
               \/ \E js : Acts(a, RolledBack(me, ok), js)
               \/ Becomes(a, RolledBack(me, ok)) /\ UNCHANGED jobs
      BY <1>9 DEF RollbackRemove, RollbackUpdate
    <2>2. \A js : \A ok \in BOOLEAN : Reporting(RolledBack(me, ok), js, issued)
      BY <1>0, <1>3
    <2>3. PICK ok \in BOOLEAN :
               \/ \E js : Acts(a, RolledBack(me, ok), js)
               \/ Becomes(a, RolledBack(me, ok)) /\ UNCHANGED jobs
      BY <2>1
    <2>4. Reporting(RolledBack(me, ok), View(jobs'), issued')
      BY <2>1, <2>2
    <2>5. QED BY <1>1, <2>3, <2>4
  <1>10. QED BY <1>5, <1>7, <1>8, <1>9

\* No step of an attempt or of the operator makes a report false.
LEMMA ReportNext ==
  ASSUME InstallTyped, InstallTyped', StagingInv, ReportInv, InstallNext
  PROVE  ReportInv'
  <1>0. TypeOK /\ issued \in Nat /\ issued' \in Nat
    BY DEF InstallTyped, TypeOK
  <1>1. issued <= issued'
    <2>1. CASE Operate
      <3>1. issued' = issued
        BY <2>1 DEF Operate, EnableJob, ChangeJob, ChangeFile
      <3>2. QED BY <1>0, <3>1
    <2>2. ASSUME NEW a \in Attempt, Install(a) PROVE issued' = issued \/ issued' = issued + 1
      BY <2>2 DEF Install, Plan, StageStart, StageWrite, StageFail, StageRestore, ExecStart,
         ExecCreate, ExecUpdate, ExecCreated, ExecPause, ExecSettled, ExecVerify,
         RollbackRemove, RollbackUpdate, ExecFinal, Crash
    <2>3. QED BY <1>0, <2>1, <2>2 DEF InstallNext
  <1>2. ASSUME NEW b \in Attempt, Watches(b)
        PROVE  Reporting(attempt'[b], View(jobs'), issued')
    BY <1>0, <1>1, <1>2, WatchReports DEF ReportInv
  <1>3. CASE Operate
    BY <1>0, <1>2, <1>3, OperateWatches DEF ReportInv
  <1>4. ASSUME NEW a \in Attempt, Install(a) PROVE ReportInv'
    <2>1. Reporting(attempt'[a], View(jobs'), issued')
      BY <1>4, StageReports, LookReports, CallReports DEF Install
    <2>2. \A b \in Attempt \ {a} : Watches(b)
      BY <1>4, AttemptStepOf
    <2>3. QED BY <1>2, <2>1, <2>2 DEF ReportInv
  <1>5. QED BY <1>3, <1>4 DEF InstallNext

\* The inductive form of the reports.
LEMMA ReportHolds == InstallSpec => []ReportInv
  <1>1. InstallInit => ReportInv
    <2> SUFFICES ASSUME InstallInit, NEW a \in Attempt
                 PROVE  Reporting(AttemptIdle, View(jobs), issued)
      BY DEF ReportInv, InstallInit
    <2>1. issued \in Nat
      BY DEF InstallInit
    <2>2. QED BY <2>1 DEF Reporting, Expectation, Distinct, SnapshotOK, Faithful, AttemptIdle
  <1>2. InstallTyped /\ InstallTyped' /\ StagingInv /\ ReportInv /\ [InstallNext]_installVars
        => ReportInv'
    <2>1. ASSUME ReportInv, UNCHANGED installVars PROVE ReportInv'
      BY <2>1 DEF installVars, ReportInv
    <2>2. QED BY <2>1, ReportNext
  <1>3. QED BY <1>1, <1>2, InstallHolds, StagingHolds, PTL DEF InstallSpec

\* "Applied" is the truth: whatever was lost, failed or undone before, and
\* whoever interfered until the last read-back, exactly the two jobs of this
\* release exist then, and both are paused.
THEOREM AppliedIsTheTruth == InstallSpec => []AppliedIsPlanned
  <1>1. ReportInv => AppliedIsPlanned
    BY DEF ReportInv, Reporting, Faithful, AppliedIsPlanned, PlannedPaused, PlannedIn, Visible
  <1>2. QED BY <1>1, ReportHolds, PTL

\* "Rolled back" is the truth: the jobs are again those of the plan, although
\* the identifier of a job whose creation went unanswered is not known.
THEOREM RolledBackIsTheTruth == InstallSpec => []RolledBackIsRestored
  <1>1. ReportInv => RolledBackIsRestored
    BY DEF ReportInv, Reporting, Faithful, RolledBackIsRestored, Visible
  <1>2. QED BY <1>1, ReportHolds, PTL

================================================================================
