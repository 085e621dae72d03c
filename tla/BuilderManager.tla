---------------------------- MODULE BuilderManager ----------------------------
(***************************************************************************)
(* The builder manager of nixkube (builder_manager.py): it keeps a minimum  *)
(* of builder Jobs per system, adds their Pods to the pynixd server as      *)
(* stores, backs off from a system whose builders fail, and replaces the    *)
(* aged ones.  The Job watch and the periodic tick share one lock and so    *)
(* one agenda, the steps still to do of the pass that holds it.  A step     *)
(* runs from one await to the next.  The two loops without the lock, the    *)
(* reaper of idle builders and the queue watch, are left out.               *)
(*                                                                         *)
(* The cluster is external: Jobs and Pods move by themselves, and the watch *)
(* delivers what changed late or, once it breaks, not at all.  A Job is     *)
(* known by its name; names are drawn at random, so one that nothing        *)
(* mentions any more stands for a new one.  Probe Jobs are left out.        *)
(***************************************************************************)
EXTENDS Integers, FiniteSets, Sequences, FiniteSetsExt

CONSTANTS
    Jobs,
    Systems,      \* naturals, in the order of their names
    MinBuilders,
    MaxBuilders,
    Faults,       \* what may go wrong, see Trouble and Fails
    MaxTroubles,  \* bound on the troubles of one behaviour
    MaxAged       \* bound on the builders past max_age at one time

ASSUME BuildersAssumption ==
    /\ IsFiniteSet(Jobs)
    /\ Systems \subseteq Nat /\ Systems # {}
    /\ MinBuilders \in Nat /\ MaxBuilders \in Nat \ {0}

VARIABLES
    job,         \* the status of each Job, "none" for a name not in use
    system,      \* its system label
    pod,         \* its Pod, "absent" also while it is Pending
    age,         \* 1 past startup_timeout, 2 past max_age
    outdated,    \* the Jobs whose store versions the PodTemplate no longer names
    watching,    \* the Job watch is connected
    stream,      \* the events it has not handed over
    troubles,
    registered,  \* _registered, and with it _job_names and _store_systems
    counted,     \* _counted_failures
    everReady,   \* _ever_ready
    aged,        \* _aged
    held,        \* the systems whose _backoff_until has not passed
    agenda,      \* what the pass that holds _reconcile_lock has still to do
    served,      \* the builders among the server's stores
    draining,    \* those that take no new build
    busy         \* those with work, sent or only assigned

cluster == <<job, system, pod, age, outdated>>
watch == <<watching, stream>>
memory == <<registered, counted, everReady, aged, held>>
server == <<served, draining, busy>>
builderVars == <<cluster, watch, troubles, memory, agenda, server>>

\* What happens to the cluster or the controller is counted, a call that fails is not.
Trouble(f) == f \in Faults /\ troubles < MaxTroubles /\ troubles' = troubles + 1
Fine == UNCHANGED troubles
Fails(f) == f \in Faults /\ Fine

\* An entry of the agenda: the operation, the Jobs it is about, and what it knows of them.
Todo(op, jobs) == [op |-> op, jobs |-> jobs, of |-> {}]
TodoOf(op, jobs, of) == [op |-> op, jobs |-> jobs, of |-> of]
Doing(op) == agenda # <<>> /\ Head(agenda).op = op
\* The steps that take the place of the first.
Then(steps) == agenda' = steps \o Tail(agenda)
\* An entry about no Job is done already.
IfAny(t) == IF t.jobs = {} THEN <<>> ELSE <<t>>
\* One entry for a Job, or none.
For(cond, op, j) == IF cond THEN <<Todo(op, {j})>> ELSE <<>>

Exists(j) == job[j] \in {"active", "failed", "succeeded"}
Finished(status) == status \in {"failed", "succeeded"}
Serving(s) == {j \in served \ draining : system[j] = s}

\* A Job neither finished nor aged counts toward the minimum and the maximum.
CountsAged(j) == job[j] = "active"
Counts(j) == job[j] = "active" /\ age[j] < 2
Active(s) == Cardinality({j \in Jobs : Counts(j) /\ system[j] = s})
AllActive == Cardinality({j \in Jobs : Counts(j)})

BuildersInit ==
    /\ job = [j \in Jobs |-> "none"]
    /\ system = [j \in Jobs |-> Min(Systems)]
    /\ pod = [j \in Jobs |-> "absent"]
    /\ age = [j \in Jobs |-> 0]
    /\ outdated = {} /\ watching = FALSE /\ stream = {} /\ troubles = 0
    /\ registered = {} /\ counted = {} /\ everReady = {} /\ aged = {} /\ held = {}
    /\ agenda = <<>> /\ served = {} /\ draining = {} /\ busy = {}

-----------------------------------------------------------------------------
(* The cluster, external.                                                  *)

\* The events of one Job arrive in order, and two of them that say the same before the
\* first is handed over are one.
Emit(j, status) ==
    /\ stream' = IF watching THEN stream \cup {<<j, status>>} ELSE stream
    /\ UNCHANGED watching

\* A Pod gets its IP before its container runs, and is Ready once sshd answers.
PodMoves(j) ==
    /\ job[j] = "active" /\ pod[j] \in {"absent", "up"}
    /\ pod' = [pod EXCEPT ![j] = IF @ = "absent" THEN "up" ELSE "ready"]
    /\ IF pod[j] = "up" THEN Emit(j, "active") ELSE UNCHANGED watch
    /\ UNCHANGED <<job, system, age, outdated, troubles, memory, agenda, server>>

\* The readinessProbe of a builder that runs fails.
PodUnready(j) ==
    /\ Trouble("unready")
    /\ job[j] = "active" /\ pod[j] = "ready"
    /\ pod' = [pod EXCEPT ![j] = "up"]
    /\ Emit(j, "active")
    /\ UNCHANGED <<job, system, age, outdated, memory, agenda, server>>

\* The Pod of a deleted Job ends.
PodEnds(j) ==
    /\ job[j] = "gone" /\ pod[j] # "absent"
    /\ pod' = [pod EXCEPT ![j] = "absent"]
    /\ UNCHANGED <<job, system, age, outdated, watch, troubles, memory, agenda, server>>

\* backoffLimit is 0: the Job ends with its container.
JobEnds(j, status) ==
    /\ Trouble(status)
    /\ job[j] = "active" /\ pod[j] \in {"up", "ready"}
    /\ job' = [job EXCEPT ![j] = status]
    /\ pod' = [pod EXCEPT ![j] = "dead"]
    /\ Emit(j, status)
    /\ UNCHANGED <<system, age, outdated, memory, agenda, server>>

\* The Pod outlives its Job for a while, which matters while the Job is yet to be reconciled.
JobGoes(j) ==
    /\ job' = [job EXCEPT ![j] = "gone"]
    /\ pod' = IF \/ <<j, "active">> \in stream
                 \/ \E i \in DOMAIN agenda : agenda[i].op = "each" /\ j \in agenda[i].jobs
              THEN pod ELSE [pod EXCEPT ![j] = "absent"]
    /\ Emit(j, "gone")

\* ttlSecondsAfterFinished.
JobCollected(j) ==
    /\ Finished(job[j]) /\ JobGoes(j)
    /\ UNCHANGED <<system, age, outdated, troubles, memory, agenda, server>>

\* A Pod that has not started by startup_timeout is trouble, a builder that ages is not.
\* Short of max_age, the age of a builder that has started is never looked at.
JobAges(j) ==
    /\ job[j] = "active"
    /\ \/ /\ pod[j] = "absent" /\ age[j] = 0 /\ Trouble("slow")
          /\ age' = [age EXCEPT ![j] = 1]
       \/ /\ pod[j] # "absent" /\ age[j] < 2 /\ Fine
          /\ Cardinality({i \in Jobs : Exists(i) /\ age[i] = 2}) < MaxAged
          /\ age' = [age EXCEPT ![j] = 2]
    /\ UNCHANGED <<job, system, pod, outdated, watch, memory, agenda, server>>

\* A deployment changes the PodTemplate of the builders.
TemplateChanges ==
    /\ Trouble("outdate")
    /\ outdated' = {j \in Jobs : Exists(j)}
    /\ UNCHANGED <<job, system, pod, age, watch, memory, agenda, server>>

WatchBreaks ==
    /\ watching /\ Trouble("break")
    /\ watching' = FALSE /\ stream' = {}
    /\ UNCHANGED <<cluster, memory, agenda, server>>

\* The server's scheduler assigns a build to a store that does not drain.
BuildStarts(j) ==
    /\ j \in served \ (draining \cup busy)
    /\ busy' = busy \cup {j}
    /\ UNCHANGED <<cluster, watch, troubles, memory, agenda, served, draining>>

BuildEnds(j) ==
    /\ j \in busy
    /\ busy' = busy \ {j}
    /\ UNCHANGED <<cluster, watch, troubles, memory, agenda, served, draining>>

\* Deleting a Job that is gone, or a call that fails, is logged and changes nothing.
DeletesJob(j) ==
    \/ Exists(j) /\ Fine /\ JobGoes(j)
    \/ /\ (~Exists(j) /\ Fine) \/ Fails("delete")
       /\ UNCHANGED <<job, pod, watch>>

Mentioned == registered \cup counted \cup everReady \cup aged \cup served
             \cup {e[1] : e \in stream} \cup UNION {agenda[i].jobs : i \in DOMAIN agenda}
Unused(j) == job[j] \in {"none", "gone"} /\ pod[j] = "absent" /\ j \notin Mentioned

\* A Job is created, or the template or the Job's own creation fails.
CreatesJob(s) ==
    \/ /\ Fine
       /\ \E j \in Jobs :
            /\ Unused(j)
            /\ job' = [job EXCEPT ![j] = "active"]
            /\ system' = [system EXCEPT ![j] = s]
            /\ age' = [age EXCEPT ![j] = 0]
            /\ outdated' = outdated \ {j}
            /\ Emit(j, "active")
       /\ UNCHANGED pod
    \/ /\ ((\A j \in Jobs : ~Unused(j)) /\ Fine) \/ Fails("create")
       /\ UNCHANGED <<cluster, watch>>

-----------------------------------------------------------------------------
(* The passes under the reconcile lock.                                    *)

\* A resync: every Job listed, then the stores of the Jobs that are not.  A list that
\* fails ends the pass before it does anything.
Resync ==
    LET seen == {j \in Jobs : Exists(j)}
    IN  IfAny(TodoOf("each", seen, {<<j, job[j]>> : j \in seen})) \o <<Todo("drop", seen)>>

\* The periodic tick.
Tick ==
    /\ agenda = <<>>
    /\ agenda' = Resync \o <<Todo("recycle", {})>>
    /\ UNCHANGED <<cluster, watch, troubles, memory, server>>

\* The Job watch resyncs before it connects.  With the fault "blind" no watch ever does.
WatchResyncs ==
    /\ agenda = <<>> /\ ~watching /\ "blind" \notin Faults
    /\ agenda' = Resync \o <<Todo("connect", {})>>
    /\ UNCHANGED <<cluster, watch, troubles, memory, server>>

\* A new watch first reports every Job there is.
WatchConnects ==
    /\ Doing("connect") /\ Then(<<>>)
    /\ watching' = TRUE
    /\ stream' = {<<j, job[j]>> : j \in {i \in Jobs : Exists(i)}}
    /\ UNCHANGED <<cluster, troubles, memory, server>>

\* What one event takes.
Handles(j, status) ==
    IF status = "gone" THEN <<Todo("forget", {j})>>
    ELSE <<TodoOf("each", {j}, {<<j, status>>}), Todo("ensure", {})>>

\* The oldest event of its Job: a Job is active, then finished, then gone.
First(j, status) ==
    \A e \in stream : e[1] = j /\ e[2] # status => status = "active" \/ e[2] = "gone"

WatchHandles(j) ==
    /\ agenda = <<>>
    /\ \E e \in stream :
         /\ e[1] = j /\ First(j, e[2])
         /\ agenda' = Handles(j, e[2])
         /\ stream' = stream \ {e}
    /\ UNCHANGED <<cluster, watching, troubles, memory, server>>

\* The stores whose Job the resync did not see.
LostNone(seen) == {}
Lost(seen) == registered \ seen

\* _ensure_min_builders lists the Jobs: the systems below their minimum, and how many
\* builders count in all.
FillSteps(short, total) ==
    IF short = {} \/ total >= MaxBuilders THEN <<>>
    ELSE <<[op |-> "fill", jobs |-> {}, of |-> short, total |-> total]>>
EnsureStepsOfWatch ==
    IF agenda[Len(agenda)].op = "recycle" THEN <<>>
    ELSE FillSteps({s \in Systems : Active(s) < MinBuilders}, AllActive)
EnsureSteps == FillSteps({s \in Systems : Active(s) < MinBuilders}, AllActive)
EnsureMinBuilders == (Fine /\ Then(EnsureSteps)) \/ (Fails("list") /\ Then(<<>>))

Ensures ==
    /\ Doing("ensure") /\ EnsureMinBuilders
    /\ UNCHANGED <<cluster, watch, memory, server>>

\* What is known of a Job goes with it, once its store is removed.
ForgetJobs(gone) ==
    /\ counted' = counted \ gone /\ everReady' = everReady \ gone /\ aged' = aged \ gone
    /\ UNCHANGED <<registered, held>>

Drops ==
    /\ Doing("drop")
    /\ LET seen == Head(agenda).jobs
       IN  IF Lost(seen) # {}
           THEN Then(<<Todo("unregister", Lost(seen)), Head(agenda)>>) /\ Fine /\ UNCHANGED memory
           ELSE ForgetJobs(Jobs \ seen) /\ EnsureMinBuilders
    /\ UNCHANGED <<cluster, watch, server>>

\* A DELETED event.
Forgets ==
    /\ Doing("forget")
    /\ LET gone == Head(agenda).jobs
       IN  IF gone \subseteq registered
           THEN Then(<<Todo("unregister", gone), Head(agenda)>>) /\ Fine /\ UNCHANGED memory
           ELSE ForgetJobs(gone) /\ EnsureMinBuilders
    /\ UNCHANGED <<cluster, watch, server>>

\* A builder that never started has had long enough.
StartupExpiredUnseen(j, phase) == phase = "absent" /\ j \notin counted /\ age[j] >= 1
StartupExpired(j, phase) ==
    phase = "absent" /\ j \notin everReady /\ j \notin counted /\ age[j] >= 1

RecordsFailure(j) ==
    IF j \in counted THEN UNCHANGED <<counted, held>>
    ELSE counted' = counted \cup {j} /\ held' = held \cup {system[j]}

\* The first entry without the Job just done.
Without(j) == IfAny([Head(agenda) EXCEPT !.jobs = @ \ {j}])

ReconcileOutdated(j) ==
    /\ j \in outdated /\ Fine
    /\ Then(<<Todo("unregister", {j}), Todo("delete", {j})>> \o Without(j))
    /\ UNCHANGED memory

ReconcileFinished(j, status) ==
    /\ Finished(status)
    /\ IF status = "failed" THEN RecordsFailure(j) ELSE UNCHANGED <<counted, held>>
    /\ Then(For(j \in registered, "unregister", j) \o Without(j))
    /\ UNCHANGED <<registered, everReady, aged>>

\* What the API says of the Pod: nothing when the call fails.
PodReads(j) == {pod[j]} \cup (IF "pods" \in Faults THEN {"absent"} ELSE {})

ReconcileActive(j, p) ==
    /\ aged' = IF age[j] = 2 THEN aged \cup {j} ELSE aged
    /\ \/ /\ p = "ready"
          /\ everReady' = everReady \cup {j}
          /\ held' = held \ {system[j]}
          /\ Then(For(j \notin registered, "register", j) \o Without(j))
          /\ UNCHANGED counted
       \/ /\ p # "ready" /\ StartupExpired(j, p)
          /\ RecordsFailure(j)
          /\ Then(For(j \in registered, "unregister", j) \o <<Todo("delete", {j})>> \o Without(j))
          /\ UNCHANGED everReady
       \/ /\ p # "ready" /\ ~StartupExpired(j, p)
          /\ Then(For(j \notin registered /\ p \in {"up", "dead"}, "register", j) \o Without(j))
          /\ UNCHANGED <<counted, everReady, held>>
    /\ UNCHANGED registered

\* One Job of the list, or of the event; a failed read of the template finds it current.
Reconciles ==
    /\ Doing("each")
    /\ \E j \in Head(agenda).jobs, status \in {"active", "failed", "succeeded"} :
         /\ <<j, status>> \in Head(agenda).of
         /\ \/ ReconcileOutdated(j)
            \/ /\ (j \notin outdated /\ Fine) \/ Fails("template")
               /\ \/ ReconcileFinished(j, status)
                  \/ status = "active" /\ \E p \in PodReads(j) : ReconcileActive(j, p)
    /\ UNCHANGED <<cluster, watch, server>>

\* add_store answers FALSE when sshd refuses; the builder is registered all the same.
Registers ==
    /\ Doing("register") /\ Then(<<>>)
    /\ \E j \in Head(agenda).jobs :
         /\ registered' = registered \cup {j}
         /\ \/ pod[j] \in {"up", "ready"} /\ Fine /\ served' = served \cup {j}
            \/ /\ (pod[j] \in {"absent", "dead"} /\ Fine) \/ (pod[j] = "up" /\ Fails("refused"))
               /\ UNCHANGED served
    /\ UNCHANGED <<cluster, watch, counted, everReady, aged, held, draining, busy>>

\* remove_store: the scheduler takes back the work left on the store once it has drained,
\* or 300 seconds later.
Unregisters ==
    /\ Doing("unregister")
    /\ \E j \in Head(agenda).jobs :
         /\ Then(Without(j))
         /\ registered' = registered \ {j}
         /\ served' = served \ {j} /\ draining' = draining \ {j} /\ busy' = busy \ {j}
    /\ UNCHANGED <<cluster, watch, troubles, counted, everReady, aged, held>>

Deletes ==
    /\ Doing("delete") /\ Then(<<>>)
    /\ \E j \in Head(agenda).jobs : DeletesJob(j)
    /\ UNCHANGED <<system, age, outdated, memory, server>>

\* One system below its minimum gets a builder, unless it is held back.
Fills ==
    /\ Doing("fill")
    /\ LET short == Head(agenda).of
           total == Head(agenda).total
           s == Min(short)
       IN  \/ s \in held /\ Then(FillSteps(short \ {s}, total)) /\ Fine /\ UNCHANGED <<cluster, watch>>
           \/ s \notin held /\ CreatesJob(s) /\ Then(FillSteps(short \ {s}, total + 1))
    /\ UNCHANGED <<memory, server>>

\* plan_recycle.
Seen == registered \cap served
Fresh(s) == {j \in Seen : system[j] = s /\ j \in everReady /\ j \notin aged /\ j \notin draining}
ToDrainUnserved ==
    {j \in registered : j \in aged /\ j \notin draining /\ (MinBuilders = 0 \/ Fresh(system[j]) # {})}
ToDrainAtOnce == {j \in Seen : j \in aged /\ j \notin draining}
ToDrain == {j \in Seen : j \in aged /\ j \notin draining /\ (MinBuilders = 0 \/ Fresh(system[j]) # {})}
ToRetireBusy == {j \in Seen : j \in draining}
ToRetire == {j \in Seen : j \in draining /\ j \notin busy}

Recycles ==
    /\ Doing("recycle")
    /\ draining' = draining \cup ToDrain
    /\ Then(IfAny(Todo("retire", ToRetire)))
    /\ UNCHANGED <<cluster, watch, troubles, memory, served, busy>>

Retires ==
    /\ Doing("retire")
    /\ \E j \in Head(agenda).jobs :
         Then(<<Todo("delete", {j}), Todo("unregister", {j})>> \o Without(j))
    /\ UNCHANGED <<cluster, watch, troubles, memory, server>>

LockedStep ==
    \/ WatchConnects \/ Drops \/ Forgets \/ Reconciles
    \/ Registers \/ Unregisters \/ Deletes \/ Ensures \/ Fills \/ Recycles \/ Retires

BackoffEnds(s) ==
    /\ s \in held
    /\ held' = held \ {s}
    /\ UNCHANGED <<cluster, watch, troubles, registered, counted, everReady, aged, agenda, server>>

\* The controller restarts: the cluster stays, and nothing else does.
Restarts ==
    /\ Trouble("crash")
    /\ registered' = {} /\ counted' = {} /\ everReady' = {} /\ aged' = {} /\ held' = {}
    /\ agenda' = <<>> /\ served' = {} /\ draining' = {} /\ busy' = {}
    /\ watching' = FALSE /\ stream' = {}
    /\ UNCHANGED cluster

BuildersNext ==
    \/ Tick \/ WatchResyncs \/ LockedStep
    \/ TemplateChanges \/ WatchBreaks \/ Restarts
    \/ \E s \in Systems : BackoffEnds(s)
    \/ \E j \in Jobs :
         \/ WatchHandles(j)
         \/ PodMoves(j) \/ PodUnready(j) \/ PodEnds(j) \/ JobCollected(j) \/ JobAges(j)
         \/ BuildStarts(j) \/ BuildEnds(j)
         \/ \E status \in {"failed", "succeeded"} : JobEnds(j, status)

BuildersSpec == BuildersInit /\ [][BuildersNext]_builderVars

\* The tick comes round and waits its turn for the lock, which is handed over in the
\* order of asking; the calls of a pass return; Pods start, builds and the backoff end.
FairBuilders ==
    /\ BuildersSpec
    /\ SF_builderVars(Tick) /\ WF_builderVars(LockedStep)
    /\ \A s \in Systems : WF_builderVars(BackoffEnds(s))
    /\ \A j \in Jobs : /\ SF_builderVars(WatchHandles(j))
                       /\ WF_builderVars(PodMoves(j) \/ PodEnds(j) \/ JobCollected(j))
                       /\ WF_builderVars(BuildEnds(j))

-----------------------------------------------------------------------------
(* Properties.                                                             *)

\* The manager's indexes hold Jobs, and a store drains or works only while it is served.
BuildersTypeOK ==
    /\ job \in [Jobs -> {"none", "active", "failed", "succeeded", "gone"}]
    /\ system \in [Jobs -> Systems]
    /\ pod \in [Jobs -> {"absent", "up", "ready", "dead"}]
    /\ age \in [Jobs -> 0..2]
    /\ served \cup registered \subseteq Jobs
    /\ draining \subseteq served
    /\ busy \subseteq served
    /\ stream \subseteq Jobs \X {"active", "failed", "succeeded", "gone"}

\* Once the manager has seen a builder Ready, only the end of its Job counts as a failure:
\* neither a Pod that is not found nor a stale event makes the watchdog end it.
SeenReadyIsSpared ==
    [][\A j \in counted' \ counted : j \in everReady => job[j] # "active"]_builderVars

\* Recycling leaves a system at its minimum, or with the builders it had.
RecycleKeepsMinimum ==
    [][Recycles => \A s \in Systems :
         Cardinality(Serving(s)') >= Min({MinBuilders, Cardinality(Serving(s))})]_builderVars

\* Recycling deletes no builder that has work.
RetiredIsIdle ==
    [][\A j \in Jobs : (Deletes /\ job'[j] # job[j] /\ j \in draining) => j \notin busy]_builderVars

\* A builder that is gone or finished is unregistered.
GoneIsForgotten ==
    \A j \in Jobs : (j \in registered /\ job[j] # "active") ~> (j \notin registered \/ job[j] = "active")

\* An aged builder is replaced and retired.
AgedIsRetired == \A j \in Jobs : (job[j] = "active" /\ age[j] = 2) ~> (job[j] # "active")

\* A system is never left without a builder for good.
MinimumIsServed == \A s \in Systems : MinBuilders > 0 => []<>(Serving(s) # {})
=============================================================================
