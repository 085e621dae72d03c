------------------------------- MODULE Rollout -------------------------------
(***************************************************************************)
(* The NixOSRollout controller (nixkube, nixos_rollout.py), over the Jobs   *)
(* and hosts of NixosSwitch.  A pass lists the rollouts and the Nodes, then *)
(* takes each rollout: it plans the entries, steps the nodes in flight,     *)
(* starts pending ones and patches the status.  Each write to the API       *)
(* server ends a step; the controller may crash, or a call may raise,       *)
(* between any two.  Only the status and the Jobs live through a crash.     *)
(*                                                                          *)
(* A timeout is a choice of the step that looks at it.  A spec carries what *)
(* its source evaluates to; a build takes steps of its own.                 *)
(***************************************************************************)
EXTENDS NixosSwitch

CONSTANTS
    Rollouts,
    SpecChoices,    \* the specs a rollout may be given
    First,          \* the system every node runs at first
    MaxUnavailable,
    MaxGen,         \* how often a spec changes, and one
    MaxFailures,    \* how often the controller crashes or a call of it raises
    None

SpecBody == [systems : [Nodes -> Systems \cup {None}],  \* by node; what a source builds
             select : SUBSET Nodes,                    \* the nodes nodeSelector matches
             source : BOOLEAN,
             paused : BOOLEAN]

ASSUME RolloutAssumption ==
    /\ First \in Systems
    /\ None \notin Systems
    /\ SpecChoices \subseteq SpecBody
    /\ \A s \in SpecChoices, n \in Nodes : s.source => s.systems[n] # None
    /\ MaxUnavailable \in Nat \ {0}
    /\ MaxGen \in Nat \ {0} /\ MaxFailures \in Nat

VARIABLES
    spec,    \* each rollout's generation and spec
    status,  \* each rollout's observedGeneration and node entries
    node,    \* the Node objects
    fresh,   \* the Lease was renewed after the leaseRenewTime an entry recorded
    builds,  \* Controller.builds, of one generation per rollout
    pass,    \* the pass under way
    failures \* crashes of the controller and calls that raised, so far

apiVars == <<spec, status, node, fresh>>
rolloutVars == <<hostVars, apiVars, builds, pass, failures>>

InFlight == {"Switching", "Confirming", "Draining", "Booting", "Rebooting", "Disarming"}
Halting == {"Reverted", "BuildFailed", "DrainFailed"}
NodePhase == InFlight \cup Halting \cup {"Building", "Pending", "Conflict", "Done", "None"}

Entry == [phase : NodePhase,
          target : Systems \cup {None},
          current : Systems \cup {None},
          generation : Nat,
          bootID : Nat,
          drained : BOOLEAN]

\* A node without an entry.
NoEntry == [phase |-> "None", target |-> None, current |-> None, generation |-> 0,
            bootID |-> 0, drained |-> FALSE]

BuildState == {"none", "running", "waiting", "done", "error"}

Idle == [at |-> "next", todo |-> {}, docs |-> << >>, nodes |-> << >>, of |-> None,
         entries |-> << >>, left |-> {}, open |-> FALSE]

RolloutInit ==
    /\ SwitchInit(First)
    /\ spec \in [Rollouts -> {[gen |-> 1, body |-> s] : s \in SpecChoices}]
    /\ status = [r \in Rollouts |-> [gen |-> 0, nodes |-> [n \in Nodes |-> NoEntry]]]
    /\ node = [n \in Nodes |-> [ready |-> TRUE, bootID |-> 0, cordon |-> "no"]]
    /\ fresh = [r \in Rollouts |-> [n \in Nodes |-> FALSE]]
    /\ builds = [r \in Rollouts |-> [gen |-> 0, of |-> [n \in Nodes |-> "none"]]]
    /\ pass = Idle
    /\ failures = 0

-----------------------------------------------------------------------------
(* plan, build_entries and rollout_phase.                                   *)

\* Mutant: a node the controller drained is forgotten to be one.
KeptCurrent(e) == [NoEntry EXCEPT !.current = e.current]

Kept(e) == [NoEntry EXCEPT !.current = e.current, !.drained = e.drained]

\* Mutant: a halted node starts again as soon as a pass sees it.
StaysHaltedNever(e, gen) == FALSE

StaysHalted(e, gen) == e.phase \in {"Reverted", "DrainFailed"} /\ e.generation >= gen

\* Mutant: only a selected node is finished.
FinishesSelected(e, selected) == e.phase \in InFlight /\ selected

\* A node that left the selector mid-switch is still armed.
Finishes(e, selected) == e.phase \in InFlight

\* Mutant: a selected node without a system is planned too.
LeavesUnselected(target, selected) == ~selected

Leaves(target, selected) == ~selected \/ target = None

\* One node of plan.
Planned(e, target, selected, conflict, gen) ==
    CASE Finishes(e, selected) -> e
      [] ~Finishes(e, selected) /\ Leaves(target, selected) -> NoEntry
      [] OTHER ->
         CASE conflict ->
                [NoEntry EXCEPT !.phase = "Conflict", !.target = target, !.current = e.current]
           [] ~conflict /\ StaysHalted(e, gen) -> e
           [] ~conflict /\ e.phase = "Done" /\ e.target = target -> e
           [] OTHER ->
              IF e.phase \in {"Done", "Building"} /\ e.current = target /\ ~e.drained
              THEN [NoEntry EXCEPT !.phase = "Done", !.target = target, !.current = target,
                                   !.generation = gen]
              ELSE [Kept(e) EXCEPT !.phase = "Pending", !.target = target]

\* One node of build_entries.
BuildEntry(e, build, gen) ==
    IF e.phase \in {"Done", "Reverted"} /\ e.generation >= gen THEN e
    ELSE [Kept(e) EXCEPT !.phase = IF build = "error" THEN "BuildFailed" ELSE "Building"]

Phases(entries) == {entries[n].phase : n \in Nodes} \ {"None"}

rollout_phase(entries) ==
    CASE Phases(entries) \cap Halting # {} -> "Halted"
      [] Phases(entries) \subseteq {"Done"} -> "Complete"
      [] OTHER -> "Progressing"

-----------------------------------------------------------------------------
(* reconcile_all and the first half of reconcile.                           *)

Conflicts(docs) ==
    {n \in Nodes : Cardinality({r \in Rollouts : n \in docs[r].body.select}) > 1}

BeginPass ==
    /\ pass.at = "next" /\ pass.todo = {}
    /\ pass' = [Idle EXCEPT !.todo = Rollouts, !.docs = spec, !.nodes = node]
    /\ UNCHANGED <<hostVars, apiVars, builds, failures>>

\* systems_from_source: older generations are dropped, new builds start.
BuildsFor(r, doc) ==
    LET old == IF builds[r].gen = doc.gen THEN builds[r].of ELSE [n \in Nodes |-> "none"] IN
    [gen |-> doc.gen,
     of |-> [n \in Nodes |-> IF n \in doc.body.select /\ old[n] = "none" THEN "running"
                             ELSE old[n]]]

Reconcile(r) ==
    LET doc == pass.docs[r]
        b == IF doc.body.source THEN BuildsFor(r, doc) ELSE builds[r]
        open == {n \in Nodes : doc.body.source /\ n \in doc.body.select /\ b.of[n] # "done"}
        planned(n) == Planned(status[r].nodes[n], IF n \in open THEN None ELSE doc.body.systems[n],
                              n \in doc.body.select, n \in Conflicts(pass.docs), doc.gen)
        entries == [n \in Nodes |-> IF n \in open /\ planned(n) = NoEntry
                                    THEN BuildEntry(status[r].nodes[n], b.of[n], doc.gen)
                                    ELSE planned(n)]
    IN /\ pass.at = "next" /\ r \in pass.todo
       /\ builds' = [builds EXCEPT ![r] = b]
       /\ pass' = [pass EXCEPT !.at = "step", !.todo = @ \ {r}, !.of = r, !.entries = entries,
                       !.left = {n \in Nodes : entries[n].phase \in InFlight},
                       !.open = open # {}]
       /\ UNCHANGED <<hostVars, apiVars, failures>>

-----------------------------------------------------------------------------
(* step, for one node in flight.                                            *)

Steps(n, phase) == pass.at = "step" /\ n \in pass.left /\ pass.entries[n].phase = phase

Becomes(n, e) == pass' = [pass EXCEPT !.at = "step", !.entries[n] = e, !.left = @ \ {n}]
Moves(n, phase) == Becomes(n, [pass.entries[n] EXCEPT !.phase = phase])

\* job_name
JobName(n, action) == [rollout |-> pass.of, node |-> n, action |-> action,
                       target |-> pass.entries[n].target,
                       generation |-> pass.entries[n].generation]

\* create_job: a Job of that name is left as it is.
Creates(j) ==
    jobs' = IF j \in DOMAIN jobs THEN jobs
            ELSE [i \in DOMAIN jobs \cup {j} |-> IF i = j THEN NewJob(First) ELSE jobs[i]]

\* halt: the entry, then the cordon.
Halts(n) ==
    /\ Moves(n, "Reverted")
    /\ node' = [node EXCEPT ![n].cordon = "halt"]

DrainEnds(n) ==
    /\ Steps(n, "Draining")
    /\ Creates(JobName(n, "boot"))
    /\ Moves(n, "Booting")
    /\ UNCHANGED <<host, apiVars, builds, failures>>

DrainFails(n) ==
    /\ Steps(n, "Draining")
    /\ Moves(n, "DrainFailed")
    /\ UNCHANGED <<hostVars, apiVars, builds, failures>>

\* A new boot ID and Ready, in the Nodes the pass listed.
IsBack(n) == pass.nodes[n].bootID # pass.entries[n].bootID /\ pass.nodes[n].ready

\* A Lease renewed since the switch Job was seen to complete, and Ready.
IsConfirmed(n) == fresh[pass.of][n] /\ pass.nodes[n].ready

Confirms(n) ==
    /\ (Steps(n, "Rebooting") /\ IsBack(n)) \/ (Steps(n, "Confirming") /\ IsConfirmed(n))
    /\ Creates(JobName(n, "disarm"))
    /\ Moves(n, "Disarming")
    /\ UNCHANGED <<host, apiVars, builds, failures>>

\* Mutant: a reboot is waited for without an end.
RebootTimesOutNever(n) == FALSE

RebootTimesOut(n) ==
    /\ Steps(n, "Rebooting") /\ ~IsBack(n)
    /\ Halts(n)
    /\ UNCHANGED <<hostVars, spec, status, fresh, builds, failures>>

\* The revert Job first, then the halt, whose cordon is a write of its own.
ConfirmTimesOut(n) ==
    /\ Steps(n, "Confirming") /\ ~IsConfirmed(n)
    /\ Creates(JobName(n, "revert"))
    /\ pass' = [pass EXCEPT !.at = "halt", !.entries[n].phase = "Reverted"]
    /\ UNCHANGED <<host, apiVars, builds, failures>>

HaltsUnconfirmed(n) ==
    /\ pass.at = "halt" /\ n \in pass.left /\ pass.entries[n].phase = "Reverted"
    /\ Halts(n)
    /\ UNCHANGED <<hostVars, spec, status, fresh, builds, failures>>

\* The Job an entry waits for.
Job(n) == JobName(n, CASE pass.entries[n].phase = "Switching" -> "switch"
                       [] pass.entries[n].phase = "Booting" -> "boot"
                       [] OTHER -> "disarm")

JobIs(n, phase, state) ==
    Steps(n, phase) /\ Job(n) \in DOMAIN jobs /\ jobs[Job(n)].state = state

HasJob == {"Switching", "Booting", "Disarming"}

\* The Job is gone, or failed.
JobFails(n) ==
    /\ \E phase \in HasJob :
        Steps(n, phase) /\ (Job(n) \notin DOMAIN jobs \/ JobIs(n, phase, "Failed"))
    /\ Halts(n)
    /\ UNCHANGED <<hostVars, spec, status, fresh, builds, failures>>

\* The switch Job's message asks for a reboot: cordon, then drain.
RebootNeeded(n) ==
    /\ JobIs(n, "Switching", "Complete") /\ jobs[Job(n)].reboot
    /\ node' = [node EXCEPT ![n].cordon = IF @ = "no" THEN "drain" ELSE @]
    /\ Becomes(n, [pass.entries[n] EXCEPT !.phase = "Draining", !.drained = TRUE,
                                          !.bootID = pass.nodes[n].bootID])
    /\ UNCHANGED <<hostVars, spec, status, fresh, builds, failures>>

\* leaseRenewTime is the last renewal so far.
SwitchDone(n) ==
    /\ JobIs(n, "Switching", "Complete") /\ ~jobs[Job(n)].reboot
    /\ Moves(n, "Confirming")
    /\ fresh' = [fresh EXCEPT ![pass.of][n] = FALSE]
    /\ UNCHANGED <<hostVars, spec, status, node, builds, failures>>

RebootScheduled(n) ==
    /\ JobIs(n, "Booting", "Complete")
    /\ Moves(n, "Rebooting")
    /\ UNCHANGED <<hostVars, apiVars, builds, failures>>

NodeDone(n) ==
    /\ JobIs(n, "Disarming", "Complete")
    /\ Becomes(n, [pass.entries[n] EXCEPT !.phase = "Done", !.current = pass.entries[n].target,
                                          !.bootID = 0, !.drained = FALSE])
    /\ node' = IF pass.entries[n].drained THEN [node EXCEPT ![n].cordon = "no"] ELSE node
    /\ UNCHANGED <<hostVars, spec, status, fresh, builds, failures>>

\* Nothing has happened, and no timeout is over.
StepWaits(n) ==
    /\ \/ Steps(n, "Draining")
       \/ Steps(n, "Rebooting") /\ ~IsBack(n)
       \/ Steps(n, "Confirming") /\ ~IsConfirmed(n)
       \/ \E phase \in HasJob : JobIs(n, phase, "Active")
    /\ Becomes(n, pass.entries[n])
    /\ UNCHANGED <<hostVars, apiVars, builds, failures>>

-----------------------------------------------------------------------------
(* The second half of reconcile: start_switch and the patch.                *)

Flying == {n \in Nodes : pass.entries[n].phase \in InFlight}
Waiting == {n \in Nodes : pass.entries[n].phase = "Pending"}

Startable ==
    /\ rollout_phase(pass.entries) # "Halted"
    /\ ~pass.docs[pass.of].body.paused
    /\ ~pass.open
    /\ Cardinality(Flying) < MaxUnavailable
    /\ Waiting # {}

\* Mutant: the nodes start in any order.
StartsNextAny(n) == n \in Waiting

\* sorted(entries)
StartsNext(n) == n \in Waiting /\ \A m \in Waiting : n <= m

StartSwitch(n) ==
    LET gen == pass.docs[pass.of].gen IN
    /\ pass.at = "step" /\ pass.left = {}
    /\ Startable /\ StartsNext(n)
    /\ Creates([JobName(n, "switch") EXCEPT !.generation = gen])
    /\ Becomes(n, [pass.entries[n] EXCEPT !.phase = "Switching", !.generation = gen])
    /\ UNCHANGED <<host, apiVars, builds, failures>>

\* The status is replaced whole.
Patches ==
    /\ pass.at = "step" /\ pass.left = {} /\ ~Startable
    /\ status' = [status EXCEPT ![pass.of] = [gen |-> pass.docs[pass.of].gen,
                                              nodes |-> pass.entries]]
    /\ pass' = [Idle EXCEPT !.todo = pass.todo,
                            !.docs = IF pass.todo = {} THEN << >> ELSE pass.docs,
                            !.nodes = IF pass.todo = {} THEN << >> ELSE pass.nodes]
    /\ UNCHANGED <<hostVars, spec, node, fresh, builds, failures>>

\* A call raises: the rest of this rollout's reconcile is skipped.
ReconcileFails ==
    /\ pass.at # "next"
    /\ failures < MaxFailures
    /\ failures' = failures + 1
    /\ pass' = [Idle EXCEPT !.todo = pass.todo,
                            !.docs = IF pass.todo = {} THEN << >> ELSE pass.docs,
                            !.nodes = IF pass.todo = {} THEN << >> ELSE pass.nodes]
    /\ UNCHANGED <<hostVars, apiVars, builds>>

\* The controller is replaced, never doubled: builds live in memory.
Crash ==
    /\ failures < MaxFailures
    /\ failures' = failures + 1
    /\ pass' = Idle
    /\ builds' = [r \in Rollouts |-> [gen |-> 0, of |-> [n \in Nodes |-> "none"]]]
    /\ UNCHANGED <<hostVars, apiVars>>

-----------------------------------------------------------------------------
(* Controller.build, the kubelets and the users.                            *)

Builds(r, n, from, to) ==
    /\ builds[r].of[n] \in from
    /\ builds' = [builds EXCEPT ![r].of[n] = to]
    /\ UNCHANGED <<hostVars, apiVars, pass, failures>>

BuildDone(r, n) == Builds(r, n, {"running"}, "done")

BuildFails(r, n) == "build" \in Faults /\ Builds(r, n, {"running"}, "error")

\* A failed attempt is repeated when the store did not answer after it and
\* answers again within store_wait.
StoreUnreachable(r, n) == "store" \in Faults /\ Builds(r, n, {"running"}, "waiting")
StoreAnswersAgain(r, n) == Builds(r, n, {"waiting"}, "running")
StoreGaveUp(r, n) == Builds(r, n, {"waiting"}, "error")

\* The kubelet posts its boot ID and Ready; without it Ready expires.
NodeReports(n) ==
    LET o == [node[n] EXCEPT !.ready = Up(n), !.bootID = IF Up(n) THEN host[n].boots ELSE @] IN
    /\ o # node[n]
    /\ node' = [node EXCEPT ![n] = o]
    /\ UNCHANGED <<hostVars, spec, status, fresh, builds, pass, failures>>

LeaseRenews(n) ==
    /\ Up(n)
    /\ \E r \in Rollouts : ~fresh[r][n]
    /\ fresh' = [r \in Rollouts |-> [fresh[r] EXCEPT ![n] = TRUE]]
    /\ UNCHANGED <<hostVars, spec, status, node, builds, pass, failures>>

SpecChanges(r) ==
    /\ spec[r].gen < MaxGen
    /\ \E s \in SpecChoices \ {spec[r].body} :
        spec' = [spec EXCEPT ![r] = [gen |-> @.gen + 1, body |-> s]]
    /\ UNCHANGED <<hostVars, status, node, fresh, builds, pass, failures>>

-----------------------------------------------------------------------------

TimesOut(n) == DrainFails(n) \/ RebootTimesOut(n) \/ ConfirmTimesOut(n)

Step(n) ==
    \/ DrainEnds(n) \/ Confirms(n) \/ JobFails(n) \/ RebootNeeded(n) \/ SwitchDone(n)
    \/ RebootScheduled(n) \/ NodeDone(n) \/ StepWaits(n)
    \/ TimesOut(n) \/ HaltsUnconfirmed(n) \/ StartSwitch(n)

Controller ==
    BeginPass \/ (\E r \in Rollouts : Reconcile(r)) \/ (\E n \in Nodes : Step(n)) \/ Patches

Pods(n) == \E j \in DOMAIN jobs : j.node = n /\ PodStep(j)

RolloutNext ==
    \/ Controller \/ ReconcileFails \/ Crash
    \/ \E r \in Rollouts : SpecChanges(r)
    \/ \E r \in Rollouts, n \in Nodes :
        \/ BuildDone(r, n) \/ BuildFails(r, n)
        \/ StoreUnreachable(r, n) \/ StoreAnswersAgain(r, n) \/ StoreGaveUp(r, n)
    \/ \E n \in Nodes : NodeReports(n) \/ LeaseRenews(n)
    \/ /\ \/ \E n \in Nodes : Pods(n) \/ HostStep(n)
          \/ \E j \in DOMAIN jobs : DeadlinePasses(j) \/ JobExpires(j)
       /\ UNCHANGED <<apiVars, builds, pass, failures>>

RolloutSpec == RolloutInit /\ [][RolloutNext]_rolloutVars

\* Passes go on, pods and kubelets run, timers fire; a timeout that is looked
\* at again and again is over in the end, and a build that is attempted again
\* and again ends.
RolloutFairness ==
    /\ WF_rolloutVars(Controller)
    /\ \A n \in Nodes :
        /\ SF_rolloutVars(TimesOut(n))
        /\ WF_rolloutVars(NodeReports(n))
        /\ WF_rolloutVars(LeaseRenews(n))
        /\ WF_rolloutVars(Pods(n) /\ UNCHANGED <<apiVars, builds, pass, failures>>)
        /\ WF_rolloutVars((TimerFires(n) \/ RevertEnds(n) \/ (host[n].reboot /\ HostBoots(n)))
                          /\ UNCHANGED <<apiVars, builds, pass, failures>>)
        /\ \A r \in Rollouts : /\ SF_rolloutVars(BuildDone(r, n))
                              /\ WF_rolloutVars(StoreAnswersAgain(r, n) \/ StoreGaveUp(r, n))

FairRollout == RolloutSpec /\ RolloutFairness

-----------------------------------------------------------------------------
(* Properties.                                                              *)

\* Every entry past its build has a target, and the rest has its type.
RolloutTypeOK ==
    /\ \A j \in DOMAIN jobs :
        /\ j \in [rollout : Rollouts, node : Nodes, action : Action, target : Systems,
                  generation : 1..MaxGen]
        /\ jobs[j] \in JobState
    /\ host \in [Nodes -> HostState]
    /\ spec \in [Rollouts -> [gen : 1..MaxGen, body : SpecBody]]
    /\ status \in [Rollouts -> [gen : 0..MaxGen, nodes : [Nodes -> Entry]]]
    /\ \A r \in Rollouts, n \in Nodes : LET e == status[r].nodes[n] IN
        e.target = None => e.phase \in {"None", "Building", "BuildFailed"}
    /\ node \in [Nodes -> [ready : BOOLEAN, bootID : Nat, cordon : {"no", "drain", "halt"}]]
    /\ fresh \in [Rollouts -> [Nodes -> BOOLEAN]]
    /\ builds \in [Rollouts -> [gen : 0..MaxGen, of : [Nodes -> BuildState]]]
    /\ pass.at \in {"next", "step", "halt"}
    /\ pass.at # "next" => pass.of \in Rollouts /\ pass.entries \in [Nodes -> Entry]
    /\ failures \in 0..MaxFailures

\* A node becomes Done only while its host runs the target and boots it, with
\* no revert armed or under way: whatever timers, late pods and
\* crashes did since the switch (disarm, and the order of step).
DoneIsTrue ==
    [][\A r \in Rollouts, n \in Nodes :
         /\ status'[r].nodes[n].phase = "Done"
         /\ status[r].nodes[n].phase # "Done"
         => LET h == host'[n] IN
            /\ h.current = status'[r].nodes[n].target /\ h.default = h.current
            /\ ~h.timer /\ h.revert = "no"]_rolloutVars

\* Once the status says Reverted or DrainFailed at the spec's generation, it
\* stays so and the rollout starts no switch until its spec changes, across restarts and
\* rebuilds (plan, build_entries, startable).
HasHalted(r) == \E n \in Nodes :
    status[r].nodes[n].phase \in {"Reverted", "DrainFailed"} /\ status[r].nodes[n].generation = spec[r].gen

HaltLasts ==
    [][\A r \in Rollouts :
         HasHalted(r) /\ spec'[r] = spec[r]
         => /\ HasHalted(r)'
            /\ \A j \in DOMAIN jobs' \ DOMAIN jobs : j.rollout # r \/ j.action # "switch"]_rolloutVars

\* A node in flight is finished: its entry is never dropped, replanned or put
\* in conflict, whatever happens to the spec, the labels, the builds or the
\* controller.
InFlightIsFinished ==
    [][\A r \in Rollouts, n \in Nodes :
         status[r].nodes[n].phase \in InFlight
         => status'[r].nodes[n].phase \in InFlight \cup {"Done", "Reverted", "DrainFailed"}]_rolloutVars

\* A node cordoned for a drain carries the mark that makes the controller
\* uncordon it, or the step that sets the mark is still to be repeated.
DrainIsRemembered ==
    \A n \in Nodes : node[n].cordon = "drain" =>
        \E r \in Rollouts : LET e == status[r].nodes[n] IN e.drained \/ e.phase = "Switching"

\* Of one generation no more than maxUnavailable nodes have a live switch or
\* boot Job, even when the controller died between a Job and the status.
\* Jobs that expire, and a spec that changes in flight, can break it together:
\* RolloutFleetProofs says when it holds for every size.
LiveNodes(r) == {n \in Nodes : \E j \in DOMAIN jobs :
    /\ j.rollout = r /\ j.node = n /\ j.generation = spec[r].gen
    /\ j.action \in {"switch", "boot"} /\ jobs[j].state = "Active"}

UnavailableBounded == \A r \in Rollouts : Cardinality(LiveNodes(r)) <= MaxUnavailable

\* Every rollout that is not paused ends Complete or Halted at its last
\* generation.
Settled(r) ==
    \/ spec[r].body.paused
    \/ /\ status[r].gen = spec[r].gen
       /\ rollout_phase(status[r].nodes) \in {"Complete", "Halted"}

EveryRolloutSettles == \A r \in Rollouts : <>[]Settled(r)
=============================================================================
