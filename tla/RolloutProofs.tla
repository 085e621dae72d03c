---------------------------- MODULE RolloutProofs ----------------------------
(***************************************************************************)
(* The types of Rollout, what plan, build_entries and every step make of an *)
(* entry, and what a rollout never does with a node in flight, a halt and a *)
(* drain, for any rollouts, nodes, systems, specs, faults and bounds.       *)
(***************************************************************************)
EXTENDS Rollout, TLAPS

Doc == [gen : 1..MaxGen, body : SpecBody]
NodeObject == [ready : BOOLEAN, bootID : Nat, cordon : {"no", "drain", "halt"}]

\* What step and start_switch rely on: a node past its build has a target,
\* and one in flight the generation that its Jobs are named after.
EntryOK(e) ==
    /\ e \in Entry
    /\ e.target = None => e.phase \in {"None", "Building", "BuildFailed"}
    /\ e.phase \in InFlight => e.generation \in 1..MaxGen

\* The pass under way, and what it has listed.
PassOK ==
    /\ pass \in [at : {"next", "step", "halt"}, todo : SUBSET Rollouts,
                 docs : [Rollouts -> Doc] \cup {<< >>}, nodes : [Nodes -> NodeObject] \cup {<< >>},
                 of : Rollouts \cup {None}, entries : [Nodes -> Entry] \cup {<< >>},
                 left : SUBSET Nodes, open : BOOLEAN]
    /\ pass.todo # {} \/ pass.at # "next" =>
         pass.docs \in [Rollouts -> Doc] /\ pass.nodes \in [Nodes -> NodeObject]
    /\ pass.at # "next" => /\ pass.of \in Rollouts /\ pass.entries \in [Nodes -> Entry]
                           /\ \A n \in Nodes : EntryOK(pass.entries[n])

\* The types, with what an entry needs.
Types ==
    /\ RolloutTypeOK
    /\ \A r \in Rollouts, n \in Nodes : EntryOK(status[r].nodes[n])
    /\ PassOK

\* The node is one that the spec selects and has a system for.
Chosen(doc, n) == n \in doc.body.select /\ doc.body.systems[n] # None

-----------------------------------------------------------------------------
(* The Jobs and the hosts.                                                  *)

JobNames == [rollout : Rollouts, node : Nodes, action : Action, target : Systems,
             generation : 1..MaxGen]
JobsOK == \A j \in DOMAIN jobs : j \in JobNames /\ jobs[j] \in JobState
HostsOK == host \in [Nodes -> HostState]

\* A Job that moves on stays one.
LEMMA JobMoves ==
  ASSUME JobsOK, NEW j \in DOMAIN jobs, NEW s \in JobState, jobs' = [jobs EXCEPT ![j] = s]
  PROVE  JobsOK'
  BY ZenonT(120) DEF JobsOK

\* So does one whose pod goes on.
LEMMA JobGoes ==
  ASSUME JobsOK, NEW j \in DOMAIN jobs, NEW pc, Goes(j, pc),
         pc \in {"new", "begin", "arm", "set", "undo", "undoing", "check", "schedule", "exit0", "exit1"}
  PROVE  JobsOK'
  <1> DEFINE s == [jobs[j] EXCEPT !.pc = pc]
  <1>1. s \in JobState
    BY ZenonT(120) DEF JobsOK, JobState
  <1>2. jobs' = [jobs EXCEPT ![j] = s]
    BY ZenonT(120) DEF Goes
  <1> HIDE DEF s
  <1> QED BY ZenonT(120), <1>1, <1>2, JobMoves

\* A host that changes stays one.
LEMMA HostMoves ==
  ASSUME HostsOK, NEW n \in Nodes, NEW h \in HostState, host' = [host EXCEPT ![n] = h]
  PROVE  HostsOK'
  BY ZenonT(120) DEF HostsOK

\* The steps of a pod keep the types of its Job.
LEMMA PodJobTypes ==
  ASSUME JobsOK, HostsOK, NEW j \in DOMAIN jobs, PodStep(j)
  PROVE  JobsOK'
  <1>1. CASE PodReports(j)
    <2> DEFINE s == [jobs[j] EXCEPT !.state = IF jobs[j].pc = "exit0" THEN "Complete" ELSE "Failed"]
    <2>1. s \in JobState
      BY ZenonT(120) DEF JobsOK, JobState
    <2>2. jobs' = [jobs EXCEPT ![j] = s]
      BY ZenonT(120), <1>1 DEF PodReports
    <2> HIDE DEF s
    <2> QED BY ZenonT(120), <2>1, <2>2, JobMoves
  <1>2. CASE SwitchChecks(j)
    <2> DEFINE same == [jobs[j] EXCEPT !.pc = "exit0"]
               armed == [jobs[j] EXCEPT !.pc = "exit1"]
               boots == [jobs[j] EXCEPT !.pc = "exit0", !.reboot = TRUE]
               arms == [jobs[j] EXCEPT !.pc = "arm", !.previous = Host(j).current]
    <2>0. Host(j).current \in Systems
      BY ZenonT(120) DEF JobsOK, JobNames, HostsOK, HostState, Host
    <2>1. same \in JobState /\ armed \in JobState /\ boots \in JobState /\ arms \in JobState
      BY ZenonT(120), <2>0 DEF JobsOK, JobState
    <2>2. \E s \in {same, armed, boots, arms} : jobs' = [jobs EXCEPT ![j] = s]
      <3>1. CASE Host(j).current = j.target
        BY ZenonT(120), <1>2, <3>1 DEF SwitchChecks
      <3>2. CASE Host(j).current # j.target /\ ~MayArm(j)
        BY ZenonT(120), <1>2, <3>2 DEF SwitchChecks
      <3>3. CASE Host(j).current # j.target /\ MayArm(j)
        BY ZenonT(120), <1>2, <3>3 DEF SwitchChecks
      <3> QED BY ZenonT(120), <3>1, <3>2, <3>3
    <2> HIDE DEF same, armed, boots, arms
    <2> QED BY ZenonT(120), <2>1, <2>2, JobMoves
  <1>3. CASE PodStarts(j) \/ SwitchArms(j) \/ SwitchActivates(j)
    BY ZenonT(120), <1>3, JobGoes DEF PodStarts, SwitchArms, SwitchActivates
  <1>4. CASE RevertChecks(j) \/ StartsRevert(j) \/ StopsTimer(j)
    BY ZenonT(120), <1>4, JobGoes DEF RevertChecks, StartsRevert, StopsTimer
  <1>5. CASE BootSets(j) \/ BootSchedules(j) \/ DisarmStops(j) \/ DisarmChecks(j)
    BY ZenonT(120), <1>5, JobGoes DEF BootSets, BootSchedules, DisarmStops, DisarmChecks
  <1> QED BY ZenonT(120), <1>1, <1>2, <1>3, <1>4, <1>5 DEF PodStep

\* The steps of a pod keep the types of its host.
LEMMA PodHostTypes ==
  ASSUME JobsOK, HostsOK, NEW j \in DOMAIN jobs, PodStep(j)
  PROVE  HostsOK'
  <1>0. /\ j.node \in Nodes /\ j.target \in Systems /\ jobs[j].previous \in Systems
        /\ host \in [Nodes -> HostState]
    BY ZenonT(120) DEF JobsOK, JobNames, JobState, HostsOK
  <1>1. CASE UNCHANGED host
    BY ZenonT(120), <1>1 DEF HostsOK
  <1>2. ASSUME host' = [host EXCEPT ![j.node].timer = TRUE, ![j.node].back = jobs[j].previous]
        PROVE  HostsOK'
    <2> DEFINE h == [host[j.node] EXCEPT !.timer = TRUE, !.back = jobs[j].previous]
    <2>1. h \in HostState
      BY ZenonT(120), <1>0 DEF HostState
    <2>2. host' = [host EXCEPT ![j.node] = h]
      BY ZenonT(120), <1>2
    <2> HIDE DEF h
    <2> QED BY ZenonT(120), <1>0, <2>1, <2>2, HostMoves
  <1>3. ASSUME host' = [host EXCEPT ![j.node].timer = FALSE]
        PROVE  HostsOK'
    BY ZenonT(120), <1>0, <1>3 DEF HostsOK, HostState
  <1>4. ASSUME \/ host' = [host EXCEPT ![j.node].current = j.target, ![j.node].default = j.target]
               \/ host' = [host EXCEPT ![j.node].default = j.target, ![j.node].current = j.target]
               \/ host' = [host EXCEPT ![j.node].default = j.target]
        PROVE  HostsOK'
    BY SMTT(120), <1>0, <1>4 DEF HostsOK, HostState
  <1>5. ASSUME host' = [host EXCEPT ![j.node].revert = IF @ = "no" THEN "hand" ELSE @]
        PROVE  HostsOK'
    BY SMTT(120), <1>0, <1>5 DEF HostsOK, HostState
  <1>6. ASSUME host' = [host EXCEPT ![j.node].reboot = TRUE]
        PROVE  HostsOK'
    BY ZenonT(120), <1>0, <1>6 DEF HostsOK, HostState
  <1>7. CASE PodStarts(j) \/ PodReports(j) \/ SwitchChecks(j) \/ RevertChecks(j) \/ DisarmChecks(j)
    BY ZenonT(120), <1>1, <1>7 DEF PodStarts, PodReports, SwitchChecks, RevertChecks, DisarmChecks, SameHost
  <1>8. CASE SwitchArms(j) \/ SwitchActivates(j)
    BY ZenonT(120), <1>1, <1>2, <1>4, <1>8 DEF SwitchArms, SwitchActivates, SameHost
  <1>9. CASE StartsRevert(j) \/ StopsTimer(j) \/ BootSets(j) \/ BootSchedules(j) \/ DisarmStops(j)
    BY ZenonT(120), <1>1, <1>3, <1>4, <1>5, <1>6, <1>9 DEF StartsRevert, StopsTimer, BootSets, BootSchedules,
       DisarmStops, SameHost
  <1> QED BY ZenonT(120), <1>7, <1>8, <1>9 DEF PodStep

\* The steps of a host keep its types and those of the Jobs.
LEMMA HostTypes ==
  ASSUME JobsOK, HostsOK, NEW n \in Nodes, HostStep(n)
  PROVE  JobsOK' /\ HostsOK'
  <1>0. host[n] \in HostState /\ host \in [Nodes -> HostState]
    BY ZenonT(120) DEF HostsOK
  <1>1. CASE TimerFires(n)
    BY ZenonT(120), <1>0, <1>1 DEF TimerFires, HostsOK, HostState, JobsOK
  <1>2. CASE RevertEnds(n)
    <2> DEFINE h == [host[n] EXCEPT !.current = host[n].back, !.default = host[n].back,
                       !.revert = "no", !.timer = host[n].timer /\ host[n].revert = "hand"]
    <2>1. h \in HostState
      BY ZenonT(120), <1>0 DEF HostState
    <2>2. host' = [host EXCEPT ![n] = h] /\ UNCHANGED jobs
      BY ZenonT(120), <1>2 DEF RevertEnds
    <2> HIDE DEF h
    <2> QED BY ZenonT(120), <2>1, <2>2, HostMoves DEF JobsOK
  <1>3. CASE HostBoots(n)
    <2> DEFINE s == IF Assessed /\ host[n].default \in BadSystems THEN host[n].booted ELSE host[n].default
               h == [host[n] EXCEPT !.current = s, !.booted = s, !.default = s,
                       !.timer = FALSE, !.revert = "no", !.reboot = FALSE, !.boots = host[n].boots + 1]
    <2>1. s \in Systems
      BY ZenonT(120), <1>0 DEF HostState
    <2>2. h \in HostState
      <3> DEFINE b == host[n].boots + 1
      <3>1. b \in Nat
        BY SMTT(120), <1>0 DEF HostState
      <3> HIDE DEF s, b
      <3>2. [host[n] EXCEPT !.current = s, !.booted = s, !.default = s] \in HostState
        BY ZenonT(120), <1>0, <2>1 DEF HostState
      <3>3. \A g \in HostState : [g EXCEPT !.timer = FALSE, !.revert = "no", !.reboot = FALSE, !.boots = b] \in HostState
        BY ZenonT(120), <3>1 DEF HostState
      <3>4. h = [[host[n] EXCEPT !.current = s, !.booted = s, !.default = s]
                   EXCEPT !.timer = FALSE, !.revert = "no", !.reboot = FALSE, !.boots = b]
        BY ZenonT(120), <1>0 DEF b, HostState
      <3> QED BY ZenonT(120), <3>2, <3>3, <3>4
    <2>3. host' = [host EXCEPT ![n] = h]
      BY ZenonT(120), <1>3 DEF HostBoots
    <2> HIDE DEF s, h
    <2>4. HostsOK'
      BY ZenonT(120), <2>2, <2>3, HostMoves
    <2>5. JobsOK'
      <3>1. \A j \in DOMAIN jobs : [jobs[j] EXCEPT !.pc = "exit1"] \in JobState
        BY ZenonT(120) DEF JobsOK, JobState
      <3> QED BY ZenonT(120), <1>3, <3>1 DEF HostBoots, JobsOK
    <2> QED BY ZenonT(120), <2>4, <2>5
  <1> QED BY ZenonT(120), <1>1, <1>2, <1>3 DEF HostStep

\* The end of a Job by its deadline or its age keeps the types.
LEMMA JobEndTypes ==
  ASSUME JobsOK, HostsOK, NEW j \in DOMAIN jobs, DeadlinePasses(j) \/ JobExpires(j)
  PROVE  JobsOK' /\ HostsOK'
  <1>1. CASE DeadlinePasses(j)
    <2> DEFINE s == [jobs[j] EXCEPT !.state = "Failed", !.pc = "exit1"]
    <2>1. s \in JobState
      BY ZenonT(120) DEF JobsOK, JobState
    <2>2. jobs' = [jobs EXCEPT ![j] = s] /\ UNCHANGED host
      BY ZenonT(120), <1>1 DEF DeadlinePasses, SameHost
    <2> HIDE DEF s
    <2> QED BY ZenonT(120), <2>1, <2>2, JobMoves DEF HostsOK
  <1>2. CASE JobExpires(j)
    BY ZenonT(120), <1>2 DEF JobExpires, SameHost, JobsOK, HostsOK
  <1> QED BY ZenonT(120), <1>1, <1>2

-----------------------------------------------------------------------------
(* plan and build_entries.                                                  *)

\* The entries they make, field by field.
Made(phase, target, current, generation) ==
    [phase |-> phase, target |-> target, current |-> current, generation |-> generation,
     bootID |-> 0, drained |-> FALSE]

Marked(e, phase, target) ==
    [phase |-> phase, target |-> target, current |-> e.current, generation |-> 0,
     bootID |-> 0, drained |-> e.drained]

\* What holds of an entry that a pass makes of e, for a document of
\* generation gen: it is one; a node in flight keeps its entry and no other
\* gets into flight; a halted entry is not made anew.
Makes(e, p, gen) ==
    /\ EntryOK(p)
    /\ e.phase \in InFlight => p = e
    /\ p.phase \in InFlight \cup {"Reverted", "DrainFailed"} => p = e
    /\ p.generation \in {e.generation, 0, gen}

Unstarted == {"None", "Conflict", "Done", "Pending", "Building", "BuildFailed"}

\* So it is with an entry made for a node that is not in flight.
LEMMA MadeMakes ==
  ASSUME NEW e, EntryOK(e), e.phase \notin InFlight, NEW gen \in 1..MaxGen, NEW a \in Unstarted,
         NEW t \in Systems \cup {None}, a \in {"Conflict", "Done", "Pending"} => t # None
  PROVE  /\ \A c \in Systems \cup {None}, g \in {0, gen} :
              Makes(e, Made(a, t, c, g), gen) /\ Made(a, t, c, g).phase = a
         /\ Makes(e, Marked(e, a, t), gen) /\ Marked(e, a, t).phase = a
         /\ Marked(e, a, t).drained = e.drained
  <1>0. a \in NodePhase /\ a \notin InFlight \cup {"Reverted", "DrainFailed"}
    BY ZenonT(120) DEF Unstarted, NodePhase, Halting, InFlight
  <1>1. ASSUME NEW x \in Entry, x.phase = a, x.target = t, x.generation \in {0, gen}
        PROVE  Makes(e, x, gen)
    BY ZenonT(120), <1>0, <1>1 DEF Makes, EntryOK, Unstarted
  <1>2. \A c \in Systems \cup {None}, g \in {0, gen} : LET x == Made(a, t, c, g) IN
          x \in Entry /\ x.phase = a /\ x.target = t /\ x.generation = g
    BY SMTT(120), <1>0 DEF Made, Entry
  <1>3. LET x == Marked(e, a, t) IN
          x \in Entry /\ x.phase = a /\ x.target = t /\ x.generation = 0 /\ x.drained = e.drained
    BY ZenonT(120), <1>0 DEF Marked, Entry, EntryOK
  <1> QED BY ZenonT(120), <1>1, <1>2, <1>3

\* plan makes such an entry.  Pending is only a node with a system; a halted
\* node of the generation stays, and the mark of a drain is kept.
LEMMA PlanMakes ==
  ASSUME NEW e, EntryOK(e), NEW target \in Systems \cup {None}, NEW n, NEW select, NEW conflicts,
         NEW gen \in 1..MaxGen,
         NEW p, p = Planned(e, target, n \in select, n \in conflicts, gen)
  PROVE  /\ Makes(e, p, gen)
         /\ p.phase = "Pending" => n \in select /\ target # None
         /\ n \in select /\ target # None /\ n \notin conflicts
            => (StaysHalted(e, gen) => p = e) /\ (e.drained => p.drained)
         /\ e.phase \notin InFlight /\ target = None => p = NoEntry
  <1> DEFINE Free == e.phase \notin InFlight
             Wanted == n \in select /\ target # None
             Goal == /\ Makes(e, p, gen)
                     /\ p.phase = "Pending" => n \in select /\ target # None
                     /\ n \in select /\ target # None /\ n \notin conflicts
                        => (StaysHalted(e, gen) => p = e) /\ (e.drained => p.drained)
                     /\ Free /\ target = None => p = NoEntry
  <1>0. e.current \in Systems \cup {None} /\ None \in Systems \cup {None}
    BY ZenonT(120) DEF EntryOK, Entry
  <1>a. 0 \in {0, gen} /\ gen \in {0, gen}
    BY ZenonT(120)
  <1>b. \A a \in {"None", "Conflict", "Done", "Pending"} : a \in Unstarted
    BY ZenonT(120) DEF Unstarted
  <1>c. e.phase \in InFlight \cup {"Done", "Reverted", "DrainFailed"} => e.phase # "Pending"
    BY ZenonT(120) DEF InFlight
  <1>d. StaysHalted(e, gen) => e.phase \in {"Reverted", "DrainFailed"}
    BY ZenonT(120) DEF StaysHalted
  <1>e. Makes(e, e, gen)
    BY ZenonT(120) DEF Makes
  <1>1. CASE ~Free
    <2>1. p = e
      BY ZenonT(120), <1>1 DEF Planned, Finishes
    <2> QED BY ZenonT(120), <1>1, <1>c, <1>e, <2>1
  <1>2. CASE Free /\ ~Wanted
    <2>1. p = NoEntry /\ p = Made("None", None, None, 0)
      BY ZenonT(120), <1>2 DEF Planned, Finishes, Leaves, NoEntry, Made
    <2>a. "None" \in Unstarted /\ "None" \notin {"Conflict", "Done", "Pending"}
      BY ZenonT(120), <1>b
    <2>2. Makes(e, p, gen) /\ p.phase = "None"
      BY SMTT(120), <1>0, <1>a, <1>2, <2>1, <2>a, MadeMakes
    <2> QED BY ZenonT(120), <1>2, <2>1, <2>2
  <1>3. CASE Free /\ Wanted /\ n \in conflicts
    <2>1. p = Made("Conflict", target, e.current, 0)
      BY ZenonT(120), <1>3 DEF Planned, Finishes, Leaves, NoEntry, Made
    <2>2. Makes(e, p, gen) /\ p.phase = "Conflict"
      BY SMTT(120), <1>0, <1>a, <1>b, <1>3, <2>1, MadeMakes
    <2> QED BY ZenonT(120), <1>3, <2>2
  <1>4. CASE Free /\ Wanted /\ n \notin conflicts /\ (StaysHalted(e, gen) \/ (e.phase = "Done" /\ e.target = target))
    <2>1. p = e
      BY ZenonT(120), <1>4 DEF Planned, Finishes, Leaves
    <2> QED BY ZenonT(120), <1>4, <1>c, <1>d, <1>e, <2>1
  <1>5. CASE /\ Free /\ Wanted /\ n \notin conflicts /\ ~StaysHalted(e, gen) /\ ~(e.phase = "Done" /\ e.target = target)
             /\ e.phase \in {"Done", "Building"} /\ e.current = target /\ ~e.drained
    <2>1. p = Made("Done", target, target, gen)
      BY ZenonT(120), <1>5 DEF Planned, Finishes, Leaves, NoEntry, Made
    <2>2. Makes(e, p, gen) /\ p.phase = "Done"
      BY SMTT(120), <1>0, <1>a, <1>b, <1>5, <2>1, MadeMakes
    <2> QED BY ZenonT(120), <1>5, <2>2
  <1>6. CASE /\ Free /\ Wanted /\ n \notin conflicts /\ ~StaysHalted(e, gen) /\ ~(e.phase = "Done" /\ e.target = target)
             /\ ~(e.phase \in {"Done", "Building"} /\ e.current = target /\ ~e.drained)
    <2>1. p = Marked(e, "Pending", target)
      BY ZenonT(120), <1>6 DEF Planned, Finishes, Leaves, Kept, NoEntry, Marked
    <2>2. Makes(e, p, gen) /\ p.phase = "Pending" /\ p.drained = e.drained
      BY SMTT(120), <1>0, <1>b, <1>6, <2>1, MadeMakes
    <2> QED BY ZenonT(120), <1>6, <2>2
  <1> QED BY ZenonT(120), <1>1, <1>2, <1>3, <1>4, <1>5, <1>6

\* So does build_entries; what it keeps is kept.
LEMMA BuildMakes ==
  ASSUME NEW e, EntryOK(e), e.phase \notin InFlight, NEW build, NEW gen \in 1..MaxGen,
         NEW p, p = BuildEntry(e, build, gen)
  PROVE  /\ Makes(e, p, gen)
         /\ p.phase # "Pending"
         /\ e.drained => p.drained
         /\ e.phase = "Reverted" /\ StaysHalted(e, gen) => p = e
  <1>1. CASE e.phase \in {"Done", "Reverted"} /\ e.generation >= gen
    BY ZenonT(120), <1>1 DEF Makes, BuildEntry
  <1>2. CASE ~(e.phase \in {"Done", "Reverted"} /\ e.generation >= gen)
    <2>0. PICK b \in {"BuildFailed", "Building"} : p = Marked(e, b, None)
      BY ZenonT(120), <1>2 DEF BuildEntry, Kept, NoEntry, Marked
    <2>1. b \in Unstarted /\ b \notin {"Conflict", "Done", "Pending"} /\ None \in Systems \cup {None}
      BY ZenonT(120) DEF Unstarted
    <2>2. Makes(e, p, gen) /\ p.phase = b /\ p.drained = e.drained
      BY SMTT(120), <2>0, <2>1, MadeMakes
    <2> QED BY ZenonT(120), <1>2, <2>1, <2>2 DEF StaysHalted
  <1> QED BY ZenonT(120), <1>1, <1>2

-----------------------------------------------------------------------------
(* The entries a pass begins with.                                          *)

NextBuilds(r) == IF pass.docs[r].body.source THEN BuildsFor(r, pass.docs[r]) ELSE builds[r]

OpenFor(r) == {n \in Nodes : /\ pass.docs[r].body.source /\ n \in pass.docs[r].body.select
                             /\ NextBuilds(r).of[n] # "done"}

TargetFor(r, n) == IF n \in OpenFor(r) THEN None ELSE pass.docs[r].body.systems[n]

PlannedFor(r, n) == Planned(status[r].nodes[n], TargetFor(r, n), n \in pass.docs[r].body.select,
                            n \in Conflicts(pass.docs), pass.docs[r].gen)

EntryFor(r, n) == IF n \in OpenFor(r) /\ PlannedFor(r, n) = NoEntry
                  THEN BuildEntry(status[r].nodes[n], NextBuilds(r).of[n], pass.docs[r].gen)
                  ELSE PlannedFor(r, n)

\* A pass that takes a rollout, field by field.
LEMMA ReconcileSays ==
  ASSUME PassOK, NEW r \in Rollouts, Reconcile(r)
  PROVE  /\ pass.at = "next" /\ r \in pass.todo
         /\ builds' = [builds EXCEPT ![r] = NextBuilds(r)]
         /\ pass'.at = "step" /\ pass'.todo = pass.todo \ {r} /\ pass'.of = r
         /\ pass'.docs = pass.docs /\ pass'.nodes = pass.nodes
         /\ pass'.entries = [n \in Nodes |-> EntryFor(r, n)]
         /\ pass'.left = {n \in Nodes : pass'.entries[n].phase \in InFlight}
         /\ pass'.open = (OpenFor(r) # {})
         /\ pass' \in [at : {"step"}, todo : {pass.todo \ {r}}, docs : {pass.docs}, nodes : {pass.nodes},
                       of : {r}, entries : {pass'.entries}, left : {pass'.left}, open : {pass'.open}]
         /\ UNCHANGED <<hostVars, apiVars, failures>>
  <1> DEFINE entries == [n \in Nodes |-> EntryFor(r, n)]
             left == {n \in Nodes : entries[n].phase \in InFlight}
             open == OpenFor(r) # {}
  <1>1. /\ pass.at = "next" /\ r \in pass.todo
        /\ builds' = [builds EXCEPT ![r] = NextBuilds(r)]
        /\ pass' = [pass EXCEPT !.at = "step", !.todo = @ \ {r}, !.of = r, !.entries = entries,
                                !.left = left, !.open = open]
        /\ UNCHANGED <<hostVars, apiVars, failures>>
    BY ZenonT(120) DEF Reconcile, NextBuilds, OpenFor, TargetFor, PlannedFor, EntryFor
  <1>2. pass = [at |-> pass.at, todo |-> pass.todo, docs |-> pass.docs, nodes |-> pass.nodes,
                of |-> pass.of, entries |-> pass.entries, left |-> pass.left, open |-> pass.open]
    BY ZenonT(120) DEF PassOK
  <1> HIDE DEF entries, left, open
  <1>3. pass' = [at |-> "step", todo |-> pass.todo \ {r}, docs |-> pass.docs, nodes |-> pass.nodes,
                 of |-> r, entries |-> entries, left |-> left, open |-> open]
    BY ZenonT(120), <1>1, <1>2
  <1>4. /\ pass'.at = "step" /\ pass'.todo = pass.todo \ {r} /\ pass'.of = r
        /\ pass'.docs = pass.docs /\ pass'.nodes = pass.nodes
        /\ pass'.entries = entries /\ pass'.left = left /\ pass'.open = open
    BY ZenonT(120), <1>3
  <1>5. pass' \in [at : {"step"}, todo : {pass.todo \ {r}}, docs : {pass.docs}, nodes : {pass.nodes},
                   of : {r}, entries : {entries}, left : {left}, open : {open}]
    BY ZenonT(120), <1>3
  <1>6. left = {n \in Nodes : pass'.entries[n].phase \in InFlight}
    BY ZenonT(120), <1>4 DEF left
  <1> QED BY ZenonT(120), <1>1, <1>4, <1>5, <1>6 DEF entries, open

\* The entries that a rollout is taken with: what plan and build_entries
\* promise, of the document that the pass listed.
LEMMA EntriesMade ==
  ASSUME Types, NEW r \in Rollouts, r \in pass.todo, NEW n \in Nodes
  PROVE  LET e == status[r].nodes[n]
             p == EntryFor(r, n)
             doc == pass.docs[r]
         IN /\ Makes(e, p, doc.gen)
            /\ p.phase = "Pending" => Chosen(doc, n)
            /\ Chosen(doc, n) /\ n \notin Conflicts(pass.docs) =>
                /\ e.drained => p.drained
                /\ StaysHalted(e, doc.gen) /\ ~(doc.body.source /\ e.phase = "DrainFailed") => p = e
  <1> DEFINE e == status[r].nodes[n]
             doc == pass.docs[r]
             q == PlannedFor(r, n)
             p == EntryFor(r, n)
             t == TargetFor(r, n)
             S == doc.body.select
             C == Conflicts(pass.docs)
  <1>0. EntryOK(e) /\ doc.gen \in 1..MaxGen /\ doc.body.systems[n] \in Systems \cup {None}
    BY SMTT(120) DEF Types, PassOK, Doc, SpecBody
  <1>1. t \in Systems \cup {None}
    BY ZenonT(120), <1>0 DEF TargetFor
  <1>2. q = Planned(e, t, n \in S, n \in C, doc.gen)
    BY ZenonT(120) DEF PlannedFor
  <1>3. (n \in OpenFor(r) => t = None /\ doc.body.source) /\ (n \notin OpenFor(r) => t = doc.body.systems[n])
    BY ZenonT(120) DEF TargetFor, OpenFor
  <1>4. \/ p = q /\ (n \notin OpenFor(r) \/ q # NoEntry)
        \/ n \in OpenFor(r) /\ q = NoEntry /\ p = BuildEntry(e, NextBuilds(r).of[n], doc.gen)
    BY ZenonT(120) DEF EntryFor
  <1> HIDE DEF e, doc, q, p, t, S, C
  <1>5. /\ Makes(e, q, doc.gen)
        /\ q.phase = "Pending" => n \in S /\ t # None
        /\ n \in S /\ t # None /\ n \notin C
           => (StaysHalted(e, doc.gen) => q = e) /\ (e.drained => q.drained)
        /\ e.phase \notin InFlight /\ t = None => q = NoEntry
    BY SMTT(120), <1>0, <1>1, <1>2, PlanMakes
  <1>6. NoEntry.phase = "None"
    BY ZenonT(120) DEF NoEntry
  <1>7. CASE p = q /\ n \notin OpenFor(r)
    BY ZenonT(120), <1>3, <1>5, <1>7 DEF Chosen, S, C, doc, e, p
  <1>8. CASE p = q /\ n \in OpenFor(r) /\ q # NoEntry
    <2>1. e.phase \in InFlight
      BY ZenonT(120), <1>3, <1>5, <1>8
    <2>2. p = e
      BY ZenonT(120), <1>5, <1>8, <2>1 DEF Makes
    <2>3. e.phase # "Pending"
      BY ZenonT(120), <2>1 DEF InFlight
    <2> QED BY ZenonT(120), <1>5, <1>8, <2>2, <2>3 DEF e, p, doc
  <1>9. CASE n \in OpenFor(r) /\ q = NoEntry /\ p = BuildEntry(e, NextBuilds(r).of[n], doc.gen)
    <2>1. e.phase \notin InFlight
      BY ZenonT(120), <1>5, <1>6, <1>9 DEF Makes, InFlight
    <2>2. /\ Makes(e, p, doc.gen)
          /\ p.phase # "Pending"
          /\ e.drained => p.drained
          /\ e.phase = "Reverted" /\ StaysHalted(e, doc.gen) => p = e
      BY SMTT(120), <1>0, <1>9, <2>1, BuildMakes
    <2>3. StaysHalted(e, doc.gen) => e.phase \in {"Reverted", "DrainFailed"}
      BY ZenonT(120) DEF StaysHalted
    <2> QED BY ZenonT(120), <1>3, <1>9, <2>2, <2>3 DEF e, p, doc
  <1> QED BY ZenonT(120), <1>4, <1>7, <1>8, <1>9

-----------------------------------------------------------------------------
(* step and start_switch.                                                   *)

\* The pass goes on with the entry e of node n.
PassGoes(n, e, at, left) ==
    pass' = [at |-> at, todo |-> pass.todo, docs |-> pass.docs, nodes |-> pass.nodes, of |-> pass.of,
             entries |-> [pass.entries EXCEPT ![n] = e], left |-> left, open |-> pass.open]

Landing == InFlight \cup {"Done", "Reverted", "DrainFailed"}

\* The entry e of a node that was in flight with x.
Flies(x, e) ==
    /\ x.phase \in InFlight
    /\ e \in Entry /\ e.phase \in Landing
    /\ e.target = x.target /\ e.generation = x.generation
    /\ x.drained => e.drained \/ e.phase = "Done"

\* Becomes says so.
LEMMA BecomesSays ==
  ASSUME PassOK, pass.at # "next", NEW n \in Nodes, NEW e, Becomes(n, e)
  PROVE  PassGoes(n, e, "step", pass.left \ {n})
  <1>1. pass = [at |-> pass.at, todo |-> pass.todo, docs |-> pass.docs, nodes |-> pass.nodes,
                of |-> pass.of, entries |-> pass.entries, left |-> pass.left, open |-> pass.open]
    BY ZenonT(120) DEF PassOK
  <1> DEFINE es == [pass.entries EXCEPT ![n] = e]
             left == pass.left \ {n}
  <1>2. pass' = [pass EXCEPT !.at = "step", !.entries = es, !.left = left]
    BY ZenonT(120), <1>1 DEF Becomes
  <1> HIDE DEF es, left
  <1>3. pass' = [at |-> "step", todo |-> pass.todo, docs |-> pass.docs, nodes |-> pass.nodes,
                 of |-> pass.of, entries |-> es, left |-> left, open |-> pass.open]
    BY ZenonT(120), <1>1, <1>2
  <1> QED BY ZenonT(120), <1>3 DEF PassGoes, es, left

\* A node in flight that moves to another phase.
LEMMA MovesSays ==
  ASSUME PassOK, pass.at # "next", NEW n \in Nodes, NEW a \in Landing, Moves(n, a),
         pass.entries[n].phase \in InFlight
  PROVE  \E e : PassGoes(n, e, "step", pass.left \ {n}) /\ Flies(pass.entries[n], e)
  <1> DEFINE x == pass.entries[n]
             e == [x EXCEPT !.phase = a]
  <1>1. x \in Entry /\ a \in NodePhase
    BY ZenonT(120) DEF PassOK, EntryOK, Landing, NodePhase, Halting
  <1>2. PassGoes(n, e, "step", pass.left \ {n})
    BY ZenonT(120), BecomesSays DEF Moves
  <1>3. e \in Entry /\ e.phase = a /\ e.target = x.target /\ e.generation = x.generation /\ e.drained = x.drained
    BY ZenonT(120), <1>1 DEF Entry
  <1>4. Flies(x, e)
    BY ZenonT(120), <1>3 DEF Flies
  <1> QED BY ZenonT(120), <1>2, <1>4

\* A new Job has its type.
LEMMA CreateTypes ==
  ASSUME JobsOK, NEW j \in JobNames, Creates(j)
  PROVE  JobsOK'
  <1>1. NewJob(First) \in JobState
    BY ZenonT(120), RolloutAssumption DEF NewJob, JobState
  <1> QED BY ZenonT(120), <1>1 DEF Creates, JobsOK

\* The names of the Jobs that a node in flight is given.
LEMMA NameTypes ==
  ASSUME PassOK, pass.at # "next", NEW n \in Nodes, pass.entries[n].phase \in InFlight,
         NEW a \in Action
  PROVE  JobName(n, a) \in JobNames
  <1>1. EntryOK(pass.entries[n]) /\ pass.of \in Rollouts
    BY ZenonT(120) DEF PassOK
  <1>2. pass.entries[n].target # None
    BY ZenonT(120), <1>1 DEF EntryOK, InFlight
  <1>3. pass.entries[n].target \in Systems /\ pass.entries[n].generation \in 1..MaxGen
    BY ZenonT(120), <1>1, <1>2 DEF EntryOK, Entry
  <1> QED BY ZenonT(120), <1>1, <1>3 DEF JobName, JobNames

NodesOK == node \in [Nodes -> NodeObject]

\* A cordon that changes.
LEMMA CordonTypes ==
  ASSUME NodesOK, NEW n \in Nodes, NEW c \in {"no", "drain", "halt"},
         node' = [node EXCEPT ![n].cordon = c]
  PROVE  NodesOK'
  BY ZenonT(120) DEF NodesOK, NodeObject

\* What a step of the pass makes of node n: it flies on or lands; it is
\* about to be halted, or is halted; or it is started.
StepMakes(n, e) ==
    LET x == pass.entries[n] IN
    \/ /\ pass.at = "step" /\ n \in pass.left /\ Flies(x, e)
       /\ PassGoes(n, e, "step", pass.left \ {n})
    \/ /\ pass.at = "step" /\ n \in pass.left /\ Flies(x, e) /\ e = [x EXCEPT !.phase = "Reverted"]
       /\ PassGoes(n, e, "halt", pass.left)
    \/ /\ pass.at = "halt" /\ n \in pass.left /\ x.phase = "Reverted" /\ e = x
       /\ PassGoes(n, e, "step", pass.left \ {n})
    \/ /\ pass.at = "step" /\ pass.left = {} /\ Startable /\ x.phase = "Pending"
       /\ e \in Entry /\ e.phase = "Switching" /\ e.generation = pass.docs[pass.of].gen
       /\ e.target = x.target /\ e.drained = x.drained
       /\ PassGoes(n, e, "step", {})

FreshOK == fresh \in [Rollouts -> [Nodes -> BOOLEAN]]

\* The types that a step relies on.
LEMMA GivenTypes ==
  ASSUME Types
  PROVE  /\ JobsOK /\ HostsOK /\ NodesOK /\ FreshOK /\ PassOK
         /\ pass.at # "next" => \A n \in Nodes : EntryOK(pass.entries[n])
         /\ pass.at # "next" => pass.of \in Rollouts /\ pass.docs[pass.of] \in Doc
                                /\ pass.nodes \in [Nodes -> NodeObject]
  <1>1. JobsOK /\ HostsOK /\ NodesOK /\ FreshOK /\ PassOK
    BY ZenonT(120) DEF Types, RolloutTypeOK, JobsOK, HostsOK, NodesOK, FreshOK, JobNames, NodeObject
  <1> QED BY ZenonT(120), <1>1 DEF PassOK

\* The steps that only move a node in flight to another phase.
LEMMA MovingSteps ==
  ASSUME Types, NEW n \in Nodes,
         \/ DrainEnds(n) \/ Confirms(n) \/ JobFails(n) \/ SwitchDone(n)
         \/ RebootScheduled(n) \/ DrainFails(n) \/ RebootTimesOut(n)
  PROVE  /\ \E e : StepMakes(n, e)
         /\ JobsOK' /\ NodesOK' /\ FreshOK' /\ UNCHANGED <<host, spec, status, builds, failures>>
  <1>0. JobsOK /\ HostsOK /\ NodesOK /\ FreshOK /\ PassOK
    BY ZenonT(120), GivenTypes
  <1>1. ASSUME NEW a \in InFlight, Steps(n, a), NEW b \in Landing, Moves(n, b)
        PROVE  \E e : StepMakes(n, e)
    BY ZenonT(120), <1>0, <1>1, MovesSays DEF Steps, StepMakes
  <1>2. ASSUME NEW a \in InFlight, Steps(n, a), NEW b \in Action, Creates(JobName(n, b))
        PROVE  JobsOK'
    BY ZenonT(120), <1>0, <1>2, NameTypes, CreateTypes DEF Steps
  <1>3. /\ {"Draining", "Rebooting", "Confirming", "Switching", "Booting", "Disarming"} \subseteq InFlight
        /\ InFlight \cup {"Reverted", "DrainFailed"} \subseteq Landing
        /\ Action = {"switch", "boot", "disarm", "revert"}
    BY ZenonT(120) DEF InFlight, Landing, Action
  <1>4. CASE DrainEnds(n)
    BY ZenonT(120), <1>0, <1>1, <1>2, <1>3, <1>4 DEF DrainEnds, apiVars, NodesOK, FreshOK
  <1>5. CASE Confirms(n)
    BY ZenonT(120), <1>0, <1>1, <1>2, <1>3, <1>5 DEF Confirms, apiVars, NodesOK, FreshOK
  <1>6. CASE JobFails(n)
    <2>1. PICK a \in HasJob : Steps(n, a)
      BY ZenonT(120), <1>6 DEF JobFails
    <2>2. a \in InFlight
      BY ZenonT(120), <1>3 DEF HasJob
    <2>3. NodesOK'
      BY ZenonT(120), <1>0, <1>6, CordonTypes DEF JobFails, Halts
    <2> QED BY ZenonT(120), <1>0, <1>1, <1>3, <1>6, <2>1, <2>2, <2>3 DEF JobFails, Halts, hostVars, JobsOK, FreshOK
  <1>7. CASE SwitchDone(n)
    <2>1. FreshOK'
      BY ZenonT(120), <1>0, <1>7 DEF SwitchDone, FreshOK, JobIs, Steps, PassOK
    <2> QED BY ZenonT(120), <1>0, <1>1, <1>3, <1>7, <2>1 DEF SwitchDone, JobIs, hostVars, JobsOK, NodesOK
  <1>8. CASE RebootScheduled(n)
    BY ZenonT(120), <1>0, <1>1, <1>3, <1>8 DEF RebootScheduled, JobIs, hostVars, apiVars, JobsOK, NodesOK, FreshOK
  <1>9. CASE DrainFails(n)
    BY ZenonT(120), <1>0, <1>1, <1>3, <1>9 DEF DrainFails, hostVars, apiVars, JobsOK, NodesOK, FreshOK
  <1>10. CASE RebootTimesOut(n)
    <2>1. NodesOK'
      BY ZenonT(120), <1>0, <1>10, CordonTypes DEF RebootTimesOut, Halts
    <2> QED BY ZenonT(120), <1>0, <1>1, <1>3, <1>10, <2>1 DEF RebootTimesOut, Halts, hostVars, JobsOK, FreshOK
  <1> QED BY ZenonT(120), <1>4, <1>5, <1>6, <1>7, <1>8, <1>9, <1>10

\* The steps that set more of the entry, or wait.
LEMMA OtherSteps ==
  ASSUME Types, NEW n \in Nodes, RebootNeeded(n) \/ NodeDone(n) \/ StepWaits(n) \/ HaltsUnconfirmed(n)
  PROVE  /\ \E e : StepMakes(n, e)
         /\ JobsOK' /\ NodesOK' /\ FreshOK' /\ UNCHANGED <<host, spec, status, builds, failures>>
  <1> DEFINE x == pass.entries[n]
  <1>0. JobsOK /\ HostsOK /\ NodesOK /\ FreshOK /\ PassOK
    BY ZenonT(120), GivenTypes
  <1>1. pass.at # "next" => x \in Entry /\ EntryOK(x) /\ pass.nodes[n] \in NodeObject
    BY ZenonT(120), GivenTypes DEF EntryOK
  <1>2. HasJob \subseteq InFlight /\ {"Draining", "Rebooting", "Confirming"} \subseteq InFlight
    BY ZenonT(120) DEF InFlight, HasJob
  <1>3. CASE RebootNeeded(n)
    <2> DEFINE e == [x EXCEPT !.phase = "Draining", !.drained = TRUE, !.bootID = pass.nodes[n].bootID]
    <2>0. pass.at = "step" /\ n \in pass.left /\ x.phase = "Switching"
      BY ZenonT(120), <1>3 DEF RebootNeeded, JobIs, Steps
    <2>1. /\ e \in Entry /\ e.phase = "Draining" /\ e.target = x.target
          /\ e.generation = x.generation /\ e.drained
      BY ZenonT(120), <1>1, <2>0 DEF Entry, NodeObject, NodePhase, InFlight
    <2>2. Becomes(n, e)
      BY ZenonT(120), <1>3 DEF RebootNeeded
    <2> HIDE DEF e
    <2>3. PassGoes(n, e, "step", pass.left \ {n})
      BY ZenonT(120), <1>0, <2>0, <2>2, BecomesSays
    <2>4. Flies(x, e)
      BY ZenonT(120), <2>0, <2>1 DEF Flies, Landing, InFlight
    <2>5. NodesOK'
      <3>1. node[n].cordon \in {"no", "drain", "halt"}
        BY ZenonT(120), <1>0 DEF NodesOK, NodeObject
      <3> DEFINE c == IF node[n].cordon = "no" THEN "drain" ELSE node[n].cordon
      <3>2. c \in {"no", "drain", "halt"}
        BY ZenonT(120), <3>1
      <3>3. node' = [node EXCEPT ![n].cordon = c]
        BY ZenonT(120), <1>3 DEF RebootNeeded
      <3> HIDE DEF c
      <3> QED BY ZenonT(120), <1>0, <3>2, <3>3, CordonTypes
    <2>6. StepMakes(n, e)
      BY ZenonT(120), <2>0, <2>3, <2>4 DEF StepMakes
    <2> QED BY ZenonT(120), <1>0, <1>3, <2>5, <2>6 DEF RebootNeeded, hostVars, JobsOK, FreshOK
  <1>4. CASE NodeDone(n)
    <2> DEFINE e == [x EXCEPT !.phase = "Done", !.current = x.target, !.bootID = 0, !.drained = FALSE]
    <2>0. pass.at = "step" /\ n \in pass.left /\ x.phase = "Disarming"
      BY ZenonT(120), <1>4 DEF NodeDone, JobIs, Steps
    <2>1. /\ e \in Entry /\ e.phase = "Done" /\ e.target = x.target
          /\ e.generation = x.generation
      BY ZenonT(120), <1>1, <2>0 DEF Entry, NodePhase
    <2>2. Becomes(n, e)
      BY ZenonT(120), <1>4 DEF NodeDone
    <2> HIDE DEF e
    <2>3. PassGoes(n, e, "step", pass.left \ {n})
      BY ZenonT(120), <1>0, <2>0, <2>2, BecomesSays
    <2>4. Flies(x, e)
      BY ZenonT(120), <2>0, <2>1 DEF Flies, Landing, InFlight
    <2>5. NodesOK'
      <3>1. CASE x.drained
        BY ZenonT(120), <1>0, <1>4, <3>1, CordonTypes DEF NodeDone
      <3>2. CASE ~x.drained
        BY ZenonT(120), <1>0, <1>4, <3>2 DEF NodeDone, NodesOK
      <3> QED BY ZenonT(120), <3>1, <3>2
    <2>6. StepMakes(n, e)
      BY ZenonT(120), <2>0, <2>3, <2>4 DEF StepMakes
    <2> QED BY ZenonT(120), <1>0, <1>4, <2>5, <2>6 DEF NodeDone, hostVars, JobsOK, FreshOK
  <1>5. CASE StepWaits(n)
    <2>0. pass.at = "step" /\ n \in pass.left /\ x.phase \in InFlight
      BY ZenonT(120), <1>2, <1>5 DEF StepWaits, Steps, JobIs
    <2>1. PassGoes(n, x, "step", pass.left \ {n})
      BY ZenonT(120), <1>0, <1>5, <2>0, BecomesSays DEF StepWaits
    <2>2. Flies(x, x)
      BY ZenonT(120), <1>1, <2>0 DEF Flies, Landing
    <2>3. StepMakes(n, x)
      BY ZenonT(120), <2>0, <2>1, <2>2 DEF StepMakes
    <2> QED BY ZenonT(120), <1>0, <1>5, <2>3 DEF StepWaits, hostVars, apiVars, JobsOK, NodesOK, FreshOK
  <1>6. CASE HaltsUnconfirmed(n)
    <2>0. pass.at = "halt" /\ n \in pass.left /\ x.phase = "Reverted"
      BY ZenonT(120), <1>6 DEF HaltsUnconfirmed
    <2>1. x = [x EXCEPT !.phase = "Reverted"]
      BY ZenonT(120), <1>1, <2>0 DEF Entry
    <2>2. Becomes(n, x)
      BY ZenonT(120), <1>6, <2>1 DEF HaltsUnconfirmed, Halts, Moves
    <2>3. PassGoes(n, x, "step", pass.left \ {n})
      BY ZenonT(120), <1>0, <2>0, <2>2, BecomesSays
    <2>4. NodesOK'
      BY ZenonT(120), <1>0, <1>6, CordonTypes DEF HaltsUnconfirmed, Halts
    <2>5. StepMakes(n, x)
      BY ZenonT(120), <2>0, <2>3 DEF StepMakes
    <2> QED BY ZenonT(120), <1>0, <1>6, <2>4, <2>5 DEF HaltsUnconfirmed, hostVars, JobsOK, FreshOK
  <1> QED BY ZenonT(120), <1>3, <1>4, <1>5, <1>6

\* A confirmation that timed out: the revert Job, and the entry to halt.
LEMMA TimingOut ==
  ASSUME Types, NEW n \in Nodes, ConfirmTimesOut(n)
  PROVE  /\ \E e : StepMakes(n, e)
         /\ JobsOK' /\ NodesOK' /\ FreshOK' /\ UNCHANGED <<host, spec, status, builds, failures>>
  <1> DEFINE x == pass.entries[n]
             e == [x EXCEPT !.phase = "Reverted"]
  <1>0. JobsOK /\ HostsOK /\ NodesOK /\ FreshOK /\ PassOK
    BY ZenonT(120), GivenTypes
  <1>1. pass.at = "step" /\ n \in pass.left /\ x.phase = "Confirming"
    BY ZenonT(120) DEF ConfirmTimesOut, Steps
  <1>2. x \in Entry /\ x.phase \in InFlight
    BY ZenonT(120), <1>1, GivenTypes DEF EntryOK, InFlight
  <1>3. /\ e \in Entry /\ e.phase = "Reverted" /\ e.target = x.target
        /\ e.generation = x.generation /\ e.drained = x.drained
    BY ZenonT(120), <1>2 DEF Entry, NodePhase, Halting
  <1>4. PassGoes(n, e, "halt", pass.left)
    <2>1. pass = [at |-> pass.at, todo |-> pass.todo, docs |-> pass.docs, nodes |-> pass.nodes,
                  of |-> pass.of, entries |-> pass.entries, left |-> pass.left, open |-> pass.open]
      BY ZenonT(120), <1>0 DEF PassOK
    <2> DEFINE es == [pass.entries EXCEPT ![n] = e]
    <2>2. pass' = [pass EXCEPT !.at = "halt", !.entries = es]
      BY ZenonT(120) DEF ConfirmTimesOut
    <2> HIDE DEF es
    <2>3. pass' = [at |-> "halt", todo |-> pass.todo, docs |-> pass.docs, nodes |-> pass.nodes,
                   of |-> pass.of, entries |-> es, left |-> pass.left, open |-> pass.open]
      BY ZenonT(120), <2>1, <2>2
    <2> QED BY ZenonT(120), <2>3 DEF PassGoes, es
  <1>5. JobsOK'
    BY ZenonT(120), <1>0, <1>1, <1>2, NameTypes, CreateTypes DEF ConfirmTimesOut, Action
  <1>6. Flies(x, e)
    BY ZenonT(120), <1>2, <1>3 DEF Flies, Landing
  <1>7. StepMakes(n, e)
    BY ZenonT(120), <1>1, <1>4, <1>6 DEF StepMakes
  <1> QED BY ZenonT(120), <1>0, <1>5, <1>7 DEF ConfirmTimesOut, apiVars, NodesOK, FreshOK

\* start_switch names its Job after the generation of the document.
LEMMA Starting ==
  ASSUME Types, NEW n \in Nodes, StartSwitch(n)
  PROVE  /\ \E e : StepMakes(n, e)
         /\ JobsOK' /\ NodesOK' /\ FreshOK' /\ UNCHANGED <<host, spec, status, builds, failures>>
  <1> DEFINE x == pass.entries[n]
             gen == pass.docs[pass.of].gen
             e == [x EXCEPT !.phase = "Switching", !.generation = gen]
             j == [JobName(n, "switch") EXCEPT !.generation = gen]
  <1>0. JobsOK /\ HostsOK /\ NodesOK /\ FreshOK /\ PassOK
    BY ZenonT(120), GivenTypes
  <1>1. pass.at = "step" /\ pass.left = {} /\ Startable /\ x.phase = "Pending"
    BY ZenonT(120) DEF StartSwitch, StartsNext, Waiting
  <1>2. /\ EntryOK(x) /\ x \in Entry /\ pass.of \in Rollouts
        /\ gen \in 1..MaxGen /\ MaxGen \in Nat /\ gen \in Nat
    BY SMTT(120), <1>1, GivenTypes, RolloutAssumption DEF EntryOK, Doc
  <1>3. x.target \in Systems
    BY ZenonT(120), <1>1, <1>2 DEF EntryOK, Entry
  <1> HIDE DEF gen
  <1>4. /\ e \in Entry /\ e.phase = "Switching" /\ e.target = x.target
        /\ e.generation = gen /\ e.drained = x.drained
    BY ZenonT(120), <1>2 DEF Entry, NodePhase, InFlight
  <1>5. j \in JobNames
    <2>1. j = [rollout |-> pass.of, node |-> n, action |-> "switch", target |-> x.target, generation |-> gen]
      BY SMTT(120) DEF JobName
    <2> QED BY ZenonT(120), <1>2, <1>3, <2>1 DEF JobNames, Action
  <1>6. Creates(j) /\ Becomes(n, e)
    BY ZenonT(120) DEF StartSwitch, gen
  <1> HIDE DEF j, e
  <1>7. JobsOK'
    BY ZenonT(120), <1>0, <1>5, <1>6, CreateTypes
  <1>8. PassGoes(n, e, "step", {})
    <2>1. pass.left \ {n} = {}
      BY ZenonT(120), <1>1
    <2>2. PassGoes(n, e, "step", pass.left \ {n})
      BY ZenonT(120), <1>0, <1>1, <1>6, BecomesSays
    <2> QED BY ZenonT(120), <2>1, <2>2
  <1>9. StepMakes(n, e)
    BY ZenonT(120), <1>1, <1>4, <1>8 DEF StepMakes, gen
  <1> QED BY ZenonT(120), <1>0, <1>7, <1>9 DEF StartSwitch, apiVars, NodesOK, FreshOK

\* Every step of the pass at a node.
LEMMA StepSays ==
  ASSUME Types, NEW n \in Nodes, Step(n)
  PROVE  /\ \E e : StepMakes(n, e)
         /\ JobsOK' /\ NodesOK' /\ FreshOK' /\ UNCHANGED <<host, spec, status, builds, failures>>
  BY ZenonT(120), MovingSteps, OtherSteps, TimingOut, Starting DEF Step, TimesOut

\* The pass stays one: a step gives an entry what it needs.
LEMMA StepPass ==
  ASSUME Types, NEW n \in Nodes, NEW e, StepMakes(n, e)
  PROVE  /\ PassOK' /\ pass.at # "next" /\ pass'.at # "next" /\ EntryOK(e)
         /\ pass'.todo = pass.todo /\ pass'.of = pass.of /\ pass'.docs = pass.docs
         /\ pass'.nodes = pass.nodes /\ pass'.open = pass.open
         /\ pass'.entries = [pass.entries EXCEPT ![n] = e]
         /\ pass.entries \in [Nodes -> Entry]
         /\ pass.left \in SUBSET Nodes /\ pass'.left \subseteq pass.left
         /\ pass'.at = "step" => n \notin pass'.left
  <1> DEFINE x == pass.entries[n]
             doc == pass.docs[pass.of]
  <1>1. /\ pass.at # "next" /\ EntryOK(x) /\ doc.gen \in 1..MaxGen
        /\ pass.entries \in [Nodes -> Entry] /\ PassOK
        /\ \A m \in Nodes : EntryOK(pass.entries[m])
    <2>1. pass.at # "next"
      BY ZenonT(120) DEF StepMakes
    <2> QED BY ZenonT(120), <2>1, GivenTypes DEF PassOK, Doc
  <1>2. EntryOK(e)
    <2>1. CASE Flies(x, e)
      <3>1. x.target # None
        BY ZenonT(120), <1>1, <2>1 DEF Flies, EntryOK, InFlight
      <3> QED BY ZenonT(120), <1>1, <2>1, <3>1 DEF Flies, EntryOK
    <2>2. CASE e = x
      BY ZenonT(120), <1>1, <2>2
    <2>3. CASE /\ x.phase = "Pending" /\ e \in Entry /\ e.phase = "Switching" /\ e.generation = doc.gen
               /\ e.target = x.target
      BY ZenonT(120), <1>1, <2>3 DEF EntryOK
    <2> QED BY ZenonT(120), <2>1, <2>2, <2>3 DEF StepMakes
  <1>3. PICK a \in {"step", "halt"}, left \in SUBSET pass.left :
          PassGoes(n, e, a, left) /\ (a = "step" => n \notin left)
    BY SMTT(120) DEF StepMakes
  <1> DEFINE es == [pass.entries EXCEPT ![n] = e]
  <1>4. es \in [Nodes -> Entry] /\ \A m \in Nodes : EntryOK(es[m])
    BY ZenonT(120), <1>1, <1>2 DEF EntryOK
  <1>5. pass' = [at |-> a, todo |-> pass.todo, docs |-> pass.docs, nodes |-> pass.nodes, of |-> pass.of,
                 entries |-> es, left |-> left, open |-> pass.open]
    BY ZenonT(120), <1>3 DEF PassGoes
  <1> HIDE DEF es
  <1>6. /\ pass'.at = a /\ pass'.todo = pass.todo /\ pass'.docs = pass.docs /\ pass'.nodes = pass.nodes
        /\ pass'.of = pass.of /\ pass'.entries = es /\ pass'.left = left /\ pass'.open = pass.open
    BY ZenonT(120), <1>5
  <1>7. /\ pass.todo \in SUBSET Rollouts /\ pass.docs \in [Rollouts -> Doc] \cup {<< >>}
        /\ pass.nodes \in [Nodes -> NodeObject] \cup {<< >>} /\ pass.of \in Rollouts \cup {None}
        /\ pass.left \in SUBSET Nodes /\ pass.open \in BOOLEAN
        /\ pass.docs \in [Rollouts -> Doc] /\ pass.nodes \in [Nodes -> NodeObject] /\ pass.of \in Rollouts
    BY ZenonT(120), <1>1 DEF PassOK
  <1>8. pass' \in [at : {"next", "step", "halt"}, todo : SUBSET Rollouts,
                   docs : [Rollouts -> Doc] \cup {<< >>}, nodes : [Nodes -> NodeObject] \cup {<< >>},
                   of : Rollouts \cup {None}, entries : [Nodes -> Entry] \cup {<< >>},
                   left : SUBSET Nodes, open : BOOLEAN]
    BY ZenonT(120), <1>4, <1>5, <1>7
  <1>9. PassOK'
    BY ZenonT(120), <1>4, <1>6, <1>7, <1>8 DEF PassOK
  <1> QED BY ZenonT(120), <1>1, <1>2, <1>3, <1>6, <1>7, <1>9 DEF es

-----------------------------------------------------------------------------
(* The types.                                                               *)

SpecsOK == spec \in [Rollouts -> Doc]
StatusOK ==
    /\ status \in [Rollouts -> [gen : 0..MaxGen, nodes : [Nodes -> Entry]]]
    /\ \A r \in Rollouts, n \in Nodes : EntryOK(status[r].nodes[n])
BuildsOK == builds \in [Rollouts -> [gen : 0..MaxGen, of : [Nodes -> BuildState]]]
FailuresOK == failures \in 0..MaxFailures

\* The types, part by part, before and after a step.
LEMMA TypesAre ==
  /\ Types <=> /\ JobsOK /\ HostsOK /\ SpecsOK /\ StatusOK /\ NodesOK /\ FreshOK /\ BuildsOK
               /\ PassOK /\ FailuresOK
  /\ Types' <=> /\ JobsOK' /\ HostsOK' /\ SpecsOK' /\ StatusOK' /\ NodesOK' /\ FreshOK' /\ BuildsOK'
                /\ PassOK' /\ FailuresOK'
  <1>1. PassOK => /\ pass.at \in {"next", "step", "halt"}
                  /\ pass.at # "next" => pass.of \in Rollouts /\ pass.entries \in [Nodes -> Entry]
    BY ZenonT(120) DEF PassOK
  <1>2. PassOK' => /\ pass'.at \in {"next", "step", "halt"}
                   /\ pass'.at # "next" => pass'.of \in Rollouts /\ pass'.entries \in [Nodes -> Entry]
    BY ZenonT(120) DEF PassOK
  <1>3. Types <=> /\ JobsOK /\ HostsOK /\ SpecsOK /\ StatusOK /\ NodesOK /\ FreshOK /\ BuildsOK
                  /\ PassOK /\ FailuresOK
    BY ZenonT(120), <1>1 DEF Types, RolloutTypeOK, JobsOK, JobNames, HostsOK, SpecsOK, Doc, StatusOK, EntryOK,
       NodesOK, NodeObject, FreshOK, BuildsOK, FailuresOK
  <1>4. Types' <=> /\ JobsOK' /\ HostsOK' /\ SpecsOK' /\ StatusOK' /\ NodesOK' /\ FreshOK' /\ BuildsOK'
                   /\ PassOK' /\ FailuresOK'
    BY ZenonT(120), <1>2 DEF Types, RolloutTypeOK, JobsOK, JobNames, HostsOK, SpecsOK, Doc, StatusOK, EntryOK,
       NodesOK, NodeObject, FreshOK, BuildsOK, FailuresOK
  <1> QED BY ZenonT(120), <1>3, <1>4

\* A rollout that is taken: what the pass goes on with.
LEMMA TakesSay ==
  ASSUME Types, NEW r \in Rollouts, Reconcile(r)
  PROVE  /\ r \in pass.todo /\ pass'.of = r /\ pass'.docs = pass.docs /\ pass'.todo = pass.todo \ {r}
         /\ \A n \in Nodes : pass'.entries[n] = EntryFor(r, n)
         /\ pass'.left = {n \in Nodes : pass'.entries[n].phase \in InFlight}
         /\ UNCHANGED <<spec, status, node, jobs>>
  <1>1. PassOK
    BY ZenonT(120), TypesAre
  <1>2. /\ r \in pass.todo /\ pass'.of = r /\ pass'.docs = pass.docs /\ pass'.todo = pass.todo \ {r}
        /\ pass'.entries = [n \in Nodes |-> EntryFor(r, n)]
        /\ pass'.left = {n \in Nodes : pass'.entries[n].phase \in InFlight}
        /\ UNCHANGED <<hostVars, apiVars>>
    BY ZenonT(120), <1>1, ReconcileSays
  <1>3. \A n \in Nodes : pass'.entries[n] = EntryFor(r, n)
    BY ZenonT(120), <1>2
  <1> QED BY ZenonT(120), <1>2, <1>3 DEF hostVars, apiVars

\* The types of the pass then.
LEMMA ReconcileTypes ==
  ASSUME Types, NEW r \in Rollouts, Reconcile(r)
  PROVE  PassOK' /\ BuildsOK'
  <1> DEFINE doc == pass.docs[r]
             es == [n \in Nodes |-> EntryFor(r, n)]
  <1>0. PassOK /\ BuildsOK
    BY ZenonT(120), TypesAre
  <1>1. /\ pass.at = "next" /\ r \in pass.todo
        /\ builds' = [builds EXCEPT ![r] = NextBuilds(r)]
        /\ pass'.at = "step" /\ pass'.todo = pass.todo \ {r} /\ pass'.of = r
        /\ pass'.docs = pass.docs /\ pass'.nodes = pass.nodes
        /\ pass'.entries = es
        /\ pass'.left = {n \in Nodes : pass'.entries[n].phase \in InFlight}
        /\ pass'.open = (OpenFor(r) # {})
        /\ pass' \in [at : {"step"}, todo : {pass.todo \ {r}}, docs : {pass.docs}, nodes : {pass.nodes},
                      of : {r}, entries : {pass'.entries}, left : {pass'.left}, open : {pass'.open}]
    BY ZenonT(120), <1>0, ReconcileSays
  <1>2. /\ pass.docs \in [Rollouts -> Doc] /\ pass.nodes \in [Nodes -> NodeObject]
        /\ pass.todo \in SUBSET Rollouts /\ doc \in Doc
    BY ZenonT(120), <1>0, <1>1 DEF PassOK
  <1>3. \A n \in Nodes : EntryOK(EntryFor(r, n))
    BY ZenonT(120), <1>1, EntriesMade DEF Makes
  <1>4. es \in [Nodes -> Entry] /\ \A n \in Nodes : EntryOK(es[n])
    BY ZenonT(120), <1>3 DEF EntryOK
  <1> HIDE DEF es
  <1>5. PassOK'
    <2>1. pass'.left \in SUBSET Nodes /\ pass'.open \in BOOLEAN
      BY ZenonT(120), <1>1
    <2>2. pass' \in [at : {"next", "step", "halt"}, todo : SUBSET Rollouts,
                     docs : [Rollouts -> Doc] \cup {<< >>}, nodes : [Nodes -> NodeObject] \cup {<< >>},
                     of : Rollouts \cup {None}, entries : [Nodes -> Entry] \cup {<< >>},
                     left : SUBSET Nodes, open : BOOLEAN]
      <3>1. ASSUME NEW p \in [at : {"step"}, todo : {pass.todo \ {r}}, docs : {pass.docs}, nodes : {pass.nodes},
                             of : {r}, entries : {es}, left : {pass'.left}, open : {pass'.open}]
            PROVE  p \in [at : {"next", "step", "halt"}, todo : SUBSET Rollouts,
                     docs : [Rollouts -> Doc] \cup {<< >>}, nodes : [Nodes -> NodeObject] \cup {<< >>},
                     of : Rollouts \cup {None}, entries : [Nodes -> Entry] \cup {<< >>},
                     left : SUBSET Nodes, open : BOOLEAN]
        BY ZenonT(120), <1>2, <1>4, <2>1
      <3> QED BY ZenonT(120), <1>1, <3>1
    <2> QED BY ZenonT(120), <1>1, <1>2, <1>4, <2>2 DEF PassOK
  <1>6. BuildsOK'
    <2>1. BuildsFor(r, doc) \in [gen : 0..MaxGen, of : [Nodes -> BuildState]]
      <3> DEFINE old == IF builds[r].gen = doc.gen THEN builds[r].of ELSE [n \in Nodes |-> "none"]
                 new == [n \in Nodes |-> IF n \in doc.body.select /\ old[n] = "none" THEN "running" ELSE old[n]]
      <3>1. old \in [Nodes -> BuildState]
        BY ZenonT(120), <1>0 DEF BuildsOK, BuildState
      <3> HIDE DEF old
      <3>2. new \in [Nodes -> BuildState]
        BY ZenonT(120), <3>1 DEF BuildState
      <3>3. BuildsFor(r, doc) = [gen |-> doc.gen, of |-> new]
        BY ZenonT(120) DEF BuildsFor, old
      <3>4. doc.gen \in 0..MaxGen
        BY SMTT(120), <1>2, RolloutAssumption DEF Doc
      <3> HIDE DEF new
      <3> QED BY SMTT(120), <3>2, <3>3, <3>4
    <2>2. NextBuilds(r) \in [gen : 0..MaxGen, of : [Nodes -> BuildState]]
      BY ZenonT(120), <1>0, <2>1 DEF NextBuilds, BuildsOK
    <2> QED BY ZenonT(120), <1>0, <1>1, <2>2 DEF BuildsOK
  <1> QED BY ZenonT(120), <1>5, <1>6

\* A pass that is done with a rollout keeps what it listed for the others.
Resets == pass' = [Idle EXCEPT !.todo = pass.todo,
                               !.docs = IF pass.todo = {} THEN << >> ELSE pass.docs,
                               !.nodes = IF pass.todo = {} THEN << >> ELSE pass.nodes]

\* It stays a pass.
LEMMA ResetTypes ==
  ASSUME PassOK, Resets
  PROVE  /\ PassOK' /\ pass'.at = "next" /\ pass'.todo = pass.todo
         /\ pass.todo # {} => pass'.docs = pass.docs /\ pass'.nodes = pass.nodes
  <1> DEFINE docs == IF pass.todo = {} THEN << >> ELSE pass.docs
             nodes == IF pass.todo = {} THEN << >> ELSE pass.nodes
  <1>1. /\ docs \in [Rollouts -> Doc] \cup {<< >>} /\ nodes \in [Nodes -> NodeObject] \cup {<< >>}
        /\ pass.todo \in SUBSET Rollouts
        /\ pass.todo # {} => docs = pass.docs /\ nodes = pass.nodes
        /\ pass.todo # {} => docs \in [Rollouts -> Doc] /\ nodes \in [Nodes -> NodeObject]
    BY ZenonT(120) DEF PassOK
  <1>2. pass' = [Idle EXCEPT !.todo = pass.todo, !.docs = docs, !.nodes = nodes]
    BY ZenonT(120) DEF Resets
  <1> HIDE DEF docs, nodes
  <1>3. pass' = [at |-> "next", todo |-> pass.todo, docs |-> docs, nodes |-> nodes, of |-> None,
                 entries |-> << >>, left |-> {}, open |-> FALSE]
    BY ZenonT(120), <1>2 DEF Idle
  <1>4. pass'.at = "next" /\ pass'.todo = pass.todo /\ pass'.docs = docs /\ pass'.nodes = nodes
    BY ZenonT(120), <1>3
  <1>5. pass' \in [at : {"next", "step", "halt"}, todo : SUBSET Rollouts,
                   docs : [Rollouts -> Doc] \cup {<< >>}, nodes : [Nodes -> NodeObject] \cup {<< >>},
                   of : Rollouts \cup {None}, entries : [Nodes -> Entry] \cup {<< >>},
                   left : SUBSET Nodes, open : BOOLEAN]
    BY ZenonT(120), <1>1, <1>3
  <1> QED BY ZenonT(120), <1>1, <1>4, <1>5 DEF PassOK

\* So does one that begins.
LEMMA BeginTypes ==
  ASSUME Types, BeginPass
  PROVE  PassOK' /\ pass'.at = "next" /\ pass'.todo = Rollouts /\ pass'.docs = spec
  <1>0. spec \in [Rollouts -> Doc] /\ node \in [Nodes -> NodeObject]
    BY ZenonT(120), TypesAre DEF SpecsOK, NodesOK
  <1>1. pass' = [at |-> "next", todo |-> Rollouts, docs |-> spec, nodes |-> node, of |-> None,
                 entries |-> << >>, left |-> {}, open |-> FALSE]
    BY ZenonT(120) DEF BeginPass, Idle
  <1>2. pass'.at = "next" /\ pass'.todo = Rollouts /\ pass'.docs = spec /\ pass'.nodes = node
    BY ZenonT(120), <1>1
  <1>3. pass' \in [at : {"next", "step", "halt"}, todo : SUBSET Rollouts,
                   docs : [Rollouts -> Doc] \cup {<< >>}, nodes : [Nodes -> NodeObject] \cup {<< >>},
                   of : Rollouts \cup {None}, entries : [Nodes -> Entry] \cup {<< >>},
                   left : SUBSET Nodes, open : BOOLEAN]
    BY ZenonT(120), <1>0, <1>1
  <1> QED BY ZenonT(120), <1>0, <1>2, <1>3 DEF PassOK

\* And the idle one of a new controller.
LEMMA IdleTypes ==
  /\ pass = Idle => PassOK /\ pass.at = "next" /\ pass.todo = {}
  /\ pass' = Idle => PassOK' /\ pass'.at = "next" /\ pass'.todo = {}
  <1> DEFINE PassType == [at : {"next", "step", "halt"}, todo : SUBSET Rollouts,
                          docs : [Rollouts -> Doc] \cup {<< >>}, nodes : [Nodes -> NodeObject] \cup {<< >>},
                          of : Rollouts \cup {None}, entries : [Nodes -> Entry] \cup {<< >>},
                          left : SUBSET Nodes, open : BOOLEAN]
  <1>1. Idle \in PassType /\ Idle.at = "next" /\ Idle.todo = {}
    BY ZenonT(120) DEF Idle
  <1>2. ASSUME pass = Idle PROVE PassOK
    BY ZenonT(120), <1>1, <1>2 DEF PassOK
  <1>3. ASSUME pass' = Idle PROVE PassOK'
    BY ZenonT(120), <1>1, <1>3 DEF PassOK
  <1> QED BY ZenonT(120), <1>1, <1>2, <1>3

\* The first state.
LEMMA TypesInit ==
  RolloutInit => Types
  <1> SUFFICES ASSUME RolloutInit PROVE Types
    BY ZenonT(120)
  <1> USE RolloutAssumption
  <1>0. /\ jobs = << >>
        /\ host = [n \in Nodes |-> [current |-> First, booted |-> First, default |-> First, timer |-> FALSE,
                                    back |-> First, revert |-> "no", reboot |-> FALSE, boots |-> 0]]
    BY ZenonT(120) DEF RolloutInit, SwitchInit
  <1>1. JobsOK /\ HostsOK
    <2>1. JobsOK
      BY SMTT(120), <1>0 DEF JobsOK
    <2> QED BY ZenonT(120), <1>0, <2>1 DEF HostsOK, HostState
  <1>2. SpecsOK
    BY SMTT(120) DEF RolloutInit, SpecsOK, Doc
  <1>3. NoEntry \in Entry /\ EntryOK(NoEntry)
    BY ZenonT(120) DEF NoEntry, Entry, NodePhase, EntryOK, InFlight
  <1>4. StatusOK
    BY SMTT(120), <1>3 DEF RolloutInit, StatusOK
  <1>5. NodesOK /\ FreshOK
    BY ZenonT(120) DEF RolloutInit, NodesOK, NodeObject, FreshOK
  <1>6. BuildsOK
    BY SMTT(120) DEF RolloutInit, BuildsOK, BuildState
  <1>7. FailuresOK /\ PassOK
    BY SMTT(120), IdleTypes DEF RolloutInit, FailuresOK
  <1> QED BY ZenonT(120), <1>1, <1>2, <1>4, <1>5, <1>6, <1>7, TypesAre

Outside(r, n) ==
    \/ BuildDone(r, n) \/ BuildFails(r, n)
    \/ StoreUnreachable(r, n) \/ StoreAnswersAgain(r, n) \/ StoreGaveUp(r, n)

\* What the builds, the kubelets and the users do.
LEMMA OutsideTypes ==
  ASSUME Types, NEW r, NEW n,
         \/ r \in Rollouts /\ n \in Nodes /\ Outside(r, n)
         \/ n \in Nodes /\ (NodeReports(n) \/ LeaseRenews(n))
         \/ r \in Rollouts /\ SpecChanges(r)
  PROVE  Types' /\ UNCHANGED <<status, pass>>
  <1>0. /\ JobsOK /\ HostsOK /\ SpecsOK /\ StatusOK /\ NodesOK /\ FreshOK /\ BuildsOK /\ PassOK /\ FailuresOK
    BY ZenonT(120), TypesAre
  <1>1. UNCHANGED hostVars => JobsOK' /\ HostsOK'
    BY ZenonT(120), <1>0 DEF hostVars, JobsOK, HostsOK
  <1>2. UNCHANGED <<status, pass, failures>> => StatusOK' /\ PassOK' /\ FailuresOK'
    BY ZenonT(120), <1>0 DEF StatusOK, PassOK, FailuresOK
  <1>3. ASSUME r \in Rollouts, n \in Nodes, NEW from, NEW to \in BuildState, Builds(r, n, from, to)
        PROVE  Types' /\ UNCHANGED <<status, pass>>
    <2>1. BuildsOK'
      BY ZenonT(120), <1>0, <1>3 DEF Builds, BuildsOK
    <2>2. SpecsOK' /\ NodesOK' /\ FreshOK'
      BY ZenonT(120), <1>0, <1>3 DEF Builds, apiVars, SpecsOK, NodesOK, FreshOK
    <2> QED BY ZenonT(120), <1>1, <1>2, <1>3, <2>1, <2>2, TypesAre DEF Builds, apiVars
  <1>4. CASE r \in Rollouts /\ n \in Nodes /\ Outside(r, n)
    <2>1. {"done", "error", "waiting", "running"} \subseteq BuildState
      BY ZenonT(120) DEF BuildState
    <2> QED BY ZenonT(120), <1>3, <1>4, <2>1 DEF Outside, BuildDone, BuildFails, StoreUnreachable, StoreAnswersAgain, StoreGaveUp
  <1>5. CASE n \in Nodes /\ NodeReports(n)
    <2> DEFINE b == IF Up(n) THEN host[n].boots ELSE node[n].bootID
               o == [node[n] EXCEPT !.ready = Up(n), !.bootID = b]
    <2>1. b \in Nat /\ Up(n) \in BOOLEAN
      BY ZenonT(120), <1>0, <1>5 DEF HostsOK, HostState, NodesOK, NodeObject, Up
    <2> HIDE DEF b
    <2>2. o \in NodeObject
      BY ZenonT(120), <1>0, <1>5, <2>1 DEF NodesOK, NodeObject
    <2>3. node' = [node EXCEPT ![n] = o]
      BY ZenonT(120), <1>5 DEF NodeReports, b
    <2> HIDE DEF o
    <2>4. NodesOK'
      BY ZenonT(120), <1>0, <2>2, <2>3 DEF NodesOK
    <2>5. SpecsOK' /\ FreshOK' /\ BuildsOK'
      BY ZenonT(120), <1>0, <1>5 DEF NodeReports, SpecsOK, FreshOK, BuildsOK
    <2> QED BY ZenonT(120), <1>1, <1>2, <1>5, <2>4, <2>5, TypesAre DEF NodeReports
  <1>6. CASE n \in Nodes /\ LeaseRenews(n)
    <2>1. FreshOK'
      BY ZenonT(120), <1>0, <1>6 DEF LeaseRenews, FreshOK
    <2>2. SpecsOK' /\ NodesOK' /\ BuildsOK'
      BY ZenonT(120), <1>0, <1>6 DEF LeaseRenews, SpecsOK, NodesOK, BuildsOK
    <2> QED BY ZenonT(120), <1>1, <1>2, <1>6, <2>1, <2>2, TypesAre DEF LeaseRenews
  <1>7. CASE r \in Rollouts /\ SpecChanges(r)
    <2>1. SpecsOK'
      <3>1. PICK s \in SpecChoices : spec' = [spec EXCEPT ![r] = [gen |-> spec[r].gen + 1, body |-> s]]
        BY ZenonT(120), <1>7 DEF SpecChanges
      <3>2. spec[r].gen + 1 \in 1..MaxGen
        BY SMTT(120), <1>0, <1>7, RolloutAssumption DEF SpecChanges, SpecsOK, Doc
      <3>3. [gen |-> spec[r].gen + 1, body |-> s] \in Doc
        BY ZenonT(120), <3>2, RolloutAssumption DEF Doc
      <3> QED BY ZenonT(120), <1>0, <3>1, <3>3 DEF SpecsOK
    <2>2. NodesOK' /\ FreshOK' /\ BuildsOK'
      BY ZenonT(120), <1>0, <1>7 DEF SpecChanges, NodesOK, FreshOK, BuildsOK
    <2> QED BY ZenonT(120), <1>1, <1>2, <1>7, <2>1, <2>2, TypesAre DEF SpecChanges
  <1> QED BY ZenonT(120), <1>4, <1>5, <1>6, <1>7

Machines ==
    /\ \/ \E n \in Nodes : Pods(n) \/ HostStep(n)
       \/ \E j \in DOMAIN jobs : DeadlinePasses(j) \/ JobExpires(j)
    /\ UNCHANGED <<apiVars, builds, pass, failures>>

\* Every step keeps the types.
LEMMA TypesStep ==
  Types /\ [RolloutNext]_rolloutVars => Types'
  <1> SUFFICES ASSUME Types, [RolloutNext]_rolloutVars PROVE Types'
    BY ZenonT(120)
  <1>0. /\ JobsOK /\ HostsOK /\ SpecsOK /\ StatusOK /\ NodesOK /\ FreshOK /\ BuildsOK /\ PassOK /\ FailuresOK
    BY ZenonT(120), TypesAre
  <1>1. UNCHANGED hostVars => JobsOK' /\ HostsOK'
    BY ZenonT(120), <1>0 DEF hostVars, JobsOK, HostsOK
  <1>2. UNCHANGED apiVars => SpecsOK' /\ StatusOK' /\ NodesOK' /\ FreshOK'
    BY ZenonT(120), <1>0 DEF apiVars, SpecsOK, StatusOK, NodesOK, FreshOK
  <1>3. /\ UNCHANGED builds => BuildsOK'
        /\ UNCHANGED failures => FailuresOK'
        /\ UNCHANGED pass => PassOK'
    BY ZenonT(120), <1>0 DEF BuildsOK, FailuresOK, PassOK
  <1>4. CASE BeginPass
    BY ZenonT(120), <1>1, <1>2, <1>3, <1>4, BeginTypes, TypesAre DEF BeginPass
  <1>5. ASSUME NEW r \in Rollouts, Reconcile(r) PROVE Types'
    BY ZenonT(120), <1>1, <1>2, <1>3, <1>5, ReconcileTypes, TypesAre DEF Reconcile
  <1>6. ASSUME NEW n \in Nodes, Step(n) PROVE Types'
    <2>1. /\ \E e : StepMakes(n, e)
          /\ JobsOK' /\ NodesOK' /\ FreshOK' /\ UNCHANGED <<host, spec, status, builds, failures>>
      BY ZenonT(120), <1>6, StepSays
    <2>2. PassOK'
      BY ZenonT(120), <2>1, StepPass
    <2>3. HostsOK' /\ SpecsOK' /\ StatusOK'
      BY ZenonT(120), <1>0, <2>1 DEF HostsOK, SpecsOK, StatusOK
    <2> QED BY ZenonT(120), <1>3, <2>1, <2>2, <2>3, TypesAre
  <1>7. CASE Patches
    <2>1. PassOK'
      BY ZenonT(120), <1>0, <1>7, ResetTypes DEF Patches, Resets
    <2>2. /\ pass.of \in Rollouts /\ pass.entries \in [Nodes -> Entry]
          /\ \A n \in Nodes : EntryOK(pass.entries[n])
          /\ pass.docs[pass.of].gen \in 0..MaxGen
      <3>1. pass.docs[pass.of] \in Doc
        BY ZenonT(120), <1>7, GivenTypes DEF Patches
      <3> QED BY SMTT(120), <1>0, <1>7, <3>1, RolloutAssumption DEF Patches, PassOK, Doc
    <2>3. StatusOK'
      <3> DEFINE s == [gen |-> pass.docs[pass.of].gen, nodes |-> pass.entries]
      <3>1. s \in [gen : 0..MaxGen, nodes : [Nodes -> Entry]] /\ s.nodes = pass.entries
        BY ZenonT(120), <2>2
      <3>2. status' = [status EXCEPT ![pass.of] = s]
        BY ZenonT(120), <1>7 DEF Patches
      <3> HIDE DEF s
      <3> QED BY ZenonT(120), <1>0, <2>2, <3>1, <3>2 DEF StatusOK
    <2>4. SpecsOK' /\ NodesOK' /\ FreshOK'
      BY ZenonT(120), <1>0, <1>7 DEF Patches, SpecsOK, NodesOK, FreshOK
    <2> QED BY ZenonT(120), <1>1, <1>3, <1>7, <2>1, <2>3, <2>4, TypesAre DEF Patches
  <1>8. CASE ReconcileFails
    <2>1. PassOK'
      BY ZenonT(120), <1>0, <1>8, ResetTypes DEF ReconcileFails, Resets
    <2>2. FailuresOK'
      BY SMTT(120), <1>0, <1>8, RolloutAssumption DEF ReconcileFails, FailuresOK
    <2> QED BY ZenonT(120), <1>1, <1>2, <1>3, <1>8, <2>1, <2>2, TypesAre DEF ReconcileFails
  <1>9. CASE Crash
    <2>1. PassOK'
      BY ZenonT(120), <1>9, IdleTypes DEF Crash
    <2>2. FailuresOK' /\ BuildsOK'
      BY SMTT(120), <1>0, <1>9, RolloutAssumption DEF Crash, FailuresOK, BuildsOK, BuildState
    <2> QED BY ZenonT(120), <1>1, <1>2, <1>9, <2>1, <2>2, TypesAre DEF Crash
  <1>10. ASSUME NEW r \in Rollouts, NEW n \in Nodes, Outside(r, n) PROVE Types'
    BY ZenonT(120), <1>10, OutsideTypes
  <1>11. ASSUME NEW n \in Nodes, NodeReports(n) \/ LeaseRenews(n) PROVE Types'
    BY ZenonT(120), <1>11, OutsideTypes
  <1>12. ASSUME NEW r \in Rollouts, SpecChanges(r) PROVE Types'
    BY ZenonT(120), <1>12, OutsideTypes
  <1>13. CASE Machines
    <2>1. JobsOK' /\ HostsOK'
      <3>1. ASSUME NEW n \in Nodes, Pods(n) PROVE JobsOK' /\ HostsOK'
        BY ZenonT(120), <1>0, <3>1, PodJobTypes, PodHostTypes DEF Pods
      <3>2. ASSUME NEW n \in Nodes, HostStep(n) PROVE JobsOK' /\ HostsOK'
        BY ZenonT(120), <1>0, <3>2, HostTypes
      <3>3. ASSUME NEW j \in DOMAIN jobs, DeadlinePasses(j) \/ JobExpires(j) PROVE JobsOK' /\ HostsOK'
        BY ZenonT(120), <1>0, <3>3, JobEndTypes
      <3> QED BY ZenonT(120), <1>13, <3>1, <3>2, <3>3 DEF Machines
    <2> QED BY ZenonT(120), <1>2, <1>3, <1>13, <2>1, TypesAre DEF Machines
  <1>14. CASE UNCHANGED rolloutVars
    BY ZenonT(120), <1>1, <1>2, <1>3, <1>14, TypesAre DEF rolloutVars
  <1> QED BY ZenonT(120), <1>4, <1>5, <1>6, <1>7, <1>8, <1>9, <1>10, <1>11, <1>12, <1>13, <1>14
             DEF RolloutNext, Controller, Outside, Machines

\* Whatever the faults and the specs, every variable has its type, every entry
\* past its build a target, and every entry in flight the generation its Jobs
\* are named after (plan, build_entries, step, start_switch).
THEOREM RolloutTypes ==
  RolloutSpec => [](RolloutTypeOK /\ \A r \in Rollouts, n \in Nodes : EntryOK(status[r].nodes[n]))
  <1>1. Types => RolloutTypeOK /\ \A r \in Rollouts, n \in Nodes : EntryOK(status[r].nodes[n])
    BY ZenonT(120) DEF Types
  <1> QED BY <1>1, TypesInit, TypesStep, PTL DEF RolloutSpec

-----------------------------------------------------------------------------
(* What a pass keeps of the nodes in flight.                                *)

\* The rollouts that the pass has listed and not finished.
Waits(r) == r \in pass.todo \/ (pass.at # "next" /\ r = pass.of)

\* A pass works on the specs it listed, which may be old but are not wrong.
DocsAreSpecs ==
    \A r \in Rollouts : Waits(r) =>
        /\ pass.docs[r].gen <= spec[r].gen
        /\ pass.docs[r].gen = spec[r].gen => pass.docs[r] = spec[r]

\* No entry is of a generation that the pass has not seen.
GenerationsAreSeen ==
    /\ \A r \in Rollouts, n \in Nodes :
        /\ status[r].nodes[n].generation <= spec[r].gen
        /\ Waits(r) => status[r].nodes[n].generation <= pass.docs[r].gen
    /\ pass.at # "next" =>
        \A n \in Nodes : pass.entries[n].generation <= pass.docs[pass.of].gen

\* The nodes a pass still has to step are the ones in flight, as the status
\* has them; at most one, the one being halted, is Reverted already.
LeftIsInFlight ==
    pass.at # "next" => \A n \in pass.left :
        LET e == status[pass.of].nodes[n] IN
        /\ e.phase \in InFlight
        /\ \/ pass.entries[n] = e
           \/ /\ pass.at = "halt" /\ pass.entries[n].phase = "Reverted"
              /\ \A m \in pass.left \ {n} : pass.entries[m].phase # "Reverted"

\* What a pass makes of a node in flight is a later phase.
FlightIsKept ==
    pass.at # "next" => \A n \in Nodes :
        status[pass.of].nodes[n].phase \in InFlight
        => pass.entries[n].phase \in InFlight \cup {"Done", "Reverted", "DrainFailed"}

Started == InFlight \cup {"Reverted", "DrainFailed"}

\* A node in flight or halted at a generation is one that this generation
\* selects and has a system for.
FlightWasChosen ==
    /\ \A r \in Rollouts, n \in Nodes :
        status[r].nodes[n].phase \in Started =>
            /\ status[r].nodes[n].generation = spec[r].gen => Chosen(spec[r], n)
            /\ Waits(r) /\ status[r].nodes[n].generation = pass.docs[r].gen
               => Chosen(pass.docs[r], n)
    /\ pass.at # "next" => \A n \in Nodes :
        /\ pass.entries[n].phase \in Started /\ pass.entries[n].generation = pass.docs[pass.of].gen
           => Chosen(pass.docs[pass.of], n)
        /\ pass.entries[n].phase = "Pending" => Chosen(pass.docs[pass.of], n)

\* The inductive invariant.
RolloutInv ==
    /\ Types
    /\ DocsAreSpecs
    /\ GenerationsAreSeen
    /\ LeftIsInFlight
    /\ FlightIsKept
    /\ FlightWasChosen

-----------------------------------------------------------------------------
(* The kinds of step, seen from the pass.                                   *)

Begins ==
    /\ pass'.at = "next" /\ pass'.todo = Rollouts /\ pass'.docs = spec
    /\ UNCHANGED <<spec, status>>

\* The pass is done with a rollout, saved or not, or is lost.
Ends == /\ pass'.at = "next" /\ (pass'.todo = pass.todo \/ pass'.todo = {})
        /\ pass'.todo # {} => pass'.docs = pass.docs
        /\ UNCHANGED spec

Saves == /\ pass.at = "step" /\ pass.left = {} /\ Ends
         /\ status' = [status EXCEPT ![pass.of] = [gen |-> pass.docs[pass.of].gen,
                                                   nodes |-> pass.entries]]

Drops == Ends /\ UNCHANGED status

\* Every step is one of these.
LEMMA Kinds ==
  ASSUME Types, [RolloutNext]_rolloutVars
  PROVE  \/ Begins \/ Saves \/ Drops
         \/ \E r \in Rollouts : Reconcile(r)
         \/ \E n \in Nodes : Step(n)
         \/ \E r \in Rollouts : SpecChanges(r)
         \/ UNCHANGED <<spec, status, pass>>
  <1>0. PassOK
    BY ZenonT(120), TypesAre
  <1>1. CASE BeginPass
    BY ZenonT(120), <1>1, BeginTypes DEF BeginPass, Begins, apiVars
  <1>2. CASE Patches
    BY ZenonT(120), <1>0, <1>2, ResetTypes DEF Patches, Resets, Saves, Ends
  <1>3. CASE ReconcileFails
    BY ZenonT(120), <1>0, <1>3, ResetTypes DEF ReconcileFails, Resets, Drops, Ends, apiVars
  <1>4. CASE Crash
    BY ZenonT(120), <1>4, IdleTypes DEF Crash, Drops, Ends, apiVars
  <1>5. ASSUME NEW r, NEW n, \/ r \in Rollouts /\ n \in Nodes /\ Outside(r, n)
                             \/ n \in Nodes /\ (NodeReports(n) \/ LeaseRenews(n))
        PROVE  UNCHANGED <<spec, status, pass>>
    BY ZenonT(120), <1>5 DEF Outside, BuildDone, BuildFails, StoreUnreachable, StoreAnswersAgain, StoreGaveUp, Builds,
       NodeReports, LeaseRenews, apiVars
  <1>6. CASE Machines
    BY ZenonT(120), <1>6 DEF Machines, apiVars
  <1>7. CASE UNCHANGED rolloutVars
    BY ZenonT(120), <1>7 DEF rolloutVars, apiVars
  <1> QED BY ZenonT(120), <1>1, <1>2, <1>3, <1>4, <1>5, <1>6, <1>7
             DEF RolloutNext, Controller, Outside, Machines

\* Generations are numbers.
LEMMA Numbers ==
  ASSUME Types
  PROVE  /\ \A r \in Rollouts : spec[r].gen \in Nat
         /\ \A r \in Rollouts, n \in Nodes : status[r].nodes[n].generation \in Nat
         /\ \A r \in Rollouts : Waits(r) => pass.docs[r].gen \in Nat /\ pass.docs[r] \in Doc
         /\ pass.at # "next" => \A n \in Nodes : pass.entries[n].generation \in Nat
  <1>0. PassOK /\ SpecsOK /\ StatusOK
    BY ZenonT(120), TypesAre
  <1>1. \A d \in Doc : d.gen \in Nat
    BY SMTT(120), RolloutAssumption DEF Doc
  <1>2. \A r \in Rollouts : Waits(r) => pass.docs[r] \in Doc
    BY ZenonT(120), <1>0 DEF PassOK, Waits
  <1>3. \A e : EntryOK(e) => e.generation \in Nat
    BY ZenonT(120) DEF EntryOK, Entry
  <1> QED BY ZenonT(120), <1>0, <1>1, <1>2, <1>3 DEF SpecsOK, StatusOK, PassOK

\* Whom a pass still has to work for, after a step.
LEMMA WaitsStep ==
  ASSUME Types, NEW r \in Rollouts, Waits(r)'
  PROVE  /\ Ends => Waits(r) /\ pass'.docs[r] = pass.docs[r]
         /\ \A s \in Rollouts : Reconcile(s) => Waits(r) /\ pass'.docs[r] = pass.docs[r]
         /\ \A n \in Nodes : \A e : StepMakes(n, e) => Waits(r) /\ pass'.docs[r] = pass.docs[r]
         /\ UNCHANGED pass => Waits(r) /\ pass'.docs[r] = pass.docs[r]
  <1>0. PassOK
    BY ZenonT(120), TypesAre
  <1>1. Ends => Waits(r) /\ pass'.docs[r] = pass.docs[r]
    BY ZenonT(120) DEF Ends, Waits
  <1>2. ASSUME NEW s \in Rollouts, Reconcile(s) PROVE Waits(r) /\ pass'.docs[r] = pass.docs[r]
    BY ZenonT(120), <1>0, <1>2, ReconcileSays DEF Waits
  <1>3. ASSUME NEW n \in Nodes, NEW e, StepMakes(n, e) PROVE Waits(r) /\ pass'.docs[r] = pass.docs[r]
    BY ZenonT(120), <1>3, StepPass DEF Waits
  <1>4. UNCHANGED pass => Waits(r) /\ pass'.docs[r] = pass.docs[r]
    BY ZenonT(120) DEF Waits
  <1> QED BY ZenonT(120), <1>1, <1>2, <1>3, <1>4

\* A spec that changes gets the next generation.
LEMMA ChangesSay ==
  ASSUME Types, NEW r \in Rollouts, SpecChanges(r)
  PROVE  /\ UNCHANGED <<status, pass>>
         /\ spec'[r].gen = spec[r].gen + 1
         /\ \A s \in Rollouts \ {r} : spec'[s] = spec[s]
  <1>0. SpecsOK
    BY ZenonT(120), TypesAre
  <1>1. PICK b : spec' = [spec EXCEPT ![r] = [gen |-> spec[r].gen + 1, body |-> b]]
    BY ZenonT(120) DEF SpecChanges
  <1> QED BY ZenonT(120), <1>0, <1>1 DEF SpecsOK, SpecChanges

\* A pass never works on a document that was not the spec.
LEMMA DocsStep ==
  ASSUME Types, DocsAreSpecs, [RolloutNext]_rolloutVars
  PROVE  DocsAreSpecs'
  <1> SUFFICES ASSUME NEW r \in Rollouts, Waits(r)'
               PROVE  /\ pass'.docs[r].gen <= spec'[r].gen
                      /\ pass'.docs[r].gen = spec'[r].gen => pass'.docs[r] = spec'[r]
    BY ZenonT(120) DEF DocsAreSpecs
  <1>0. spec[r].gen \in Nat /\ (Waits(r) => pass.docs[r].gen \in Nat)
    BY ZenonT(120), Numbers
  <1>1. CASE Begins
    BY SMTT(120), <1>0, <1>1 DEF Begins
  <1>2. CASE Saves \/ Drops \/ (\E s \in Rollouts : Reconcile(s)) \/ (\E n \in Nodes : Step(n))
             \/ UNCHANGED <<spec, status, pass>>
    <2>1. UNCHANGED spec
      BY ZenonT(120), <1>2, StepSays DEF Saves, Drops, Ends, Reconcile, apiVars
    <2>2. Waits(r) /\ pass'.docs[r] = pass.docs[r]
      BY ZenonT(120), <1>2, StepSays, WaitsStep DEF Saves, Drops
    <2> QED BY ZenonT(120), <2>1, <2>2 DEF DocsAreSpecs
  <1>3. ASSUME NEW s \in Rollouts, SpecChanges(s)
        PROVE  /\ pass'.docs[r].gen <= spec'[r].gen
               /\ pass'.docs[r].gen = spec'[r].gen => pass'.docs[r] = spec'[r]
    <2>1. Waits(r) /\ pass'.docs[r] = pass.docs[r]
      BY ZenonT(120), <1>3, ChangesSay, WaitsStep
    <2> QED BY SMTT(120), <1>0, <1>3, <2>1, ChangesSay DEF DocsAreSpecs
  <1> QED BY ZenonT(120), <1>1, <1>2, <1>3, Kinds

\* What a step leaves alone, by its kind.
LEMMA KindsKeep ==
  ASSUME Types, Begins \/ Drops \/ (\E s \in Rollouts : Reconcile(s)) \/ (\E n \in Nodes : Step(n))
                \/ UNCHANGED <<spec, status, pass>>
  PROVE  UNCHANGED <<spec, status>>
  BY ZenonT(120), StepSays DEF Begins, Drops, Ends, Reconcile, apiVars

\* The status that a pass saves.
LEMMA SavesSay ==
  ASSUME Types, Saves
  PROVE  /\ pass.of \in Rollouts /\ UNCHANGED spec
         /\ \A n \in Nodes : status'[pass.of].nodes[n] = pass.entries[n]
         /\ \A r \in Rollouts \ {pass.of} : status'[r] = status[r]
  <1>0. PassOK /\ StatusOK
    BY ZenonT(120), TypesAre
  <1> QED BY ZenonT(120), <1>0 DEF Saves, Ends, PassOK, StatusOK

\* The generations of the entries stay behind the document and the spec.
LEMMA GenerationsStep ==
  ASSUME Types, DocsAreSpecs, GenerationsAreSeen, [RolloutNext]_rolloutVars
  PROVE  GenerationsAreSeen'
  <1>0. DocsAreSpecs' /\ Types'
    BY ZenonT(120), DocsStep, TypesStep
  <1>1. \A r \in Rollouts, n \in Nodes : status'[r].nodes[n].generation <= spec'[r].gen
    <2> SUFFICES ASSUME NEW r \in Rollouts, NEW n \in Nodes
                 PROVE  status'[r].nodes[n].generation <= spec'[r].gen
      BY ZenonT(120)
    <2>0. spec[r].gen \in Nat /\ status[r].nodes[n].generation \in Nat
          /\ status[r].nodes[n].generation <= spec[r].gen
      BY ZenonT(120), Numbers DEF GenerationsAreSeen
    <2>1. CASE UNCHANGED <<spec, status>>
      BY ZenonT(120), <2>0, <2>1
    <2>2. CASE Saves
      <3>1. CASE r = pass.of
        <4>1. Waits(r) /\ pass.at # "next"
          BY ZenonT(120), <2>2, <3>1 DEF Waits, Saves
        <4>2. pass.entries[n].generation \in Nat /\ pass.docs[r].gen \in Nat
          BY ZenonT(120), <4>1, Numbers
        <4>3. pass.entries[n].generation <= pass.docs[r].gen /\ pass.docs[r].gen <= spec[r].gen
          BY ZenonT(120), <3>1, <4>1 DEF GenerationsAreSeen, DocsAreSpecs
        <4> QED BY SMTT(120), <2>0, <2>2, <3>1, <4>2, <4>3, SavesSay
      <3>2. CASE r # pass.of
        BY ZenonT(120), <2>0, <2>2, <3>2, SavesSay
      <3> QED BY ZenonT(120), <3>1, <3>2
    <2>3. ASSUME NEW s \in Rollouts, SpecChanges(s)
          PROVE  status'[r].nodes[n].generation <= spec'[r].gen
      BY SMTT(120), <2>0, <2>3, ChangesSay
    <2> QED BY ZenonT(120), <2>1, <2>2, <2>3, Kinds, KindsKeep
  <1>2. ASSUME NEW r \in Rollouts, NEW n \in Nodes, Waits(r)'
        PROVE  status'[r].nodes[n].generation <= pass'.docs[r].gen
    <2>1. CASE Begins
      BY ZenonT(120), <1>1, <2>1 DEF Begins
    <2>2. CASE Saves
      <3>1. Waits(r) /\ pass'.docs[r] = pass.docs[r]
        BY ZenonT(120), <1>2, <2>2, WaitsStep DEF Saves
      <3>2. CASE r = pass.of
        <4>1. pass.at # "next"
          BY ZenonT(120), <2>2 DEF Saves
        <4>2. pass.entries[n].generation <= pass.docs[r].gen
          BY ZenonT(120), <3>2, <4>1 DEF GenerationsAreSeen
        <4>3. status'[r].nodes[n] = pass.entries[n]
          BY ZenonT(120), <2>2, <3>2, SavesSay
        <4> QED BY ZenonT(120), <3>1, <4>2, <4>3
      <3>3. CASE r # pass.of
        <4>1. status'[r] = status[r]
          BY ZenonT(120), <2>2, <3>3, SavesSay
        <4> QED BY ZenonT(120), <3>1, <4>1 DEF GenerationsAreSeen
      <3> QED BY ZenonT(120), <3>2, <3>3
    <2>3. CASE Drops \/ (\E s \in Rollouts : Reconcile(s)) \/ (\E m \in Nodes : Step(m))
               \/ UNCHANGED <<spec, status, pass>>
      <3>1. Waits(r) /\ pass'.docs[r] = pass.docs[r]
        BY ZenonT(120), <1>2, <2>3, StepSays, WaitsStep DEF Drops
      <3>2. UNCHANGED status
        BY ZenonT(120), <2>3, KindsKeep
      <3> QED BY ZenonT(120), <3>1, <3>2 DEF GenerationsAreSeen
    <2>4. ASSUME NEW s \in Rollouts, SpecChanges(s)
          PROVE  status'[r].nodes[n].generation <= pass'.docs[r].gen
      BY ZenonT(120), <1>2, <2>4, ChangesSay, WaitsStep DEF GenerationsAreSeen
    <2> QED BY ZenonT(120), <2>1, <2>2, <2>3, <2>4, Kinds
  <1>3. ASSUME pass'.at # "next", NEW n \in Nodes
        PROVE  pass'.entries[n].generation <= pass'.docs[pass'.of].gen
    <2>1. ASSUME NEW r \in Rollouts, Reconcile(r)
          PROVE  pass'.entries[n].generation <= pass'.docs[pass'.of].gen
      <3>1. r \in pass.todo /\ pass'.entries[n] = EntryFor(r, n) /\ pass'.of = r /\ pass'.docs = pass.docs
        BY ZenonT(120), <2>1, TakesSay
      <3>2. EntryFor(r, n).generation \in {status[r].nodes[n].generation, 0, pass.docs[r].gen}
        BY ZenonT(120), <3>1, EntriesMade DEF Makes
      <3>3. /\ status[r].nodes[n].generation <= pass.docs[r].gen
            /\ pass.docs[r].gen \in Nat /\ status[r].nodes[n].generation \in Nat
        BY ZenonT(120), <3>1, Numbers DEF GenerationsAreSeen, Waits
      <3> QED BY SMTT(120), <3>1, <3>2, <3>3
    <2>2. ASSUME NEW m \in Nodes, NEW e, StepMakes(m, e)
          PROVE  pass'.entries[n].generation <= pass'.docs[pass'.of].gen
      <3>1. /\ pass.at # "next" /\ pass'.of = pass.of /\ pass'.docs = pass.docs
            /\ pass'.entries = [pass.entries EXCEPT ![m] = e]
        BY ZenonT(120), <2>2, StepPass
      <3>2. /\ pass.entries[n].generation <= pass.docs[pass.of].gen
            /\ pass.entries[m].generation <= pass.docs[pass.of].gen
            /\ pass.docs[pass.of].gen \in Nat
        <4>1. pass.of \in Rollouts /\ Waits(pass.of)
          BY ZenonT(120), <3>1, GivenTypes DEF Waits
        <4> QED BY ZenonT(120), <3>1, <4>1, Numbers DEF GenerationsAreSeen
      <3>3. e.generation \in {pass.entries[m].generation, pass.docs[pass.of].gen}
        BY ZenonT(120), <2>2 DEF StepMakes, Flies
      <3>4. pass.entries \in [Nodes -> Entry]
        BY ZenonT(120), <3>1, TypesAre DEF PassOK
      <3> QED BY SMTT(120), <3>1, <3>2, <3>3, <3>4
    <2>3. CASE UNCHANGED pass
      BY ZenonT(120), <1>3, <2>3 DEF GenerationsAreSeen
    <2>4. Begins \/ Saves \/ Drops => pass'.at = "next"
      BY ZenonT(120) DEF Begins, Saves, Drops, Ends
    <2>5. \A s \in Rollouts : SpecChanges(s) => UNCHANGED pass
      BY ZenonT(120) DEF SpecChanges
    <2> QED BY ZenonT(120), <1>3, <2>1, <2>2, <2>3, <2>4, <2>5, Kinds, StepSays
  <1> QED BY ZenonT(120), <1>1, <1>2, <1>3 DEF GenerationsAreSeen

\* A node is stepped once in a pass, from the entry that the status has.
LEMMA LeftStep ==
  ASSUME Types, LeftIsInFlight, [RolloutNext]_rolloutVars
  PROVE  LeftIsInFlight'
  <1> SUFFICES ASSUME pass'.at # "next", NEW n \in pass'.left
               PROVE  /\ status'[pass'.of].nodes[n].phase \in InFlight
                      /\ \/ pass'.entries[n] = status'[pass'.of].nodes[n]
                         \/ /\ pass'.at = "halt" /\ pass'.entries[n].phase = "Reverted"
                            /\ \A m \in pass'.left \ {n} : pass'.entries[m].phase # "Reverted"
    BY ZenonT(120) DEF LeftIsInFlight
  <1>1. ASSUME NEW r \in Rollouts, Reconcile(r)
        PROVE  /\ status'[pass'.of].nodes[n].phase \in InFlight
               /\ pass'.entries[n] = status'[pass'.of].nodes[n]
    <2>1. /\ r \in pass.todo /\ pass'.of = r
          /\ \A m \in Nodes : pass'.entries[m] = EntryFor(r, m)
          /\ pass'.left = {m \in Nodes : pass'.entries[m].phase \in InFlight}
      BY ZenonT(120), <1>1, TakesSay
    <2>2. n \in Nodes /\ pass'.entries[n] = EntryFor(r, n) /\ EntryFor(r, n).phase \in InFlight
      BY ZenonT(120), <2>1
    <2>3. EntryFor(r, n) = status[r].nodes[n]
      BY ZenonT(120), <2>1, <2>2, EntriesMade DEF Makes
    <2>4. UNCHANGED status
      BY ZenonT(120), <1>1, KindsKeep
    <2> QED BY ZenonT(120), <2>1, <2>2, <2>3, <2>4
  <1>2. ASSUME NEW m \in Nodes, NEW e, StepMakes(m, e), UNCHANGED status
        PROVE  /\ status'[pass'.of].nodes[n].phase \in InFlight
               /\ \/ pass'.entries[n] = status'[pass'.of].nodes[n]
                  \/ /\ pass'.at = "halt" /\ pass'.entries[n].phase = "Reverted"
                     /\ \A k \in pass'.left \ {n} : pass'.entries[k].phase # "Reverted"
    <2>1. /\ pass.at # "next" /\ pass'.of = pass.of
          /\ pass'.entries = [pass.entries EXCEPT ![m] = e]
          /\ pass'.left \subseteq pass.left /\ (pass'.at = "step" => m \notin pass'.left)
          /\ pass.entries \in [Nodes -> Entry] /\ pass.left \in SUBSET Nodes
      BY ZenonT(120), <1>2, StepPass
    <2>2. /\ \A k \in pass.left : status[pass.of].nodes[k].phase \in InFlight
          /\ \A k \in pass.left : \/ pass.entries[k] = status[pass.of].nodes[k]
                                  \/ /\ pass.at = "halt" /\ pass.entries[k].phase = "Reverted"
                                     /\ \A i \in pass.left \ {k} : pass.entries[i].phase # "Reverted"
      BY ZenonT(120), <2>1 DEF LeftIsInFlight
    <2>3. \A k \in pass.left \ {m} : pass'.entries[k] = pass.entries[k]
      BY ZenonT(120), <2>1
    <2>4. "Reverted" \notin InFlight
      BY ZenonT(120) DEF InFlight
    <2>5. CASE pass.at = "step" /\ pass'.at = "step"
      BY ZenonT(120), <1>2, <2>1, <2>2, <2>3, <2>5
    <2>6. CASE pass.at = "step" /\ pass'.at = "halt" /\ e.phase = "Reverted" /\ m \in pass.left
      <3>1. \A k \in pass.left \ {m} : pass'.entries[k].phase # "Reverted"
        BY SMTT(120), <2>2, <2>3, <2>4, <2>6
      <3>2. pass'.entries[m] = e
        BY ZenonT(120), <2>1
      <3>3. CASE n = m
        BY ZenonT(120), <1>2, <2>1, <2>2, <2>6, <3>1, <3>2, <3>3
      <3>4. CASE n # m
        BY ZenonT(120), <1>2, <2>1, <2>2, <2>3, <2>6, <3>4
      <3> QED BY ZenonT(120), <3>3, <3>4
    <2>7. CASE pass.at = "halt" /\ pass'.at = "step" /\ m \in pass.left /\ pass.entries[m].phase = "Reverted"
      <3>1. n \in pass.left \ {m}
        BY ZenonT(120), <2>1, <2>7
      <3>2. pass.entries[n] = status[pass.of].nodes[n]
        BY ZenonT(120), <2>2, <2>7, <3>1
      <3> QED BY ZenonT(120), <1>2, <2>1, <2>2, <2>3, <3>1, <3>2
    <2>8. \/ pass.at = "step" /\ pass'.at = "step"
          \/ pass.at = "step" /\ pass'.at = "halt" /\ e.phase = "Reverted" /\ m \in pass.left
          \/ pass.at = "halt" /\ pass'.at = "step" /\ m \in pass.left /\ pass.entries[m].phase = "Reverted"
      <3>1. \A a, left : PassGoes(m, e, a, left) => pass'.at = a
        BY SMTT(120) DEF PassGoes
      <3>2. pass.at = "step" => pass.entries[m] \in Entry
        BY ZenonT(120), <2>1
      <3>3. pass.entries[m] \in Entry => [pass.entries[m] EXCEPT !.phase = "Reverted"].phase = "Reverted"
        BY ZenonT(120) DEF Entry
      <3> QED BY ZenonT(120), <1>2, <3>1, <3>2, <3>3 DEF StepMakes
    <2> QED BY ZenonT(120), <2>5, <2>6, <2>7, <2>8
  <1>3. CASE UNCHANGED <<status, pass>>
    BY ZenonT(120), <1>3 DEF LeftIsInFlight
  <1>4. Begins \/ Saves \/ Drops => pass'.at = "next"
    BY ZenonT(120) DEF Begins, Saves, Drops, Ends
  <1>5. \A s \in Rollouts : SpecChanges(s) => UNCHANGED <<status, pass>>
    BY ZenonT(120) DEF SpecChanges
  <1>6. \A m \in Nodes : Step(m) => (\E e : StepMakes(m, e)) /\ UNCHANGED status
    BY ZenonT(120), StepSays
  <1> QED BY ZenonT(120), <1>1, <1>2, <1>3, <1>4, <1>5, <1>6, Kinds

\* A node in flight goes on to a later phase.
LEMMA FlightStep ==
  ASSUME Types, FlightIsKept, [RolloutNext]_rolloutVars
  PROVE  FlightIsKept'
  <1> SUFFICES ASSUME pass'.at # "next", NEW n \in Nodes, status'[pass'.of].nodes[n].phase \in InFlight
               PROVE  pass'.entries[n].phase \in Landing
    BY ZenonT(120) DEF FlightIsKept, Landing
  <1>1. ASSUME NEW r \in Rollouts, Reconcile(r) PROVE pass'.entries[n].phase \in Landing
    <2>1. /\ r \in pass.todo /\ pass'.of = r /\ pass'.entries[n] = EntryFor(r, n)
      BY ZenonT(120), <1>1, TakesSay
    <2>2. UNCHANGED status
      BY ZenonT(120), <1>1, KindsKeep
    <2>3. EntryFor(r, n) = status[r].nodes[n]
      BY ZenonT(120), <2>1, <2>2, EntriesMade DEF Makes
    <2> QED BY ZenonT(120), <2>1, <2>2, <2>3 DEF Landing
  <1>2. ASSUME NEW m \in Nodes, NEW e, StepMakes(m, e), UNCHANGED status
        PROVE  pass'.entries[n].phase \in Landing
    <2>1. /\ pass.at # "next" /\ pass'.of = pass.of
          /\ pass'.entries = [pass.entries EXCEPT ![m] = e]
          /\ pass.entries \in [Nodes -> Entry]
      BY ZenonT(120), <1>2, StepPass
    <2>2. pass.entries[n].phase \in Landing
      BY ZenonT(120), <1>2, <2>1 DEF FlightIsKept, Landing
    <2>3. e.phase \in Landing \/ e = pass.entries[m]
      <3>1. "Switching" \in Landing
        BY ZenonT(120) DEF Landing, InFlight
      <3> QED BY ZenonT(120), <1>2, <3>1 DEF StepMakes, Flies
    <2> QED BY ZenonT(120), <2>1, <2>2, <2>3
  <1>3. CASE UNCHANGED <<status, pass>>
    BY ZenonT(120), <1>3 DEF FlightIsKept, Landing
  <1>4. Begins \/ Saves \/ Drops => pass'.at = "next"
    BY ZenonT(120) DEF Begins, Saves, Drops, Ends
  <1>5. \A s \in Rollouts : SpecChanges(s) => UNCHANGED <<status, pass>>
    BY ZenonT(120) DEF SpecChanges
  <1>6. \A m \in Nodes : Step(m) => (\E e : StepMakes(m, e)) /\ UNCHANGED status
    BY ZenonT(120), StepSays
  <1> QED BY ZenonT(120), <1>1, <1>2, <1>3, <1>4, <1>5, <1>6, Kinds

\* Only a node that the document selects and has a system for is started.
LEMMA ChosenStep ==
  ASSUME Types, DocsAreSpecs, GenerationsAreSeen, FlightWasChosen, [RolloutNext]_rolloutVars
  PROVE  FlightWasChosen'
  <1>1. ASSUME NEW r \in Rollouts, NEW n \in Nodes, status'[r].nodes[n].phase \in Started,
               status'[r].nodes[n].generation = spec'[r].gen
        PROVE  Chosen(spec'[r], n)
    <2>1. CASE UNCHANGED <<spec, status>>
      BY ZenonT(120), <1>1, <2>1 DEF FlightWasChosen
    <2>2. CASE Saves
      <3>1. CASE r = pass.of
        <4>1. Waits(r) /\ pass.at # "next" /\ UNCHANGED spec
          BY ZenonT(120), <2>2, <3>1 DEF Waits, Saves, Ends
        <4>2. status'[r].nodes[n] = pass.entries[n]
          BY ZenonT(120), <2>2, <3>1, SavesSay
        <4>3. /\ pass.entries[n].generation \in Nat /\ pass.docs[r].gen \in Nat /\ spec[r].gen \in Nat
              /\ pass.entries[n].generation <= pass.docs[r].gen /\ pass.docs[r].gen <= spec[r].gen
          BY ZenonT(120), <3>1, <4>1, Numbers DEF GenerationsAreSeen, DocsAreSpecs
        <4>4. pass.docs[r].gen = spec[r].gen /\ pass.entries[n].generation = pass.docs[r].gen
          BY SMTT(120), <1>1, <4>1, <4>2, <4>3
        <4>5. pass.docs[r] = spec[r]
          BY ZenonT(120), <4>1, <4>4 DEF DocsAreSpecs
        <4> QED BY ZenonT(120), <1>1, <3>1, <4>1, <4>2, <4>4, <4>5 DEF FlightWasChosen
      <3>2. CASE r # pass.of
        <4>1. status'[r] = status[r] /\ UNCHANGED spec
          BY ZenonT(120), <2>2, <3>2, SavesSay
        <4> QED BY ZenonT(120), <1>1, <4>1 DEF FlightWasChosen
      <3> QED BY ZenonT(120), <3>1, <3>2
    <2>3. ASSUME NEW s \in Rollouts, SpecChanges(s)
          PROVE  Chosen(spec'[r], n)
      <3>1. /\ UNCHANGED status /\ spec'[s].gen = spec[s].gen + 1
            /\ r # s => spec'[r] = spec[r]
        BY ZenonT(120), <2>3, ChangesSay
      <3>2. status[r].nodes[n].generation <= spec[r].gen /\ spec[r].gen \in Nat
            /\ status[r].nodes[n].generation \in Nat
        BY ZenonT(120), Numbers DEF GenerationsAreSeen
      <3>3. r # s
        BY SMTT(120), <1>1, <3>1, <3>2
      <3> QED BY ZenonT(120), <1>1, <3>1, <3>3 DEF FlightWasChosen
    <2> QED BY ZenonT(120), <2>1, <2>2, <2>3, Kinds, KindsKeep
  <1>2. ASSUME NEW r \in Rollouts, NEW n \in Nodes, status'[r].nodes[n].phase \in Started,
               Waits(r)', status'[r].nodes[n].generation = pass'.docs[r].gen
        PROVE  Chosen(pass'.docs[r], n)
    <2>1. CASE Begins
      BY ZenonT(120), <1>2, <2>1 DEF Begins, FlightWasChosen
    <2>2. CASE Saves
      <3>1. Waits(r) /\ pass'.docs[r] = pass.docs[r]
        BY ZenonT(120), <1>2, <2>2, WaitsStep DEF Saves
      <3>2. CASE r = pass.of
        <4>1. pass.at # "next"
          BY ZenonT(120), <2>2 DEF Saves
        <4>2. status'[r].nodes[n] = pass.entries[n]
          BY ZenonT(120), <2>2, <3>2, SavesSay
        <4> QED BY ZenonT(120), <1>2, <3>1, <3>2, <4>1, <4>2 DEF FlightWasChosen
      <3>3. CASE r # pass.of
        <4>1. status'[r] = status[r]
          BY ZenonT(120), <2>2, <3>3, SavesSay
        <4> QED BY ZenonT(120), <1>2, <3>1, <4>1 DEF FlightWasChosen
      <3> QED BY ZenonT(120), <3>2, <3>3
    <2>3. CASE Drops \/ (\E s \in Rollouts : Reconcile(s)) \/ (\E m \in Nodes : Step(m))
               \/ UNCHANGED <<spec, status, pass>>
      <3>1. Waits(r) /\ pass'.docs[r] = pass.docs[r]
        BY ZenonT(120), <1>2, <2>3, StepSays, WaitsStep DEF Drops
      <3>2. UNCHANGED status
        BY ZenonT(120), <2>3, KindsKeep
      <3> QED BY ZenonT(120), <1>2, <3>1, <3>2 DEF FlightWasChosen
    <2>4. ASSUME NEW s \in Rollouts, SpecChanges(s)
          PROVE  Chosen(pass'.docs[r], n)
      <3>1. Waits(r) /\ pass'.docs[r] = pass.docs[r] /\ UNCHANGED status
        BY ZenonT(120), <1>2, <2>4, ChangesSay, WaitsStep
      <3> QED BY ZenonT(120), <1>2, <3>1 DEF FlightWasChosen
    <2> QED BY ZenonT(120), <2>1, <2>2, <2>3, <2>4, Kinds
  <1>3. ASSUME pass'.at # "next", NEW n \in Nodes,
               \/ /\ pass'.entries[n].phase \in Started
                  /\ pass'.entries[n].generation = pass'.docs[pass'.of].gen
               \/ pass'.entries[n].phase = "Pending"
        PROVE  Chosen(pass'.docs[pass'.of], n)
    <2>1. ASSUME NEW r \in Rollouts, Reconcile(r) PROVE Chosen(pass'.docs[pass'.of], n)
      <3>1. r \in pass.todo /\ pass'.entries[n] = EntryFor(r, n) /\ pass'.of = r /\ pass'.docs = pass.docs
        BY ZenonT(120), <2>1, TakesSay
      <3>2. /\ EntryFor(r, n).phase \in Started => EntryFor(r, n) = status[r].nodes[n]
            /\ EntryFor(r, n).phase = "Pending" => Chosen(pass.docs[r], n)
        <4>1. /\ Makes(status[r].nodes[n], EntryFor(r, n), pass.docs[r].gen)
              /\ EntryFor(r, n).phase = "Pending" => Chosen(pass.docs[r], n)
          BY ZenonT(120), <3>1, EntriesMade
        <4> QED BY ZenonT(120), <4>1 DEF Makes, Started
      <3>3. /\ status[r].nodes[n].phase \in Started
            /\ status[r].nodes[n].generation = pass.docs[r].gen
            => Chosen(pass.docs[r], n)
        BY ZenonT(120), <3>1 DEF FlightWasChosen, Waits
      <3> QED BY ZenonT(120), <1>3, <3>1, <3>2, <3>3
    <2>2. ASSUME NEW m \in Nodes, NEW e, StepMakes(m, e)
          PROVE  Chosen(pass'.docs[pass'.of], n)
      <3>1. /\ pass.at # "next" /\ pass'.of = pass.of /\ pass'.docs = pass.docs
            /\ pass'.entries = [pass.entries EXCEPT ![m] = e]
            /\ pass.entries \in [Nodes -> Entry]
        BY ZenonT(120), <2>2, StepPass
      <3>2. \A k \in Nodes :
              \/ /\ pass.entries[k].phase \in Started
                 /\ pass.entries[k].generation = pass.docs[pass.of].gen
              \/ pass.entries[k].phase = "Pending"
              => Chosen(pass.docs[pass.of], k)
        BY ZenonT(120), <3>1 DEF FlightWasChosen
      <3>3. CASE n # m
        BY ZenonT(120), <1>3, <3>1, <3>2, <3>3
      <3>4. CASE n = m
        <4>0. pass'.entries[n] = e
          BY ZenonT(120), <3>1, <3>4
        <4>1. CASE Flies(pass.entries[m], e)
          <5>1. e.phase # "Pending"
            BY ZenonT(120), <4>1 DEF Flies, Landing, InFlight
          <5>2. e.generation = pass.entries[m].generation /\ pass.entries[m].phase \in Started
            BY ZenonT(120), <4>1 DEF Flies, Started
          <5> QED BY ZenonT(120), <1>3, <3>1, <3>2, <3>4, <4>0, <5>1, <5>2
        <4>2. CASE pass.entries[m].phase = "Pending"
          BY ZenonT(120), <3>1, <3>2, <3>4, <4>2
        <4>3. CASE e = pass.entries[m]
          BY SMTT(120), <1>3, <3>1, <3>2, <3>4, <4>0, <4>3
        <4> QED BY ZenonT(120), <2>2, <4>1, <4>2, <4>3 DEF StepMakes
      <3> QED BY ZenonT(120), <3>3, <3>4
    <2>3. CASE UNCHANGED pass
      BY ZenonT(120), <1>3, <2>3 DEF FlightWasChosen
    <2>4. Begins \/ Saves \/ Drops => pass'.at = "next"
      BY ZenonT(120) DEF Begins, Saves, Drops, Ends
    <2>5. \A s \in Rollouts : SpecChanges(s) => UNCHANGED pass
      BY ZenonT(120) DEF SpecChanges
    <2> QED BY ZenonT(120), <1>3, <2>1, <2>2, <2>3, <2>4, <2>5, Kinds, StepSays
  <1> QED BY ZenonT(120), <1>1, <1>2, <1>3 DEF FlightWasChosen

\* The invariant holds at first.
LEMMA InvInit ==
  RolloutInit => RolloutInv
  <1> SUFFICES ASSUME RolloutInit PROVE RolloutInv
    BY ZenonT(120)
  <1>1. Types /\ pass.at = "next" /\ \A r \in Rollouts : ~Waits(r)
    BY ZenonT(120), TypesInit, IdleTypes DEF RolloutInit, Waits
  <1>2. \A r \in Rollouts, n \in Nodes : status[r].nodes[n] = NoEntry
    BY ZenonT(120) DEF RolloutInit
  <1>3. NoEntry.phase \notin Started /\ NoEntry.generation = 0
    BY ZenonT(120) DEF NoEntry, Started, InFlight
  <1>4. \A r \in Rollouts : spec[r].gen \in Nat
    BY ZenonT(120), <1>1, Numbers
  <1> QED BY SMTT(120), <1>1, <1>2, <1>3, <1>4
          DEF RolloutInv, DocsAreSpecs, GenerationsAreSeen, LeftIsInFlight, FlightIsKept, FlightWasChosen

\* And every step keeps it.
LEMMA InvStep ==
  RolloutInv /\ [RolloutNext]_rolloutVars => RolloutInv'
  BY ZenonT(120), TypesStep, DocsStep, GenerationsStep, LeftStep, FlightStep, ChosenStep DEF RolloutInv

\* So it always does.
LEMMA RolloutInvariance == RolloutSpec => []RolloutInv
  BY InvInit, InvStep, PTL DEF RolloutSpec

\* Whatever happens to the specs, the labels, the builds, the Jobs and the
\* controller, a node that is in flight in the status is in flight, Done or
\* halted in the next one (the first branch of plan, and step).
THEOREM FlightsAreFinished == RolloutSpec => InFlightIsFinished
  <1>1. ASSUME RolloutInv, [RolloutNext]_rolloutVars, NEW r \in Rollouts, NEW n \in Nodes,
               status[r].nodes[n].phase \in InFlight
        PROVE  status'[r].nodes[n].phase \in InFlight \cup {"Done", "Reverted", "DrainFailed"}
    <2>0. Types /\ FlightIsKept
      BY ZenonT(120), <1>1 DEF RolloutInv
    <2>1. CASE UNCHANGED status
      BY ZenonT(120), <1>1, <2>1
    <2>2. CASE Saves
      <3>1. CASE r = pass.of
        BY ZenonT(120), <1>1, <2>0, <2>2, <3>1, SavesSay DEF FlightIsKept, Saves
      <3>2. CASE r # pass.of
        BY ZenonT(120), <1>1, <2>0, <2>2, <3>2, SavesSay
      <3> QED BY ZenonT(120), <3>1, <3>2
    <2>3. \A s \in Rollouts : SpecChanges(s) => UNCHANGED status
      BY ZenonT(120) DEF SpecChanges
    <2> QED BY ZenonT(120), <1>1, <2>0, <2>1, <2>2, <2>3, Kinds, KindsKeep
  <1>2. RolloutInv /\ [RolloutNext]_rolloutVars =>
          [\A r \in Rollouts, n \in Nodes :
             status[r].nodes[n].phase \in InFlight
             => status'[r].nodes[n].phase \in InFlight \cup {"Done", "Reverted", "DrainFailed"}]_rolloutVars
    BY ZenonT(120), <1>1
  <1> QED BY <1>2, RolloutInvariance, PTL DEF RolloutSpec, InFlightIsFinished

-----------------------------------------------------------------------------
(* A halt lasts.                                                            *)

\* No node is selected by two rollouts.
NoConflict == Conflicts(spec) = {}

\* No drain has failed for a spec that has its systems built.
NoSourceDrainFailed ==
    \A r \in Rollouts, n \in Nodes :
        spec[r].body.source /\ status[r].nodes[n].generation = spec[r].gen
        => status[r].nodes[n].phase # "DrainFailed"

\* Nor was one when the pass listed them.
NoConflictListed == pass.todo # {} \/ pass.at # "next" => Conflicts(pass.docs) = {}

HaltedAt(e, gen) == e.phase \in {"Reverted", "DrainFailed"} /\ e.generation = gen

\* The pass has what the status says was halted at the spec's generation.
HaltIsKept ==
    pass.at # "next" /\ pass.docs[pass.of].gen = spec[pass.of].gen =>
        \A n \in Nodes : HaltedAt(status[pass.of].nodes[n], spec[pass.of].gen)
                         => HaltedAt(pass.entries[n], spec[pass.of].gen)

\* What a pass lists has no conflicts.
LEMMA ListedStep ==
  ASSUME Types, NoConflict, NoConflictListed, [RolloutNext]_rolloutVars
  PROVE  NoConflictListed'
  <1> SUFFICES ASSUME pass'.todo # {} \/ pass'.at # "next" PROVE Conflicts(pass'.docs) = {}
    BY ZenonT(120) DEF NoConflictListed, Conflicts
  <1>1. CASE Begins
    BY ZenonT(120), <1>1 DEF Begins, NoConflict
  <1>2. CASE Saves \/ Drops
    BY ZenonT(120), <1>2 DEF Saves, Drops, Ends, NoConflictListed
  <1>3. ASSUME NEW r \in Rollouts, Reconcile(r) PROVE Conflicts(pass'.docs) = {}
    BY ZenonT(120), <1>3, TakesSay DEF NoConflictListed
  <1>4. ASSUME NEW n \in Nodes, NEW e, StepMakes(n, e) PROVE Conflicts(pass'.docs) = {}
    BY ZenonT(120), <1>4, StepPass DEF NoConflictListed
  <1>5. CASE UNCHANGED pass
    BY ZenonT(120), <1>5 DEF NoConflictListed
  <1>6. \A r \in Rollouts : SpecChanges(r) => UNCHANGED pass
    BY ZenonT(120) DEF SpecChanges
  <1> QED BY ZenonT(120), <1>1, <1>2, <1>3, <1>4, <1>5, <1>6, Kinds, StepSays

\* A halted entry goes through a pass.
LEMMA HaltStep ==
  ASSUME RolloutInv, NoConflictListed, NoSourceDrainFailed, HaltIsKept, [RolloutNext]_rolloutVars
  PROVE  HaltIsKept'
  <1>0. Types /\ DocsAreSpecs /\ FlightWasChosen
    BY ZenonT(120) DEF RolloutInv
  <1> SUFFICES ASSUME pass'.at # "next", pass'.docs[pass'.of].gen = spec'[pass'.of].gen,
                      NEW n \in Nodes, HaltedAt(status'[pass'.of].nodes[n], spec'[pass'.of].gen)
               PROVE  HaltedAt(pass'.entries[n], spec'[pass'.of].gen)
    BY ZenonT(120) DEF HaltIsKept, HaltedAt
  <1>1. ASSUME NEW r \in Rollouts, Reconcile(r)
        PROVE  HaltedAt(pass'.entries[n], spec'[pass'.of].gen)
    <2> DEFINE e == status[r].nodes[n]
    <2>1. /\ r \in pass.todo /\ pass'.of = r /\ pass'.docs = pass.docs
          /\ pass'.entries[n] = EntryFor(r, n) /\ UNCHANGED <<spec, status>>
      BY ZenonT(120), <1>0, <1>1, TakesSay
    <2>2. /\ HaltedAt(e, spec[r].gen) /\ pass.docs[r].gen = spec[r].gen /\ pass.docs[r] = spec[r]
          /\ pass.docs[r].gen \in Nat
      BY ZenonT(120), <1>0, <2>1, Numbers DEF DocsAreSpecs, Waits
    <2>3. Chosen(pass.docs[r], n)
      BY ZenonT(120), <1>0, <2>1, <2>2 DEF FlightWasChosen, HaltedAt, Started, Waits
    <2>4. n \notin Conflicts(pass.docs)
      BY ZenonT(120), <2>1 DEF NoConflictListed
    <2>5. StaysHalted(e, pass.docs[r].gen) /\ ~(pass.docs[r].body.source /\ e.phase = "DrainFailed")
      BY SMTT(120), <2>2 DEF StaysHalted, HaltedAt, NoSourceDrainFailed
    <2>6. EntryFor(r, n) = e
      BY ZenonT(120), <1>0, <2>1, <2>3, <2>4, <2>5, EntriesMade
    <2> QED BY ZenonT(120), <2>1, <2>2, <2>6
  <1>2. ASSUME NEW m \in Nodes, NEW e, StepMakes(m, e), UNCHANGED <<spec, status>>
        PROVE  HaltedAt(pass'.entries[n], spec'[pass'.of].gen)
    <2>1. /\ pass.at # "next" /\ pass'.of = pass.of /\ pass'.docs = pass.docs
          /\ pass'.entries = [pass.entries EXCEPT ![m] = e]
          /\ pass.entries \in [Nodes -> Entry]
      BY ZenonT(120), <1>0, <1>2, StepPass
    <2>2. HaltedAt(pass.entries[n], spec[pass.of].gen)
      BY ZenonT(120), <1>2, <2>1 DEF HaltIsKept
    <2>3. n = m => e = pass.entries[m]
      <3>1. n = m => pass.entries[m].phase \notin InFlight \cup {"Pending"}
        BY ZenonT(120), <2>2 DEF HaltedAt, InFlight
      <3> QED BY ZenonT(120), <1>2, <3>1 DEF StepMakes, Flies
    <2> QED BY ZenonT(120), <1>2, <2>1, <2>2, <2>3
  <1>3. CASE UNCHANGED <<spec, status, pass>>
    BY ZenonT(120), <1>3 DEF HaltIsKept
  <1>4. ASSUME NEW s \in Rollouts, SpecChanges(s)
        PROVE  HaltedAt(pass'.entries[n], spec'[pass'.of].gen)
    <2>1. /\ UNCHANGED <<status, pass>> /\ spec'[s].gen = spec[s].gen + 1
          /\ \A r \in Rollouts \ {s} : spec'[r] = spec[r]
      BY ZenonT(120), <1>0, <1>4, ChangesSay
    <2>2. pass.of \in Rollouts /\ Waits(pass.of)
      BY ZenonT(120), <1>0, <2>1, GivenTypes DEF Waits
    <2>3. pass.docs[pass.of].gen <= spec[pass.of].gen /\ spec[pass.of].gen \in Nat
          /\ pass.docs[pass.of].gen \in Nat
      BY ZenonT(120), <1>0, <2>2, Numbers DEF DocsAreSpecs
    <2>4. pass.of # s
      BY SMTT(120), <2>1, <2>3
    <2>5. spec'[pass.of] = spec[pass.of]
      BY ZenonT(120), <2>1, <2>2, <2>4
    <2> QED BY ZenonT(120), <2>1, <2>5 DEF HaltIsKept
  <1>5. Begins \/ Saves \/ Drops => pass'.at = "next"
    BY ZenonT(120) DEF Begins, Saves, Drops, Ends
  <1>6. \A m \in Nodes : Step(m) => (\E e : StepMakes(m, e)) /\ UNCHANGED <<spec, status>>
    BY ZenonT(120), <1>0, StepSays
  <1> QED BY ZenonT(120), <1>0, <1>1, <1>2, <1>3, <1>4, <1>5, <1>6, Kinds

\* The pods, the hosts and the timers create no Job.
LEMMA MachinesAddNone ==
  ASSUME Machines PROVE DOMAIN jobs' \subseteq DOMAIN jobs
  <1>1. ASSUME NEW j \in DOMAIN jobs, PodStep(j) PROVE DOMAIN jobs' = DOMAIN jobs
    <2>1. ASSUME NEW x, jobs' = [jobs EXCEPT ![j] = x] PROVE DOMAIN jobs' = DOMAIN jobs
      BY ZenonT(120), <2>1
    <2>2. ASSUME NEW pc, Goes(j, pc) PROVE DOMAIN jobs' = DOMAIN jobs
      BY ZenonT(120), <2>1, <2>2 DEF Goes
    <2>3. CASE PodReports(j)
      BY ZenonT(120), <2>1, <2>3 DEF PodReports
    <2>4. CASE SwitchChecks(j)
      <3>1. CASE Host(j).current = j.target
        BY ZenonT(120), <2>1, <2>4, <3>1 DEF SwitchChecks
      <3>2. CASE Host(j).current # j.target /\ ~MayArm(j)
        BY ZenonT(120), <2>1, <2>4, <3>2 DEF SwitchChecks
      <3>3. CASE Host(j).current # j.target /\ MayArm(j)
        BY ZenonT(120), <2>1, <2>4, <3>3 DEF SwitchChecks
      <3> QED BY ZenonT(120), <3>1, <3>2, <3>3
    <2>5. CASE PodStarts(j) \/ SwitchArms(j) \/ SwitchActivates(j)
      BY ZenonT(120), <2>2, <2>5 DEF PodStarts, SwitchArms, SwitchActivates
    <2>6. CASE RevertChecks(j) \/ StartsRevert(j) \/ StopsTimer(j)
      BY ZenonT(120), <2>2, <2>6 DEF RevertChecks, StartsRevert, StopsTimer
    <2>7. CASE BootSets(j) \/ BootSchedules(j) \/ DisarmStops(j) \/ DisarmChecks(j)
      BY ZenonT(120), <2>2, <2>7 DEF BootSets, BootSchedules, DisarmStops, DisarmChecks
    <2> QED BY ZenonT(120), <1>1, <2>3, <2>4, <2>5, <2>6, <2>7 DEF PodStep
  <1>2. ASSUME NEW n \in Nodes, HostStep(n) PROVE DOMAIN jobs' = DOMAIN jobs
    <2>1. CASE TimerFires(n) \/ RevertEnds(n)
      BY ZenonT(120), <2>1 DEF TimerFires, RevertEnds
    <2>2. CASE HostBoots(n)
      BY ZenonT(120), <2>2 DEF HostBoots
    <2> QED BY ZenonT(120), <1>2, <2>1, <2>2 DEF HostStep
  <1>3. ASSUME NEW j \in DOMAIN jobs, DeadlinePasses(j) \/ JobExpires(j)
        PROVE  DOMAIN jobs' \subseteq DOMAIN jobs
    BY ZenonT(120), <1>3 DEF DeadlinePasses, JobExpires
  <1> QED BY ZenonT(120), <1>1, <1>2, <1>3 DEF Machines, Pods

\* Only start_switch creates a switch Job, for the rollout of the pass.
LEMMA NewSwitchJobs ==
  ASSUME [RolloutNext]_rolloutVars, NEW j \in DOMAIN jobs' \ DOMAIN jobs, j.action = "switch"
  PROVE  j.rollout = pass.of /\ \E n \in Nodes : StartSwitch(n) /\ j.node = n
  <1>1. ASSUME NEW k, Creates(k) PROVE j = k
    BY ZenonT(120), <1>1 DEF Creates
  <1>2. UNCHANGED jobs => FALSE
    BY ZenonT(120)
  <1>3. ASSUME NEW n \in Nodes, NEW a, Creates(JobName(n, a)) PROVE a = "switch"
    BY SMTT(120), <1>1, <1>3 DEF JobName
  <1>4. ASSUME NEW n \in Nodes, Step(n) PROVE j.rollout = pass.of /\ StartSwitch(n) /\ j.node = n
    <2>1. CASE DrainEnds(n)
      BY ZenonT(120), <1>3, <2>1 DEF DrainEnds
    <2>2. CASE Confirms(n)
      BY ZenonT(120), <1>3, <2>2 DEF Confirms
    <2>3. CASE ConfirmTimesOut(n)
      BY ZenonT(120), <1>3, <2>3 DEF ConfirmTimesOut
    <2>4. CASE \/ JobFails(n) \/ RebootNeeded(n) \/ SwitchDone(n) \/ RebootScheduled(n) \/ NodeDone(n)
               \/ StepWaits(n) \/ DrainFails(n) \/ RebootTimesOut(n) \/ HaltsUnconfirmed(n)
      BY ZenonT(120), <1>2, <2>4 DEF JobFails, RebootNeeded, SwitchDone, RebootScheduled, NodeDone, StepWaits,
         DrainFails, RebootTimesOut, HaltsUnconfirmed, hostVars
    <2>5. CASE StartSwitch(n)
      <3> DEFINE k == [JobName(n, "switch") EXCEPT !.generation = pass.docs[pass.of].gen]
      <3>1. k.rollout = pass.of /\ k.node = n
        BY ZenonT(120) DEF JobName
      <3>2. Creates(k)
        BY ZenonT(120), <2>5 DEF StartSwitch
      <3> HIDE DEF k
      <3> QED BY ZenonT(120), <1>1, <2>5, <3>1, <3>2
    <2> QED BY ZenonT(120), <1>4, <2>1, <2>2, <2>3, <2>4, <2>5 DEF Step, TimesOut
  <1>5. CASE BeginPass \/ (\E r \in Rollouts : Reconcile(r)) \/ Patches \/ ReconcileFails \/ Crash
             \/ \E r \in Rollouts : SpecChanges(r)
    BY ZenonT(120), <1>2, <1>5 DEF BeginPass, Reconcile, Patches, ReconcileFails, Crash, SpecChanges, hostVars
  <1>6. ASSUME NEW r, NEW n, Outside(r, n) \/ NodeReports(n) \/ LeaseRenews(n) PROVE FALSE
    BY ZenonT(120), <1>2, <1>6 DEF Outside, BuildDone, BuildFails, StoreUnreachable, StoreAnswersAgain, StoreGaveUp,
       Builds, NodeReports, LeaseRenews, hostVars
  <1>7. CASE Machines
    BY ZenonT(120), <1>7, MachinesAddNone
  <1>8. CASE UNCHANGED rolloutVars
    BY ZenonT(120), <1>2, <1>8 DEF rolloutVars, hostVars
  <1> QED BY ZenonT(120), <1>4, <1>5, <1>6, <1>7, <1>8 DEF RolloutNext, Controller, Outside, Machines

\* While no node is selected by two rollouts and no drain fails for a spec
\* that has its systems built, a halt at the spec's generation lasts: the status
\* keeps it and no switch Job of that rollout is created, across crashes,
\* failed calls and builds, until the spec changes (plan, startable).
THEOREM HaltsLast == RolloutSpec /\ []NoConflict /\ []NoSourceDrainFailed => HaltLasts
  <1> DEFINE Inv == RolloutInv /\ NoConflictListed /\ HaltIsKept
  <1>1. RolloutInit => Inv
    BY ZenonT(120), InvInit, IdleTypes DEF RolloutInit, NoConflictListed, HaltIsKept
  <1>2. Inv /\ NoConflict /\ NoSourceDrainFailed /\ [RolloutNext]_rolloutVars => Inv'
    <2>1. RolloutInv => Types
      BY ZenonT(120) DEF RolloutInv
    <2> QED BY ZenonT(120), <2>1, InvStep, ListedStep, HaltStep
  <1>3. ASSUME Inv, [RolloutNext]_rolloutVars, NEW r \in Rollouts, HasHalted(r), spec'[r] = spec[r]
        PROVE  /\ HasHalted(r)'
               /\ \A j \in DOMAIN jobs' \ DOMAIN jobs : j.rollout # r \/ j.action # "switch"
    <2>0. Types /\ DocsAreSpecs /\ GenerationsAreSeen /\ HaltIsKept
      BY ZenonT(120), <1>3 DEF RolloutInv
    <2>1. PICK n \in Nodes : HaltedAt(status[r].nodes[n], spec[r].gen)
      BY ZenonT(120), <1>3 DEF HasHalted, HaltedAt
    <2>2. ASSUME pass.at # "next", pass.of = r PROVE HaltedAt(pass.entries[n], spec[r].gen)
      <3>1. Waits(r)
        BY ZenonT(120), <2>2 DEF Waits
      <3>2. /\ status[r].nodes[n].generation <= pass.docs[r].gen /\ pass.docs[r].gen <= spec[r].gen
            /\ spec[r].gen \in Nat /\ pass.docs[r].gen \in Nat
        BY ZenonT(120), <2>0, <3>1, Numbers DEF GenerationsAreSeen, DocsAreSpecs
      <3>3. pass.docs[r].gen = spec[r].gen
        BY SMTT(120), <2>1, <3>2 DEF HaltedAt
      <3> QED BY ZenonT(120), <2>0, <2>1, <2>2, <3>3 DEF HaltIsKept
    <2>3. HaltedAt(status'[r].nodes[n], spec'[r].gen)
      <3>1. CASE UNCHANGED status
        BY ZenonT(120), <1>3, <2>1, <3>1
      <3>2. CASE Saves
        <4>1. CASE r = pass.of
          <5>1. pass.at # "next"
            BY ZenonT(120), <3>2 DEF Saves
          <5> QED BY ZenonT(120), <1>3, <2>0, <2>2, <3>2, <4>1, <5>1, SavesSay
        <4>2. CASE r # pass.of
          BY ZenonT(120), <1>3, <2>0, <2>1, <3>2, <4>2, SavesSay
        <4> QED BY ZenonT(120), <4>1, <4>2
      <3>3. \A s \in Rollouts : SpecChanges(s) => UNCHANGED status
        BY ZenonT(120) DEF SpecChanges
      <3> QED BY ZenonT(120), <1>3, <2>0, <3>1, <3>2, <3>3, Kinds, KindsKeep
    <2>4. HasHalted(r)'
      BY ZenonT(120), <2>3 DEF HasHalted, HaltedAt
    <2>5. ASSUME NEW j \in DOMAIN jobs' \ DOMAIN jobs, j.rollout = r, j.action = "switch"
          PROVE  FALSE
      <3>1. pass.of = r /\ \E m \in Nodes : StartSwitch(m)
        BY ZenonT(120), <1>3, <2>5, NewSwitchJobs
      <3>2. pass.at # "next" /\ rollout_phase(pass.entries) # "Halted"
        BY ZenonT(120), <3>1 DEF StartSwitch, Startable
      <3>3. pass.entries[n].phase \in {"Reverted", "DrainFailed"}
        BY ZenonT(120), <2>2, <3>1, <3>2 DEF HaltedAt
      <3>4. Phases(pass.entries) \cap Halting # {}
        BY ZenonT(120), <3>3 DEF Phases, Halting
      <3>5. rollout_phase(pass.entries) = "Halted"
        <4>1. ~(Phases(pass.entries) \subseteq {"Done"})
          BY ZenonT(120), <3>4 DEF Halting
        <4> QED BY ZenonT(120), <3>4, <4>1 DEF rollout_phase
      <3> QED BY ZenonT(120), <3>2, <3>5
    <2> QED BY ZenonT(120), <2>4, <2>5
  <1>4. Inv /\ [RolloutNext]_rolloutVars =>
          [\A r \in Rollouts :
             HasHalted(r) /\ spec'[r] = spec[r]
             => /\ HasHalted(r)'
                /\ \A j \in DOMAIN jobs' \ DOMAIN jobs : j.rollout # r \/ j.action # "switch"]_rolloutVars
    BY ZenonT(120), <1>3
  <1> HIDE DEF Inv
  <1> QED BY <1>1, <1>2, <1>4, PTL DEF RolloutSpec, HaltLasts

-----------------------------------------------------------------------------
(* A drained node is remembered.                                            *)

\* A node that the controller drained and that is not in flight is still
\* selected, has a system and is in no other rollout.
DrainedIsChosen ==
    \A r \in Rollouts, n \in Nodes :
        status[r].nodes[n].drained /\ status[r].nodes[n].phase \notin InFlight
        => Chosen(spec[r], n) /\ n \notin Conflicts(spec)

\* So it was when the pass listed the specs.
DrainedIsListed ==
    \A r \in pass.todo, n \in Nodes :
        status[r].nodes[n].drained /\ status[r].nodes[n].phase \notin InFlight
        => Chosen(pass.docs[r], n) /\ n \notin Conflicts(pass.docs)

\* The rollout of the pass is no longer to be taken.
TakenOnce == pass.at # "next" => pass.of \notin pass.todo

SwitchJob(r, n, e) == [rollout |-> r, node |-> n, action |-> "switch", target |-> e.target,
                       generation |-> e.generation]

\* The entry has the mark, or the step that sets it can only be repeated: the
\* switch Job asks for a reboot, or is gone.
Remembers(table, r, n, e) ==
    \/ e.drained
    \/ /\ e.phase = "Switching"
       /\ SwitchJob(r, n, e) \in DOMAIN table =>
            table[SwitchJob(r, n, e)].state = "Complete" /\ table[SwitchJob(r, n, e)].reboot

\* A node cordoned for a drain is remembered by a rollout, in its status and
\* in the pass that works on it.
DrainIsKept ==
    \A n \in Nodes : node[n].cordon = "drain" =>
        \E r \in Rollouts :
            /\ Remembers(jobs, r, n, status[r].nodes[n])
            /\ pass.at # "next" /\ pass.of = r => Remembers(jobs, r, n, pass.entries[n])

\* What was listed stays so until the rollout is taken.
LEMMA DrainedListedStep ==
  ASSUME Types, DrainedIsChosen, DrainedIsListed, TakenOnce, [RolloutNext]_rolloutVars
  PROVE  DrainedIsListed' /\ TakenOnce'
  <1>1. TakenOnce'
    <2> SUFFICES ASSUME pass'.at # "next" PROVE pass'.of \notin pass'.todo
      BY ZenonT(120) DEF TakenOnce
    <2>1. ASSUME NEW r \in Rollouts, Reconcile(r) PROVE pass'.of \notin pass'.todo
      BY ZenonT(120), <2>1, TakesSay
    <2>2. ASSUME NEW m \in Nodes, NEW e, StepMakes(m, e) PROVE pass'.of \notin pass'.todo
      BY ZenonT(120), <2>2, StepPass DEF TakenOnce
    <2>3. CASE UNCHANGED pass
      BY ZenonT(120), <2>3 DEF TakenOnce
    <2>4. Begins \/ Saves \/ Drops => pass'.at = "next"
      BY ZenonT(120) DEF Begins, Saves, Drops, Ends
    <2>5. \A s \in Rollouts : SpecChanges(s) => UNCHANGED pass
      BY ZenonT(120) DEF SpecChanges
    <2> QED BY ZenonT(120), <2>1, <2>2, <2>3, <2>4, <2>5, Kinds, StepSays
  <1>2. ASSUME NEW r \in pass'.todo, NEW n \in Nodes, status'[r].nodes[n].drained,
               status'[r].nodes[n].phase \notin InFlight
        PROVE  Chosen(pass'.docs[r], n) /\ n \notin Conflicts(pass'.docs)
    <2>1. CASE Begins
      BY ZenonT(120), <1>2, <2>1 DEF Begins, DrainedIsChosen
    <2>2. ASSUME r \in pass.todo, pass'.docs = pass.docs, status'[r] = status[r]
          PROVE  Chosen(pass'.docs[r], n) /\ n \notin Conflicts(pass'.docs)
      BY ZenonT(120), <1>2, <2>2 DEF DrainedIsListed
    <2>3. CASE Saves
      <3>1. r \in pass.todo /\ pass'.docs = pass.docs /\ pass.at # "next"
        BY ZenonT(120), <1>2, <2>3 DEF Saves, Ends
      <3>2. r \in Rollouts \ {pass.of}
        BY ZenonT(120), <3>1, TypesAre DEF TakenOnce, PassOK
      <3>3. status'[r] = status[r]
        BY ZenonT(120), <2>3, <3>2, SavesSay
      <3> QED BY ZenonT(120), <2>2, <3>1, <3>3
    <2>4. CASE Drops
      BY ZenonT(120), <1>2, <2>2, <2>4 DEF Drops, Ends
    <2>5. ASSUME NEW s \in Rollouts, Reconcile(s)
          PROVE  Chosen(pass'.docs[r], n) /\ n \notin Conflicts(pass'.docs)
      BY ZenonT(120), <1>2, <2>2, <2>5, TakesSay
    <2>6. ASSUME NEW m \in Nodes, NEW e, StepMakes(m, e), UNCHANGED status
          PROVE  Chosen(pass'.docs[r], n) /\ n \notin Conflicts(pass'.docs)
      BY ZenonT(120), <1>2, <2>2, <2>6, StepPass
    <2>7. CASE UNCHANGED <<status, pass>>
      BY ZenonT(120), <1>2, <2>2, <2>7
    <2>8. \A s \in Rollouts : SpecChanges(s) => UNCHANGED <<status, pass>>
      BY ZenonT(120) DEF SpecChanges
    <2>9. \A m \in Nodes : Step(m) => (\E e : StepMakes(m, e)) /\ UNCHANGED status
      BY ZenonT(120), StepSays
    <2> QED BY ZenonT(120), <2>1, <2>3, <2>4, <2>5, <2>6, <2>7, <2>8, <2>9, Kinds
  <1> QED BY ZenonT(120), <1>1, <1>2 DEF DrainedIsListed

\* A Job that has ended stays as it is, until it expires.
LEMMA EndedStays ==
  ASSUME [RolloutNext]_rolloutVars, NEW j \in DOMAIN jobs, jobs[j].state # "Active"
  PROVE  j \notin DOMAIN jobs' \/ jobs'[j] = jobs[j]
  <1>1. ASSUME NEW k, Creates(k) PROVE jobs'[j] = jobs[j]
    BY ZenonT(120), <1>1 DEF Creates
  <1>2. UNCHANGED jobs => jobs'[j] = jobs[j]
    BY ZenonT(120)
  <1>3. ASSUME NEW n \in Nodes, Step(n) PROVE jobs'[j] = jobs[j]
    <2>1. CASE DrainEnds(n) \/ Confirms(n) \/ ConfirmTimesOut(n) \/ StartSwitch(n)
      BY ZenonT(120), <1>1, <2>1 DEF DrainEnds, Confirms, ConfirmTimesOut, StartSwitch
    <2>2. CASE \/ JobFails(n) \/ RebootNeeded(n) \/ SwitchDone(n) \/ RebootScheduled(n) \/ NodeDone(n)
               \/ StepWaits(n) \/ DrainFails(n) \/ RebootTimesOut(n) \/ HaltsUnconfirmed(n)
      BY ZenonT(120), <1>2, <2>2 DEF JobFails, RebootNeeded, SwitchDone, RebootScheduled, NodeDone, StepWaits,
         DrainFails, RebootTimesOut, HaltsUnconfirmed, hostVars
    <2> QED BY ZenonT(120), <1>3, <2>1, <2>2 DEF Step, TimesOut
  <1>4. CASE BeginPass \/ (\E r \in Rollouts : Reconcile(r)) \/ Patches \/ ReconcileFails \/ Crash
             \/ \E r \in Rollouts : SpecChanges(r)
    BY ZenonT(120), <1>2, <1>4 DEF BeginPass, Reconcile, Patches, ReconcileFails, Crash, SpecChanges, hostVars
  <1>5. ASSUME NEW r, NEW n, Outside(r, n) \/ NodeReports(n) \/ LeaseRenews(n) PROVE jobs'[j] = jobs[j]
    BY ZenonT(120), <1>2, <1>5 DEF Outside, BuildDone, BuildFails, StoreUnreachable, StoreAnswersAgain, StoreGaveUp,
       Builds, NodeReports, LeaseRenews, hostVars
  <1>6. ASSUME NEW k \in DOMAIN jobs, PodStep(k) PROVE jobs'[j] = jobs[j]
    <2>1. jobs[k].state = "Active" /\ \E x : jobs' = [jobs EXCEPT ![k] = x]
      <3>1. CASE PodStarts(k) \/ PodReports(k) \/ StartsRevert(k) \/ StopsTimer(k)
        BY ZenonT(120), <3>1 DEF PodStarts, PodReports, StartsRevert, StopsTimer, Goes
      <3>2. CASE SwitchChecks(k)
        BY ZenonT(120), <3>2 DEF SwitchChecks, Runs
      <3>3. CASE SwitchArms(k) \/ SwitchActivates(k) \/ RevertChecks(k)
        BY ZenonT(120), <3>3 DEF SwitchArms, SwitchActivates, RevertChecks, Runs, Goes
      <3>4. CASE BootSets(k) \/ BootSchedules(k) \/ DisarmStops(k) \/ DisarmChecks(k)
        BY ZenonT(120), <3>4 DEF BootSets, BootSchedules, DisarmStops, DisarmChecks, Runs, Goes
      <3> QED BY ZenonT(120), <1>6, <3>1, <3>2, <3>3, <3>4 DEF PodStep
    <2>2. j # k
      BY ZenonT(120), <2>1
    <2> QED BY ZenonT(120), <2>1, <2>2
  <1>7. ASSUME NEW n \in Nodes, HostStep(n) PROVE jobs'[j] = jobs[j]
    <2>1. CASE TimerFires(n) \/ RevertEnds(n)
      BY ZenonT(120), <2>1 DEF TimerFires, RevertEnds
    <2>2. CASE HostBoots(n)
      BY ZenonT(120), <2>2 DEF HostBoots
    <2> QED BY ZenonT(120), <1>7, <2>1, <2>2 DEF HostStep
  <1>8. ASSUME NEW k \in DOMAIN jobs, DeadlinePasses(k) \/ JobExpires(k)
        PROVE  j \notin DOMAIN jobs' \/ jobs'[j] = jobs[j]
    BY ZenonT(120), <1>8 DEF DeadlinePasses, JobExpires
  <1>9. CASE UNCHANGED rolloutVars
    BY ZenonT(120), <1>2, <1>9 DEF rolloutVars, hostVars
  <1> QED BY ZenonT(120), <1>3, <1>4, <1>5, <1>6, <1>7, <1>8, <1>9
             DEF RolloutNext, Controller, Outside, Pods

\* What remembers a drain goes on to, unless a switch of that node starts.
LEMMA RemembersStays ==
  ASSUME [RolloutNext]_rolloutVars, NEW r, NEW n, NEW e, Remembers(jobs, r, n, e),
         e.phase = "Switching" /\ pass.of = r => ~StartSwitch(n)
  PROVE  Remembers(jobs', r, n, e)
  <1> DEFINE j == SwitchJob(r, n, e)
  <1>1. CASE e.drained
    BY ZenonT(120), <1>1 DEF Remembers
  <1>2. CASE e.phase = "Switching" /\ (j \in DOMAIN jobs => jobs[j].state = "Complete" /\ jobs[j].reboot)
    <2>1. j.rollout = r /\ j.node = n /\ j.action = "switch"
      BY ZenonT(120) DEF SwitchJob
    <2> HIDE DEF j
    <2>2. j \in DOMAIN jobs' => j \in DOMAIN jobs
      <3>1. ASSUME j \in DOMAIN jobs' \ DOMAIN jobs PROVE FALSE
        <4>1. j.rollout = pass.of /\ \E m \in Nodes : StartSwitch(m) /\ j.node = m
          BY ZenonT(120), <2>1, <3>1, NewSwitchJobs
        <4> QED BY ZenonT(120), <1>2, <2>1, <4>1
      <3> QED BY ZenonT(120), <3>1
    <2>3. j \in DOMAIN jobs' => jobs'[j].state = "Complete" /\ jobs'[j].reboot
      BY ZenonT(120), <1>2, <2>2, EndedStays
    <2> QED BY ZenonT(120), <1>2, <2>3 DEF Remembers, SwitchJob, j
  <1> QED BY ZenonT(120), <1>1, <1>2 DEF Remembers

\* A node that moves to another phase keeps its mark.
LEMMA MovesKeepMark ==
  ASSUME PassOK, pass.at # "next", NEW n \in Nodes, NEW a, Moves(n, a)
  PROVE  pass'.entries[n].drained = pass.entries[n].drained
  <1> DEFINE e == [pass.entries[n] EXCEPT !.phase = a]
  <1>1. pass.entries[n] \in Entry /\ pass.entries \in [Nodes -> Entry]
    BY ZenonT(120) DEF PassOK
  <1>2. PassGoes(n, e, "step", pass.left \ {n})
    BY ZenonT(120), BecomesSays DEF Moves
  <1>3. e.drained = pass.entries[n].drained
    BY ZenonT(120), <1>1 DEF Entry
  <1> HIDE DEF e
  <1>4. pass'.entries = [pass.entries EXCEPT ![n] = e]
    BY ZenonT(120), <1>2 DEF PassGoes
  <1> QED BY ZenonT(120), <1>1, <1>3, <1>4

\* Only a switch under way has no mark.
LEMMA OnlySwitching ==
  ASSUME NEW table, NEW r, NEW n, NEW e, Remembers(table, r, n, e), e.phase # "Switching"
  PROVE  e.drained
  BY ZenonT(120) DEF Remembers

\* A step at a node that is remembered and stays cordoned for its drain
\* leaves the mark.
LEMMA StepRemembers ==
  ASSUME Types, NEW n \in Nodes, Step(n), Remembers(jobs, pass.of, n, pass.entries[n]),
         node'[n].cordon = "drain"
  PROVE  pass'.entries[n].drained
  <1> DEFINE x == pass.entries[n]
  <1>0. /\ PassOK /\ NodesOK
        /\ pass.at # "next" => x \in Entry /\ pass.entries \in [Nodes -> Entry]
    BY ZenonT(120), TypesAre DEF PassOK
  <1>1. x.phase # "Switching" => x.drained
    BY ZenonT(120), OnlySwitching
  <1>2. ASSUME NEW a, Steps(n, a), a # "Switching", NEW b, Moves(n, b) PROVE pass'.entries[n].drained
    BY ZenonT(120), <1>0, <1>1, <1>2, MovesKeepMark DEF Steps
  <1>3. ~Halts(n)
    <2>1. Halts(n) => node'[n].cordon = "halt"
      BY ZenonT(120), <1>0 DEF Halts, NodesOK, NodeObject
    <2> QED BY ZenonT(120), <2>1
  <1>4. CASE JobFails(n) \/ RebootTimesOut(n) \/ HaltsUnconfirmed(n)
    BY ZenonT(120), <1>3, <1>4 DEF JobFails, RebootTimesOut, HaltsUnconfirmed
  <1>5. CASE DrainEnds(n) \/ DrainFails(n)
    BY ZenonT(120), <1>2, <1>5 DEF DrainEnds, DrainFails
  <1>6. CASE Confirms(n)
    BY ZenonT(120), <1>2, <1>6 DEF Confirms
  <1>7. CASE RebootScheduled(n)
    BY ZenonT(120), <1>2, <1>7 DEF RebootScheduled, JobIs
  <1>8. CASE RebootNeeded(n)
    <2> DEFINE e == [x EXCEPT !.phase = "Draining", !.drained = TRUE, !.bootID = pass.nodes[n].bootID]
    <2>1. pass.at # "next" /\ Becomes(n, e)
      BY ZenonT(120), <1>8 DEF RebootNeeded, JobIs, Steps
    <2>2. PassGoes(n, e, "step", pass.left \ {n})
      BY ZenonT(120), <1>0, <2>1, BecomesSays
    <2>3. e.drained
      BY ZenonT(120), <1>0, <2>1 DEF Entry
    <2> HIDE DEF e
    <2>4. pass'.entries = [pass.entries EXCEPT ![n] = e]
      BY ZenonT(120), <2>2 DEF PassGoes
    <2> QED BY ZenonT(120), <1>0, <2>1, <2>3, <2>4
  <1>9. SwitchJob(pass.of, n, x) = JobName(n, "switch")
    BY ZenonT(120) DEF SwitchJob, JobName
  <1>10. JobIs(n, "Switching", "Complete") \/ JobIs(n, "Switching", "Active") =>
           /\ JobName(n, "switch") \in DOMAIN jobs
           /\ JobIs(n, "Switching", "Complete") => Job(n) = JobName(n, "switch")
           /\ JobIs(n, "Switching", "Active") => jobs[JobName(n, "switch")].state = "Active"
    BY ZenonT(120) DEF JobIs, Steps, Job
  <1>11. CASE SwitchDone(n)
    <2>1. x.drained
      BY ZenonT(120), <1>9, <1>10, <1>11 DEF SwitchDone, Remembers
    <2> QED BY ZenonT(120), <1>0, <1>11, <2>1, MovesKeepMark DEF SwitchDone, JobIs, Steps
  <1>12. CASE NodeDone(n)
    <2>1. x.drained
      BY ZenonT(120), <1>1, <1>12 DEF NodeDone, JobIs, Steps
    <2>2. node'[n].cordon = "no"
      BY ZenonT(120), <1>0, <1>12, <2>1 DEF NodeDone, NodesOK, NodeObject
    <2> QED BY ZenonT(120), <2>2
  <1>13. CASE StepWaits(n)
    <2>1. x.drained
      BY ZenonT(120), <1>1, <1>9, <1>10, <1>13 DEF StepWaits, Steps, JobIs, Remembers
    <2>2. pass.at # "next"
      BY ZenonT(120), <1>13 DEF StepWaits, Steps, JobIs
    <2>3. PassGoes(n, x, "step", pass.left \ {n})
      BY ZenonT(120), <1>0, <1>13, <2>2, BecomesSays DEF StepWaits
    <2>4. pass'.entries = [pass.entries EXCEPT ![n] = x]
      BY ZenonT(120), <2>3 DEF PassGoes
    <2> QED BY ZenonT(120), <1>0, <2>1, <2>2, <2>4
  <1>14. CASE ConfirmTimesOut(n)
    <2> DEFINE e == [x EXCEPT !.phase = "Reverted"]
    <2>1. pass.at # "next" /\ x.drained
      BY ZenonT(120), <1>1, <1>14 DEF ConfirmTimesOut, Steps
    <2>2. e.drained
      BY ZenonT(120), <1>0, <2>1 DEF Entry
    <2>3. pass' = [pass EXCEPT !.at = "halt", !.entries = [pass.entries EXCEPT ![n] = e]]
      BY ZenonT(120), <1>14 DEF ConfirmTimesOut
    <2> HIDE DEF e
    <2>4. pass'.entries = [pass.entries EXCEPT ![n] = e]
      BY ZenonT(120), <1>0, <2>3 DEF PassOK
    <2> QED BY ZenonT(120), <1>0, <2>1, <2>2, <2>4
  <1>15. CASE StartSwitch(n)
    <2> DEFINE e == [x EXCEPT !.phase = "Switching", !.generation = pass.docs[pass.of].gen]
    <2>1. pass.at # "next" /\ x.phase = "Pending" /\ Becomes(n, e)
      BY ZenonT(120), <1>15 DEF StartSwitch, StartsNext, Waiting
    <2>2. PassGoes(n, e, "step", pass.left \ {n})
      BY ZenonT(120), <1>0, <2>1, BecomesSays
    <2>3. e.drained = x.drained
      BY ZenonT(120), <1>0, <2>1 DEF Entry
    <2>4. x.drained
      BY ZenonT(120), <1>1, <2>1
    <2> HIDE DEF e
    <2>5. pass'.entries = [pass.entries EXCEPT ![n] = e]
      BY ZenonT(120), <2>2 DEF PassGoes
    <2> QED BY ZenonT(120), <1>0, <2>1, <2>3, <2>4, <2>5
  <1> QED BY ZenonT(120), <1>4, <1>5, <1>6, <1>7, <1>8, <1>11, <1>12, <1>13, <1>14, <1>15 DEF Step, TimesOut

\* Who uncordons and who cordons: a node becomes cordoned for a drain when its
\* switch needs a reboot.
LEMMA CordonedFor ==
  ASSUME Types, [RolloutNext]_rolloutVars, NEW n \in Nodes, node'[n].cordon = "drain",
         node[n].cordon # "drain"
  PROVE  RebootNeeded(n)
  <1>0. NodesOK
    BY ZenonT(120), TypesAre
  <1>1. UNCHANGED node => FALSE
    BY ZenonT(120)
  <1>2. ASSUME NEW m \in Nodes, NEW c \in {"no", "halt"}, node' = [node EXCEPT ![m].cordon = c] PROVE FALSE
    BY ZenonT(120), <1>0, <1>2 DEF NodesOK, NodeObject
  <1>3. ASSUME NEW m \in Nodes, Step(m) PROVE RebootNeeded(n)
    <2>1. CASE JobFails(m) \/ RebootTimesOut(m) \/ HaltsUnconfirmed(m)
      BY ZenonT(120), <1>2, <2>1 DEF JobFails, RebootTimesOut, HaltsUnconfirmed, Halts
    <2>2. CASE \/ DrainEnds(m) \/ DrainFails(m) \/ Confirms(m) \/ RebootScheduled(m) \/ SwitchDone(m)
               \/ StepWaits(m) \/ ConfirmTimesOut(m) \/ StartSwitch(m)
      BY ZenonT(120), <1>1, <2>2 DEF DrainEnds, DrainFails, Confirms, RebootScheduled, SwitchDone, StepWaits,
         ConfirmTimesOut, StartSwitch, apiVars
    <2>3. CASE NodeDone(m)
      BY ZenonT(120), <1>1, <1>2, <2>3 DEF NodeDone
    <2>4. CASE RebootNeeded(m)
      <3>1. n # m => node'[n] = node[n]
        BY ZenonT(120), <1>0, <2>4 DEF RebootNeeded, NodesOK
      <3> QED BY ZenonT(120), <2>4, <3>1
    <2> QED BY ZenonT(120), <1>3, <2>1, <2>2, <2>3, <2>4 DEF Step, TimesOut
  <1>4. CASE \/ BeginPass \/ (\E r \in Rollouts : Reconcile(r)) \/ Patches \/ ReconcileFails \/ Crash
             \/ (\E r \in Rollouts : SpecChanges(r)) \/ Machines
    BY ZenonT(120), <1>1, <1>4 DEF BeginPass, Reconcile, Patches, ReconcileFails, Crash, SpecChanges, Machines, apiVars
  <1>5. ASSUME NEW r, NEW m, Outside(r, m) \/ LeaseRenews(m) PROVE FALSE
    BY ZenonT(120), <1>1, <1>5 DEF Outside, BuildDone, BuildFails, StoreUnreachable, StoreAnswersAgain, StoreGaveUp,
       Builds, LeaseRenews, apiVars
  <1>6. ASSUME NEW m \in Nodes, NodeReports(m) PROVE FALSE
    <2> DEFINE o == [node[m] EXCEPT !.ready = Up(m), !.bootID = IF Up(m) THEN host[m].boots ELSE node[m].bootID]
    <2>1. o.cordon = node[m].cordon
      BY ZenonT(120), <1>0 DEF NodesOK, NodeObject
    <2>2. node' = [node EXCEPT ![m] = o]
      BY ZenonT(120), <1>6 DEF NodeReports
    <2> HIDE DEF o
    <2> QED BY ZenonT(120), <1>0, <2>1, <2>2 DEF NodesOK
  <1>7. CASE UNCHANGED rolloutVars
    BY ZenonT(120), <1>1, <1>7 DEF rolloutVars, apiVars
  <1> QED BY ZenonT(120), <1>3, <1>4, <1>5, <1>6, <1>7 DEF RolloutNext, Controller, Outside, Machines

\* Every step keeps what remembers a drain.
LEMMA DrainStep ==
  ASSUME RolloutInv, DrainedIsListed, DrainIsKept, [RolloutNext]_rolloutVars
  PROVE  DrainIsKept'
  <1>0. Types /\ LeftIsInFlight /\ FlightIsKept /\ PassOK
    BY ZenonT(120), TypesAre DEF RolloutInv
  <1> SUFFICES ASSUME NEW n \in Nodes, node'[n].cordon = "drain"
               PROVE  \E r \in Rollouts :
                        /\ Remembers(jobs', r, n, status'[r].nodes[n])
                        /\ pass'.at # "next" /\ pass'.of = r => Remembers(jobs', r, n, pass'.entries[n])
    BY ZenonT(120) DEF DrainIsKept
  <1>1. CASE RebootNeeded(n)
    <2> DEFINE r == pass.of
               x == pass.entries[n]
               j == JobName(n, "switch")
    <2>1. /\ pass.at = "step" /\ n \in pass.left /\ x.phase = "Switching"
          /\ Job(n) \in DOMAIN jobs /\ jobs[Job(n)].state = "Complete" /\ jobs[Job(n)].reboot
          /\ UNCHANGED <<jobs, status>>
      BY ZenonT(120), <1>1 DEF RebootNeeded, JobIs, Steps, hostVars
    <2>2. r \in Rollouts /\ status[r].nodes[n] = x
      BY ZenonT(120), <1>0, <2>1 DEF LeftIsInFlight, PassOK
    <2>3. SwitchJob(r, n, x) = Job(n)
      <3>1. Job(n) = j
        BY ZenonT(120), <2>1 DEF Job
      <3> QED BY ZenonT(120), <3>1 DEF SwitchJob, JobName
    <2>4. Remembers(jobs, r, n, x)
      BY ZenonT(120), <2>1, <2>3 DEF Remembers
    <2>5. Remembers(jobs', r, n, status'[r].nodes[n])
      BY ZenonT(120), <2>1, <2>2, <2>4
    <2>6. Step(n)
      BY ZenonT(120), <1>1 DEF Step
    <2>7. pass'.entries[n].drained
      BY ZenonT(120), <1>0, <2>4, <2>6, StepRemembers
    <2> QED BY ZenonT(120), <2>2, <2>5, <2>7 DEF Remembers
  <1>2. CASE node[n].cordon = "drain"
    <2>1. PICK r \in Rollouts :
            /\ Remembers(jobs, r, n, status[r].nodes[n])
            /\ pass.at # "next" /\ pass.of = r => Remembers(jobs, r, n, pass.entries[n])
      BY ZenonT(120), <1>2 DEF DrainIsKept
    <2> DEFINE e == status[r].nodes[n]
    <2>2. ASSUME StartSwitch(n), pass.of = r
          PROVE  e.phase # "Switching" /\ pass.entries[n].phase # "Switching"
      <3>1. pass.entries[n].phase = "Pending" /\ pass.at # "next"
        BY ZenonT(120), <2>2 DEF StartSwitch, StartsNext, Waiting
      <3>2. e.phase \notin InFlight
        BY ZenonT(120), <1>0, <2>2, <3>1 DEF FlightIsKept, InFlight
      <3> QED BY ZenonT(120), <3>1, <3>2 DEF InFlight
    <2>3. Remembers(jobs', r, n, e)
      BY ZenonT(120), <2>1, <2>2, RemembersStays
    <2>4. ASSUME pass.at # "next", pass.of = r PROVE Remembers(jobs', r, n, pass.entries[n])
      BY ZenonT(120), <2>1, <2>2, <2>4, RemembersStays
    <2>5. Remembers(jobs', r, n, status'[r].nodes[n])
      <3>1. CASE UNCHANGED status
        BY ZenonT(120), <2>3, <3>1
      <3>2. CASE Saves
        <4>1. CASE r = pass.of
          <5>1. pass.at # "next" /\ status'[r].nodes[n] = pass.entries[n]
            BY ZenonT(120), <1>0, <3>2, <4>1, SavesSay DEF Saves
          <5> QED BY ZenonT(120), <2>4, <4>1, <5>1
        <4>2. CASE r # pass.of
          <5>1. status'[r] = status[r]
            BY ZenonT(120), <1>0, <3>2, <4>2, SavesSay
          <5> QED BY ZenonT(120), <2>3, <5>1
        <4> QED BY ZenonT(120), <4>1, <4>2
      <3>3. \A s \in Rollouts : SpecChanges(s) => UNCHANGED status
        BY ZenonT(120) DEF SpecChanges
      <3> QED BY ZenonT(120), <1>0, <3>1, <3>2, <3>3, Kinds, KindsKeep
    <2>6. ASSUME pass'.at # "next", pass'.of = r PROVE Remembers(jobs', r, n, pass'.entries[n])
      <3>1. ASSUME NEW s \in Rollouts, Reconcile(s) PROVE Remembers(jobs', r, n, pass'.entries[n])
        <4>1. r \in pass.todo /\ pass'.entries[n] = EntryFor(r, n)
          BY ZenonT(120), <1>0, <2>6, <3>1, TakesSay
        <4>2. /\ e.phase \in InFlight => EntryFor(r, n) = e
              /\ Chosen(pass.docs[r], n) /\ n \notin Conflicts(pass.docs) /\ e.drained => EntryFor(r, n).drained
          BY ZenonT(120), <1>0, <4>1, EntriesMade DEF Makes
        <4>3. CASE e.phase \in InFlight
          BY ZenonT(120), <2>3, <4>1, <4>2, <4>3
        <4>4. CASE e.phase \notin InFlight
          <5>1. e.drained
            BY ZenonT(120), <2>1, <4>4, OnlySwitching DEF InFlight
          <5>2. EntryFor(r, n).drained
            BY ZenonT(120), <4>1, <4>2, <4>4, <5>1 DEF DrainedIsListed
          <5> QED BY ZenonT(120), <4>1, <5>2 DEF Remembers
        <4> QED BY ZenonT(120), <4>3, <4>4
      <3>2. ASSUME NEW m \in Nodes, Step(m) PROVE Remembers(jobs', r, n, pass'.entries[n])
        <4>1. PICK f : StepMakes(m, f)
          BY ZenonT(120), <1>0, <3>2, StepSays
        <4>2. pass.at # "next" /\ pass.of = r /\ pass'.entries = [pass.entries EXCEPT ![m] = f]
          BY ZenonT(120), <1>0, <2>6, <4>1, StepPass
        <4>3. CASE m = n
          <5>1. pass'.entries[n].drained
            BY ZenonT(120), <1>0, <2>1, <3>2, <4>2, <4>3, StepRemembers
          <5> QED BY ZenonT(120), <5>1 DEF Remembers
        <4>4. CASE m # n
          <5>1. pass'.entries[n] = pass.entries[n]
            BY ZenonT(120), <1>0, <4>2, <4>4 DEF PassOK
          <5> QED BY ZenonT(120), <2>4, <4>2, <5>1
        <4> QED BY ZenonT(120), <4>3, <4>4
      <3>3. CASE UNCHANGED pass
        BY ZenonT(120), <2>4, <2>6, <3>3
      <3>4. \A s \in Rollouts : SpecChanges(s) => UNCHANGED pass
        BY ZenonT(120) DEF SpecChanges
      <3>5. ~(Begins \/ Saves \/ Drops)
        BY ZenonT(120), <2>6 DEF Begins, Saves, Drops, Ends
      <3> QED BY ZenonT(120), <1>0, <3>1, <3>2, <3>3, <3>4, <3>5, Kinds
    <2> QED BY ZenonT(120), <2>5, <2>6
  <1> QED BY ZenonT(120), <1>0, <1>1, <1>2, CordonedFor

\* A node cordoned for a drain is remembered (see DrainIsRemembered), by any
\* number of rollouts and nodes and through crashes, lost patches, restarts
\* of the hosts and expiring Jobs, as long as the specs go on selecting the
\* nodes whose drain is marked and do not come into conflict over them.
THEOREM DrainsAreRemembered == RolloutSpec /\ []DrainedIsChosen => []DrainIsRemembered
  <1> DEFINE Inv == RolloutInv /\ DrainedIsListed /\ TakenOnce /\ DrainIsKept
  <1>1. RolloutInit => Inv
    <2> SUFFICES ASSUME RolloutInit PROVE Inv
      BY ZenonT(120)
    <2>1. /\ node = [n \in Nodes |-> [ready |-> TRUE, bootID |-> 0, cordon |-> "no"]]
          /\ pass = Idle
      BY ZenonT(120) DEF RolloutInit
    <2>2. DrainIsKept
      BY ZenonT(120), <2>1 DEF DrainIsKept
    <2>3. DrainedIsListed /\ TakenOnce
      BY ZenonT(120), <2>1, IdleTypes DEF DrainedIsListed, TakenOnce
    <2> QED BY ZenonT(120), <2>2, <2>3, InvInit
  <1>2. Inv /\ DrainedIsChosen /\ [RolloutNext]_rolloutVars => Inv'
    <2>1. RolloutInv => Types
      BY ZenonT(120) DEF RolloutInv
    <2> QED BY ZenonT(120), <2>1, InvStep, DrainedListedStep, DrainStep
  <1>3. Inv => DrainIsRemembered
    BY ZenonT(120) DEF DrainIsKept, DrainIsRemembered, Remembers
  <1> QED BY <1>1, <1>2, <1>3, PTL DEF RolloutSpec

-----------------------------------------------------------------------------
(* The entries of prebuilt systems and of specs that change at rest, and   *)
(* the live Jobs of a rollout.                                             *)

\* No spec has its systems built.
Prebuilt == \A r \in Rollouts : ~spec[r].body.source

\* No spec changes while nodes are in flight for it.
NoStaleFlight ==
    \A r \in Rollouts, n \in Nodes :
        status[r].nodes[n].phase \in InFlight => status[r].nodes[n].generation = spec[r].gen

\* The pass works for r, on its spec as it is.
WorksFor(r) == pass.at # "next" /\ pass.of = r /\ pass.docs[r].gen = spec[r].gen

\* An entry that plan leaves as it is.
Steady(e, doc, n) ==
    \/ /\ e.phase \in Started /\ e.generation = doc.gen /\ Chosen(doc, n)
       /\ e.phase \in InFlight => e.target = doc.body.systems[n]
    \/ e.phase \in {"Done", "Pending"} /\ e.target = doc.body.systems[n] /\ Chosen(doc, n)
    \/ e.phase = "None" /\ ~Chosen(doc, n)

\* A node in flight has the system of its generation, and a pass that works on
\* the spec as it is has only such entries.
EntriesAreSteady ==
    \A r \in Rollouts, n \in Nodes :
        /\ status[r].nodes[n].phase \in InFlight /\ status[r].nodes[n].generation = spec[r].gen
           => status[r].nodes[n].target = spec[r].body.systems[n]
        /\ WorksFor(r) => Steady(pass.entries[n], spec[r], n)

\* A Job is named after a generation that the pass has seen, and after the
\* system that this generation has for the node.
JobsAreSeen ==
    \A j \in DOMAIN jobs :
        /\ j.generation <= spec[j.rollout].gen
        /\ Waits(j.rollout) => j.generation <= pass.docs[j.rollout].gen
        /\ j.generation = spec[j.rollout].gen => j.target = spec[j.rollout].body.systems[j.node]

\* What plan makes of an entry, for a spec that has no conflict.
PlanOf(e, doc, n) == Planned(e, doc.body.systems[n], n \in doc.body.select, FALSE, doc.gen)

\* An entry that is in flight for the spec doc, if at all.
FliesFor(e, doc, n) ==
    /\ EntryOK(e) /\ e.generation <= doc.gen
    /\ e.phase \in InFlight => e.generation = doc.gen /\ e.target = doc.body.systems[n] /\ Chosen(doc, n)

\* A steady plan p for an entry e.
PlanIsSteady(p, e, doc, n) ==
    /\ Steady(p, doc, n)
    /\ e.phase \in InFlight \/ p.phase \in InFlight => p = e
    /\ Steady(e, doc, n) => p.phase = e.phase

\* plan makes steady entries, of nodes in flight for the spec as it is, and
\* keeps the phase of a steady one.
LEMMA PlanSteady ==
  ASSUME NEW doc \in Doc, NEW n \in Nodes, NEW e, FliesFor(e, doc, n)
  PROVE  PlanIsSteady(PlanOf(e, doc, n), e, doc, n)
  <1>p. PICK p : p = PlanOf(e, doc, n)
    BY ZenonT(120)
  <1> DEFINE t == doc.body.systems[n]
             S == doc.body.select
             gen == doc.gen
             Free == e.phase \notin InFlight
  <1>0. e \in Entry /\ gen \in Nat /\ e.generation \in Nat
    BY SMTT(120), RolloutAssumption DEF FliesFor, EntryOK, Entry, Doc
  <1>a. StaysHalted(e, gen) <=> e.phase \in {"Reverted", "DrainFailed"} /\ e.generation = gen
    BY SMTT(120), <1>0 DEF StaysHalted, FliesFor
  <1>b. /\ \A a \in InFlight : a \notin {"Reverted", "DrainFailed", "Done", "Pending", "None", "Building"}
        /\ Started = InFlight \cup {"Reverted", "DrainFailed"}
    BY ZenonT(120) DEF InFlight, Started
  <1>c. Chosen(doc, n) <=> n \in S /\ t # None
    BY ZenonT(120) DEF Chosen
  <1>d. /\ NoEntry.phase = "None"
        /\ Made("Done", t, t, gen).phase = "Done" /\ Made("Done", t, t, gen).target = t
        /\ Marked(e, "Pending", t).phase = "Pending" /\ Marked(e, "Pending", t).target = t
    BY ZenonT(120) DEF NoEntry, Made, Marked
  <1> DEFINE Goal == /\ Steady(p, doc, n)
                     /\ e.phase \in InFlight \/ p.phase \in InFlight => p = e
                     /\ Steady(e, doc, n) => p.phase = e.phase
  <1> SUFFICES Goal
    BY ZenonT(120), <1>p DEF PlanIsSteady
  <1>1. CASE ~Free
    <2>1. p = e
      BY ZenonT(120), <1>1, <1>p DEF PlanOf, Planned, Finishes
    <2> QED BY ZenonT(120), <1>1, <1>b, <2>1 DEF Steady, FliesFor
  <1>2. CASE Free /\ ~(n \in S /\ t # None)
    <2>1. p = NoEntry
      BY ZenonT(120), <1>2, <1>p DEF PlanOf, Planned, Finishes, Leaves
    <2>2. p.phase = "None"
      BY ZenonT(120), <2>1, <1>d
    <2> QED BY ZenonT(120), <1>2, <1>b, <1>c, <2>2 DEF Steady
  <1>3. CASE Free /\ n \in S /\ t # None /\ (StaysHalted(e, gen) \/ (e.phase = "Done" /\ e.target = t))
    <2>1. p = e
      BY ZenonT(120), <1>3, <1>p DEF PlanOf, Planned, Finishes, Leaves
    <2> QED BY ZenonT(120), <1>3, <1>a, <1>b, <1>c, <2>1 DEF Steady
  <1>4. CASE /\ Free /\ n \in S /\ t # None /\ ~StaysHalted(e, gen) /\ ~(e.phase = "Done" /\ e.target = t)
             /\ e.phase \in {"Done", "Building"} /\ e.current = t /\ ~e.drained
    <2>1. p = Made("Done", t, t, gen)
      BY ZenonT(120), <1>4, <1>p DEF PlanOf, Planned, Finishes, Leaves, NoEntry, Made
    <2>2. p.phase = "Done" /\ p.target = t
      BY ZenonT(120), <2>1, <1>d
    <2>3. ~Steady(e, doc, n)
      BY ZenonT(120), <1>4, <1>b, <1>c DEF Steady
    <2> QED BY ZenonT(120), <1>4, <1>b, <1>c, <2>2, <2>3 DEF Steady
  <1>5. CASE /\ Free /\ n \in S /\ t # None /\ ~StaysHalted(e, gen) /\ ~(e.phase = "Done" /\ e.target = t)
             /\ ~(e.phase \in {"Done", "Building"} /\ e.current = t /\ ~e.drained)
    <2>1. p = Marked(e, "Pending", t)
      BY ZenonT(120), <1>5, <1>p DEF PlanOf, Planned, Finishes, Leaves, Kept, NoEntry, Marked
    <2>2. p.phase = "Pending" /\ p.target = t
      BY ZenonT(120), <2>1, <1>d
    <2>3. Steady(e, doc, n) => e.phase = "Pending"
      BY ZenonT(120), <1>5, <1>a, <1>b, <1>c DEF Steady
    <2> QED BY ZenonT(120), <1>5, <1>b, <1>c, <2>2, <2>3 DEF Steady
  <1> QED BY ZenonT(120), <1>1, <1>2, <1>3, <1>4, <1>5

\* A pass that works on the spec as it is did so before, or has just begun.
LEMMA WorksStep ==
  ASSUME Types, DocsAreSpecs, [RolloutNext]_rolloutVars, NEW r \in Rollouts, WorksFor(r)'
  PROVE  /\ spec'[r] = spec[r] /\ UNCHANGED status
         /\ \/ Reconcile(r) /\ pass.docs[r] = spec[r]
            \/ WorksFor(r) /\ (UNCHANGED pass \/ \E n \in Nodes : Step(n))
  <1>0. pass'.at # "next" /\ pass'.of = r /\ pass'.docs[r].gen = spec'[r].gen
    BY ZenonT(120) DEF WorksFor
  <1>1. ASSUME NEW q \in Rollouts, Reconcile(q)
        PROVE  q = r /\ pass.docs[r] = spec[r] /\ UNCHANGED <<spec, status>>
    BY ZenonT(120), <1>0, <1>1, TakesSay DEF DocsAreSpecs, Waits
  <1>2. ASSUME NEW n \in Nodes, Step(n)
        PROVE  WorksFor(r) /\ UNCHANGED <<spec, status>>
    <2>1. UNCHANGED <<spec, status>> /\ pass.at # "next" /\ pass'.of = pass.of /\ pass'.docs = pass.docs
      BY ZenonT(120), <1>2, StepSays, StepPass
    <2> QED BY ZenonT(120), <1>0, <2>1 DEF WorksFor
  <1>3. CASE UNCHANGED <<spec, status, pass>>
    BY ZenonT(120), <1>0, <1>3 DEF WorksFor
  <1>4. ASSUME NEW q \in Rollouts, SpecChanges(q)
        PROVE  spec'[r] = spec[r] /\ UNCHANGED <<status, pass>> /\ WorksFor(r)
    <2>1. /\ UNCHANGED <<status, pass>> /\ spec'[q].gen = spec[q].gen + 1
          /\ \A x \in Rollouts \ {q} : spec'[x] = spec[x]
      BY ZenonT(120), <1>4, ChangesSay
    <2>2. Waits(r)
      BY ZenonT(120), <1>0, <2>1 DEF Waits
    <2>3. pass.docs[r].gen <= spec[r].gen /\ spec[r].gen \in Nat /\ pass.docs[r].gen \in Nat
      BY ZenonT(120), <2>2, Numbers DEF DocsAreSpecs
    <2>4. r # q
      <3>1. r = q => pass.docs[r].gen = spec[r].gen + 1
        BY ZenonT(120), <1>0, <2>1
      <3> QED BY SMTT(120), <2>3, <3>1
    <2> QED BY ZenonT(120), <1>0, <2>1, <2>4 DEF WorksFor
  <1>5. Begins \/ Saves \/ Drops => FALSE
    BY ZenonT(120), <1>0 DEF Begins, Saves, Drops, Ends
  <1> QED BY ZenonT(120), <1>1, <1>2, <1>3, <1>4, <1>5, Kinds

\* What plan makes of the status.
Coming(r, n) == PlanOf(status[r].nodes[n], spec[r], n)

\* It is steady, and the pass that begins with the spec as it is has it.
LEMMA PlansSteadily ==
  ASSUME RolloutInv, EntriesAreSteady, NoStaleFlight, NEW r \in Rollouts, NEW n \in Nodes
  PROVE  /\ Steady(Coming(r, n), spec[r], n)
         /\ status[r].nodes[n].phase \in InFlight \/ Coming(r, n).phase \in InFlight
            => Coming(r, n) = status[r].nodes[n]
         /\ Steady(status[r].nodes[n], spec[r], n) => Coming(r, n).phase = status[r].nodes[n].phase
         /\ Prebuilt /\ NoConflictListed /\ Reconcile(r) /\ pass.docs[r] = spec[r]
            => pass'.entries[n] = Coming(r, n)
  <1>0. Types /\ GenerationsAreSeen /\ FlightWasChosen /\ SpecsOK /\ StatusOK
    BY ZenonT(120), TypesAre DEF RolloutInv
  <1>e. PICK e : e = status[r].nodes[n]
    BY ZenonT(120)
  <1>d. PICK doc : doc = spec[r]
    BY ZenonT(120)
  <1>1. doc \in Doc /\ EntryOK(e) /\ e.generation <= doc.gen
    BY ZenonT(120), <1>0, <1>e, <1>d DEF SpecsOK, StatusOK, GenerationsAreSeen
  <1>2. e.phase \in InFlight => e.generation = doc.gen /\ e.target = doc.body.systems[n] /\ Chosen(doc, n)
    BY ZenonT(120), <1>0, <1>e, <1>d DEF EntriesAreSteady, NoStaleFlight, FlightWasChosen, Started
  <1>3. Coming(r, n) = PlanOf(e, doc, n)
    BY ZenonT(120), <1>e, <1>d DEF Coming
  <1>4. ASSUME Prebuilt, NoConflictListed, Reconcile(r), pass.docs[r] = spec[r]
        PROVE  pass'.entries[n] = Coming(r, n)
    <2>1. pass'.entries[n] = EntryFor(r, n) /\ r \in pass.todo
      BY ZenonT(120), <1>0, <1>4, TakesSay
    <2>2. n \notin OpenFor(r) /\ n \notin Conflicts(pass.docs)
      BY ZenonT(120), <1>4, <2>1 DEF OpenFor, Prebuilt, NoConflictListed
    <2>3. EntryFor(r, n) = PlannedFor(r, n) /\ TargetFor(r, n) = doc.body.systems[n]
      BY ZenonT(120), <1>d, <1>4, <2>2 DEF EntryFor, TargetFor
    <2>4. (n \in Conflicts(pass.docs)) = FALSE
      BY SMTT(120), <2>2
    <2>5. PlannedFor(r, n) = Coming(r, n)
      BY ZenonT(120), <1>d, <1>4, <2>3, <2>4 DEF PlannedFor, PlanOf, Coming
    <2> QED BY ZenonT(120), <2>1, <2>3, <2>5
  <1>5. /\ Steady(Coming(r, n), doc, n)
        /\ e.phase \in InFlight \/ Coming(r, n).phase \in InFlight => Coming(r, n) = e
        /\ Steady(e, doc, n) => Coming(r, n).phase = e.phase
    <2>1. FliesFor(e, doc, n) /\ doc \in Doc
      BY ZenonT(120), <1>1, <1>2 DEF FliesFor
    <2>2. PlanIsSteady(PlanOf(e, doc, n), e, doc, n)
      BY ZenonT(120), <2>1, PlanSteady
    <2> QED BY ZenonT(120), <1>3, <2>2 DEF PlanIsSteady
  <1> QED BY ZenonT(120), <1>e, <1>d, <1>4, <1>5

\* What becomes of a steady entry in flight is steady.
LEMMA Landed ==
  ASSUME NEW doc, NEW n, NEW x, Steady(x, doc, n), NEW e
  PROVE  /\ Flies(x, e) => Steady(e, doc, n)
         /\ x.phase = "Pending" /\ e.phase = "Switching" /\ e.generation = doc.gen /\ e.target = x.target
            => Steady(e, doc, n)
  <1>1. /\ \A a \in InFlight : a \notin {"Done", "Pending", "None"}
        /\ Landing = Started \cup {"Done"}
    BY ZenonT(120) DEF InFlight, Landing, Started
  <1>2. ASSUME Flies(x, e) PROVE Steady(e, doc, n)
    <2>1. /\ x.generation = doc.gen /\ Chosen(doc, n) /\ x.target = doc.body.systems[n]
      BY ZenonT(120), <1>1, <1>2 DEF Steady, Flies
    <2> QED BY ZenonT(120), <1>1, <1>2, <2>1 DEF Steady, Flies
  <1>3. ASSUME x.phase = "Pending", e.phase = "Switching", e.generation = doc.gen, e.target = x.target
        PROVE  Steady(e, doc, n)
    <2>1. Chosen(doc, n) /\ x.target = doc.body.systems[n]
      BY ZenonT(120), <1>3 DEF Steady, Started, InFlight
    <2>2. "Switching" \in Started
      BY ZenonT(120) DEF Started, InFlight
    <2> QED BY ZenonT(120), <1>3, <2>1, <2>2 DEF Steady
  <1> QED BY ZenonT(120), <1>2, <1>3

\* Nodes in flight, and what a pass has of the nodes, stay steady.
LEMMA SteadyStep ==
  ASSUME RolloutInv, NoConflictListed, EntriesAreSteady, Prebuilt, NoStaleFlight, [RolloutNext]_rolloutVars
  PROVE  EntriesAreSteady'
  <1>0. Types /\ DocsAreSpecs /\ GenerationsAreSeen /\ FlightWasChosen /\ PassOK /\ SpecsOK /\ StatusOK
    BY ZenonT(120), TypesAre DEF RolloutInv
  <1>1. ASSUME NEW r \in Rollouts, NEW n \in Nodes, status'[r].nodes[n].phase \in InFlight,
               status'[r].nodes[n].generation = spec'[r].gen
        PROVE  status'[r].nodes[n].target = spec'[r].body.systems[n]
    <2>1. CASE UNCHANGED <<spec, status>>
      BY ZenonT(120), <1>1, <2>1 DEF EntriesAreSteady
    <2>2. CASE Saves
      <3>1. CASE r = pass.of
        <4>1. Waits(r) /\ pass.at # "next" /\ UNCHANGED spec
          BY ZenonT(120), <2>2, <3>1 DEF Waits, Saves, Ends
        <4>2. status'[r].nodes[n] = pass.entries[n]
          BY ZenonT(120), <2>2, <3>1, <1>0, SavesSay
        <4>3. /\ pass.entries[n].generation \in Nat /\ pass.docs[r].gen \in Nat /\ spec[r].gen \in Nat
              /\ pass.entries[n].generation <= pass.docs[r].gen /\ pass.docs[r].gen <= spec[r].gen
          BY ZenonT(120), <3>1, <4>1, <1>0, Numbers DEF GenerationsAreSeen, DocsAreSpecs
        <4>4. pass.docs[r].gen = spec[r].gen
          BY SMTT(120), <1>1, <4>1, <4>2, <4>3
        <4>5. Steady(pass.entries[n], spec[r], n)
          BY ZenonT(120), <3>1, <4>1, <4>4 DEF EntriesAreSteady, WorksFor
        <4>6. \A a \in InFlight : a \notin {"Done", "Pending", "None"}
          BY ZenonT(120) DEF InFlight
        <4> QED BY ZenonT(120), <1>1, <4>1, <4>2, <4>5, <4>6 DEF Steady
      <3>2. CASE r # pass.of
        <4>1. status'[r] = status[r] /\ UNCHANGED spec
          BY ZenonT(120), <2>2, <3>2, <1>0, SavesSay
        <4> QED BY ZenonT(120), <1>1, <4>1 DEF EntriesAreSteady
      <3> QED BY ZenonT(120), <3>1, <3>2
    <2>3. ASSUME NEW s \in Rollouts, SpecChanges(s)
          PROVE  status'[r].nodes[n].target = spec'[r].body.systems[n]
      <3>1. /\ UNCHANGED status /\ spec'[s].gen = spec[s].gen + 1
            /\ r # s => spec'[r] = spec[r]
        BY ZenonT(120), <2>3, <1>0, ChangesSay
      <3>2. status[r].nodes[n].generation <= spec[r].gen /\ spec[r].gen \in Nat
            /\ status[r].nodes[n].generation \in Nat
        BY ZenonT(120), <1>0, Numbers DEF GenerationsAreSeen
      <3>3. r # s
        BY SMTT(120), <1>1, <3>1, <3>2
      <3> QED BY ZenonT(120), <1>1, <3>1, <3>3 DEF EntriesAreSteady
    <2> QED BY ZenonT(120), <1>0, <2>1, <2>2, <2>3, Kinds, KindsKeep
  <1>2. ASSUME NEW r \in Rollouts, NEW n \in Nodes, WorksFor(r)'
        PROVE  Steady(pass'.entries[n], spec'[r], n)
    <2>0. spec'[r] = spec[r]
      BY ZenonT(120), <1>0, <1>2, WorksStep
    <2>1. CASE Reconcile(r) /\ pass.docs[r] = spec[r]
      BY ZenonT(120), <1>0, <2>0, <2>1, PlansSteadily
    <2>2. CASE WorksFor(r) /\ UNCHANGED pass
      BY ZenonT(120), <2>0, <2>2 DEF EntriesAreSteady
    <2>3. ASSUME WorksFor(r), NEW m \in Nodes, Step(m)
          PROVE  Steady(pass'.entries[n], spec'[r], n)
      <3>1. PICK e : StepMakes(m, e)
        BY ZenonT(120), <1>0, <2>3, StepSays
      <3>2. pass'.entries = [pass.entries EXCEPT ![m] = e] /\ pass.entries \in [Nodes -> Entry]
        BY ZenonT(120), <1>0, <3>1, StepPass
      <3>3. Steady(pass.entries[n], spec[r], n) /\ pass.docs[pass.of].gen = spec[r].gen
        BY ZenonT(120), <2>3 DEF EntriesAreSteady, WorksFor
      <3>4. CASE m # n
        BY ZenonT(120), <2>0, <3>2, <3>3, <3>4
      <3>5. CASE m = n
        <4>1. pass'.entries[n] = e
          BY ZenonT(120), <3>2, <3>5
        <4>2. CASE Flies(pass.entries[n], e)
          BY ZenonT(120), <2>0, <3>3, <4>1, <4>2, Landed
        <4>3. CASE e = pass.entries[n]
          BY ZenonT(120), <2>0, <3>3, <4>1, <4>3
        <4>4. CASE /\ pass.entries[n].phase = "Pending" /\ e.phase = "Switching"
                   /\ e.generation = pass.docs[pass.of].gen /\ e.target = pass.entries[n].target
          BY ZenonT(120), <2>0, <3>3, <4>1, <4>4, Landed
        <4> QED BY ZenonT(120), <3>1, <3>5, <4>2, <4>3, <4>4 DEF StepMakes
      <3> QED BY ZenonT(120), <3>4, <3>5
    <2> QED BY ZenonT(120), <1>0, <1>2, <2>1, <2>2, <2>3, WorksStep
  <1> QED BY ZenonT(120), <1>1, <1>2 DEF EntriesAreSteady

\* A Job is created for a node in flight with the pass, at its generation, or
\* for a pending one, at the generation of the pass.
LEMMA NewJobs ==
  ASSUME RolloutInv, [RolloutNext]_rolloutVars, NEW j \in DOMAIN jobs' \ DOMAIN jobs
  PROVE  \E n \in Nodes :
            /\ Step(n) /\ pass.at # "next" /\ j.rollout = pass.of /\ j.node = n
            /\ j.target = pass.entries[n].target
            /\ \/ pass.entries[n].phase \in InFlight /\ j.generation = pass.entries[n].generation
               \/ pass.entries[n].phase = "Pending" /\ j.generation = pass.docs[pass.of].gen
  <1> DEFINE IsFor(n) == /\ Step(n) /\ pass.at # "next" /\ j.rollout = pass.of /\ j.node = n
                         /\ j.target = pass.entries[n].target
                         /\ \/ pass.entries[n].phase \in InFlight /\ j.generation = pass.entries[n].generation
                            \/ pass.entries[n].phase = "Pending" /\ j.generation = pass.docs[pass.of].gen
  <1>1. ASSUME NEW k, Creates(k) PROVE j = k
    BY ZenonT(120), <1>1 DEF Creates
  <1>2. UNCHANGED jobs => FALSE
    BY ZenonT(120)
  <1>3. ASSUME NEW n \in Nodes, NEW a, Creates(JobName(n, a)), Step(n), pass.at # "next",
               pass.entries[n].phase \in InFlight
        PROVE  IsFor(n)
    <2>1. PICK k : k = JobName(n, a)
      BY ZenonT(120)
    <2>2. /\ k.rollout = pass.of /\ k.node = n /\ k.target = pass.entries[n].target
          /\ k.generation = pass.entries[n].generation
      BY ZenonT(120), <2>1 DEF JobName
    <2>3. j = k
      BY ZenonT(120), <1>1, <1>3, <2>1
    <2> QED BY ZenonT(120), <1>3, <2>2, <2>3
  <1>4. ASSUME NEW n \in Nodes, Step(n) PROVE IsFor(n)
    <2>0. "Draining" \in InFlight /\ "Rebooting" \in InFlight /\ "Confirming" \in InFlight /\ "step" # "next"
      BY ZenonT(120) DEF InFlight
    <2>1. CASE DrainEnds(n)
      BY ZenonT(120), <1>3, <1>4, <2>0, <2>1 DEF DrainEnds, Steps
    <2>2. CASE Confirms(n)
      BY ZenonT(120), <1>3, <1>4, <2>0, <2>2 DEF Confirms, Steps
    <2>3. CASE ConfirmTimesOut(n)
      BY ZenonT(120), <1>3, <1>4, <2>0, <2>3 DEF ConfirmTimesOut, Steps
    <2>4. CASE \/ JobFails(n) \/ RebootNeeded(n) \/ SwitchDone(n) \/ RebootScheduled(n) \/ NodeDone(n)
               \/ StepWaits(n) \/ DrainFails(n) \/ RebootTimesOut(n) \/ HaltsUnconfirmed(n)
      BY ZenonT(120), <1>2, <2>4 DEF JobFails, RebootNeeded, SwitchDone, RebootScheduled, NodeDone, StepWaits,
         DrainFails, RebootTimesOut, HaltsUnconfirmed, hostVars
    <2>5. CASE StartSwitch(n)
      <3>1. PICK k : k = [JobName(n, "switch") EXCEPT !.generation = pass.docs[pass.of].gen]
        BY ZenonT(120)
      <3>2. /\ k.rollout = pass.of /\ k.node = n /\ k.target = pass.entries[n].target
            /\ k.generation = pass.docs[pass.of].gen
        BY ZenonT(120), <3>1 DEF JobName
      <3>3. Creates(k) /\ pass.at # "next" /\ pass.entries[n].phase = "Pending"
        BY ZenonT(120), <2>0, <2>5, <3>1 DEF StartSwitch, StartsNext, Waiting
      <3> QED BY ZenonT(120), <1>1, <1>4, <3>2, <3>3
    <2> QED BY ZenonT(120), <1>4, <2>1, <2>2, <2>3, <2>4, <2>5 DEF Step, TimesOut
  <1>5. CASE BeginPass \/ (\E r \in Rollouts : Reconcile(r)) \/ Patches \/ ReconcileFails \/ Crash
             \/ \E r \in Rollouts : SpecChanges(r)
    BY ZenonT(120), <1>2, <1>5 DEF BeginPass, Reconcile, Patches, ReconcileFails, Crash, SpecChanges, hostVars
  <1>6. ASSUME NEW r, NEW n, Outside(r, n) \/ NodeReports(n) \/ LeaseRenews(n) PROVE FALSE
    BY ZenonT(120), <1>2, <1>6 DEF Outside, BuildDone, BuildFails, StoreUnreachable, StoreAnswersAgain, StoreGaveUp,
       Builds, NodeReports, LeaseRenews, hostVars
  <1>7. CASE Machines
    BY ZenonT(120), <1>7, MachinesAddNone
  <1>8. CASE UNCHANGED rolloutVars
    BY ZenonT(120), <1>2, <1>8 DEF rolloutVars, hostVars
  <1>9. \E n \in Nodes : IsFor(n)
    <2> HIDE DEF IsFor
    <2> QED BY ZenonT(120), <1>4, <1>5, <1>6, <1>7, <1>8 DEF RolloutNext, Controller, Outside, Machines
  <1> QED BY ZenonT(120), <1>9

\* Jobs are of generations the pass has seen.
LEMMA JobsSeenStep ==
  ASSUME RolloutInv, EntriesAreSteady, JobsAreSeen, [RolloutNext]_rolloutVars
  PROVE  JobsAreSeen'
  <1>0. Types /\ DocsAreSpecs /\ GenerationsAreSeen /\ PassOK /\ SpecsOK /\ JobsOK
    BY ZenonT(120), TypesAre DEF RolloutInv
  <1> SUFFICES ASSUME NEW j \in DOMAIN jobs', NEW r, r = j.rollout
               PROVE  /\ j.generation <= spec'[r].gen
                      /\ Waits(r)' => j.generation <= pass'.docs[r].gen
                      /\ j.generation = spec'[r].gen => j.target = spec'[r].body.systems[j.node]
    BY ZenonT(120) DEF JobsAreSeen, Waits
  <1>1. CASE j \in DOMAIN jobs
    <2>0. /\ r \in Rollouts /\ j.generation \in Nat /\ j.generation <= spec[r].gen /\ spec[r].gen \in Nat
          /\ Waits(r) => j.generation <= pass.docs[r].gen
          /\ j.generation = spec[r].gen => j.target = spec[r].body.systems[j.node]
      <3>1. j.generation \in 1..MaxGen /\ r \in Rollouts
        BY ZenonT(120), <1>0, <1>1 DEF JobsOK, JobNames
      <3>2. j.generation \in Nat
        BY SMTT(120), <3>1, RolloutAssumption
      <3> QED BY ZenonT(120), <1>0, <1>1, <3>1, <3>2, Numbers DEF JobsAreSeen
    <2>1. /\ j.generation <= spec'[r].gen
          /\ j.generation = spec'[r].gen => j.target = spec'[r].body.systems[j.node]
      <3>1. CASE UNCHANGED spec
        BY ZenonT(120), <2>0, <3>1
      <3>2. ASSUME NEW s \in Rollouts, SpecChanges(s)
            PROVE  /\ j.generation <= spec'[r].gen
                   /\ j.generation = spec'[r].gen => j.target = spec'[r].body.systems[j.node]
        <4>1. spec'[s].gen = spec[s].gen + 1 /\ (r # s => spec'[r] = spec[r])
          BY ZenonT(120), <1>0, <2>0, <3>2, ChangesSay
        <4>2. CASE r # s
          BY ZenonT(120), <2>0, <4>1, <4>2
        <4>3. CASE r = s
          BY SMTT(120), <2>0, <4>1, <4>3
        <4> QED BY ZenonT(120), <4>2, <4>3
      <3>3. Saves => UNCHANGED spec
        BY ZenonT(120) DEF Saves, Ends
      <3> QED BY ZenonT(120), <1>0, <3>1, <3>2, <3>3, Kinds, KindsKeep
    <2>2. ASSUME Waits(r)' PROVE j.generation <= pass'.docs[r].gen
      <3>1. CASE Begins
        BY ZenonT(120), <2>0, <3>1 DEF Begins
      <3>2. CASE Waits(r) /\ pass'.docs[r] = pass.docs[r]
        BY ZenonT(120), <2>0, <3>2
      <3>3. Saves \/ Drops => Ends
        BY ZenonT(120) DEF Saves, Drops
      <3>4. \A s \in Rollouts : SpecChanges(s) => UNCHANGED pass
        BY ZenonT(120) DEF SpecChanges
      <3> QED BY ZenonT(120), <1>0, <2>0, <2>2, <3>1, <3>2, <3>3, <3>4, Kinds, StepSays, WaitsStep
    <2> QED BY ZenonT(120), <2>1, <2>2
  <1>2. CASE j \notin DOMAIN jobs
    <2>1. PICK n \in Nodes :
            /\ Step(n) /\ pass.at # "next" /\ j.rollout = pass.of /\ j.node = n
            /\ j.target = pass.entries[n].target
            /\ \/ pass.entries[n].phase \in InFlight /\ j.generation = pass.entries[n].generation
               \/ pass.entries[n].phase = "Pending" /\ j.generation = pass.docs[pass.of].gen
      BY ZenonT(120), <1>2, NewJobs
    <2>2. UNCHANGED spec /\ pass'.docs = pass.docs /\ r \in Rollouts /\ Waits(r) /\ r = pass.of
      BY ZenonT(120), <1>0, <2>1, StepSays, StepPass DEF PassOK, Waits
    <2>3. /\ pass.docs[r].gen \in Nat /\ pass.entries[n].generation \in Nat /\ spec[r].gen \in Nat
          /\ pass.docs[r].gen <= spec[r].gen /\ pass.entries[n].generation <= pass.docs[r].gen
      BY ZenonT(120), <1>0, <2>1, <2>2, Numbers DEF DocsAreSpecs, GenerationsAreSeen
    <2>4. j.generation <= pass.docs[r].gen /\ j.generation <= spec[r].gen /\ j.generation \in Nat
      BY SMTT(120), <2>1, <2>2, <2>3
    <2>5. ASSUME j.generation = spec[r].gen PROVE j.target = spec[r].body.systems[n]
      <3>1. pass.docs[r].gen = spec[r].gen
        BY SMTT(120), <2>3, <2>4, <2>5
      <3>2. Steady(pass.entries[n], spec[r], n)
        BY ZenonT(120), <2>1, <2>2, <3>1 DEF EntriesAreSteady, WorksFor
      <3>3. \A a \in InFlight : a \notin {"Done", "Pending", "None"}
        BY ZenonT(120) DEF InFlight
      <3>4. "Pending" \notin Started
        BY ZenonT(120) DEF Started, InFlight
      <3> QED BY ZenonT(120), <2>1, <3>2, <3>3, <3>4 DEF Steady
    <2> QED BY ZenonT(120), <2>1, <2>2, <2>4, <2>5
  <1> QED BY ZenonT(120), <1>1, <1>2

\* plan puts no idle node in flight.
LEMMA IdlePlan ==
  ASSUME NEW doc \in Doc, NEW n \in Nodes, NEW e, EntryOK(e), e.generation <= doc.gen, e.phase \notin InFlight
  PROVE  PlanOf(e, doc, n).phase \notin InFlight
  <1>1. FliesFor(e, doc, n)
    BY ZenonT(120) DEF FliesFor
  <1>2. PlanIsSteady(PlanOf(e, doc, n), e, doc, n)
    BY ZenonT(120), <1>1, PlanSteady
  <1> QED BY ZenonT(120), <1>2 DEF PlanIsSteady

\* The nodes with a live Job of the spec's generation.
Live(r, action) ==
    {n \in Nodes : \E j \in DOMAIN jobs :
        /\ j.rollout = r /\ j.node = n /\ j.generation = spec[r].gen /\ j.action = action
        /\ jobs[j].state = "Active"}

\* What a step makes of a node in flight, from phase a to phase b.
Lands(n, a, b, sw, bo, di, sw2, bo2, di2) ==
    /\ sw2 \subseteq sw
    /\ \/ a = "Draining" /\ b = "Booting" /\ bo2 \subseteq bo \cup {n} /\ di2 \subseteq di
       \/ a \in {"Rebooting", "Confirming"} /\ b = "Disarming" /\ bo2 \subseteq bo /\ di2 \subseteq di \cup {n}
       \/ /\ bo2 \subseteq bo /\ di2 \subseteq di
          /\ \/ a \in {"Rebooting", "Confirming", "Reverted"} /\ b = "Reverted"
             \/ a = "Switching" /\ n \notin sw /\ b \in {"Reverted", "Draining", "Confirming"}
             \/ a = "Booting" /\ n \notin bo /\ b \in {"Reverted", "Rebooting"}
             \/ a = "Disarming" /\ n \notin di /\ b \in {"Reverted", "Done"}
             \/ a = "Draining" /\ b = "DrainFailed"
             \/ a \in InFlight /\ b = a /\ (a = "Disarming" => n \in di)

\* The Jobs of a rollout that a pass does not work for, or that works on an
\* old spec, become no more.
LEMMA LiveShrinks ==
  ASSUME RolloutInv, JobsAreSeen, [RolloutNext]_rolloutVars, NEW r \in Rollouts, NEW a,
         ~WorksFor(r) \/ \A n \in Nodes : ~Step(n), spec'[r] = spec[r]
  PROVE  Live(r, a)' \subseteq Live(r, a)
  <1>0. Types /\ DocsAreSpecs /\ GenerationsAreSeen
    BY ZenonT(120) DEF RolloutInv
  <1> SUFFICES ASSUME NEW n \in Nodes, NEW j \in DOMAIN jobs', j.rollout = r, j.node = n,
                      j.generation = spec'[r].gen, j.action = a, jobs'[j].state = "Active"
               PROVE  n \in Live(r, a)
    BY ZenonT(120) DEF Live
  <1>1. CASE j \in DOMAIN jobs
    <2>1. jobs[j].state = "Active"
      BY ZenonT(120), <1>1, EndedStays
    <2> QED BY ZenonT(120), <1>1, <2>1 DEF Live
  <1>2. CASE j \notin DOMAIN jobs
    <2>1. PICK m \in Nodes :
            /\ Step(m) /\ pass.at # "next" /\ j.rollout = pass.of /\ j.node = m
            /\ \/ j.generation = pass.entries[m].generation
               \/ j.generation = pass.docs[pass.of].gen
      BY ZenonT(120), <1>2, NewJobs
    <2>2. Waits(r)
      BY ZenonT(120), <2>1 DEF Waits
    <2>3. /\ pass.docs[r].gen \in Nat /\ pass.entries[m].generation \in Nat /\ spec[r].gen \in Nat
          /\ pass.docs[r].gen <= spec[r].gen /\ pass.entries[m].generation <= pass.docs[r].gen
      BY ZenonT(120), <1>0, <2>1, <2>2, Numbers DEF DocsAreSpecs, GenerationsAreSeen
    <2>4. pass.docs[r].gen = spec[r].gen
      BY SMTT(120), <2>1, <2>3
    <2> QED BY ZenonT(120), <2>1, <2>4 DEF WorksFor
  <1> QED BY ZenonT(120), <1>1, <1>2

\* A node in flight waits for a live Job just if it has one.
LEMMA LiveIsJob ==
  ASSUME RolloutInv, EntriesAreSteady, JobsAreSeen, NEW r \in Rollouts, WorksFor(r), NEW n \in Nodes,
         NEW a, JobName(n, a) = Job(n), pass.entries[n].phase \in InFlight
  PROVE  n \in Live(r, a) <=> Job(n) \in DOMAIN jobs /\ jobs[Job(n)].state = "Active"
  <1>0. PICK k : k = Job(n)
    BY ZenonT(120)
  <1>1. /\ k = [rollout |-> pass.of, node |-> n, action |-> a, target |-> pass.entries[n].target,
                generation |-> pass.entries[n].generation]
        /\ pass.of = r
    BY ZenonT(120), <1>0 DEF JobName, WorksFor
  <1>2. pass.entries[n].generation = spec[r].gen /\ pass.entries[n].target = spec[r].body.systems[n]
    <2>1. \A b \in InFlight : b \notin {"Done", "Pending", "None"}
      BY ZenonT(120) DEF InFlight
    <2> QED BY ZenonT(120), <2>1 DEF EntriesAreSteady, Steady
  <1>3. /\ k.rollout = r /\ k.node = n /\ k.action = a /\ k.generation = spec[r].gen
    BY ZenonT(120), <1>1, <1>2
  <1>4. ASSUME NEW j \in DOMAIN jobs, j.rollout = r, j.node = n, j.generation = spec[r].gen, j.action = a
        PROVE  j = k
    <2>1. j \in JobNames
      BY ZenonT(120), <1>4, TypesAre DEF RolloutInv, JobsOK
    <2>2. j = [rollout |-> j.rollout, node |-> j.node, action |-> j.action, target |-> j.target,
               generation |-> j.generation]
      BY ZenonT(120), <2>1 DEF JobNames
    <2>3. j.target = spec[r].body.systems[n]
      BY ZenonT(120), <1>4 DEF JobsAreSeen
    <2> QED BY ZenonT(120), <1>1, <1>2, <1>4, <2>2, <2>3
  <1> QED BY ZenonT(120), <1>0, <1>3, <1>4 DEF Live

\* One more Job.
LEMMA LiveGrows ==
  ASSUME NEW k, Creates(k), UNCHANGED spec, NEW r, NEW a
  PROVE  /\ Live(r, a)' \subseteq Live(r, a) \cup {k.node}
         /\ k.action # a => Live(r, a)' \subseteq Live(r, a)
  <1>1. ASSUME NEW j \in DOMAIN jobs', j # k PROVE j \in DOMAIN jobs /\ jobs'[j] = jobs[j]
    BY ZenonT(120), <1>1 DEF Creates
  <1> QED BY ZenonT(120), <1>1 DEF Live

\* A step changes the phase of node n to b, and no other entry.
Turns(n, b) ==
    /\ pass'.entries[n].phase = b
    /\ \A m \in Nodes \ {n} : pass'.entries[m] = pass.entries[m]

LEMMA BecomesTurn ==
  ASSUME PassOK, pass.at # "next", NEW n \in Nodes
  PROVE  /\ \A e : Becomes(n, e) => Turns(n, e.phase) /\ pass'.left = pass.left \ {n}
         /\ \A b : Moves(n, b) => Turns(n, b) /\ pass'.left = pass.left \ {n}
  <1>0. pass.entries \in [Nodes -> Entry]
    BY ZenonT(120) DEF PassOK
  <1>1. ASSUME NEW e, Becomes(n, e) PROVE Turns(n, e.phase) /\ pass'.left = pass.left \ {n}
    <2>1. PassGoes(n, e, "step", pass.left \ {n})
      BY ZenonT(120), <1>1, BecomesSays
    <2>2. pass'.entries = [pass.entries EXCEPT ![n] = e] /\ pass'.left = pass.left \ {n}
      BY ZenonT(120), <2>1 DEF PassGoes
    <2> QED BY ZenonT(120), <1>0, <2>2 DEF Turns
  <1>2. ASSUME NEW b, Moves(n, b) PROVE Turns(n, b) /\ pass'.left = pass.left \ {n}
    <2>1. PICK e : e = [pass.entries[n] EXCEPT !.phase = b]
      BY ZenonT(120)
    <2>2. e.phase = b
      BY ZenonT(120), <1>0, <2>1 DEF Entry
    <2> QED BY ZenonT(120), <1>1, <1>2, <2>1, <2>2 DEF Moves
  <1> QED BY ZenonT(120), <1>1, <1>2

\* What a step makes of a node in flight, and of the live Jobs.
LEMMA StepLands ==
  ASSUME RolloutInv, EntriesAreSteady, JobsAreSeen, NEW r \in Rollouts, WorksFor(r),
         NEW n \in Nodes, Step(n), ~StartSwitch(n)
  PROVE  /\ n \in pass.left /\ (pass'.left = pass.left \/ pass'.left = pass.left \ {n})
         /\ \E b : /\ Turns(n, b)
                   /\ Lands(n, pass.entries[n].phase, b, Live(r, "switch"), Live(r, "boot"), Live(r, "disarm"),
                            Live(r, "switch")', Live(r, "boot")', Live(r, "disarm")')
  <1>0. Types /\ PassOK /\ pass.at # "next" /\ UNCHANGED spec
    BY ZenonT(120), TypesAre, StepSays DEF RolloutInv, WorksFor
  <1>e. pass.entries[n] \in Entry
    BY ZenonT(120), <1>0 DEF PassOK
  <1>s. PICK sw : sw = Live(r, "switch")
    BY ZenonT(120)
  <1>b. PICK bo : bo = Live(r, "boot")
    BY ZenonT(120)
  <1>d. PICK di : di = Live(r, "disarm")
    BY ZenonT(120)
  <1>s2. PICK sw2 : sw2 = Live(r, "switch")'
    BY ZenonT(120)
  <1>b2. PICK bo2 : bo2 = Live(r, "boot")'
    BY ZenonT(120)
  <1>d2. PICK di2 : di2 = Live(r, "disarm")'
    BY ZenonT(120)
  <1>x. PICK a : a = pass.entries[n].phase
    BY ZenonT(120)
  <1> DEFINE Left == n \in pass.left /\ (pass'.left = pass.left \/ pass'.left = pass.left \ {n})
             Goal == Left /\ \E b : Turns(n, b) /\ Lands(n, a, b, sw, bo, di, sw2, bo2, di2)
  <1> SUFFICES Goal
    BY ZenonT(120), <1>s, <1>b, <1>d, <1>s2, <1>b2, <1>d2, <1>x
  <1>1. UNCHANGED jobs => sw2 \subseteq sw /\ bo2 \subseteq bo /\ di2 \subseteq di
    BY ZenonT(120), <1>0, <1>s, <1>b, <1>d, <1>s2, <1>b2, <1>d2 DEF Live
  <1>2. ASSUME NEW c, Creates(JobName(n, c))
        PROVE  /\ c # "switch" => sw2 \subseteq sw
               /\ c # "boot" => bo2 \subseteq bo
               /\ c # "disarm" => di2 \subseteq di
               /\ bo2 \subseteq bo \cup {n} /\ di2 \subseteq di \cup {n}
    <2>1. PICK k : k = JobName(n, c)
      BY ZenonT(120)
    <2>2. k.node = n /\ k.action = c /\ Creates(k)
      BY ZenonT(120), <1>2, <2>1 DEF JobName
    <2> QED BY ZenonT(120), <1>0, <1>s, <1>b, <1>d, <1>s2, <1>b2, <1>d2, <2>2, LiveGrows
  <1>3. ASSUME NEW b, Moves(n, b) PROVE Turns(n, b) /\ pass'.left = pass.left \ {n}
    BY ZenonT(120), <1>0, <1>3, BecomesTurn
  <1>4. ASSUME NEW b, Steps(n, b) PROVE n \in pass.left /\ a = b
    BY ZenonT(120), <1>4, <1>x DEF Steps
  <1>5. ASSUME a \in HasJob, n \in pass.left
        PROVE  /\ a = "Switching" => (n \in sw <=> Job(n) \in DOMAIN jobs /\ jobs[Job(n)].state = "Active")
               /\ a = "Booting" => (n \in bo <=> Job(n) \in DOMAIN jobs /\ jobs[Job(n)].state = "Active")
               /\ a = "Disarming" => (n \in di <=> Job(n) \in DOMAIN jobs /\ jobs[Job(n)].state = "Active")
    <2>1. pass.entries[n].phase \in InFlight
      BY ZenonT(120), <1>5, <1>x DEF HasJob, InFlight
    <2>2. /\ a = "Switching" => JobName(n, "switch") = Job(n)
          /\ a = "Booting" => JobName(n, "boot") = Job(n)
          /\ a = "Disarming" => JobName(n, "disarm") = Job(n)
      BY ZenonT(120), <1>x DEF Job
    <2> QED BY ZenonT(120), <1>s, <1>b, <1>d, <2>1, <2>2, LiveIsJob
  <1>6. CASE DrainEnds(n)
    <2>1. Creates(JobName(n, "boot")) /\ Steps(n, "Draining") /\ Moves(n, "Booting")
      BY ZenonT(120), <1>6 DEF DrainEnds
    <2>2. sw2 \subseteq sw /\ bo2 \subseteq bo \cup {n} /\ di2 \subseteq di
      BY SMTT(120), <1>2, <2>1
    <2> QED BY ZenonT(120), <1>3, <1>4, <2>1, <2>2 DEF Lands
  <1>7. CASE Confirms(n)
    <2>1. /\ Creates(JobName(n, "disarm")) /\ Moves(n, "Disarming")
          /\ Steps(n, "Rebooting") \/ Steps(n, "Confirming")
      BY ZenonT(120), <1>7 DEF Confirms
    <2>2. sw2 \subseteq sw /\ bo2 \subseteq bo /\ di2 \subseteq di \cup {n}
      BY SMTT(120), <1>2, <2>1
    <2> QED BY ZenonT(120), <1>3, <1>4, <2>1, <2>2 DEF Lands
  <1>8. CASE ConfirmTimesOut(n)
    <2>1. Creates(JobName(n, "revert")) /\ Steps(n, "Confirming")
      BY ZenonT(120), <1>8 DEF ConfirmTimesOut
    <2>2. sw2 \subseteq sw /\ bo2 \subseteq bo /\ di2 \subseteq di
      BY SMTT(120), <1>2, <2>1
    <2>3. Turns(n, "Reverted") /\ pass'.left = pass.left
      <3>1. pass' = [pass EXCEPT !.at = "halt", !.entries[n].phase = "Reverted"]
        BY ZenonT(120), <1>8 DEF ConfirmTimesOut
      <3>2. pass.entries \in [Nodes -> Entry]
        BY ZenonT(120), <1>0 DEF PassOK
      <3>3. pass'.left = pass.left /\ pass'.entries = [pass.entries EXCEPT ![n].phase = "Reverted"]
        BY ZenonT(120), <1>0, <3>1 DEF PassOK
      <3> QED BY ZenonT(120), <3>2, <3>3 DEF Turns, Entry
    <2> QED BY ZenonT(120), <1>4, <2>1, <2>2, <2>3 DEF Lands
  <1>9. CASE HaltsUnconfirmed(n)
    <2>1. n \in pass.left /\ a = "Reverted" /\ Moves(n, "Reverted") /\ UNCHANGED jobs
      BY ZenonT(120), <1>9, <1>x DEF HaltsUnconfirmed, Halts, hostVars
    <2> QED BY ZenonT(120), <1>1, <1>3, <2>1 DEF Lands
  <1>10. CASE JobFails(n)
    <2>1. PICK phase \in HasJob : Steps(n, phase) /\ (Job(n) \notin DOMAIN jobs \/ JobIs(n, phase, "Failed"))
      BY ZenonT(120), <1>10 DEF JobFails
    <2>2. Moves(n, "Reverted") /\ UNCHANGED jobs
      BY ZenonT(120), <1>10 DEF JobFails, Halts, hostVars
    <2>3. ~(Job(n) \in DOMAIN jobs /\ jobs[Job(n)].state = "Active") /\ a \in HasJob /\ n \in pass.left
      BY ZenonT(120), <1>4, <2>1 DEF JobIs
    <2>4. (a = "Switching" /\ n \notin sw) \/ (a = "Booting" /\ n \notin bo) \/ (a = "Disarming" /\ n \notin di)
      BY ZenonT(120), <1>5, <2>3 DEF HasJob
    <2> QED BY ZenonT(120), <1>1, <1>3, <2>2, <2>3, <2>4 DEF Lands
  <1>11. ASSUME NEW phase \in HasJob, JobIs(n, phase, "Complete")
         PROVE  a = phase /\ n \in pass.left /\ a \in HasJob /\ ~(Job(n) \in DOMAIN jobs /\ jobs[Job(n)].state = "Active")
    BY ZenonT(120), <1>4, <1>11 DEF JobIs
  <1>h. HasJob = {"Switching", "Booting", "Disarming"}
    BY ZenonT(120) DEF HasJob
  <1>12. CASE RebootNeeded(n)
    <2> DEFINE e == [pass.entries[n] EXCEPT !.phase = "Draining", !.drained = TRUE, !.bootID = pass.nodes[n].bootID]
    <2>1. JobIs(n, "Switching", "Complete") /\ Becomes(n, e) /\ UNCHANGED jobs
      BY ZenonT(120), <1>12 DEF RebootNeeded, hostVars
    <2>2. e.phase = "Draining"
      BY ZenonT(120), <1>e DEF Entry
    <2> HIDE DEF e
    <2>3. Turns(n, "Draining") /\ pass'.left = pass.left \ {n}
      BY ZenonT(120), <1>0, <2>1, <2>2, BecomesTurn
    <2>4. a = "Switching" /\ n \notin sw /\ n \in pass.left
      BY ZenonT(120), <1>5, <1>11, <1>h, <2>1
    <2> QED BY ZenonT(120), <1>1, <2>1, <2>3, <2>4 DEF Lands
  <1>13. CASE SwitchDone(n)
    <2>1. JobIs(n, "Switching", "Complete") /\ Moves(n, "Confirming") /\ UNCHANGED jobs
      BY ZenonT(120), <1>13 DEF SwitchDone, hostVars
    <2>2. a = "Switching" /\ n \notin sw /\ n \in pass.left
      BY ZenonT(120), <1>5, <1>11, <1>h, <2>1
    <2> QED BY ZenonT(120), <1>1, <1>3, <2>1, <2>2 DEF Lands
  <1>14. CASE RebootScheduled(n)
    <2>1. JobIs(n, "Booting", "Complete") /\ Moves(n, "Rebooting") /\ UNCHANGED jobs
      BY ZenonT(120), <1>14 DEF RebootScheduled, hostVars
    <2>2. a = "Booting" /\ n \notin bo /\ n \in pass.left
      BY ZenonT(120), <1>5, <1>11, <1>h, <2>1
    <2> QED BY ZenonT(120), <1>1, <1>3, <2>1, <2>2 DEF Lands
  <1>15. CASE NodeDone(n)
    <2> DEFINE e == [pass.entries[n] EXCEPT !.phase = "Done", !.current = pass.entries[n].target,
                                            !.bootID = 0, !.drained = FALSE]
    <2>1. JobIs(n, "Disarming", "Complete") /\ Becomes(n, e) /\ UNCHANGED jobs
      BY ZenonT(120), <1>15 DEF NodeDone, hostVars
    <2>2. e.phase = "Done"
      BY ZenonT(120), <1>e DEF Entry
    <2> HIDE DEF e
    <2>3. Turns(n, "Done") /\ pass'.left = pass.left \ {n}
      BY ZenonT(120), <1>0, <2>1, <2>2, BecomesTurn
    <2>4. a = "Disarming" /\ n \notin di /\ n \in pass.left
      BY ZenonT(120), <1>5, <1>11, <1>h, <2>1
    <2> QED BY ZenonT(120), <1>1, <2>1, <2>3, <2>4 DEF Lands
  <1>16. CASE StepWaits(n)
    <2>1. Becomes(n, pass.entries[n]) /\ UNCHANGED jobs
      BY ZenonT(120), <1>16 DEF StepWaits, hostVars
    <2>2. Turns(n, a) /\ pass'.left = pass.left \ {n}
      BY ZenonT(120), <1>0, <1>x, <2>1, BecomesTurn
    <2>3. /\ n \in pass.left
          /\ \/ a \in {"Draining", "Rebooting", "Confirming"}
             \/ a \in HasJob /\ Job(n) \in DOMAIN jobs /\ jobs[Job(n)].state = "Active"
      <3>1. CASE \E phase \in HasJob : JobIs(n, phase, "Active")
        <4>1. PICK phase \in HasJob : JobIs(n, phase, "Active")
          BY ZenonT(120), <3>1
        <4>2. Steps(n, phase) /\ Job(n) \in DOMAIN jobs /\ jobs[Job(n)].state = "Active"
          BY ZenonT(120), <4>1 DEF JobIs
        <4>3. n \in pass.left /\ a \in HasJob
          BY ZenonT(120), <1>4, <4>1, <4>2
        <4> QED BY ZenonT(120), <4>2, <4>3
      <3>2. CASE \E phase \in {"Draining", "Rebooting", "Confirming"} : Steps(n, phase)
        BY ZenonT(120), <1>4, <3>2
      <3> QED BY ZenonT(120), <1>16, <3>1, <3>2 DEF StepWaits
    <2>4. a \in InFlight
      BY ZenonT(120), <2>3 DEF HasJob, InFlight
    <2>5. a = "Disarming" => n \in di
      BY ZenonT(120), <1>5, <2>3
    <2> QED BY ZenonT(120), <1>1, <2>1, <2>2, <2>3, <2>4, <2>5 DEF Lands
  <1>17. CASE DrainFails(n)
    <2>1. Steps(n, "Draining") /\ Moves(n, "DrainFailed") /\ UNCHANGED jobs
      BY ZenonT(120), <1>17 DEF DrainFails, hostVars
    <2> QED BY ZenonT(120), <1>1, <1>3, <1>4, <2>1 DEF Lands
  <1>18. CASE RebootTimesOut(n)
    <2>1. Steps(n, "Rebooting") /\ Moves(n, "Reverted") /\ UNCHANGED jobs
      BY ZenonT(120), <1>18 DEF RebootTimesOut, Halts, hostVars
    <2> QED BY ZenonT(120), <1>1, <1>3, <1>4, <2>1 DEF Lands
  <1> HIDE DEF Goal
  <1> QED BY ZenonT(120), <1>6, <1>7, <1>8, <1>9, <1>10, <1>12, <1>13, <1>14, <1>15, <1>16, <1>17, <1>18 DEF Step, TimesOut
=============================================================================
