----------------------------- MODULE NixosSwitch -----------------------------
(***************************************************************************)
(* The program of a switch Job (nixkube, nixos_switch.py) and the host it   *)
(* acts on: systemd's revert timer and service, the boot default and the    *)
(* reboot.  Each subprocess the program runs ends a step, so several pods,  *)
(* the timer and a crash of the host interleave at those points.            *)
(*                                                                          *)
(* Time is not modelled: a timer that is armed may fire at any moment.  A   *)
(* pod starts, and its end is reported, only while the kubelet runs.  The   *)
(* kubelet does not run on a system of BadSystems.                          *)
(***************************************************************************)
EXTENDS Naturals, FiniteSets

CONSTANTS
    Nodes,      \* the hosts
    Systems,    \* toplevels
    Kernel,     \* the boot parts of a toplevel: kernel, initrd and modules
    BadSystems, \* toplevels on which the kubelet does not start
    Assessed,   \* the hosts import nixkube.host.bootAssessment
    Faults,     \* what may go wrong on a host: "copy", "switch", "crash", "ttl"
    MaxBoots    \* how often a host boots

ASSUME SwitchAssumption ==
    /\ Nodes \subseteq Nat /\ IsFiniteSet(Nodes)
    /\ BadSystems \subseteq Systems
    /\ Assessed \in BOOLEAN
    /\ MaxBoots \in Nat

VARIABLES
    jobs,  \* the Jobs of the API server, by name
    host   \* what runs on each node

hostVars == <<jobs, host>>

Action == {"switch", "boot", "disarm", "revert"}

\* state: the Job's condition; pc: its pod; previous: what switch read.
JobState == [state : {"Active", "Complete", "Failed"},
             pc : {"new", "begin", "arm", "set", "undo", "undoing", "check", "schedule",
                   "exit0", "exit1"},
             previous : Systems,
             reboot : BOOLEAN]  \* the termination message REBOOT_MESSAGE

HostState == [current : Systems,  \* /run/current-system
              booted : Systems,   \* /run/booted-system
              default : Systems,  \* what the boot loader starts
              timer : BOOLEAN,    \* nixkube-revert.timer is active
              back : Systems,     \* what nixkube-revert.service switches to
              revert : {"no", "timer", "hand"},  \* that service runs, and who started it
              reboot : BOOLEAN,   \* nixkube-reboot is scheduled
              boots : Nat]

NewJob(s) == [state |-> "Active", pc |-> "new", previous |-> s, reboot |-> FALSE]

Up(n) == host[n].current \notin BadSystems

\* A live pod of a Job, at one of its steps.
Runs(j, action, pc) == jobs[j].state = "Active" /\ j.action = action /\ jobs[j].pc = pc
Goes(j, pc) == jobs' = [jobs EXCEPT ![j].pc = pc]
Host(j) == host[j.node]
SameHost == UNCHANGED host

\* Jobs and hosts are set where the controller starts.
SwitchInit(s) ==
    /\ jobs = << >>
    /\ host = [n \in Nodes |-> [current |-> s, booted |-> s, default |-> s, timer |-> FALSE,
                                back |-> s, revert |-> "no", reboot |-> FALSE, boots |-> 0]]

-----------------------------------------------------------------------------
(* main: the pod starts, copies the closures and enters the host.           *)

PodStarts(j) ==
    /\ jobs[j].state = "Active" /\ jobs[j].pc = "new"
    /\ Up(j.node)
    /\ Goes(j, "begin") \/ ("copy" \in Faults /\ Goes(j, "exit1"))
    /\ SameHost

\* The kubelet reports the container's end, and the Job controller the Job's.
PodReports(j) ==
    /\ jobs[j].state = "Active" /\ jobs[j].pc \in {"exit0", "exit1"}
    /\ Up(j.node)
    /\ jobs' = [jobs EXCEPT ![j].state = IF jobs[j].pc = "exit0" THEN "Complete" ELSE "Failed"]
    /\ SameHost

\* Mutant: an armed revert does not stop a second switch.
MayArmAgain(j) == TRUE

\* unit_active(f"{REVERT_UNIT}.timer")
MayArm(j) == ~Host(j).timer

\* switch, until it arms: the running system, an armed revert, the boot parts.
SwitchChecks(j) ==
    /\ Runs(j, "switch", "begin")
    /\ jobs' = [jobs EXCEPT ![j] =
           CASE Host(j).current = j.target -> [@ EXCEPT !.pc = "exit0"]
             [] Host(j).current # j.target /\ ~MayArm(j) -> [@ EXCEPT !.pc = "exit1"]
             [] OTHER ->
                  IF Kernel[Host(j).booted] # Kernel[j.target]
                  THEN [@ EXCEPT !.pc = "exit0", !.reboot = TRUE]
                  ELSE [@ EXCEPT !.pc = "arm", !.previous = Host(j).current]]
    /\ SameHost

\* systemd-run of the timer, which fails while a unit has its name.
SwitchArms(j) ==
    /\ Runs(j, "switch", "arm")
    /\ IF Host(j).timer \/ Host(j).revert # "no" THEN Goes(j, "exit1") /\ SameHost
       ELSE /\ Goes(j, "set")
            /\ host' = [host EXCEPT ![j.node].timer = TRUE, ![j.node].back = jobs[j].previous]

\* nix-env and switch-to-configuration, which sets the boot default before
\* it activates.  A failure of nix-env ends the program, one of
\* switch-to-configuration is undone.
SwitchActivates(j) ==
    /\ Runs(j, "switch", "set")
    /\ \/ /\ Goes(j, "exit0")
          /\ host' = [host EXCEPT ![j.node].current = j.target, ![j.node].default = j.target]
       \/ /\ "switch" \in Faults
          /\ \/ Goes(j, "exit1") /\ SameHost
             \/ Goes(j, "undo") /\ host' = [host EXCEPT ![j.node].default = j.target]
             \/ Goes(j, "undo") /\ host' = [host EXCEPT ![j.node].default = j.target,
                                                        ![j.node].current = j.target]

\* revert: only an armed one.
RevertChecks(j) ==
    /\ Runs(j, "revert", "begin")
    /\ Goes(j, IF Host(j).timer THEN "undo" ELSE "exit1")
    /\ SameHost

\* systemctl start of the revert service, by revert or by a failed switch.
\* The transient service goes with its timer.
StartsRevert(j) ==
    /\ jobs[j].state = "Active" /\ jobs[j].pc = "undo"
    /\ IF ~Host(j).timer /\ Host(j).revert = "no" THEN Goes(j, "exit1") /\ SameHost
       ELSE /\ Goes(j, "undoing")
            /\ host' = [host EXCEPT ![j.node].revert = IF @ = "no" THEN "hand" ELSE @]

\* systemctl start returns when the service ends; then the timer is stopped.
StopsTimer(j) ==
    /\ jobs[j].state = "Active" /\ jobs[j].pc = "undoing"
    /\ Host(j).revert = "no"
    /\ Goes(j, IF j.action = "revert" /\ Host(j).timer THEN "exit0" ELSE "exit1")
    /\ host' = [host EXCEPT ![j.node].timer = FALSE]

-----------------------------------------------------------------------------
(* boot and disarm.                                                         *)

BootSets(j) ==
    /\ Runs(j, "boot", "begin")
    /\ \/ /\ Host(j).booted = j.target
          /\ Goes(j, "exit0") /\ SameHost
       \/ /\ Host(j).booted # j.target
          /\ \/ Goes(j, "schedule") /\ host' = [host EXCEPT ![j.node].default = j.target]
             \/ "switch" \in Faults /\ Goes(j, "exit1") /\ SameHost

BootSchedules(j) ==
    /\ Runs(j, "boot", "schedule")
    /\ IF Host(j).reboot THEN Goes(j, "exit1") /\ SameHost
       ELSE Goes(j, "exit0") /\ host' = [host EXCEPT ![j.node].reboot = TRUE]

\* The timer first: a revert it has started goes on.
DisarmStops(j) ==
    /\ Runs(j, "disarm", "begin")
    /\ Goes(j, "check")
    /\ host' = [host EXCEPT ![j.node].timer = FALSE]

\* Mutant: a revert that runs is not looked at.
IsSwitchedTo(j) == Host(j).current = j.target

\* No revert runs, and the host runs the target.
IsSwitched(j) == Host(j).revert = "no" /\ Host(j).current = j.target

DisarmChecks(j) ==
    /\ Runs(j, "disarm", "check")
    /\ Goes(j, IF IsSwitched(j) THEN "exit0" ELSE "exit1")
    /\ SameHost

-----------------------------------------------------------------------------
(* The host and the API server beside the program.                          *)

\* The revert delay is longer than a switch takes.
Activating(n) == \E j \in DOMAIN jobs : j.node = n /\ Runs(j, "switch", "set")

TimerFires(n) ==
    /\ host[n].timer /\ host[n].revert # "timer"
    /\ ~Activating(n)
    /\ host' = [host EXCEPT ![n].revert = "timer"]
    /\ UNCHANGED jobs

\* nix-env --set previous and its switch-to-configuration.  A timer that
\* has fired is collected with its service.
RevertEnds(n) ==
    /\ host[n].revert # "no"
    /\ LET h == host[n] IN
       host' = [host EXCEPT ![n] = [h EXCEPT !.current = h.back, !.default = h.back,
                   !.revert = "no", !.timer = h.timer /\ h.revert = "hand"]]
    /\ UNCHANGED jobs

\* The scheduled reboot, or a crash.  Timers and running pods go with it.
\* A boot assessment falls back to the last system that was Ready.
HostBoots(n) ==
    /\ host[n].boots < MaxBoots
    /\ host[n].reboot \/ "crash" \in Faults
    /\ LET h == host[n]
           s == IF Assessed /\ h.default \in BadSystems THEN h.booted ELSE h.default IN
       host' = [host EXCEPT ![n] = [h EXCEPT !.current = s, !.booted = s, !.default = s,
                   !.timer = FALSE, !.revert = "no", !.reboot = FALSE, !.boots = @ + 1]]
    /\ jobs' = [j \in DOMAIN jobs |->
                  IF j.node = n /\ jobs[j].state = "Active" /\ jobs[j].pc \notin {"new", "exit0"}
                  THEN [jobs[j] EXCEPT !.pc = "exit1"] ELSE jobs[j]]

\* activeDeadlineSeconds, which only the revert Job has.
DeadlinePasses(j) ==
    /\ jobs[j].state = "Active" /\ j.action = "revert"
    /\ jobs' = [jobs EXCEPT ![j].state = "Failed", ![j].pc = "exit1"]
    /\ SameHost

\* ttlSecondsAfterFinished.
JobExpires(j) ==
    /\ "ttl" \in Faults
    /\ jobs[j].state # "Active"
    /\ jobs' = [i \in DOMAIN jobs \ {j} |-> jobs[i]]
    /\ SameHost

PodStep(j) ==
    \/ PodStarts(j) \/ PodReports(j)
    \/ SwitchChecks(j) \/ SwitchArms(j) \/ SwitchActivates(j)
    \/ RevertChecks(j) \/ StartsRevert(j) \/ StopsTimer(j)
    \/ BootSets(j) \/ BootSchedules(j)
    \/ DisarmStops(j) \/ DisarmChecks(j)

HostStep(n) == TimerFires(n) \/ RevertEnds(n) \/ HostBoots(n)
=============================================================================
