---------------------------- MODULE GoalRequests ----------------------------
(***************************************************************************)
(* The callers of the build queue.  A goal request (goals/engine.py,        *)
(* goals/requests.py) runs one BuildDerivationGoal per derivation it needs, *)
(* answers, lets go of its builds and reaps its goals; the op 36 handler    *)
(* (handlers/build_derivation.py) enqueues, streams and waits on its own.   *)
(*                                                                          *)
(* Each await of a goal, a request or a handler ends a step, so all of them *)
(* interleave.  Each request and each handler has a client connection of    *)
(* its own.  A cancelled goal takes no step: the finally of its wait asks   *)
(* for a lock, which raises in a cancelled scope.  The stores are reduced   *)
(* to a worker that starts, logs and answers.                               *)
(***************************************************************************)
EXTENDS BuildQueue

CONSTANTS
    Owner,     \* the client of each request
    Roots,     \* the derivations each request names
    Needs,     \* the input derivations of each derivation
    OpKey,     \* the derivation of each op 36 handler, by its client
    Impatient, \* clients that may hang up
    Stalled,   \* clients that may stop reading
    Broken,    \* clients whose socket may fail a write
    Cached,    \* derivations whose outputs may be valid or substituted
    Fallible   \* derivations whose build may fail

OpClient == DOMAIN OpKey

ASSUME GoalAssumption ==
    /\ Owner \in [Request -> Client]
    /\ \A r, q \in Request : Owner[r] = Owner[q] => r = q
    /\ OpClient \subseteq Client \ {Owner[r] : r \in Request}
    /\ Roots \in [Request -> SUBSET Key]
    /\ Needs \in [Key -> SUBSET Key]
    /\ OpKey \in [OpClient -> Key]
    /\ Impatient \subseteq Client /\ Stalled \subseteq Client /\ Broken \subseteq Client
    /\ Cached \subseteq Key /\ Fallible \subseteq Key

VARIABLES
    req,    \* where each request is
    goal,   \* the goal of each request and derivation
    op,     \* the op 36 handler of each client
    silent  \* builds cancelled without a message: their goals are abandoned

goalVars == <<req, goal, op, silent>>
everything == <<vars, goalVars>>

GoalState == [at : {"none", "preparing", "inputs", "subscribing", "writing", "waiting",
                    "leaving", "done", "dead"},
              build : BuildId \cup {0},    \* _build_id
              listens : BOOLEAN,           \* the client is in a subscriber list
              result : {"success", "failure", "abandoned", None},
              cause : Key \cup {None},     \* failing_derivation
              root : {"open", "reported", "skipped", "left"}]  \* as a root of the request

GoalTypeOK ==
    /\ TypeOK
    /\ req \in [Request -> {"new", "running", "stopping", "answered", "released", "ended"}]
    /\ goal \in [Request -> [Key -> GoalState]]
    /\ op \in [OpClient -> [at : {"new", "subscribing", "writing", "waiting", "leaving",
                                  "pruning", "ended"},
                            build : BuildId \cup {0}]]
    /\ silent \subseteq BuildId

NoGoal == [at |-> "none", build |-> 0, listens |-> FALSE, result |-> None, cause |-> None,
           root |-> "open"]

GoalInit ==
    /\ Init
    /\ req = [r \in Request |-> "new"]
    /\ goal = [r \in Request |-> [k \in Key |-> NoGoal]]
    /\ op = [c \in OpClient |-> [at |-> "new", build |-> 0]]
    /\ silent = {}

Moves(r, k, at) == goal' = [goal EXCEPT ![r][k].at = at]
OpMoves(c, at) == op' = [op EXCEPT ![c].at = at]

\* queue.subscribe until it writes, and queue.unsubscribe, for any build id.
SubscribesAtOnce(b, c) ==
    SubscribeSilently(b, c) \/ (lock = None /\ b \notin by_id /\ UNCHANGED vars)

\* The connection breaks in the replay.  Without a log there is only the
\* waiting activity, which ignores the error.
ReplayFails(c) == c \in Broken /\ logged[lock[1]]

\* Mutant: a build that is done is not looked at.
UnsubscribesRunning(b, c) ==
    IF b \in by_id /\ Refers(b, c) /\ ~IsDone(b) THEN Unsubscribe(b, c)
    ELSE lock = None /\ UNCHANGED vars

\* Mutant: the build of the last subscriber runs on.
UnsubscribesQuietly(b, c) ==
    /\ lock = None
    /\ subs' = IF b \in by_id /\ Refers(b, c) THEN [subs EXCEPT ![b][c] = @ - 1] ELSE subs
    /\ UNCHANGED <<queueVars, buildVars, lock, client_bound, logged, workerVars>>

Unsubscribes(b, c) ==
    IF b \in by_id /\ Refers(b, c) THEN Unsubscribe(b, c) ELSE lock = None /\ UNCHANGED vars

\* Mutant: a cancelled write keeps the lock.
KeepsLock(c) == lock

\* A write under the lock ends with its task.
FreesLock(c) == IF lock # None /\ lock[2] = c THEN None ELSE lock

-----------------------------------------------------------------------------
(* BuildDerivationGoal, with the part of EnsureDerivedPathGoal around it.   *)

\* A goal that takes the client's subscription with it when it starts.
NewGoal(listens) == [NoGoal EXCEPT !.at = "preparing", !.listens = listens]

\* The outputs are valid already, or substituted.
GoalFindsOutputs(r, k) ==
    /\ goal[r][k].at = "preparing"
    /\ k \in Cached
    /\ goal' = [goal EXCEPT ![r][k].at = "done", ![r][k].result = "success"]
    /\ UNCHANGED <<vars, req, op, silent>>

\* _realise_input_derivations: the client watches each input as well.
GoalRealisesInputs(r, k) ==
    /\ goal[r][k].at = "preparing"
    /\ goal' = [goal EXCEPT ![r] = [i \in Key |->
                   CASE i = k -> [goal[r][k] EXCEPT !.at = "inputs"]
                     [] i \in Needs[k] /\ goal[r][i].at = "none" -> NewGoal(goal[r][k].listens)
                     [] OTHER -> goal[r][i]]]
    /\ UNCHANGED <<vars, req, op, silent>>

InputsDone(r, k) == goal[r][k].at = "inputs" /\ \A i \in Needs[k] : goal[r][i].at = "done"

\* _refuse_a_failed_input: an abandoned input is a failed one.
GoalRefuses(r, k) ==
    /\ InputsDone(r, k)
    /\ \E i \in Needs[k] :
        /\ goal[r][i].result # "success"
        /\ goal' = [goal EXCEPT ![r][k].at = "done", ![r][k].result = "failure",
                                ![r][k].cause = goal[r][i].cause]
    /\ UNCHANGED <<vars, req, op, silent>>

\* scheduler.build_derivation, and then _build_id and the subscribers.
GoalEnqueues(r, k) ==
    /\ InputsDone(r, k)
    /\ \A i \in Needs[k] : goal[r][i].result = "success"
    /\ Enqueue(k, r, FALSE)
    /\ goal' = [goal EXCEPT ![r][k].at = IF goal[r][k].listens THEN "subscribing" ELSE "waiting",
                            ![r][k].build = by_path'[k]]
    /\ UNCHANGED <<req, op, silent>>

GoalSubscribes(r, k) ==
    /\ goal[r][k].at = "subscribing"
    /\ \/ SubscribesAtOnce(goal[r][k].build, Owner[r]) /\ Moves(r, k, "waiting")
       \/ SubscribeWrites(goal[r][k].build, Owner[r]) /\ Moves(r, k, "writing")
    /\ UNCHANGED <<req, op, silent>>

GoalSubscribed(r, k, ok) ==
    /\ goal[r][k].at = "writing"
    /\ ok \/ ReplayFails(Owner[r])
    /\ SubscribeEnds(ok)
    /\ Moves(r, k, "waiting")
    /\ UNCHANGED <<req, op, silent>>

\* What the goal reads from the answer of its build.
ResultOf(b) ==
    CASE answer[b] = "success" -> "success"
      [] b \in silent          -> "abandoned"
      [] OTHER                 -> "failure"

\* The answer came; the finally of the wait takes the subscribers' list.
GoalWakes(r, k) ==
    /\ goal[r][k].at = "waiting"
    /\ IsDone(goal[r][k].build)
    /\ goal' = [goal EXCEPT ![r][k].at = IF goal[r][k].listens THEN "leaving" ELSE "done",
                            ![r][k].listens = FALSE,
                            ![r][k].result = ResultOf(goal[r][k].build),
                            ![r][k].cause = IF ResultOf(goal[r][k].build) = "success" THEN None ELSE k]
    /\ UNCHANGED <<vars, req, op, silent>>

GoalLeaves(r, k) ==
    /\ goal[r][k].at = "leaving"
    /\ Unsubscribes(goal[r][k].build, Owner[r])
    /\ Moves(r, k, "done")
    /\ UNCHANGED <<req, op, silent>>

-----------------------------------------------------------------------------
(* A request: BuildPathsWithResultsGoal and GoalEngine.                     *)

RequestStarts(r) ==
    /\ req[r] = "new"
    /\ req' = [req EXCEPT ![r] = "running"]
    /\ goal' = [goal EXCEPT ![r] = [k \in Key |-> IF k \in Roots[r] THEN NewGoal(TRUE) ELSE NoGoal]]
    /\ UNCHANGED <<vars, op, silent>>

\* An abandoned root, and one that another root answers for, report nothing.
Skips(r, k) ==
    \/ goal[r][k].result = "abandoned"
    \/ /\ goal[r][k].result = "failure"
       /\ r \notin KeepsGoing
       /\ goal[r][k].cause \in Roots[r] \ {k}

\* A root is done.  The first failure stops a request without keep-going.
RootReports(r, k) ==
    /\ req[r] \in {"running", "stopping"}
    /\ k \in Roots[r]
    /\ goal[r][k].at = "done" /\ goal[r][k].root = "open"
    /\ goal' = [goal EXCEPT ![r][k].root = IF Skips(r, k) THEN "skipped" ELSE "reported"]
    /\ req' = IF goal[r][k].result = "failure" /\ ~Skips(r, k) /\ r \notin KeepsGoing
              THEN [req EXCEPT ![r] = "stopping"] ELSE req
    /\ UNCHANGED <<vars, op, silent>>

\* Mutant: the goal forgets nothing, and subscribes the client later.
KeepsListening(r, k) == goal[r][k].listens

\* unsubscribe takes the client out of both lists of the goal.
StopsListening(r, k) == FALSE

\* The request stopped and leaves a root: goal.unsubscribe.  The goal's own
\* subscribe, once asked for, is before it in the FIFO of the lock.
RequestLeaves(r, k) ==
    /\ req[r] = "stopping"
    /\ k \in Roots[r]
    /\ goal[r][k].root = "open"
    /\ goal[r][k].at \notin {"subscribing", "writing"}
    /\ Unsubscribes(goal[r][k].build, Owner[r])
    /\ goal' = [goal EXCEPT ![r][k].root = "left", ![r][k].listens = StopsListening(r, k)]
    /\ UNCHANGED <<req, op, silent>>

RequestAnswers(r) ==
    /\ req[r] \in {"running", "stopping"}
    /\ \A k \in Roots[r] : goal[r][k].root # "open"
    /\ req' = [req EXCEPT ![r] = "answered"]
    /\ UNCHANGED <<vars, goal, op, silent>>

\* Every goal that is not done is cancelled.
Reaped(r) ==
    [k \in Key |-> IF goal[r][k].at \in {"none", "done"} THEN goal[r][k]
                   ELSE [goal[r][k] EXCEPT !.at = "dead"]]

\* The client hangs up: the session's scope cancels the request and, inside
\* it, the goals.
HangsUp(r) ==
    /\ Owner[r] \in Impatient
    /\ req[r] \in {"running", "stopping"}
    /\ req' = [req EXCEPT ![r] = "answered"]
    /\ goal' = [goal EXCEPT ![r] = Reaped(r)]
    /\ lock' = FreesLock(Owner[r])
    /\ UNCHANGED <<queueVars, buildVars, subs, client_bound, logged, workerVars, op, silent>>

\* let_go_of_every_build, shielded, ...
RequestReleases(r) ==
    /\ req[r] = "answered"
    /\ ReleaseRequest(r)
    /\ req' = [req EXCEPT ![r] = "released"]
    /\ UNCHANGED <<goal, op, silent>>

\* ... its prune, and reap right after it.
RequestReaps(r) ==
    /\ req[r] = "released"
    /\ PruneAfterRelease(r)
    /\ req' = [req EXCEPT ![r] = "ended"]
    /\ goal' = [goal EXCEPT ![r] = Reaped(r)]
    /\ UNCHANGED <<op, silent>>

-----------------------------------------------------------------------------
(* The op 36 handler.                                                       *)

OpEnqueues(c) ==
    /\ op[c].at = "new"
    /\ Enqueue(OpKey[c], None, FALSE)
    /\ op' = [op EXCEPT ![c] = [at |-> "subscribing", build |-> by_path'[OpKey[c]]]]
    /\ UNCHANGED <<req, goal, silent>>

OpSubscribes(c) ==
    /\ op[c].at = "subscribing"
    /\ \/ SubscribesAtOnce(op[c].build, c) /\ OpMoves(c, "waiting")
       \/ SubscribeWrites(op[c].build, c) /\ OpMoves(c, "writing")
    /\ UNCHANGED <<req, goal, silent>>

OpSubscribed(c, ok) ==
    /\ op[c].at = "writing"
    /\ ok \/ ReplayFails(c)
    /\ SubscribeEnds(ok)
    /\ OpMoves(c, "waiting")
    /\ UNCHANGED <<req, goal, silent>>

\* The answer came, or the client hung up: the finally, shielded.
OpStopsWaiting(c) ==
    /\ op[c].at = "waiting"
    /\ IsDone(op[c].build) \/ c \in Impatient
    /\ OpMoves(c, "leaving")
    /\ UNCHANGED <<vars, req, goal, silent>>

OpLeaves(c) ==
    /\ op[c].at = "leaving"
    /\ Unsubscribes(op[c].build, c)
    /\ OpMoves(c, "pruning")
    /\ UNCHANGED <<req, goal, silent>>

\* A hang-up before the try: nothing is given back.
OpVanishes(c) ==
    /\ c \in Impatient
    /\ op[c].at \in {"subscribing", "writing"}
    /\ lock' = FreesLock(c)
    /\ OpMoves(c, "ended")
    /\ UNCHANGED <<queueVars, buildVars, subs, client_bound, logged, workerVars, req, goal, silent>>

OpPrunes(c) ==
    /\ op[c].at = "pruning"
    /\ PruneAfterStandalone
    /\ OpMoves(c, "ended")
    /\ UNCHANGED <<req, goal, silent>>

-----------------------------------------------------------------------------
(* The scheduler and the stores, reduced to one worker per build.           *)

BuildStarts(b) ==
    /\ b \in by_id
    /\ ~IsDone(b)
    /\ SpawnWorker(b, LocalStore)
    /\ UNCHANGED goalVars

BuildLogs(b) == ~IsDone(b) /\ PostLog(b) /\ UNCHANGED goalVars

BuildEnds(b, outcome) ==
    /\ IsBuilding(b)
    /\ outcome = "failure" => key[b] \in Fallible
    /\ Complete(b, outcome)
    /\ UNCHANGED goalVars

\* A pass of the scheduler finds a build unwanted before it starts it.
SchedulerDecides(b) ==
    /\ ~IsDone(b) /\ ~IsBuilding(b)
    /\ DecideUnwanted(b)
    /\ UNCHANGED goalVars

SchedulerCancels(b) ==
    /\ CancelUnwanted(b)
    /\ silent' = IF b \in by_id /\ ~IsDone(b) THEN silent \cup {b} ELSE silent
    /\ UNCHANGED <<req, goal, op>>

\* A log line to a client whose socket failed, before its hang-up is seen.
ClientIsDropped(b, c) ==
    /\ c \in Broken
    /\ IsBuilding(b) /\ ~IsDone(b)
    /\ DropDeadSubscriber(b, c)
    /\ UNCHANGED goalVars

-----------------------------------------------------------------------------
GoalSteps(r, k) ==
    \/ GoalFindsOutputs(r, k)
    \/ GoalRealisesInputs(r, k)
    \/ GoalRefuses(r, k)
    \/ GoalEnqueues(r, k)
    \/ GoalSubscribes(r, k)
    \/ GoalWakes(r, k)
    \/ GoalLeaves(r, k)

RequestSteps(r) ==
    \/ \E k \in Key : RootReports(r, k) \/ RequestLeaves(r, k)
    \/ RequestAnswers(r)
    \/ RequestReleases(r)
    \/ RequestReaps(r)

OpSteps(c) == OpSubscribes(c) \/ OpLeaves(c) \/ OpPrunes(c)

ClientReads(c) ==
    \/ \E r \in Request, k \in Key, ok \in BOOLEAN : Owner[r] = c /\ GoalSubscribed(r, k, ok)
    \/ \E ok \in BOOLEAN : c \in OpClient /\ OpSubscribed(c, ok)

\* The pass starts a build that somebody wants, and ends any other.
SchedulerSteps(b) == (~NobodyWants(b) /\ BuildStarts(b)) \/ SchedulerDecides(b) \/ SchedulerCancels(b)

WorkerEnds(b) == \E outcome \in {"success", "failure"} : BuildEnds(b, outcome)

GoalNext ==
    \/ \E r \in Request : RequestStarts(r) \/ RequestSteps(r) \/ HangsUp(r)
    \/ \E r \in Request, k \in Key : GoalSteps(r, k)
    \/ \E c \in OpClient : OpEnqueues(c) \/ OpSteps(c) \/ OpStopsWaiting(c) \/ OpVanishes(c)
    \/ \E c \in Client : ClientReads(c)
    \/ \E b \in BuildId : BuildStarts(b) \/ SchedulerSteps(b) \/ WorkerEnds(b) \/ BuildLogs(b)
    \/ \E b \in BuildId, c \in Client : ClientIsDropped(b, c)

GoalSpec == GoalInit /\ [][GoalNext]_everything

-----------------------------------------------------------------------------
(* Properties.                                                             *)

\* The callers are callers of the queue as BuildQueue has it: every step of a
\* goal, a request or a handler, the cancelled ones included, is one call of
\* the queue or leaves it alone.  What BuildQueue promises holds under them.
CallsTheQueue == Spec

\* A goal that waits is waited for: until its request lets go, the build of a
\* goal stays in the queue with the request among its holders, so neither a
\* prune nor another client's release takes the answer it waits for.
WaitingIsHeld ==
    \A r \in Request, k \in Key :
        /\ goal[r][k].at \in {"subscribing", "writing", "waiting", "leaving"}
        /\ req[r] \in {"running", "stopping", "answered"}
        => goal[r][k].build \in by_id /\ r \in holders[goal[r][k].build]

\* "A goal the request left behind must go quiet": a client that has its
\* answer streams no root of its request.
LeftGoalsAreQuiet ==
    \A r \in Request, k \in Key :
        /\ req[r] \in {"answered", "released", "ended"}
        /\ goal[r][k].root = "left" /\ goal[r][k].build # 0
        => subs[goal[r][k].build][Owner[r]] = 0

\* Nobody is left that could still unsubscribe, release or prune.
Quiescent ==
    /\ \A r \in Request : req[r] \in {"new", "ended"}
    /\ \A c \in OpClient : op[c].at \in {"new", "ended"}

\* prune: "a deduped client still subscribed keeps its build; its own finish
\* prunes it".  When every caller ended, the queue is empty again: no build
\* with its log, no hold and no mark of a request is left.
QueueDrains ==
    Quiescent => by_id = {} /\ known = {} /\ given_up = {} /\ \A r \in Request : held[r] = {}

-----------------------------------------------------------------------------
(* Fairness: goals, requests, handlers and workers are asyncio tasks that   *)
(* run on, a worker answers, and a client that has not stalled reads.  The  *)
(* steps that take the lock compete for it; its FIFO serves each of them.   *)
FairGoals ==
    /\ GoalSpec
    /\ \A r \in Request : SF_everything(RequestSteps(r))
    /\ \A r \in Request, k \in Key : SF_everything(GoalSteps(r, k))
    /\ \A c \in OpClient : SF_everything(OpSteps(c)) /\ WF_everything(OpStopsWaiting(c))
    /\ \A c \in Client \ Stalled : WF_everything(ClientReads(c))
    /\ \A b \in BuildId : SF_everything(SchedulerSteps(b)) /\ SF_everything(WorkerEnds(b))

\* Every request answers and ends: no goal waits for a build that nobody
\* runs, and no lock is held for ever.
EveryRequestEnds ==
    \A r \in Request : req[r] = "running" ~> req[r] = "ended"
=============================================================================
