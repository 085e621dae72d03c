----------------------------- MODULE Scheduler ------------------------------
(***************************************************************************)
(* The scheduler of pynixd, scheduler.py, on top of its build queue: the    *)
(* loop that runs a pass per trigger, the placement of one build            *)
(* (allocator.py), the worker of each build (execute_build) with its        *)
(* retries, and the stores that come, drain and go.                         *)
(*                                                                          *)
(* A pass works on a snapshot of the queue and awaits between its builds,   *)
(* so releases, completions, failures and store removals interleave with    *)
(* it.  The scores of the ranking are abstracted to a choice among the      *)
(* stores the code would accept.  Log streaming is left to BuildQueue.      *)
(***************************************************************************)
EXTENDS BuildQueue, FiniteSets

CONSTANTS
    MaxStoreRetries, \* MAX_STORE_RETRIES
    MaxJobs,         \* max-jobs of each request's client, None for no limit
    NoLocalJobs,     \* settings.no_local_jobs
    Supports,        \* <<key, store>>: the store has the system and features
    Limit,           \* build_limit of each store
    LastResort,      \* stores with last_resort
    HereOnly,        \* keys with build mode CHECK or REPAIR
    PreferLocal,     \* keys with preferLocalBuild
    MemoryTight,     \* keys whose expected peak fits no store's free memory
    Dynamic,         \* stores that are removed and come back (reverse builders)
    Flaky,           \* stores whose circuit breaker opens and closes
    Pressured,       \* stores that pressure or disk keeps out of the ranking
    Impatient,       \* requests whose client may hang up before the answer
    Faults           \* the faults that happen, of FaultKind

FaultKind == {"measure", "connection", "machine", "derivation", "hold", "pull"}

ASSUME SchedulerAssumption ==
    /\ MaxStoreRetries \in Nat \ {0}
    /\ MaxJobs \in [Request -> Nat \cup {None}]
    /\ NoLocalJobs \in {"remote-only", "remote-first", "one-slot"}
    /\ Supports \subseteq Key \X Store
    /\ Limit \in [Store -> Nat]
    /\ LastResort \subseteq Store /\ Flaky \subseteq Store /\ Pressured \subseteq Store
    /\ Dynamic \subseteq Store \ {LocalStore}
    /\ HereOnly \subseteq Key /\ PreferLocal \subseteq Key /\ MemoryTight \subseteq Key
    /\ Impatient \subseteq Request
    /\ Faults \subseteq FaultKind

VARIABLES
    trigger,        \* trigger_event is set
    pass,           \* where the loop is: idle, cancelling, measuring, failing
    todo,           \* schedulable: the builds this pass still has to place
    placing,        \* the build _place works on, 0 for none
    load,           \* running_builds + assigned_this_pass
    waiting_slot,   \* a build of this pass waits for a slot
    builds_waiting, \* a build of the last pass waits for a slot
    failures,       \* store_failures
    owner,          \* the first asker, whose options the build carries
    collected,      \* builds whose outputs are in the local store
    status,         \* a store is up, draining or gone from ctx.stores
    unhealthy,      \* stores with an open circuit breaker
    unfit,          \* stores under min_schedule_score, or short of disk
    task            \* the worker of each scope: build, store, where it is, result

passVars == <<pass, todo, placing, load, waiting_slot, builds_waiting>>
storeVars == <<status, unhealthy, unfit>>
resultVars == <<failures, owner, collected>>
schedVars == <<trigger, passVars, storeVars, resultVars, task>>
allVars == <<vars, schedVars>>

TaskState == {"none", "spawned", "running", "collecting", "answering", "leaving", "ended"}

SchedulerTypeOK ==
    /\ TypeOK
    /\ trigger \in BOOLEAN
    /\ pass \in {"idle", "cancelling", "measuring", "failing"}
    /\ todo \subseteq BuildId
    /\ placing \in BuildId \cup {0}
    /\ load \in [Store -> Nat]
    /\ waiting_slot \in BOOLEAN
    /\ builds_waiting \in BOOLEAN
    /\ failures \in [BuildId -> [Store -> 0..MaxStoreRetries]]
    /\ owner \in [BuildId -> Request \cup {None}]
    /\ collected \subseteq BuildId
    /\ status \in [Store -> {"up", "draining", "gone"}]
    /\ unhealthy \subseteq Store
    /\ unfit \subseteq Store
    /\ task \in [Scope -> [build : BuildId \cup {0}, store : Store \cup {None},
                           at : TaskState, result : {"success", "failure", None}]]

SchedulerInit ==
    /\ Init
    /\ trigger = FALSE
    /\ pass = "idle"
    /\ todo = {}
    /\ placing = 0
    /\ load = [s \in Store |-> 0]
    /\ waiting_slot = FALSE
    /\ builds_waiting = FALSE
    /\ failures = [b \in BuildId |-> [s \in Store |-> 0]]
    /\ owner = [b \in BuildId |-> None]
    /\ collected = {}
    /\ status = [s \in Store |-> "up"]
    /\ unhealthy = {}
    /\ unfit = {}
    /\ task = [w \in Scope |-> [build |-> 0, store |-> None, at |-> "none", result |-> None]]

Pending(b) == b \in by_id /\ ~IsDone(b) /\ ~IsBuilding(b)
Present == {s \in Store : status[s] # "gone"}
Supporting(b) == {s \in Store : <<key[b], s>> \in Supports}

\* Mutant: one retry too many.
IsBlacklistedLate(b, s) == failures[b][s] > MaxStoreRetries

IsBlacklisted(b, s) == failures[b][s] >= MaxStoreRetries
RunningOn(b, s) == IsBuilding(b) /\ assigned[b] = s

-----------------------------------------------------------------------------
(* The requests that enqueue and release.                                  *)

\* Scheduler.build_derivation for a goal: enqueue, then trigger.
BuildDerivation(k, r) ==
    /\ r \notin prune_due
    /\ Enqueue(k, r, FALSE)
    /\ owner' = IF next_id' = next_id THEN owner ELSE [owner EXCEPT ![next_id] = r]
    /\ trigger' = TRUE
    /\ UNCHANGED <<passVars, storeVars, failures, collected, task>>

\* A request answers once its builds are answered; a client that hangs up
\* ends it before that.
Release(r) ==
    /\ held[r] # {}
    /\ r \in Impatient \/ \A b \in held[r] : IsDone(b)
    /\ ReleaseRequest(r)
    /\ UNCHANGED schedVars

PruneReleased(r) == PruneAfterRelease(r) /\ UNCHANGED schedVars

-----------------------------------------------------------------------------
(* The placement of one build: allocator.py and _place.                    *)

\* incapable_reason is None.
Capable(b) ==
    {s \in Supporting(b) : status[s] = "up" /\ s \notin unhealthy /\ ~IsBlacklisted(b, s)}

\* rank_stores: last resorts only alone, then pressure and disk.
Ranked(b) ==
    LET regular == Capable(b) \ LastResort
    IN  (IF regular # {} THEN regular ELSE Capable(b)) \ unfit

\* _has_compatible_store.  The dynamic feature matrix outlives its stores.
HasCompatibleStore(b) ==
    Supporting(b) \cap ((Present \cup Dynamic) \ {LocalStore}) # {}

RequestHasALocalSlot(r) ==
    \/ MaxJobs[r] = None
    \/ LET running == {b \in by_id : RunningOn(b, LocalStore) /\ r \in holders[b]}
       IN  Cardinality(running) < (IF MaxJobs[r] = 0 THEN 1 ELSE MaxJobs[r])

\* The client's max-jobs when no live request wants the build: its options'.
OwnerJobs(b) == IF owner[b] = None THEN None ELSE MaxJobs[owner[b]]

LocalSlotIsFull(b) ==
    IF LiveWanters(b) # {}
    THEN \A r \in LiveWanters(b) : ~RequestHasALocalSlot(r)
    ELSE OwnerJobs(b) # None /\ load[LocalStore] >= (IF OwnerJobs(b) = 0 THEN 1 ELSE OwnerJobs(b))

ClientForbidsLocal(b) ==
    IF LiveWanters(b) # {}
    THEN \A r \in LiveWanters(b) : MaxJobs[r] = 0
    ELSE OwnerJobs(b) = 0

\* What _place decides for a build, after its measurements.
Forbidden(b) == NoLocalJobs # "one-slot" /\ ClientForbidsLocal(b)
NoLocalRefusal(b) == Forbidden(b) /\ ~HasCompatibleStore(b) /\ NoLocalJobs = "remote-only"
LocalCanBuild(b) == LocalStore \in Capable(b) /\ ~(Forbidden(b) /\ HasCompatibleStore(b))
Prefers(b) == (key[b] \in PreferLocal \/ key[b] \in HereOnly) /\ LocalCanBuild(b)

Candidates(b) ==
    LET remote == IF Forbidden(b) /\ HasCompatibleStore(b) THEN Ranked(b) \ {LocalStore} ELSE Ranked(b)
        here   == IF key[b] \in HereOnly THEN remote \cap {LocalStore} ELSE remote
    IN  IF Prefers(b) THEN here \cup {LocalStore} ELSE here

NoStoreRefusal(b) ==
    /\ Candidates(b) = {}
    /\ ~LocalCanBuild(b)
    /\ key[b] \in HereOnly \/ ~HasCompatibleStore(b)

\* Mutant: the stores that may still take the build are asked.
AllBlacklistedOfCapable(b) ==
    LET compatible == Capable(b)
    IN  /\ Candidates(b) = {}
        /\ compatible # {}
        /\ \A s \in compatible : IsBlacklisted(b, s)

AllBlacklisted(b) ==
    LET compatible == Supporting(b) \cap Present
    IN  /\ Candidates(b) = {}
        /\ compatible # {}
        /\ \A s \in compatible : IsBlacklisted(b, s)

\* Candidates with room, less the local store without a slot.
Usable(b) ==
    {s \in Candidates(b) : load[s] < Limit[s] /\ (s = LocalStore => ~LocalSlotIsFull(b))}

Untried(b) == {s \in Store : failures[b][s] = 0}

\* Mutant: the score alone orders the candidates.
ChoicesByScore(b) ==
    IF Prefers(b) /\ LocalStore \in Usable(b) THEN {LocalStore} ELSE Usable(b)

\* The stores pick_store and explore_store may answer.  fit_memory sorts by
\* room alone when no store fits.
Choices(b) ==
    LET inOrder == IF key[b] \in MemoryTight \/ Usable(b) \cap Untried(b) = {}
                   THEN Usable(b) ELSE Usable(b) \cap Untried(b)
    IN  IF Prefers(b)
        THEN IF LocalStore \in Usable(b) THEN {LocalStore} ELSE inOrder
        ELSE inOrder

\* No store now: nothing has room, or a preferLocalBuild waits for its slot.
MayWait(b) == Choices(b) = {} \/ (Prefers(b) /\ LocalStore \notin Usable(b))

-----------------------------------------------------------------------------
(* The scheduling loop.                                                    *)

\* The pass goes on to its next build without an await in between: _place
\* cancels an unwanted build and measures any other.  After the last build
\* the pass returns, and its locals end.
PassGoesOn(rest, counts, waits) ==
    IF rest = {}
    THEN /\ pass' = "idle"
         /\ placing' = 0
         /\ todo' = {}
         /\ load' = [s \in Store |-> 0]
         /\ waiting_slot' = FALSE
         /\ builds_waiting' = waits
    ELSE \E b \in rest :
         /\ pass' = IF NobodyWants(b)' THEN "cancelling" ELSE "measuring"
         /\ placing' = b
         /\ todo' = rest \ {b}
         /\ load' = counts
         /\ waiting_slot' = waits
         /\ UNCHANGED builds_waiting

\* The loop takes the trigger and the snapshot of the queue.
PassStarts ==
    LET pending == {b \in by_id : ~IsDone(b)}
        running == [s \in Store |-> Cardinality({b \in pending : RunningOn(b, s)})]
    IN  /\ pass = "idle"
        /\ trigger
        /\ trigger' = FALSE
        /\ UNCHANGED vars
        /\ PassGoesOn({b \in pending : ~IsBuilding(b)}, running, FALSE)
        /\ UNCHANGED <<storeVars, resultVars, task>>

PassCancels ==
    /\ pass = "cancelling"
    /\ CancelLocked(IF placing \in by_id /\ ~IsDone(placing) THEN {placing} ELSE {})
    /\ UNCHANGED <<queueVars, key, holders, standalone, streamVars, worker, assigned, next_scope>>
    /\ PassGoesOn(todo, load, waiting_slot)
    /\ UNCHANGED <<trigger, storeVars, resultVars, task>>

\* Mutant: the builds assigned in this pass do not count.
Uncounted(s) == load

\* Mutant: they count the wrong way.
CountedDown(s) == [load EXCEPT ![s] = @ - 1]

\* assigned_this_pass counts a further build.
Counted(s) == [load EXCEPT ![s] = @ + 1]

\* The build is measured and a store taken.  Its state is not read again.
PassSpawns(s) ==
    /\ pass = "measuring"
    /\ ~NoLocalRefusal(placing)
    /\ s \in Choices(placing)
    /\ SpawnWorker(placing, s)
    /\ task' = [task EXCEPT ![next_scope] =
                   [build |-> placing, store |-> s, at |-> "spawned", result |-> None]]
    /\ PassGoesOn(todo, Counted(s), waiting_slot)
    /\ UNCHANGED <<trigger, storeVars, resultVars>>

\* Mutant: a build that waits is not noted.
Unnoted == waiting_slot

\* The build joins the list waiting_slot.
Noted == TRUE

PassWaits ==
    /\ pass = "measuring"
    /\ ~NoLocalRefusal(placing)
    /\ ~NoStoreRefusal(placing)
    /\ ~AllBlacklisted(placing)
    /\ MayWait(placing)
    /\ UNCHANGED vars
    /\ PassGoesOn(todo, load, Noted)
    /\ UNCHANGED <<trigger, storeVars, resultVars, task>>

\* The build cannot run anywhere: the client forbids the only store, no store
\* has its system and features, or every store that has failed it.
PassRefuses ==
    /\ pass = "measuring"
    /\ NoLocalRefusal(placing) \/ NoStoreRefusal(placing) \/ AllBlacklisted(placing)
    /\ pass' = "failing"
    /\ UNCHANGED <<vars, trigger, todo, placing, load, waiting_slot, builds_waiting,
                   storeVars, resultVars, task>>

\* A measurement raises, and the handler of _assign_to_stores fails the build.
PassBreaks ==
    /\ "measure" \in Faults
    /\ pass = "measuring"
    /\ pass' = "failing"
    /\ UNCHANGED <<vars, trigger, todo, placing, load, waiting_slot, builds_waiting,
                   storeVars, resultVars, task>>

\* queue.fail of the build.
PassFails ==
    /\ pass = "failing"
    /\ placing \in by_id
    /\ IF IsDone(placing) THEN UNCHANGED vars ELSE Complete(placing, "failure")
    /\ PassGoesOn(todo, load, waiting_slot)
    /\ UNCHANGED <<trigger, storeVars, resultVars, task>>

\* queue.fail raises ValueError for a pruned build, and again in the handler
\* of _assign_to_stores: the pass ends where it is.
PassCrashes ==
    /\ pass = "failing"
    /\ placing \notin by_id
    /\ UNCHANGED vars
    /\ PassGoesOn({}, load, builds_waiting)
    /\ UNCHANGED <<trigger, storeVars, resultVars, task>>

-----------------------------------------------------------------------------
(* The worker of a build: _run_worker and execute_build.                   *)

Goes(w, at) == task' = [task EXCEPT ![w].at = at, ![w].result = None]
Answers(w, result) == task' = [task EXCEPT ![w].at = "answering", ![w].result = result]
Active(w) == task[w].at \notin {"none", "ended"}

\* One more failure in store_failures.  The count stops at the limit: no
\* guard tells a higher one apart.
OneMore(n) == IF n < MaxStoreRetries THEN n + 1 ELSE n

\* reset_for_retry of the worker's build, and the trigger after it.
RetriesOn(b, s) ==
    /\ failures' = [failures EXCEPT ![b][s] = OneMore(@)]
    /\ worker' = [worker EXCEPT ![b] = 0]
    /\ trigger' = TRUE
    /\ UNCHANGED <<queueVars, buildVars, streamVars, assigned, next_scope, cancelled,
                   passVars, storeVars, owner, collected>>

TaskStarts(w) ==
    /\ task[w].at = "spawned"
    /\ w \notin cancelled
    /\ assigned' = [assigned EXCEPT ![task[w].build] = task[w].store]
    /\ Goes(w, "running")
    /\ UNCHANGED <<queueVars, buildVars, streamVars, worker, next_scope, cancelled,
                   trigger, passVars, storeVars, resultVars>>

\* Mutant: the completion first, and the outputs after.
MustCollectNever(w) == FALSE

\* The local builder registers the outputs in the local store itself.
MustCollect(w) == task[w].store # LocalStore

\* The build succeeded.  The outputs of another store are rooted there and
\* the build connection goes back, before the pull.
TaskBuilds(w) ==
    /\ task[w].at = "running"
    /\ w \notin cancelled
    /\ IF MustCollect(w) THEN Goes(w, "collecting") ELSE Answers(w, "success")
    /\ collected' = IF task[w].store = LocalStore THEN collected \cup {task[w].build} ELSE collected
    /\ UNCHANGED <<vars, trigger, passVars, storeVars, failures, owner>>

TaskCollects(w) ==
    /\ task[w].at = "collecting"
    /\ w \notin cancelled
    /\ Answers(w, "success")
    /\ collected' = collected \cup {task[w].build}
    /\ UNCHANGED <<vars, trigger, passVars, storeVars, failures, owner>>

\* _pull_with_retries gave up: the build fails.
TaskLosesOutputs(w) ==
    /\ "pull" \in Faults
    /\ task[w].at = "collecting"
    /\ w \notin cancelled
    /\ Answers(w, "failure")
    /\ UNCHANGED <<vars, trigger, passVars, storeVars, resultVars>>

\* _retryable_elsewhere: the stores that have not tried the worker's build.
UntriedElsewhere(w) ==
    LET b == task[w].build
    IN  {s \in Supporting(b) \cap Present \cap Untried(b) :
            s # task[w].store /\ (s = LocalStore => ~ClientForbidsLocal(b))}

\* The derivation failed, or the machine failed and every store tried; and an
\* error that is not retryable.
TaskFails(w) ==
    /\ task[w].at = "running"
    /\ w \notin cancelled
    /\ \/ "derivation" \in Faults
       \/ "machine" \in Faults /\ UntriedElsewhere(w) = {}
    /\ Answers(w, "failure")
    /\ UNCHANGED <<vars, trigger, passVars, storeVars, resultVars>>

\* A retryable error of the connection, or a machine fault with a store left
\* to try: the build goes back to the queue and the worker leaves.
TaskRetries(w) ==
    /\ task[w].at = "running"
    /\ w \notin cancelled
    /\ "connection" \in Faults \/ ("machine" \in Faults /\ UntriedElsewhere(w) # {})
    /\ RetriesOn(task[w].build, task[w].store)
    /\ Goes(w, "leaving")

\* The connection breaks after the build succeeded, while the outputs are
\* rooted: the handler resets the build, and the response is still answered.
TaskRetriesWithResponse(w) ==
    /\ "hold" \in Faults
    /\ task[w].at = "running"
    /\ task[w].store # LocalStore
    /\ w \notin cancelled
    /\ RetriesOn(task[w].build, task[w].store)
    /\ Answers(w, "success")

\* queue.complete and queue.fail; neither reaches a build done or pruned.
TaskAnswers(w) ==
    LET b == task[w].build
    IN  /\ task[w].at = "answering"
        /\ w \notin cancelled
        /\ IF b \in by_id /\ ~IsDone(b) THEN Complete(b, task[w].result) ELSE UNCHANGED vars
        /\ trigger' = TRUE
        /\ Goes(w, "leaving")
        /\ UNCHANGED <<passVars, storeVars, resultVars>>

\* The finally of _run_worker, after the last step or a cancel.
TaskEnds(w) ==
    /\ task[w].at = "leaving" \/ (Active(w) /\ w \in cancelled)
    /\ Goes(w, "ended")
    /\ IF worker[task[w].build] = w THEN WorkerEnded(task[w].build, w) ELSE UNCHANGED vars
    /\ trigger' = TRUE
    /\ UNCHANGED <<passVars, storeVars, resultVars>>

-----------------------------------------------------------------------------
(* The stores.                                                             *)

\* drain_store starts: no pass places a build on the store from here on.
DrainStarts(s) ==
    /\ s \in Dynamic
    /\ status[s] = "up"
    /\ status' = [status EXCEPT ![s] = "draining"]
    /\ trigger' = TRUE
    /\ UNCHANGED <<vars, passVars, unhealthy, unfit, resultVars, task>>

\* Mutant: the workers of the builds that go back run on.
CancelsNone(back) == cancelled

\* Mutant: the cancelled workers stay the workers of their builds.
ResetsNone(back) == worker

\* cancel_worker and reset_for_retry, for the builds of a drained store.
CancelsWorkers(back) == cancelled \cup {worker[b] : b \in {x \in back : IsBuilding(x)}}
ResetsWorkers(back) == [b \in BuildId |-> IF b \in back THEN 0 ELSE worker[b]]

\* It is idle, or the time is up: the builds assigned to it go back to the
\* queue, and _forget_store takes it out of ctx.stores.
DrainEnds(s) ==
    LET back == {b \in by_id : ~IsDone(b) /\ assigned[b] = s}
    IN  /\ status[s] = "draining"
        /\ status' = [status EXCEPT ![s] = "gone"]
        /\ cancelled' = CancelsWorkers(back)
        /\ worker' = ResetsWorkers(back)
        /\ failures' = [b \in BuildId |-> IF b \in back THEN [failures[b] EXCEPT ![s] = OneMore(@)]
                                          ELSE failures[b]]
        /\ trigger' = TRUE
        /\ UNCHANGED <<queueVars, buildVars, streamVars, assigned, next_scope, passVars,
                       unhealthy, unfit, owner, collected, task>>

\* on_store_added, for a builder that registers again.
StoreReturns(s) ==
    /\ status[s] = "gone"
    /\ status' = [status EXCEPT ![s] = "up"]
    /\ trigger' = TRUE
    /\ UNCHANGED <<vars, passVars, unhealthy, unfit, resultVars, task>>

\* The circuit breaker opens on failed connections.  Its cooldown ends
\* quietly; the reconnect loop closes it earlier and calls on_store_added.
BreakerOpens(s) ==
    /\ s \in Flaky \ unhealthy
    /\ unhealthy' = unhealthy \cup {s}
    /\ UNCHANGED <<vars, trigger, passVars, status, unfit, resultVars, task>>

BreakerCloses(s, reconnected) ==
    /\ s \in unhealthy
    /\ unhealthy' = unhealthy \ {s}
    /\ trigger' = (trigger \/ reconnected)
    /\ UNCHANGED <<vars, passVars, status, unfit, resultVars, task>>

\* A sample moves a store in or out of the ranking, and on_sample triggers a
\* pass while a build waits.
Sample(s) ==
    /\ s \in Pressured
    /\ unfit' = (unfit \ {s}) \cup ({s} \ unfit)
    /\ trigger' = (trigger \/ builds_waiting)
    /\ UNCHANGED <<vars, passVars, status, unhealthy, resultVars, task>>

-----------------------------------------------------------------------------
PassSteps ==
    \/ PassStarts
    \/ PassCancels
    \/ \E s \in Store : PassSpawns(s)
    \/ PassWaits
    \/ PassRefuses
    \/ PassBreaks
    \/ PassFails
    \/ PassCrashes

TaskSteps(w) ==
    \/ TaskStarts(w)
    \/ TaskBuilds(w)
    \/ TaskCollects(w)
    \/ TaskLosesOutputs(w)
    \/ TaskFails(w)
    \/ TaskRetries(w)
    \/ TaskRetriesWithResponse(w)
    \/ TaskAnswers(w)
    \/ TaskEnds(w)

SchedulerNext ==
    \/ \E k \in Key, r \in Request : BuildDerivation(k, r)
    \/ \E r \in Request : Release(r) \/ PruneReleased(r)
    \/ PassSteps
    \/ \E w \in Scope : TaskSteps(w)
    \/ \E s \in Store : DrainStarts(s) \/ DrainEnds(s) \/ StoreReturns(s)
    \/ \E s \in Store : BreakerOpens(s) \/ Sample(s)
    \/ \E s \in Store, reconnected \in BOOLEAN : BreakerCloses(s, reconnected)

SchedulerSpec == SchedulerInit /\ [][SchedulerNext]_allVars

-----------------------------------------------------------------------------
(* Properties.                                                             *)

\* No lost wake-up: while the loop sleeps on an unset trigger, a build that
\* is pending was left waiting by the last pass, and every sample may wake it.
NoBuildForgotten ==
    pass = "idle" /\ ~trigger /\ (\E b \in BuildId : Pending(b)) => builds_waiting

\* A build that runs is assigned to a store of ctx.stores: otherwise
\* _filter_schedulable raises KeyError in every pass.
RunningStoreIsPresent ==
    \A b \in by_id : IsBuilding(b) /\ ~IsDone(b) => assigned[b] \in Present

\* The workers that have, or are about to take, a build connection of s.
BuildingOn(s) ==
    {w \in Scope : task[w].at \in {"spawned", "running"} /\ task[w].store = s /\ w \notin cancelled}

\* The counts of a pass are stale, and still no store gets more workers than
\* its build limit.
LimitRespected == \A s \in Store : Cardinality(BuildingOn(s)) <= Limit[s]

Attempts(b, s) == Cardinality({w \in Scope : task[w].build = b /\ task[w].store = s})

\* The retry limit holds over every interleaving of workers, passes and
\* drains: no store gets one build more often than MAX_STORE_RETRIES.
RetryLimitHolds ==
    \A b \in BuildId, s \in Store : Attempts(b, s) <= MaxStoreRetries

\* One attempt at a time: a retry starts only when the worker before it is
\* cancelled or done with the store, so no two stores build one derivation.
OneLiveWorker ==
    \A v, w \in Scope :
        /\ task[v].at \in {"spawned", "running", "collecting"} /\ v \notin cancelled
        /\ task[w].at \in {"spawned", "running", "collecting"} /\ w \notin cancelled
        /\ task[v].build = task[w].build
        => v = w

\* "The outputs first, and the completion after": a client that reads success
\* finds the outputs in the local store.
SuccessIsCollected ==
    \A b \in BuildId : answer[b] = "success" => b \in collected

\* "A store this build failed on goes after every store it has not tried":
\* a retry lands on it only when no untried candidate has room.  A build that
\* prefers the local store, or fits no store's memory, is placed otherwise.
RetryGoesElsewhere ==
    [][\A s \in Store :
         /\ pass = "measuring" /\ worker'[placing] # 0 /\ assigned'[placing] = s
         /\ key[placing] \notin PreferLocal \cup HereOnly \cup MemoryTight
         /\ failures[placing][s] > 0
         => Usable(placing) \cap Untried(placing) = {}]_allVars

-----------------------------------------------------------------------------
(* Fairness: the loop and the workers are asyncio tasks that run on, and a  *)
(* builder answers or its connection ends.                                  *)
FairScheduler ==
    /\ SchedulerSpec
    /\ WF_allVars(PassSteps)
    /\ \A w \in Scope : WF_allVars(TaskSteps(w))

\* Every build is answered, whatever fails: retries end, refusals reach the
\* waiting goals, and no build waits for a wake-up that does not come.
EveryBuildIsAnswered ==
    \A b \in BuildId : (b \in by_id) ~> IsDone(b)
=============================================================================
