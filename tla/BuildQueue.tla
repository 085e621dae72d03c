----------------------------- MODULE BuildQueue -----------------------------
(***************************************************************************)
(* The build queue of pynixd: build_queue.py.  One queue per daemon, shared *)
(* by every client.  A build is deduplicated by its key (derivation path    *)
(* and build mode), held by the goal requests that want it, streamed to     *)
(* the clients that subscribed, answered once, and pruned.                  *)
(*                                                                          *)
(* The module is open: its Next lets any caller make any call of the queue  *)
(* in any order, so what it establishes holds for the goal system, the op   *)
(* 36 handler and the scheduler alike.  Scheduler and GoalRequests extend   *)
(* it and restrict the callers to what their code does.                     *)
(*                                                                          *)
(* Every method is atomic under BuildQueue.lock, except subscribe: it       *)
(* writes to the client's socket while it holds the lock, so lock is a      *)
(* variable and subscribe takes two steps.                                  *)
(***************************************************************************)
EXTENDS Naturals

CONSTANTS
    Request,       \* goal requests (RequestId)
    KeepsGoing,    \* the requests whose client set keep-going
    Client,        \* client connections
    Key,           \* dedup keys: derivation path and build mode
    Store,         \* stores a build can be assigned to
    LocalStore,    \* the local store, one of them
    None,          \* Python's None
    MaxBuilds,     \* bound: builds ever created
    MaxScopes,     \* bound: workers ever started
    MaxStandalone, \* bound: standalone callers of one build
    MaxRefs        \* bound: subscriptions of one client to one build

BuildId == 1..MaxBuilds
Scope == 1..MaxScopes
Outcome == {"success", "failure", "cancelled"}

ASSUME ConstantsAssumption ==
    /\ MaxBuilds \in Nat /\ MaxScopes \in Nat
    /\ MaxStandalone \in Nat /\ MaxRefs \in Nat
    /\ KeepsGoing \subseteq Request
    /\ LocalStore \in Store
    /\ None \notin Request /\ None \notin Store /\ None \notin Outcome
    /\ None \notin BuildId \X Client

VARIABLES
    \* BuildQueue
    next_id,       \* the next build id
    by_id,         \* the builds in _queue and _by_id, which change together
    by_path,       \* _by_path: the build a key deduplicates onto, 0 for none
    held,          \* _held: the builds each goal request holds
    given_up,      \* _given_up: the goal requests that met a failed build
    known,         \* the requests with an entry in _max_jobs and _keeps_going
    lock,          \* the subscription that holds the lock, None when free
    prune_due,     \* requests between the two halves of release_request
    unwanted,      \* cancel_unwanted calls that still wait for the lock
    \* QueuedBuild
    key,           \* _dedup_key(request)
    answer,        \* the Answer: None until it is set
    holders,       \* goal requests that hold the build
    standalone,    \* callers outside the goal system
    subs,          \* _subscriber_refs; a subscriber is a client with a reference
    client_bound,  \* cancel_when_unsubscribed
    logged,        \* _log_writer holds bytes to replay
    worker,        \* the scope of the worker, 0 for none
    assigned,      \* assigned_store_id
    \* anyio
    next_scope,    \* the next cancel scope
    cancelled      \* the scopes that were cancelled

queueVars == <<next_id, by_id, by_path, held, given_up, known, prune_due, unwanted>>
buildVars == <<key, answer, holders, standalone>>
streamVars == <<lock, subs, client_bound, logged>>
workerVars == <<worker, assigned, next_scope, cancelled>>
vars == <<queueVars, buildVars, streamVars, workerVars>>

TypeOK ==
    /\ next_id \in 1..(MaxBuilds + 1)
    /\ by_id \in SUBSET BuildId
    /\ by_path \in [Key -> BuildId \cup {0}]
    /\ held \in [Request -> SUBSET BuildId]
    /\ given_up \in SUBSET Request
    /\ known \in SUBSET Request
    /\ lock \in (BuildId \X Client) \cup {None}
    /\ prune_due \in SUBSET Request
    /\ unwanted \in SUBSET BuildId
    /\ key \in [BuildId -> Key \cup {None}]
    /\ answer \in [BuildId -> Outcome \cup {None}]
    /\ holders \in [BuildId -> SUBSET Request]
    /\ standalone \in [BuildId -> Nat]
    /\ subs \in [BuildId -> [Client -> Nat]]
    /\ client_bound \in [BuildId -> BOOLEAN]
    /\ logged \in [BuildId -> BOOLEAN]
    /\ worker \in [BuildId -> Scope \cup {0}]
    /\ assigned \in [BuildId -> Store \cup {None}]
    /\ next_scope \in 1..(MaxScopes + 1)
    /\ cancelled \in SUBSET Scope

Init ==
    /\ next_id = 1
    /\ by_id = {}
    /\ by_path = [k \in Key |-> 0]
    /\ held = [r \in Request |-> {}]
    /\ given_up = {}
    /\ known = {}
    /\ lock = None
    /\ prune_due = {}
    /\ unwanted = {}
    /\ key = [b \in BuildId |-> None]
    /\ answer = [b \in BuildId |-> None]
    /\ holders = [b \in BuildId |-> {}]
    /\ standalone = [b \in BuildId |-> 0]
    /\ subs = [b \in BuildId |-> [c \in Client |-> 0]]
    /\ client_bound = [b \in BuildId |-> FALSE]
    /\ logged = [b \in BuildId |-> FALSE]
    /\ worker = [b \in BuildId |-> 0]
    /\ assigned = [b \in BuildId |-> None]
    /\ next_scope = 1
    /\ cancelled = {}

-----------------------------------------------------------------------------
(* QueuedBuild's properties.                                               *)

IsDone(b) == answer[b] # None
IsBuilding(b) == worker[b] # 0
Subscribers(b) == {c \in Client : subs[b][c] > 0}

LiveWanters(b) == holders[b] \ given_up

NobodyWants(b) == holders[b] # {} /\ holders[b] \subseteq given_up /\ standalone[b] = 0

-----------------------------------------------------------------------------
(* enqueue: a goal request or, with r = None, a standalone caller.         *)

\* _max_jobs and _keeps_going take the options of a goal request.
Records(r) == IF r = None THEN known ELSE known \cup {r}

\* The bookkeeping of a caller: a goal request holds the build and records
\* its max-jobs and keep-going; a standalone caller is counted.
Want(b, r) ==
    /\ holders' = [holders EXCEPT ![b] = IF r = None THEN @ ELSE @ \cup {r}]
    /\ held' = [q \in Request |-> IF q = r THEN held[q] \cup {b} ELSE held[q]]
    /\ known' = Records(r)
    /\ standalone' = [standalone EXCEPT ![b] = IF r = None THEN @ + 1 ELSE @]

\* The refusal of a delegated build that this instance itself runs remotely.
DelegationLoop(k, delegated) ==
    /\ delegated
    /\ by_path[k] # 0
    /\ IsBuilding(by_path[k])
    /\ assigned[by_path[k]] \notin {None, LocalStore}

EnqueueJoins(k, r) ==
    /\ by_path[k] # 0
    /\ ~IsDone(by_path[k])
    /\ r = None => standalone[by_path[k]] < MaxStandalone
    /\ Want(by_path[k], r)
    /\ UNCHANGED <<next_id, by_id, by_path, key>>

EnqueueCreates(k, r) ==
    /\ by_path[k] # 0 => IsDone(by_path[k])
    /\ next_id <= MaxBuilds
    /\ Want(next_id, r)
    /\ key' = [key EXCEPT ![next_id] = k]
    /\ by_id' = by_id \cup {next_id}
    /\ by_path' = [by_path EXCEPT ![k] = next_id]
    /\ next_id' = next_id + 1

Enqueue(k, r, delegated) ==
    /\ lock = None
    /\ ~DelegationLoop(k, delegated)
    /\ EnqueueJoins(k, r) \/ EnqueueCreates(k, r)
    /\ UNCHANGED <<given_up, prune_due, unwanted, answer, streamVars, workerVars>>

-----------------------------------------------------------------------------
(* The end of a build.                                                     *)

\* _cancel_locked, for each build of S.
CancelLocked(S) ==
    /\ answer' = [b \in BuildId |-> IF b \in S /\ ~IsDone(b) THEN "cancelled" ELSE answer[b]]
    /\ cancelled' = cancelled \cup {worker[b] : b \in {x \in S : IsBuilding(x)}}

\* Mutant: an answer that is already set does not stop the next.
AnswerableAgain(b) == b \in by_id

Answerable(b) == b \in by_id /\ ~IsDone(b)

\* complete and fail.  Neither changes anything for a build that is done.
Complete(b, outcome) ==
    /\ lock = None
    /\ Answerable(b)
    /\ answer' = [answer EXCEPT ![b] = outcome]
    /\ given_up' = IF outcome = "success" THEN given_up
                   ELSE given_up \cup ((holders[b] \cap known) \ KeepsGoing)
    /\ UNCHANGED <<next_id, by_id, by_path, held, known, prune_due, unwanted,
                   key, holders, standalone, streamVars, workerVars>>

\* The scheduler reads nobody_wants without the lock ...
DecideUnwanted(b) ==
    /\ b \in by_id
    /\ NobodyWants(b)
    /\ unwanted' = unwanted \cup {b}
    /\ UNCHANGED <<next_id, by_id, by_path, held, given_up, known, prune_due,
                   buildVars, streamVars, workerVars>>

\* ... and cancel_unwanted acts on it once it has the lock.
CancelUnwanted(b) ==
    /\ lock = None
    /\ b \in unwanted
    /\ unwanted' = unwanted \ {b}
    /\ CancelLocked(IF b \in by_id /\ ~IsDone(b) THEN {b} ELSE {})
    /\ UNCHANGED <<next_id, by_id, by_path, held, given_up, known, prune_due,
                   key, holders, standalone, streamVars,
                   worker, assigned, next_scope>>

\* Mutant: a build that runs is left to itself.
ForsakenPending(r) ==
    {b \in held[r] : holders[b] \subseteq {r} /\ standalone[b] = 0 /\ ~IsDone(b) /\ ~IsBuilding(b)}

\* The builds nobody wants once r lets go.
Forsaken(r) ==
    {b \in held[r] : holders[b] \subseteq {r} /\ standalone[b] = 0 /\ ~IsDone(b)}

\* Mutant: the give-up mark outlives the request.
MarksKept(r) == given_up

MarksWithout(r) == given_up \ {r}

\* release_request, up to its trailing prune, which takes the lock again.
ReleaseRequest(r) ==
    /\ lock = None
    /\ held' = [held EXCEPT ![r] = {}]
    /\ holders' = [b \in BuildId |-> IF b \in held[r] THEN holders[b] \ {r} ELSE holders[b]]
    /\ CancelLocked(Forsaken(r))
    /\ given_up' = MarksWithout(r)
    /\ known' = known \ {r}
    /\ prune_due' = prune_due \cup {r}
    /\ UNCHANGED <<next_id, by_id, by_path, unwanted, key, standalone,
                   streamVars, worker, assigned, next_scope>>

\* Mutant: finished builds go although somebody still refers to them.
DoomedAllDone == {b \in by_id : IsDone(b)}

\* Mutant: the subscribers are not asked for.
DoomedUnheld == {b \in by_id : IsDone(b) /\ holders[b] = {}}

\* Done, held by nobody, streamed to nobody.
Doomed == {b \in by_id : IsDone(b) /\ holders[b] = {} /\ Subscribers(b) = {}}

\* Mutant: the dedup entry goes with the key, whichever build it names.
UnlistedByKey(S) == [k \in Key |-> IF k \in {key[b] : b \in S} THEN 0 ELSE by_path[k]]

Unlisted(S) == [k \in Key |-> IF by_path[k] \in S THEN 0 ELSE by_path[k]]

\* prune.
Prune ==
    /\ lock = None
    /\ by_id' = by_id \ Doomed
    /\ by_path' = Unlisted(Doomed)
    /\ UNCHANGED <<next_id, held, given_up, known, unwanted,
                   buildVars, streamVars, workerVars>>

\* The second half of release_request.
PruneAfterRelease(r) ==
    /\ r \in prune_due
    /\ Prune
    /\ prune_due' = prune_due \ {r}

\* The op 36 handler prunes when it ends.
PruneAfterStandalone == Prune /\ UNCHANGED prune_due

-----------------------------------------------------------------------------
(* The log stream.                                                         *)

\* add_subscriber writes nothing: a further reference of one client, or a
\* build that has no log, is not started and that nobody else asked for.
SubscribeSilently(b, c) ==
    /\ lock = None
    /\ b \in by_id
    /\ subs[b][c] < MaxRefs
    /\ subs[b][c] > 0 \/ (Subscribers(b) = {} /\ ~logged[b])
    /\ subs' = [subs EXCEPT ![b][c] = @ + 1]
    /\ client_bound' = [client_bound EXCEPT ![b] = TRUE]
    /\ UNCHANGED <<queueVars, buildVars, lock, logged, workerVars>>

\* add_subscriber writes the waiting activity or the log, under the lock.
SubscribeWrites(b, c) ==
    /\ lock = None
    /\ b \in by_id
    /\ subs[b][c] = 0
    /\ Subscribers(b) # {} \/ logged[b] \/ assigned[b] # None
    /\ client_bound' = [client_bound EXCEPT ![b] = TRUE]
    /\ lock' = <<b, c>>
    /\ UNCHANGED <<queueVars, buildVars, subs, logged, workerVars>>

\* The write ends when the client read it.  An error of the replay, and a
\* cancel of the task that writes, leave the client out.
SubscribeEnds(ok) ==
    /\ lock # None
    /\ subs' = IF ok THEN [subs EXCEPT ![lock[1]][lock[2]] = 1] ELSE subs
    /\ lock' = None
    /\ UNCHANGED <<queueVars, buildVars, client_bound, logged, workerVars>>

\* Mutant: the reference of a client without one is taken back as well.
RefersAnyway(b, c) == TRUE

\* remove_subscriber finds a reference of the client.
Refers(b, c) == subs[b][c] > 0

\* Mutant: the last reference of the client counts, not the last subscriber.
IsLastOfClient(b, c) == subs[b][c] = 1

IsLast(b, c) == subs[b][c] = 1 /\ Subscribers(b) = {c}

\* unsubscribe: the last subscriber of a client-bound build takes it along.
Unsubscribe(b, c) ==
    /\ lock = None
    /\ b \in by_id
    /\ Refers(b, c)
    /\ subs' = [subs EXCEPT ![b][c] = @ - 1]
    /\ CancelLocked(IF client_bound[b] /\ IsLast(b, c) /\ ~IsDone(b) THEN {b} ELSE {})
    /\ UNCHANGED <<queueVars, key, holders, standalone, lock, client_bound, logged,
                   worker, assigned, next_scope>>

\* post_log_and_fanout, to subscribers that all read it.
PostLog(b) ==
    /\ IsBuilding(b)
    /\ ~logged[b]
    /\ logged' = [logged EXCEPT ![b] = TRUE]
    /\ UNCHANGED <<queueVars, buildVars, lock, subs, client_bound, workerVars>>

\* post_log_bytes drops a subscriber whose socket failed.  The replay of
\* the same build holds _sub_lock, so this waits for it.
DropDeadSubscriber(b, c) ==
    /\ logged[b]
    /\ subs[b][c] > 0
    /\ lock # None => lock[1] # b
    /\ subs' = [subs EXCEPT ![b][c] = @ - 1]
    /\ UNCHANGED <<queueVars, buildVars, lock, client_bound, logged, workerVars>>

-----------------------------------------------------------------------------
(* The worker of a build, as QueuedBuild sees it.                          *)

SpawnWorker(b, s) ==
    /\ b < next_id
    /\ ~IsBuilding(b)
    /\ next_scope <= MaxScopes
    /\ worker' = [worker EXCEPT ![b] = next_scope]
    /\ assigned' = [assigned EXCEPT ![b] = s]
    /\ next_scope' = next_scope + 1
    /\ UNCHANGED <<queueVars, buildVars, streamVars, cancelled>>

WorkerEnded(b, w) ==
    /\ worker[b] = w
    /\ worker' = [worker EXCEPT ![b] = 0]
    /\ UNCHANGED <<queueVars, buildVars, streamVars, assigned, next_scope, cancelled>>

\* Mutant: the cancelled worker stays the worker of the build.
KeepsWorker(b) == worker

WithoutWorker(b) == [worker EXCEPT ![b] = 0]

\* reset_for_retry; drain_store cancels the worker first.
ResetForRetry(b, cancels) ==
    /\ IsBuilding(b)
    /\ ~IsDone(b)
    /\ worker' = WithoutWorker(b)
    /\ cancelled' = IF cancels THEN cancelled \cup {worker[b]} ELSE cancelled
    /\ UNCHANGED <<queueVars, buildVars, streamVars, assigned, next_scope>>

-----------------------------------------------------------------------------
Next ==
    \/ \E k \in Key, r \in Request \cup {None}, delegated \in BOOLEAN : Enqueue(k, r, delegated)
    \/ \E b \in BuildId, outcome \in {"success", "failure"} : Complete(b, outcome)
    \/ \E b \in BuildId : DecideUnwanted(b)
    \/ \E b \in BuildId : CancelUnwanted(b)
    \/ \E r \in Request : ReleaseRequest(r)
    \/ \E r \in Request : PruneAfterRelease(r)
    \/ PruneAfterStandalone
    \/ \E b \in BuildId, c \in Client : SubscribeSilently(b, c)
    \/ \E b \in BuildId, c \in Client : SubscribeWrites(b, c)
    \/ \E ok \in BOOLEAN : SubscribeEnds(ok)
    \/ \E b \in BuildId, c \in Client : Unsubscribe(b, c)
    \/ \E b \in BuildId : PostLog(b)
    \/ \E b \in BuildId, c \in Client : DropDeadSubscriber(b, c)
    \/ \E b \in BuildId, s \in Store : SpawnWorker(b, s)
    \/ \E b \in BuildId, w \in Scope : WorkerEnded(b, w)
    \/ \E b \in BuildId, cancels \in BOOLEAN : ResetForRetry(b, cancels)

Spec == Init /\ [][Next]_vars

-----------------------------------------------------------------------------
(* Properties.                                                             *)

\* Deduplication: of one key there is at most one unfinished build, it is in
\* the queue, and enqueue and the DAG lookups find it under its key.  A prune
\* or a newer build never hides a build that still runs.
UnfinishedIsFound ==
    \A b \in BuildId :
        b < next_id /\ ~IsDone(b) => b \in by_id /\ by_path[key[b]] = b

\* The two directions of a hold agree: _held names exactly the builds whose
\* holders name the request, and the queue drops no build somebody holds.  A
\* release that goes by _held therefore lets go of everything.
HoldsAgree ==
    \A r \in Request :
        /\ held[r] = {b \in BuildId : r \in holders[b]}
        /\ held[r] \subseteq by_id

\* Nothing runs for nobody: a build without an answer is held by a goal
\* request or wanted by a standalone caller.
UnfinishedIsWanted ==
    \A b \in BuildId :
        b < next_id /\ ~IsDone(b) => holders[b] # {} \/ standalone[b] > 0

\* A request is marked as given up only while it holds a build that failed,
\* and only without keep-going: no mark survives a release, and no live
\* request loses its builds to the mark of an older one.
GaveUpForAReason ==
    \A r \in given_up :
        /\ r \notin KeepsGoing
        /\ \E b \in held[r] : answer[b] = "failure"

\* release_request: the give-up mark and max-jobs go in the same step, so no
\* pass sees a request forgotten while it still holds a build.
HolderIsKnown ==
    \A r \in Request : held[r] # {} <=> r \in known

\* Every cancelled worker belongs to a finished build or was replaced: the
\* current worker of an unfinished build is never cancelled, so it can still
\* answer.
LiveWorkerNotCancelled ==
    \A b \in BuildId : IsBuilding(b) /\ ~IsDone(b) => worker[b] \notin cancelled

\* An answer is final: complete, fail and every cancel leave a build that
\* has one alone, so no two waiters of one build read different results.
AnswerIsFinal ==
    [][\A b \in BuildId : IsDone(b) => answer'[b] = answer[b]]_vars

\* Every subscription can still be taken back: a build that a client streams,
\* or is being added to under the lock, stays in the queue, where unsubscribe
\* looks for it; and the replay under way is that client's first.
StreamedIsQueued ==
    /\ \A b \in BuildId : Subscribers(b) # {} => b \in by_id
    /\ lock # None => lock[1] \in by_id /\ subs[lock[1]][lock[2]] = 0

\* A client that leaves, once or for each of its references, never ends a
\* build that another client still streams: the unsubscribe that cancels a
\* build leaves nobody in its subscriber list.
CancelSparesListeners ==
    [][\A b \in BuildId :
         subs'[b] # subs[b] /\ ~IsDone(b) /\ answer'[b] = "cancelled"
            => Subscribers(b)' = {}]_vars
=============================================================================
