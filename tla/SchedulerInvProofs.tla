------------------------- MODULE SchedulerInvProofs -------------------------
(***************************************************************************)
(* The inductive invariant of Scheduler, for any requests, keys, stores,    *)
(* limits, faults and bounds: it holds at the start, and every step keeps   *)
(* the queue under it, the types, the owners of the workers and the stores  *)
(* of the running builds.                                                   *)
(***************************************************************************)
EXTENDS Scheduler, BuildQueueProofs, FiniteSetTheorems

\* A worker that may still build or collect.  Without a response that
\* outlives its retry, a worker about to answer is one too.
Live(w) ==
    /\ \/ task[w].at \in {"spawned", "running", "collecting"}
       \/ task[w].at = "answering" /\ "hold" \notin Faults
    /\ w \notin cancelled

\* The builds of the pass under way were queued and have no worker: only the
\* pass itself starts one.
PassOwns ==
    /\ pass # "idle" => placing \in BuildId \ todo
    /\ \A b \in todo \cup {placing} : b # 0 => b < next_id /\ worker[b] = 0
    /\ pass = "idle" => todo = {} /\ placing = 0

\* A live worker is the worker of its build, on the store the build names.
LiveOwns ==
    \A w \in Scope :
        /\ task[w].at # "none" => task[w].build \in BuildId /\ task[w].store \in Store
        /\ task[w].at = "answering" => task[w].result \in {"success", "failure"}
        /\ w >= next_scope => task[w].at = "none" /\ task[w].build = 0
        /\ Live(w) => /\ worker[task[w].build] = w
                      /\ assigned[task[w].build] = task[w].store

\* While the loop cannot be woken and no client hangs up, the builds of the
\* pass are unanswered, and whoever waits is among them or noted.
NobodyIsLost ==
    Impatient = {} /\ ~trigger =>
        /\ \A b \in todo \cup {placing} : b # 0 => ~IsDone(b)
        /\ \A b \in BuildId : Pending(b) =>
             IF pass = "idle" THEN builds_waiting ELSE b \in todo \cup {placing} \/ waiting_slot

\* A worker that is about to answer with success has the outputs.
AnswersWhatItHas ==
    "hold" \notin Faults =>
        /\ SuccessIsCollected
        /\ \A w \in Scope : task[w].at = "answering" /\ task[w].result = "success"
                            => task[w].build \in collected

\* The inductive invariant.
SchedInv ==
    /\ Inv
    /\ SchedulerTypeOK
    /\ PassOwns
    /\ LiveOwns
    /\ RunningStoreIsPresent
    /\ NobodyIsLost
    /\ AnswersWhatItHas

\* The scheduler starts with an empty queue, no pass and no worker.
LEMMA SchedInit == SchedulerInit => SchedInv
  <1> SUFFICES ASSUME SchedulerInit PROVE SchedInv
    BY ZenonT(120)
  <1> USE ConstantsAssumption, SchedulerAssumption
  <1>1. Inv
    BY ZenonT(120), InvInit DEF SchedulerInit
  <1>2. SchedulerTypeOK
    <2>1. failures \in [BuildId -> [Store -> 0..MaxStoreRetries]] /\ load \in [Store -> Nat]
      <3>1. 0 \in 0..MaxStoreRetries /\ 0 \in Nat
        BY SMTT(120)
      <3> QED BY ZenonT(120), <3>1 DEF SchedulerInit
    <2>2. task \in [Scope -> [build : BuildId \cup {0}, store : Store \cup {None},
                             at : TaskState, result : {"success", "failure", None}]]
      BY ZenonT(120) DEF SchedulerInit, TaskState
    <2> QED BY ZenonT(120), <1>1, <2>1, <2>2 DEF Inv, SchedulerInit, SchedulerTypeOK
  <1>3. PassOwns
    BY ZenonT(120) DEF SchedulerInit, PassOwns
  <1>4. LiveOwns
    BY ZenonT(120) DEF SchedulerInit, LiveOwns, Live
  <1>5. RunningStoreIsPresent
    BY ZenonT(120) DEF SchedulerInit, Init, RunningStoreIsPresent
  <1>6. NobodyIsLost
    BY ZenonT(120) DEF SchedulerInit, Init, NobodyIsLost, Pending
  <1>7. AnswersWhatItHas
    BY ZenonT(120) DEF SchedulerInit, Init, AnswersWhatItHas, SuccessIsCollected, Outcome
  <1> QED BY SMTT(120), <1>1, <1>2, <1>3, <1>4, <1>5, <1>6, <1>7 DEF SchedInv

\* Wherever a pass goes on to, it has its builds from the rest of its own list.
LEMMA GoesOn ==
  ASSUME NEW rest \in SUBSET BuildId, NEW counts \in [Store -> Nat], NEW waits \in BOOLEAN,
         builds_waiting \in BOOLEAN, PassGoesOn(rest, counts, waits)
  PROVE  /\ pass' \in {"idle", "cancelling", "measuring"}
         /\ todo' \subseteq rest /\ load' \in [Store -> Nat]
         /\ waiting_slot' \in BOOLEAN /\ builds_waiting' \in BOOLEAN
         /\ pass' # "idle" => /\ placing' \in rest /\ placing' \notin todo' /\ placing' # 0
                              /\ rest = todo' \cup {placing'} /\ waiting_slot' = waits
         /\ pass' = "idle" => /\ placing' = 0 /\ todo' = {} /\ rest = {}
                              /\ builds_waiting' = waits
  <1>1. CASE rest = {}
    <2>1. /\ pass' = "idle" /\ placing' = 0 /\ todo' = {}
          /\ load' = [s \in Store |-> 0]
          /\ waiting_slot' = FALSE /\ builds_waiting' = waits
      BY <1>1, ZenonT(120) DEF PassGoesOn
    <2> QED BY ZenonT(120), <1>1, <2>1
  <1>2. CASE rest # {}
    <2>1. PICK b \in rest :
            /\ pass' = IF NobodyWants(b)' THEN "cancelling" ELSE "measuring"
            /\ placing' = b
            /\ todo' = rest \ {b}
            /\ load' = counts
            /\ waiting_slot' = waits
            /\ UNCHANGED builds_waiting
      BY ZenonT(120), <1>2 DEF PassGoesOn
    <2>2. pass' \in {"cancelling", "measuring"}
      BY ZenonT(120), <2>1
    <2>3. b # 0
      BY SMTT(120), ConstantsAssumption DEF BuildId
    <2> QED BY ZenonT(120), <1>2, <2>1, <2>2, <2>3
  <1> QED BY ZenonT(120), <1>1, <1>2

-----------------------------------------------------------------------------
(* The queue under the scheduler.                                          *)

\* A step of the scheduler is one call of the queue or leaves it alone, but for
\* the pass that cancels and the drain that puts several builds back.
LEMMA Calls ==
  ASSUME SchedInv, SchedulerNext
  PROVE  [Next]_vars \/ PassCancels \/ \E s \in Store : DrainEnds(s)
  <1> USE DEF SchedInv
  <1>1. ASSUME NEW k \in Key, NEW r \in Request, BuildDerivation(k, r)
        PROVE  Next
    BY ZenonT(120), <1>1 DEF BuildDerivation, Next
  <1>2. ASSUME NEW r \in Request, Release(r) \/ PruneReleased(r)
        PROVE  Next
    BY ZenonT(120), <1>2 DEF Release, PruneReleased, Next
  <1>3. ASSUME PassStarts \/ PassWaits \/ PassRefuses \/ PassBreaks \/ PassCrashes
        PROVE  UNCHANGED vars
    BY ZenonT(120), <1>3 DEF PassStarts, PassWaits, PassRefuses, PassBreaks, PassCrashes
  <1>4. ASSUME NEW s \in Store, PassSpawns(s)
        PROVE  Next
    <2>1. placing \in BuildId /\ SpawnWorker(placing, s)
      BY ZenonT(120), <1>4 DEF PassSpawns, PassOwns
    <2> QED BY ZenonT(120), <2>1 DEF Next
  <1>5. ASSUME PassFails
        PROVE  [Next]_vars
    <2>1. placing \in BuildId /\ (UNCHANGED vars \/ Complete(placing, "failure"))
      BY ZenonT(120), <1>5 DEF PassFails, PassOwns
    <2> QED BY ZenonT(120), <2>1 DEF Next
  <1>6. ASSUME NEW w \in Scope, TaskStarts(w)
        PROVE  UNCHANGED vars
    <2>1. Live(w) /\ task[w].build \in BuildId
      BY ZenonT(120), <1>6 DEF TaskStarts, Live, LiveOwns
    <2>2. assigned[task[w].build] = task[w].store
      BY ZenonT(120), <2>1 DEF LiveOwns
    <2>3. assigned' = assigned
      BY SMTT(120), <1>6, <2>1, <2>2 DEF TaskStarts, SchedulerTypeOK, TypeOK
    <2> QED BY ZenonT(120), <1>6, <2>3 DEF TaskStarts, vars, workerVars
  <1>7. ASSUME NEW w \in Scope, TaskBuilds(w) \/ TaskCollects(w) \/ TaskLosesOutputs(w) \/ TaskFails(w)
        PROVE  UNCHANGED vars
    BY ZenonT(120), <1>7 DEF TaskBuilds, TaskCollects, TaskLosesOutputs, TaskFails
  <1>8. ASSUME NEW w \in Scope, TaskRetries(w) \/ TaskRetriesWithResponse(w)
        PROVE  Next
    <2> DEFINE b == task[w].build
    <2>1. Live(w) /\ b \in BuildId /\ RetriesOn(b, task[w].store)
      BY ZenonT(120), <1>8 DEF TaskRetries, TaskRetriesWithResponse, Live, LiveOwns
    <2>2. worker[b] = w /\ w # 0
      BY SMTT(120), <2>1 DEF LiveOwns, Scope
    <2>3. IF IsDone(b) THEN WorkerEnded(b, w) ELSE ResetForRetry(b, FALSE)
      BY ZenonT(120), <2>1, <2>2 DEF RetriesOn, WorkerEnded, ResetForRetry, WithoutWorker, IsBuilding
    <2> QED BY ZenonT(120), <2>1, <2>3 DEF Next
  <1>9. ASSUME NEW w \in Scope, TaskAnswers(w)
        PROVE  [Next]_vars
    <2>1. /\ task[w].build \in BuildId /\ task[w].result \in {"success", "failure"}
          /\ UNCHANGED vars \/ Complete(task[w].build, task[w].result)
      BY ZenonT(120), <1>9 DEF TaskAnswers, LiveOwns
    <2> QED BY ZenonT(120), <2>1 DEF Next
  <1>10. ASSUME NEW w \in Scope, TaskEnds(w)
         PROVE  [Next]_vars
    <2>1. task[w].build \in BuildId /\ (UNCHANGED vars \/ WorkerEnded(task[w].build, w))
      BY ZenonT(120), <1>10 DEF TaskEnds, Active, LiveOwns
    <2> QED BY ZenonT(120), <2>1 DEF Next
  <1>11. ASSUME NEW s \in Store, DrainStarts(s) \/ StoreReturns(s) \/ BreakerOpens(s) \/ Sample(s)
                                 \/ \E reconnected \in BOOLEAN : BreakerCloses(s, reconnected)
         PROVE  UNCHANGED vars
    BY ZenonT(120), <1>11 DEF DrainStarts, StoreReturns, BreakerOpens, Sample, BreakerCloses
  <1> HIDE DEF SchedInv
  <1> QED BY ZenonT(120), <1>1, <1>2, <1>3, <1>4, <1>5, <1>6, <1>7, <1>8, <1>9, <1>10, <1>11
          DEF SchedulerNext, PassSteps, TaskSteps

\* cancel_unwanted of the pass answers what it cancels.
LEMMA PassCancelsStep == SchedInv /\ PassCancels => Inv'
  <1> SUFFICES ASSUME SchedInv, PassCancels PROVE Inv'
    BY ZenonT(120)
  <1> USE ConstantsAssumption
  <1>1. PICK S \in SUBSET BuildId : S \subseteq by_id /\ CancelLocked(S)
    BY ZenonT(120) DEF PassCancels, SchedInv, Inv, TypeOK
  <1>2. UNCHANGED <<queueVars, key, holders, standalone, streamVars, worker, assigned, next_scope>>
    BY ZenonT(120) DEF PassCancels
  <1> USE DEF SchedInv, Inv
  <1>3. TypeOK'
    BY ZenonT(120), <1>1, <1>2, TypeCancel DEF TypeOK, queueVars, streamVars
  <1>4. \A b \in BuildId : /\ IsDone(b) => answer'[b] = answer[b]
                           /\ ~IsDone(b)' => ~IsDone(b)
    BY ZenonT(120), <1>1 DEF CancelLocked, IsDone
  <1>5. Fresh' /\ PathsNameBuilds' /\ UnfinishedIsFound'
    <2>1. ASSUME NEW b \in BuildId, b \notin by_id PROVE answer'[b] = answer[b]
      BY ZenonT(120), <1>1, <2>1 DEF CancelLocked
    <2>2. Fresh'
      BY SMTT(120), <1>2, <2>1 DEF Fresh, queueVars, streamVars
    <2>3. PathsNameBuilds' /\ UnfinishedIsFound'
      BY ZenonT(120), <1>2, <1>4 DEF PathsNameBuilds, UnfinishedIsFound, queueVars
    <2> QED BY ZenonT(120), <2>2, <2>3
  <1>6. HoldsInv'
    <2>1. HoldsAgree' /\ HolderIsKnown'
      BY ZenonT(120), <1>2 DEF HoldsInv, HoldsAgree, HolderIsKnown, queueVars
    <2>2. \A r \in Request : held[r] \subseteq BuildId
      BY ZenonT(120) DEF TypeOK
    <2>3. ASSUME NEW b \in BuildId, answer[b] = "failure" PROVE answer'[b] = "failure"
      BY ZenonT(120), <1>4, <2>3 DEF IsDone, Outcome
    <2>4. given_up \subseteq Request
      BY ZenonT(120) DEF TypeOK
    <2>5. GaveUpForAReason'
      BY SMTT(120), <1>2, <2>2, <2>3, <2>4 DEF HoldsInv, GaveUpForAReason, queueVars
    <2> QED BY ZenonT(120), <2>1, <2>5 DEF HoldsInv
  <1>7. UnfinishedIsWanted' /\ StreamedIsQueued'
    BY ZenonT(120), <1>2, <1>4 DEF UnfinishedIsWanted, StreamedIsQueued, Subscribers, queueVars, streamVars
  <1>8. ScopesIssued' /\ LiveWorkerNotCancelled'
    BY SMTT(120), <1>1, <1>2 DEF ScopesIssued, LiveWorkerNotCancelled, CancelLocked, IsDone, IsBuilding, TypeOK,
       Outcome, Scope
  <1> QED BY ZenonT(120), <1>3, <1>5, <1>6, <1>7, <1>8

\* A drain takes the workers it cancels off their builds.
LEMMA DrainEndsStep ==
  ASSUME SchedInv, NEW s \in Store, DrainEnds(s)
  PROVE  Inv'
  <1> USE ConstantsAssumption DEF SchedInv, Inv
  <1> DEFINE back == {b \in by_id : ~IsDone(b) /\ assigned[b] = s}
  <1>1. /\ cancelled' = cancelled \cup {worker[b] : b \in {x \in back : IsBuilding(x)}}
        /\ worker' = [b \in BuildId |-> IF b \in back THEN 0 ELSE worker[b]]
        /\ UNCHANGED <<queueVars, buildVars, streamVars, assigned, next_scope>>
    BY ZenonT(120) DEF DrainEnds, CancelsWorkers, ResetsWorkers
  <1>2. back \subseteq BuildId
    BY ZenonT(120) DEF TypeOK
  <1>3. TypeOK'
    BY SMTT(120), <1>1, <1>2 DEF TypeOK, IsBuilding, queueVars, buildVars, streamVars
  <1>4. Fresh'
    BY ZenonT(120), <1>1 DEF Fresh, queueVars, buildVars, streamVars
  <1>5. PathsNameBuilds' /\ UnfinishedIsFound' /\ UnfinishedIsWanted' /\ StreamedIsQueued' /\ HoldsInv'
    BY ZenonT(120), <1>1 DEF PathsNameBuilds, UnfinishedIsFound, UnfinishedIsWanted, StreamedIsQueued, Subscribers,
       HoldsInv, HoldsAgree, HolderIsKnown, GaveUpForAReason, IsDone, queueVars, buildVars, streamVars
  <1>6. ScopesIssued' /\ LiveWorkerNotCancelled'
    BY SMTT(120), <1>1, <1>2 DEF ScopesIssued, LiveWorkerNotCancelled, IsDone, IsBuilding, TypeOK, Scope, buildVars
  <1> QED BY ZenonT(120), <1>3, <1>4, <1>5, <1>6

\* The queue keeps its invariant under the scheduler.
LEMMA QueueKept == SchedInv /\ [SchedulerNext]_allVars => Inv'
  <1> SUFFICES ASSUME SchedInv, [SchedulerNext]_allVars PROVE Inv'
    BY ZenonT(120)
  <1>1. CASE [Next]_vars
    BY ZenonT(120), <1>1, InvStep DEF SchedInv
  <1>2. CASE UNCHANGED allVars
    BY ZenonT(120), <1>1, <1>2 DEF allVars
  <1> QED BY ZenonT(120), <1>1, <1>2, Calls, PassCancelsStep, DrainEndsStep

-----------------------------------------------------------------------------
(* The scheduler's own state.                                              *)

\* A pass counts the running builds of each store once.
LEMMA CountsAreNumbers ==
  ASSUME NEW S \in SUBSET BuildId
  PROVE  Cardinality(S) \in Nat
  <1>1. IsFiniteSet(BuildId)
    BY SMTT(120), FS_Interval, ConstantsAssumption DEF BuildId
  <1> QED BY ZenonT(120), <1>1, FS_Subset, FS_CardinalityType

\* A pass starts with every build that waits.
LEMMA StartsWithAll ==
  ASSUME SchedInv, PassStarts
  PROVE  /\ {b \in BuildId : Pending(b)} \in SUBSET BuildId
         /\ \A b \in BuildId : Pending(b) => b < next_id /\ worker[b] = 0
         /\ \E counts \in [Store -> Nat] : PassGoesOn({b \in BuildId : Pending(b)}, counts, FALSE)
  <1> DEFINE pending == {b \in by_id : ~IsDone(b)}
             running == [s \in Store |-> Cardinality({b \in pending : RunningOn(b, s)})]
  <1>1. by_id \subseteq BuildId
    BY ZenonT(120) DEF SchedInv, Inv, TypeOK
  <1>2. running \in [Store -> Nat]
    <2>1. ASSUME NEW s \in Store PROVE Cardinality({b \in pending : RunningOn(b, s)}) \in Nat
      BY ZenonT(120), <1>1, CountsAreNumbers
    <2> QED BY ZenonT(120), <2>1
  <1>3. {b \in pending : ~IsBuilding(b)} = {b \in BuildId : Pending(b)}
    BY ZenonT(120), <1>1 DEF Pending
  <1>4. PassGoesOn({b \in BuildId : Pending(b)}, running, FALSE)
    BY ZenonT(120), <1>3 DEF PassStarts
  <1>5. ASSUME NEW b \in BuildId, Pending(b)
        PROVE  b < next_id /\ worker[b] = 0
    <2>1. next_id \in Nat
      BY SMTT(120), ConstantsAssumption DEF SchedInv, Inv, TypeOK
    <2> QED BY SMTT(120), <1>5, <2>1, ConstantsAssumption DEF Pending, IsBuilding, SchedInv, Inv, Fresh, BuildId
  <1> HIDE DEF running
  <1> QED BY ZenonT(120), <1>2, <1>4, <1>5

Task == [build : BuildId \cup {0}, store : Store \cup {None},
         at : TaskState, result : {"success", "failure", None}]

\* A worker's task keeps its shape wherever it goes.
LEMMA TaskMoves ==
  ASSUME SchedulerTypeOK, NEW w \in Scope, NEW at \in TaskState, NEW result \in {"success", "failure", None},
         task' = [task EXCEPT ![w].at = at, ![w].result = result]
  PROVE  /\ task' \in [Scope -> Task]
         /\ task'[w].at = at /\ task'[w].result = result
         /\ task'[w].build = task[w].build /\ task'[w].store = task[w].store
         /\ \A v \in Scope \ {w} : task'[v] = task[v]
  <1>1. task \in [Scope -> Task]
    BY ZenonT(120) DEF SchedulerTypeOK, Task
  <1>2. ASSUME NEW t \in Task
        PROVE  /\ [t EXCEPT !.at = at] \in Task
               /\ [t EXCEPT !.at = at].at = at
               /\ [t EXCEPT !.at = at].build = t.build
               /\ [t EXCEPT !.at = at].store = t.store
    BY ZenonT(120) DEF Task
  <1>3. ASSUME NEW t \in Task
        PROVE  /\ [t EXCEPT !.result = result] \in Task
               /\ [t EXCEPT !.result = result].at = t.at
               /\ [t EXCEPT !.result = result].result = result
               /\ [t EXCEPT !.result = result].build = t.build
               /\ [t EXCEPT !.result = result].store = t.store
    BY ZenonT(120) DEF Task
  <1> DEFINE mid == [task EXCEPT ![w] = [task[w] EXCEPT !.at = at]]
  <1>4. mid \in [Scope -> Task] /\ mid[w] = [task[w] EXCEPT !.at = at]
        /\ \A v \in Scope \ {w} : mid[v] = task[v]
    BY ZenonT(120), <1>1, <1>2
  <1>5. task' = [mid EXCEPT ![w] = [mid[w] EXCEPT !.result = result]]
    BY ZenonT(120), <1>4
  <1> HIDE DEF mid
  <1>6. task'[w] = [mid[w] EXCEPT !.result = result]
    BY ZenonT(120), <1>4, <1>5
  <1>7. task' \in [Scope -> Task] /\ \A v \in Scope \ {w} : task'[v] = task[v]
    <2>1. [mid[w] EXCEPT !.result = result] \in Task
      BY ZenonT(120), <1>3, <1>4
    <2> QED BY SMTT(120), <1>4, <1>5, <2>1
  <1> QED BY SMTT(120), <1>1, <1>2, <1>3, <1>4, <1>6, <1>7

\* The types of the scheduler's own variables, in the groups that the actions
\* leave alone together.
PassTypes ==
    /\ pass \in {"idle", "cancelling", "measuring", "failing"}
    /\ todo \subseteq BuildId /\ placing \in BuildId \cup {0}
    /\ load \in [Store -> Nat]
    /\ waiting_slot \in BOOLEAN /\ builds_waiting \in BOOLEAN
ResultTypes ==
    /\ failures \in [BuildId -> [Store -> 0..MaxStoreRetries]]
    /\ owner \in [BuildId -> Request \cup {None}]
    /\ collected \subseteq BuildId
StoreTypes ==
    /\ status \in [Store -> {"up", "draining", "gone"}]
    /\ unhealthy \subseteq Store /\ unfit \subseteq Store
TaskTypes == task \in [Scope -> Task]
OwnTypes == trigger \in BOOLEAN /\ PassTypes /\ ResultTypes /\ StoreTypes /\ TaskTypes

\* The type invariant is the queue's and the scheduler's own.
LEMMA TypesSplit == /\ SchedulerTypeOK <=> TypeOK /\ OwnTypes
                    /\ SchedulerTypeOK' <=> TypeOK' /\ OwnTypes'
  BY ZenonT(120) DEF SchedulerTypeOK, OwnTypes, PassTypes, ResultTypes, StoreTypes, TaskTypes, Task

\* What an action leaves alone keeps its type.
LEMMA TypesKept ==
  /\ PassTypes /\ UNCHANGED passVars => PassTypes'
  /\ StoreTypes /\ UNCHANGED storeVars => StoreTypes'
  /\ ResultTypes /\ UNCHANGED resultVars => ResultTypes'
  /\ TaskTypes /\ UNCHANGED task => TaskTypes'
  BY ZenonT(120) DEF PassTypes, passVars, StoreTypes, storeVars, ResultTypes, resultVars, TaskTypes

\* A pass that goes on keeps the types.
LEMMA PassTypesGoOn ==
  ASSUME PassTypes, NEW counts \in [Store -> Nat], NEW waits \in BOOLEAN, NEW rest \in SUBSET BuildId,
         PassGoesOn(rest, counts, waits)
  PROVE  PassTypes'
  <1>1. builds_waiting \in BOOLEAN
    BY ZenonT(120) DEF PassTypes
  <1>2. /\ pass' \in {"idle", "cancelling", "measuring"} /\ todo' \subseteq rest
        /\ load' \in [Store -> Nat] /\ waiting_slot' \in BOOLEAN /\ builds_waiting' \in BOOLEAN
        /\ placing' \in rest \cup {0}
    BY ZenonT(120), <1>1, GoesOn
  <1> QED BY ZenonT(120), <1>2 DEF PassTypes

\* A store's failure count stays within the limit.
LEMMA OneMoreInRange ==
  ASSUME NEW n \in 0..MaxStoreRetries
  PROVE  OneMore(n) \in 0..MaxStoreRetries
  BY SMTT(120), SchedulerAssumption DEF OneMore

\* Every step of a pass keeps the types.
LEMMA PassTypeStep ==
  ASSUME SchedInv, PassSteps
  PROVE  OwnTypes'
  <1>0. TypeOK /\ OwnTypes
    BY ZenonT(120), TypesSplit DEF SchedInv
  <1> USE TypesKept DEF OwnTypes
  <1>t. todo \in SUBSET BuildId /\ load \in [Store -> Nat] /\ waiting_slot \in BOOLEAN /\ builds_waiting \in BOOLEAN
    BY ZenonT(120), <1>0 DEF PassTypes
  <1>1. CASE PassStarts
    <2>1. trigger' = FALSE /\ UNCHANGED <<storeVars, resultVars, task>>
      BY ZenonT(120), <1>1 DEF PassStarts
    <2>2. PassTypes'
      <3>1. FALSE \in BOOLEAN
        BY ZenonT(120)
      <3> QED BY ZenonT(120), <1>0, <1>1, <3>1, StartsWithAll, PassTypesGoOn
    <2> QED BY ZenonT(120), <1>0, <2>1, <2>2
  <1>2. ASSUME PassGoesOn(todo, load, waiting_slot), UNCHANGED <<trigger, storeVars, resultVars, task>>
        PROVE  OwnTypes'
    BY SMTT(120), <1>0, <1>t, <1>2, PassTypesGoOn
  <1>3. CASE PassCancels
    BY SMTT(120), <1>2, <1>3 DEF PassCancels
  <1>4. CASE PassFails
    BY SMTT(120), <1>2, <1>4 DEF PassFails
  <1>5. CASE PassCrashes
    <2>1. PassGoesOn({}, load, builds_waiting) /\ UNCHANGED <<trigger, storeVars, resultVars, task>>
      BY ZenonT(120), <1>5 DEF PassCrashes
    <2>2. {} \in SUBSET BuildId
      BY ZenonT(120)
    <2> QED BY SMTT(120), <1>0, <1>t, <2>1, <2>2, PassTypesGoOn
  <1>6. CASE PassWaits
    <2>1. PassGoesOn(todo, load, TRUE) /\ UNCHANGED <<trigger, storeVars, resultVars, task>>
      BY ZenonT(120), <1>6 DEF PassWaits, Noted
    <2>2. TRUE \in BOOLEAN
      BY ZenonT(120)
    <2> QED BY ZenonT(120), <1>0, <1>t, <2>1, <2>2, PassTypesGoOn
  <1>7. ASSUME NEW s \in Store, PassSpawns(s)
        PROVE  OwnTypes'
    <2>1. Counted(s) \in [Store -> Nat]
      BY SMTT(120), <1>t DEF Counted
    <2>2. PassGoesOn(todo, Counted(s), waiting_slot) /\ UNCHANGED <<trigger, storeVars, resultVars>>
      BY ZenonT(120), <1>7 DEF PassSpawns
    <2>3. PassTypes'
      BY ZenonT(120), <1>0, <1>t, <2>1, <2>2, PassTypesGoOn
    <2>4. placing \in BuildId
      BY ZenonT(120), <1>7 DEF PassSpawns, SchedInv, PassOwns
    <2>5. next_scope \in Scope
      BY SMTT(120), <1>0, <1>7, ConstantsAssumption DEF PassSpawns, SpawnWorker, TypeOK, Scope
    <2>6. [build |-> placing, store |-> s, at |-> "spawned", result |-> None] \in Task
      BY ZenonT(120), <2>4 DEF Task, TaskState
    <2>7. TaskTypes'
      <3> HIDE DEF Task
      <3>1. task \in [Scope -> Task]
        BY ZenonT(120), <1>0 DEF TaskTypes
      <3> QED BY ZenonT(120), <1>7, <2>5, <2>6, <3>1 DEF PassSpawns, TaskTypes
    <2> QED BY SMTT(120), <1>0, <2>2, <2>3, <2>7
  <1>8. CASE PassRefuses \/ PassBreaks
    <2>1. /\ pass' = "failing" /\ UNCHANGED <<trigger, storeVars, resultVars, task>>
          /\ UNCHANGED <<todo, placing, load, waiting_slot, builds_waiting>>
      BY ZenonT(120), <1>8 DEF PassRefuses, PassBreaks
    <2>2. PassTypes'
      BY ZenonT(120), <1>0, <2>1 DEF PassTypes
    <2> QED BY ZenonT(120), <1>0, <2>1, <2>2
  <1> QED BY ZenonT(120), <1>1, <1>3, <1>4, <1>5, <1>6, <1>7, <1>8 DEF PassSteps

\* A step of a worker moves its own task on, and leaves the pass, the stores,
\* the cancelled scopes and the other tasks alone.
LEMMA TaskShape ==
  ASSUME SchedInv, NEW w \in Scope, TaskSteps(w)
  PROVE  /\ task' \in [Scope -> Task]
         /\ task'[w].build = task[w].build /\ task'[w].store = task[w].store
         /\ \A v \in Scope \ {w} : task'[v] = task[v]
         /\ task[w].at # "none" /\ task[w].build \in BuildId /\ task[w].store \in Store
         /\ UNCHANGED <<passVars, storeVars, owner, next_scope, cancelled, next_id, by_id, key, assigned, holders, standalone>>
         /\ trigger' = trigger \/ trigger' = TRUE
  <1> DEFINE Moved == /\ task' \in [Scope -> Task]
                      /\ task'[w].build = task[w].build /\ task'[w].store = task[w].store
                      /\ \A v \in Scope \ {w} : task'[v] = task[v]
  <1>0. SchedulerTypeOK
    BY ZenonT(120) DEF SchedInv
  <1>1. ASSUME NEW at \in TaskState, Goes(w, at)
        PROVE  Moved
    BY ZenonT(120), <1>0, <1>1, TaskMoves DEF Goes
  <1>2. ASSUME NEW result \in {"success", "failure"}, Answers(w, result)
        PROVE  Moved
    <2>1. "answering" \in TaskState
      BY ZenonT(120) DEF TaskState
    <2> QED BY ZenonT(120), <1>0, <1>2, <2>1, TaskMoves DEF Answers
  <1>3. {"running", "collecting", "leaving", "ended"} \subseteq TaskState
    BY ZenonT(120) DEF TaskState
  <1>4. Moved
    <2> HIDE DEF Moved
    <2> QED BY ZenonT(120), <1>1, <1>2, <1>3 DEF TaskSteps, TaskStarts, TaskBuilds, TaskCollects, TaskLosesOutputs,
            TaskFails, TaskRetries, TaskRetriesWithResponse, TaskAnswers, TaskEnds
  <1>5. task[w].at # "none"
    BY ZenonT(120) DEF TaskSteps, TaskStarts, TaskBuilds, TaskCollects, TaskLosesOutputs,
       TaskFails, TaskRetries, TaskRetriesWithResponse, TaskAnswers, TaskEnds, Active
  <1>6. task[w].build \in BuildId /\ task[w].store \in Store
    BY ZenonT(120), <1>5 DEF SchedInv, LiveOwns
  <1>7. UNCHANGED assigned
    <2>1. CASE TaskStarts(w)
      <3>1. Live(w)
        BY ZenonT(120), <2>1 DEF TaskStarts, Live
      <3>2. assigned[task[w].build] = task[w].store
        BY ZenonT(120), <3>1 DEF SchedInv, LiveOwns
      <3>3. assigned \in [BuildId -> Store \cup {None}]
        BY ZenonT(120) DEF SchedInv, SchedulerTypeOK, TypeOK
      <3> QED BY ZenonT(120), <1>6, <2>1, <3>2, <3>3 DEF TaskStarts
    <2>2. CASE TaskBuilds(w) \/ TaskCollects(w) \/ TaskLosesOutputs(w) \/ TaskFails(w)
      BY ZenonT(120), <2>2 DEF TaskBuilds, TaskCollects, TaskLosesOutputs, TaskFails, vars, workerVars
    <2>3. CASE TaskRetries(w) \/ TaskRetriesWithResponse(w)
      BY ZenonT(120), <2>3 DEF TaskRetries, TaskRetriesWithResponse, RetriesOn
    <2>4. CASE TaskAnswers(w)
      BY ZenonT(120), <2>4 DEF TaskAnswers, Complete, vars, workerVars
    <2>5. CASE TaskEnds(w)
      BY ZenonT(120), <2>5 DEF TaskEnds, WorkerEnded, vars, workerVars
    <2> QED BY SMTT(120), <2>1, <2>2, <2>3, <2>4, <2>5 DEF TaskSteps
  <1>8. /\ UNCHANGED <<passVars, storeVars, owner, next_scope, cancelled, next_id, by_id, key, holders, standalone>>
        /\ trigger' = trigger \/ trigger' = TRUE
    <2> USE DEF vars, workerVars, queueVars, buildVars, resultVars
    <2>1. CASE TaskStarts(w)
      BY ZenonT(120), <2>1 DEF TaskStarts
    <2>2. CASE TaskBuilds(w) \/ TaskCollects(w) \/ TaskLosesOutputs(w) \/ TaskFails(w)
      BY ZenonT(120), <2>2 DEF TaskBuilds, TaskCollects, TaskLosesOutputs, TaskFails
    <2>3. CASE TaskRetries(w) \/ TaskRetriesWithResponse(w)
      BY ZenonT(120), <2>3 DEF TaskRetries, TaskRetriesWithResponse, RetriesOn
    <2>4. CASE TaskAnswers(w)
      BY ZenonT(120), <2>4 DEF TaskAnswers, Complete
    <2>5. CASE TaskEnds(w)
      BY ZenonT(120), <2>5 DEF TaskEnds, WorkerEnded
    <2> QED BY ZenonT(120), <2>1, <2>2, <2>3, <2>4, <2>5 DEF TaskSteps
  <1> QED BY SMTT(120), <1>4, <1>5, <1>6, <1>7, <1>8

\* Every step of a worker keeps the types.
LEMMA TaskTypeStep ==
  ASSUME SchedInv, NEW w \in Scope, TaskSteps(w)
  PROVE  OwnTypes'
  <1>0. OwnTypes
    BY ZenonT(120), TypesSplit DEF SchedInv
  <1>1. /\ TaskTypes' /\ UNCHANGED <<passVars, storeVars, owner>>
        /\ trigger' = trigger \/ trigger' = TRUE
        /\ task[w].build \in BuildId /\ task[w].store \in Store
    BY ZenonT(120), TaskShape DEF TaskTypes
  <1>2. trigger' \in BOOLEAN /\ PassTypes' /\ StoreTypes'
    BY ZenonT(120), <1>0, <1>1, TypesKept DEF OwnTypes
  <1>3. collected' \subseteq BuildId
    <2>1. collected \subseteq BuildId
      BY ZenonT(120), <1>0 DEF OwnTypes, ResultTypes
    <2>2. collected' \subseteq collected \cup {task[w].build}
      BY ZenonT(120) DEF TaskSteps, TaskStarts, TaskBuilds, TaskCollects, TaskLosesOutputs, TaskFails, TaskRetries,
         TaskRetriesWithResponse, TaskAnswers, TaskEnds, RetriesOn, resultVars
    <2> QED BY ZenonT(120), <1>1, <2>1, <2>2
  <1>4. failures' \in [BuildId -> [Store -> 0..MaxStoreRetries]]
    <2>1. failures \in [BuildId -> [Store -> 0..MaxStoreRetries]]
      BY ZenonT(120), <1>0 DEF OwnTypes, ResultTypes
    <2>2. CASE RetriesOn(task[w].build, task[w].store)
      <3> DEFINE b == task[w].build
                 s == task[w].store
      <3>1. failures[b][s] \in 0..MaxStoreRetries
        BY ZenonT(120), <1>1, <2>1
      <3>2. OneMore(failures[b][s]) \in 0..MaxStoreRetries
        BY ZenonT(120), <3>1, OneMoreInRange
      <3>3. failures' = [failures EXCEPT ![b] = [failures[b] EXCEPT ![s] = OneMore(failures[b][s])]]
        BY ZenonT(120), <1>1, <2>1, <2>2 DEF RetriesOn
      <3>4. [failures[b] EXCEPT ![s] = OneMore(failures[b][s])] \in [Store -> 0..MaxStoreRetries]
        BY SMTT(120), <1>1, <2>1, <3>2
      <3> QED BY ZenonT(120), <1>1, <2>1, <3>3, <3>4
    <2>3. CASE UNCHANGED failures
      BY ZenonT(120), <2>1, <2>3
    <2> QED BY ZenonT(120), <2>2, <2>3 DEF TaskSteps, TaskStarts, TaskBuilds, TaskCollects, TaskLosesOutputs, TaskFails,
            TaskRetries, TaskRetriesWithResponse, TaskAnswers, TaskEnds, resultVars
  <1>5. ResultTypes'
    BY ZenonT(120), <1>0, <1>1, <1>3, <1>4 DEF OwnTypes, ResultTypes
  <1> QED BY ZenonT(120), <1>1, <1>2, <1>5 DEF OwnTypes

\* Every step of the stores keeps the types.
LEMMA StoreTypeStep ==
  ASSUME SchedInv, NEW s \in Store,
         \/ DrainStarts(s) \/ DrainEnds(s) \/ StoreReturns(s) \/ BreakerOpens(s) \/ Sample(s)
         \/ \E reconnected \in BOOLEAN : BreakerCloses(s, reconnected)
  PROVE  OwnTypes'
  <1>0. OwnTypes
    BY ZenonT(120), TypesSplit DEF SchedInv
  <1>1. UNCHANGED <<passVars, task, owner, collected>>
    BY ZenonT(120) DEF DrainStarts, DrainEnds, StoreReturns, BreakerOpens, Sample, BreakerCloses, resultVars
  <1>2. PassTypes' /\ TaskTypes'
    BY ZenonT(120), <1>0, <1>1, TypesKept DEF OwnTypes
  <1>3. trigger' \in BOOLEAN
    <2>1. trigger \in BOOLEAN /\ builds_waiting \in BOOLEAN
      BY ZenonT(120), <1>0 DEF OwnTypes, PassTypes
    <2> QED BY <2>1, ZenonT(120) DEF DrainStarts, DrainEnds, StoreReturns, BreakerOpens, Sample, BreakerCloses
  <1>4. StoreTypes'
    BY ZenonT(120), <1>0 DEF OwnTypes, StoreTypes, DrainStarts, DrainEnds, StoreReturns, BreakerOpens, Sample, BreakerCloses
  <1>5. failures' \in [BuildId -> [Store -> 0..MaxStoreRetries]]
    <2>1. failures \in [BuildId -> [Store -> 0..MaxStoreRetries]]
      BY ZenonT(120), <1>0 DEF OwnTypes, ResultTypes
    <2>2. CASE DrainEnds(s)
      <3>1. ASSUME NEW b \in BuildId
            PROVE  [failures[b] EXCEPT ![s] = OneMore(@)] \in [Store -> 0..MaxStoreRetries]
        BY ZenonT(120), <2>1, OneMoreInRange
      <3> QED BY ZenonT(120), <2>1, <2>2, <3>1 DEF DrainEnds
    <2>3. CASE UNCHANGED failures
      BY ZenonT(120), <2>1, <2>3
    <2> QED BY ZenonT(120), <2>2, <2>3 DEF DrainStarts, StoreReturns, BreakerOpens, Sample, BreakerCloses, resultVars
  <1>6. ResultTypes'
    BY ZenonT(120), <1>0, <1>1, <1>5 DEF OwnTypes, ResultTypes
  <1> QED BY ZenonT(120), <1>2, <1>3, <1>4, <1>6 DEF OwnTypes

\* Every step keeps the types; the queue's part comes with its invariant.
LEMMA SchedTypeStep == SchedInv /\ [SchedulerNext]_allVars => SchedulerTypeOK'
  <1> SUFFICES ASSUME SchedInv, [SchedulerNext]_allVars PROVE OwnTypes'
    BY ZenonT(120), TypesSplit, QueueKept DEF Inv
  <1>0. TypeOK /\ OwnTypes
    BY ZenonT(120), TypesSplit DEF SchedInv
  <1>1. ASSUME NEW k \in Key, NEW r \in Request, BuildDerivation(k, r)
        PROVE  OwnTypes'
    <2>1. /\ UNCHANGED <<passVars, storeVars, failures, collected, task>> /\ trigger' = TRUE
          /\ owner' = IF next_id' = next_id THEN owner ELSE [owner EXCEPT ![next_id] = r]
          /\ Enqueue(k, r, FALSE)
      BY ZenonT(120), <1>1 DEF BuildDerivation
    <2>2. next_id' # next_id => next_id \in BuildId
      <3>1. next_id \in 1..(MaxBuilds + 1)
        BY ZenonT(120), <1>0 DEF TypeOK
      <3>2. next_id' # next_id => next_id <= MaxBuilds
        BY ZenonT(120), <2>1 DEF Enqueue, EnqueueJoins, EnqueueCreates
      <3> QED BY SMTT(120), <3>1, <3>2, ConstantsAssumption DEF BuildId
    <2>3. ResultTypes'
      BY ZenonT(120), <1>0, <2>1, <2>2 DEF OwnTypes, ResultTypes
    <2> QED BY ZenonT(120), <1>0, <2>1, <2>3, TypesKept DEF OwnTypes
  <1>2. CASE UNCHANGED schedVars
    BY ZenonT(120), <1>0, <1>2, TypesKept DEF schedVars, OwnTypes
  <1>3. ASSUME NEW r \in Request, Release(r) \/ PruneReleased(r)
        PROVE  UNCHANGED schedVars
    BY ZenonT(120), <1>3 DEF Release, PruneReleased
  <1> QED BY SMTT(120), <1>1, <1>2, <1>3, PassTypeStep, TaskTypeStep, StoreTypeStep DEF SchedulerNext, allVars

\* The types that the steps below read off the invariant.
LEMMA GivenTypes ==
  ASSUME SchedInv
  PROVE  /\ next_id \in Nat /\ next_scope \in Nat \ {0}
         /\ BuildId \subseteq Nat \ {0} /\ Scope \subseteq Nat \ {0}
         /\ by_id \in SUBSET BuildId /\ answer \in [BuildId -> Outcome \cup {None}]
         /\ worker \in [BuildId -> Scope \cup {0}] /\ assigned \in [BuildId -> Store \cup {None}]
         /\ todo \in SUBSET BuildId /\ load \in [Store -> Nat]
         /\ waiting_slot \in BOOLEAN /\ builds_waiting \in BOOLEAN
         /\ failures \in [BuildId -> [Store -> 0..MaxStoreRetries]] /\ task \in [Scope -> Task]
  <1>1. next_id \in 1..(MaxBuilds + 1) /\ next_scope \in 1..(MaxScopes + 1)
    BY ZenonT(120) DEF SchedInv, Inv, TypeOK
  <1>2. /\ by_id \in SUBSET BuildId /\ answer \in [BuildId -> Outcome \cup {None}]
        /\ worker \in [BuildId -> Scope \cup {0}] /\ assigned \in [BuildId -> Store \cup {None}]
    BY ZenonT(120) DEF SchedInv, Inv, TypeOK
  <1>3. /\ todo \in SUBSET BuildId /\ load \in [Store -> Nat]
        /\ waiting_slot \in BOOLEAN /\ builds_waiting \in BOOLEAN
        /\ failures \in [BuildId -> [Store -> 0..MaxStoreRetries]] /\ task \in [Scope -> Task]
    BY ZenonT(120) DEF SchedInv, SchedulerTypeOK, Task
  <1>4. next_id \in Nat /\ next_scope \in Nat \ {0}
    BY SMTT(120), <1>1, ConstantsAssumption
  <1>5. BuildId \subseteq Nat \ {0} /\ Scope \subseteq Nat \ {0}
    BY SMTT(120), ConstantsAssumption DEF BuildId, Scope
  <1> QED BY ZenonT(120), <1>2, <1>3, <1>4, <1>5

-----------------------------------------------------------------------------
(* Who has a worker.                                                       *)

\* An answer stays under the scheduler too.
LEMMA SchedAnswerStep ==
  ASSUME SchedInv, [SchedulerNext]_allVars, NEW b \in BuildId, IsDone(b)
  PROVE  answer'[b] = answer[b]
  <1>1. CASE [Next]_vars
    BY SMTT(120), <1>1, AnswerStep DEF SchedInv
  <1>2. CASE PassCancels
    BY ZenonT(120), <1>2 DEF PassCancels, CancelLocked
  <1>3. CASE \E s \in Store : DrainEnds(s)
    BY ZenonT(120), <1>3 DEF DrainEnds, buildVars
  <1>4. CASE UNCHANGED allVars
    BY ZenonT(120), <1>4 DEF allVars, vars, buildVars
  <1> QED BY ZenonT(120), <1>1, <1>2, <1>3, <1>4, Calls

\* A worker's task is where its action puts it.
LEMMA TaskArrives ==
  ASSUME SchedInv, NEW w \in Scope
  PROVE  /\ \A at \in TaskState : Goes(w, at) => task'[w].at = at /\ task'[w].result = None
         /\ \A result \in {"success", "failure"} :
              Answers(w, result) => task'[w].at = "answering" /\ task'[w].result = result
  <1>1. ASSUME NEW at \in TaskState, Goes(w, at)
        PROVE  task'[w].at = at /\ task'[w].result = None
    BY ZenonT(120), <1>1, TaskMoves DEF Goes, SchedInv
  <1>2. ASSUME NEW result \in {"success", "failure"}, Answers(w, result)
        PROVE  task'[w].at = "answering" /\ task'[w].result = result
    <2>1. "answering" \in TaskState
      BY ZenonT(120) DEF TaskState
    <2> QED BY ZenonT(120), <1>2, <2>1, TaskMoves DEF Answers, SchedInv
  <1> QED BY ZenonT(120), <1>1, <1>2

\* A worker takes nobody but itself off a build, and is not live after that.
LEMMA TaskWorker ==
  ASSUME SchedInv, NEW w \in Scope, TaskSteps(w)
  PROVE  \/ UNCHANGED worker
         \/ /\ worker[task[w].build] = w
            /\ worker' = [worker EXCEPT ![task[w].build] = 0]
            /\ ~Live(w)'
            /\ trigger' = TRUE
  <1>0. {"running", "collecting", "leaving", "ended"} \subseteq TaskState
    BY ZenonT(120) DEF TaskState
  <1>1. CASE TaskRetries(w) \/ TaskRetriesWithResponse(w)
    <2>1. Live(w) /\ RetriesOn(task[w].build, task[w].store)
      BY ZenonT(120), <1>1 DEF TaskRetries, TaskRetriesWithResponse, Live
    <2>2. worker[task[w].build] = w
      BY ZenonT(120), <2>1 DEF SchedInv, LiveOwns
    <2>3. task'[w].at = "leaving" \/ (task'[w].at = "answering" /\ "hold" \in Faults)
      BY ZenonT(120), <1>0, <1>1, TaskArrives DEF TaskRetries, TaskRetriesWithResponse
    <2> QED BY ZenonT(120), <2>1, <2>2, <2>3 DEF RetriesOn, Live
  <1>2. CASE TaskEnds(w)
    <2>1. task'[w].at = "ended"
      BY ZenonT(120), <1>0, <1>2, TaskArrives DEF TaskEnds
    <2> QED BY ZenonT(120), <1>2, <2>1 DEF TaskEnds, WorkerEnded, Live, vars, workerVars
  <1>3. CASE TaskAnswers(w)
    BY ZenonT(120), <1>3 DEF TaskAnswers, Complete, vars, workerVars
  <1>4. CASE TaskStarts(w) \/ TaskBuilds(w) \/ TaskCollects(w) \/ TaskLosesOutputs(w) \/ TaskFails(w)
    BY ZenonT(120), <1>4 DEF TaskStarts, TaskBuilds, TaskCollects, TaskLosesOutputs, TaskFails, vars, workerVars
  <1> QED BY ZenonT(120), <1>1, <1>2, <1>3, <1>4 DEF TaskSteps

\* Beside the pass, a step leaves the pass alone and starts no worker.
LEMMA Aside ==
  ASSUME SchedInv, [SchedulerNext]_allVars, ~PassSteps
  PROVE  /\ UNCHANGED <<passVars, assigned, next_scope>>
         /\ next_id' >= next_id
         /\ \A b \in BuildId : worker'[b] = worker[b] \/ worker'[b] = 0
  <1>0. TypeOK /\ next_id \in Nat
    BY ZenonT(120), GivenTypes DEF SchedInv, Inv
  <1>1. ASSUME NEW k \in Key, NEW r \in Request, BuildDerivation(k, r)
        PROVE  UNCHANGED <<passVars, workerVars>> /\ next_id' >= next_id
    BY SMTT(120), <1>0, <1>1 DEF BuildDerivation, Enqueue, EnqueueJoins, EnqueueCreates
  <1>2. ASSUME NEW r \in Request, Release(r) \/ PruneReleased(r)
        PROVE  UNCHANGED <<passVars, worker, assigned, next_scope, next_id>>
    BY ZenonT(120), <1>2 DEF Release, ReleaseRequest, PruneReleased, PruneAfterRelease, Prune, schedVars, workerVars
  <1>3. ASSUME NEW w \in Scope, TaskSteps(w)
        PROVE  /\ UNCHANGED <<passVars, assigned, next_scope, next_id>>
               /\ \A b \in BuildId : worker'[b] = worker[b] \/ worker'[b] = 0
    BY ZenonT(120), <1>0, <1>3, TaskShape, TaskWorker DEF TypeOK
  <1>4. ASSUME NEW s \in Store, DrainEnds(s)
        PROVE  /\ UNCHANGED <<passVars, assigned, next_scope, next_id>>
               /\ \A b \in BuildId : worker'[b] = worker[b] \/ worker'[b] = 0
    BY ZenonT(120), <1>4 DEF DrainEnds, ResetsWorkers, queueVars
  <1>5. ASSUME NEW s \in Store, DrainStarts(s) \/ StoreReturns(s) \/ BreakerOpens(s) \/ Sample(s)
                                 \/ \E reconnected \in BOOLEAN : BreakerCloses(s, reconnected)
        PROVE  UNCHANGED <<vars, passVars>>
    BY ZenonT(120), <1>5 DEF DrainStarts, StoreReturns, BreakerOpens, Sample, BreakerCloses
  <1>6. CASE UNCHANGED allVars
    BY SMTT(120), <1>0, <1>6 DEF allVars, vars, schedVars, queueVars, workerVars
  <1>7. CASE UNCHANGED <<vars, passVars>>
    BY SMTT(120), <1>0, <1>7 DEF vars, queueVars, workerVars
  <1> QED BY SMTT(120), <1>0, <1>1, <1>2, <1>3, <1>4, <1>5, <1>6, <1>7 DEF SchedulerNext, workerVars

\* The pass keeps its builds to itself.
LEMMA PassOwnsStep == SchedInv /\ [SchedulerNext]_allVars => PassOwns'
  <1> SUFFICES ASSUME SchedInv, [SchedulerNext]_allVars PROVE PassOwns'
    BY ZenonT(120)
  <1>0. /\ PassOwns /\ todo \in SUBSET BuildId /\ load \in [Store -> Nat] /\ waiting_slot \in BOOLEAN
        /\ builds_waiting \in BOOLEAN /\ next_id \in Nat
    BY ZenonT(120), GivenTypes DEF SchedInv
  <1>1. CASE ~PassSteps
    <2>1. /\ UNCHANGED <<pass, todo, placing>> /\ next_id' >= next_id /\ next_id' \in Nat
          /\ \A b \in BuildId : worker'[b] = worker[b] \/ worker'[b] = 0
      <3>1. next_id' \in 1..(MaxBuilds + 1)
        BY ZenonT(120), QueueKept DEF Inv, TypeOK
      <3>2. UNCHANGED <<pass, todo, placing>>
        BY ZenonT(120), <1>1, Aside DEF passVars
      <3> QED BY SMTT(120), <1>1, <3>1, <3>2, Aside, ConstantsAssumption
    <2>2. placing # 0 => placing \in BuildId
      BY ZenonT(120), <1>0 DEF PassOwns
    <2> QED BY SMTT(120), <1>0, <2>1, <2>2 DEF PassOwns, BuildId
  <1>2. ASSUME NEW rest \in SUBSET BuildId, NEW counts \in [Store -> Nat], NEW waits \in BOOLEAN,
               PassGoesOn(rest, counts, waits),
               \A b \in rest : b < next_id' /\ worker'[b] = 0
        PROVE  PassOwns'
    <2>1. /\ pass' # "idle" => /\ placing' \in rest /\ placing' \notin todo' /\ placing' # 0
                               /\ rest = todo' \cup {placing'}
          /\ pass' = "idle" => placing' = 0 /\ todo' = {} /\ rest = {}
      BY ZenonT(120), <1>0, <1>2, GoesOn
    <2> QED BY ZenonT(120), <1>2, <2>1 DEF PassOwns
  <1>3. CASE PassStarts
    <2>1. UNCHANGED <<next_id, worker>> /\ FALSE \in BOOLEAN
      BY ZenonT(120), <1>3 DEF PassStarts, vars, queueVars, workerVars
    <2> QED BY ZenonT(120), <1>2, <1>3, <2>1, StartsWithAll
  <1>4. CASE PassCancels \/ PassFails
    <2>1. PassGoesOn(todo, load, waiting_slot) /\ UNCHANGED <<next_id, worker>>
      BY ZenonT(120), <1>4 DEF PassCancels, PassFails, Complete, vars, queueVars, workerVars
    <2>2. \A b \in todo : b < next_id' /\ worker'[b] = 0
      BY SMTT(120), <1>0, <2>1 DEF PassOwns, BuildId
    <2> QED BY ZenonT(120), <1>0, <1>2, <2>1, <2>2
  <1>5. CASE PassWaits
    <2>1. PassGoesOn(todo, load, TRUE) /\ UNCHANGED <<next_id, worker>>
      BY ZenonT(120), <1>5 DEF PassWaits, Noted, vars, queueVars, workerVars
    <2>2. \A b \in todo : b < next_id' /\ worker'[b] = 0
      BY SMTT(120), <1>0, <2>1 DEF PassOwns, BuildId
    <2>3. TRUE \in BOOLEAN
      BY ZenonT(120)
    <2> QED BY ZenonT(120), <1>0, <1>2, <2>1, <2>2, <2>3
  <1>6. CASE PassCrashes
    <2>1. PassGoesOn({}, load, builds_waiting) /\ {} \in SUBSET BuildId
      BY ZenonT(120), <1>6 DEF PassCrashes
    <2> QED BY ZenonT(120), <1>0, <1>2, <2>1
  <1>7. ASSUME NEW s \in Store, PassSpawns(s)
        PROVE  PassOwns'
    <2>1. Counted(s) \in [Store -> Nat]
      BY SMTT(120), <1>0 DEF Counted
    <2>2. /\ PassGoesOn(todo, Counted(s), waiting_slot) /\ UNCHANGED next_id
          /\ worker' = [worker EXCEPT ![placing] = next_scope]
      BY ZenonT(120), <1>7 DEF PassSpawns, SpawnWorker, queueVars
    <2>3. placing \notin todo /\ worker \in [BuildId -> Scope \cup {0}]
      BY ZenonT(120), <1>7 DEF PassSpawns, SchedInv, PassOwns, Inv, TypeOK
    <2>4. \A b \in todo : b < next_id' /\ worker'[b] = 0
      BY SMTT(120), <1>0, <2>2, <2>3 DEF PassOwns, BuildId
    <2> QED BY SMTT(120), <1>0, <1>2, <2>1, <2>2, <2>4
  <1>8. CASE PassRefuses \/ PassBreaks
    BY ZenonT(120), <1>0, <1>8 DEF PassRefuses, PassBreaks, PassOwns, vars, queueVars, workerVars
  <1> QED BY SMTT(120), <1>1, <1>3, <1>4, <1>5, <1>6, <1>7, <1>8 DEF PassSteps

\* Only a pass starts a task, and only a worker moves it.
LEMMA TasksRest ==
  ASSUME SchedInv, [SchedulerNext]_allVars,
         ~\E s \in Store : PassSpawns(s), ~\E w \in Scope : TaskSteps(w)
  PROVE  UNCHANGED <<task, collected, assigned, next_scope>> /\ cancelled \subseteq cancelled'
  <1>1. ASSUME NEW k \in Key, NEW r \in Request, BuildDerivation(k, r)
        PROVE  UNCHANGED <<task, collected, workerVars>>
    BY ZenonT(120), <1>1 DEF BuildDerivation, Enqueue
  <1>2. ASSUME NEW r \in Request, Release(r) \/ PruneReleased(r)
        PROVE  UNCHANGED <<task, collected, assigned, next_scope>> /\ cancelled \subseteq cancelled'
    BY ZenonT(120), <1>2 DEF Release, ReleaseRequest, CancelLocked, PruneReleased, PruneAfterRelease, Prune,
       schedVars, resultVars, workerVars
  <1>3. ASSUME PassStarts \/ PassWaits \/ PassRefuses \/ PassBreaks \/ PassFails \/ PassCrashes
        PROVE  UNCHANGED <<task, collected, workerVars>>
    BY ZenonT(120), <1>3 DEF PassStarts, PassWaits, PassRefuses, PassBreaks, PassFails, PassCrashes, Complete, vars, resultVars
  <1>4. ASSUME PassCancels
        PROVE  UNCHANGED <<task, collected, assigned, next_scope>> /\ cancelled \subseteq cancelled'
    BY ZenonT(120), <1>4 DEF PassCancels, CancelLocked, resultVars
  <1>5. ASSUME NEW s \in Store, DrainEnds(s)
        PROVE  UNCHANGED <<task, collected, assigned, next_scope>> /\ cancelled \subseteq cancelled'
    BY ZenonT(120), <1>5 DEF DrainEnds, CancelsWorkers
  <1>6. ASSUME NEW s \in Store, DrainStarts(s) \/ StoreReturns(s) \/ BreakerOpens(s) \/ Sample(s)
                                 \/ \E reconnected \in BOOLEAN : BreakerCloses(s, reconnected)
        PROVE  UNCHANGED <<task, collected, workerVars>>
    BY ZenonT(120), <1>6 DEF DrainStarts, StoreReturns, BreakerOpens, Sample, BreakerCloses, resultVars, vars
  <1>7. CASE UNCHANGED allVars
    BY ZenonT(120), <1>7 DEF allVars, vars, schedVars, resultVars, workerVars
  <1> QED BY SMTT(120), <1>1, <1>2, <1>3, <1>4, <1>5, <1>6, <1>7 DEF SchedulerNext, PassSteps, workerVars

\* Beside the spawn and the workers themselves only a drain touches a worker.
LEMMA WorkersRest ==
  ASSUME SchedInv, [SchedulerNext]_allVars,
         ~\E s \in Store : PassSpawns(s), ~\E w \in Scope : TaskSteps(w)
  PROVE  UNCHANGED worker \/ \E s \in Store : DrainEnds(s)
  <1>1. ASSUME \/ \E k \in Key, r \in Request : BuildDerivation(k, r)
               \/ \E r \in Request : Release(r) \/ PruneReleased(r)
        PROVE  UNCHANGED worker
    BY ZenonT(120), <1>1 DEF BuildDerivation, Enqueue, Release, ReleaseRequest, PruneReleased, PruneAfterRelease,
       Prune, workerVars
  <1>2. ASSUME PassStarts \/ PassCancels \/ PassWaits \/ PassRefuses \/ PassBreaks \/ PassFails \/ PassCrashes
        PROVE  UNCHANGED worker
    BY ZenonT(120), <1>2 DEF PassStarts, PassCancels, PassWaits, PassRefuses, PassBreaks, PassFails, PassCrashes,
       Complete, vars, workerVars
  <1>3. ASSUME NEW s \in Store, DrainStarts(s) \/ StoreReturns(s) \/ BreakerOpens(s) \/ Sample(s)
                                \/ \E reconnected \in BOOLEAN : BreakerCloses(s, reconnected)
        PROVE  UNCHANGED worker
    BY ZenonT(120), <1>3 DEF DrainStarts, StoreReturns, BreakerOpens, Sample, BreakerCloses, vars, workerVars
  <1>4. CASE UNCHANGED allVars
    BY ZenonT(120), <1>4 DEF allVars, vars, workerVars
  <1> QED BY ZenonT(120), <1>1, <1>2, <1>3, <1>4 DEF SchedulerNext, PassSteps

\* A live worker stays the worker of its build until it leaves or is cancelled.
LEMMA LiveOwnsStep == SchedInv /\ [SchedulerNext]_allVars => LiveOwns'
  <1> SUFFICES ASSUME SchedInv, [SchedulerNext]_allVars PROVE LiveOwns'
    BY ZenonT(120)
  <1>0. /\ LiveOwns /\ task \in [Scope -> Task] /\ worker \in [BuildId -> Scope \cup {0}]
        /\ next_scope \in Nat /\ Scope \subseteq Nat \ {0} /\ ScopesIssued
        /\ assigned \in [BuildId -> Store \cup {None}]
    BY ZenonT(120), GivenTypes DEF SchedInv, Inv
  <1>1. ASSUME NEW s \in Store, PassSpawns(s)
        PROVE  LiveOwns'
    <2> DEFINE new == [build |-> placing, store |-> s, at |-> "spawned", result |-> None]
    <2>1. /\ task' = [task EXCEPT ![next_scope] = new]
          /\ worker' = [worker EXCEPT ![placing] = next_scope]
          /\ assigned' = [assigned EXCEPT ![placing] = s]
          /\ next_scope' = next_scope + 1 /\ UNCHANGED cancelled
      BY ZenonT(120), <1>1 DEF PassSpawns, SpawnWorker
    <2>2. placing \in BuildId /\ worker[placing] = 0
      BY SMTT(120), <1>1 DEF PassSpawns, SchedInv, PassOwns, BuildId
    <2>3. next_scope \in Scope
      <3>1. next_scope <= MaxScopes
        BY ZenonT(120), <1>1 DEF PassSpawns, SpawnWorker
      <3> QED BY SMTT(120), <3>1, GivenTypes, ConstantsAssumption DEF Scope
    <2>4. task'[next_scope] = new /\ worker'[placing] = next_scope /\ assigned'[placing] = s
      BY ZenonT(120), <1>0, <2>1, <2>2, <2>3
    <2>5. ASSUME NEW w \in Scope, w # next_scope
          PROVE  /\ task'[w] = task[w]
                 /\ Live(w)' => /\ worker'[task[w].build] = w
                                /\ assigned'[task[w].build] = task[w].store
      <3>1. task'[w] = task[w] /\ (Live(w)' => Live(w))
        BY ZenonT(120), <1>0, <2>1, <2>5 DEF Live
      <3>2. Live(w) => task[w].at # "none"
        BY ZenonT(120) DEF Live
      <3>3. Live(w) => worker[task[w].build] = w /\ task[w].build \in BuildId
                       /\ assigned[task[w].build] = task[w].store
        BY ZenonT(120), <1>0, <3>2 DEF LiveOwns
      <3>4. Live(w) => task[w].build # placing
        BY ZenonT(120), <1>0, <2>2, <3>3
      <3> QED BY ZenonT(120), <1>0, <2>1, <3>1, <3>3, <3>4
    <2>6. new.at = "spawned" /\ new.build = placing /\ new.store = s
      BY ZenonT(120)
    <2> HIDE DEF new
    <2>7. ASSUME NEW w \in Scope, w >= next_scope'
          PROVE  w # next_scope /\ w >= next_scope
      BY SMTT(120), <1>0, <2>1, <2>7
    <2>8. ASSUME NEW w \in Scope, w # next_scope
          PROVE  /\ task'[w].at # "none" => task'[w].build \in BuildId /\ task'[w].store \in Store
                 /\ task'[w].at = "answering" => task'[w].result \in {"success", "failure"}
                 /\ w >= next_scope' => task'[w].at = "none" /\ task'[w].build = 0
                 /\ Live(w)' => /\ worker'[task'[w].build] = w
                                /\ assigned'[task'[w].build] = task'[w].store
      BY SMTT(120), <1>0, <2>5, <2>7, <2>8 DEF LiveOwns
    <2>9. /\ task'[next_scope].build \in BuildId /\ task'[next_scope].store \in Store
          /\ task'[next_scope].at = "spawned" /\ ~(next_scope >= next_scope')
          /\ worker'[task'[next_scope].build] = next_scope
          /\ assigned'[task'[next_scope].build] = task'[next_scope].store
      BY SMTT(120), <1>0, <2>1, <2>2, <2>4, <2>6
    <2> QED BY ZenonT(120), <2>8, <2>9 DEF LiveOwns
  <1>2. ASSUME NEW w \in Scope, TaskSteps(w)
        PROVE  LiveOwns'
    <2>1. /\ task'[w].build = task[w].build /\ task'[w].store = task[w].store
          /\ \A v \in Scope \ {w} : task'[v] = task[v]
          /\ task[w].at # "none" /\ task[w].build \in BuildId /\ task[w].store \in Store
          /\ UNCHANGED <<next_scope, cancelled, assigned>>
      BY ZenonT(120), <1>2, TaskShape
    <2>2. task'[w].at = "answering" => task'[w].result \in {"success", "failure"}
      <3>1. {"running", "collecting", "leaving", "ended"} \subseteq TaskState
        BY ZenonT(120) DEF TaskState
      <3> QED BY ZenonT(120), <1>2, <3>1, TaskArrives DEF TaskSteps, TaskStarts, TaskBuilds, TaskCollects, TaskLosesOutputs,
              TaskFails, TaskRetries, TaskRetriesWithResponse, TaskAnswers, TaskEnds
    <2>3. Live(w)' => Live(w)
      <3>1. {"running", "collecting", "leaving", "ended"} \subseteq TaskState
        BY ZenonT(120) DEF TaskState
      <3>2. CASE task'[w].at \in {"leaving", "ended"}
        BY ZenonT(120), <3>2 DEF Live
      <3>3. CASE TaskStarts(w) \/ TaskBuilds(w) \/ TaskCollects(w) \/ TaskLosesOutputs(w) \/ TaskFails(w)
                 \/ TaskRetriesWithResponse(w)
        BY ZenonT(120), <3>3 DEF Live, TaskStarts, TaskBuilds, TaskCollects, TaskLosesOutputs, TaskFails, TaskRetriesWithResponse
      <3> QED BY ZenonT(120), <1>2, <3>1, <3>2, <3>3, TaskArrives DEF TaskSteps, TaskRetries, TaskAnswers, TaskEnds
    <2>4. ASSUME NEW v \in Scope, Live(v)'
          PROVE  worker'[task[v].build] = v /\ assigned'[task[v].build] = task[v].store
      <3>1. Live(v)
        <4>1. CASE v = w
          BY SMTT(120), <2>3, <2>4, <4>1
        <4>2. CASE v # w
          BY ZenonT(120), <2>1, <2>4, <4>2 DEF Live
        <4> QED BY SMTT(120), <4>1, <4>2
      <3>2. worker[task[v].build] = v /\ task[v].build \in BuildId /\ assigned[task[v].build] = task[v].store
        BY ZenonT(120), <1>0, <3>1 DEF LiveOwns, Live
      <3>3. CASE UNCHANGED worker
        BY SMTT(120), <2>1, <3>2, <3>3
      <3>4. CASE /\ worker[task[w].build] = w
                 /\ worker' = [worker EXCEPT ![task[w].build] = 0]
                 /\ ~Live(w)'
        <4>1. v # w
          BY ZenonT(120), <2>4, <3>4
        <4>2. task[v].build # task[w].build
          BY ZenonT(120), <3>2, <3>4, <4>1
        <4> QED BY SMTT(120), <1>0, <2>1, <3>2, <3>4, <4>2
      <3> QED BY ZenonT(120), <1>2, <3>3, <3>4, TaskWorker
    <2>5. ASSUME NEW v \in Scope
          PROVE  task'[v].build = task[v].build /\ task'[v].store = task[v].store
                 /\ (v # w => task'[v] = task[v])
      BY ZenonT(120), <2>1
    <2>6. w < next_scope
      BY SMTT(120), <1>0, <2>1 DEF LiveOwns
    <2>7. ASSUME NEW v \in Scope
          PROVE  /\ task'[v].at # "none" => task'[v].build \in BuildId /\ task'[v].store \in Store
                 /\ task'[v].at = "answering" => task'[v].result \in {"success", "failure"}
                 /\ v >= next_scope' => task'[v].at = "none" /\ task'[v].build = 0
      <3>1. CASE v = w
        BY SMTT(120), <1>0, <2>1, <2>2, <2>6, <3>1
      <3>2. CASE v # w
        BY SMTT(120), <1>0, <2>1, <2>5, <3>2 DEF LiveOwns
      <3> QED BY ZenonT(120), <3>1, <3>2
    <2> QED BY SMTT(120), <2>4, <2>5, <2>7 DEF LiveOwns
  <1>3. CASE ~(\E s \in Store : PassSpawns(s)) /\ ~(\E w \in Scope : TaskSteps(w))
    <2>1. UNCHANGED <<task, assigned, next_scope>> /\ cancelled \subseteq cancelled'
      BY ZenonT(120), <1>3, TasksRest
    <2>2. ASSUME NEW w \in Scope, Live(w)'
          PROVE  worker'[task[w].build] = w /\ assigned[task[w].build] = task[w].store
      <3>1. Live(w) /\ w \notin cancelled'
        BY ZenonT(120), <2>1, <2>2 DEF Live
      <3>2. /\ worker[task[w].build] = w /\ task[w].build \in BuildId
            /\ assigned[task[w].build] = task[w].store
        BY ZenonT(120), <1>0, <3>1 DEF LiveOwns, Live
      <3>3. CASE UNCHANGED worker
        BY ZenonT(120), <3>2, <3>3
      <3>4. ASSUME NEW s \in Store, DrainEnds(s)
            PROVE  worker'[task[w].build] = w
        <4> DEFINE back == {b \in by_id : ~IsDone(b) /\ assigned[b] = s}
        <4>1. /\ cancelled' = cancelled \cup {worker[b] : b \in {x \in back : IsBuilding(x)}}
              /\ worker' = [b \in BuildId |-> IF b \in back THEN 0 ELSE worker[b]]
          BY ZenonT(120), <3>4 DEF DrainEnds, CancelsWorkers, ResetsWorkers
        <4>2. task[w].build \in back => w \in cancelled'
          BY ZenonT(120), <1>0, <3>2, <4>1 DEF IsBuilding
        <4> HIDE DEF back
        <4> QED BY ZenonT(120), <3>1, <3>2, <4>1, <4>2
      <3>5. UNCHANGED worker \/ \E s \in Store : DrainEnds(s)
        BY ZenonT(120), <1>3, WorkersRest
      <3> QED BY ZenonT(120), <3>2, <3>3, <3>4, <3>5
    <2> QED BY ZenonT(120), <1>0, <2>1, <2>2 DEF LiveOwns
  <1> QED BY ZenonT(120), <1>1, <1>2, <1>3

-----------------------------------------------------------------------------
(* The stores of the running builds.                                       *)

\* A store that a pass may choose is up, and has not failed the build too often.
LEMMA ChoicesAreCapable ==
  ASSUME NEW b \in BuildId, NEW s \in Choices(b)
  PROVE  s \in Capable(b)
  <1>1. s \in Candidates(b)
    BY ZenonT(120) DEF Choices, Usable
  <1>2. Ranked(b) \subseteq Capable(b)
    BY ZenonT(120) DEF Ranked
  <1>3. Prefers(b) => LocalStore \in Capable(b)
    BY ZenonT(120) DEF Prefers, LocalCanBuild
  <1> QED BY ZenonT(120), <1>1, <1>2, <1>3 DEF Candidates

\* A store leaves ctx.stores only when its drain ends.
LEMMA StoresStay ==
  ASSUME SchedInv, [SchedulerNext]_allVars, NEW s \in Store, s \in Present, ~DrainEnds(s)
  PROVE  s \in Present'
  <1>0. status \in [Store -> {"up", "draining", "gone"}] /\ status[s] # "gone"
    BY ZenonT(120) DEF SchedInv, SchedulerTypeOK, Present
  <1>1. CASE UNCHANGED status
    BY ZenonT(120), <1>0, <1>1 DEF Present
  <1>2. ASSUME NEW x \in Store, DrainStarts(x) \/ DrainEnds(x) \/ StoreReturns(x)
        PROVE  s \in Present'
    <2>1. DrainEnds(x) => x # s
      BY ZenonT(120)
    <2>2. \/ status' = [status EXCEPT ![x] = "draining"] \/ status' = [status EXCEPT ![x] = "up"]
          \/ (status' = [status EXCEPT ![x] = "gone"] /\ x # s)
      BY ZenonT(120), <1>2, <2>1 DEF DrainStarts, DrainEnds, StoreReturns
    <2> QED BY ZenonT(120), <1>0, <2>2 DEF Present
  <1>3. ASSUME PassSteps
        PROVE  UNCHANGED status
    BY ZenonT(120), <1>3 DEF PassSteps, PassStarts, PassCancels, PassSpawns, PassWaits, PassRefuses, PassBreaks, PassFails,
       PassCrashes, storeVars
  <1>4. ASSUME NEW w \in Scope, TaskSteps(w)
        PROVE  UNCHANGED status
    BY ZenonT(120), <1>4, TaskShape DEF storeVars
  <1>5. ASSUME \/ \E k \in Key, r \in Request : BuildDerivation(k, r)
               \/ \E r \in Request : Release(r) \/ PruneReleased(r)
               \/ \E x \in Store : BreakerOpens(x) \/ Sample(x)
               \/ \E x \in Store, reconnected \in BOOLEAN : BreakerCloses(x, reconnected)
        PROVE  UNCHANGED status
    BY ZenonT(120), <1>5 DEF BuildDerivation, Release, PruneReleased, BreakerOpens, Sample, BreakerCloses, schedVars, storeVars
  <1>6. CASE UNCHANGED allVars
    BY SMTT(120), <1>1, <1>6 DEF allVars, schedVars, storeVars
  <1> QED BY SMTT(120), <1>1, <1>2, <1>3, <1>4, <1>5, <1>6 DEF SchedulerNext

\* Beside the spawn of a pass no build gets a worker or another store.
LEMMA NoNewWorker ==
  ASSUME SchedInv, [SchedulerNext]_allVars, ~\E s \in Store : PassSpawns(s)
  PROVE  /\ UNCHANGED assigned
         /\ \A b \in BuildId : worker'[b] = worker[b] \/ worker'[b] = 0
  <1>1. CASE ~PassSteps
    BY ZenonT(120), <1>1, Aside
  <1>2. ASSUME PassStarts \/ PassCancels \/ PassWaits \/ PassRefuses \/ PassBreaks \/ PassFails \/ PassCrashes
        PROVE  UNCHANGED <<worker, assigned>>
    BY ZenonT(120), <1>2 DEF PassStarts, PassCancels, PassWaits, PassRefuses, PassBreaks, PassFails, PassCrashes,
       Complete, vars, workerVars
  <1> QED BY ZenonT(120), <1>1, <1>2 DEF PassSteps

\* A running build keeps its store, or goes back to the queue with it.
LEMMA PresentStep == SchedInv /\ [SchedulerNext]_allVars => RunningStoreIsPresent'
  <1> SUFFICES ASSUME SchedInv, [SchedulerNext]_allVars,
                      NEW b \in by_id', worker'[b] # 0, ~IsDone(b)'
               PROVE  assigned'[b] \in Present'
    BY ZenonT(120) DEF RunningStoreIsPresent, IsBuilding
  <1>0. b \in BuildId /\ ~IsDone(b)
    <2>1. b \in BuildId
      BY ZenonT(120), QueueKept DEF Inv, TypeOK
    <2> QED BY ZenonT(120), <2>1, SchedAnswerStep DEF IsDone
  <1>1. ASSUME worker[b] # 0, assigned'[b] = assigned[b]
        PROVE  assigned'[b] \in Present'
    <2>1. next_id \in Nat
      BY ZenonT(120), GivenTypes
    <2>2. b < next_id
      <3>1. ~(b >= next_id)
        BY ZenonT(120), <1>0, <1>1 DEF SchedInv, Inv, Fresh
      <3>2. b \in Nat
        BY SMTT(120), <1>0, ConstantsAssumption DEF BuildId
      <3> QED BY SMTT(120), <2>1, <3>1, <3>2
    <2>3. b \in by_id
      BY ZenonT(120), <1>0, <2>2 DEF SchedInv, Inv, UnfinishedIsFound
    <2>4. assigned[b] \in Present
      BY ZenonT(120), <1>0, <1>1, <2>3 DEF SchedInv, RunningStoreIsPresent, IsBuilding
    <2>5. ~DrainEnds(assigned[b])
      <3>1. SUFFICES ASSUME DrainEnds(assigned[b]) PROVE FALSE
        BY ZenonT(120)
      <3>2. worker'[b] = 0
        BY ZenonT(120), <1>0, <2>3, <3>1 DEF DrainEnds, ResetsWorkers
      <3> QED BY ZenonT(120), <3>2
    <2>6. assigned[b] \in Store
      BY ZenonT(120), <2>4 DEF Present
    <2> QED BY SMTT(120), <1>1, <2>4, <2>5, <2>6, StoresStay
  <1>2. ASSUME NEW s \in Store, PassSpawns(s)
        PROVE  assigned'[b] \in Present'
    <2>1. /\ worker' = [worker EXCEPT ![placing] = next_scope] /\ assigned' = [assigned EXCEPT ![placing] = s]
          /\ worker \in [BuildId -> Scope \cup {0}] /\ assigned \in [BuildId -> Store \cup {None}]
          /\ s \in Choices(placing) /\ UNCHANGED status
      BY ZenonT(120), <1>2 DEF PassSpawns, SpawnWorker, SchedInv, Inv, TypeOK, storeVars
    <2>2. CASE b = placing
      <3>1. status[s] = "up" /\ assigned'[b] = s
        BY SMTT(120), <1>0, <2>1, <2>2, ChoicesAreCapable DEF Capable
      <3> QED BY ZenonT(120), <2>1, <3>1 DEF Present
    <2>3. CASE b # placing
      BY SMTT(120), <1>0, <1>1, <2>1, <2>3
    <2> QED BY ZenonT(120), <2>2, <2>3
  <1>3. CASE ~\E s \in Store : PassSpawns(s)
    BY SMTT(120), <1>0, <1>1, <1>3, NoNewWorker
  <1> QED BY ZenonT(120), <1>2, <1>3
=============================================================================
