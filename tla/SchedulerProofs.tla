-------------------------- MODULE SchedulerProofs ---------------------------
(***************************************************************************)
(* The rest of the scheduler's invariant, of outputs, wake-ups and retries, *)
(* and the theorems: what it never does with a worker, a store, an output   *)
(* and a wake-up, and how often and where it tries a build again.           *)
(***************************************************************************)
EXTENDS SchedulerInvProofs

-----------------------------------------------------------------------------
(* The outputs of the builds that succeed.                                 *)

\* Only a worker answers with success.
LEMMA SuccessIsAWorkers ==
  ASSUME SchedInv, [SchedulerNext]_allVars, NEW b \in BuildId, ~IsDone(b), answer'[b] = "success"
  PROVE  \E w \in Scope : /\ TaskAnswers(w)
                          /\ task[w].at = "answering" /\ task[w].result = "success" /\ task[w].build = b
  <1>0. answer \in [BuildId -> Outcome \cup {None}] /\ answer[b] = None /\ None # "success" /\ by_id \subseteq BuildId
    BY ZenonT(120), GivenTypes, ConstantsAssumption DEF IsDone, Outcome
  <1>1. answer'[b] # answer[b]
    BY ZenonT(120), <1>0
  <1>2. ASSUME NEW S \in SUBSET BuildId, CancelLocked(S)
        PROVE  FALSE
    BY SMTT(120), <1>0, <1>2 DEF CancelLocked
  <1>3. ASSUME NEW k \in Key, NEW r \in Request, BuildDerivation(k, r)
        PROVE  FALSE
    BY ZenonT(120), <1>1, <1>3 DEF BuildDerivation, Enqueue
  <1>4. ASSUME NEW r \in Request, Release(r)
        PROVE  FALSE
    <2>1. CancelLocked(Forsaken(r)) /\ Forsaken(r) \in SUBSET BuildId
      BY ZenonT(120), <1>4 DEF Release, ReleaseRequest, Forsaken, SchedInv, Inv, TypeOK
    <2> QED BY ZenonT(120), <1>2, <2>1
  <1>5. ASSUME NEW r \in Request, PruneReleased(r)
        PROVE  FALSE
    BY ZenonT(120), <1>1, <1>5 DEF PruneReleased, PruneAfterRelease, Prune, buildVars
  <1>6. ASSUME PassCancels
        PROVE  FALSE
    <2>1. PICK S \in SUBSET BuildId : CancelLocked(S)
      BY ZenonT(120), <1>0, <1>6 DEF PassCancels
    <2> QED BY ZenonT(120), <1>2, <2>1
  <1>7. ASSUME PassFails
        PROVE  FALSE
    <2>1. answer' = answer \/ answer' = [answer EXCEPT ![placing] = "failure"]
      BY ZenonT(120), <1>7 DEF PassFails, Complete, vars, buildVars
    <2> QED BY ZenonT(120), <1>0, <2>1
  <1>8. ASSUME PassStarts \/ PassWaits \/ PassRefuses \/ PassBreaks \/ PassCrashes
               \/ \E s \in Store : PassSpawns(s)
        PROVE  FALSE
    BY ZenonT(120), <1>1, <1>8 DEF PassStarts, PassWaits, PassRefuses, PassBreaks, PassCrashes, PassSpawns, SpawnWorker,
       vars, buildVars
  <1>9. ASSUME NEW w \in Scope, TaskAnswers(w)
        PROVE  task[w].at = "answering" /\ task[w].result = "success" /\ task[w].build = b
    <2>1. Complete(task[w].build, task[w].result)
      BY ZenonT(120), <1>1, <1>9 DEF TaskAnswers, vars, buildVars
    <2>2. answer' = [answer EXCEPT ![task[w].build] = task[w].result]
      BY ZenonT(120), <2>1 DEF Complete
    <2> QED BY ZenonT(120), <1>0, <1>9, <2>2 DEF TaskAnswers
  <1>10. ASSUME NEW w \in Scope, \/ TaskStarts(w) \/ TaskBuilds(w) \/ TaskCollects(w) \/ TaskLosesOutputs(w)
                                 \/ TaskFails(w) \/ TaskRetries(w) \/ TaskRetriesWithResponse(w) \/ TaskEnds(w)
         PROVE  FALSE
    BY ZenonT(120), <1>1, <1>10 DEF TaskStarts, TaskBuilds, TaskCollects, TaskLosesOutputs, TaskFails, TaskRetries,
       TaskRetriesWithResponse, TaskEnds, RetriesOn, WorkerEnded, vars, buildVars
  <1>11. ASSUME NEW s \in Store, DrainEnds(s) \/ DrainStarts(s) \/ StoreReturns(s) \/ BreakerOpens(s) \/ Sample(s)
                                 \/ \E reconnected \in BOOLEAN : BreakerCloses(s, reconnected)
         PROVE  FALSE
    BY ZenonT(120), <1>1, <1>11 DEF DrainEnds, DrainStarts, StoreReturns, BreakerOpens, Sample, BreakerCloses, vars, buildVars
  <1>12. CASE UNCHANGED allVars
    BY ZenonT(120), <1>1, <1>12 DEF allVars, vars, buildVars
  <1> QED BY ZenonT(120), <1>3, <1>4, <1>5, <1>6, <1>7, <1>8, <1>9, <1>10, <1>11, <1>12 DEF SchedulerNext, PassSteps, TaskSteps

\* The outputs come first, and the answer after.
LEMMA AnswersStep == SchedInv /\ [SchedulerNext]_allVars => AnswersWhatItHas'
  <1> SUFFICES ASSUME SchedInv, [SchedulerNext]_allVars, "hold" \notin Faults
               PROVE  /\ SuccessIsCollected'
                      /\ \A w \in Scope : task'[w].at = "answering" /\ task'[w].result = "success"
                                          => task'[w].build \in collected'
    BY ZenonT(120) DEF AnswersWhatItHas
  <1>0. /\ SuccessIsCollected
        /\ \A w \in Scope : task[w].at = "answering" /\ task[w].result = "success" => task[w].build \in collected
    BY ZenonT(120) DEF SchedInv, AnswersWhatItHas
  <1>1. collected \subseteq collected'
    <2>1. CASE ~(\E s \in Store : PassSpawns(s)) /\ ~(\E w \in Scope : TaskSteps(w))
      BY ZenonT(120), <2>1, TasksRest
    <2>2. ASSUME NEW s \in Store, PassSpawns(s) PROVE UNCHANGED collected
      BY ZenonT(120), <2>2 DEF PassSpawns, resultVars
    <2>3. ASSUME NEW w \in Scope, TaskSteps(w) PROVE collected \subseteq collected'
      BY ZenonT(120), <2>3 DEF TaskSteps, TaskStarts, TaskBuilds, TaskCollects, TaskLosesOutputs, TaskFails, TaskRetries,
         TaskRetriesWithResponse, TaskAnswers, TaskEnds, RetriesOn, resultVars
    <2> QED BY ZenonT(120), <2>1, <2>2, <2>3
  <1>2. SuccessIsCollected'
    <2>1. SUFFICES ASSUME NEW b \in BuildId, answer'[b] = "success" PROVE b \in collected'
      BY ZenonT(120) DEF SuccessIsCollected
    <2>2. CASE IsDone(b)
      BY SMTT(120), <1>0, <1>1, <2>1, <2>2, SchedAnswerStep DEF SuccessIsCollected
    <2>3. CASE ~IsDone(b)
      BY SMTT(120), <1>0, <1>1, <2>1, <2>3, SuccessIsAWorkers
    <2> QED BY ZenonT(120), <2>2, <2>3
  <1>3. ASSUME NEW v \in Scope, task'[v].at = "answering", task'[v].result = "success"
        PROVE  task'[v].build \in collected'
    <2>1. CASE ~(\E s \in Store : PassSpawns(s)) /\ ~(\E w \in Scope : TaskSteps(w))
      BY SMTT(120), <1>0, <1>1, <1>3, <2>1, TasksRest
    <2>2. ASSUME NEW s \in Store, PassSpawns(s) PROVE task'[v].build \in collected'
      <3>1. task \in [Scope -> Task]
        BY ZenonT(120), TypesSplit DEF SchedInv, OwnTypes, TaskTypes
      <3>2. task' = [task EXCEPT ![next_scope] =
                       [build |-> placing, store |-> s, at |-> "spawned", result |-> None]]
        BY ZenonT(120), <2>2 DEF PassSpawns
      <3>3. v # next_scope
        BY ZenonT(120), <1>3, <3>1, <3>2
      <3>4. task'[v] = task[v]
        BY ZenonT(120), <3>1, <3>2, <3>3
      <3> QED BY ZenonT(120), <1>0, <1>1, <1>3, <3>4
    <2>3. ASSUME NEW w \in Scope, TaskSteps(w) PROVE task'[v].build \in collected'
      <3>1. task'[w].build = task[w].build /\ \A u \in Scope \ {w} : task'[u] = task[u]
        BY ZenonT(120), <2>3, TaskShape
      <3>2. CASE v # w
        BY ZenonT(120), <1>0, <1>1, <1>3, <3>1, <3>2
      <3>3. CASE v = w
        <4>1. {"running", "collecting", "leaving", "ended"} \subseteq TaskState
          BY ZenonT(120) DEF TaskState
        <4>2. TaskBuilds(w) \/ TaskCollects(w)
          BY ZenonT(120), <1>3, <2>3, <3>3, <4>1, TaskArrives DEF TaskSteps, TaskStarts, TaskLosesOutputs, TaskFails,
             TaskRetries, TaskRetriesWithResponse, TaskAnswers, TaskEnds
        <4>3. task[w].build \in collected'
          BY ZenonT(120), <1>3, <3>3, <4>1, <4>2, TaskArrives DEF TaskBuilds, TaskCollects, MustCollect
        <4> QED BY ZenonT(120), <3>1, <3>3, <4>3
      <3> QED BY ZenonT(120), <3>2, <3>3
    <2> QED BY ZenonT(120), <2>1, <2>2, <2>3
  <1> QED BY ZenonT(120), <1>2, <1>3

-----------------------------------------------------------------------------
(* The wake-ups.                                                           *)

\* A step that leaves the trigger unset and the pass alone makes no build wait
\* and answers none, unless a client hangs up.
LEMMA QuietStep ==
  ASSUME SchedInv, [SchedulerNext]_allVars, ~PassSteps, Impatient = {}, ~trigger'
  PROVE  ~trigger /\ UNCHANGED <<passVars, answer, worker>> /\ by_id' \subseteq by_id
  <1>1. ASSUME NEW k \in Key, NEW r \in Request, BuildDerivation(k, r)
        PROVE  FALSE
    BY ZenonT(120), <1>1 DEF BuildDerivation
  <1>2. ASSUME NEW r \in Request, Release(r)
        PROVE  UNCHANGED <<trigger, passVars, answer, worker, by_id>>
    <2>1. Forsaken(r) = {}
      BY ZenonT(120), <1>2 DEF Release, Forsaken
    <2>2. answer' = [b \in BuildId |-> answer[b]] /\ UNCHANGED <<worker, by_id>>
      BY ZenonT(120), <1>2, <2>1 DEF Release, ReleaseRequest, CancelLocked
    <2>3. answer = [b \in BuildId |-> answer[b]]
      BY ZenonT(120) DEF SchedInv, Inv, TypeOK
    <2> QED BY ZenonT(120), <1>2, <2>2, <2>3 DEF Release, schedVars
  <1>3. ASSUME NEW r \in Request, PruneReleased(r)
        PROVE  UNCHANGED <<trigger, passVars, answer, worker>> /\ by_id' \subseteq by_id
    BY ZenonT(120), <1>3 DEF PruneReleased, PruneAfterRelease, Prune, schedVars, buildVars, workerVars
  <1>4. ASSUME NEW w \in Scope, TaskSteps(w)
        PROVE  UNCHANGED <<trigger, passVars, answer, worker, by_id>>
    <2>1. CASE TaskStarts(w) \/ TaskBuilds(w) \/ TaskCollects(w) \/ TaskLosesOutputs(w) \/ TaskFails(w)
      BY ZenonT(120), <2>1 DEF TaskStarts, TaskBuilds, TaskCollects, TaskLosesOutputs, TaskFails, vars, queueVars,
         buildVars, workerVars
    <2>2. CASE TaskRetries(w) \/ TaskRetriesWithResponse(w) \/ TaskAnswers(w) \/ TaskEnds(w)
      BY ZenonT(120), <2>2 DEF TaskRetries, TaskRetriesWithResponse, TaskAnswers, TaskEnds, RetriesOn
    <2> QED BY ZenonT(120), <1>4, <2>1, <2>2 DEF TaskSteps
  <1>5. ASSUME NEW s \in Store, DrainStarts(s) \/ DrainEnds(s) \/ StoreReturns(s)
        PROVE  FALSE
    BY ZenonT(120), <1>5 DEF DrainStarts, DrainEnds, StoreReturns
  <1>6. ASSUME NEW s \in Store, BreakerOpens(s) \/ Sample(s)
                                \/ \E reconnected \in BOOLEAN : BreakerCloses(s, reconnected)
        PROVE  ~trigger /\ UNCHANGED <<passVars, vars>>
    <2>1. ~trigger
      BY <1>6, ZenonT(120) DEF BreakerOpens, Sample, BreakerCloses
    <2> QED BY ZenonT(120), <1>6, <2>1 DEF BreakerOpens, Sample, BreakerCloses
  <1>7. CASE UNCHANGED allVars
    BY ZenonT(120), <1>7 DEF allVars, schedVars, vars, queueVars, buildVars, workerVars
  <1> QED BY SMTT(120), <1>1, <1>2, <1>3, <1>4, <1>5, <1>6, <1>7 DEF SchedulerNext, vars, queueVars, buildVars, workerVars

\* Whoever waits when the pass goes on is among the rest or noted.
LEMMA LostNobody ==
  ASSUME NEW rest \in SUBSET BuildId, NEW counts \in [Store -> Nat], NEW waits \in BOOLEAN,
         builds_waiting \in BOOLEAN, PassGoesOn(rest, counts, waits),
         \A b \in rest : ~IsDone(b)',
         \A b \in BuildId : Pending(b)' => b \in rest \/ waits
  PROVE  NobodyIsLost'
  <1>1. /\ pass' # "idle" => rest = todo' \cup {placing'} /\ waiting_slot' = waits
        /\ pass' = "idle" => placing' = 0 /\ todo' = {} /\ rest = {} /\ builds_waiting' = waits
    BY ZenonT(120), GoesOn
  <1>2. CASE pass' = "idle"
    <2>1. \A b \in BuildId : Pending(b)' => builds_waiting'
      BY SMTT(120), <1>1, <1>2
    <2>2. \A b \in (todo \cup {placing})' : b = 0
      BY ZenonT(120), <1>1, <1>2
    <2> QED BY ZenonT(120), <1>2, <2>1, <2>2 DEF NobodyIsLost
  <1>3. CASE pass' # "idle"
    <2>1. \A b \in BuildId : Pending(b)' => b \in (todo \cup {placing})' \/ waiting_slot'
      BY SMTT(120), <1>1, <1>3
    <2>2. \A b \in (todo \cup {placing})' : ~IsDone(b)'
      BY ZenonT(120), <1>1, <1>3
    <2> QED BY ZenonT(120), <1>3, <2>1, <2>2 DEF NobodyIsLost
  <1> QED BY ZenonT(120), <1>2, <1>3

\* No wake-up is lost while no client hangs up.
LEMMA LostStep == SchedInv /\ [SchedulerNext]_allVars => NobodyIsLost'
  <1> SUFFICES ASSUME SchedInv, [SchedulerNext]_allVars, Impatient = {}, ~trigger'
               PROVE  NobodyIsLost'
    BY ZenonT(120) DEF NobodyIsLost
  <1>0. /\ todo \in SUBSET BuildId /\ load \in [Store -> Nat] /\ waiting_slot \in BOOLEAN
        /\ builds_waiting \in BOOLEAN /\ next_id \in Nat /\ by_id \subseteq BuildId
        /\ answer \in [BuildId -> Outcome \cup {None}] /\ worker \in [BuildId -> Scope \cup {0}]
        /\ FALSE \in BOOLEAN /\ TRUE \in BOOLEAN /\ BuildId \subseteq Nat \ {0}
    BY ZenonT(120), GivenTypes
  <1>1. CASE ~PassSteps
    <2>1. /\ ~trigger /\ UNCHANGED <<pass, todo, placing, waiting_slot, builds_waiting, answer, worker>>
          /\ by_id' \subseteq by_id
      BY ZenonT(120), <1>1, QuietStep DEF passVars
    <2>2. \A b \in BuildId : (Pending(b)' => Pending(b)) /\ (IsDone(b)' <=> IsDone(b))
      BY ZenonT(120), <2>1 DEF Pending, IsDone, IsBuilding
    <2>3. /\ \A b \in todo \cup {placing} : b # 0 => ~IsDone(b)
          /\ \A b \in BuildId : Pending(b) =>
               IF pass = "idle" THEN builds_waiting ELSE b \in todo \cup {placing} \/ waiting_slot
      BY ZenonT(120), <2>1 DEF SchedInv, NobodyIsLost
    <2>4. placing # 0 => placing \in BuildId
      BY ZenonT(120) DEF SchedInv, PassOwns
    <2> QED BY ZenonT(120), <1>0, <2>1, <2>2, <2>3, <2>4 DEF NobodyIsLost
  <1>2. CASE PassStarts
    <2>1. UNCHANGED <<by_id, answer, worker>>
      BY ZenonT(120), <1>2 DEF PassStarts, vars, queueVars, buildVars, workerVars
    <2>2. \A b \in BuildId : Pending(b)' <=> Pending(b)
      BY ZenonT(120), <2>1 DEF Pending, IsDone, IsBuilding
    <2>3. \A b \in {x \in BuildId : Pending(x)} : ~IsDone(b)'
      BY ZenonT(120), <2>1 DEF Pending, IsDone
    <2>4. PICK counts \in [Store -> Nat] : PassGoesOn({b \in BuildId : Pending(b)}, counts, FALSE)
      BY ZenonT(120), <1>2, StartsWithAll
    <2> DEFINE list == {b \in BuildId : Pending(b)}
    <2>5. list \in SUBSET BuildId /\ (\A b \in list : ~IsDone(b)') /\ PassGoesOn(list, counts, FALSE)
          /\ (\A b \in BuildId : Pending(b)' => b \in list \/ FALSE)
      BY ZenonT(120), <2>2, <2>3, <2>4
    <2> HIDE DEF list
    <2> QED BY ZenonT(120), <1>0, <2>5, LostNobody
  <1>3. ASSUME PassSteps, ~PassStarts
        PROVE  /\ ~trigger /\ pass # "idle" /\ placing \in BuildId \ todo
               /\ \A b \in todo \cup {placing} : ~IsDone(b) /\ b \in by_id
               /\ \A b \in BuildId : Pending(b) => b \in todo \cup {placing} \/ waiting_slot
    <2>1. pass # "idle" /\ UNCHANGED trigger
      BY ZenonT(120), <1>3 DEF PassSteps, PassCancels, PassSpawns, PassWaits, PassRefuses, PassBreaks, PassFails, PassCrashes
    <2>2. placing \in BuildId \ todo /\ \A b \in todo \cup {placing} : b < next_id
      BY SMTT(120), <1>0, <2>1 DEF SchedInv, PassOwns
    <2>3. \A b \in todo \cup {placing} : ~IsDone(b)
      BY ZenonT(120), <1>0, <2>1, <2>2 DEF SchedInv, NobodyIsLost
    <2>4. \A b \in todo \cup {placing} : b \in by_id
      BY ZenonT(120), <1>0, <2>2, <2>3 DEF SchedInv, Inv, UnfinishedIsFound
    <2>5. \A b \in BuildId : Pending(b) => b \in todo \cup {placing} \/ waiting_slot
      BY ZenonT(120), <2>1 DEF SchedInv, NobodyIsLost
    <2> QED BY SMTT(120), <2>1, <2>2, <2>3, <2>4, <2>5
  <1>4. ASSUME NEW counts \in [Store -> Nat], PassGoesOn(todo, counts, waiting_slot),
               PassSteps, ~PassStarts, UNCHANGED by_id, \A b \in BuildId : b = placing => ~Pending(b)',
               \A b \in BuildId \ {placing} : worker'[b] = worker[b] /\ answer'[b] = answer[b]
        PROVE  NobodyIsLost'
    <2>1. \A b \in BuildId \ {placing} : (Pending(b)' => Pending(b)) /\ (IsDone(b)' <=> IsDone(b))
      BY ZenonT(120), <1>4 DEF Pending, IsDone, IsBuilding
    <2>2. \A b \in todo : ~IsDone(b)'
      BY ZenonT(120), <1>0, <1>3, <1>4, <2>1
    <2>3. \A b \in BuildId : Pending(b)' => b \in todo \/ waiting_slot
      <3>1. ASSUME NEW b \in BuildId, Pending(b)' PROVE b \in todo \/ waiting_slot
        <4>1. b # placing /\ Pending(b)
          BY ZenonT(120), <1>4, <2>1, <3>1
        <4> QED BY ZenonT(120), <1>3, <1>4, <4>1
      <3> QED BY ZenonT(120), <3>1
    <2> QED BY SMTT(120), <1>0, <1>4, <2>2, <2>3, LostNobody
  <1>5. CASE PassCancels
    <2>1. PassSteps /\ ~PassStarts
      BY ZenonT(120), <1>5 DEF PassSteps, PassCancels, PassStarts
    <2>2. CancelLocked({placing}) /\ PassGoesOn(todo, load, waiting_slot) /\ UNCHANGED <<by_id, worker>>
      BY ZenonT(120), <1>3, <1>5, <2>1 DEF PassCancels, queueVars
    <2>3. /\ answer'[placing] = "cancelled"
          /\ \A b \in BuildId \ {placing} : worker'[b] = worker[b] /\ answer'[b] = answer[b]
      BY ZenonT(120), <1>3, <2>1, <2>2 DEF CancelLocked
    <2>4. \A b \in BuildId : b = placing => ~Pending(b)'
      BY ZenonT(120), <2>3, ConstantsAssumption DEF Pending, IsDone, Outcome
    <2> QED BY ZenonT(120), <1>0, <1>4, <2>1, <2>2, <2>3, <2>4
  <1>6. CASE PassFails
    <2>1. PassSteps /\ ~PassStarts
      BY ZenonT(120), <1>6 DEF PassSteps, PassFails, PassStarts
    <2>2. /\ answer' = [answer EXCEPT ![placing] = "failure"] /\ PassGoesOn(todo, load, waiting_slot)
          /\ UNCHANGED <<by_id, worker>>
      BY ZenonT(120), <1>3, <1>6, <2>1 DEF PassFails, Complete, workerVars
    <2>3. /\ answer'[placing] = "failure"
          /\ \A b \in BuildId \ {placing} : worker'[b] = worker[b] /\ answer'[b] = answer[b]
      BY ZenonT(120), <1>0, <1>3, <2>1, <2>2
    <2>4. \A b \in BuildId : b = placing => ~Pending(b)'
      BY ZenonT(120), <2>3, ConstantsAssumption DEF Pending, IsDone, Outcome
    <2> QED BY SMTT(120), <1>0, <1>4, <2>1, <2>2, <2>3, <2>4
  <1>7. ASSUME NEW s \in Store, PassSpawns(s)
        PROVE  NobodyIsLost'
    <2>1. PassSteps /\ ~PassStarts
      BY ZenonT(120), <1>7 DEF PassSteps, PassSpawns, PassStarts
    <2>2. /\ worker' = [worker EXCEPT ![placing] = next_scope] /\ PassGoesOn(todo, Counted(s), waiting_slot)
          /\ UNCHANGED <<by_id, answer>>
      BY ZenonT(120), <1>7 DEF PassSpawns, SpawnWorker, queueVars, buildVars
    <2>3. Counted(s) \in [Store -> Nat]
      BY SMTT(120), <1>0 DEF Counted
    <2>4. next_scope # 0
      BY ZenonT(120), GivenTypes
    <2>5. /\ worker'[placing] # 0
          /\ \A b \in BuildId \ {placing} : worker'[b] = worker[b] /\ answer'[b] = answer[b]
      BY ZenonT(120), <1>0, <1>3, <2>1, <2>2, <2>4
    <2>6. \A b \in BuildId : b = placing => ~Pending(b)'
      BY ZenonT(120), <2>5 DEF Pending, IsBuilding
    <2> QED BY ZenonT(120), <1>4, <2>1, <2>2, <2>3, <2>5, <2>6
  <1>8. CASE PassWaits
    <2>1. PassSteps /\ ~PassStarts
      BY ZenonT(120), <1>8 DEF PassSteps, PassWaits, PassStarts
    <2>2. PassGoesOn(todo, load, TRUE) /\ UNCHANGED answer
      BY ZenonT(120), <1>8 DEF PassWaits, Noted, vars, buildVars
    <2>3. \A b \in todo : ~IsDone(b)'
      BY ZenonT(120), <1>3, <2>1, <2>2 DEF IsDone
    <2> QED BY ZenonT(120), <1>0, <2>2, <2>3, LostNobody
  <1>9. CASE PassCrashes
    <2>1. PassSteps /\ ~PassStarts
      BY ZenonT(120), <1>9 DEF PassSteps, PassCrashes, PassStarts
    <2> QED BY ZenonT(120), <1>3, <1>9, <2>1 DEF PassCrashes
  <1>10. CASE PassRefuses \/ PassBreaks
    <2>1. PassSteps /\ ~PassStarts
      BY ZenonT(120), <1>10 DEF PassSteps, PassRefuses, PassBreaks, PassStarts
    <2>2. /\ UNCHANGED <<by_id, answer, worker, todo, placing, waiting_slot>> /\ pass' = "failing"
      BY ZenonT(120), <1>10 DEF PassRefuses, PassBreaks, vars, queueVars, buildVars, workerVars
    <2>3. \A b \in BuildId : (Pending(b)' => Pending(b)) /\ (IsDone(b)' <=> IsDone(b))
      BY ZenonT(120), <2>2 DEF Pending, IsDone, IsBuilding
    <2> QED BY SMTT(120), <1>0, <1>3, <2>1, <2>2, <2>3 DEF NobodyIsLost
  <1> QED BY ZenonT(120), <1>1, <1>2, <1>5, <1>6, <1>7, <1>8, <1>9, <1>10 DEF PassSteps

-----------------------------------------------------------------------------
\* The invariant holds in every reachable state.
LEMMA SchedInvariance == SchedulerSpec => []SchedInv
  <1>1. SchedInv /\ [SchedulerNext]_allVars => SchedInv'
    BY SMTT(120), QueueKept, SchedTypeStep, PassOwnsStep, LiveOwnsStep, PresentStep, LostStep, AnswersStep DEF SchedInv
  <1> QED BY <1>1, SchedInit, PTL DEF SchedulerSpec

-----------------------------------------------------------------------------
(* The theorems.                                                           *)

\* The scheduler's variables and the queue's stay in their types.
THEOREM SchedulerTypes == SchedulerSpec => []SchedulerTypeOK
  BY SchedInvariance, PTL DEF SchedInv

\* The scheduler calls the queue as the queue's contract allows: what holds of
\* every caller holds under the pass that cancels and the drain as well.
THEOREM QueueUnderScheduler ==
  SchedulerSpec => [](UnfinishedIsFound /\ HoldsAgree /\ UnfinishedIsWanted /\ LiveWorkerNotCancelled)
  BY SchedInvariance, PTL DEF SchedInv, Inv, HoldsInv

\* execute_build, drain_store and a pass with stale state never let two live
\* workers at one build.
THEOREM OneWorkerPerBuild == SchedulerSpec => []OneLiveWorker
  <1>1. SchedInv => OneLiveWorker
    <2> SUFFICES ASSUME SchedInv, NEW v \in Scope, NEW w \in Scope,
                        task[v].at \in {"spawned", "running", "collecting"}, v \notin cancelled,
                        task[w].at \in {"spawned", "running", "collecting"}, w \notin cancelled,
                        task[v].build = task[w].build
                 PROVE  v = w
      BY ZenonT(120) DEF OneLiveWorker
    <2>1. Live(v) /\ Live(w)
      BY ZenonT(120) DEF Live
    <2>2. worker[task[v].build] = v /\ worker[task[w].build] = w
      BY ZenonT(120), <2>1 DEF SchedInv, LiveOwns
    <2> QED BY ZenonT(120), <2>2
  <1> QED BY <1>1, SchedInvariance, PTL

\* No pass meets a running build whose store is gone: drain_store resets the
\* builds before _forget_store.
THEOREM RunningStoresArePresent == SchedulerSpec => []RunningStoreIsPresent
  BY SchedInvariance, PTL DEF SchedInv

\* Unless a client hangs up, no build is left pending behind an unset trigger
\* without a note that wakes the loop, whatever workers and stores do.
THEOREM NoWakeUpIsLost == SchedulerSpec => [](Impatient = {} => NoBuildForgotten)
  <1>1. SchedInv => (Impatient = {} => NoBuildForgotten)
    BY ZenonT(120) DEF SchedInv, NobodyIsLost, NoBuildForgotten
  <1> QED BY <1>1, SchedInvariance, PTL

\* Where rooting the outputs does not break after a build, a client that reads
\* success finds the outputs in the local store.
THEOREM OutputsBeforeSuccess == SchedulerSpec => []("hold" \notin Faults => SuccessIsCollected)
  <1>1. SchedInv => ("hold" \notin Faults => SuccessIsCollected)
    BY ZenonT(120) DEF SchedInv, AnswersWhatItHas
  <1> QED BY <1>1, SchedInvariance, PTL

-----------------------------------------------------------------------------
(* The retries.                                                            *)

\* An attempt is not counted in store_failures yet: it runs, or its build is
\* answered and no pass holds on to it.
Uncharged(b, s) ==
    \/ worker[b] # 0 /\ assigned[b] = s
    \/ IsDone(b) /\ b \notin todo \cup {placing}

\* Every attempt but the last one was counted as a failure of its store.
RetriesCounted ==
    \A b \in BuildId, s \in Store :
        /\ Attempts(b, s) <= MaxStoreRetries
        /\ Attempts(b, s) <= failures[b][s] + 1
        /\ ~Uncharged(b, s) => Attempts(b, s) <= failures[b][s]

\* A worker that leaves has answered its build or is no longer its worker.
LeavesAnswered ==
    \A w \in Scope : task[w].at = "leaving" /\ worker[task[w].build] = w => IsDone(task[w].build)

RetryInv == RetriesCounted /\ LeavesAnswered

\* The attempts are numbers, and depend on the builds and stores of the tasks.
LEMMA AttemptsCount ==
  ASSUME NEW b \in BuildId, NEW s \in Store
  PROVE  /\ Attempts(b, s) \in Nat
         /\ (\A w \in Scope : task'[w].build = task[w].build /\ task'[w].store = task[w].store)
            => Attempts(b, s)' = Attempts(b, s)
  <1>1. IsFiniteSet(Scope)
    BY SMTT(120), FS_Interval, ConstantsAssumption DEF Scope
  <1>2. Attempts(b, s) \in Nat
    BY SMTT(120), <1>1, FS_Subset, FS_CardinalityType DEF Attempts
  <1>3. ASSUME \A w \in Scope : task'[w].build = task[w].build /\ task'[w].store = task[w].store
        PROVE  Attempts(b, s)' = Attempts(b, s)
    <2>1. {w \in Scope : task'[w].build = b /\ task'[w].store = s}
          = {w \in Scope : task[w].build = b /\ task[w].store = s}
      BY ZenonT(120), <1>3
    <2> QED BY ZenonT(120), <2>1 DEF Attempts
  <1> QED BY ZenonT(120), <1>2, <1>3

\* Nothing is tried at the start.
LEMMA RetryInit == SchedulerInit => RetryInv
  <1> SUFFICES ASSUME SchedulerInit PROVE RetryInv
    BY ZenonT(120)
  <1>1. LeavesAnswered
    BY ZenonT(120) DEF SchedulerInit, LeavesAnswered
  <1>2. ASSUME NEW b \in BuildId, NEW s \in Store
        PROVE  Attempts(b, s) = 0 /\ failures[b][s] = 0
    <2>1. {w \in Scope : task[w].build = b /\ task[w].store = s} = {}
      BY ZenonT(120), ConstantsAssumption DEF SchedulerInit, BuildId
    <2> QED BY ZenonT(120), <2>1, FS_EmptySet DEF Attempts, SchedulerInit
  <1>3. RetriesCounted
    BY SMTT(120), <1>2, SchedulerAssumption DEF RetriesCounted
  <1> QED BY ZenonT(120), <1>1, <1>3 DEF RetryInv

\* A worker leaves with its build answered, or off it.
LEMMA LeavesStep ==
  ASSUME SchedInv, RetryInv, [SchedulerNext]_allVars
  PROVE  LeavesAnswered'
  <1>0. /\ LeavesAnswered /\ task \in [Scope -> Task] /\ worker \in [BuildId -> Scope \cup {0}]
        /\ Scope \subseteq Nat \ {0} /\ next_id \in Nat /\ BuildId \subseteq Nat
        /\ answer \in [BuildId -> Outcome \cup {None}] /\ None \notin Outcome
    BY ZenonT(120), GivenTypes, ConstantsAssumption DEF RetryInv
  <1>1. SUFFICES ASSUME NEW v \in Scope, task'[v].at = "leaving", worker'[task'[v].build] = v
                 PROVE  answer'[task'[v].build] # None
    BY ZenonT(120) DEF LeavesAnswered, IsDone
  <1>2. ASSUME task'[v] = task[v], worker[task[v].build] = v
        PROVE  answer'[task'[v].build] # None
    <2>1. task[v].build \in BuildId
      BY ZenonT(120), <1>1, <1>2 DEF SchedInv, LiveOwns
    <2>2. IsDone(task[v].build)
      BY ZenonT(120), <1>0, <1>1, <1>2 DEF LeavesAnswered
    <2> QED BY ZenonT(120), <1>2, <2>1, <2>2, SchedAnswerStep DEF IsDone
  <1>3. ASSUME NEW s \in Store, PassSpawns(s)
        PROVE  answer'[task'[v].build] # None
    <2>1. /\ task' = [task EXCEPT ![next_scope] =
                        [build |-> placing, store |-> s, at |-> "spawned", result |-> None]]
          /\ worker' = [worker EXCEPT ![placing] = next_scope]
      BY ZenonT(120), <1>3 DEF PassSpawns, SpawnWorker
    <2>2. v # next_scope
      BY ZenonT(120), <1>0, <1>1, <2>1
    <2>3. task'[v] = task[v]
      BY ZenonT(120), <1>0, <2>1, <2>2
    <2>4. task[v].build \in BuildId
      BY ZenonT(120), <1>1, <2>3 DEF SchedInv, LiveOwns
    <2>5. worker[task[v].build] = v
      BY SMTT(120), <1>0, <1>1, <2>1, <2>2, <2>3, <2>4
    <2> QED BY ZenonT(120), <1>2, <2>3, <2>5
  <1>4. ASSUME NEW w \in Scope, TaskSteps(w)
        PROVE  answer'[task'[v].build] # None
    <2>1. /\ task'[w].build = task[w].build /\ \A u \in Scope \ {w} : task'[u] = task[u]
          /\ task[w].build \in BuildId
      BY ZenonT(120), <1>4, TaskShape
    <2>2. CASE v # w
      <3>1. task'[v] = task[v] /\ task[v].build \in BuildId
        BY ZenonT(120), <1>1, <2>1, <2>2 DEF SchedInv, LiveOwns
      <3>2. worker[task[v].build] = v
        <4>1. worker' = worker \/ worker' = [worker EXCEPT ![task[w].build] = 0]
          BY ZenonT(120), <1>4, TaskWorker
        <4>2. v # 0 /\ worker'[task[v].build] = v
          BY ZenonT(120), <1>0, <1>1, <3>1
        <4> QED BY ZenonT(120), <1>0, <3>1, <4>1, <4>2
      <3> QED BY ZenonT(120), <1>2, <3>1, <3>2
    <2>3. CASE v = w
      <3>1. {"running", "collecting", "leaving", "ended"} \subseteq TaskState
        BY ZenonT(120) DEF TaskState
      <3>2. TaskRetries(w) \/ TaskAnswers(w)
        BY SMTT(120), <1>1, <1>4, <2>3, <3>1, TaskArrives DEF TaskSteps, TaskStarts, TaskBuilds, TaskCollects,
           TaskLosesOutputs, TaskFails, TaskRetriesWithResponse, TaskEnds
      <3>3. ~TaskRetries(w)
        <4>1. SUFFICES ASSUME TaskRetries(w) PROVE FALSE
          BY ZenonT(120)
        <4>2. worker' = [worker EXCEPT ![task[w].build] = 0]
          BY ZenonT(120), <4>1 DEF TaskRetries, RetriesOn
        <4> QED BY SMTT(120), <1>0, <1>1, <2>1, <2>3, <4>2
      <3>4. TaskAnswers(w)
        BY ZenonT(120), <3>2, <3>3
      <3>5. worker[task[w].build] = w
        BY ZenonT(120), <1>1, <2>1, <2>3, <3>4 DEF TaskAnswers, Complete, vars, workerVars
      <3>6. task[w].build < next_id
        <4>1. worker[task[w].build] # 0
          BY ZenonT(120), <1>0, <3>5
        <4>2. ~(task[w].build >= next_id)
          BY ZenonT(120), <2>1, <4>1 DEF SchedInv, Inv, Fresh
        <4>3. task[w].build \in Nat
          BY ZenonT(120), <1>0, <2>1
        <4> QED BY SMTT(120), <1>0, <4>2, <4>3
      <3>7. IsDone(task[w].build) \/ task[w].build \in by_id
        BY ZenonT(120), <2>1, <3>6 DEF SchedInv, Inv, UnfinishedIsFound
      <3>8. CASE IsDone(task[w].build)
        BY ZenonT(120), <2>1, <2>3, <3>8, SchedAnswerStep DEF IsDone
      <3>9. CASE ~IsDone(task[w].build)
        <4>1. answer' = [answer EXCEPT ![task[w].build] = task[w].result]
          BY SMTT(120), <3>4, <3>7, <3>9 DEF TaskAnswers, Complete
        <4>2. task[w].result \in Outcome
          BY ZenonT(120), <3>4 DEF TaskAnswers, SchedInv, LiveOwns, Outcome
        <4> QED BY ZenonT(120), <1>0, <2>1, <2>3, <4>1, <4>2
      <3> QED BY ZenonT(120), <3>8, <3>9
    <2> QED BY ZenonT(120), <2>2, <2>3
  <1>5. CASE ~(\E s \in Store : PassSpawns(s)) /\ ~(\E w \in Scope : TaskSteps(w))
    <2>1. UNCHANGED task
      BY ZenonT(120), <1>5, TasksRest
    <2>2. task[v].build \in BuildId
      BY ZenonT(120), <1>1, <2>1 DEF SchedInv, LiveOwns
    <2>3. worker[task[v].build] = v
      BY ZenonT(120), <1>0, <1>1, <1>5, <2>1, <2>2, NoNewWorker
    <2> QED BY ZenonT(120), <1>2, <2>1, <2>3
  <1> QED BY ZenonT(120), <1>3, <1>4, <1>5

\* What is counted stays counted where the attempts stay, the failures do not
\* go down, and an attempt that is not charged yet is charged or stays so.
LEMMA CountedStays ==
  ASSUME SchedInv, RetryInv, NEW b \in BuildId, NEW s \in Store,
         Attempts(b, s)' = Attempts(b, s),
         failures'[b][s] = failures[b][s] \/ failures'[b][s] = OneMore(failures[b][s]),
         Uncharged(b, s) => Uncharged(b, s)' \/ failures'[b][s] = OneMore(failures[b][s])
  PROVE  /\ Attempts(b, s)' <= MaxStoreRetries
         /\ Attempts(b, s)' <= failures'[b][s] + 1
         /\ ~Uncharged(b, s)' => Attempts(b, s)' <= failures'[b][s]
  <1>1. /\ Attempts(b, s) \in Nat /\ failures[b][s] \in 0..MaxStoreRetries /\ MaxStoreRetries \in Nat
        /\ Attempts(b, s) <= MaxStoreRetries /\ Attempts(b, s) <= failures[b][s] + 1
        /\ ~Uncharged(b, s) => Attempts(b, s) <= failures[b][s]
    BY SMTT(120), AttemptsCount, SchedulerAssumption DEF SchedInv, SchedulerTypeOK, RetryInv, RetriesCounted
  <1> DEFINE a == Attempts(b, s)
             f == failures[b][s]
             g == failures'[b][s]
  <1>2. f \in Nat /\ f <= MaxStoreRetries
    BY SMTT(120), <1>1
  <1>3. OneMore(f) \in Nat /\ OneMore(f) >= f /\ a <= OneMore(f)
    <2> HIDE DEF a, f
    <2> QED BY SMTT(120), <1>1, <1>2 DEF OneMore, a, f
  <1>4. g \in Nat /\ g >= f
    BY SMTT(120), <1>2, <1>3
  <1>5. ~Uncharged(b, s)' => a <= g
    <2>1. CASE g = OneMore(f)
      BY ZenonT(120), <1>3, <2>1
    <2>2. CASE g # OneMore(f)
      BY ZenonT(120), <1>1, <2>2
    <2> QED BY ZenonT(120), <2>1, <2>2
  <1> HIDE DEF g
  <1> QED BY SMTT(120), <1>1, <1>2, <1>4, <1>5 DEF g

\* A pass that goes on holds on to no build but the rest of its list.
LEMMA GoesOnFewer ==
  ASSUME NEW rest \in SUBSET BuildId, NEW counts \in [Store -> Nat], NEW waits \in BOOLEAN,
         builds_waiting \in BOOLEAN, PassGoesOn(rest, counts, waits)
  PROVE  \A b \in BuildId : b \in (todo \cup {placing})' => b \in rest
  <1>1. /\ pass' # "idle" => rest = todo' \cup {placing'}
        /\ pass' = "idle" => placing' = 0 /\ todo' = {}
    BY ZenonT(120), GoesOn
  <1>2. 0 \notin BuildId
    BY SMTT(120), ConstantsAssumption DEF BuildId
  <1> QED BY SMTT(120), <1>1, <1>2

\* The pass charges before it tries again: a store that it may choose has
\* failures left, and every attempt before this one was counted.
LEMMA SpawnCounted ==
  ASSUME SchedInv, RetryInv, [SchedulerNext]_allVars, NEW x \in Store, PassSpawns(x)
  PROVE  RetriesCounted'
  <1>0. /\ task \in [Scope -> Task] /\ worker \in [BuildId -> Scope \cup {0}]
        /\ assigned \in [BuildId -> Store \cup {None}] /\ todo \in SUBSET BuildId
        /\ load \in [Store -> Nat] /\ waiting_slot \in BOOLEAN /\ builds_waiting \in BOOLEAN
        /\ next_scope \in Scope /\ BuildId \subseteq Nat \ {0} /\ MaxStoreRetries \in Nat
        /\ failures \in [BuildId -> [Store -> 0..MaxStoreRetries]]
    <2>1. next_scope <= MaxScopes
      BY ZenonT(120) DEF PassSpawns, SpawnWorker
    <2>2. next_scope \in Scope
      BY SMTT(120), <2>1, GivenTypes, ConstantsAssumption DEF Scope
    <2>3. MaxStoreRetries \in Nat
      BY ZenonT(120), SchedulerAssumption
    <2> QED BY ZenonT(120), <2>2, <2>3, GivenTypes
  <1>1. /\ placing \in BuildId \ todo /\ worker[placing] = 0
        /\ task[next_scope].build = 0
    <2>1. next_scope >= next_scope
      BY SMTT(120), <1>0, ConstantsAssumption DEF Scope
    <2>2. task[next_scope].build = 0
      BY ZenonT(120), <1>0, <2>1 DEF SchedInv, LiveOwns
    <2> QED BY ZenonT(120), <1>0, <2>2 DEF PassSpawns, SchedInv, PassOwns
  <1> DEFINE new == [build |-> placing, store |-> x, at |-> "spawned", result |-> None]
  <1>2. /\ task' = [task EXCEPT ![next_scope] = new]
        /\ worker' = [worker EXCEPT ![placing] = next_scope]
        /\ assigned' = [assigned EXCEPT ![placing] = x]
        /\ UNCHANGED <<answer, failures>> /\ PassGoesOn(todo, Counted(x), waiting_slot)
    BY ZenonT(120) DEF PassSpawns, SpawnWorker, buildVars, resultVars
  <1>3. /\ task'[next_scope].build = placing /\ task'[next_scope].store = x
        /\ \A w \in Scope \ {next_scope} : task'[w] = task[w]
    BY ZenonT(120), <1>0, <1>2
  <1> HIDE DEF new
  <1>4. \A b \in BuildId : b \in (todo \cup {placing})' => b \in todo
    <2>1. Counted(x) \in [Store -> Nat]
      BY SMTT(120), <1>0 DEF Counted
    <2> QED BY SMTT(120), <1>0, <1>2, <2>1, GoesOnFewer
  <1>5. ASSUME NEW b \in BuildId, NEW s \in Store, b # placing \/ s # x
        PROVE  Attempts(b, s)' = Attempts(b, s)
    <2>1. {w \in Scope : task'[w].build = b /\ task'[w].store = s}
          = {w \in Scope : task[w].build = b /\ task[w].store = s}
      BY SMTT(120), <1>0, <1>1, <1>3, <1>5
    <2> QED BY ZenonT(120), <2>1 DEF Attempts
  <1>6. Attempts(placing, x) <= failures[placing][x] /\ failures[placing][x] < MaxStoreRetries
    <2>1. ~Uncharged(placing, x)
      BY ZenonT(120), <1>1 DEF Uncharged
    <2>2. x \in Capable(placing)
      BY ZenonT(120), <1>1, ChoicesAreCapable DEF PassSpawns
    <2>3. ~(failures[placing][x] >= MaxStoreRetries)
      BY ZenonT(120), <2>2 DEF Capable, IsBlacklisted
    <2>4. failures[placing][x] \in Nat
      BY SMTT(120), <1>0, <1>1
    <2> QED BY SMTT(120), <1>0, <1>1, <2>1, <2>3, <2>4 DEF RetryInv, RetriesCounted
  <1>7. ASSUME NEW b \in BuildId, b = placing
        PROVE  /\ Attempts(b, x)' = Attempts(b, x) + 1
               /\ Uncharged(b, x)'
    <2> DEFINE S == {w \in Scope : task[w].build = b /\ task[w].store = x}
    <2>1. {w \in Scope : task'[w].build = b /\ task'[w].store = x} = S \cup {next_scope}
      BY SMTT(120), <1>0, <1>1, <1>3, <1>7
    <2>2. IsFiniteSet(S) /\ next_scope \notin S
      <3>1. IsFiniteSet(Scope)
        BY SMTT(120), FS_Interval, ConstantsAssumption DEF Scope
      <3>2. IsFiniteSet(S)
        BY ZenonT(120), <3>1, FS_Subset
      <3> QED BY ZenonT(120), <1>1, <1>7, <1>0, <3>2
    <2>3. Cardinality(S \cup {next_scope}) = Cardinality(S) + 1
      <3> HIDE DEF S
      <3> QED BY ZenonT(120), <2>2, FS_AddElement
    <2>4. worker'[b] # 0 /\ assigned'[b] = x
      BY SMTT(120), <1>0, <1>1, <1>2, <1>7, ConstantsAssumption DEF Scope
    <2> QED BY ZenonT(120), <2>1, <2>3, <2>4 DEF Attempts, Uncharged
  <1>8. SUFFICES ASSUME NEW b \in BuildId, NEW s \in Store
                 PROVE  /\ Attempts(b, s)' <= MaxStoreRetries
                        /\ Attempts(b, s)' <= failures'[b][s] + 1
                        /\ ~Uncharged(b, s)' => Attempts(b, s)' <= failures'[b][s]
    BY ZenonT(120) DEF RetriesCounted
  <1>9. CASE b = placing /\ s = x
    <2>1. Attempts(b, s) \in Nat /\ failures[b][s] \in Nat /\ Attempts(b, s)' = Attempts(b, s) + 1
          /\ Attempts(b, s) <= failures[b][s] /\ failures[b][s] < MaxStoreRetries
          /\ failures'[b][s] = failures[b][s] /\ Uncharged(b, s)'
      BY SMTT(120), <1>0, <1>2, <1>6, <1>7, <1>9, AttemptsCount
    <2> QED BY SMTT(120), <1>0, <2>1
  <1>10. CASE b # placing \/ s # x
    <2>1. Attempts(b, s)' = Attempts(b, s) /\ failures'[b][s] = failures[b][s]
      BY ZenonT(120), <1>2, <1>5, <1>10
    <2>2. Uncharged(b, s) => Uncharged(b, s)'
      <3>1. CASE b = placing
        BY ZenonT(120), <1>1, <3>1 DEF Uncharged
      <3>2. CASE b # placing
        <4>1. worker'[b] = worker[b] /\ assigned'[b] = assigned[b] /\ answer'[b] = answer[b]
          BY SMTT(120), <1>0, <1>2, <3>2
        <4> QED BY ZenonT(120), <1>4, <4>1 DEF Uncharged, IsDone
      <3> QED BY ZenonT(120), <3>1, <3>2
    <2> QED BY ZenonT(120), <2>1, <2>2, CountedStays
  <1> QED BY ZenonT(120), <1>9, <1>10

\* store_failures only ever counts on.
LEMMA FailuresGrow ==
  ASSUME SchedInv, [SchedulerNext]_allVars
  PROVE  \A b \in BuildId, s \in Store :
           failures'[b][s] = failures[b][s] \/ failures'[b][s] = OneMore(failures[b][s])
  <1>0. failures \in [BuildId -> [Store -> 0..MaxStoreRetries]]
    BY ZenonT(120), GivenTypes
  <1>1. ASSUME NEW x \in BuildId, NEW y \in Store, RetriesOn(x, y), NEW b \in BuildId, NEW s \in Store
        PROVE  failures'[b][s] = failures[b][s] \/ failures'[b][s] = OneMore(failures[b][s])
    BY ZenonT(120), <1>0, <1>1 DEF RetriesOn
  <1>2. ASSUME NEW y \in Store, DrainEnds(y), NEW b \in BuildId, NEW s \in Store
        PROVE  failures'[b][s] = failures[b][s] \/ failures'[b][s] = OneMore(failures[b][s])
    BY SMTT(120), <1>0, <1>2 DEF DrainEnds
  <1>3. ASSUME NEW w \in Scope, TaskSteps(w)
        PROVE  UNCHANGED failures \/ RetriesOn(task[w].build, task[w].store)
    BY ZenonT(120), <1>3 DEF TaskSteps, TaskStarts, TaskBuilds, TaskCollects, TaskLosesOutputs, TaskFails, TaskRetries,
       TaskRetriesWithResponse, TaskAnswers, TaskEnds, resultVars
  <1>4. ASSUME \/ \E k \in Key, r \in Request : BuildDerivation(k, r)
               \/ \E r \in Request : Release(r) \/ PruneReleased(r)
               \/ PassSteps
               \/ \E s \in Store : DrainStarts(s) \/ StoreReturns(s) \/ BreakerOpens(s) \/ Sample(s)
               \/ \E s \in Store, reconnected \in BOOLEAN : BreakerCloses(s, reconnected)
        PROVE  UNCHANGED failures
    BY ZenonT(120), <1>4 DEF BuildDerivation, Release, PruneReleased, PassSteps, PassStarts, PassCancels, PassSpawns, PassWaits,
       PassRefuses, PassBreaks, PassFails, PassCrashes, DrainStarts, StoreReturns, BreakerOpens, Sample,
       BreakerCloses, schedVars, resultVars
  <1>5. CASE UNCHANGED allVars
    BY ZenonT(120), <1>5 DEF allVars, schedVars, resultVars
  <1>6. ASSUME NEW w \in Scope, TaskSteps(w)
        PROVE  task[w].build \in BuildId /\ task[w].store \in Store
    BY ZenonT(120), <1>6, TaskShape
  <1> QED BY ZenonT(120), <1>1, <1>2, <1>3, <1>4, <1>5, <1>6 DEF SchedulerNext

\* Whoever takes the worker off an unanswered build counts a failure of its
\* store: the worker that retries, and the drain.
LEMMA RetryCharges ==
  ASSUME SchedInv, RetryInv, [SchedulerNext]_allVars, ~\E s \in Store : PassSpawns(s),
         NEW b \in BuildId, ~IsDone(b), worker'[b] # worker[b]
  PROVE  \A s \in Store : assigned[b] = s => failures'[b][s] = OneMore(failures[b][s])
  <1>0. /\ failures \in [BuildId -> [Store -> 0..MaxStoreRetries]] /\ worker \in [BuildId -> Scope \cup {0}]
        /\ by_id \subseteq BuildId
    BY ZenonT(120), GivenTypes
  <1>1. ASSUME NEW y \in Store, DrainEnds(y)
        PROVE  \A s \in Store : assigned[b] = s => failures'[b][s] = OneMore(failures[b][s])
    <2> DEFINE back == {x \in by_id : ~IsDone(x) /\ assigned[x] = y}
    <2>1. /\ worker' = [x \in BuildId |-> IF x \in back THEN 0 ELSE worker[x]]
          /\ failures' = [x \in BuildId |-> IF x \in back THEN [failures[x] EXCEPT ![y] = OneMore(@)]
                                            ELSE failures[x]]
      BY ZenonT(120), <1>1 DEF DrainEnds, ResetsWorkers
    <2>2. b \in back
      BY ZenonT(120), <2>1
    <2> QED BY ZenonT(120), <1>0, <2>1, <2>2
  <1>2. ASSUME NEW w \in Scope, TaskSteps(w)
        PROVE  \A s \in Store : assigned[b] = s => failures'[b][s] = OneMore(failures[b][s])
    <2>1. /\ worker[task[w].build] = w /\ worker' = [worker EXCEPT ![task[w].build] = 0]
          /\ task[w].build \in BuildId /\ task[w].store \in Store
      BY ZenonT(120), <1>2, TaskWorker, TaskShape
    <2>2. task[w].build = b
      BY ZenonT(120), <1>0, <2>1
    <2>3. w # 0 /\ worker[b] = w
      BY SMTT(120), <2>1, <2>2, ConstantsAssumption DEF Scope
    <2>4. w \notin cancelled
      BY ZenonT(120), <2>3 DEF SchedInv, Inv, LiveWorkerNotCancelled, IsBuilding
    <2>5. ~TaskEnds(w)
      BY ZenonT(120), <2>2, <2>3, <2>4 DEF TaskEnds, RetryInv, LeavesAnswered
    <2>6. TaskRetries(w) \/ TaskRetriesWithResponse(w)
      <3>1. ASSUME \/ TaskStarts(w) \/ TaskBuilds(w) \/ TaskCollects(w) \/ TaskLosesOutputs(w) \/ TaskFails(w)
                   \/ TaskAnswers(w)
            PROVE  UNCHANGED worker
        BY ZenonT(120), <3>1 DEF TaskStarts, TaskBuilds, TaskCollects, TaskLosesOutputs, TaskFails, TaskAnswers, Complete,
           vars, workerVars
      <3> QED BY ZenonT(120), <1>2, <2>5, <3>1 DEF TaskSteps
    <2>7. RetriesOn(b, task[w].store) /\ Live(w)
      BY ZenonT(120), <2>2, <2>6 DEF TaskRetries, TaskRetriesWithResponse, Live
    <2>8. assigned[b] = task[w].store
      BY ZenonT(120), <2>2, <2>7 DEF SchedInv, LiveOwns
    <2> QED BY ZenonT(120), <1>0, <2>1, <2>7, <2>8 DEF RetriesOn
  <1>3. CASE ~\E w \in Scope : TaskSteps(w)
    <2>1. \E y \in Store : DrainEnds(y)
      BY ZenonT(120), <1>3, WorkersRest
    <2> QED BY ZenonT(120), <1>1, <2>1
  <1> QED BY ZenonT(120), <1>2, <1>3

\* No other step tries a build, and whoever takes a worker off an unanswered
\* build charges its store.
LEMMA CountedStep ==
  ASSUME SchedInv, RetryInv, [SchedulerNext]_allVars
  PROVE  RetriesCounted'
  <1>0. /\ todo \in SUBSET BuildId /\ load \in [Store -> Nat] /\ waiting_slot \in BOOLEAN
        /\ builds_waiting \in BOOLEAN /\ worker \in [BuildId -> Scope \cup {0}]
        /\ failures \in [BuildId -> [Store -> 0..MaxStoreRetries]]
        /\ FALSE \in BOOLEAN /\ TRUE \in BOOLEAN /\ 0 \notin BuildId /\ 0 \notin Scope
    BY ZenonT(120), GivenTypes
  <1>1. CASE \E s \in Store : PassSpawns(s)
    BY ZenonT(120), <1>1, SpawnCounted
  <1>2. CASE ~\E s \in Store : PassSpawns(s)
    <2>1. ASSUME NEW b \in BuildId, NEW s \in Store
          PROVE  Attempts(b, s)' = Attempts(b, s)
      <3>1. \A w \in Scope : task'[w].build = task[w].build /\ task'[w].store = task[w].store
        <4>1. CASE \E w \in Scope : TaskSteps(w)
          BY ZenonT(120), <4>1, TaskShape
        <4>2. CASE ~\E w \in Scope : TaskSteps(w)
          BY ZenonT(120), <1>2, <4>2, TasksRest
        <4> QED BY ZenonT(120), <4>1, <4>2
      <3> QED BY ZenonT(120), <3>1, AttemptsCount
    <2>2. UNCHANGED assigned /\ \A b \in BuildId : worker'[b] = worker[b] \/ worker'[b] = 0
      BY ZenonT(120), <1>2, NoNewWorker
    <2>3. \A b \in BuildId : IsDone(b) => IsDone(b)'
      BY ZenonT(120), SchedAnswerStep DEF IsDone
    <2>4. \A b \in BuildId : IsDone(b) /\ b \in (todo \cup {placing})' => b \in todo \cup {placing}
      <3>1. CASE ~PassSteps
        BY ZenonT(120), <3>1, Aside DEF passVars
      <3>2. CASE PassStarts
        <4>1. PICK counts \in [Store -> Nat] : PassGoesOn({b \in BuildId : Pending(b)}, counts, FALSE)
          BY ZenonT(120), <3>2, StartsWithAll
        <4> DEFINE list == {b \in BuildId : Pending(b)}
        <4>2. list \in SUBSET BuildId /\ PassGoesOn(list, counts, FALSE) /\ \A b \in list : ~IsDone(b)
          BY ZenonT(120), <4>1 DEF Pending
        <4> HIDE DEF list
        <4> QED BY ZenonT(120), <1>0, <4>2, GoesOnFewer
      <3>3. CASE PassCancels \/ PassFails
        <4>1. PassGoesOn(todo, load, waiting_slot)
          BY ZenonT(120), <3>3 DEF PassCancels, PassFails
        <4> QED BY SMTT(120), <1>0, <4>1, GoesOnFewer
      <3>4. CASE PassWaits
        <4>1. PassGoesOn(todo, load, TRUE)
          BY ZenonT(120), <3>4 DEF PassWaits, Noted
        <4> QED BY ZenonT(120), <1>0, <4>1, GoesOnFewer
      <3>5. CASE PassCrashes
        <4>1. todo' = {} /\ placing' = 0
          BY <3>5, ZenonT(120) DEF PassCrashes, PassGoesOn
        <4> QED BY ZenonT(120), <1>0, <4>1
      <3>6. CASE PassRefuses \/ PassBreaks
        BY ZenonT(120), <3>6 DEF PassRefuses, PassBreaks
      <3> QED BY SMTT(120), <1>2, <3>1, <3>2, <3>3, <3>4, <3>5, <3>6 DEF PassSteps
    <2>5. ASSUME NEW b \in BuildId, NEW s \in Store, Uncharged(b, s), worker'[b] = worker[b]
          PROVE  Uncharged(b, s)'
      BY ZenonT(120), <2>2, <2>3, <2>4, <2>5 DEF Uncharged
    <2>6. ASSUME NEW b \in BuildId, NEW s \in Store, Uncharged(b, s), IsDone(b), worker[b] # 0
          PROVE  Uncharged(b, s)'
      <3>1. b \notin todo \cup {placing}
        BY ZenonT(120), <1>0, <2>6 DEF SchedInv, PassOwns
      <3> QED BY SMTT(120), <2>3, <2>4, <2>6, <3>1 DEF Uncharged
    <2>7. \A b \in BuildId, s \in Store :
            failures'[b][s] = failures[b][s] \/ failures'[b][s] = OneMore(failures[b][s])
      BY ZenonT(120), FailuresGrow
    <2>8. ASSUME NEW b \in BuildId, NEW s \in Store, Uncharged(b, s), worker'[b] # worker[b], ~IsDone(b)
          PROVE  failures'[b][s] = OneMore(failures[b][s])
      BY SMTT(120), <1>2, <2>8, RetryCharges DEF Uncharged
    <2>9. ASSUME NEW b \in BuildId, NEW s \in Store
          PROVE  /\ Attempts(b, s)' <= MaxStoreRetries
                 /\ Attempts(b, s)' <= failures'[b][s] + 1
                 /\ ~Uncharged(b, s)' => Attempts(b, s)' <= failures'[b][s]
      <3>1. Uncharged(b, s) => Uncharged(b, s)' \/ failures'[b][s] = OneMore(failures[b][s])
        <4>1. CASE worker[b] = 0
          BY ZenonT(120), <2>2, <2>5, <4>1
        <4>2. CASE worker[b] # 0
          BY ZenonT(120), <2>5, <2>6, <2>8, <4>2
        <4> QED BY ZenonT(120), <4>1, <4>2
      <3> QED BY ZenonT(120), <2>1, <2>7, <3>1, CountedStays
    <2> QED BY ZenonT(120), <2>9 DEF RetriesCounted
  <1> QED BY ZenonT(120), <1>1, <1>2

\* Both invariants hold in every reachable state.
LEMMA RetryInvariance == SchedulerSpec => []RetryInv
  <1>1. SchedInv /\ RetryInv /\ [SchedulerNext]_allVars => RetryInv'
    BY SMTT(120), LeavesStep, CountedStep DEF RetryInv
  <1> QED BY <1>1, RetryInit, SchedInvariance, PTL DEF SchedulerSpec

-----------------------------------------------------------------------------
(* The theorems about retries.                                             *)

\* No store gets a build more often than MAX_STORE_RETRIES, over any number of
\* passes, workers, drains and returns.
THEOREM RetriesAreBounded == SchedulerSpec => []RetryLimitHolds
  <1>1. RetryInv => RetryLimitHolds
    BY ZenonT(120) DEF RetryInv, RetriesCounted, RetryLimitHolds
  <1> QED BY <1>1, RetryInvariance, PTL

\* A pass places a build on a store that failed it only when no untried
\* candidate has room.
THEOREM RetriesGoElsewhere == SchedulerSpec => RetryGoesElsewhere
  <1>1. ASSUME SchedInv, [SchedulerNext]_allVars, NEW s \in Store,
               pass = "measuring", worker'[placing] # 0, assigned'[placing] = s,
               key[placing] \notin PreferLocal \cup HereOnly \cup MemoryTight,
               failures[placing][s] > 0
        PROVE  Usable(placing) \cap Untried(placing) = {}
    <2>1. placing \in BuildId /\ worker[placing] = 0
      BY SMTT(120), <1>1, ConstantsAssumption DEF SchedInv, PassOwns, BuildId
    <2>2. PICK x \in Store : PassSpawns(x)
      BY SMTT(120), <1>1, <2>1, NoNewWorker
    <2>3. assigned' = [assigned EXCEPT ![placing] = x] /\ assigned \in [BuildId -> Store \cup {None}]
      BY ZenonT(120), <1>1, <2>2 DEF PassSpawns, SpawnWorker, SchedInv, Inv, TypeOK
    <2>4. s \in Choices(placing)
      BY ZenonT(120), <1>1, <2>1, <2>2, <2>3 DEF PassSpawns
    <2>5. ~Prefers(placing)
      BY ZenonT(120), <1>1 DEF Prefers
    <2>6. s \notin Untried(placing)
      BY SMTT(120), <1>1 DEF Untried
    <2> QED BY SMTT(120), <1>1, <2>4, <2>5, <2>6 DEF Choices
  <1>2. SchedInv /\ [SchedulerNext]_allVars =>
          [\A s \in Store :
             /\ pass = "measuring" /\ worker'[placing] # 0 /\ assigned'[placing] = s
             /\ key[placing] \notin PreferLocal \cup HereOnly \cup MemoryTight
             /\ failures[placing][s] > 0
             => Usable(placing) \cap Untried(placing) = {}]_allVars
    BY ZenonT(120), <1>1
  <1> QED BY <1>2, SchedInvariance, PTL DEF SchedulerSpec, RetryGoesElsewhere

-----------------------------------------------------------------------------
(* The build limits, where no client hangs up and no response outlives its  *)
(* retry.  Otherwise a worker runs for a build that is answered, and the    *)
(* next pass does not count it.                                             *)

Calm == Impatient = {} /\ "hold" \notin Faults

\* The builds of the pass, and the ones of live workers, have no answer yet.
NoneAnswered ==
    /\ \A b \in todo \cup {placing} : b # 0 => ~IsDone(b)
    /\ \A w \in Scope : Live(w) => ~IsDone(task[w].build)

\* A pass counts at least the workers there are.
LoadsCount ==
    \A s \in Store : /\ Cardinality(BuildingOn(s)) <= Limit[s]
                     /\ pass # "idle" => Cardinality(BuildingOn(s)) <= load[s]

LimitInv == NoneAnswered /\ LoadsCount

\* A build gets its answer from the pass that works on it, or from its worker.
LEMMA WhoAnswers ==
  ASSUME SchedInv, Calm, [SchedulerNext]_allVars, NEW b \in BuildId, ~IsDone(b), answer'[b] # None
  PROVE  \/ b = placing /\ (PassCancels \/ PassFails)
         \/ \E w \in Scope : TaskAnswers(w) /\ task[w].build = b /\ worker[b] = w
  <1>0. answer \in [BuildId -> Outcome \cup {None}] /\ answer[b] = None /\ by_id \subseteq BuildId
    BY ZenonT(120), GivenTypes DEF IsDone
  <1>1. answer'[b] # answer[b]
    BY ZenonT(120), <1>0
  <1>2. ASSUME NEW S \in SUBSET BuildId, CancelLocked(S), b \notin S
        PROVE  FALSE
    BY ZenonT(120), <1>0, <1>1, <1>2 DEF CancelLocked
  <1>3. ASSUME NEW k \in Key, NEW r \in Request, BuildDerivation(k, r)
        PROVE  FALSE
    BY ZenonT(120), <1>1, <1>3 DEF BuildDerivation, Enqueue
  <1>4. ASSUME NEW r \in Request, Release(r)
        PROVE  FALSE
    <2>1. CancelLocked(Forsaken(r)) /\ Forsaken(r) \in SUBSET BuildId
      BY ZenonT(120), <1>4 DEF Release, ReleaseRequest, Forsaken, SchedInv, Inv, TypeOK
    <2>2. b \notin Forsaken(r)
      BY ZenonT(120), <1>4 DEF Release, Forsaken, Calm
    <2> QED BY ZenonT(120), <1>2, <2>1, <2>2
  <1>5. ASSUME NEW r \in Request, PruneReleased(r)
        PROVE  FALSE
    BY ZenonT(120), <1>1, <1>5 DEF PruneReleased, PruneAfterRelease, Prune, buildVars
  <1>6. ASSUME PassCancels
        PROVE  b = placing
    <2>1. PICK S \in SUBSET BuildId : CancelLocked(S) /\ S \subseteq {placing}
      BY ZenonT(120), <1>0, <1>6 DEF PassCancels
    <2> QED BY ZenonT(120), <1>2, <2>1
  <1>7. ASSUME PassFails
        PROVE  b = placing
    <2>1. answer' = answer \/ answer' = [answer EXCEPT ![placing] = "failure"]
      BY ZenonT(120), <1>7 DEF PassFails, Complete, vars, buildVars
    <2> QED BY ZenonT(120), <1>0, <1>1, <2>1
  <1>8. ASSUME PassStarts \/ PassWaits \/ PassRefuses \/ PassBreaks \/ PassCrashes
               \/ \E s \in Store : PassSpawns(s)
        PROVE  FALSE
    BY ZenonT(120), <1>1, <1>8 DEF PassStarts, PassWaits, PassRefuses, PassBreaks, PassCrashes, PassSpawns, SpawnWorker,
       vars, buildVars
  <1>9. ASSUME NEW w \in Scope, TaskAnswers(w)
        PROVE  task[w].build = b /\ worker[b] = w
    <2>1. Complete(task[w].build, task[w].result)
      BY ZenonT(120), <1>1, <1>9 DEF TaskAnswers, vars, buildVars
    <2>2. answer' = [answer EXCEPT ![task[w].build] = task[w].result]
      BY ZenonT(120), <2>1 DEF Complete
    <2>3. task[w].build = b
      BY ZenonT(120), <1>0, <1>1, <2>2
    <2>4. Live(w)
      BY ZenonT(120), <1>9 DEF TaskAnswers, Live, Calm
    <2> QED BY ZenonT(120), <2>3, <2>4 DEF SchedInv, LiveOwns
  <1>10. ASSUME NEW w \in Scope, \/ TaskStarts(w) \/ TaskBuilds(w) \/ TaskCollects(w) \/ TaskLosesOutputs(w)
                                 \/ TaskFails(w) \/ TaskRetries(w) \/ TaskRetriesWithResponse(w) \/ TaskEnds(w)
         PROVE  FALSE
    BY ZenonT(120), <1>1, <1>10 DEF TaskStarts, TaskBuilds, TaskCollects, TaskLosesOutputs, TaskFails, TaskRetries,
       TaskRetriesWithResponse, TaskEnds, RetriesOn, WorkerEnded, vars, buildVars
  <1>11. ASSUME NEW s \in Store, DrainEnds(s) \/ DrainStarts(s) \/ StoreReturns(s) \/ BreakerOpens(s) \/ Sample(s)
                                 \/ \E reconnected \in BOOLEAN : BreakerCloses(s, reconnected)
         PROVE  FALSE
    BY ZenonT(120), <1>1, <1>11 DEF DrainEnds, DrainStarts, StoreReturns, BreakerOpens, Sample, BreakerCloses, vars, buildVars
  <1>12. CASE UNCHANGED allVars
    BY ZenonT(120), <1>1, <1>12 DEF allVars, vars, buildVars
  <1> QED BY ZenonT(120), <1>3, <1>4, <1>5, <1>6, <1>7, <1>8, <1>9, <1>10, <1>11, <1>12 DEF SchedulerNext, PassSteps, TaskSteps

\* Only a pass starts a worker: any other step leaves each task where it is,
\* or moves it away from the store.
LEMMA TasksGoForward ==
  ASSUME SchedInv, [SchedulerNext]_allVars, ~\E s \in Store : PassSpawns(s), NEW w \in Scope
  PROVE  /\ task'[w].build = task[w].build /\ task'[w].store = task[w].store
         /\ task'[w].at \in {"spawned", "running"} => task[w].at \in {"spawned", "running"}
         /\ Live(w)' => Live(w)
         /\ w \notin cancelled' => w \notin cancelled
  <1>1. CASE ~\E v \in Scope : TaskSteps(v)
    <2>1. UNCHANGED task /\ cancelled \subseteq cancelled'
      BY ZenonT(120), <1>1, TasksRest
    <2> QED BY ZenonT(120), <2>1 DEF Live
  <1>2. ASSUME NEW v \in Scope, TaskSteps(v), v # w
        PROVE  task'[w] = task[w] /\ UNCHANGED cancelled
    BY ZenonT(120), <1>2, TaskShape
  <1>3. CASE TaskSteps(w)
    <2>1. task'[w].build = task[w].build /\ task'[w].store = task[w].store /\ UNCHANGED cancelled
      BY ZenonT(120), <1>3, TaskShape
    <2>2. TaskStarts(w) => task'[w].at = "running" /\ task[w].at = "spawned"
      BY ZenonT(120), TaskArrives DEF TaskStarts, TaskState
    <2>3. TaskBuilds(w) => task'[w].at \in {"collecting", "answering"} /\ task[w].at = "running"
      BY ZenonT(120), TaskArrives DEF TaskBuilds, TaskState
    <2>4. TaskCollects(w) \/ TaskLosesOutputs(w) => task'[w].at = "answering" /\ task[w].at = "collecting"
      BY ZenonT(120), TaskArrives DEF TaskCollects, TaskLosesOutputs
    <2>5. TaskFails(w) \/ TaskRetriesWithResponse(w) => task'[w].at = "answering" /\ task[w].at = "running"
      BY ZenonT(120), TaskArrives DEF TaskFails, TaskRetriesWithResponse
    <2>6. TaskRetries(w) \/ TaskAnswers(w) => task'[w].at = "leaving"
      BY ZenonT(120), TaskArrives DEF TaskRetries, TaskAnswers, TaskState
    <2>7. TaskEnds(w) => task'[w].at = "ended"
      BY ZenonT(120), TaskArrives DEF TaskEnds, TaskState
    <2>8. \/ task'[w].at \in {"leaving", "ended"}
          \/ task'[w].at = "running" /\ task[w].at = "spawned"
          \/ task'[w].at \in {"collecting", "answering"} /\ task[w].at \in {"running", "collecting"}
      BY ZenonT(120), <1>3, <2>2, <2>3, <2>4, <2>5, <2>6, <2>7 DEF TaskSteps
    <2> QED BY ZenonT(120), <2>1, <2>8 DEF Live
  <1> QED BY ZenonT(120), <1>1, <1>2, <1>3 DEF Live

\* The builds of a pass, after any step, were waiting before it; a pass that
\* answers one has left it.
LEMMA PassMoves ==
  ASSUME SchedInv, [SchedulerNext]_allVars, NEW b \in BuildId, b \in (todo \cup {placing})'
  PROVE  \/ PassStarts /\ Pending(b)
         \/ b \in todo
         \/ b = placing /\ ~PassCancels /\ ~PassFails
  <1>0. /\ todo \in SUBSET BuildId /\ load \in [Store -> Nat] /\ waiting_slot \in BOOLEAN
        /\ builds_waiting \in BOOLEAN
    BY ZenonT(120), GivenTypes
  <1>1. CASE ~PassSteps
    BY ZenonT(120), <1>1, Aside DEF passVars, PassSteps
  <1>2. CASE PassStarts
    <2>1. /\ {c \in BuildId : Pending(c)} \in SUBSET BuildId
          /\ \E counts \in [Store -> Nat] : PassGoesOn({c \in BuildId : Pending(c)}, counts, FALSE)
      BY ZenonT(120), <1>2, StartsWithAll
    <2>2. b \in {c \in BuildId : Pending(c)}
      BY ZenonT(120), <1>0, <2>1, GoesOnFewer
    <2> QED BY ZenonT(120), <1>2, <2>2
  <1>3. CASE PassCancels \/ PassFails
    <2>1. PassGoesOn(todo, load, waiting_slot)
      BY ZenonT(120), <1>3 DEF PassCancels, PassFails
    <2> QED BY ZenonT(120), <1>0, <2>1, GoesOnFewer
  <1>4. CASE PassWaits
    <2>1. PassGoesOn(todo, load, TRUE)
      BY ZenonT(120), <1>4 DEF PassWaits, Noted
    <2> QED BY ZenonT(120), <1>0, <2>1, GoesOnFewer
  <1>5. CASE PassCrashes
    <2>1. PassGoesOn({}, load, builds_waiting) /\ {} \in SUBSET BuildId
      BY ZenonT(120), <1>5 DEF PassCrashes
    <2> QED BY ZenonT(120), <1>0, <2>1, GoesOnFewer
  <1>6. CASE PassRefuses \/ PassBreaks
    <2>1. pass = "measuring" /\ UNCHANGED <<todo, placing>>
      BY ZenonT(120), <1>6 DEF PassRefuses, PassBreaks
    <2> QED BY ZenonT(120), <2>1 DEF PassCancels, PassFails
  <1>7. ASSUME NEW s \in Store, PassSpawns(s)
        PROVE  b \in todo
    <2>1. PassGoesOn(todo, Counted(s), waiting_slot)
      BY ZenonT(120), <1>7 DEF PassSpawns
    <2>2. Counted(s) \in [Store -> Nat]
      BY SMTT(120), <1>0 DEF Counted
    <2> QED BY ZenonT(120), <1>0, <2>1, <2>2, GoesOnFewer
  <1> QED BY ZenonT(120), <1>1, <1>2, <1>3, <1>4, <1>5, <1>6, <1>7 DEF PassSteps

\* A new worker is the task that a pass has just started.
LEMMA NewTask ==
  ASSUME SchedInv, NEW x \in Store, PassSpawns(x)
  PROVE  /\ next_scope \in Scope /\ placing \in BuildId
         /\ task[next_scope].at = "none"
         /\ task'[next_scope].build = placing /\ task'[next_scope].store = x
         /\ \A w \in Scope \ {next_scope} : task'[w] = task[w]
         /\ UNCHANGED <<answer, cancelled>>
         /\ load[x] < Limit[x]
  <1>1. next_scope <= MaxScopes
    BY ZenonT(120) DEF PassSpawns, SpawnWorker
  <1>2. next_scope \in Scope /\ next_scope >= next_scope
    BY SMTT(120), <1>1, GivenTypes, ConstantsAssumption DEF Scope
  <1>3. task[next_scope].at = "none" /\ placing \in BuildId
    BY ZenonT(120), <1>2 DEF SchedInv, LiveOwns, PassSpawns, PassOwns
  <1>4. task \in [Scope -> Task]
    BY ZenonT(120), GivenTypes
  <1>5. task' = [task EXCEPT ![next_scope] = [build |-> placing, store |-> x, at |-> "spawned", result |-> None]]
    BY ZenonT(120) DEF PassSpawns
  <1>6. /\ task'[next_scope].build = placing /\ task'[next_scope].store = x
        /\ \A w \in Scope \ {next_scope} : task'[w] = task[w]
    BY ZenonT(120), <1>2, <1>4, <1>5
  <1>7. UNCHANGED <<answer, cancelled>>
    BY ZenonT(120) DEF PassSpawns, SpawnWorker, buildVars
  <1>8. x \in Usable(placing)
    BY ZenonT(120) DEF PassSpawns, Choices
  <1> QED BY ZenonT(120), <1>2, <1>3, <1>6, <1>7, <1>8 DEF Usable

\* Nobody but the pass and the worker of a build answers it, so neither finds
\* it answered.
LEMMA NoneAnsweredStep ==
  ASSUME SchedInv, Calm, NoneAnswered, [SchedulerNext]_allVars
  PROVE  NoneAnswered'
  <1>0. 0 \notin Scope /\ todo \in SUBSET BuildId
    BY ZenonT(120), GivenTypes
  <1>1. ASSUME NEW b \in (todo \cup {placing})', b # 0, answer'[b] # None
        PROVE  FALSE
    <2>1. b \in BuildId
      BY ZenonT(120), <1>1, SchedTypeStep DEF SchedulerTypeOK
    <2>2. CASE PassStarts /\ Pending(b)
      <3>1. worker[b] = 0 /\ ~IsDone(b)
        BY ZenonT(120), <2>1, <2>2, StartsWithAll DEF Pending
      <3>2. UNCHANGED answer
        BY ZenonT(120), <2>2 DEF PassStarts, vars, buildVars
      <3> QED BY ZenonT(120), <1>1, <3>1, <3>2 DEF IsDone
    <2>3. ASSUME b \in todo \cup {placing}
          PROVE  worker[b] = 0 /\ ~IsDone(b)
      BY ZenonT(120), <1>1, <2>3 DEF SchedInv, PassOwns, NoneAnswered
    <2>4. CASE b \in todo
      <3>1. b # placing \/ ~(PassCancels \/ PassFails)
        BY ZenonT(120), <2>4 DEF SchedInv, PassOwns, PassCancels, PassFails
      <3> QED BY ZenonT(120), <1>0, <1>1, <2>1, <2>3, <2>4, <3>1, WhoAnswers
    <2>5. CASE b = placing /\ ~PassCancels /\ ~PassFails
      BY ZenonT(120), <1>0, <1>1, <2>1, <2>3, <2>5, WhoAnswers
    <2> QED BY ZenonT(120), <1>1, <2>1, <2>2, <2>4, <2>5, PassMoves
  <1>2. ASSUME NEW w \in Scope, Live(w), Live(w)', task'[w].build = task[w].build, answer'[task[w].build] # None
        PROVE  FALSE
    <2>1. /\ task[w].build \in BuildId /\ worker[task[w].build] = w /\ ~IsDone(task[w].build)
      BY ZenonT(120), <1>2 DEF SchedInv, LiveOwns, NoneAnswered, Live
    <2>2. PICK b : b = task[w].build
      BY ZenonT(120)
    <2>3. ~(b = placing /\ (PassCancels \/ PassFails))
      <3>1. b # 0
        BY ZenonT(120), <2>1, <2>2, GivenTypes
      <3> QED BY ZenonT(120), <1>0, <2>1, <2>2, <3>1 DEF SchedInv, PassOwns
    <2>4. TaskAnswers(w)
      BY ZenonT(120), <1>2, <2>1, <2>2, <2>3, WhoAnswers
    <2>5. task'[w].at = "leaving"
      BY ZenonT(120), <2>4, TaskArrives DEF TaskAnswers, TaskState
    <2> QED BY ZenonT(120), <1>2, <2>5 DEF Live
  <1>3. ASSUME NEW w \in Scope, Live(w)', answer'[task'[w].build] # None
        PROVE  FALSE
    <2>1. ASSUME NEW x \in Store, PassSpawns(x)
          PROVE  FALSE
      <3>1. CASE w = next_scope
        <4>1. task'[w].build = placing /\ placing \in BuildId /\ UNCHANGED answer
          BY ZenonT(120), <2>1, <3>1, NewTask
        <4>2. ~IsDone(placing)
          BY ZenonT(120), <4>1, GivenTypes DEF NoneAnswered
        <4> QED BY ZenonT(120), <1>3, <4>1, <4>2 DEF IsDone
      <3>2. CASE w # next_scope
        <4>1. task'[w] = task[w] /\ UNCHANGED <<answer, cancelled>>
          BY ZenonT(120), <2>1, <3>2, NewTask
        <4>2. Live(w)
          BY ZenonT(120), <1>3, <4>1 DEF Live
        <4> QED BY ZenonT(120), <1>2, <1>3, <4>1, <4>2
      <3> QED BY ZenonT(120), <3>1, <3>2
    <2>2. CASE ~\E x \in Store : PassSpawns(x)
      <3>1. Live(w) /\ task'[w].build = task[w].build
        BY ZenonT(120), <1>3, <2>2, TasksGoForward
      <3> QED BY ZenonT(120), <1>2, <1>3, <3>1
    <2> QED BY ZenonT(120), <2>1, <2>2
  <1> QED BY ZenonT(120), <1>1, <1>3 DEF NoneAnswered, IsDone

\* The workers of a store are finitely many.
LEMMA WorkersAreFinite ==
  ASSUME NEW s \in Store
  PROVE  IsFiniteSet(BuildingOn(s)) /\ Cardinality(BuildingOn(s)) \in Nat
  <1>1. IsFiniteSet(Scope)
    BY SMTT(120), FS_Interval, ConstantsAssumption DEF Scope
  <1>2. BuildingOn(s) \subseteq Scope
    BY ZenonT(120) DEF BuildingOn
  <1> QED BY ZenonT(120), <1>1, <1>2, FS_Subset, FS_CardinalityType

\* A pass begins by counting every worker of a store: a live worker's build is
\* unanswered, in the queue and assigned to the store.
LEMMA StartCounts ==
  ASSUME SchedInv, Calm, NoneAnswered, NEW s \in Store
  PROVE  Cardinality(BuildingOn(s)) <= Cardinality({b \in {c \in by_id : ~IsDone(c)} : RunningOn(b, s)})
  <1> DEFINE counted == {b \in {c \in by_id : ~IsDone(c)} : RunningOn(b, s)}
             workers == {worker[b] : b \in counted}
  <1>0. counted \subseteq BuildId /\ IsFiniteSet(BuildId)
    BY SMTT(120), FS_Interval, ConstantsAssumption, GivenTypes DEF BuildId
  <1>1. BuildingOn(s) \subseteq workers
    <2> SUFFICES ASSUME NEW w \in BuildingOn(s)
                 PROVE  w \in workers
      BY ZenonT(120)
    <2>1. w \in Scope /\ Live(w) /\ task[w].store = s
      BY ZenonT(120) DEF BuildingOn, Live
    <2>2. PICK b : b = task[w].build
      BY ZenonT(120)
    <2>3. b \in BuildId /\ worker[b] = w /\ assigned[b] = s /\ ~IsDone(b)
      BY ZenonT(120), <2>1, <2>2 DEF SchedInv, LiveOwns, NoneAnswered, Live
    <2>4. w # 0
      BY ZenonT(120), <2>1, GivenTypes
    <2>5. b \in by_id
      <3>1. ~(b >= next_id)
        BY ZenonT(120), <2>3, <2>4 DEF SchedInv, Inv, Fresh
      <3>2. b < next_id
        BY SMTT(120), <2>3, <3>1, GivenTypes
      <3> QED BY ZenonT(120), <2>3, <3>2 DEF SchedInv, Inv, UnfinishedIsFound
    <2>6. b \in counted
      BY ZenonT(120), <2>3, <2>4, <2>5 DEF RunningOn, IsBuilding
    <2> QED BY ZenonT(120), <2>3, <2>6
  <1>2. IsFiniteSet(counted)
    BY ZenonT(120), <1>0, FS_Subset
  <1>3. IsFiniteSet(workers) /\ Cardinality(workers) <= Cardinality(counted)
    <2> DEFINE f == [b \in counted |-> worker[b]]
    <2>1. f \in Surjection(counted, workers)
      BY ZenonT(120) DEF Surjection
    <2> HIDE DEF f, counted, workers
    <2> QED BY ZenonT(120), <1>2, <2>1, FS_Surjection
  <1>4. /\ IsFiniteSet(BuildingOn(s)) /\ Cardinality(BuildingOn(s)) <= Cardinality(workers)
        /\ Cardinality(BuildingOn(s)) \in Nat /\ Cardinality(workers) \in Nat /\ Cardinality(counted) \in Nat
    BY ZenonT(120), <1>1, <1>2, <1>3, FS_Subset, FS_CardinalityType
  <1> HIDE DEF counted, workers
  <1>5. Cardinality(BuildingOn(s)) <= Cardinality(counted)
    BY SMTT(120), <1>3, <1>4
  <1> QED BY ZenonT(120), <1>5 DEF counted

\* While nothing is started, the workers of a store only get fewer.
LEMMA FewerWorkers ==
  ASSUME SchedInv, [SchedulerNext]_allVars, ~\E x \in Store : PassSpawns(x), NEW s \in Store
  PROVE  Cardinality(BuildingOn(s)') <= Cardinality(BuildingOn(s)) /\ Cardinality(BuildingOn(s)') \in Nat
  <1>1. PICK T : T = BuildingOn(s)'
    BY ZenonT(120)
  <1>2. T \subseteq BuildingOn(s)
    BY ZenonT(120), <1>1, TasksGoForward DEF BuildingOn
  <1>3. Cardinality(T) <= Cardinality(BuildingOn(s)) /\ Cardinality(T) \in Nat
    BY ZenonT(120), <1>2, WorkersAreFinite, FS_Subset, FS_CardinalityType
  <1> QED BY ZenonT(120), <1>1, <1>3

\* A worker is started only where the pass has room, and counted at once.
LEMMA SpawnsWithRoom ==
  ASSUME SchedInv, LoadsCount, [SchedulerNext]_allVars, NEW x \in Store, PassSpawns(x)
  PROVE  LoadsCount'
  <1>0. load \in [Store -> Nat] /\ Limit \in [Store -> Nat] /\ load[x] < Limit[x] /\ pass # "idle"
    BY ZenonT(120), GivenTypes, NewTask, SchedulerAssumption DEF PassSpawns
  <1>1. pass' # "idle" => load' = Counted(x)
    BY ZenonT(120) DEF PassSpawns, PassGoesOn
  <1>2. ASSUME NEW s \in Store
        PROVE  Cardinality(BuildingOn(s)') <= Counted(x)[s] /\ Cardinality(BuildingOn(s)') <= Limit[s]
    <2>1. PICK T : T = BuildingOn(s)'
      BY ZenonT(120)
    <2>2. Cardinality(BuildingOn(s)) <= load[s] /\ Cardinality(BuildingOn(s)) <= Limit[s]
      BY ZenonT(120), <1>0 DEF LoadsCount
    <2>3. IsFiniteSet(BuildingOn(s)) /\ Cardinality(BuildingOn(s)) \in Nat
      BY ZenonT(120), WorkersAreFinite
    <2>4. ASSUME NEW w \in T, w \notin BuildingOn(s)
          PROVE  w = next_scope /\ s = x
      BY ZenonT(120), <2>1, <2>4, NewTask DEF BuildingOn
    <2>5. CASE s = x
      <3>1. T \subseteq BuildingOn(s) \cup {next_scope}
        BY ZenonT(120), <2>4
      <3>2. next_scope \notin BuildingOn(s)
        BY ZenonT(120), NewTask DEF BuildingOn
      <3>3. /\ IsFiniteSet(BuildingOn(s) \cup {next_scope})
            /\ Cardinality(BuildingOn(s) \cup {next_scope}) = Cardinality(BuildingOn(s)) + 1
        BY ZenonT(120), <2>3, <3>2, FS_AddElement
      <3>4. Cardinality(T) <= Cardinality(BuildingOn(s) \cup {next_scope}) /\ Cardinality(T) \in Nat
        BY ZenonT(120), <3>1, <3>3, FS_Subset, FS_CardinalityType
      <3>5. Cardinality(T) <= load[s] + 1 /\ Cardinality(T) <= Limit[s]
        BY SMTT(120), <1>0, <2>2, <2>3, <2>5, <3>3, <3>4
      <3>6. Counted(x)[s] = load[s] + 1
        BY SMTT(120), <1>0, <2>5 DEF Counted
      <3> QED BY ZenonT(120), <2>1, <3>5, <3>6
    <2>6. CASE s # x
      <3>1. T \subseteq BuildingOn(s)
        BY ZenonT(120), <2>4, <2>6
      <3>2. Cardinality(T) <= Cardinality(BuildingOn(s)) /\ Cardinality(T) \in Nat
        BY ZenonT(120), <2>3, <3>1, FS_Subset, FS_CardinalityType
      <3>3. Cardinality(T) <= load[s] /\ Cardinality(T) <= Limit[s]
        BY SMTT(120), <1>0, <2>2, <2>3, <3>2
      <3>4. Counted(x)[s] = load[s]
        BY SMTT(120), <1>0, <2>6 DEF Counted
      <3> QED BY ZenonT(120), <2>1, <3>3, <3>4
    <2> QED BY ZenonT(120), <2>5, <2>6
  <1> QED BY ZenonT(120), <1>1, <1>2 DEF LoadsCount

\* The counts of a pass bound the workers of a store until the pass ends.
LEMMA LoadsCountStep ==
  ASSUME SchedInv, Calm, LimitInv, [SchedulerNext]_allVars
  PROVE  LoadsCount'
  <1>1. CASE \E x \in Store : PassSpawns(x)
    BY ZenonT(120), <1>1, SpawnsWithRoom DEF LimitInv
  <1>2. CASE ~\E x \in Store : PassSpawns(x)
    <2>1. ASSUME NEW s \in Store, pass' # "idle"
          PROVE  Cardinality(BuildingOn(s)) <= load'[s]
      <3>1. CASE PassStarts
        <4>1. load' = [t \in Store |-> Cardinality({b \in {c \in by_id : ~IsDone(c)} : RunningOn(b, t)})]
          BY ZenonT(120), <2>1, <3>1 DEF PassStarts, PassGoesOn
        <4>2. load'[s] = Cardinality({b \in {c \in by_id : ~IsDone(c)} : RunningOn(b, s)})
          BY ZenonT(120), <4>1
        <4> QED BY ZenonT(120), <4>2, StartCounts DEF LimitInv
      <3>2. CASE ~PassStarts
        <4>1. pass # "idle" /\ load' = load
          <5>1. CASE ~PassSteps
            BY ZenonT(120), <2>1, <5>1, Aside DEF passVars
          <5>2. CASE PassSteps
            BY ZenonT(120), <1>2, <2>1, <3>2, <5>2 DEF PassSteps, PassCancels, PassWaits, PassRefuses, PassBreaks,
               PassFails, PassCrashes, PassGoesOn
          <5> QED BY ZenonT(120), <5>1, <5>2
        <4> QED BY ZenonT(120), <4>1 DEF LimitInv, LoadsCount
      <3> QED BY ZenonT(120), <3>1, <3>2
    <2>2. ASSUME NEW s \in Store
          PROVE  /\ Cardinality(BuildingOn(s)') <= Limit[s]
                 /\ pass' # "idle" => Cardinality(BuildingOn(s)') <= load'[s]
      <3>1. Cardinality(BuildingOn(s)') <= Cardinality(BuildingOn(s))
        BY ZenonT(120), <1>2, FewerWorkers
      <3>2. Cardinality(BuildingOn(s)) <= Limit[s] /\ Cardinality(BuildingOn(s)) \in Nat
        BY ZenonT(120), WorkersAreFinite DEF LimitInv, LoadsCount
      <3>3. Cardinality(BuildingOn(s)') \in Nat
        BY ZenonT(120), <1>2, FewerWorkers
      <3>4. Limit[s] \in Nat /\ load'[s] \in Nat
        BY ZenonT(120), SchedulerAssumption, SchedTypeStep DEF SchedulerTypeOK
      <3>5. PICK n, m : n = Cardinality(BuildingOn(s)') /\ m = Cardinality(BuildingOn(s))
        BY ZenonT(120)
      <3>6. n <= Limit[s] /\ (pass' # "idle" => n <= load'[s])
        BY SMTT(120), <2>1, <3>1, <3>2, <3>3, <3>4, <3>5
      <3> QED BY ZenonT(120), <3>5, <3>6
    <2> QED BY ZenonT(120), <2>2 DEF LoadsCount
  <1> QED BY ZenonT(120), <1>1, <1>2

\* The scheduler starts without a worker.
LEMMA LimitInit == SchedulerInit => LimitInv
  <1> SUFFICES ASSUME SchedulerInit PROVE LimitInv
    BY ZenonT(120)
  <1>1. todo = {} /\ placing = 0 /\ pass = "idle" /\ \A w \in Scope : task[w].at = "none"
    BY ZenonT(120) DEF SchedulerInit
  <1>2. NoneAnswered
    BY ZenonT(120), <1>1 DEF NoneAnswered, Live
  <1>3. ASSUME NEW s \in Store
        PROVE  Cardinality(BuildingOn(s)) <= Limit[s]
    <2>1. BuildingOn(s) = {}
      BY ZenonT(120), <1>1 DEF BuildingOn
    <2>2. Cardinality(BuildingOn(s)) = 0
      BY ZenonT(120), <2>1, FS_EmptySet
    <2>3. Limit[s] \in Nat
      BY ZenonT(120), SchedulerAssumption
    <2> QED BY SMTT(120), <2>2, <2>3
  <1> QED BY ZenonT(120), <1>1, <1>2, <1>3 DEF LimitInv, LoadsCount

\* Whatever passes, workers, retries and drains do, no store gets more workers
\* than its build limit, although a pass counts once and places builds over
\* many steps: as long as no client hangs up and no response outlives its retry.
THEOREM LimitsAreRespected == SchedulerSpec => [](Calm => LimitRespected)
  <1>1. SchedulerInit => (Calm => LimitInv)
    BY ZenonT(120), LimitInit
  <1>2. SchedInv /\ (Calm => LimitInv) /\ [SchedulerNext]_allVars => (Calm => LimitInv)'
    <2>1. Calm' <=> Calm
      BY ZenonT(120) DEF Calm
    <2> QED BY ZenonT(120), <2>1, NoneAnsweredStep, LoadsCountStep DEF LimitInv
  <1>3. (Calm => LimitInv) => (Calm => LimitRespected)
    BY ZenonT(120) DEF LimitInv, LoadsCount, LimitRespected
  <1> QED BY <1>1, <1>2, <1>3, SchedInvariance, PTL DEF SchedulerSpec
=============================================================================
