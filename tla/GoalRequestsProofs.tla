------------------------- MODULE GoalRequestsProofs -------------------------
(***************************************************************************)
(* The goal system and the op 36 handler implement the open specification   *)
(* of the build queue, for any number of requests, clients, derivations,    *)
(* handlers and builds.  What BuildQueueProofs establishes for arbitrary    *)
(* callers therefore holds under the callers the code has.                  *)
(***************************************************************************)
EXTENDS GoalRequests, BuildQueueProofs, WellFoundedInduction

\* queue.subscribe and queue.unsubscribe are calls of the queue, or find no
\* build and no reference and change nothing.
LEMMA SubscriptionCalls ==
  ASSUME TypeOK, NEW b, NEW c \in Client,
         SubscribesAtOnce(b, c) \/ SubscribeWrites(b, c) \/ Unsubscribes(b, c)
  PROVE  [Next]_vars
  <1>1. CASE b \in by_id
    <2>1. b \in BuildId
      BY ZenonT(120), <1>1 DEF TypeOK
    <2> QED BY ZenonT(120), <1>1, <2>1 DEF SubscribesAtOnce, Unsubscribes, Next
  <1>2. CASE b \notin by_id
    BY ZenonT(120), <1>2 DEF SubscribesAtOnce, SubscribeSilently, SubscribeWrites, Unsubscribes
  <1> QED BY ZenonT(120), <1>1, <1>2

\* A task that is cancelled in its write under the lock ends its subscribe
\* without a subscriber; any other leaves the queue alone.
LEMMA CancelledWriteCalls ==
  ASSUME NEW c \in Client, lock' = FreesLock(c),
         UNCHANGED <<queueVars, buildVars, subs, client_bound, logged, workerVars>>
  PROVE  [Next]_vars
  <1>1. CASE lock # None /\ lock[2] = c
    <2>1. SubscribeEnds(FALSE)
      BY ZenonT(120), <1>1 DEF FreesLock, SubscribeEnds
    <2> QED BY ZenonT(120), <2>1 DEF Next
  <1>2. CASE ~(lock # None /\ lock[2] = c)
    BY ZenonT(120), <1>2 DEF FreesLock, vars, streamVars
  <1> QED BY ZenonT(120), <1>1, <1>2

\* Every step of a goal is one call of the queue or none.
LEMMA GoalCalls ==
  ASSUME TypeOK, NEW r \in Request, NEW k \in Key, GoalSteps(r, k)
  PROVE  [Next]_vars
  <1>1. Owner[r] \in Client
    BY ZenonT(120), GoalAssumption
  <1>2. CASE GoalFindsOutputs(r, k) \/ GoalRealisesInputs(r, k) \/ GoalRefuses(r, k) \/ GoalWakes(r, k)
    BY ZenonT(120), <1>2 DEF GoalFindsOutputs, GoalRealisesInputs, GoalRefuses, GoalWakes
  <1>3. CASE GoalEnqueues(r, k)
    BY ZenonT(120), <1>3 DEF GoalEnqueues, Next
  <1>4. CASE GoalSubscribes(r, k)
    BY ZenonT(120), <1>1, <1>4, SubscriptionCalls DEF GoalSubscribes
  <1>5. CASE GoalLeaves(r, k)
    BY ZenonT(120), <1>1, <1>5, SubscriptionCalls DEF GoalLeaves
  <1> QED BY ZenonT(120), <1>2, <1>3, <1>4, <1>5 DEF GoalSteps

\* Every step of a request, its hang-up included, is one call or none.
LEMMA RequestCalls ==
  ASSUME TypeOK, NEW r \in Request, RequestStarts(r) \/ RequestSteps(r) \/ HangsUp(r)
  PROVE  [Next]_vars
  <1>1. Owner[r] \in Client
    BY ZenonT(120), GoalAssumption
  <1>2. CASE RequestStarts(r) \/ RequestAnswers(r) \/ \E k \in Key : RootReports(r, k)
    BY ZenonT(120), <1>2 DEF RequestStarts, RequestAnswers, RootReports
  <1>3. CASE \E k \in Key : RequestLeaves(r, k)
    BY ZenonT(120), <1>1, <1>3, SubscriptionCalls DEF RequestLeaves
  <1>4. CASE RequestReleases(r)
    BY ZenonT(120), <1>4 DEF RequestReleases, Next
  <1>5. CASE RequestReaps(r)
    BY ZenonT(120), <1>5 DEF RequestReaps, Next
  <1>6. CASE HangsUp(r)
    BY ZenonT(120), <1>1, <1>6, CancelledWriteCalls DEF HangsUp
  <1> QED BY ZenonT(120), <1>2, <1>3, <1>4, <1>5, <1>6 DEF RequestSteps

\* Every step of an op 36 handler, its hang-up included, is one call or none.
LEMMA OpCalls ==
  ASSUME TypeOK, NEW c \in OpClient,
         OpEnqueues(c) \/ OpSteps(c) \/ OpStopsWaiting(c) \/ OpVanishes(c)
  PROVE  [Next]_vars
  <1>1. c \in Client /\ OpKey[c] \in Key
    BY ZenonT(120), GoalAssumption DEF OpClient
  <1>2. CASE OpEnqueues(c)
    BY ZenonT(120), <1>1, <1>2 DEF OpEnqueues, Next
  <1>3. CASE OpSubscribes(c)
    BY ZenonT(120), <1>1, <1>3, SubscriptionCalls DEF OpSubscribes
  <1>4. CASE OpStopsWaiting(c)
    BY ZenonT(120), <1>4 DEF OpStopsWaiting
  <1>5. CASE OpLeaves(c)
    BY ZenonT(120), <1>1, <1>5, SubscriptionCalls DEF OpLeaves
  <1>6. CASE OpVanishes(c)
    BY ZenonT(120), <1>1, <1>6, CancelledWriteCalls DEF OpVanishes
  <1>7. CASE OpPrunes(c)
    BY ZenonT(120), <1>7 DEF OpPrunes, Next
  <1> QED BY ZenonT(120), <1>2, <1>3, <1>4, <1>5, <1>6, <1>7 DEF OpSteps

\* The reads of a client, the scheduler and the workers are calls as well.
LEMMA OtherCalls ==
  ASSUME \/ \E c \in Client : ClientReads(c)
         \/ \E b \in BuildId : BuildStarts(b) \/ SchedulerSteps(b) \/ WorkerEnds(b) \/ BuildLogs(b)
         \/ \E b \in BuildId, c \in Client : ClientIsDropped(b, c)
  PROVE  [Next]_vars
  <1>1. ASSUME NEW c \in Client, ClientReads(c)
        PROVE  Next
    <2>1. PICK ok \in BOOLEAN : SubscribeEnds(ok)
      BY ZenonT(120), <1>1 DEF ClientReads, GoalSubscribed, OpSubscribed
    <2> QED BY ZenonT(120), <2>1 DEF Next
  <1>2. ASSUME NEW b \in BuildId, BuildStarts(b)
        PROVE  Next
    BY ZenonT(120), <1>2, ConstantsAssumption DEF BuildStarts, Next
  <1>3. ASSUME NEW b \in BuildId, SchedulerDecides(b) \/ SchedulerCancels(b)
        PROVE  Next
    BY ZenonT(120), <1>3 DEF SchedulerDecides, SchedulerCancels, Next
  <1>4. ASSUME NEW b \in BuildId, WorkerEnds(b) \/ BuildLogs(b)
        PROVE  Next
    BY ZenonT(120), <1>4 DEF WorkerEnds, BuildEnds, BuildLogs, Next
  <1>5. ASSUME NEW b \in BuildId, NEW c \in Client, ClientIsDropped(b, c)
        PROVE  Next
    BY ZenonT(120), <1>5 DEF ClientIsDropped, Next
  <1> QED BY ZenonT(120), <1>1, <1>2, <1>3, <1>4, <1>5 DEF SchedulerSteps

\* Every step of the goal system is one call of the queue or none.
LEMMA StepCalls == TypeOK /\ [GoalNext]_everything => [Next]_vars
  <1> SUFFICES ASSUME TypeOK, [GoalNext]_everything PROVE [Next]_vars
    BY ZenonT(120)
  <1>1. CASE UNCHANGED everything
    BY ZenonT(120), <1>1 DEF everything
  <1>2. CASE GoalNext
    BY ZenonT(120), <1>2, GoalCalls, RequestCalls, OpCalls, OtherCalls DEF GoalNext
  <1> QED BY ZenonT(120), <1>1, <1>2

\* BuildDerivationGoal, GoalEngine and the op 36 handler implement the queue
\* as its specification has it, whatever is cancelled and whenever.
THEOREM GoalsCallTheQueue == GoalSpec => CallsTheQueue
  <1>1. GoalInit => Init
    BY ZenonT(120) DEF GoalInit
  <1>2. TypeOK /\ [GoalNext]_everything => TypeOK'
    BY ZenonT(120), StepCalls, TypeStep
  <1>3. GoalSpec => []TypeOK
    BY <1>1, <1>2, TypeInit, PTL DEF GoalSpec
  <1> QED BY <1>1, <1>3, StepCalls, PTL DEF GoalSpec, CallsTheQueue, Spec

\* Under the callers of the code, the queue keeps everything its own theorems
\* promise: exact dedup, holds, justified give-ups, and nothing for nobody.
THEOREM GoalsKeepTheQueue ==
    GoalSpec => [](UnfinishedIsFound /\ HoldsAgree /\ GaveUpForAReason /\ UnfinishedIsWanted)
  BY GoalsCallTheQueue, DedupIsExact, HoldsAreExact, GiveUpIsJustified, NothingForNobody, PTL
     DEF CallsTheQueue
-----------------------------------------------------------------------------
(* The state of the goals.                                                 *)

\* A step that replaces one goal by another keeps the types.
LEMMA TypeReplace ==
  ASSUME GoalTypeOK, TypeOK', NEW r \in Request, NEW k \in Key, NEW g \in GoalState,
         goal' = [goal EXCEPT ![r][k] = g], UNCHANGED <<req, op, silent>>
  PROVE  GoalTypeOK'
  <1>1. goal' \in [Request -> [Key -> GoalState]]
    BY ZenonT(120) DEF GoalTypeOK
  <1> QED BY ZenonT(120), <1>1 DEF GoalTypeOK

\* A step that only moves a goal on keeps the types.
LEMMA TypeMove ==
  ASSUME GoalTypeOK, TypeOK', NEW r \in Request, NEW k \in Key,
         NEW at \in {"waiting", "writing", "done"}, Moves(r, k, at), UNCHANGED <<req, op, silent>>
  PROVE  GoalTypeOK'
  <1> DEFINE g == [goal[r][k] EXCEPT !.at = at]
  <1>1. goal[r][k] \in GoalState
    BY SMTT(120) DEF GoalTypeOK
  <1>2. g \in GoalState
    BY ZenonT(120), <1>1 DEF GoalState
  <1>3. goal' = [goal EXCEPT ![r][k] = g]
    BY ZenonT(120) DEF Moves
  <1> QED BY ZenonT(120), <1>2, <1>3, TypeReplace

\* The steps of a goal keep the types.
LEMMA TypeGoalSteps ==
  ASSUME GoalTypeOK, TypeOK', NEW r \in Request, NEW k \in Key, GoalSteps(r, k)
  PROVE  GoalTypeOK'
  <1>0. /\ goal[r][k] \in GoalState
        /\ \A i \in Key : goal[r][i] \in GoalState
    BY SMTT(120) DEF GoalTypeOK
  <1>1. CASE GoalFindsOutputs(r, k)
    <2> DEFINE g == [goal[r][k] EXCEPT !.at = "done", !.result = "success"]
    <2>1. g \in GoalState
      BY ZenonT(120), <1>0 DEF GoalState
    <2>2. goal' = [goal EXCEPT ![r][k] = g]
      BY ZenonT(120), <1>1 DEF GoalFindsOutputs
    <2>5. UNCHANGED <<req, op, silent>>
      BY ZenonT(120), <1>1 DEF GoalFindsOutputs
    <2> HIDE DEF g
    <2> QED BY ZenonT(120), <2>1, <2>2, <2>5, TypeReplace
  <1>2. CASE GoalRealisesInputs(r, k)
    <2>1. [goal[r][k] EXCEPT !.at = "inputs"] \in GoalState
      BY ZenonT(120), <1>0 DEF GoalState
    <2>2. NewGoal(goal[r][k].listens) \in GoalState
      BY ZenonT(120), <1>0 DEF GoalState, NewGoal, NoGoal
    <2>3. goal' \in [Request -> [Key -> GoalState]]
      BY ZenonT(120), <1>0, <1>2, <2>1, <2>2 DEF GoalRealisesInputs, GoalTypeOK
    <2> QED BY ZenonT(120), <1>2, <2>3 DEF GoalRealisesInputs, GoalTypeOK
  <1>3. CASE GoalRefuses(r, k)
    <2>1. PICK i \in Needs[k] :
             goal' = [goal EXCEPT ![r][k].at = "done", ![r][k].result = "failure",
                                  ![r][k].cause = goal[r][i].cause]
      BY ZenonT(120), <1>3 DEF GoalRefuses
    <2> DEFINE g == [goal[r][k] EXCEPT !.at = "done", !.result = "failure", !.cause = goal[r][i].cause]
    <2>2. goal[r][i].cause \in Key \cup {None}
      BY ZenonT(120), <1>0, GoalAssumption DEF GoalState
    <2>3. g \in GoalState
      BY ZenonT(120), <1>0, <2>2 DEF GoalState
    <2>4. goal' = [goal EXCEPT ![r][k] = g]
      BY ZenonT(120), <2>1
    <2>5. UNCHANGED <<req, op, silent>>
      BY ZenonT(120), <1>3 DEF GoalRefuses
    <2> HIDE DEF g
    <2> QED BY ZenonT(120), <2>3, <2>4, <2>5, TypeReplace
  <1>4. CASE GoalEnqueues(r, k)
    <2> DEFINE g == [goal[r][k] EXCEPT !.at = IF goal[r][k].listens THEN "subscribing" ELSE "waiting",
                                       !.build = by_path'[k]]
    <2>1. by_path'[k] \in BuildId \cup {0}
      BY ZenonT(120) DEF TypeOK
    <2>2. g \in GoalState
      BY ZenonT(120), <1>0, <2>1 DEF GoalState
    <2>3. goal' = [goal EXCEPT ![r][k] = g]
      BY ZenonT(120), <1>4 DEF GoalEnqueues
    <2>5. UNCHANGED <<req, op, silent>>
      BY ZenonT(120), <1>4 DEF GoalEnqueues
    <2> HIDE DEF g
    <2> QED BY ZenonT(120), <2>2, <2>3, <2>5, TypeReplace
  <1>5. CASE GoalSubscribes(r, k)
    BY ZenonT(120), <1>5, TypeMove DEF GoalSubscribes
  <1>6. CASE GoalWakes(r, k)
    <2> DEFINE result == ResultOf(goal[r][k].build)
               at == IF goal[r][k].listens THEN "leaving" ELSE "done"
               cause == IF result = "success" THEN None ELSE k
               g == [goal[r][k] EXCEPT !.at = at, !.listens = FALSE, !.result = result, !.cause = cause]
    <2>1. result \in {"success", "failure", "abandoned", None}
      BY ZenonT(120) DEF ResultOf
    <2>2. at \in {"leaving", "done"} /\ cause \in Key \cup {None}
      BY ZenonT(120)
    <2>3. goal' = [goal EXCEPT ![r][k].at = at, ![r][k].listens = FALSE,
                               ![r][k].result = result, ![r][k].cause = cause]
      BY ZenonT(120), <1>6 DEF GoalWakes
    <2>4. UNCHANGED <<req, op, silent>>
      BY ZenonT(120), <1>6 DEF GoalWakes
    <2> HIDE DEF result, at, cause
    <2>5. g \in GoalState
      BY ZenonT(120), <1>0, <2>1, <2>2 DEF GoalState
    <2>6. goal' = [goal EXCEPT ![r][k] = g]
      BY ZenonT(120), <2>3
    <2> HIDE DEF g
    <2> QED BY ZenonT(120), <2>4, <2>5, <2>6, TypeReplace
  <1>7. CASE GoalLeaves(r, k)
    BY ZenonT(120), <1>7, TypeMove DEF GoalLeaves
  <1> QED BY ZenonT(120), <1>1, <1>2, <1>3, <1>4, <1>5, <1>6, <1>7 DEF GoalSteps

\* The steps of a request keep the types.
LEMMA TypeRequestSteps ==
  ASSUME GoalTypeOK, TypeOK', NEW r \in Request, RequestStarts(r) \/ RequestSteps(r) \/ HangsUp(r)
  PROVE  GoalTypeOK'
  <1>0. \A i \in Key : goal[r][i] \in GoalState
    BY ZenonT(120) DEF GoalTypeOK
  <1>1. CASE RequestStarts(r)
    <2>1. NewGoal(TRUE) \in GoalState /\ NoGoal \in GoalState
      BY ZenonT(120) DEF NewGoal, NoGoal, GoalState
    <2>2. goal' \in [Request -> [Key -> GoalState]]
      BY ZenonT(120), <1>1, <2>1 DEF RequestStarts, GoalTypeOK
    <2> QED BY ZenonT(120), <1>1, <2>2 DEF RequestStarts, GoalTypeOK
  <1>2. ASSUME NEW k \in Key, RootReports(r, k)
        PROVE  GoalTypeOK'
    <2> DEFINE g == [goal[r][k] EXCEPT !.root = IF Skips(r, k) THEN "skipped" ELSE "reported"]
    <2>1. g \in GoalState
      BY SMTT(120), <1>0 DEF GoalState
    <2>2. goal' = [goal EXCEPT ![r][k] = g]
      BY ZenonT(120), <1>2 DEF RootReports
    <2>3. goal' \in [Request -> [Key -> GoalState]]
      BY ZenonT(120), <2>1, <2>2 DEF GoalTypeOK
    <2> QED BY ZenonT(120), <1>2, <2>3 DEF RootReports, GoalTypeOK
  <1>3. ASSUME NEW k \in Key, RequestLeaves(r, k)
        PROVE  GoalTypeOK'
    <2> DEFINE g == [goal[r][k] EXCEPT !.root = "left", !.listens = FALSE]
    <2>1. g \in GoalState
      BY ZenonT(120), <1>0 DEF GoalState
    <2>2. goal' = [goal EXCEPT ![r][k] = g]
      BY ZenonT(120), <1>3 DEF RequestLeaves, StopsListening
    <2>5. UNCHANGED <<req, op, silent>>
      BY ZenonT(120), <1>3 DEF RequestLeaves
    <2> HIDE DEF g
    <2> QED BY ZenonT(120), <2>1, <2>2, <2>5, TypeReplace
  <1>4. CASE RequestAnswers(r) \/ RequestReleases(r)
    BY ZenonT(120), <1>4 DEF RequestAnswers, RequestReleases, GoalTypeOK
  <1>5. CASE RequestReaps(r) \/ HangsUp(r)
    <2>1. \A k \in Key : [goal[r][k] EXCEPT !.at = "dead"] \in GoalState
      BY SMTT(120), <1>0 DEF GoalState
    <2>2. Reaped(r) \in [Key -> GoalState]
      BY ZenonT(120), <1>0, <2>1 DEF Reaped
    <2>3. goal' \in [Request -> [Key -> GoalState]]
      BY ZenonT(120), <1>5, <2>2 DEF RequestReaps, HangsUp, GoalTypeOK
    <2> QED BY ZenonT(120), <1>5, <2>3 DEF RequestReaps, HangsUp, GoalTypeOK
  <1> QED BY ZenonT(120), <1>1, <1>2, <1>3, <1>4, <1>5 DEF RequestSteps

\* An op 36 handler that moves on and touches no request keeps the types.
LEMMA TypeOpMove ==
  ASSUME GoalTypeOK, TypeOK', NEW c \in OpClient,
         NEW at \in {"new", "subscribing", "writing", "waiting", "leaving", "pruning", "ended"},
         OpMoves(c, at), UNCHANGED <<req, goal, silent>>
  PROVE  GoalTypeOK'
  <1> DEFINE ats == {"new", "subscribing", "writing", "waiting", "leaving", "pruning", "ended"}
             h == [op[c] EXCEPT !.at = at]
  <1>1. op \in [OpClient -> [at : ats, build : BuildId \cup {0}]]
    BY ZenonT(120) DEF GoalTypeOK
  <1>2. at \in ats
    BY ZenonT(120)
  <1> HIDE DEF ats
  <1>3. h \in [at : ats, build : BuildId \cup {0}]
    BY ZenonT(120), <1>1, <1>2
  <1>4. op' = [op EXCEPT ![c] = h]
    BY ZenonT(120) DEF OpMoves
  <1> HIDE DEF h
  <1>5. op' \in [OpClient -> [at : ats, build : BuildId \cup {0}]]
    BY ZenonT(120), <1>1, <1>3, <1>4
  <1> QED BY ZenonT(120), <1>5 DEF GoalTypeOK, ats

\* The steps of an op 36 handler keep the types.
LEMMA TypeOpSteps ==
  ASSUME GoalTypeOK, TypeOK', NEW c \in OpClient,
         OpEnqueues(c) \/ OpSteps(c) \/ OpStopsWaiting(c) \/ OpVanishes(c)
  PROVE  GoalTypeOK'
  <1>1. CASE OpEnqueues(c)
    <2>1. by_path'[OpKey[c]] \in BuildId \cup {0}
      BY SMTT(120), GoalAssumption DEF TypeOK
    <2> QED BY ZenonT(120), <1>1, <2>1 DEF OpEnqueues, GoalTypeOK
  <1>2. CASE OpSubscribes(c)
    BY ZenonT(120), <1>2, TypeOpMove DEF OpSubscribes
  <1>3. CASE OpStopsWaiting(c) \/ OpLeaves(c)
    BY ZenonT(120), <1>3, TypeOpMove DEF OpStopsWaiting, OpLeaves
  <1>4. CASE OpVanishes(c) \/ OpPrunes(c)
    BY ZenonT(120), <1>4, TypeOpMove DEF OpVanishes, OpPrunes
  <1> QED BY ZenonT(120), <1>1, <1>2, <1>3, <1>4 DEF OpSteps

\* The other steps keep the types.
LEMMA TypeOtherSteps ==
  ASSUME GoalTypeOK, TypeOK',
         \/ \E c \in Client : ClientReads(c)
         \/ \E b \in BuildId : BuildStarts(b) \/ SchedulerSteps(b) \/ WorkerEnds(b) \/ BuildLogs(b)
         \/ \E b \in BuildId, c \in Client : ClientIsDropped(b, c)
  PROVE  GoalTypeOK'
  <1>1. ASSUME NEW r \in Request, NEW k \in Key, NEW ok \in BOOLEAN, GoalSubscribed(r, k, ok)
        PROVE  GoalTypeOK'
    BY ZenonT(120), <1>1, TypeMove DEF GoalSubscribed
  <1>2. ASSUME NEW c \in OpClient, NEW ok \in BOOLEAN, OpSubscribed(c, ok)
        PROVE  GoalTypeOK'
    BY ZenonT(120), <1>2, TypeOpMove DEF OpSubscribed
  <1>3. ASSUME NEW b \in BuildId, SchedulerCancels(b)
        PROVE  GoalTypeOK'
    BY ZenonT(120), <1>3 DEF GoalTypeOK, SchedulerCancels
  <1>4. ASSUME UNCHANGED goalVars
        PROVE  GoalTypeOK'
    BY ZenonT(120), <1>4 DEF GoalTypeOK, goalVars
  <1> QED BY ZenonT(120), <1>1, <1>2, <1>3, <1>4 DEF ClientReads, SchedulerSteps, BuildStarts, SchedulerDecides,
          WorkerEnds, BuildEnds, BuildLogs, ClientIsDropped

\* Every step keeps the types of the queue and of its callers.
LEMMA GoalTypeStep == GoalTypeOK /\ [GoalNext]_everything => GoalTypeOK'
  <1> SUFFICES ASSUME GoalTypeOK, [GoalNext]_everything PROVE GoalTypeOK'
    BY ZenonT(120)
  <1>1. TypeOK'
    BY ZenonT(120), StepCalls, TypeStep DEF GoalTypeOK
  <1>2. CASE UNCHANGED everything
    BY ZenonT(120), <1>1, <1>2 DEF everything, goalVars, GoalTypeOK
  <1>3. CASE GoalNext
    BY ZenonT(120), <1>1, <1>3, TypeGoalSteps, TypeRequestSteps, TypeOpSteps, TypeOtherSteps DEF GoalNext
  <1> QED BY ZenonT(120), <1>2, <1>3
\* The state of goals, requests and handlers is well typed, with the queue's.
THEOREM GoalTypeCorrect == GoalSpec => []GoalTypeOK
  <1>1. GoalInit => GoalTypeOK
    BY SMTT(120), TypeInit DEF GoalInit, GoalTypeOK, GoalState, NoGoal
  <1> QED BY <1>1, GoalTypeStep, PTL DEF GoalSpec

-----------------------------------------------------------------------------
(* A waiting goal's build is held.                                         *)

\* queue.enqueue adds holders and takes none away, and its caller holds the
\* build that its key names then.
LEMMA EnqueueHolds ==
  ASSUME TypeOK, NEW k \in Key, NEW r \in Request \cup {None}, Enqueue(k, r, FALSE)
  PROVE  /\ \A b \in BuildId : holders[b] \subseteq holders'[b]
         /\ by_path'[k] \in BuildId
         /\ r \in Request => r \in holders'[by_path'[k]]
  <1> USE ConstantsAssumption DEF TypeOK, Want
  <1>1. CASE EnqueueJoins(k, r)
    BY SMTT(120), <1>1 DEF EnqueueJoins
  <1>2. CASE EnqueueCreates(k, r)
    <2>1. next_id \in BuildId
      BY SMTT(120), <1>2 DEF EnqueueCreates, BuildId
    <2> QED BY SMTT(120), <1>2, <2>1 DEF EnqueueCreates
  <1> QED BY ZenonT(120), <1>1, <1>2 DEF Enqueue

\* The calls that stream, and the ones that end or start a build, leave the
\* holders alone.
LEMMA StreamKeepsHolders ==
  ASSUME NEW b, NEW c, SubscribesAtOnce(b, c) \/ SubscribeWrites(b, c) \/ Unsubscribes(b, c)
  PROVE  UNCHANGED holders
  BY ZenonT(120) DEF SubscribesAtOnce, SubscribeSilently, SubscribeWrites, Unsubscribes, Unsubscribe, vars, buildVars

\* Only its own release takes a request from the holders of a build.
LEMMA HoldersKept ==
  ASSUME TypeOK, NEW q \in Request, NEW b \in BuildId, q \in holders[b],
         [GoalNext]_everything, ~RequestReleases(q)
  PROVE  q \in holders'[b]
  <1>1. ASSUME UNCHANGED holders
        PROVE  q \in holders'[b]
    BY ZenonT(120), <1>1
  <1>2. CASE UNCHANGED everything
    BY ZenonT(120), <1>1, <1>2 DEF everything, vars, buildVars
  <1>3. ASSUME NEW r \in Request, NEW k \in Key, GoalSteps(r, k)
        PROVE  q \in holders'[b]
    <2>1. CASE GoalEnqueues(r, k)
      BY ZenonT(120), <2>1, EnqueueHolds DEF GoalEnqueues
    <2>2. CASE GoalFindsOutputs(r, k) \/ GoalRealisesInputs(r, k) \/ GoalRefuses(r, k) \/ GoalWakes(r, k)
      BY ZenonT(120), <1>1, <2>2 DEF GoalFindsOutputs, GoalRealisesInputs, GoalRefuses, GoalWakes, vars, buildVars
    <2>3. CASE GoalSubscribes(r, k) \/ GoalLeaves(r, k)
      BY ZenonT(120), <1>1, <2>3, StreamKeepsHolders DEF GoalSubscribes, GoalLeaves
    <2> QED BY ZenonT(120), <1>3, <2>1, <2>2, <2>3 DEF GoalSteps
  <1>4. ASSUME NEW r \in Request, RequestStarts(r) \/ RequestSteps(r) \/ HangsUp(r)
        PROVE  q \in holders'[b]
    <2>1. CASE RequestStarts(r) \/ RequestAnswers(r) \/ HangsUp(r) \/ \E k \in Key : RootReports(r, k)
      BY ZenonT(120), <1>1, <2>1 DEF RequestStarts, RequestAnswers, HangsUp, RootReports, vars, buildVars
    <2>2. CASE \E k \in Key : RequestLeaves(r, k)
      BY ZenonT(120), <1>1, <2>2, StreamKeepsHolders DEF RequestLeaves
    <2>3. CASE RequestReleases(r)
      BY ZenonT(120), <2>3 DEF RequestReleases, ReleaseRequest
    <2>4. CASE RequestReaps(r)
      BY ZenonT(120), <1>1, <2>4 DEF RequestReaps, PruneAfterRelease, Prune, buildVars
    <2> QED BY ZenonT(120), <1>4, <2>1, <2>2, <2>3, <2>4 DEF RequestSteps
  <1>5. ASSUME NEW c \in OpClient, OpEnqueues(c) \/ OpSteps(c) \/ OpStopsWaiting(c) \/ OpVanishes(c)
        PROVE  q \in holders'[b]
    <2>1. CASE OpEnqueues(c)
      BY ZenonT(120), <2>1, EnqueueHolds, GoalAssumption DEF OpEnqueues
    <2>2. CASE OpSubscribes(c) \/ OpLeaves(c)
      BY ZenonT(120), <1>1, <2>2, StreamKeepsHolders DEF OpSubscribes, OpLeaves
    <2>3. CASE OpStopsWaiting(c) \/ OpVanishes(c) \/ OpPrunes(c)
      BY ZenonT(120), <1>1, <2>3 DEF OpStopsWaiting, OpVanishes, OpPrunes, PruneAfterStandalone, Prune, vars, buildVars
    <2> QED BY ZenonT(120), <1>5, <2>1, <2>2, <2>3 DEF OpSteps
  <1>6. ASSUME NEW c \in Client, ClientReads(c)
        PROVE  q \in holders'[b]
    BY ZenonT(120), <1>1, <1>6 DEF ClientReads, GoalSubscribed, OpSubscribed, SubscribeEnds, buildVars
  <1>7. ASSUME NEW x \in BuildId, BuildStarts(x) \/ SchedulerSteps(x) \/ WorkerEnds(x) \/ BuildLogs(x)
        PROVE  q \in holders'[b]
    BY ZenonT(120), <1>1, <1>7 DEF BuildStarts, SpawnWorker, SchedulerSteps, SchedulerDecides, DecideUnwanted,
       SchedulerCancels, CancelUnwanted, WorkerEnds, BuildEnds, Complete, BuildLogs, PostLog, buildVars
  <1>8. ASSUME NEW x \in BuildId, NEW c \in Client, ClientIsDropped(x, c)
        PROVE  q \in holders'[b]
    BY ZenonT(120), <1>1, <1>8 DEF ClientIsDropped, DropDeadSubscriber, buildVars
  <1> QED BY ZenonT(120), <1>2, <1>3, <1>4, <1>5, <1>6, <1>7, <1>8 DEF GoalNext
\* Where a goal has a build, and where its request has not let go of it.
AtBuild == {"subscribing", "writing", "waiting", "leaving"}
Holding == {"running", "stopping", "answered"}

\* A goal comes to a build only by its enqueue, keeps that build, and no
\* request that let go of its builds runs again.
LEMMA GoalKept ==
  ASSUME GoalTypeOK, [GoalNext]_everything, NEW q \in Request, NEW j \in Key,
         goal'[q][j].at \in AtBuild, req'[q] \in Holding, ~GoalEnqueues(q, j)
  PROVE  goal[q][j].at \in AtBuild /\ goal'[q][j].build = goal[q][j].build /\ req[q] \in Holding
  <1> DEFINE Kept == /\ goal[q][j].at \in AtBuild
                     /\ goal'[q][j].build = goal[q][j].build
                     /\ req[q] \in Holding
  <1> SUFFICES Kept
    BY ZenonT(120)
  <1>0. goal[q][j] \in GoalState
    BY ZenonT(120) DEF GoalTypeOK
  <1>1. ASSUME UNCHANGED <<req, goal>>
        PROVE  Kept
    BY ZenonT(120), <1>1
  <1>2. CASE UNCHANGED everything
    BY ZenonT(120), <1>1, <1>2 DEF everything, goalVars
  <1>3. ASSUME NEW r \in Request, NEW k \in Key, NEW at, Moves(r, k, at), UNCHANGED req,
               goal[r][k].at \in AtBuild
        PROVE  Kept
    <2>1. goal'[q][j] = IF q = r /\ j = k THEN [goal[r][k] EXCEPT !.at = at] ELSE goal[q][j]
      BY ZenonT(120), <1>3 DEF Moves, GoalTypeOK
    <2> QED BY SMTT(120), <1>0, <1>3, <2>1 DEF GoalState
  <1>4. ASSUME NEW r \in Request, NEW k \in Key, GoalSteps(r, k)
        PROVE  Kept
    <2>1. CASE GoalFindsOutputs(r, k)
      <3>1. q = r /\ j = k => goal'[q][j].at = "done"
        BY SMTT(120), <1>0, <2>1 DEF GoalFindsOutputs, GoalTypeOK, GoalState
      <3>2. ~(q = r /\ j = k)
        BY ZenonT(120), <3>1 DEF AtBuild
      <3>3. goal'[q][j] = goal[q][j]
        BY ZenonT(120), <2>1, <3>2 DEF GoalFindsOutputs, GoalTypeOK
      <3> QED BY ZenonT(120), <2>1, <3>3 DEF GoalFindsOutputs
    <2>2. CASE GoalRealisesInputs(r, k)
      <3>1. q # r => goal'[q][j] = goal[q][j]
        BY ZenonT(120), <2>2 DEF GoalRealisesInputs, GoalTypeOK
      <3>2. q = r /\ j = k => goal'[q][j].at = "inputs"
        BY ZenonT(120), <1>0, <2>2 DEF GoalRealisesInputs, GoalTypeOK, GoalState
      <3>3. q = r /\ j # k => goal'[q][j] = goal[q][j] \/ goal'[q][j].at = "preparing"
        BY ZenonT(120), <2>2 DEF GoalRealisesInputs, GoalTypeOK, NewGoal, NoGoal
      <3> QED BY ZenonT(120), <2>2, <3>1, <3>2, <3>3 DEF GoalRealisesInputs, AtBuild
    <2>3. CASE GoalRefuses(r, k)
      <3>1. q = r /\ j = k => goal'[q][j].at = "done"
        BY SMTT(120), <1>0, <2>3 DEF GoalRefuses, GoalTypeOK, GoalState
      <3>2. ~(q = r /\ j = k)
        BY ZenonT(120), <3>1 DEF AtBuild
      <3>3. goal'[q][j] = goal[q][j]
        BY SMTT(120), <2>3, <3>2 DEF GoalRefuses, GoalTypeOK
      <3> QED BY ZenonT(120), <2>3, <3>3 DEF GoalRefuses
    <2>4. CASE GoalEnqueues(r, k)
      <3>1. goal'[q][j] = goal[q][j]
        BY ZenonT(120), <2>4 DEF GoalEnqueues, GoalTypeOK
      <3> QED BY ZenonT(120), <2>4, <3>1 DEF GoalEnqueues
    <2>5. CASE GoalSubscribes(r, k) \/ GoalLeaves(r, k)
      BY ZenonT(120), <1>3, <2>5 DEF GoalSubscribes, GoalLeaves, AtBuild
    <2>6. CASE GoalWakes(r, k)
      <3>1. PICK at, result, cause :
               goal' = [goal EXCEPT ![r][k].at = at, ![r][k].listens = FALSE,
                                    ![r][k].result = result, ![r][k].cause = cause]
        BY ZenonT(120), <2>6 DEF GoalWakes
      <3>4. goal'[q][j].build = goal[q][j].build
        BY SMTT(120), <1>0, <3>1 DEF GoalTypeOK, GoalState
      <3>2. q = r /\ j = k => goal[q][j].at = "waiting"
        BY ZenonT(120), <2>6 DEF GoalWakes
      <3>3. ~(q = r /\ j = k) => goal'[q][j] = goal[q][j]
        BY ZenonT(120), <2>6 DEF GoalWakes, GoalTypeOK
      <3> QED BY ZenonT(120), <2>6, <3>2, <3>3, <3>4 DEF GoalWakes, AtBuild
    <2> QED BY ZenonT(120), <1>4, <2>1, <2>2, <2>3, <2>4, <2>5, <2>6 DEF GoalSteps
  <1>5. ASSUME NEW r \in Request, RequestStarts(r) \/ RequestSteps(r) \/ HangsUp(r)
        PROVE  Kept
    <2>1. CASE RequestStarts(r)
      <3>1. q = r => goal'[q][j].at \in {"none", "preparing"}
        BY ZenonT(120), <2>1 DEF RequestStarts, NewGoal, NoGoal, GoalTypeOK
      <3>2. q # r
        BY ZenonT(120), <3>1 DEF AtBuild
      <3> QED BY ZenonT(120), <2>1, <3>2 DEF RequestStarts, GoalTypeOK
    <2>2. ASSUME NEW k \in Key, RootReports(r, k) \/ RequestLeaves(r, k)
          PROVE  Kept
      <3>1. goal'[q][j].at = goal[q][j].at /\ goal'[q][j].build = goal[q][j].build
        <4>1. CASE RootReports(r, k)
          <5>1. PICK root : goal' = [goal EXCEPT ![r][k].root = root]
            BY ZenonT(120), <4>1 DEF RootReports
          <5> QED BY SMTT(120), <1>0, <5>1 DEF GoalTypeOK, GoalState
        <4>2. CASE RequestLeaves(r, k)
          <5>1. PICK root, listens : goal' = [goal EXCEPT ![r][k].root = root, ![r][k].listens = listens]
            BY ZenonT(120), <4>2 DEF RequestLeaves
          <5> QED BY SMTT(120), <1>0, <5>1 DEF GoalTypeOK, GoalState
        <4> QED BY ZenonT(120), <2>2, <4>1, <4>2
      <3>2. req[q] \in Holding
        BY ZenonT(120), <2>2 DEF RootReports, RequestLeaves, GoalTypeOK, Holding
      <3> QED BY ZenonT(120), <3>1, <3>2
    <2>3. CASE RequestAnswers(r)
      BY ZenonT(120), <2>3 DEF RequestAnswers, GoalTypeOK, Holding
    <2>4. CASE RequestReleases(r)
      BY ZenonT(120), <2>4 DEF RequestReleases, GoalTypeOK, Holding
    <2>5. CASE RequestReaps(r) \/ HangsUp(r)
      <3>1. q = r => goal'[q][j].at \in {"none", "done", "dead"}
        BY SMTT(120), <1>0, <2>5 DEF RequestReaps, HangsUp, Reaped, GoalTypeOK, GoalState
      <3>2. q # r
        BY ZenonT(120), <3>1 DEF AtBuild
      <3> QED BY ZenonT(120), <2>5, <3>2 DEF RequestReaps, HangsUp, GoalTypeOK
    <2> QED BY ZenonT(120), <1>5, <2>1, <2>2, <2>3, <2>4, <2>5 DEF RequestSteps
  <1>6. ASSUME NEW c \in OpClient, OpEnqueues(c) \/ OpSteps(c) \/ OpStopsWaiting(c) \/ OpVanishes(c)
        PROVE  Kept
    BY ZenonT(120), <1>1, <1>6 DEF OpEnqueues, OpSteps, OpSubscribes, OpLeaves, OpPrunes, OpStopsWaiting, OpVanishes
  <1>7. ASSUME NEW c \in Client, ClientReads(c)
        PROVE  Kept
    BY ZenonT(120), <1>1, <1>3, <1>7 DEF ClientReads, GoalSubscribed, OpSubscribed, AtBuild
  <1>8. ASSUME NEW b \in BuildId, BuildStarts(b) \/ SchedulerSteps(b) \/ WorkerEnds(b) \/ BuildLogs(b)
        PROVE  Kept
    BY ZenonT(120), <1>1, <1>8 DEF BuildStarts, SchedulerSteps, SchedulerDecides, SchedulerCancels, WorkerEnds,
       BuildEnds, BuildLogs, goalVars
  <1>9. ASSUME NEW b \in BuildId, NEW c \in Client, ClientIsDropped(b, c)
        PROVE  Kept
    BY ZenonT(120), <1>1, <1>9 DEF ClientIsDropped, goalVars
  <1> QED BY ZenonT(120), <1>2, <1>4, <1>5, <1>6, <1>7, <1>8, <1>9 DEF GoalNext
\* WaitingIsHeld is inductive beside the queue's invariant.
LEMMA WaitingStep ==
  ASSUME GoalTypeOK, Inv, Inv', WaitingIsHeld, [GoalNext]_everything
  PROVE  WaitingIsHeld'
  <1> SUFFICES ASSUME NEW q \in Request, NEW j \in Key,
                      goal'[q][j].at \in AtBuild, req'[q] \in Holding
               PROVE  goal'[q][j].build \in by_id' /\ q \in holders'[goal'[q][j].build]
    BY ZenonT(120) DEF WaitingIsHeld, AtBuild, Holding
  <1>1. goal'[q][j].build \in BuildId /\ q \in holders'[goal'[q][j].build]
    <2>1. CASE GoalEnqueues(q, j)
      <3>1. goal'[q][j].build = by_path'[j]
        BY SMTT(120), <2>1 DEF GoalEnqueues, GoalTypeOK, GoalState
      <3> QED BY ZenonT(120), <2>1, <3>1, EnqueueHolds DEF GoalEnqueues, GoalTypeOK
    <2>2. CASE ~GoalEnqueues(q, j)
      <3>1. goal[q][j].at \in AtBuild /\ goal'[q][j].build = goal[q][j].build /\ req[q] \in Holding
        BY ZenonT(120), <2>2, GoalKept
      <3>2. goal[q][j].build \in by_id /\ q \in holders[goal[q][j].build]
        BY ZenonT(120), <3>1 DEF WaitingIsHeld, AtBuild, Holding
      <3>3. goal[q][j].build \in BuildId
        BY ZenonT(120), <3>2 DEF Inv, TypeOK
      <3>4. ~RequestReleases(q)
        BY ZenonT(120) DEF RequestReleases, GoalTypeOK, Holding
      <3> QED BY ZenonT(120), <3>1, <3>2, <3>3, <3>4, HoldersKept DEF GoalTypeOK
    <2> QED BY ZenonT(120), <2>1, <2>2
  <1>2. goal'[q][j].build \in by_id'
    BY ZenonT(120), <1>1 DEF Inv, HoldsInv, HoldsAgree
  <1> QED BY ZenonT(120), <1>1, <1>2

\* Whatever other requests, handlers, prunes and cancels do, the build of a
\* waiting goal stays in the queue and held until its own request lets go.
THEOREM WaitingStaysHeld == GoalSpec => []WaitingIsHeld
  <1>1. GoalInit => WaitingIsHeld
    BY ZenonT(120) DEF GoalInit, WaitingIsHeld
  <1>2. GoalSpec => []Inv
    BY GoalsCallTheQueue, Invariance, PTL DEF CallsTheQueue
  <1> QED BY <1>1, <1>2, GoalTypeCorrect, WaitingStep, PTL DEF GoalSpec

-----------------------------------------------------------------------------
(* The life of a goal, of a handler, of the lock and of a subscription, one *)
(* step at a time.                                                         *)

Moved(g, h, at) == h.at = at /\ h.build = g.build /\ h.listens = g.listens /\ h.root = g.root

\* What a step makes of the goal of q and j: g before, h after.
MoveOf(g, h, q, j) ==
    \/ h = g
    \/ h \in {NoGoal, NewGoal(TRUE), NewGoal(FALSE)} /\ RequestStarts(q)
    \/ /\ h \in {NewGoal(TRUE), NewGoal(FALSE)} /\ g.at = "none"
       /\ \E k \in Key : GoalRealisesInputs(q, k) /\ j \in Needs[k] /\ j # k
    \/ Moved(g, h, "inputs") /\ GoalRealisesInputs(q, j)
    \/ Moved(g, h, "done") /\ (GoalFindsOutputs(q, j) \/ GoalRefuses(q, j))
    \/ /\ GoalEnqueues(q, j)
       /\ h.at = (IF g.listens THEN "subscribing" ELSE "waiting")
       /\ h.build = by_path'[j] /\ h.listens = g.listens /\ h.root = g.root
    \/ GoalSubscribes(q, j) /\ (Moved(g, h, "waiting") \/ Moved(g, h, "writing"))
    \/ (\E ok \in BOOLEAN : GoalSubscribed(q, j, ok)) /\ Moved(g, h, "waiting")
    \/ /\ GoalWakes(q, j)
       /\ h.at = (IF g.listens THEN "leaving" ELSE "done")
       /\ h.build = g.build /\ ~h.listens /\ h.root = g.root
    \/ GoalLeaves(q, j) /\ Moved(g, h, "done")
    \/ /\ RootReports(q, j)
       /\ h.at = g.at /\ h.build = g.build /\ h.listens = g.listens /\ h.root \in {"skipped", "reported"}
    \/ /\ RequestLeaves(q, j)
       /\ h.at = g.at /\ h.build = g.build /\ ~h.listens /\ h.root = "left"
    \/ (HangsUp(q) \/ RequestReaps(q)) /\ g.at \notin {"none", "done"} /\ Moved(g, h, "dead")

\* A step of a goal moves that goal, starts its inputs, and no other.
LEMMA GoalStepMoves ==
  ASSUME GoalTypeOK, NEW q \in Request, NEW j \in Key, NEW r \in Request, NEW k \in Key, GoalSteps(r, k)
  PROVE  MoveOf(goal[q][j], goal'[q][j], q, j)
  <1>0. goal[q][j] \in GoalState /\ goal \in [Request -> [Key -> GoalState]]
    BY ZenonT(120) DEF GoalTypeOK
  <1>1. CASE GoalRealisesInputs(r, k)
    <2>1. q # r => goal'[q][j] = goal[q][j]
      BY ZenonT(120), <1>1 DEF GoalRealisesInputs, GoalTypeOK
    <2>2. q = r /\ j = k => goal'[q][j] = [goal[q][j] EXCEPT !.at = "inputs"]
      BY ZenonT(120), <1>1 DEF GoalRealisesInputs, GoalTypeOK
    <2>3. Moved(goal[q][j], [goal[q][j] EXCEPT !.at = "inputs"], "inputs")
      BY SMTT(120), <1>0 DEF Moved, GoalState
    <2>4. q = r /\ j # k => \/ goal'[q][j] = goal[q][j]
                            \/ /\ goal[q][j].at = "none" /\ j \in Needs[k]
                               /\ goal'[q][j] = NewGoal(goal[r][k].listens)
      BY ZenonT(120), <1>1 DEF GoalRealisesInputs, GoalTypeOK
    <2>5. goal[r][k].listens \in BOOLEAN
      BY ZenonT(120) DEF GoalTypeOK, GoalState
    <2>6. NewGoal(goal[r][k].listens) \in {NewGoal(TRUE), NewGoal(FALSE)}
      BY ZenonT(120), <2>5
    <2> QED BY ZenonT(120), <1>1, <2>1, <2>2, <2>3, <2>4, <2>6 DEF MoveOf
  <1>2. CASE q # r \/ j # k
    <2>1. CASE ~GoalRealisesInputs(r, k)
      <3>1. goal'[q][j] = goal[q][j]
        <4>1. CASE GoalFindsOutputs(r, k)
          BY ZenonT(120), <1>0, <1>2, <4>1 DEF GoalFindsOutputs
        <4>4. CASE GoalEnqueues(r, k)
          BY ZenonT(120), <1>0, <1>2, <4>4 DEF GoalEnqueues
        <4>5. CASE GoalWakes(r, k)
          BY ZenonT(120), <1>0, <1>2, <4>5 DEF GoalWakes
        <4>2. CASE GoalRefuses(r, k)
          BY SMTT(120), <1>0, <1>2, <4>2 DEF GoalRefuses
        <4>3. CASE GoalSubscribes(r, k) \/ GoalLeaves(r, k)
          <5>1. PICK at : Moves(r, k, at)
            BY ZenonT(120), <4>3 DEF GoalSubscribes, GoalLeaves
          <5> QED BY ZenonT(120), <1>0, <1>2, <5>1 DEF Moves
        <4> QED BY ZenonT(120), <2>1, <4>1, <4>2, <4>3, <4>4, <4>5 DEF GoalSteps
      <3> QED BY ZenonT(120), <3>1 DEF MoveOf
    <2> QED BY ZenonT(120), <1>1, <2>1
  <1>3. CASE q = r /\ j = k
    <2>1. CASE GoalFindsOutputs(r, k) \/ GoalRefuses(r, k)
      <3>1. Moved(goal[q][j], goal'[q][j], "done")
        BY SMTT(120), <1>0, <1>3, <2>1 DEF GoalFindsOutputs, GoalRefuses, Moved, GoalState
      <3> QED BY ZenonT(120), <1>3, <2>1, <3>1 DEF MoveOf
    <2>2. CASE GoalEnqueues(r, k)
      <3>1. /\ goal'[q][j].at = (IF goal[q][j].listens THEN "subscribing" ELSE "waiting")
            /\ goal'[q][j].build = by_path'[j] /\ goal'[q][j].listens = goal[q][j].listens
            /\ goal'[q][j].root = goal[q][j].root
        BY SMTT(120), <1>0, <1>3, <2>2 DEF GoalEnqueues, GoalState
      <3> QED BY ZenonT(120), <1>3, <2>2, <3>1 DEF MoveOf
    <2>3. ASSUME NEW at, Moves(r, k, at)
          PROVE  Moved(goal[q][j], goal'[q][j], at)
      BY SMTT(120), <1>0, <1>3, <2>3 DEF Moves, Moved, GoalState
    <2>4. CASE GoalSubscribes(r, k)
      BY ZenonT(120), <1>3, <2>3, <2>4 DEF GoalSubscribes, MoveOf
    <2>5. CASE GoalWakes(r, k)
      <3>1. PICK result, cause :
               goal' = [goal EXCEPT ![r][k].at = IF goal[r][k].listens THEN "leaving" ELSE "done",
                                    ![r][k].listens = FALSE,
                                    ![r][k].result = result, ![r][k].cause = cause]
        BY ZenonT(120), <2>5 DEF GoalWakes
      <3>2. /\ goal'[q][j].at = (IF goal[q][j].listens THEN "leaving" ELSE "done")
            /\ goal'[q][j].build = goal[q][j].build /\ ~goal'[q][j].listens
            /\ goal'[q][j].root = goal[q][j].root
        BY SMTT(120), <1>0, <1>3, <3>1 DEF GoalState
      <3> QED BY ZenonT(120), <1>3, <2>5, <3>2 DEF MoveOf
    <2>6. CASE GoalLeaves(r, k)
      BY ZenonT(120), <1>3, <2>3, <2>6 DEF GoalLeaves, MoveOf
    <2> QED BY ZenonT(120), <1>1, <2>1, <2>2, <2>4, <2>5, <2>6 DEF GoalSteps
  <1> QED BY ZenonT(120), <1>2, <1>3

\* A step of a request starts its goals, reports or leaves a root, or reaps.
LEMMA RequestStepMoves ==
  ASSUME GoalTypeOK, NEW q \in Request, NEW j \in Key, NEW r \in Request,
         RequestStarts(r) \/ RequestSteps(r) \/ HangsUp(r)
  PROVE  MoveOf(goal[q][j], goal'[q][j], q, j)
  <1>0. goal[q][j] \in GoalState /\ goal \in [Request -> [Key -> GoalState]]
    BY ZenonT(120) DEF GoalTypeOK
  <1>1. CASE RequestAnswers(r) \/ RequestReleases(r)
    BY ZenonT(120), <1>1 DEF RequestAnswers, RequestReleases, MoveOf
  <1>2. CASE RequestStarts(r)
    <2>1. q # r => goal'[q][j] = goal[q][j]
      BY ZenonT(120), <1>2 DEF RequestStarts, GoalTypeOK
    <2>2. q = r => goal'[q][j] \in {NoGoal, NewGoal(TRUE)}
      BY ZenonT(120), <1>2 DEF RequestStarts, GoalTypeOK
    <2> QED BY ZenonT(120), <1>2, <2>1, <2>2 DEF MoveOf
  <1>3. ASSUME NEW k \in Key, RootReports(r, k)
        PROVE  MoveOf(goal[q][j], goal'[q][j], q, j)
    <2>1. PICK root \in {"skipped", "reported"} : goal' = [goal EXCEPT ![r][k].root = root]
      BY ZenonT(120), <1>3 DEF RootReports
    <2>2. q # r \/ j # k => goal'[q][j] = goal[q][j]
      BY SMTT(120), <1>0, <2>1
    <2>3. q = r /\ j = k => /\ goal'[q][j].at = goal[q][j].at /\ goal'[q][j].build = goal[q][j].build
                            /\ goal'[q][j].listens = goal[q][j].listens /\ goal'[q][j].root = root
      BY SMTT(120), <1>0, <2>1 DEF GoalState
    <2> QED BY ZenonT(120), <1>3, <2>2, <2>3 DEF MoveOf
  <1>4. ASSUME NEW k \in Key, RequestLeaves(r, k)
        PROVE  MoveOf(goal[q][j], goal'[q][j], q, j)
    <2>1. goal' = [goal EXCEPT ![r][k].root = "left", ![r][k].listens = FALSE]
      BY ZenonT(120), <1>4 DEF RequestLeaves, StopsListening
    <2>2. q # r \/ j # k => goal'[q][j] = goal[q][j]
      BY SMTT(120), <1>0, <2>1
    <2>3. q = r /\ j = k => /\ goal'[q][j].at = goal[q][j].at /\ goal'[q][j].build = goal[q][j].build
                            /\ ~goal'[q][j].listens /\ goal'[q][j].root = "left"
      BY SMTT(120), <1>0, <2>1 DEF GoalState
    <2> QED BY ZenonT(120), <1>4, <2>2, <2>3 DEF MoveOf
  <1>5. CASE RequestReaps(r) \/ HangsUp(r)
    <2>1. q # r => goal'[q][j] = goal[q][j]
      BY ZenonT(120), <1>5 DEF RequestReaps, HangsUp, GoalTypeOK
    <2>2. q = r => goal'[q][j] = IF goal[q][j].at \in {"none", "done"} THEN goal[q][j]
                                 ELSE [goal[q][j] EXCEPT !.at = "dead"]
      <3>1. q = r => goal'[q] = Reaped(q)
        BY ZenonT(120), <1>0, <1>5 DEF RequestReaps, HangsUp
      <3> QED BY ZenonT(120), <3>1 DEF Reaped
    <2>3. Moved(goal[q][j], [goal[q][j] EXCEPT !.at = "dead"], "dead")
      BY SMTT(120), <1>0 DEF Moved, GoalState
    <2> QED BY ZenonT(120), <1>5, <2>1, <2>2, <2>3 DEF MoveOf
  <1> QED BY ZenonT(120), <1>1, <1>2, <1>3, <1>4, <1>5 DEF RequestSteps

\* The steps that touch no goal and no handler.
Aside ==
    \/ UNCHANGED everything
    \/ \E b \in BuildId : BuildStarts(b) \/ SchedulerSteps(b) \/ WorkerEnds(b) \/ BuildLogs(b)
    \/ \E b \in BuildId, c \in Client : ClientIsDropped(b, c)

\* Every step is one of a goal, a request, a handler, a client that reads, or aside.
LEMMA StepCases ==
  ASSUME [GoalNext]_everything
  PROVE  \/ \E r \in Request, k \in Key : GoalSteps(r, k) \/ \E ok \in BOOLEAN : GoalSubscribed(r, k, ok)
         \/ \E r \in Request : RequestStarts(r) \/ RequestSteps(r) \/ HangsUp(r)
         \/ \E c \in OpClient : \/ OpEnqueues(c) \/ OpSteps(c) \/ OpStopsWaiting(c) \/ OpVanishes(c)
                                \/ \E ok \in BOOLEAN : OpSubscribed(c, ok)
         \/ Aside
  BY ZenonT(120) DEF GoalNext, ClientReads, Aside

\* A step aside leaves the requests, the goals, the handlers and the lock alone.
LEMMA AsideKeeps ==
  ASSUME Aside
  PROVE  UNCHANGED <<req, goal, op, lock, holders, standalone, by_id, key, next_id>>
  BY ZenonT(120) DEF Aside, everything, vars, queueVars, buildVars, streamVars, goalVars, BuildStarts, SpawnWorker, SchedulerSteps,
     SchedulerDecides, DecideUnwanted, SchedulerCancels, CancelUnwanted, WorkerEnds, BuildEnds, Complete,
     BuildLogs, PostLog, ClientIsDropped, DropDeadSubscriber

\* Every step moves a goal along its life, or leaves it alone.
LEMMA GoalMove ==
  ASSUME GoalTypeOK, [GoalNext]_everything, NEW q \in Request, NEW j \in Key
  PROVE  MoveOf(goal[q][j], goal'[q][j], q, j)
  <1>1. ASSUME goal' = goal
        PROVE  MoveOf(goal[q][j], goal'[q][j], q, j)
    BY ZenonT(120), <1>1 DEF MoveOf
  <1>2. ASSUME NEW r \in Request, NEW k \in Key, NEW ok \in BOOLEAN, GoalSubscribed(r, k, ok)
        PROVE  MoveOf(goal[q][j], goal'[q][j], q, j)
    <2>0. goal[q][j] \in GoalState /\ goal \in [Request -> [Key -> GoalState]]
      BY SMTT(120) DEF GoalTypeOK
    <2>1. goal' = [goal EXCEPT ![r][k].at = "waiting"]
      BY ZenonT(120), <1>2 DEF GoalSubscribed, Moves
    <2>2. q # r \/ j # k => goal'[q][j] = goal[q][j]
      BY SMTT(120), <2>0, <2>1
    <2>3. q = r /\ j = k => Moved(goal[q][j], goal'[q][j], "waiting")
      BY SMTT(120), <2>0, <2>1 DEF Moved, GoalState
    <2> QED BY ZenonT(120), <1>2, <2>2, <2>3 DEF MoveOf
  <1>3. ASSUME NEW c \in OpClient,
               \/ OpEnqueues(c) \/ OpSteps(c) \/ OpStopsWaiting(c) \/ OpVanishes(c)
               \/ \E ok \in BOOLEAN : OpSubscribed(c, ok)
        PROVE  goal' = goal
    BY ZenonT(120), <1>3 DEF OpEnqueues, OpSteps, OpSubscribes, OpLeaves, OpPrunes, OpStopsWaiting, OpVanishes, OpSubscribed
  <1> QED BY ZenonT(120), <1>1, <1>2, <1>3, StepCases, AsideKeeps, GoalStepMoves, RequestStepMoves

\* What a step makes of the handler of c: o before, p after.
OpMoveOf(o, p, c) ==
    \/ p = o
    \/ OpEnqueues(c) /\ p.at = "subscribing" /\ p.build = by_path'[OpKey[c]]
    \/ OpSubscribes(c) /\ p.build = o.build /\ p.at \in {"waiting", "writing"}
    \/ (\E ok \in BOOLEAN : OpSubscribed(c, ok)) /\ p.build = o.build /\ p.at = "waiting"
    \/ OpStopsWaiting(c) /\ p.build = o.build /\ p.at = "leaving"
    \/ OpLeaves(c) /\ p.build = o.build /\ p.at = "pruning"
    \/ (OpVanishes(c) \/ OpPrunes(c)) /\ p.at = "ended"

\* Every step moves a handler along its life, or leaves it alone.
LEMMA OpMove ==
  ASSUME GoalTypeOK, [GoalNext]_everything, NEW d \in OpClient
  PROVE  OpMoveOf(op[d], op'[d], d)
  <1>0. /\ op \in [OpClient -> [at : {"new", "subscribing", "writing", "waiting", "leaving", "pruning", "ended"},
                                build : BuildId \cup {0}]]
    BY ZenonT(120) DEF GoalTypeOK
  <1>1. ASSUME op' = op
        PROVE  OpMoveOf(op[d], op'[d], d)
    BY ZenonT(120), <1>1 DEF OpMoveOf
  <1>2. ASSUME NEW r \in Request, NEW k \in Key, GoalSteps(r, k) \/ \E ok \in BOOLEAN : GoalSubscribed(r, k, ok)
        PROVE  op' = op
    BY ZenonT(120), <1>2 DEF GoalSteps, GoalFindsOutputs, GoalRealisesInputs, GoalRefuses, GoalEnqueues, GoalSubscribes,
       GoalWakes, GoalLeaves, GoalSubscribed
  <1>3. ASSUME NEW r \in Request, RequestStarts(r) \/ RequestSteps(r) \/ HangsUp(r)
        PROVE  op' = op
    BY ZenonT(120), <1>3 DEF RequestStarts, RequestSteps, RootReports, RequestLeaves, RequestAnswers, RequestReleases,
       RequestReaps, HangsUp
  <1>4. ASSUME NEW c \in OpClient,
               \/ OpEnqueues(c) \/ OpSteps(c) \/ OpStopsWaiting(c) \/ OpVanishes(c)
               \/ \E ok \in BOOLEAN : OpSubscribed(c, ok)
        PROVE  OpMoveOf(op[d], op'[d], d)
    <2>1. ASSUME NEW at, OpMoves(c, at)
          PROVE  /\ c # d => op'[d] = op[d]
                 /\ c = d => op'[d].at = at /\ op'[d].build = op[d].build
      BY SMTT(120), <1>0, <2>1 DEF OpMoves
    <2>2. CASE OpEnqueues(c)
      <3>1. /\ c # d => op'[d] = op[d]
            /\ c = d => op'[d].at = "subscribing" /\ op'[d].build = by_path'[OpKey[c]]
        BY SMTT(120), <1>0, <2>2 DEF OpEnqueues
      <3> QED BY ZenonT(120), <2>2, <3>1 DEF OpMoveOf
    <2>3. CASE OpSubscribes(c) \/ \E ok \in BOOLEAN : OpSubscribed(c, ok)
      BY ZenonT(120), <2>1, <2>3 DEF OpSubscribes, OpSubscribed, OpMoveOf
    <2>4. CASE OpStopsWaiting(c) \/ OpLeaves(c)
      BY ZenonT(120), <2>1, <2>4 DEF OpStopsWaiting, OpLeaves, OpMoveOf
    <2>5. CASE OpVanishes(c) \/ OpPrunes(c)
      BY ZenonT(120), <2>1, <2>5 DEF OpVanishes, OpPrunes, OpMoveOf
    <2> QED BY ZenonT(120), <1>4, <2>2, <2>3, <2>4, <2>5 DEF OpSteps
  <1> QED BY ZenonT(120), <1>1, <1>2, <1>3, <1>4, StepCases, AsideKeeps

\* The id and the key of a build last.
LEMMA KeysKept ==
  ASSUME TypeOK, [Next]_vars, NEW b \in BuildId, b < next_id
  PROVE  b < next_id' /\ key'[b] = key[b]
  <1>1. ASSUME UNCHANGED <<next_id, key>>
        PROVE  b < next_id' /\ key'[b] = key[b]
    BY ZenonT(120), <1>1
  <1>2. ASSUME NEW k \in Key, NEW r \in Request \cup {None}, NEW delegated \in BOOLEAN, Enqueue(k, r, delegated)
        PROVE  b < next_id' /\ key'[b] = key[b]
    <2>1. CASE EnqueueJoins(k, r)
      BY ZenonT(120), <1>1, <2>1 DEF EnqueueJoins
    <2>2. CASE EnqueueCreates(k, r)
      BY SMTT(120), <2>2 DEF EnqueueCreates, TypeOK, BuildId
    <2> QED BY ZenonT(120), <1>2, <2>1, <2>2 DEF Enqueue
  <1>3. ASSUME ~(\E k \in Key, r \in Request \cup {None}, delegated \in BOOLEAN : Enqueue(k, r, delegated))
        PROVE  UNCHANGED <<next_id, key>>
    BY ZenonT(120), <1>3 DEF Next, Complete, DecideUnwanted, CancelUnwanted, ReleaseRequest, PruneAfterRelease,
       PruneAfterStandalone, Prune, SubscribeSilently, SubscribeWrites, SubscribeEnds, Unsubscribe, PostLog,
       DropDeadSubscriber, SpawnWorker, WorkerEnded, ResetForRetry, vars, queueVars, buildVars
  <1> QED BY ZenonT(120), <1>1, <1>2, <1>3

\* A request starts once and goes forward.
LEMMA RequestMove ==
  ASSUME GoalTypeOK, [GoalNext]_everything, NEW q \in Request
  PROVE  \/ req'[q] = req[q]
         \/ RequestStarts(q) /\ req[q] = "new" /\ req'[q] = "running"
         \/ req[q] = "running" /\ req'[q] = "stopping" /\ q \notin KeepsGoing
         \/ req[q] \in {"running", "stopping"} /\ req'[q] = "answered" /\ (RequestAnswers(q) \/ HangsUp(q))
         \/ RequestReleases(q) /\ req[q] = "answered" /\ req'[q] = "released"
         \/ RequestReaps(q) /\ req[q] = "released" /\ req'[q] = "ended"
  <1> DEFINE Ahead ==
         \/ req'[q] = req[q]
         \/ RequestStarts(q) /\ req[q] = "new" /\ req'[q] = "running"
         \/ req[q] = "running" /\ req'[q] = "stopping" /\ q \notin KeepsGoing
         \/ req[q] \in {"running", "stopping"} /\ req'[q] = "answered" /\ (RequestAnswers(q) \/ HangsUp(q))
         \/ RequestReleases(q) /\ req[q] = "answered" /\ req'[q] = "released"
         \/ RequestReaps(q) /\ req[q] = "released" /\ req'[q] = "ended"
  <1> SUFFICES Ahead
    BY ZenonT(120)
  <1>0. req \in [Request -> {"new", "running", "stopping", "answered", "released", "ended"}]
    BY ZenonT(120) DEF GoalTypeOK
  <1>1. ASSUME req' = req
        PROVE  Ahead
    BY ZenonT(120), <1>1
  <1>2. ASSUME NEW r \in Request, NEW k \in Key, GoalSteps(r, k) \/ \E ok \in BOOLEAN : GoalSubscribed(r, k, ok)
        PROVE  req' = req
    BY ZenonT(120), <1>2 DEF GoalSteps, GoalFindsOutputs, GoalRealisesInputs, GoalRefuses, GoalEnqueues, GoalSubscribes,
       GoalWakes, GoalLeaves, GoalSubscribed
  <1>3. ASSUME NEW c \in OpClient,
               \/ OpEnqueues(c) \/ OpSteps(c) \/ OpStopsWaiting(c) \/ OpVanishes(c)
               \/ \E ok \in BOOLEAN : OpSubscribed(c, ok)
        PROVE  req' = req
    BY ZenonT(120), <1>3 DEF OpEnqueues, OpSteps, OpSubscribes, OpLeaves, OpPrunes, OpStopsWaiting, OpVanishes, OpSubscribed
  <1>4. ASSUME NEW r \in Request, RequestStarts(r) \/ RequestSteps(r) \/ HangsUp(r)
        PROVE  Ahead
    <2>1. CASE r # q
      BY ZenonT(120), <1>0, <1>4, <2>1 DEF RequestStarts, RequestSteps, RootReports, RequestLeaves, RequestAnswers,
         RequestReleases, RequestReaps, HangsUp
    <2>2. CASE r = q
      <3>1. ASSUME NEW k \in Key, RootReports(q, k)
            PROVE  Ahead
        BY ZenonT(120), <1>0, <3>1 DEF RootReports
      <3>2. ASSUME NEW k \in Key, RequestLeaves(q, k)
            PROVE  Ahead
        BY ZenonT(120), <3>2 DEF RequestLeaves
      <3>3. CASE RequestStarts(q) \/ RequestReleases(q) \/ RequestReaps(q)
        BY ZenonT(120), <1>0, <3>3 DEF RequestStarts, RequestReleases, RequestReaps
      <3>4. CASE RequestAnswers(q) \/ HangsUp(q)
        BY ZenonT(120), <1>0, <3>4 DEF RequestAnswers, HangsUp
      <3> QED BY ZenonT(120), <1>4, <2>2, <3>1, <3>2, <3>3, <3>4 DEF RequestSteps
    <2> QED BY ZenonT(120), <2>1, <2>2
  <1> QED BY ZenonT(120), <1>1, <1>2, <1>3, <1>4, StepCases, AsideKeeps

\* Who takes the lock, and who frees it.
LockMoves ==
    \/ lock' = lock
    \/ /\ lock = None
       /\ \/ \E r \in Request, k \in Key : /\ GoalSubscribes(r, k) /\ Moves(r, k, "writing")
                                           /\ lock' = <<goal[r][k].build, Owner[r]>>
          \/ \E c \in OpClient : OpSubscribes(c) /\ OpMoves(c, "writing") /\ lock' = <<op[c].build, c>>
    \/ /\ lock' = None
       /\ \/ \E r \in Request, k \in Key, ok \in BOOLEAN : GoalSubscribed(r, k, ok)
          \/ \E c \in OpClient, ok \in BOOLEAN : OpSubscribed(c, ok)
          \/ \E r \in Request : HangsUp(r) /\ lock[2] = Owner[r]
          \/ \E c \in OpClient : OpVanishes(c) /\ lock[2] = c

\* A subscribe that writes nothing and an unsubscribe leave the lock alone.
LEMMA StreamKeepsLock ==
  ASSUME NEW b, NEW c, SubscribesAtOnce(b, c) \/ Unsubscribes(b, c)
  PROVE  lock' = lock /\ lock = None
  BY ZenonT(120) DEF SubscribesAtOnce, SubscribeSilently, Unsubscribes, Unsubscribe, vars, streamVars

\* The lock goes from nobody to a writer and back.
LEMMA LockMove ==
  ASSUME [GoalNext]_everything
  PROVE  LockMoves
  <1>1. ASSUME NEW r \in Request, NEW k \in Key, GoalSteps(r, k) \/ \E ok \in BOOLEAN : GoalSubscribed(r, k, ok)
        PROVE  LockMoves
    <2>1. CASE GoalFindsOutputs(r, k) \/ GoalRealisesInputs(r, k) \/ GoalRefuses(r, k) \/ GoalWakes(r, k) \/ GoalEnqueues(r, k)
      BY ZenonT(120), <2>1 DEF GoalFindsOutputs, GoalRealisesInputs, GoalRefuses, GoalWakes, GoalEnqueues, Enqueue,
         vars, streamVars, LockMoves
    <2>2. CASE GoalSubscribes(r, k)
      BY ZenonT(120), <2>2, StreamKeepsLock DEF GoalSubscribes, SubscribeWrites, LockMoves
    <2>3. CASE GoalLeaves(r, k)
      BY ZenonT(120), <2>3, StreamKeepsLock DEF GoalLeaves, LockMoves
    <2>4. CASE \E ok \in BOOLEAN : GoalSubscribed(r, k, ok)
      BY ZenonT(120), <2>4 DEF GoalSubscribed, SubscribeEnds, LockMoves
    <2> QED BY ZenonT(120), <1>1, <2>1, <2>2, <2>3, <2>4 DEF GoalSteps
  <1>2. ASSUME NEW r \in Request, RequestStarts(r) \/ RequestSteps(r) \/ HangsUp(r)
        PROVE  LockMoves
    <2>1. CASE HangsUp(r)
      BY ZenonT(120), <2>1 DEF HangsUp, FreesLock, LockMoves
    <2>2. CASE \E k \in Key : RequestLeaves(r, k)
      BY ZenonT(120), <2>2, StreamKeepsLock DEF RequestLeaves, LockMoves
    <2>3. CASE RequestStarts(r) \/ RequestAnswers(r) \/ RequestReleases(r) \/ RequestReaps(r) \/ \E k \in Key : RootReports(r, k)
      BY ZenonT(120), <2>3 DEF RequestStarts, RequestAnswers, RequestReleases, ReleaseRequest, RequestReaps,
         PruneAfterRelease, Prune, RootReports, vars, streamVars, LockMoves
    <2> QED BY ZenonT(120), <1>2, <2>1, <2>2, <2>3 DEF RequestSteps
  <1>3. ASSUME NEW c \in OpClient,
               \/ OpEnqueues(c) \/ OpSteps(c) \/ OpStopsWaiting(c) \/ OpVanishes(c)
               \/ \E ok \in BOOLEAN : OpSubscribed(c, ok)
        PROVE  LockMoves
    <2>1. CASE OpEnqueues(c) \/ OpStopsWaiting(c) \/ OpPrunes(c)
      BY ZenonT(120), <2>1 DEF OpEnqueues, Enqueue, OpStopsWaiting, OpPrunes, PruneAfterStandalone, Prune, vars, streamVars, LockMoves
    <2>2. CASE OpSubscribes(c)
      BY ZenonT(120), <2>2, StreamKeepsLock DEF OpSubscribes, SubscribeWrites, LockMoves
    <2>3. CASE OpLeaves(c)
      BY ZenonT(120), <2>3, StreamKeepsLock DEF OpLeaves, LockMoves
    <2>4. CASE OpVanishes(c)
      BY ZenonT(120), <2>4 DEF OpVanishes, FreesLock, LockMoves
    <2>5. CASE \E ok \in BOOLEAN : OpSubscribed(c, ok)
      BY ZenonT(120), <2>5 DEF OpSubscribed, SubscribeEnds, LockMoves
    <2> QED BY ZenonT(120), <1>3, <2>1, <2>2, <2>3, <2>4, <2>5 DEF OpSteps
  <1>4. ASSUME lock' = lock
        PROVE  LockMoves
    BY ZenonT(120), <1>4 DEF LockMoves
  <1> QED BY ZenonT(120), <1>1, <1>2, <1>3, <1>4, StepCases, AsideKeeps

\* Who becomes a subscriber.
Subscribed(b, c) ==
    \/ \E r \in Request, k \in Key : /\ c = Owner[r] /\ b = goal[r][k].build
                                     /\ GoalSubscribes(r, k) /\ Moves(r, k, "waiting")
    \/ c \in OpClient /\ b = op[c].build /\ OpSubscribes(c) /\ OpMoves(c, "waiting")
    \/ /\ lock = <<b, c>>
       /\ \/ \E r \in Request, k \in Key, ok \in BOOLEAN : GoalSubscribed(r, k, ok)
          \/ \E d \in OpClient, ok \in BOOLEAN : OpSubscribed(d, ok)

SubsMoves(b, c) ==
    \/ subs'[b][c] = subs[b][c]
    \/ subs[b][c] > 0 /\ subs'[b][c] = subs[b][c] - 1
    \/ Subscribed(b, c) /\ subs'[b][c] = subs[b][c] + 1
    \/ Subscribed(b, c) /\ subs'[b][c] = 1

\* The streaming calls of the queue.
LEMMA StreamSubs ==
  ASSUME TypeOK, NEW b \in BuildId, NEW c \in Client, NEW x, NEW d
  PROVE  /\ SubscribesAtOnce(x, d) => subs'[b][c] = subs[b][c] \/ (x = b /\ d = c /\ subs'[b][c] = subs[b][c] + 1)
         /\ Unsubscribes(x, d) => \/ subs'[b][c] = subs[b][c]
                                  \/ subs[b][c] > 0 /\ subs'[b][c] = subs[b][c] - 1
         /\ Unsubscribes(b, c) /\ b \in by_id /\ subs[b][c] = 1 => subs'[b][c] = 0
         /\ SubscribeWrites(x, d) => subs'[b][c] = subs[b][c]
         /\ \A ok : SubscribeEnds(ok) => \/ subs'[b][c] = subs[b][c]
                                         \/ lock = <<b, c>> /\ subs'[b][c] = 1
  <1>0. subs \in [BuildId -> [Client -> Nat]] /\ by_id \subseteq BuildId
        /\ lock \in (BuildId \X Client) \cup {None}
    BY ZenonT(120) DEF TypeOK
  <1>1. ASSUME SubscribesAtOnce(x, d)
        PROVE  subs'[b][c] = subs[b][c] \/ (x = b /\ d = c /\ subs'[b][c] = subs[b][c] + 1)
    <2>1. subs' = subs \/ subs' = [subs EXCEPT ![x][d] = @ + 1]
      BY ZenonT(120), <1>1 DEF SubscribesAtOnce, SubscribeSilently, vars, streamVars
    <2> QED BY SMTT(120), <1>0, <2>1
  <1>2. ASSUME NEW y, NEW e, Unsubscribes(y, e)
        PROVE  \/ subs' = subs /\ ~(y \in by_id /\ Refers(y, e))
               \/ y \in BuildId /\ Refers(y, e) /\ subs' = [subs EXCEPT ![y][e] = @ - 1]
    BY ZenonT(120), <1>0, <1>2 DEF Unsubscribes, Unsubscribe, vars, streamVars
  <1>3. ASSUME Unsubscribes(x, d)
        PROVE  \/ subs'[b][c] = subs[b][c]
               \/ subs[b][c] > 0 /\ subs'[b][c] = subs[b][c] - 1
    <2>1. subs' = subs \/ (x \in BuildId /\ Refers(x, d) /\ subs' = [subs EXCEPT ![x][d] = @ - 1])
      BY ZenonT(120), <1>2, <1>3
    <2> QED BY SMTT(120), <1>0, <2>1 DEF Refers
  <1>4. ASSUME Unsubscribes(b, c), b \in by_id, subs[b][c] = 1
        PROVE  subs'[b][c] = 0
    <2>1. Refers(b, c)
      BY SMTT(120), <1>4 DEF Refers
    <2>2. subs' = [subs EXCEPT ![b][c] = @ - 1]
      BY ZenonT(120), <1>2, <1>4, <2>1
    <2> QED BY SMTT(120), <1>0, <1>4, <2>2
  <1>5. ASSUME SubscribeWrites(x, d)
        PROVE  subs'[b][c] = subs[b][c]
    BY ZenonT(120), <1>5 DEF SubscribeWrites
  <1>6. ASSUME NEW ok, SubscribeEnds(ok)
        PROVE  \/ subs'[b][c] = subs[b][c]
               \/ lock = <<b, c>> /\ subs'[b][c] = 1
    <2>1. lock \in BuildId \X Client
      BY ZenonT(120), <1>0, <1>6 DEF SubscribeEnds
    <2>2. subs' = subs \/ subs' = [subs EXCEPT ![lock[1]][lock[2]] = 1]
      BY ZenonT(120), <1>6 DEF SubscribeEnds
    <2> QED BY SMTT(120), <1>0, <2>1, <2>2
  <1> QED BY ZenonT(120), <1>1, <1>3, <1>4, <1>5, <1>6

\* A client gets a reference by a subscribe of its own, and loses one at a time.
LEMMA SubsMove ==
  ASSUME GoalTypeOK, [GoalNext]_everything, NEW b \in BuildId, NEW c \in Client
  PROVE  SubsMoves(b, c)
  <1>0. TypeOK
    BY ZenonT(120) DEF GoalTypeOK
  <1>1. ASSUME subs' = subs
        PROVE  SubsMoves(b, c)
    BY ZenonT(120), <1>1 DEF SubsMoves
  <1>2. ASSUME NEW x, NEW d, Unsubscribes(x, d)
        PROVE  SubsMoves(b, c)
    BY ZenonT(120), <1>0, <1>2, StreamSubs DEF SubsMoves
  <1>3. ASSUME NEW r \in Request, NEW k \in Key, GoalSteps(r, k) \/ \E ok \in BOOLEAN : GoalSubscribed(r, k, ok)
        PROVE  SubsMoves(b, c)
    <2>1. CASE GoalFindsOutputs(r, k) \/ GoalRealisesInputs(r, k) \/ GoalRefuses(r, k) \/ GoalWakes(r, k) \/ GoalEnqueues(r, k)
      BY ZenonT(120), <1>1, <2>1 DEF GoalFindsOutputs, GoalRealisesInputs, GoalRefuses, GoalWakes, GoalEnqueues, Enqueue,
         vars, streamVars
    <2>2. CASE GoalSubscribes(r, k)
      <3>1. CASE SubscribesAtOnce(goal[r][k].build, Owner[r]) /\ Moves(r, k, "waiting")
        <4>1. \/ subs'[b][c] = subs[b][c]
              \/ goal[r][k].build = b /\ Owner[r] = c /\ subs'[b][c] = subs[b][c] + 1
          BY ZenonT(120), <1>0, <3>1, StreamSubs
        <4> QED BY ZenonT(120), <2>2, <3>1, <4>1 DEF SubsMoves, Subscribed
      <3>2. CASE SubscribeWrites(goal[r][k].build, Owner[r])
        BY ZenonT(120), <1>1, <3>2 DEF SubscribeWrites
      <3> QED BY ZenonT(120), <2>2, <3>1, <3>2 DEF GoalSubscribes
    <2>3. CASE GoalLeaves(r, k)
      BY ZenonT(120), <1>2, <2>3 DEF GoalLeaves
    <2>4. ASSUME NEW ok \in BOOLEAN, GoalSubscribed(r, k, ok)
          PROVE  SubsMoves(b, c)
      <3>1. SubscribeEnds(ok)
        BY ZenonT(120), <2>4 DEF GoalSubscribed
      <3> QED BY ZenonT(120), <1>0, <2>4, <3>1, StreamSubs DEF SubsMoves, Subscribed
    <2> QED BY ZenonT(120), <1>3, <2>1, <2>2, <2>3, <2>4 DEF GoalSteps
  <1>4. ASSUME NEW r \in Request, RequestStarts(r) \/ RequestSteps(r) \/ HangsUp(r)
        PROVE  SubsMoves(b, c)
    <2>1. CASE \E k \in Key : RequestLeaves(r, k)
      BY ZenonT(120), <1>2, <2>1 DEF RequestLeaves
    <2>2. CASE ~(\E k \in Key : RequestLeaves(r, k))
      BY ZenonT(120), <1>1, <1>4, <2>2 DEF RequestStarts, RequestSteps, RequestAnswers, RequestReleases, ReleaseRequest,
         RequestReaps, PruneAfterRelease, Prune, RootReports, HangsUp, vars, streamVars
    <2> QED BY ZenonT(120), <2>1, <2>2
  <1>5. ASSUME NEW d \in OpClient,
               \/ OpEnqueues(d) \/ OpSteps(d) \/ OpStopsWaiting(d) \/ OpVanishes(d)
               \/ \E ok \in BOOLEAN : OpSubscribed(d, ok)
        PROVE  SubsMoves(b, c)
    <2>1. CASE OpEnqueues(d) \/ OpStopsWaiting(d) \/ OpPrunes(d) \/ OpVanishes(d)
      BY ZenonT(120), <1>1, <2>1 DEF OpEnqueues, Enqueue, OpStopsWaiting, OpPrunes, PruneAfterStandalone, Prune, OpVanishes,
         vars, streamVars
    <2>2. CASE OpSubscribes(d)
      <3>1. CASE SubscribesAtOnce(op[d].build, d) /\ OpMoves(d, "waiting")
        <4>1. \/ subs'[b][c] = subs[b][c]
              \/ op[d].build = b /\ d = c /\ subs'[b][c] = subs[b][c] + 1
          BY ZenonT(120), <1>0, <3>1, StreamSubs
        <4> QED BY ZenonT(120), <2>2, <3>1, <4>1 DEF SubsMoves, Subscribed
      <3>2. CASE SubscribeWrites(op[d].build, d)
        BY ZenonT(120), <1>1, <3>2 DEF SubscribeWrites
      <3> QED BY ZenonT(120), <2>2, <3>1, <3>2 DEF OpSubscribes
    <2>3. CASE OpLeaves(d)
      BY ZenonT(120), <1>2, <2>3 DEF OpLeaves
    <2>4. ASSUME NEW ok \in BOOLEAN, OpSubscribed(d, ok)
          PROVE  SubsMoves(b, c)
      <3>1. SubscribeEnds(ok)
        BY ZenonT(120), <2>4 DEF OpSubscribed
      <3> QED BY ZenonT(120), <1>0, <2>4, <3>1, StreamSubs DEF SubsMoves, Subscribed
    <2> QED BY ZenonT(120), <1>5, <2>1, <2>2, <2>3, <2>4 DEF OpSteps
  <1>6. CASE Aside
    <2>1. ASSUME NEW x \in BuildId, NEW d \in Client, ClientIsDropped(x, d)
          PROVE  SubsMoves(b, c)
      <3>1. subs[x][d] > 0 /\ subs' = [subs EXCEPT ![x][d] = @ - 1]
        BY ZenonT(120), <2>1 DEF ClientIsDropped, DropDeadSubscriber
      <3>2. subs'[b][c] = subs[b][c] \/ (subs[b][c] > 0 /\ subs'[b][c] = subs[b][c] - 1)
        BY SMTT(120), <1>0, <3>1 DEF TypeOK
      <3> QED BY ZenonT(120), <3>2 DEF SubsMoves
    <2>2. CASE ~(\E x \in BuildId, d \in Client : ClientIsDropped(x, d))
      BY ZenonT(120), <1>1, <1>6, <2>2 DEF Aside, everything, vars, streamVars, BuildStarts, SpawnWorker,
         SchedulerSteps, SchedulerDecides, DecideUnwanted, SchedulerCancels, CancelUnwanted, WorkerEnds, BuildEnds,
         Complete, BuildLogs, PostLog
    <2> QED BY ZenonT(120), <2>1, <2>2
  <1> QED BY ZenonT(120), <1>3, <1>4, <1>5, <1>6, StepCases

-----------------------------------------------------------------------------
(* The inductive invariant of the streams.  A client streams a build for    *)
(* the one goal of its request that has it, or for its handler, and counts  *)
(* once; the lock is held exactly by the one that writes.                  *)

\* A goal g of the request r for the derivation k.
GoalOK(g, r, k) ==
    /\ req[r] = "new" => g.at = "none"
    /\ g.at \in {"none", "preparing", "inputs"} => g.build = 0
    /\ g.build # 0 => g.build < next_id /\ key[g.build] = k
    /\ g.at \in {"subscribing", "writing"} => g.listens
    /\ g.root = "left" => ~g.listens

\* A goal that may have its client in the subscriber list of b.
StreamsFor(g, b) ==
    /\ g.build = b /\ g.root # "left"
    /\ g.at \in {"leaving", "dead"} \/ (g.at = "waiting" /\ g.listens)

Streams(b, c) ==
    \/ \E r \in Request, k \in Key : c = Owner[r] /\ StreamsFor(goal[r][k], b)
    \/ c \in OpClient /\ op[c].build = b /\ op[c].at \in {"waiting", "leaving"}

Writes(b, c) ==
    \/ \E r \in Request, k \in Key : c = Owner[r] /\ goal[r][k].at = "writing" /\ goal[r][k].build = b
    \/ c \in OpClient /\ op[c].at = "writing" /\ op[c].build = b

GoalsOK == \A r \in Request, k \in Key : GoalOK(goal[r][k], r, k)

WritersLock ==
    /\ \A r \in Request, k \in Key :
         goal[r][k].at = "writing" => lock # None /\ lock = <<goal[r][k].build, Owner[r]>>
    /\ \A c \in OpClient : op[c].at = "writing" => lock # None /\ lock = <<op[c].build, c>>
    /\ lock # None => Writes(lock[1], lock[2])

StreamsAreOwned ==
    \A b \in BuildId, c \in Client : subs[b][c] > 0 => subs[b][c] = 1 /\ Streams(b, c)

StreamInv == GoalsOK /\ WritersLock /\ StreamsAreOwned

\* A new goal has no build and no answer to give.
LEMMA FreshGoals ==
  /\ NoGoal.at = "none" /\ NoGoal.build = 0 /\ NoGoal.root = "open"
  /\ \A b \in BOOLEAN : /\ NewGoal(b).at = "preparing" /\ NewGoal(b).build = 0
                        /\ NewGoal(b).root = "open" /\ NewGoal(b).listens = b
  BY SMTT(120) DEF NoGoal, NewGoal

\* No build is created twice, and a goal comes to one by its enqueue alone.
LEMMA GoalsOKStep ==
  ASSUME GoalTypeOK, Inv, Inv', GoalsOK, [GoalNext]_everything
  PROVE  GoalsOK'
  <1> SUFFICES ASSUME NEW q \in Request, NEW j \in Key
               PROVE  GoalOK(goal[q][j], q, j)'
    BY ZenonT(120) DEF GoalsOK
  <1> DEFINE OK(x) == /\ req'[q] = "new" => x.at = "none"
                      /\ x.at \in {"none", "preparing", "inputs"} => x.build = 0
                      /\ x.build # 0 => x.build < next_id' /\ key'[x.build] = j
                      /\ x.at \in {"subscribing", "writing"} => x.listens
                      /\ x.root = "left" => ~x.listens
  <1> SUFFICES OK(goal'[q][j])
    BY ZenonT(120) DEF GoalOK
  <1>0. PICK g : g = goal[q][j]
    BY ZenonT(120)
  <1>1. PICK h : h = goal'[q][j]
    BY ZenonT(120)
  <1>2. g \in GoalState /\ GoalOK(g, q, j)
    BY ZenonT(120), <1>0 DEF GoalTypeOK, GoalsOK
  <1>3. MoveOf(g, h, q, j)
    BY ZenonT(120), <1>0, <1>1, GoalMove
  <1>4. req'[q] = "new" => req[q] = "new" /\ ~RequestStarts(q)
    <2>1. RequestStarts(q) => req'[q] # "new"
      BY ZenonT(120) DEF RequestStarts, GoalTypeOK
    <2> QED BY ZenonT(120), <2>1, RequestMove
  <1>5. g.build # 0 => g.build < next_id' /\ key'[g.build] = j
    <2>1. g.build \in BuildId \cup {0}
      BY ZenonT(120), <1>2 DEF GoalState
    <2>2. ASSUME NEW b \in BuildId, b < next_id
          PROVE  b < next_id' /\ key'[b] = key[b]
      BY ZenonT(120), <2>2, StepCalls, KeysKept DEF GoalTypeOK
    <2> QED BY ZenonT(120), <1>2, <2>1, <2>2 DEF GoalOK
  <1>6. by_path'[j] # 0 => by_path'[j] < next_id' /\ key'[by_path'[j]] = j
    <2>1. by_path'[j] # 0 => by_path'[j] \in by_id' /\ key'[by_path'[j]] = j
      BY ZenonT(120) DEF Inv, PathsNameBuilds
    <2>2. ASSUME NEW b \in by_id'
          PROVE  b < next_id'
      <3>1. b \in BuildId /\ next_id' \in 1..(MaxBuilds + 1)
        BY ZenonT(120) DEF Inv, TypeOK
      <3>2. ~(b >= next_id')
        BY ZenonT(120), <3>1 DEF Inv, Fresh
      <3> QED BY SMTT(120), <3>1, <3>2, ConstantsAssumption DEF BuildId
    <2> QED BY ZenonT(120), <2>1, <2>2
  <1>7. \A x \in {NoGoal, NewGoal(TRUE), NewGoal(FALSE)} :
           x.at \in {"none", "preparing"} /\ x.build = 0 /\ x.root = "open"
    BY ZenonT(120), FreshGoals
  <1>8. g.at = goal[q][j].at
    BY ZenonT(120), <1>0
  <1>9. req[q] = "new" => g.at = "none"
    BY ZenonT(120), <1>2 DEF GoalOK
  <1> SUFFICES OK(h)
    BY ZenonT(120), <1>1
  <1>10. CASE h = g
    BY ZenonT(120), <1>2, <1>4, <1>5, <1>10 DEF GoalOK
  <1>11. CASE h \in {NoGoal, NewGoal(TRUE), NewGoal(FALSE)} /\ RequestStarts(q)
    BY ZenonT(120), <1>4, <1>7, <1>11
  <1>12. CASE h \in {NewGoal(TRUE), NewGoal(FALSE)} /\ \E k \in Key : GoalRealisesInputs(q, k)
    <2>1. req[q] # "new"
      BY ZenonT(120), <1>12 DEF GoalRealisesInputs, GoalsOK, GoalOK
    <2> QED BY ZenonT(120), <1>4, <1>7, <1>12, <2>1
  <1>13. ASSUME NEW at \in {"inputs", "done", "waiting", "writing", "dead"}, Moved(g, h, at), g.at # "none",
                at = "inputs" => g.at \in {"preparing", "inputs"}, at = "writing" => g.listens
         PROVE  OK(h)
    BY ZenonT(120), <1>2, <1>4, <1>5, <1>9, <1>13 DEF GoalOK, Moved
  <1>14. CASE GoalEnqueues(q, j) /\ h.at = (IF g.listens THEN "subscribing" ELSE "waiting")
              /\ h.build = by_path'[j] /\ h.listens = g.listens /\ h.root = g.root
    <2>1. g.at = "inputs"
      BY ZenonT(120), <1>8, <1>14 DEF GoalEnqueues, InputsDone
    <2> QED BY ZenonT(120), <1>2, <1>4, <1>6, <1>9, <1>14, <2>1 DEF GoalOK
  <1>15. CASE GoalWakes(q, j) /\ h.at = (IF g.listens THEN "leaving" ELSE "done")
              /\ h.build = g.build /\ ~h.listens /\ h.root = g.root
    <2>1. g.at = "waiting"
      BY ZenonT(120), <1>8, <1>15 DEF GoalWakes
    <2> QED BY ZenonT(120), <1>4, <1>5, <1>9, <1>15, <2>1
  <1>16. CASE h.at = g.at /\ h.build = g.build /\ h.listens = g.listens /\ h.root \in {"skipped", "reported"}
    BY ZenonT(120), <1>2, <1>4, <1>5, <1>9, <1>16 DEF GoalOK
  <1>17. CASE RequestLeaves(q, j) /\ h.at = g.at /\ h.build = g.build /\ ~h.listens /\ h.root = "left"
    <2>1. g.at \notin {"subscribing", "writing"}
      BY ZenonT(120), <1>8, <1>17 DEF RequestLeaves
    <2> QED BY ZenonT(120), <1>2, <1>4, <1>5, <1>9, <1>17, <2>1 DEF GoalOK
  <1>18. CASE \/ Moved(g, h, "inputs") /\ GoalRealisesInputs(q, j)
              \/ Moved(g, h, "done") /\ (GoalFindsOutputs(q, j) \/ GoalRefuses(q, j) \/ GoalLeaves(q, j))
    <2>1. g.at \in {"preparing", "inputs", "leaving"} /\ (GoalRealisesInputs(q, j) => g.at = "preparing")
      BY ZenonT(120), <1>8, <1>18 DEF GoalRealisesInputs, GoalFindsOutputs, GoalRefuses, InputsDone, GoalLeaves
    <2> QED BY ZenonT(120), <1>13, <1>18, <2>1
  <1>19. CASE \/ GoalSubscribes(q, j) /\ (Moved(g, h, "waiting") \/ Moved(g, h, "writing"))
              \/ (\E ok \in BOOLEAN : GoalSubscribed(q, j, ok)) /\ Moved(g, h, "waiting")
    <2>1. g.at \in {"subscribing", "writing"}
      BY ZenonT(120), <1>8, <1>19 DEF GoalSubscribes, GoalSubscribed
    <2>2. g.listens
      BY ZenonT(120), <1>2, <2>1 DEF GoalOK
    <2> QED BY ZenonT(120), <1>13, <1>19, <2>1, <2>2
  <1>20. CASE g.at \notin {"none", "done"} /\ Moved(g, h, "dead")
    BY ZenonT(120), <1>13, <1>20
  <1> HIDE DEF OK
  <1> QED BY ZenonT(120), <1>3, <1>10, <1>11, <1>12, <1>14, <1>15, <1>16, <1>17, <1>18, <1>19, <1>20 DEF MoveOf

\* What Moves and OpMoves do to the one they move.
LEMMA MovesOne ==
  ASSUME GoalTypeOK, NEW at
  PROVE  /\ \A r \in Request, k \in Key : Moves(r, k, at) => Moved(goal[r][k], goal'[r][k], at)
         /\ \A c \in OpClient : OpMoves(c, at) => op'[c].at = at /\ op'[c].build = op[c].build
  <1>1. ASSUME NEW r \in Request, NEW k \in Key, Moves(r, k, at)
        PROVE  Moved(goal[r][k], goal'[r][k], at)
    BY SMTT(120), <1>1 DEF GoalTypeOK, GoalState, Moves, Moved
  <1>2. ASSUME NEW c \in OpClient, OpMoves(c, at)
        PROVE  op'[c].at = at /\ op'[c].build = op[c].build
    BY SMTT(120), <1>2 DEF GoalTypeOK, OpMoves
  <1> QED BY ZenonT(120), <1>1, <1>2

\* A goal that writes after a step wrote before, or has just taken the lock.
LEMMA GoalWritesStep ==
  ASSUME GoalTypeOK, [GoalNext]_everything, NEW q \in Request, NEW j \in Key, goal'[q][j].at = "writing"
  PROVE  \/ goal'[q][j] = goal[q][j]
         \/ SubscribeWrites(goal[q][j].build, Owner[q]) /\ goal'[q][j].build = goal[q][j].build
  <1>0. PICK g : g = goal[q][j]
    BY ZenonT(120)
  <1>1. PICK h : h = goal'[q][j]
    BY ZenonT(120)
  <1>2. MoveOf(g, h, q, j) /\ h.at = "writing"
    BY ZenonT(120), <1>0, <1>1, GoalMove
  <1>3. \A x \in {NoGoal, NewGoal(TRUE), NewGoal(FALSE)} : x.at # "writing"
    BY ZenonT(120), FreshGoals
  <1>4. CASE h = g
    BY ZenonT(120), <1>0, <1>1, <1>4
  <1>5. CASE GoalSubscribes(q, j)
    <2>1. CASE Moves(q, j, "waiting")
      BY ZenonT(120), <1>1, <1>2, <2>1, MovesOne DEF Moved
    <2>2. CASE SubscribeWrites(goal[q][j].build, Owner[q]) /\ Moves(q, j, "writing")
      BY ZenonT(120), <2>2, MovesOne DEF Moved
    <2> QED BY ZenonT(120), <1>5, <2>1, <2>2 DEF GoalSubscribes
  <1>6. CASE (RootReports(q, j) \/ RequestLeaves(q, j)) /\ h.at = g.at
    BY ZenonT(120), <1>0, <1>2, <1>6 DEF RootReports, RequestLeaves
  <1>7. CASE h.at = (IF g.listens THEN "subscribing" ELSE "waiting") \/ h.at = (IF g.listens THEN "leaving" ELSE "done")
    BY ZenonT(120), <1>2, <1>7
  <1> QED BY ZenonT(120), <1>2, <1>3, <1>4, <1>5, <1>6, <1>7 DEF MoveOf, Moved

\* A handler that writes after a step wrote before, or has just taken the lock.
LEMMA OpWritesStep ==
  ASSUME GoalTypeOK, [GoalNext]_everything, NEW c \in OpClient, op'[c].at = "writing"
  PROVE  \/ op'[c] = op[c]
         \/ SubscribeWrites(op[c].build, c) /\ op'[c].build = op[c].build
  <1>1. CASE OpSubscribes(c)
    <2>1. CASE OpMoves(c, "waiting")
      BY ZenonT(120), <2>1, MovesOne
    <2>2. CASE SubscribeWrites(op[c].build, c) /\ OpMoves(c, "writing")
      BY ZenonT(120), <2>2, MovesOne
    <2> QED BY ZenonT(120), <1>1, <2>1, <2>2 DEF OpSubscribes
  <1> QED BY ZenonT(120), <1>1, OpMove DEF OpMoveOf

\* The one who frees the lock is the one who wrote.
LEMMA LockFreed ==
  ASSUME GoalTypeOK, GoalsOK, WritersLock, [GoalNext]_everything, lock # None, lock' # lock
  PROVE  /\ \A q \in Request, j \in Key : goal[q][j].at = "writing" => goal'[q][j].at # "writing"
         /\ \A c \in OpClient : op[c].at = "writing" => op'[c].at # "writing"
  <1>0. /\ \A q, r \in Request : Owner[r] = Owner[q] => r = q
        /\ \A q \in Request, c \in OpClient : Owner[q] # c
    BY ZenonT(120), GoalAssumption
  <1>1. ASSUME NEW q \in Request, NEW r \in Request, NEW j \in Key, NEW k \in Key,
               goal[q][j].at = "writing", goal[r][k].at = "writing"
        PROVE  q = r /\ j = k
    <2>1. /\ lock = <<goal[q][j].build, Owner[q]>> /\ lock = <<goal[r][k].build, Owner[r]>>
          /\ lock \in BuildId \X Client
      BY ZenonT(120), <1>1 DEF WritersLock, GoalTypeOK, TypeOK
    <2>2. goal[q][j].build = goal[r][k].build /\ Owner[q] = Owner[r] /\ goal[q][j].build \in BuildId
      BY SMTT(120), <2>1
    <2>3. goal[q][j].build # 0
      BY SMTT(120), <2>2, ConstantsAssumption DEF BuildId
    <2>4. key[goal[q][j].build] = j /\ key[goal[r][k].build] = k
      <3>1. GoalOK(goal[q][j], q, j) /\ GoalOK(goal[r][k], r, k)
        BY ZenonT(120) DEF GoalsOK
      <3> QED BY ZenonT(120), <2>2, <2>3, <3>1 DEF GoalOK
    <2> QED BY ZenonT(120), <1>0, <2>2, <2>4
  <1>2. ASSUME NEW q \in Request, NEW j \in Key, goal[q][j].at = "writing"
        PROVE  lock[2] = Owner[q]
    <2>1. lock = <<goal[q][j].build, Owner[q]>>
      BY ZenonT(120), <1>2 DEF WritersLock
    <2> QED BY SMTT(120), <2>1
  <1>3. ASSUME NEW c \in OpClient, op[c].at = "writing"
        PROVE  lock[2] = c
    <2>1. lock = <<op[c].build, c>>
      BY ZenonT(120), <1>3 DEF WritersLock
    <2> QED BY SMTT(120), <2>1
  <1>4. CASE \E r \in Request, k \in Key, ok \in BOOLEAN : GoalSubscribed(r, k, ok)
    <2>1. PICK r \in Request, k \in Key : goal[r][k].at = "writing" /\ Moves(r, k, "waiting")
      BY ZenonT(120), <1>4 DEF GoalSubscribed
    <2>2. goal'[r][k].at = "waiting"
      BY ZenonT(120), <2>1, MovesOne DEF Moved
    <2> QED BY ZenonT(120), <1>0, <1>1, <1>2, <1>3, <2>1, <2>2
  <1>5. CASE \E c \in OpClient, ok \in BOOLEAN : OpSubscribed(c, ok)
    <2>1. PICK c \in OpClient : op[c].at = "writing" /\ OpMoves(c, "waiting")
      BY ZenonT(120), <1>5 DEF OpSubscribed
    <2>2. op'[c].at = "waiting"
      BY ZenonT(120), <2>1, MovesOne
    <2> QED BY ZenonT(120), <1>0, <1>2, <1>3, <2>1, <2>2
  <1>6. ASSUME NEW r \in Request, HangsUp(r), lock[2] = Owner[r]
        PROVE  /\ \A q \in Request, j \in Key : goal[q][j].at = "writing" => goal'[q][j].at # "writing"
               /\ \A c \in OpClient : op[c].at = "writing" => op'[c].at # "writing"
    <2>2. ASSUME NEW j \in Key, goal[r][j].at = "writing"
          PROVE  goal'[r][j].at = "dead"
      <3>1. goal' = [goal EXCEPT ![r] = Reaped(r)] /\ goal \in [Request -> [Key -> GoalState]]
        BY ZenonT(120), <1>6 DEF HangsUp, GoalTypeOK
      <3>2. goal'[r] = Reaped(r)
        BY SMTT(120), <3>1
      <3>3. goal'[r][j] = [goal[r][j] EXCEPT !.at = "dead"]
        BY SMTT(120), <2>2, <3>2 DEF Reaped
      <3> QED BY SMTT(120), <3>1, <3>3 DEF GoalState
    <2>3. ASSUME NEW q \in Request, NEW j \in Key, goal[q][j].at = "writing"
          PROVE  goal'[q][j].at # "writing"
      <3>1. q = r
        BY ZenonT(120), <1>0, <1>2, <1>6, <2>3
      <3> QED BY ZenonT(120), <2>2, <2>3, <3>1
    <2>4. ASSUME NEW c \in OpClient, op[c].at = "writing"
          PROVE  FALSE
      BY ZenonT(120), <1>0, <1>3, <1>6, <2>4
    <2> QED BY ZenonT(120), <2>3, <2>4
  <1>7. ASSUME NEW c \in OpClient, OpVanishes(c), lock[2] = c
        PROVE  /\ \A q \in Request, j \in Key : goal[q][j].at = "writing" => goal'[q][j].at # "writing"
               /\ \A d \in OpClient : op[d].at = "writing" => op'[d].at # "writing"
    <2>1. op'[c].at = "ended"
      BY ZenonT(120), <1>7, MovesOne DEF OpVanishes
    <2> QED BY ZenonT(120), <1>0, <1>2, <1>3, <1>7, <2>1
  <1> QED BY ZenonT(120), <1>4, <1>5, <1>6, <1>7, LockMove DEF LockMoves

\* A goal or a handler that writes goes on until it frees the lock.
LEMMA WriterStays ==
  ASSUME GoalTypeOK, GoalsOK, WritersLock, [GoalNext]_everything, lock # None, lock' = lock
  PROVE  /\ \A q \in Request, j \in Key : goal[q][j].at = "writing" => goal'[q][j] = goal[q][j]
         /\ \A c \in OpClient : op[c].at = "writing" => op'[c] = op[c]
  <1>1. ASSUME NEW q \in Request, NEW j \in Key, goal[q][j].at = "writing", goal'[q][j] # goal[q][j]
        PROVE  FALSE
    <2>0. PICK g : g = goal[q][j]
      BY ZenonT(120)
    <2>1. PICK h : h = goal'[q][j]
      BY ZenonT(120)
    <2>2. MoveOf(g, h, q, j) /\ h # g /\ g.at = "writing"
      BY ZenonT(120), <1>1, <2>0, <2>1, GoalMove
    <2>3. req[q] # "new" /\ lock = <<g.build, Owner[q]>>
      BY ZenonT(120), <1>1, <2>0 DEF GoalsOK, GoalOK, WritersLock
    <2>4. ~HangsUp(q)
      <3>1. lock[2] = Owner[q]
        BY SMTT(120), <2>3
      <3> QED BY ZenonT(120), <3>1 DEF HangsUp, FreesLock
    <2>5. ~RequestReaps(q)
      BY ZenonT(120) DEF RequestReaps, PruneAfterRelease, Prune
    <2>6. \A ok \in BOOLEAN : ~GoalSubscribed(q, j, ok)
      BY ZenonT(120) DEF GoalSubscribed, SubscribeEnds
    <2>7. ~RequestStarts(q) /\ ~GoalRealisesInputs(q, j) /\ g.at # "none"
      BY ZenonT(120), <2>0, <2>2, <2>3 DEF RequestStarts, GoalRealisesInputs
    <2>8. /\ ~GoalFindsOutputs(q, j) /\ ~GoalRefuses(q, j) /\ ~GoalEnqueues(q, j) /\ ~GoalSubscribes(q, j)
          /\ ~GoalWakes(q, j) /\ ~GoalLeaves(q, j) /\ ~RootReports(q, j) /\ ~RequestLeaves(q, j)
      BY ZenonT(120), <2>0, <2>2 DEF GoalFindsOutputs, GoalRefuses, InputsDone, GoalEnqueues, GoalSubscribes, GoalWakes,
         GoalLeaves, RootReports, RequestLeaves
    <2> QED BY ZenonT(120), <2>2, <2>4, <2>5, <2>6, <2>7, <2>8 DEF MoveOf
  <1>2. ASSUME NEW c \in OpClient, op[c].at = "writing", op'[c] # op[c]
        PROVE  FALSE
    <2>1. lock = <<op[c].build, c>>
      BY ZenonT(120), <1>2 DEF WritersLock
    <2>2. ~OpVanishes(c)
      <3>1. lock[2] = c
        BY SMTT(120), <2>1
      <3> QED BY ZenonT(120), <3>1 DEF OpVanishes, FreesLock
    <2>3. \A ok \in BOOLEAN : ~OpSubscribed(c, ok)
      BY ZenonT(120) DEF OpSubscribed, SubscribeEnds
    <2>4. ~OpEnqueues(c) /\ ~OpSubscribes(c) /\ ~OpStopsWaiting(c) /\ ~OpLeaves(c) /\ ~OpPrunes(c)
      BY ZenonT(120), <1>2 DEF OpEnqueues, OpSubscribes, OpStopsWaiting, OpLeaves, OpPrunes
    <2> QED BY ZenonT(120), <1>2, <2>2, <2>3, <2>4, OpMove DEF OpMoveOf
  <1> QED BY ZenonT(120), <1>1, <1>2

\* One write at a time, and the lock says whose.
LEMMA WritersLockStep ==
  ASSUME GoalTypeOK, GoalsOK, WritersLock, [GoalNext]_everything
  PROVE  WritersLock'
  <1>0. by_id \subseteq BuildId /\ Owner \in [Request -> Client] /\ OpClient \subseteq Client /\ None \notin BuildId \X Client
    BY SMTT(120), GoalAssumption, ConstantsAssumption DEF GoalTypeOK, TypeOK, OpClient, BuildId
  <1>1. ASSUME NEW x, NEW c \in Client, SubscribeWrites(x, c)
        PROVE  lock' # None /\ lock' = <<x, c>>
    <2>1. x \in BuildId /\ lock' = <<x, c>>
      BY ZenonT(120), <1>0, <1>1 DEF SubscribeWrites
    <2> QED BY SMTT(120), <1>0, <2>1
  <1>2. ASSUME NEW q \in Request, NEW j \in Key, goal'[q][j].at = "writing"
        PROVE  lock' # None /\ lock' = <<goal'[q][j].build, Owner[q]>>
    <2>1. CASE goal'[q][j] = goal[q][j]
      <3>1. lock # None /\ lock = <<goal[q][j].build, Owner[q]>> /\ goal[q][j].at = "writing"
        BY ZenonT(120), <1>2, <2>1 DEF WritersLock
      <3>2. lock' = lock
        BY ZenonT(120), <1>2, <3>1, LockFreed
      <3> QED BY ZenonT(120), <2>1, <3>1, <3>2
    <2>2. CASE SubscribeWrites(goal[q][j].build, Owner[q]) /\ goal'[q][j].build = goal[q][j].build
      <3>1. Owner[q] \in Client
        BY SMTT(120), <1>0
      <3> QED BY ZenonT(120), <1>1, <2>2, <3>1
    <2> QED BY ZenonT(120), <1>2, <2>1, <2>2, GoalWritesStep
  <1>3. ASSUME NEW c \in OpClient, op'[c].at = "writing"
        PROVE  lock' # None /\ lock' = <<op'[c].build, c>>
    <2>1. CASE op'[c] = op[c]
      <3>1. lock # None /\ lock = <<op[c].build, c>> /\ op[c].at = "writing"
        BY ZenonT(120), <1>3, <2>1 DEF WritersLock
      <3>2. lock' = lock
        BY ZenonT(120), <1>3, <3>1, LockFreed
      <3> QED BY ZenonT(120), <2>1, <3>1, <3>2
    <2>2. CASE SubscribeWrites(op[c].build, c) /\ op'[c].build = op[c].build
      <3>1. c \in Client
        BY ZenonT(120), <1>0
      <3> QED BY ZenonT(120), <1>1, <2>2, <3>1
    <2> QED BY ZenonT(120), <1>3, <2>1, <2>2, OpWritesStep
  <1>4. ASSUME lock' # None
        PROVE  Writes(lock[1], lock[2])'
    <2>1. CASE lock' = lock
      <3>1. Writes(lock[1], lock[2])
        BY ZenonT(120), <1>4, <2>1 DEF WritersLock
      <3>2. /\ \A q \in Request, j \in Key : goal[q][j].at = "writing" => goal'[q][j] = goal[q][j]
            /\ \A c \in OpClient : op[c].at = "writing" => op'[c] = op[c]
        BY ZenonT(120), <1>4, <2>1, WriterStays
      <3>3. CASE lock[2] \in OpClient /\ op[lock[2]].at = "writing" /\ op[lock[2]].build = lock[1]
        BY SMTT(120), <2>1, <3>2, <3>3 DEF Writes
      <3>4. ASSUME NEW r \in Request, NEW k \in Key,
                   lock[2] = Owner[r] /\ goal[r][k].at = "writing" /\ goal[r][k].build = lock[1]
            PROVE  Writes(lock[1], lock[2])'
        <4>1. goal'[r][k] = goal[r][k]
          BY ZenonT(120), <3>2, <3>4
        <4> QED BY SMTT(120), <2>1, <3>4, <4>1 DEF Writes
      <3> QED BY ZenonT(120), <3>1, <3>3, <3>4 DEF Writes
    <2>2. ASSUME NEW r \in Request, NEW k \in Key, Moves(r, k, "writing"), lock' = <<goal[r][k].build, Owner[r]>>
          PROVE  Writes(lock[1], lock[2])'
      <3>1. lock'[1] = goal[r][k].build /\ lock'[2] = Owner[r]
        BY SMTT(120), <2>2
      <3>2. goal'[r][k].at = "writing" /\ goal'[r][k].build = goal[r][k].build
        BY ZenonT(120), <2>2, MovesOne DEF Moved
      <3> QED BY ZenonT(120), <3>1, <3>2 DEF Writes
    <2>3. ASSUME NEW c \in OpClient, OpMoves(c, "writing"), lock' = <<op[c].build, c>>
          PROVE  Writes(lock[1], lock[2])'
      <3>1. lock'[1] = op[c].build /\ lock'[2] = c
        BY SMTT(120), <2>3
      <3>2. op'[c].at = "writing" /\ op'[c].build = op[c].build
        BY ZenonT(120), <2>3, MovesOne
      <3> QED BY ZenonT(120), <3>1, <3>2 DEF Writes
    <2> QED BY ZenonT(120), <1>4, <2>1, <2>2, <2>3, LockMove DEF LockMoves
  <1> QED BY ZenonT(120), <1>2, <1>3, <1>4 DEF WritersLock

\* Who streams a build goes on, or has just taken its client out.
LEMMA StreamerStays ==
  ASSUME GoalTypeOK, GoalsOK, [GoalNext]_everything, NEW b \in BuildId, NEW c \in Client,
         Streams(b, c), subs[b][c] = 1, b \in by_id, subs'[b][c] # 0
  PROVE  Streams(b, c)'
  <1>0. ~Unsubscribes(b, c)
    BY ZenonT(120), StreamSubs DEF GoalTypeOK
  <1>1. ASSUME NEW q \in Request, NEW j \in Key, c = Owner[q], StreamsFor(goal[q][j], b)
        PROVE  StreamsFor(goal'[q][j], b)
    <2>0. PICK g : g = goal[q][j]
      BY ZenonT(120)
    <2>1. PICK h : h = goal'[q][j]
      BY ZenonT(120)
    <2>2. MoveOf(g, h, q, j) /\ StreamsFor(g, b) /\ req[q] # "new"
      <3>1. g.at # "none"
        BY ZenonT(120), <1>1, <2>0 DEF StreamsFor
      <3> QED BY ZenonT(120), <1>1, <2>0, <2>1, <3>1, GoalMove DEF GoalsOK, GoalOK
    <2>3. g.build = b /\ g.root # "left" /\ g.at \in {"leaving", "dead", "waiting"} /\ (g.at = "waiting" => g.listens)
      BY ZenonT(120), <2>2 DEF StreamsFor
    <2>4. ~GoalLeaves(q, j) /\ ~RequestLeaves(q, j)
      BY ZenonT(120), <1>0, <1>1, <2>0, <2>3 DEF GoalLeaves, RequestLeaves
    <2>5. ~RequestStarts(q) /\ ~GoalRealisesInputs(q, j) /\ g.at # "none"
      BY ZenonT(120), <2>0, <2>2, <2>3 DEF RequestStarts, GoalRealisesInputs
    <2>6. /\ ~GoalFindsOutputs(q, j) /\ ~GoalRefuses(q, j) /\ ~GoalEnqueues(q, j) /\ ~GoalSubscribes(q, j)
          /\ ~RootReports(q, j) /\ \A ok \in BOOLEAN : ~GoalSubscribed(q, j, ok)
      BY ZenonT(120), <2>0, <2>3 DEF GoalFindsOutputs, GoalRefuses, InputsDone, GoalEnqueues, GoalSubscribes, RootReports,
         GoalSubscribed
    <2>7. ASSUME GoalWakes(q, j), h.at = (IF g.listens THEN "leaving" ELSE "done"), h.build = g.build, h.root = g.root
          PROVE  StreamsFor(h, b)
      <3>1. g.listens
        BY ZenonT(120), <2>0, <2>3, <2>7 DEF GoalWakes
      <3> QED BY ZenonT(120), <2>3, <2>7, <3>1 DEF StreamsFor
    <2>8. ASSUME Moved(g, h, "dead")
          PROVE  StreamsFor(h, b)
      BY ZenonT(120), <2>3, <2>8 DEF StreamsFor, Moved
    <2>9. StreamsFor(h, b)
      BY ZenonT(120), <2>2, <2>4, <2>5, <2>6, <2>7, <2>8 DEF MoveOf
    <2> QED BY ZenonT(120), <2>1, <2>9
  <1>2. ASSUME c \in OpClient, op[c].build = b, op[c].at \in {"waiting", "leaving"}
        PROVE  op'[c].build = b /\ op'[c].at \in {"waiting", "leaving"}
    <2>1. ~OpLeaves(c)
      BY ZenonT(120), <1>0, <1>2 DEF OpLeaves
    <2>2. /\ ~OpEnqueues(c) /\ ~OpSubscribes(c) /\ ~OpVanishes(c) /\ ~OpPrunes(c)
          /\ \A ok \in BOOLEAN : ~OpSubscribed(c, ok)
      BY ZenonT(120), <1>2 DEF OpEnqueues, OpSubscribes, OpVanishes, OpPrunes, OpSubscribed
    <2> QED BY ZenonT(120), <1>2, <2>1, <2>2, OpMove DEF OpMoveOf
  <1>3. CASE \E r \in Request, k \in Key : c = Owner[r] /\ StreamsFor(goal[r][k], b)
    <2>1. PICK r \in Request, k \in Key : c = Owner[r] /\ StreamsFor(goal[r][k], b)
      BY ZenonT(120), <1>3
    <2>2. StreamsFor(goal'[r][k], b)
      BY ZenonT(120), <1>1, <2>1
    <2> QED BY SMTT(120), <2>1, <2>2 DEF Streams, StreamsFor
  <1>4. CASE c \in OpClient /\ op[c].build = b /\ op[c].at \in {"waiting", "leaving"}
    <2>1. op'[c].build = b /\ op'[c].at \in {"waiting", "leaving"}
      BY ZenonT(120), <1>2, <1>4
    <2> QED BY ZenonT(120), <1>4, <2>1 DEF Streams
  <1> QED BY ZenonT(120), <1>3, <1>4 DEF Streams

\* A subscribe adds the client of a goal or a handler that had none.
LEMMA NewStreamer ==
  ASSUME GoalTypeOK, Inv, GoalsOK, WritersLock, StreamsAreOwned, [GoalNext]_everything,
         NEW b \in BuildId, NEW c \in Client, Subscribed(b, c)
  PROVE  subs[b][c] = 0 /\ Streams(b, c)'
  <1>0. /\ \A q, r \in Request : Owner[r] = Owner[q] => r = q
        /\ \A q \in Request : Owner[q] \notin OpClient
        /\ b # 0 /\ subs[b][c] \in Nat
    <2>1. b # 0
      BY SMTT(120), ConstantsAssumption DEF BuildId
    <2>2. subs[b][c] \in Nat
      BY SMTT(120) DEF GoalTypeOK, TypeOK
    <2> QED BY ZenonT(120), <2>1, <2>2, GoalAssumption
  <1>1. ASSUME NEW r \in Request, NEW k \in Key, c = Owner[r], b = goal[r][k].build,
               goal[r][k].at \in {"subscribing", "writing"}, Moves(r, k, "waiting")
        PROVE  /\ goal[r][k].at = "subscribing" => subs[b][c] = 0
               /\ Streams(b, c)'
    <2>1. goal[r][k].listens /\ goal[r][k].root # "left" /\ key[b] = k
      <3>1. GoalOK(goal[r][k], r, k)
        BY ZenonT(120) DEF GoalsOK
      <3> QED BY ZenonT(120), <1>0, <1>1, <3>1 DEF GoalOK
    <2>2. Moved(goal[r][k], goal'[r][k], "waiting")
      BY ZenonT(120), <1>1, MovesOne
    <2>3. StreamsFor(goal'[r][k], b)
      BY ZenonT(120), <1>1, <2>1, <2>2 DEF Moved, StreamsFor
    <2>4. ASSUME Streams(b, c) PROVE FALSE
      <3>1. PICK q \in Request, j \in Key : c = Owner[q] /\ StreamsFor(goal[q][j], b)
        BY ZenonT(120), <1>0, <1>1, <2>4 DEF Streams
      <3>2. q = r /\ goal[q][j].build = b
        BY ZenonT(120), <1>0, <1>1, <3>1 DEF StreamsFor
      <3>3. GoalOK(goal[q][j], q, j)
        BY ZenonT(120) DEF GoalsOK
      <3>4. j = k
        BY ZenonT(120), <1>0, <2>1, <3>2, <3>3 DEF GoalOK
      <3>5. StreamsFor(goal[r][k], b)
        BY ZenonT(120), <3>1, <3>2, <3>4
      <3> QED BY ZenonT(120), <1>1, <3>5 DEF StreamsFor
    <2>5. subs[b][c] = 0
      BY SMTT(120), <1>0, <2>4 DEF StreamsAreOwned
    <2>6. Streams(b, c)'
      BY SMTT(120), <1>1, <2>3 DEF Streams, StreamsFor
    <2> QED BY ZenonT(120), <2>5, <2>6
  <1>2. ASSUME c \in OpClient, b = op[c].build, op[c].at \in {"subscribing", "writing"}, OpMoves(c, "waiting")
        PROVE  /\ op[c].at = "subscribing" => subs[b][c] = 0
               /\ Streams(b, c)'
    <2>1. op'[c].at = "waiting" /\ op'[c].build = op[c].build
      BY ZenonT(120), <1>2, MovesOne
    <2>2. ~Streams(b, c)
      BY ZenonT(120), <1>0, <1>2 DEF Streams
    <2>3. subs[b][c] = 0
      BY SMTT(120), <1>0, <2>2 DEF StreamsAreOwned
    <2> QED BY ZenonT(120), <1>2, <2>1, <2>3 DEF Streams
  <1>3. ASSUME NEW r \in Request, NEW k \in Key, c = Owner[r], b = goal[r][k].build,
               GoalSubscribes(r, k), Moves(r, k, "waiting")
        PROVE  subs[b][c] = 0 /\ Streams(b, c)'
    <2>1. goal[r][k].at = "subscribing"
      BY ZenonT(120), <1>3 DEF GoalSubscribes
    <2> QED BY ZenonT(120), <1>1, <1>3, <2>1
  <1>4. ASSUME c \in OpClient, b = op[c].build, OpSubscribes(c), OpMoves(c, "waiting")
        PROVE  subs[b][c] = 0 /\ Streams(b, c)'
    <2>1. op[c].at = "subscribing"
      BY ZenonT(120), <1>4 DEF OpSubscribes
    <2> QED BY ZenonT(120), <1>2, <1>4, <2>1
  <1>5. ASSUME lock = <<b, c>>, lock # None
        PROVE  subs[b][c] = 0
    BY SMTT(120), <1>5 DEF Inv, StreamedIsQueued
  <1>6. ASSUME lock = <<b, c>>, NEW r \in Request, NEW k \in Key, NEW ok \in BOOLEAN, GoalSubscribed(r, k, ok)
        PROVE  subs[b][c] = 0 /\ Streams(b, c)'
    <2>1. goal[r][k].at = "writing" /\ Moves(r, k, "waiting") /\ lock # None
      BY ZenonT(120), <1>6 DEF GoalSubscribed, SubscribeEnds
    <2>2. lock = <<goal[r][k].build, Owner[r]>>
      BY ZenonT(120), <2>1 DEF WritersLock
    <2>3. b = goal[r][k].build /\ c = Owner[r]
      BY SMTT(120), <1>6, <2>2
    <2> QED BY ZenonT(120), <1>1, <1>5, <1>6, <2>1, <2>3
  <1>7. ASSUME lock = <<b, c>>, NEW d \in OpClient, NEW ok \in BOOLEAN, OpSubscribed(d, ok)
        PROVE  subs[b][c] = 0 /\ Streams(b, c)'
    <2>1. op[d].at = "writing" /\ OpMoves(d, "waiting") /\ lock # None
      BY ZenonT(120), <1>7 DEF OpSubscribed, SubscribeEnds
    <2>2. lock = <<op[d].build, d>>
      BY ZenonT(120), <2>1 DEF WritersLock
    <2>3. b = op[d].build /\ c = d
      BY SMTT(120), <1>7, <2>2
    <2> QED BY ZenonT(120), <1>2, <1>5, <1>7, <2>1, <2>3
  <1> QED BY ZenonT(120), <1>3, <1>4, <1>6, <1>7 DEF Subscribed

\* Every subscription has one goal or one handler that takes it back.
LEMMA StreamsAreOwnedStep ==
  ASSUME GoalTypeOK, Inv, GoalsOK, WritersLock, StreamsAreOwned, [GoalNext]_everything
  PROVE  StreamsAreOwned'
  <1> SUFFICES ASSUME NEW b \in BuildId, NEW c \in Client, subs'[b][c] > 0
               PROVE  subs'[b][c] = 1 /\ Streams(b, c)'
    BY ZenonT(120) DEF StreamsAreOwned
  <1>0. subs[b][c] \in Nat
    BY SMTT(120) DEF GoalTypeOK, TypeOK
  <1>1. CASE Subscribed(b, c) /\ subs'[b][c] \in {1, subs[b][c] + 1}
    <2>1. subs[b][c] = 0 /\ Streams(b, c)'
      BY ZenonT(120), <1>1, NewStreamer
    <2> QED BY SMTT(120), <1>1, <2>1
  <1>2. CASE subs'[b][c] = subs[b][c]
    <2>1. subs[b][c] = 1 /\ Streams(b, c) /\ subs'[b][c] # 0
      BY SMTT(120), <1>0, <1>2 DEF StreamsAreOwned
    <2>2. b \in by_id
      BY SMTT(120), <2>1 DEF Inv, StreamedIsQueued, Subscribers
    <2> QED BY ZenonT(120), <1>2, <2>1, <2>2, StreamerStays
  <1>3. CASE subs[b][c] > 0 /\ subs'[b][c] = subs[b][c] - 1
    BY SMTT(120), <1>0, <1>3 DEF StreamsAreOwned
  <1>4. SubsMoves(b, c)
    BY ZenonT(120), SubsMove
  <1> QED BY ZenonT(120), <1>1, <1>2, <1>3, <1>4 DEF SubsMoves

\* The streams are owned in every state the callers reach.
THEOREM StreamsStayOwned == GoalSpec => []StreamInv
  <1>1. GoalInit => StreamInv
    <2> SUFFICES ASSUME GoalInit PROVE StreamInv
      BY ZenonT(120)
    <2>1. \A r \in Request, k \in Key : goal[r][k] = NoGoal
      BY ZenonT(120) DEF GoalInit
    <2>2. \A c \in OpClient : op[c].at = "new"
      BY SMTT(120) DEF GoalInit
    <2>3. lock = None /\ \A b \in BuildId, c \in Client : subs[b][c] = 0
      BY ZenonT(120) DEF GoalInit, Init
    <2>4. NoGoal.at = "none" /\ NoGoal.build = 0 /\ NoGoal.root = "open"
      BY ZenonT(120), FreshGoals
    <2>5. GoalsOK
      BY ZenonT(120), <2>1, <2>4 DEF GoalsOK, GoalOK
    <2>6. WritersLock
      BY ZenonT(120), <2>1, <2>2, <2>3, <2>4 DEF WritersLock
    <2>7. StreamsAreOwned
      BY SMTT(120), <2>3 DEF StreamsAreOwned
    <2> QED BY ZenonT(120), <2>5, <2>6, <2>7 DEF StreamInv
  <1>2. ASSUME GoalTypeOK, Inv, Inv', StreamInv, [GoalNext]_everything
        PROVE  StreamInv'
    BY ZenonT(120), <1>2, GoalsOKStep, WritersLockStep, StreamsAreOwnedStep DEF StreamInv
  <1>3. GoalSpec => []Inv
    BY GoalsCallTheQueue, Invariance, PTL DEF CallsTheQueue
  <1> QED BY <1>1, <1>2, <1>3, GoalTypeCorrect, PTL DEF GoalSpec

\* "A goal the request left behind must go quiet": the client of a request
\* that has answered is in the subscriber list of no root it left.  Only a
\* goal that is not left streams for its request, and one build has one goal
\* of the request.
THEOREM LeftGoalsStayQuiet == GoalSpec => []LeftGoalsAreQuiet
  <1>1. ASSUME GoalTypeOK, StreamInv
        PROVE  LeftGoalsAreQuiet
    <2> SUFFICES ASSUME NEW r \in Request, NEW k \in Key, goal[r][k].root = "left", goal[r][k].build # 0
                 PROVE  subs[goal[r][k].build][Owner[r]] = 0
      BY ZenonT(120) DEF LeftGoalsAreQuiet
    <2>1. PICK b : b = goal[r][k].build
      BY ZenonT(120)
    <2>2. PICK c : c = Owner[r]
      BY ZenonT(120)
    <2>3. b \in BuildId /\ c \in Client /\ subs[b][c] \in Nat
      <3>1. b \in BuildId
        BY SMTT(120), <1>1, <2>1 DEF GoalTypeOK, GoalState
      <3>2. c \in Client
        BY SMTT(120), <2>2, GoalAssumption
      <3> QED BY SMTT(120), <1>1, <3>1, <3>2 DEF GoalTypeOK, TypeOK
    <2>4. ASSUME Streams(b, c) PROVE FALSE
      <3>1. c \notin OpClient
        BY ZenonT(120), <2>2, GoalAssumption
      <3>2. PICK q \in Request, j \in Key : c = Owner[q] /\ StreamsFor(goal[q][j], b)
        BY ZenonT(120), <2>4, <3>1 DEF Streams
      <3>3. q = r
        BY ZenonT(120), <2>2, <3>2, GoalAssumption
      <3>4. GoalOK(goal[r][j], r, j) /\ GoalOK(goal[r][k], r, k)
        BY ZenonT(120), <1>1 DEF StreamInv, GoalsOK
      <3>5. goal[r][j].build = b /\ goal[r][j].root # "left"
        BY ZenonT(120), <3>2, <3>3 DEF StreamsFor
      <3>6. j = k
        BY ZenonT(120), <2>1, <3>4, <3>5 DEF GoalOK
      <3> QED BY ZenonT(120), <3>5, <3>6
    <2>5. subs[b][c] = 0
      BY SMTT(120), <1>1, <2>3, <2>4 DEF StreamInv, StreamsAreOwned
    <2> QED BY ZenonT(120), <2>1, <2>2, <2>5
  <1> QED BY <1>1, GoalTypeCorrect, StreamsStayOwned, PTL

-----------------------------------------------------------------------------
(* The queue drains, where every request keeps going, no client hangs up    *)
(* and no derivation needs itself.                                          *)

Patient == KeepsGoing = Request /\ Impatient = {}

\* Height is the length of a path to a derivation from one nobody needs.
Acyclic(Height) == Height \in [Key -> Nat] /\ \A k \in Key : \A i \in Needs[k] : Height[k] < Height[i]

\* The request, or a goal of it, waits for the goal of k.
Awaited(r, k) == k \in Roots[r] \/ \E j \in Key : k \in Needs[j] /\ goal[r][j].at = "inputs"

GoalDrains(r, k) ==
    /\ goal[r][k].at # "dead"
    /\ goal[r][k].root = "open" \/ goal[r][k].at = "done"
    /\ goal[r][k].at \notin {"none", "done"} => req[r] = "running" /\ Awaited(r, k)
    /\ k \in Roots[r] => req[r] = "new" \/ goal[r][k].at # "none"

RequestsDrain ==
    /\ \A r \in Request : req[r] # "stopping"
    /\ \A r \in Request, k \in Key : GoalDrains(r, k)

\* A hold is given back by the request that has it.
HoldsDrain == \A r \in Request, b \in BuildId : r \in holders[b] => req[r] \in {"running", "answered"}

\* A build without an answer that a handler asked for has that handler.
HandlersDrain ==
    \A b \in BuildId : ~IsDone(b) /\ standalone[b] > 0 =>
        \E c \in OpClient : op[c].build = b /\ op[c].at \in {"subscribing", "writing", "waiting"}

\* A build in the queue has somebody who will prune it.
BuildsDrain ==
    \A b \in by_id : \/ holders[b] # {}
                     \/ \E r \in Request : req[r] = "released"
                     \/ \E c \in OpClient : op[c].at \notin {"new", "ended"}

DrainInv == RequestsDrain /\ HoldsDrain /\ HandlersDrain /\ BuildsDrain

\* When the roots of a request are done, its inputs are: follow who waits for
\* a goal that is not done up to a root.
LEMMA RootsAreLast ==
  ASSUME RequestsDrain, NEW Height, Acyclic(Height), NEW r \in Request,
         \A k \in Roots[r] : goal[r][k].root # "open"
  PROVE  \A k \in Key : goal[r][k].at \in {"none", "done"}
  <1> DEFINE busy == {k \in Key : goal[r][k].at \notin {"none", "done"}}
             heights == {Height[k] : k \in busy}
  <1> SUFFICES ASSUME busy # {} PROVE FALSE
    BY ZenonT(120)
  <1>1. heights \subseteq Nat /\ heights # {}
    BY SMTT(120) DEF Acyclic
  <1>2. PICK n \in heights : \A m \in heights : ~(<<m, n>> \in OpToRel(<, Nat))
    <2> HIDE DEF heights
    <2> QED BY ZenonT(120), <1>1, NatLessThanWellFounded, WFMin
  <1>3. \A m \in heights : ~(m < n)
    BY ZenonT(120), <1>1, <1>2 DEF OpToRel
  <1>4. PICK k \in busy : Height[k] = n
    BY ZenonT(120), <1>2
  <1>5. k \in Key /\ goal[r][k].at \notin {"none", "done"} /\ GoalDrains(r, k)
    BY ZenonT(120) DEF RequestsDrain
  <1>6. k \notin Roots[r]
    BY ZenonT(120), <1>5 DEF GoalDrains
  <1>7. PICK j \in Key : k \in Needs[j] /\ goal[r][j].at = "inputs"
    BY ZenonT(120), <1>5, <1>6 DEF GoalDrains, Awaited
  <1>8. Height[j] < Height[k]
    BY ZenonT(120), <1>7 DEF Acyclic
  <1>9. Height[j] \in heights
    BY ZenonT(120), <1>7
  <1> QED BY ZenonT(120), <1>3, <1>4, <1>8, <1>9

\* What a patient request never does.
LEMMA NeverStops ==
  ASSUME Patient, RequestsDrain, NEW Height, Acyclic(Height), NEW r \in Request
  PROVE  /\ ~HangsUp(r)
         /\ \A k \in Key : ~RequestLeaves(r, k)
         /\ RequestAnswers(r) => \A k \in Key : goal[r][k].at \in {"none", "done"}
         /\ RequestReaps(r) => \A k \in Key : goal[r][k].at \in {"none", "done"}
  <1>1. ~HangsUp(r)
    BY ZenonT(120) DEF HangsUp, Patient
  <1>2. \A k \in Key : ~RequestLeaves(r, k)
    BY ZenonT(120) DEF RequestLeaves, RequestsDrain
  <1>3. ASSUME RequestAnswers(r)
        PROVE  \A k \in Key : goal[r][k].at \in {"none", "done"}
    BY ZenonT(120), <1>3, RootsAreLast DEF RequestAnswers
  <1>4. ASSUME RequestReaps(r), NEW k \in Key
        PROVE  goal[r][k].at \in {"none", "done"}
    BY ZenonT(120), <1>4 DEF RequestReaps, RequestsDrain, GoalDrains
  <1> QED BY ZenonT(120), <1>1, <1>2, <1>3, <1>4

\* Who waits for a goal waits until it is done.
LEMMA StillAwaited ==
  ASSUME GoalTypeOK, Patient, RequestsDrain, NEW Height, Acyclic(Height), [GoalNext]_everything,
         NEW q \in Request, NEW j \in Key, goal[q][j].at \notin {"none", "done"}
  PROVE  req'[q] = "running" /\ Awaited(q, j)'
  <1>0. req[q] = "running" /\ Awaited(q, j)
    BY ZenonT(120) DEF RequestsDrain, GoalDrains
  <1>1. req'[q] = "running"
    <2>1. ~HangsUp(q) /\ ~RequestAnswers(q) /\ q \in KeepsGoing
      BY ZenonT(120), NeverStops DEF Patient
    <2> QED BY ZenonT(120), <1>0, <2>1, RequestMove
  <1>2. ASSUME NEW k \in Key, j \in Needs[k], goal[q][k].at = "inputs"
        PROVE  goal'[q][k].at = "inputs"
    <2>0. PICK g : g = goal[q][k]
      BY ZenonT(120)
    <2>1. PICK h : h = goal'[q][k]
      BY ZenonT(120)
    <2>2. MoveOf(g, h, q, k) /\ g.at = "inputs"
      BY ZenonT(120), <1>2, <2>0, <2>1, GoalMove
    <2>3. ~HangsUp(q) /\ ~RequestReaps(q)
      BY ZenonT(120), NeverStops
    <2>4. ~GoalRefuses(q, k) /\ ~GoalEnqueues(q, k)
      BY ZenonT(120), <1>2 DEF GoalRefuses, GoalEnqueues, InputsDone
    <2>5. ~RequestStarts(q) /\ ~RequestLeaves(q, k)
      BY ZenonT(120), <1>0, NeverStops DEF RequestStarts
    <2>6. /\ ~GoalFindsOutputs(q, k) /\ ~GoalSubscribes(q, k) /\ \A ok \in BOOLEAN : ~GoalSubscribed(q, k, ok)
          /\ ~GoalWakes(q, k) /\ ~GoalLeaves(q, k) /\ ~RootReports(q, k)
      BY ZenonT(120), <1>2 DEF GoalFindsOutputs, GoalSubscribes, GoalSubscribed, GoalWakes, GoalLeaves, RootReports
    <2>7. h.at = "inputs"
      BY ZenonT(120), <2>2, <2>3, <2>4, <2>5, <2>6 DEF MoveOf, Moved
    <2> QED BY ZenonT(120), <2>1, <2>7
  <1> QED BY ZenonT(120), <1>0, <1>1, <1>2 DEF Awaited

\* The goals that a start and a realisation of inputs make.
LEMMA NewGoals ==
  ASSUME GoalTypeOK, NEW q \in Request, NEW j \in Key
  PROVE  /\ RequestStarts(q) => goal'[q][j] = IF j \in Roots[q] THEN NewGoal(TRUE) ELSE NoGoal
         /\ GoalRealisesInputs(q, j) => goal[q][j].at = "preparing" /\ goal'[q][j].at = "inputs"
  <1>0. goal \in [Request -> [Key -> GoalState]]
    BY ZenonT(120) DEF GoalTypeOK
  <1>1. ASSUME RequestStarts(q)
        PROVE  goal'[q][j] = IF j \in Roots[q] THEN NewGoal(TRUE) ELSE NoGoal
    BY SMTT(120), <1>0, <1>1 DEF RequestStarts
  <1>2. ASSUME GoalRealisesInputs(q, j)
        PROVE  goal[q][j].at = "preparing" /\ goal'[q][j].at = "inputs"
    <2>1. goal[q][j].at = "preparing" /\ goal'[q][j] = [goal[q][j] EXCEPT !.at = "inputs"]
      BY ZenonT(120), <1>0, <1>2 DEF GoalRealisesInputs
    <2> QED BY SMTT(120), <1>0, <2>1 DEF GoalState
  <1> QED BY ZenonT(120), <1>1, <1>2

\* Every step keeps a request's goals awaited, until they are done.
LEMMA RequestsDrainStep ==
  ASSUME GoalTypeOK, GoalsOK, Patient, RequestsDrain, NEW Height, Acyclic(Height), [GoalNext]_everything
  PROVE  RequestsDrain'
  <1>1. ASSUME NEW q \in Request
        PROVE  req'[q] # "stopping"
    BY ZenonT(120), RequestMove DEF RequestsDrain, Patient
  <1>2. ASSUME NEW q \in Request, NEW j \in Key
        PROVE  GoalDrains(q, j)'
    <2>0. PICK g : g = goal[q][j]
      BY ZenonT(120)
    <2>1. PICK h : h = goal'[q][j]
      BY ZenonT(120)
    <2>2. MoveOf(g, h, q, j)
      BY ZenonT(120), <2>0, <2>1, GoalMove
    <2>3. /\ g.at # "dead"
          /\ g.root = "open" \/ g.at = "done"
          /\ j \in Roots[q] => req[q] = "new" \/ g.at # "none"
          /\ req[q] = "new" => g.at = "none"
      <3>1. GoalDrains(q, j) /\ GoalOK(g, q, j)
        BY ZenonT(120), <2>0 DEF RequestsDrain, GoalsOK
      <3> QED BY ZenonT(120), <2>0, <3>1 DEF GoalDrains, GoalOK
    <2>4. /\ ~HangsUp(q) /\ ~RequestLeaves(q, j)
          /\ RequestReaps(q) => g.at \in {"none", "done"}
      BY ZenonT(120), <2>0, NeverStops
    <2>5. /\ NoGoal.at = "none" /\ NoGoal.root = "open"
          /\ \A b \in BOOLEAN : NewGoal(b).at = "preparing" /\ NewGoal(b).root = "open"
      BY ZenonT(120), FreshGoals
    <2>6. CASE g.at \notin {"none", "done"}
      <3>1. req'[q] = "running" /\ Awaited(q, j)'
        BY ZenonT(120), <2>0, <2>6, StillAwaited
      <3>2. ~RequestStarts(q) /\ ~RootReports(q, j)
        BY ZenonT(120), <2>0, <2>3, <2>6 DEF RequestStarts, RootReports
      <3>3. h.root = "open" /\ h.at \notin {"none", "dead"}
        <4>1. CASE h = g
          BY ZenonT(120), <2>3, <2>6, <4>1
        <4>2. ASSUME NEW at \in {"inputs", "done", "waiting", "writing"}, Moved(g, h, at)
              PROVE  h.root = "open" /\ h.at \notin {"none", "dead"}
          BY ZenonT(120), <2>3, <2>6, <4>2 DEF Moved
        <4>3. ASSUME h.at \in {"subscribing", "waiting", "leaving", "done"}, h.root = g.root
              PROVE  h.root = "open" /\ h.at \notin {"none", "dead"}
          BY SMTT(120), <2>3, <2>6, <4>3
        <4>4. \/ h = g
              \/ \E at \in {"inputs", "done", "waiting", "writing"} : Moved(g, h, at)
              \/ h.at \in {"subscribing", "waiting", "leaving", "done"} /\ h.root = g.root
          BY ZenonT(120), <2>2, <2>4, <2>6, <3>2 DEF MoveOf
        <4> QED BY ZenonT(120), <4>1, <4>2, <4>3, <4>4
      <3> QED BY ZenonT(120), <2>1, <3>1, <3>3 DEF GoalDrains
    <2>7. CASE g.at = "done"
      <3>1. /\ ~RequestStarts(q) /\ ~GoalRealisesInputs(q, j) /\ ~GoalFindsOutputs(q, j) /\ ~GoalRefuses(q, j)
            /\ ~GoalEnqueues(q, j) /\ ~GoalSubscribes(q, j) /\ \A ok \in BOOLEAN : ~GoalSubscribed(q, j, ok)
            /\ ~GoalWakes(q, j) /\ ~GoalLeaves(q, j)
        BY ZenonT(120), <2>0, <2>3, <2>7 DEF RequestStarts, GoalRealisesInputs, GoalFindsOutputs, GoalRefuses, InputsDone,
           GoalEnqueues, GoalSubscribes, GoalSubscribed, GoalWakes, GoalLeaves
      <3>2. h.at = "done"
        BY ZenonT(120), <2>2, <2>4, <2>7, <3>1 DEF MoveOf
      <3> QED BY ZenonT(120), <2>1, <3>2 DEF GoalDrains
    <2>8. CASE g.at = "none" /\ RequestStarts(q)
      <3>1. h = IF j \in Roots[q] THEN NewGoal(TRUE) ELSE NoGoal
        BY ZenonT(120), <2>1, <2>8, NewGoals
      <3>2. req'[q] = "running"
        BY ZenonT(120), <2>8 DEF RequestStarts, GoalTypeOK
      <3>3. CASE j \in Roots[q]
        BY ZenonT(120), <2>1, <2>5, <3>1, <3>2, <3>3 DEF GoalDrains, Awaited
      <3>4. CASE j \notin Roots[q]
        BY ZenonT(120), <2>1, <2>5, <3>1, <3>4 DEF GoalDrains
      <3> QED BY ZenonT(120), <3>3, <3>4
    <2>9. CASE g.at = "none" /\ ~RequestStarts(q)
      <3>1. /\ ~GoalRealisesInputs(q, j) /\ ~GoalFindsOutputs(q, j) /\ ~GoalRefuses(q, j)
            /\ ~GoalEnqueues(q, j) /\ ~GoalSubscribes(q, j) /\ \A ok \in BOOLEAN : ~GoalSubscribed(q, j, ok)
            /\ ~GoalWakes(q, j) /\ ~GoalLeaves(q, j) /\ ~RootReports(q, j)
        BY ZenonT(120), <2>0, <2>9 DEF GoalRealisesInputs, GoalFindsOutputs, GoalRefuses, InputsDone,
           GoalEnqueues, GoalSubscribes, GoalSubscribed, GoalWakes, GoalLeaves, RootReports
      <3>2. CASE h = g
        <4>1. j \in Roots[q] => req'[q] = "new"
          BY ZenonT(120), <2>3, <2>9, RequestMove
        <4> QED BY ZenonT(120), <2>1, <2>3, <2>9, <3>2, <4>1 DEF GoalDrains
      <3>3. ASSUME h \in {NewGoal(TRUE), NewGoal(FALSE)}, NEW k \in Key, GoalRealisesInputs(q, k), j \in Needs[k]
            PROVE  GoalDrains(q, j)'
        <4>1. goal[q][k].at = "preparing" /\ goal'[q][k].at = "inputs"
          BY ZenonT(120), <3>3, NewGoals
        <4>2. req'[q] = "running"
          BY ZenonT(120), <4>1, StillAwaited
        <4>3. Awaited(q, j)'
          BY ZenonT(120), <3>3, <4>1 DEF Awaited
        <4>4. h.at = "preparing" /\ h.root = "open"
          BY ZenonT(120), <2>5, <3>3
        <4> QED BY ZenonT(120), <2>1, <4>2, <4>3, <4>4 DEF GoalDrains
      <3> QED BY ZenonT(120), <2>2, <2>4, <2>9, <3>1, <3>2, <3>3 DEF MoveOf
    <2> QED BY ZenonT(120), <2>6, <2>7, <2>8, <2>9
  <1> QED BY ZenonT(120), <1>1, <1>2 DEF RequestsDrain

\* The steps that change who holds, who asked for, and what the queue keeps.
QueueMoves ==
    \/ UNCHANGED <<by_id, holders, standalone>>
    \/ \E r \in Request, k \in Key : GoalEnqueues(r, k)
    \/ \E c \in OpClient : OpEnqueues(c) \/ OpPrunes(c)
    \/ \E r \in Request : RequestReleases(r) \/ RequestReaps(r)

\* The streaming calls keep all three.
LEMMA StreamKeepsQueue ==
  ASSUME NEW b, NEW c, SubscribesAtOnce(b, c) \/ SubscribeWrites(b, c) \/ Unsubscribes(b, c)
  PROVE  UNCHANGED <<by_id, holders, standalone>>
  BY ZenonT(120) DEF SubscribesAtOnce, SubscribeSilently, SubscribeWrites, Unsubscribes, Unsubscribe, vars, buildVars, queueVars

\* No other step does.
LEMMA QueueMove ==
  ASSUME [GoalNext]_everything
  PROVE  QueueMoves
  <1>1. ASSUME NEW r \in Request, NEW k \in Key, GoalSteps(r, k) \/ \E ok \in BOOLEAN : GoalSubscribed(r, k, ok)
        PROVE  QueueMoves
    <2>1. CASE GoalFindsOutputs(r, k) \/ GoalRealisesInputs(r, k) \/ GoalRefuses(r, k) \/ GoalWakes(r, k)
      BY ZenonT(120), <2>1 DEF GoalFindsOutputs, GoalRealisesInputs, GoalRefuses, GoalWakes, vars, buildVars, queueVars, QueueMoves
    <2>2. CASE GoalSubscribes(r, k) \/ GoalLeaves(r, k)
      BY ZenonT(120), <2>2, StreamKeepsQueue DEF GoalSubscribes, GoalLeaves, QueueMoves
    <2>3. CASE \E ok \in BOOLEAN : GoalSubscribed(r, k, ok)
      BY ZenonT(120), <2>3 DEF GoalSubscribed, SubscribeEnds, buildVars, queueVars, QueueMoves
    <2>4. CASE GoalEnqueues(r, k)
      BY ZenonT(120), <2>4 DEF QueueMoves
    <2> QED BY ZenonT(120), <1>1, <2>1, <2>2, <2>3, <2>4 DEF GoalSteps
  <1>2. ASSUME NEW r \in Request, RequestStarts(r) \/ RequestSteps(r) \/ HangsUp(r)
        PROVE  QueueMoves
    <2>1. CASE RequestStarts(r) \/ RequestAnswers(r) \/ HangsUp(r) \/ \E k \in Key : RootReports(r, k)
      BY ZenonT(120), <2>1 DEF RequestStarts, RequestAnswers, HangsUp, RootReports, vars, buildVars, queueVars, QueueMoves
    <2>2. CASE \E k \in Key : RequestLeaves(r, k)
      BY ZenonT(120), <2>2, StreamKeepsQueue DEF RequestLeaves, QueueMoves
    <2>3. CASE RequestReleases(r) \/ RequestReaps(r)
      BY ZenonT(120), <2>3 DEF QueueMoves
    <2> QED BY ZenonT(120), <1>2, <2>1, <2>2, <2>3 DEF RequestSteps
  <1>3. ASSUME NEW c \in OpClient,
               \/ OpEnqueues(c) \/ OpSteps(c) \/ OpStopsWaiting(c) \/ OpVanishes(c)
               \/ \E ok \in BOOLEAN : OpSubscribed(c, ok)
        PROVE  QueueMoves
    <2>1. CASE OpEnqueues(c) \/ OpPrunes(c)
      BY ZenonT(120), <2>1 DEF QueueMoves
    <2>2. CASE OpSubscribes(c) \/ OpLeaves(c)
      BY ZenonT(120), <2>2, StreamKeepsQueue DEF OpSubscribes, OpLeaves, QueueMoves
    <2>3. CASE OpStopsWaiting(c) \/ OpVanishes(c) \/ \E ok \in BOOLEAN : OpSubscribed(c, ok)
      BY ZenonT(120), <2>3 DEF OpStopsWaiting, OpVanishes, OpSubscribed, SubscribeEnds, vars, buildVars, queueVars, QueueMoves
    <2> QED BY ZenonT(120), <1>3, <2>1, <2>2, <2>3 DEF OpSteps
  <1>4. CASE Aside
    BY ZenonT(120), <1>4, AsideKeeps DEF QueueMoves
  <1> QED BY ZenonT(120), <1>1, <1>2, <1>3, <1>4, StepCases

\* An enqueue concerns one build, and one caller.
LEMMA EnqueueMoves ==
  ASSUME TypeOK, NEW k \in Key, NEW r \in Request \cup {None}, Enqueue(k, r, FALSE), NEW b \in BuildId
  PROVE  /\ \A q \in Request : q \in holders'[b] => q \in holders[b] \/ q = r
         /\ standalone'[b] = standalone[b] \/ (r = None /\ b = by_path'[k])
         /\ b \in by_id' => b \in by_id \/ b = by_path'[k]
  <1> USE ConstantsAssumption DEF TypeOK, Want
  <1>1. CASE EnqueueJoins(k, r)
    <2>1. by_path[k] \in BuildId
      BY ZenonT(120), <1>1 DEF EnqueueJoins
    <2> QED BY SMTT(120), <1>1, <2>1 DEF EnqueueJoins
  <1>2. CASE EnqueueCreates(k, r)
    <2>1. next_id \in BuildId
      BY SMTT(120), <1>2 DEF EnqueueCreates, BuildId
    <2> QED BY SMTT(120), <1>2, <2>1 DEF EnqueueCreates
  <1> QED BY ZenonT(120), <1>1, <1>2 DEF Enqueue

\* An enqueue counts standalone callers alone.
LEMMA EnqueueCounts ==
  ASSUME TypeOK, NEW k \in Key, NEW r \in Request \cup {None}, Enqueue(k, r, FALSE), NEW b \in BuildId,
         standalone'[b] # standalone[b]
  PROVE  r = None /\ b = by_path'[k]
  BY ZenonT(120), EnqueueMoves

\* A release leaves no hold of the request.
LEMMA ReleaseMoves ==
  ASSUME Inv, NEW r \in Request, RequestReleases(r), NEW b \in BuildId
  PROVE  /\ r \notin holders'[b] /\ holders'[b] \subseteq holders[b]
         /\ UNCHANGED <<by_id, standalone>>
  <1>1. held[r] = {x \in BuildId : r \in holders[x]}
    BY ZenonT(120) DEF Inv, HoldsInv, HoldsAgree
  <1>2. holders' = [x \in BuildId |-> IF x \in held[r] THEN holders[x] \ {r} ELSE holders[x]]
        /\ UNCHANGED <<by_id, standalone>>
    BY ZenonT(120) DEF RequestReleases, ReleaseRequest
  <1> QED BY ZenonT(120), <1>1, <1>2

\* Only running requests come to hold a build, and a release gives it back.
LEMMA HoldsDrainStep ==
  ASSUME GoalTypeOK, Inv, Patient, RequestsDrain, HoldsDrain, [GoalNext]_everything
  PROVE  HoldsDrain'
  <1> SUFFICES ASSUME NEW q \in Request, NEW b \in BuildId, q \in holders'[b]
               PROVE  req'[q] \in {"running", "answered"}
    BY ZenonT(120) DEF HoldsDrain
  <1>1. ~RequestReleases(q)
    BY ZenonT(120), ReleaseMoves
  <1>2. ASSUME req[q] \in {"running", "answered"}
        PROVE  req'[q] \in {"running", "answered"}
    BY ZenonT(120), <1>1, <1>2, RequestMove DEF Patient
  <1>3. CASE q \in holders[b]
    BY ZenonT(120), <1>2, <1>3 DEF HoldsDrain
  <1>4. ASSUME q \notin holders[b], NEW r \in Request, NEW k \in Key, GoalEnqueues(r, k)
        PROVE  req[q] \in {"running", "answered"}
    <2>1. q = r
      BY ZenonT(120), <1>4, EnqueueMoves DEF GoalEnqueues, GoalTypeOK
    <2>2. goal[q][k].at = "inputs"
      BY ZenonT(120), <1>4, <2>1 DEF GoalEnqueues, InputsDone
    <2> QED BY ZenonT(120), <2>2 DEF RequestsDrain, GoalDrains
  <1>5. ASSUME q \notin holders[b], NEW c \in OpClient, OpEnqueues(c)
        PROVE  FALSE
    <2>1. OpKey[c] \in Key
      BY SMTT(120), GoalAssumption
    <2>2. q = None
      BY ZenonT(120), <1>5, <2>1, EnqueueMoves DEF OpEnqueues, GoalTypeOK
    <2> QED BY SMTT(120), <2>2, ConstantsAssumption
  <1>6. ASSUME q \notin holders[b], NEW r \in Request, RequestReleases(r)
        PROVE  FALSE
    BY ZenonT(120), <1>6, ReleaseMoves
  <1>7. ASSUME q \notin holders[b], Prune
        PROVE  FALSE
    BY ZenonT(120), <1>7 DEF Prune, buildVars
  <1>8. \/ q \in holders[b]
        \/ q \notin holders[b] /\ \E r \in Request, k \in Key : GoalEnqueues(r, k)
    BY ZenonT(120), <1>5, <1>6, <1>7, QueueMove DEF QueueMoves, RequestReaps, PruneAfterRelease, OpPrunes, PruneAfterStandalone
  <1> QED BY ZenonT(120), <1>2, <1>3, <1>4, <1>8

\* A patient handler waits until its build has its answer.
LEMMA HandlersDrainStep ==
  ASSUME GoalTypeOK, Inv, Patient, HandlersDrain, [GoalNext]_everything
  PROVE  HandlersDrain'
  <1> DEFINE Asks(o, b) == o.build = b /\ o.at \in {"subscribing", "writing", "waiting"}
  <1> SUFFICES ASSUME NEW b \in BuildId, answer'[b] = None, standalone'[b] > 0
               PROVE  \E c \in OpClient : Asks(op'[c], b)
    BY ZenonT(120) DEF HandlersDrain, IsDone
  <1>1. ~IsDone(b)
    <2>1. [Next]_vars
      BY ZenonT(120), StepCalls DEF GoalTypeOK
    <2> QED BY ZenonT(120), <2>1, AnswerStep DEF IsDone
  <1>2. CASE standalone'[b] = standalone[b]
    <2>1. standalone[b] > 0
      BY SMTT(120), <1>2
    <2>2. PICK c \in OpClient : Asks(op[c], b)
      BY ZenonT(120), <1>1, <2>1 DEF HandlersDrain
    <2>3. ~OpVanishes(c) /\ ~OpStopsWaiting(c)
      BY ZenonT(120), <1>1, <2>2 DEF OpVanishes, OpStopsWaiting, Patient
    <2>4. ~OpEnqueues(c) /\ ~OpLeaves(c) /\ ~OpPrunes(c)
      BY ZenonT(120), <2>2 DEF OpEnqueues, OpLeaves, OpPrunes
    <2>5. Asks(op'[c], b)
      BY ZenonT(120), <2>2, <2>3, <2>4, OpMove DEF OpMoveOf
    <2> QED BY ZenonT(120), <2>5
  <1>3. ASSUME NEW c \in OpClient, OpEnqueues(c), standalone'[b] # standalone[b]
        PROVE  Asks(op'[c], b)
    <2>1. OpKey[c] \in Key
      BY SMTT(120), GoalAssumption
    <2>2. b = by_path'[OpKey[c]]
      BY ZenonT(120), <1>3, <2>1, EnqueueMoves DEF OpEnqueues, GoalTypeOK
    <2>3. op'[c] = [at |-> "subscribing", build |-> by_path'[OpKey[c]]]
      BY SMTT(120), <1>3 DEF OpEnqueues, GoalTypeOK
    <2> QED BY SMTT(120), <2>2, <2>3
  <1>4. ASSUME NEW r \in Request, NEW k \in Key, GoalEnqueues(r, k), standalone'[b] # standalone[b]
        PROVE  FALSE
    <2>1. TypeOK /\ Enqueue(k, r, FALSE)
      BY ZenonT(120), <1>4 DEF GoalEnqueues, GoalTypeOK
    <2>2. r = None
      BY ZenonT(120), <1>4, <2>1, EnqueueCounts
    <2> QED BY SMTT(120), <2>2, ConstantsAssumption
  <1>5. ASSUME NEW r \in Request, RequestReleases(r)
        PROVE  standalone'[b] = standalone[b]
    BY ZenonT(120), <1>5, ReleaseMoves
  <1>6. ASSUME Prune
        PROVE  standalone'[b] = standalone[b]
    BY ZenonT(120), <1>6 DEF Prune, buildVars
  <1>7. standalone'[b] = standalone[b] \/ \E c \in OpClient : OpEnqueues(c)
    BY ZenonT(120), <1>4, <1>5, <1>6, QueueMove DEF QueueMoves, RequestReaps, PruneAfterRelease, OpPrunes, PruneAfterStandalone
  <1> QED BY ZenonT(120), <1>2, <1>3, <1>7

\* What a prune leaves in the queue still has somebody.
LEMMA PruneSpares ==
  ASSUME GoalTypeOK, Inv, WaitingIsHeld, StreamInv, RequestsDrain, HandlersDrain, NEW b \in by_id \ Doomed
  PROVE  \/ holders[b] # {}
         \/ \E c \in OpClient : op[c].at \in {"subscribing", "writing", "waiting", "leaving"}
  <1>0. b \in BuildId /\ b < next_id
    <2>1. b \in BuildId
      BY ZenonT(120) DEF GoalTypeOK, TypeOK
    <2>2. ~(b >= next_id)
      BY ZenonT(120), <2>1 DEF Inv, Fresh
    <2> QED BY SMTT(120), <2>1, <2>2 DEF GoalTypeOK, TypeOK, BuildId
  <1>1. CASE ~IsDone(b)
    BY ZenonT(120), <1>0, <1>1 DEF Inv, UnfinishedIsWanted, HandlersDrain
  <1>2. ASSUME NEW c \in Client, subs[b][c] > 0
        PROVE  \/ holders[b] # {}
               \/ \E d \in OpClient : op[d].at \in {"subscribing", "writing", "waiting", "leaving"}
    <2>1. Streams(b, c)
      BY ZenonT(120), <1>0, <1>2 DEF StreamInv, StreamsAreOwned
    <2>2. ASSUME NEW r \in Request, NEW k \in Key, StreamsFor(goal[r][k], b)
          PROVE  r \in holders[b]
      <3>1. goal[r][k].build = b /\ goal[r][k].at \in {"leaving", "dead", "waiting"}
        BY ZenonT(120), <2>2 DEF StreamsFor
      <3>2. GoalDrains(r, k)
        BY ZenonT(120) DEF RequestsDrain
      <3>3. req[r] = "running" /\ goal[r][k].at \in {"leaving", "waiting"}
        BY ZenonT(120), <3>1, <3>2 DEF GoalDrains
      <3> QED BY ZenonT(120), <3>1, <3>3 DEF WaitingIsHeld
    <2> QED BY ZenonT(120), <2>1, <2>2 DEF Streams
  <1>3. CASE IsDone(b) /\ holders[b] = {}
    <2>1. PICK c \in Client : subs[b][c] > 0
      BY ZenonT(120), <1>3 DEF Doomed, Subscribers
    <2> QED BY ZenonT(120), <1>2, <2>1
  <1> QED BY ZenonT(120), <1>1, <1>3

\* Every build of the queue keeps somebody who comes to prune it.
LEMMA BuildsDrainStep ==
  ASSUME GoalTypeOK, Inv, WaitingIsHeld, StreamInv, Patient, DrainInv, [GoalNext]_everything
  PROVE  BuildsDrain'
  <1> SUFFICES ASSUME NEW b \in by_id'
               PROVE  \/ holders'[b] # {}
                      \/ \E r \in Request : req'[r] = "released"
                      \/ \E c \in OpClient : op'[c].at \notin {"new", "ended"}
    BY ZenonT(120) DEF BuildsDrain
  <1>0. b \in BuildId
    BY ZenonT(120), GoalTypeStep DEF GoalTypeOK, TypeOK
  <1>1. ASSUME NEW r \in Request, NEW k \in Key, GoalEnqueues(r, k), b \notin by_id
        PROVE  holders'[b] # {}
    <2>1. b = by_path'[k]
      BY ZenonT(120), <1>0, <1>1, EnqueueMoves DEF GoalEnqueues, GoalTypeOK
    <2>2. r \in holders'[b]
      BY ZenonT(120), <1>1, <2>1, EnqueueHolds DEF GoalEnqueues, GoalTypeOK
    <2> QED BY ZenonT(120), <2>2
  <1>2. ASSUME NEW c \in OpClient, OpEnqueues(c)
        PROVE  op'[c].at \notin {"new", "ended"}
    <2>1. op'[c] = [at |-> "subscribing", build |-> by_path'[OpKey[c]]]
      BY SMTT(120), <1>2 DEF OpEnqueues, GoalTypeOK
    <2> QED BY SMTT(120), <2>1
  <1>3. ASSUME Prune, NEW c \in OpClient, op[c].at \in {"subscribing", "writing", "waiting", "leaving"},
               op'[c] = op[c] \/ OpPrunes(c)
        PROVE  op'[c].at \notin {"new", "ended"}
    BY ZenonT(120), <1>3 DEF OpPrunes
  <1>4. ASSUME Prune, \A c \in OpClient : op'[c] = op[c] \/ OpPrunes(c)
        PROVE  \/ holders'[b] # {}
               \/ \E c \in OpClient : op'[c].at \notin {"new", "ended"}
    <2>1. b \in by_id \ Doomed /\ holders' = holders
      BY ZenonT(120), <1>4 DEF Prune, buildVars
    <2>2. \/ holders[b] # {}
          \/ \E c \in OpClient : op[c].at \in {"subscribing", "writing", "waiting", "leaving"}
      BY ZenonT(120), <2>1, PruneSpares DEF DrainInv
    <2> QED BY ZenonT(120), <1>3, <1>4, <2>1, <2>2
  <1>5. ASSUME NEW r \in Request, RequestReaps(r)
        PROVE  \/ holders'[b] # {}
               \/ \E c \in OpClient : op'[c].at \notin {"new", "ended"}
    BY ZenonT(120), <1>4, <1>5 DEF RequestReaps, PruneAfterRelease
  <1>6. ASSUME NEW d \in OpClient, OpPrunes(d)
        PROVE  \/ holders'[b] # {}
               \/ \E c \in OpClient : op'[c].at \notin {"new", "ended"}
    <2>1. ASSUME NEW c \in OpClient, c # d
          PROVE  op'[c] = op[c]
      BY SMTT(120), <1>6, <2>1 DEF OpPrunes, OpMoves, GoalTypeOK
    <2> QED BY ZenonT(120), <1>4, <1>6, <2>1 DEF OpPrunes, PruneAfterStandalone
  <1>7. ASSUME NEW r \in Request, RequestReleases(r)
        PROVE  req'[r] = "released"
    BY ZenonT(120), <1>7 DEF RequestReleases, GoalTypeOK
  <1>8. ASSUME b \in by_id, \A r \in Request : ~RequestReleases(r) /\ ~RequestReaps(r), \A c \in OpClient : ~OpPrunes(c)
        PROVE  \/ holders'[b] # {}
               \/ \E r \in Request : req'[r] = "released"
               \/ \E c \in OpClient : op'[c].at \notin {"new", "ended"}
    <2>1. ASSUME NEW r \in Request, r \in holders[b]
          PROVE  r \in holders'[b]
      BY ZenonT(120), <1>0, <1>8, <2>1, HoldersKept DEF GoalTypeOK
    <2>2. ASSUME NEW r \in Request, req[r] = "released"
          PROVE  req'[r] = "released"
      BY ZenonT(120), <1>8, <2>2, RequestMove
    <2>3. ASSUME NEW c \in OpClient, op[c].at \notin {"new", "ended"}
          PROVE  op'[c].at \notin {"new", "ended"}
      <3>1. ~OpVanishes(c)
        BY ZenonT(120) DEF OpVanishes, Patient
      <3> QED BY ZenonT(120), <1>8, <2>3, <3>1, OpMove DEF OpMoveOf
    <2>4. holders[b] \subseteq Request
      BY SMTT(120), <1>0 DEF GoalTypeOK, TypeOK
    <2> QED BY ZenonT(120), <1>8, <2>1, <2>2, <2>3, <2>4 DEF DrainInv, BuildsDrain
  <1>9. \/ b \in by_id
        \/ \E r \in Request, k \in Key : GoalEnqueues(r, k)
        \/ \E c \in OpClient : OpEnqueues(c)
    <2>1. ASSUME NEW r \in Request, RequestReleases(r)
          PROVE  b \in by_id
      BY ZenonT(120), <1>0, <2>1, ReleaseMoves
    <2>2. ASSUME Prune
          PROVE  b \in by_id
      BY ZenonT(120), <2>2 DEF Prune
    <2> QED BY ZenonT(120), <2>1, <2>2, QueueMove DEF QueueMoves, RequestReaps, PruneAfterRelease, OpPrunes, PruneAfterStandalone
  <1> QED BY ZenonT(120), <1>1, <1>2, <1>5, <1>6, <1>7, <1>8, <1>9

\* When every caller ended, the queue is empty again, whatever the requests,
\* their derivations and the handlers are, however their builds end and
\* whichever sockets fail: if every request keeps going, no client hangs up
\* and no derivation needs itself.  Without the first two a cancelled goal
\* leaves its subscription behind.
THEOREM QueuesDrain ==
  ASSUME NEW Height, Acyclic(Height), Patient
  PROVE  GoalSpec => []QueueDrains
  <1>1. GoalInit => DrainInv
    <2> SUFFICES ASSUME GoalInit PROVE DrainInv
      BY ZenonT(120)
    <2>1. /\ \A r \in Request, k \in Key : goal[r][k] = NoGoal
          /\ \A r \in Request : req[r] = "new"
          /\ by_id = {} /\ \A b \in BuildId : holders[b] = {} /\ standalone[b] = 0
      BY ZenonT(120) DEF GoalInit, Init
    <2>2. NoGoal.at = "none" /\ NoGoal.root = "open"
      BY ZenonT(120), FreshGoals
    <2>3. RequestsDrain
      BY ZenonT(120), <2>1, <2>2 DEF RequestsDrain, GoalDrains
    <2>4. HandlersDrain
      BY SMTT(120), <2>1 DEF HandlersDrain
    <2> QED BY ZenonT(120), <2>1, <2>3, <2>4 DEF DrainInv, HoldsDrain, BuildsDrain
  <1>2. ASSUME GoalTypeOK, Inv, WaitingIsHeld, StreamInv, DrainInv, [GoalNext]_everything
        PROVE  DrainInv'
    <2>1. RequestsDrain'
      BY ZenonT(120), <1>2, RequestsDrainStep DEF DrainInv, StreamInv
    <2>2. HoldsDrain' /\ HandlersDrain'
      BY ZenonT(120), <1>2, HoldsDrainStep, HandlersDrainStep DEF DrainInv
    <2>3. BuildsDrain'
      BY ZenonT(120), <1>2, BuildsDrainStep
    <2> QED BY ZenonT(120), <2>1, <2>2, <2>3 DEF DrainInv
  <1>3. ASSUME GoalTypeOK, Inv, DrainInv
        PROVE  QueueDrains
    <2> SUFFICES ASSUME Quiescent
                 PROVE  by_id = {} /\ known = {} /\ given_up = {} /\ \A r \in Request : held[r] = {}
      BY ZenonT(120) DEF QueueDrains
    <2>1. ASSUME NEW r \in Request, NEW b \in BuildId
          PROVE  r \notin holders[b]
      BY ZenonT(120), <1>3 DEF Quiescent, DrainInv, HoldsDrain
    <2>2. \A r \in Request : held[r] = {}
      BY ZenonT(120), <1>3, <2>1 DEF Inv, HoldsInv, HoldsAgree
    <2>3. known \subseteq Request /\ given_up \subseteq Request
      BY ZenonT(120), <1>3 DEF GoalTypeOK, TypeOK
    <2>4. known = {}
      BY ZenonT(120), <1>3, <2>2, <2>3 DEF Inv, HoldsInv, HolderIsKnown
    <2>5. given_up = {}
      BY ZenonT(120), <1>3, <2>2, <2>3 DEF Inv, HoldsInv, GaveUpForAReason
    <2>6. ASSUME NEW b \in by_id PROVE FALSE
      <3>1. b \in BuildId
        BY ZenonT(120), <1>3 DEF GoalTypeOK, TypeOK
      <3>2. holders[b] = {}
        BY SMTT(120), <1>3, <2>1, <3>1 DEF GoalTypeOK, TypeOK
      <3> QED BY ZenonT(120), <1>3, <3>2 DEF DrainInv, BuildsDrain, Quiescent
    <2> QED BY ZenonT(120), <2>2, <2>4, <2>5, <2>6
  <1>4. GoalSpec => []Inv
    BY GoalsCallTheQueue, Invariance, PTL DEF CallsTheQueue
  <1> QED BY <1>1, <1>2, <1>3, <1>4, GoalTypeCorrect, WaitingStaysHeld, StreamsStayOwned, PTL DEF GoalSpec
=============================================================================
