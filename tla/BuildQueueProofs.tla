-------------------------- MODULE BuildQueueProofs --------------------------
(***************************************************************************)
(* What BuildQueue establishes for any requests, clients, keys, stores and  *)
(* bounds.                                                                  *)
(***************************************************************************)
EXTENDS BuildQueue, TLAPS

\* BuildQueue.__init__ gives every field a value of its type.
LEMMA TypeInit == Init => TypeOK
  BY SMTT(120), ConstantsAssumption DEF Init, TypeOK, BuildId, Scope

\* The two enqueue branches keep the types; Want is where they meet.
LEMMA TypeWant ==
  ASSUME TypeOK, NEW b \in BuildId, NEW r \in Request \cup {None}, Want(b, r)
  PROVE  /\ holders' \in [BuildId -> SUBSET Request]
         /\ held' \in [Request -> SUBSET BuildId]
         /\ known' \in SUBSET Request
         /\ standalone' \in [BuildId -> Nat]
  BY SMTT(120), ConstantsAssumption DEF TypeOK, Want, Records

\* A cancel keeps the types of the answers and of the cancelled scopes.
LEMMA TypeCancel ==
  ASSUME TypeOK, NEW S \in SUBSET BuildId, CancelLocked(S)
  PROVE  /\ answer' \in [BuildId -> Outcome \cup {None}]
         /\ cancelled' \in SUBSET Scope
  BY SMTT(120) DEF TypeOK, CancelLocked, Outcome, IsBuilding

\* Every call of the queue keeps the types.
LEMMA TypeStep == TypeOK /\ [Next]_vars => TypeOK'
  <1> SUFFICES ASSUME TypeOK, [Next]_vars PROVE TypeOK'
    BY ZenonT(120)
  <1> USE ConstantsAssumption
  <1>1. ASSUME NEW k \in Key, NEW r \in Request \cup {None}, NEW delegated \in BOOLEAN,
               Enqueue(k, r, delegated)
        PROVE  TypeOK'
    <2>1. CASE EnqueueJoins(k, r)
      <3>1. by_path[k] \in BuildId
        BY ZenonT(120), <2>1 DEF EnqueueJoins, TypeOK
      <3>2. Want(by_path[k], r)
        BY ZenonT(120), <2>1 DEF EnqueueJoins
      <3> QED BY ZenonT(120), <1>1, <2>1, <3>1, <3>2, TypeWant
              DEF Enqueue, EnqueueJoins, TypeOK, streamVars, workerVars
    <2>2. CASE EnqueueCreates(k, r)
      <3>1. next_id \in BuildId /\ next_id + 1 \in 1..(MaxBuilds + 1)
        BY SMTT(120), <2>2 DEF EnqueueCreates, TypeOK, BuildId
      <3>2. Want(next_id, r)
        BY ZenonT(120), <2>2 DEF EnqueueCreates
      <3> QED BY ZenonT(120), <1>1, <2>2, <3>1, <3>2, TypeWant
              DEF Enqueue, EnqueueCreates, TypeOK, streamVars, workerVars
    <2> QED BY ZenonT(120), <1>1, <2>1, <2>2 DEF Enqueue
  <1>2. ASSUME NEW b \in BuildId, NEW outcome \in {"success", "failure"}, Complete(b, outcome)
        PROVE  TypeOK'
    BY ZenonT(120), <1>2 DEF Complete, Answerable, TypeOK, Outcome, streamVars, workerVars
  <1>3. ASSUME NEW b \in BuildId, DecideUnwanted(b)
        PROVE  TypeOK'
    BY ZenonT(120), <1>3 DEF DecideUnwanted, TypeOK, buildVars, streamVars, workerVars
  <1>4. ASSUME NEW b \in BuildId, CancelUnwanted(b)
        PROVE  TypeOK'
    <2>1. PICK S \in SUBSET BuildId : CancelLocked(S)
      BY ZenonT(120), <1>4 DEF CancelUnwanted
    <2> QED BY ZenonT(120), <1>4, <2>1, TypeCancel DEF CancelUnwanted, TypeOK, streamVars
  <1>5. ASSUME NEW r \in Request, ReleaseRequest(r)
        PROVE  TypeOK'
    <2>1. PICK S \in SUBSET BuildId : CancelLocked(S)
      BY ZenonT(120), <1>5 DEF ReleaseRequest, Forsaken, MarksWithout, TypeOK
    <2> QED BY ZenonT(120), <1>5, <2>1, TypeCancel DEF ReleaseRequest, Forsaken, MarksWithout, TypeOK, streamVars
  <1>6. ASSUME Prune, prune_due' \in SUBSET Request
        PROVE  TypeOK'
    BY ZenonT(120), <1>6 DEF Prune, Doomed, Unlisted, TypeOK, buildVars, streamVars, workerVars
  <1>7. ASSUME NEW r \in Request, PruneAfterRelease(r)
        PROVE  TypeOK'
    BY ZenonT(120), <1>6, <1>7 DEF PruneAfterRelease, TypeOK
  <1>8. CASE PruneAfterStandalone
    BY ZenonT(120), <1>6, <1>8 DEF PruneAfterStandalone, TypeOK
  <1>9. ASSUME NEW b \in BuildId, NEW c \in Client, SubscribeSilently(b, c)
        PROVE  TypeOK'
    BY SMTT(120), <1>9 DEF SubscribeSilently, TypeOK, queueVars, buildVars, workerVars
  <1>10. ASSUME NEW b \in BuildId, NEW c \in Client, SubscribeWrites(b, c)
         PROVE  TypeOK'
    BY ZenonT(120), <1>10 DEF SubscribeWrites, TypeOK, queueVars, buildVars, workerVars
  <1>11. ASSUME NEW ok \in BOOLEAN, SubscribeEnds(ok)
         PROVE  TypeOK'
    <2>1. lock[1] \in BuildId /\ lock[2] \in Client
      BY ZenonT(120), <1>11 DEF SubscribeEnds, TypeOK
    <2> QED BY ZenonT(120), <1>11, <2>1 DEF SubscribeEnds, TypeOK, queueVars, buildVars, workerVars
  <1>12. ASSUME NEW b \in BuildId, NEW c \in Client, Unsubscribe(b, c)
         PROVE  TypeOK'
    <2>1. PICK S \in SUBSET BuildId : CancelLocked(S)
      BY ZenonT(120), <1>12 DEF Unsubscribe, Refers, IsLast
    <2>2. subs' \in [BuildId -> [Client -> Nat]]
      BY SMTT(120), <1>12 DEF Unsubscribe, Refers, IsLast, TypeOK
    <2> QED BY ZenonT(120), <1>12, <2>1, <2>2, TypeCancel DEF Unsubscribe, Refers, IsLast, TypeOK, queueVars
  <1>13. ASSUME NEW b \in BuildId, PostLog(b)
         PROVE  TypeOK'
    BY ZenonT(120), <1>13 DEF PostLog, TypeOK, queueVars, buildVars, workerVars
  <1>14. ASSUME NEW b \in BuildId, NEW c \in Client, DropDeadSubscriber(b, c)
         PROVE  TypeOK'
    BY SMTT(120), <1>14 DEF DropDeadSubscriber, TypeOK, queueVars, buildVars, workerVars
  <1>15. ASSUME NEW b \in BuildId, NEW s \in Store, SpawnWorker(b, s)
         PROVE  TypeOK'
    <2>1. next_scope \in Scope /\ next_scope + 1 \in 1..(MaxScopes + 1)
      BY SMTT(120), <1>15 DEF SpawnWorker, TypeOK, Scope
    <2> QED BY ZenonT(120), <1>15, <2>1 DEF SpawnWorker, TypeOK, queueVars, buildVars, streamVars
  <1>16. ASSUME NEW b \in BuildId, NEW w \in Scope, WorkerEnded(b, w)
         PROVE  TypeOK'
    BY ZenonT(120), <1>16 DEF WorkerEnded, TypeOK, queueVars, buildVars, streamVars
  <1>17. ASSUME NEW b \in BuildId, NEW cancels \in BOOLEAN, ResetForRetry(b, cancels)
         PROVE  TypeOK'
    BY SMTT(120), <1>17 DEF ResetForRetry, WithoutWorker, IsBuilding, TypeOK, queueVars, buildVars, streamVars
  <1>18. CASE UNCHANGED vars
    BY ZenonT(120), <1>18 DEF TypeOK, vars, queueVars, buildVars, streamVars, workerVars
  <1> QED BY ZenonT(120), <1>1, <1>2, <1>3, <1>4, <1>5, <1>7, <1>8, <1>9, <1>10, <1>11, <1>12,
             <1>13, <1>14, <1>15, <1>16, <1>17, <1>18 DEF Next

\* Whatever callers do, in whatever order, the queue's state keeps its types:
\* a reference count never falls below zero and an answer is one of the
\* outcomes.
THEOREM TypeCorrect == Spec => []TypeOK
  BY TypeInit, TypeStep, PTL DEF Spec

-----------------------------------------------------------------------------
(* Deduplication.                                                          *)

\* A build id that was not given out yet belongs to no build.
Fresh ==
    \A b \in BuildId :
        /\ b >= next_id => /\ b \notin by_id /\ answer[b] = None /\ worker[b] = 0
                           /\ holders[b] = {} /\ standalone[b] = 0
                           /\ \A c \in Client : subs[b][c] = 0
        /\ b < next_id => key[b] \in Key

\* The dedup index names queued builds, each under its own key.
PathsNameBuilds ==
    \A k \in Key : by_path[k] # 0 => by_path[k] \in by_id /\ key[by_path[k]] = k

\* A hold ends only by a release, so the queue never drops a held build.
HoldsInv == HoldsAgree /\ HolderIsKnown /\ GaveUpForAReason

\* The scopes that workers run in were issued, and each to one build.
ScopesIssued ==
    /\ \A b \in BuildId : worker[b] < next_scope
    /\ \A w \in cancelled : w < next_scope
    /\ \A a, b \in BuildId : worker[a] # 0 /\ worker[a] = worker[b] => a = b

\* The inductive invariant.
Inv ==
    /\ TypeOK
    /\ Fresh
    /\ PathsNameBuilds
    /\ UnfinishedIsFound
    /\ HoldsInv
    /\ UnfinishedIsWanted
    /\ StreamedIsQueued
    /\ ScopesIssued
    /\ LiveWorkerNotCancelled

\* The empty queue of BuildQueue.__init__ satisfies the inductive invariant.
LEMMA InvInit == Init => Inv
  <1> SUFFICES ASSUME Init PROVE Inv
    BY ZenonT(120)
  <1>1. TypeOK
    BY ZenonT(120), TypeInit
  <1>2. Fresh /\ PathsNameBuilds /\ UnfinishedIsFound /\ UnfinishedIsWanted
    BY SMTT(120), ConstantsAssumption DEF Init, Fresh, PathsNameBuilds, UnfinishedIsFound,
       UnfinishedIsWanted, BuildId
  <1>3. HoldsInv
    BY ZenonT(120) DEF Init, HoldsInv, HoldsAgree, HolderIsKnown, GaveUpForAReason
  <1>4. StreamedIsQueued
    BY SMTT(120) DEF Init, StreamedIsQueued, Subscribers
  <1>5. ScopesIssued /\ LiveWorkerNotCancelled
    BY SMTT(120) DEF Init, ScopesIssued, LiveWorkerNotCancelled, IsBuilding
  <1> QED BY ZenonT(120), <1>1, <1>2, <1>3, <1>4, <1>5 DEF Inv

\* Deduplication survives every call: enqueue files a new build under its own
\* key only when the old one is done, and prune drops done builds only.
LEMMA DedupStep == Inv /\ [Next]_vars => (Fresh /\ PathsNameBuilds /\ UnfinishedIsFound)'
  <1> SUFFICES ASSUME Inv, [Next]_vars
               PROVE  Fresh' /\ PathsNameBuilds' /\ UnfinishedIsFound'
    BY ZenonT(120)
  <1> USE ConstantsAssumption DEF Inv, Fresh, PathsNameBuilds, UnfinishedIsFound, TypeOK, IsDone, BuildId
  <1>1. ASSUME NEW k \in Key, NEW r \in Request \cup {None}, NEW delegated \in BOOLEAN,
               Enqueue(k, r, delegated)
        PROVE  Fresh' /\ PathsNameBuilds' /\ UnfinishedIsFound'
    <2>1. CASE EnqueueJoins(k, r)
      BY SMTT(120), <1>1, <2>1 DEF Enqueue, EnqueueJoins, Want, Records, streamVars, workerVars
    <2>2. CASE EnqueueCreates(k, r)
      <3>1. Fresh'
        BY SMTT(120), <1>1, <2>2 DEF Enqueue, EnqueueCreates, Want, Records, streamVars, workerVars
      <3>2. PathsNameBuilds'
        BY SMTT(120), <1>1, <2>2 DEF Enqueue, EnqueueCreates
      <3>3. UnfinishedIsFound'
        BY SMTT(120), <1>1, <2>2 DEF Enqueue, EnqueueCreates
      <3> QED BY ZenonT(120), <3>1, <3>2, <3>3
    <2> QED BY ZenonT(120), <1>1, <2>1, <2>2 DEF Enqueue
  <1>2. ASSUME NEW b \in BuildId, NEW outcome \in {"success", "failure"}, Complete(b, outcome)
        PROVE  Fresh' /\ PathsNameBuilds' /\ UnfinishedIsFound'
    BY SMTT(120), <1>2 DEF Complete, Answerable, streamVars, workerVars
  <1>3. ASSUME NEW b \in BuildId, CancelUnwanted(b)
        PROVE  Fresh' /\ PathsNameBuilds' /\ UnfinishedIsFound'
    BY SMTT(120), <1>3 DEF CancelUnwanted, CancelLocked, streamVars
  <1>4. ASSUME NEW r \in Request, ReleaseRequest(r)
        PROVE  Fresh' /\ PathsNameBuilds' /\ UnfinishedIsFound'
    <2>1. held[r] \subseteq by_id
      BY ZenonT(120) DEF HoldsInv, HoldsAgree
    <2>2. Fresh'
      BY SMTT(120), <1>4, <2>1 DEF ReleaseRequest, Forsaken, MarksWithout, CancelLocked, streamVars
    <2>3. PathsNameBuilds'
      BY ZenonT(120), <1>4 DEF ReleaseRequest, Forsaken, MarksWithout
    <2>4. UnfinishedIsFound'
      BY ZenonT(120), <1>4 DEF ReleaseRequest, Forsaken, MarksWithout, CancelLocked
    <2> QED BY ZenonT(120), <2>2, <2>3, <2>4
  <1>5. ASSUME Prune
        PROVE  Fresh' /\ PathsNameBuilds' /\ UnfinishedIsFound'
    BY SMTT(120), <1>5 DEF Prune, Doomed, Unlisted, buildVars, streamVars, workerVars
  <1>6. ASSUME NEW b \in BuildId, NEW c \in Client, SubscribeSilently(b, c)
        PROVE  Fresh' /\ PathsNameBuilds' /\ UnfinishedIsFound'
    BY SMTT(120), <1>6 DEF SubscribeSilently, queueVars, buildVars, workerVars
  <1>7. ASSUME NEW ok \in BOOLEAN, SubscribeEnds(ok)
        PROVE  Fresh' /\ PathsNameBuilds' /\ UnfinishedIsFound'
    <2>1. lock[1] \in by_id /\ lock[1] \in BuildId /\ lock[2] \in Client
      BY ZenonT(120), <1>7 DEF SubscribeEnds, StreamedIsQueued
    <2>2. Fresh'
      BY SMTT(120), <1>7, <2>1 DEF SubscribeEnds, queueVars, buildVars, workerVars
    <2> QED BY ZenonT(120), <1>7, <2>2 DEF SubscribeEnds, queueVars, buildVars
  <1>8. ASSUME NEW b \in BuildId, NEW c \in Client, Unsubscribe(b, c)
        PROVE  Fresh' /\ PathsNameBuilds' /\ UnfinishedIsFound'
    BY SMTT(120), <1>8 DEF Unsubscribe, Refers, IsLast, CancelLocked, queueVars
  <1>9. ASSUME NEW b \in BuildId, NEW c \in Client, DropDeadSubscriber(b, c)
        PROVE  Fresh' /\ PathsNameBuilds' /\ UnfinishedIsFound'
    BY SMTT(120), <1>9 DEF DropDeadSubscriber, queueVars, buildVars, workerVars
  <1>10. ASSUME NEW b \in BuildId, NEW s \in Store, SpawnWorker(b, s)
         PROVE  Fresh' /\ PathsNameBuilds' /\ UnfinishedIsFound'
    BY SMTT(120), <1>10 DEF SpawnWorker, queueVars, buildVars, streamVars
  <1>11. ASSUME NEW b \in BuildId, NEW w \in Scope, WorkerEnded(b, w)
         PROVE  Fresh' /\ PathsNameBuilds' /\ UnfinishedIsFound'
    BY SMTT(120), <1>11 DEF WorkerEnded, queueVars, buildVars, streamVars
  <1>12. ASSUME NEW b \in BuildId, NEW cancels \in BOOLEAN, ResetForRetry(b, cancels)
         PROVE  Fresh' /\ PathsNameBuilds' /\ UnfinishedIsFound'
    BY SMTT(120), <1>12 DEF ResetForRetry, WithoutWorker, queueVars, buildVars, streamVars
  <1>13. CASE UNCHANGED <<next_id, by_id, by_path, buildVars, subs, worker>>
    BY SMTT(120), <1>13 DEF buildVars
  <1>14. ASSUME \/ \E b \in BuildId : DecideUnwanted(b)
                \/ \E b \in BuildId, c \in Client : SubscribeWrites(b, c)
                \/ \E b \in BuildId : PostLog(b)
                \/ UNCHANGED vars
         PROVE  UNCHANGED <<next_id, by_id, by_path, buildVars, subs, worker>>
    BY ZenonT(120), <1>14 DEF DecideUnwanted, SubscribeWrites, PostLog, vars, queueVars, buildVars,
       streamVars, workerVars
  <1>15. ASSUME (\E r \in Request : PruneAfterRelease(r)) \/ PruneAfterStandalone
         PROVE  Prune
    BY ZenonT(120), <1>15 DEF PruneAfterRelease, PruneAfterStandalone
  <1> HIDE DEF Inv, Fresh, PathsNameBuilds, UnfinishedIsFound, TypeOK, IsDone, BuildId
  <1> QED BY ZenonT(120), <1>1, <1>2, <1>3, <1>4, <1>5, <1>6, <1>7, <1>8, <1>9, <1>10, <1>11,
             <1>12, <1>13, <1>14, <1>15 DEF Next

\* Holds change in two places only, enqueue and release, and both change
\* _held, the holders and the recorded options together; a give-up mark is
\* written next to the failure that it stands for.
LEMMA HoldsStep == Inv /\ [Next]_vars => HoldsInv'
  <1> SUFFICES ASSUME Inv, [Next]_vars PROVE HoldsInv'
    BY ZenonT(120)
  <1> USE ConstantsAssumption DEF Inv, HoldsInv, HoldsAgree, HolderIsKnown, GaveUpForAReason, TypeOK
  <1>1. ASSUME NEW k \in Key, NEW r \in Request \cup {None}, NEW delegated \in BOOLEAN,
               Enqueue(k, r, delegated)
        PROVE  HoldsInv'
    <2>0. ASSUME NEW b \in BuildId, Want(b, r), by_id' = by_id \cup {b}, UNCHANGED <<given_up, answer>>
          PROVE  HoldsInv'
      <3>1. held' = [q \in Request |-> IF q = r THEN held[q] \cup {b} ELSE held[q]]
        BY ZenonT(120), <2>0 DEF Want
      <3>2. HoldsAgree'
        BY SMTT(120), <2>0, <3>1 DEF Want
      <3>3. HolderIsKnown'
        BY SMTT(120), <2>0, <3>1 DEF Want, Records
      <3>4. GaveUpForAReason'
        BY ZenonT(120), <2>0, <3>1
      <3> QED BY ZenonT(120), <3>2, <3>3, <3>4
    <2>1. CASE EnqueueJoins(k, r)
      <3>1. by_path[k] \in BuildId /\ by_path[k] \in by_id
        BY ZenonT(120), <2>1 DEF EnqueueJoins, PathsNameBuilds
      <3>2. Want(by_path[k], r) /\ by_id' = by_id /\ UNCHANGED <<given_up, answer>>
        BY ZenonT(120), <1>1, <2>1 DEF Enqueue, EnqueueJoins
      <3>3. by_id' = by_id \cup {by_path[k]}
        BY SMTT(120), <3>1, <3>2
      <3> QED BY ZenonT(120), <2>0, <3>1, <3>2, <3>3
    <2>2. CASE EnqueueCreates(k, r)
      <3>1. next_id \in BuildId
        BY SMTT(120), <2>2 DEF EnqueueCreates, BuildId
      <3> QED BY ZenonT(120), <1>1, <2>0, <2>2, <3>1 DEF Enqueue, EnqueueCreates
    <2> QED BY ZenonT(120), <1>1, <2>1, <2>2 DEF Enqueue
  <1>2. ASSUME NEW b \in BuildId, NEW outcome \in {"success", "failure"}, Complete(b, outcome)
        PROVE  HoldsInv'
    <2>1. HoldsAgree' /\ HolderIsKnown'
      BY ZenonT(120), <1>2 DEF Complete, Answerable
    <2>2. ASSUME NEW r \in given_up'
          PROVE  r \notin KeepsGoing /\ \E x \in held'[r] : answer'[x] = "failure"
      <3>1. CASE r \in given_up
        <4>1. PICK x \in held[r] : answer[x] = "failure"
          BY ZenonT(120), <3>1
        <4>2. x # b /\ x \in BuildId
          BY ZenonT(120), <1>2, <3>1, <4>1 DEF Complete, Answerable, IsDone, Outcome
        <4>3. held' = held /\ answer'[x] = answer[x]
          BY ZenonT(120), <1>2, <4>2 DEF Complete, Answerable
        <4> QED BY ZenonT(120), <3>1, <4>1, <4>3
      <3>2. CASE r \notin given_up
        <4>1. r \in holders[b] /\ r \notin KeepsGoing /\ r \in Request /\ outcome = "failure"
          BY ZenonT(120), <1>2, <2>2, <3>2 DEF Complete, Answerable
        <4>2. b \in held'[r] /\ answer'[b] = "failure"
          BY SMTT(120), <1>2, <4>1 DEF Complete, Answerable
        <4> QED BY ZenonT(120), <4>1, <4>2
      <3> QED BY ZenonT(120), <3>1, <3>2
    <2> QED BY ZenonT(120), <2>1, <2>2
  <1>3. ASSUME NEW S \in SUBSET BuildId, CancelLocked(S), UNCHANGED <<by_id, held, given_up, known, holders>>
        PROVE  HoldsInv'
    <2>1. ASSUME NEW x \in BuildId, answer[x] = "failure"
          PROVE  answer'[x] = "failure"
      BY ZenonT(120), <1>3, <2>1 DEF CancelLocked, IsDone, Outcome
    <2>2. HoldsAgree' /\ HolderIsKnown'
      BY ZenonT(120), <1>3
    <2>3. GaveUpForAReason'
      BY ZenonT(120), <1>3, <2>1
    <2> QED BY ZenonT(120), <2>2, <2>3
  <1>4. ASSUME NEW b \in BuildId, CancelUnwanted(b)
        PROVE  HoldsInv'
    BY SMTT(120), <1>3, <1>4 DEF CancelUnwanted
  <1>5. ASSUME NEW b \in BuildId, NEW c \in Client, Unsubscribe(b, c)
        PROVE  HoldsInv'
    <2>1. PICK S \in SUBSET BuildId : CancelLocked(S)
      BY SMTT(120), <1>5 DEF Unsubscribe, Refers, IsLast
    <2> QED BY ZenonT(120), <1>3, <1>5, <2>1 DEF Unsubscribe, Refers, IsLast, queueVars
  <1>6. ASSUME NEW r \in Request, ReleaseRequest(r)
        PROVE  HoldsInv'
    <2>1. HoldsAgree' /\ HolderIsKnown'
      BY SMTT(120), <1>6 DEF ReleaseRequest, Forsaken, MarksWithout
    <2>2. GaveUpForAReason'
      BY SMTT(120), <1>6 DEF ReleaseRequest, Forsaken, MarksWithout, CancelLocked, IsDone
    <2> QED BY ZenonT(120), <2>1, <2>2
  <1>7. ASSUME Prune
        PROVE  HoldsInv'
    BY SMTT(120), <1>7 DEF Prune, Doomed, Unlisted, buildVars
  <1>8. CASE UNCHANGED <<by_id, held, given_up, known, answer, holders>>
    BY ZenonT(120), <1>8
  <1>9. ASSUME \/ \E b \in BuildId : DecideUnwanted(b)
               \/ \E b \in BuildId, c \in Client : \/ SubscribeSilently(b, c) \/ SubscribeWrites(b, c)
                                                    \/ DropDeadSubscriber(b, c)
               \/ \E ok \in BOOLEAN : SubscribeEnds(ok)
               \/ \E b \in BuildId : PostLog(b)
               \/ \E b \in BuildId, s \in Store : SpawnWorker(b, s)
               \/ \E b \in BuildId, w \in Scope : WorkerEnded(b, w)
               \/ \E b \in BuildId, cancels \in BOOLEAN : ResetForRetry(b, cancels)
               \/ UNCHANGED vars
        PROVE  UNCHANGED <<by_id, held, given_up, known, answer, holders>>
    BY ZenonT(120), <1>9 DEF DecideUnwanted, SubscribeSilently, SubscribeWrites, SubscribeEnds, PostLog,
       DropDeadSubscriber, SpawnWorker, WorkerEnded, ResetForRetry, WithoutWorker, vars, queueVars, buildVars
  <1>10. ASSUME (\E r \in Request : PruneAfterRelease(r)) \/ PruneAfterStandalone
         PROVE  Prune
    BY ZenonT(120), <1>10 DEF PruneAfterRelease, PruneAfterStandalone
  <1> HIDE DEF Inv, HoldsInv, HoldsAgree, HolderIsKnown, GaveUpForAReason, TypeOK
  <1> QED BY ZenonT(120), <1>1, <1>2, <1>4, <1>5, <1>6, <1>7, <1>8, <1>9, <1>10 DEF Next

\* A build loses its last holder only in release_request, which answers it
\* in the same step unless a standalone caller wants it.
LEMMA WantedStep == Inv /\ [Next]_vars => UnfinishedIsWanted'
  <1> SUFFICES ASSUME Inv, [Next]_vars PROVE UnfinishedIsWanted'
    BY ZenonT(120)
  <1> USE ConstantsAssumption DEF Inv, UnfinishedIsWanted, TypeOK, IsDone
  <1>1. ASSUME NEW k \in Key, NEW r \in Request \cup {None}, NEW delegated \in BOOLEAN,
               Enqueue(k, r, delegated)
        PROVE  UnfinishedIsWanted'
    <2>1. CASE EnqueueJoins(k, r)
      <3>1. by_path[k] \in BuildId
        BY ZenonT(120), <2>1 DEF EnqueueJoins
      <3>2. ASSUME NEW b \in BuildId, holders[b] # {} \/ standalone[b] > 0
            PROVE  holders'[b] # {} \/ standalone'[b] > 0
        BY SMTT(120), <2>1, <3>1, <3>2 DEF EnqueueJoins, Want, Records
      <3> QED BY ZenonT(120), <1>1, <2>1, <3>2 DEF Enqueue, EnqueueJoins
    <2>2. CASE EnqueueCreates(k, r)
      <3>1. next_id \in BuildId
        BY SMTT(120), <2>2 DEF EnqueueCreates, BuildId
      <3>2. holders'[next_id] # {} \/ standalone'[next_id] > 0
        <4>1. CASE r = None
          BY SMTT(120), <2>2, <3>1, <4>1 DEF EnqueueCreates, Want, Records
        <4>2. CASE r # None
          BY SMTT(120), <2>2, <3>1, <4>2 DEF EnqueueCreates, Want, Records
        <4> QED BY ZenonT(120), <4>1, <4>2
      <3>3. ASSUME NEW b \in BuildId, b < next_id
            PROVE  holders'[b] = holders[b] /\ standalone'[b] = standalone[b]
        BY SMTT(120), <2>2, <3>1, <3>3 DEF EnqueueCreates, Want, Records, BuildId
      <3> QED BY SMTT(120), <1>1, <2>2, <3>2, <3>3 DEF Enqueue, EnqueueCreates, BuildId
    <2> QED BY ZenonT(120), <1>1, <2>1, <2>2 DEF Enqueue
  <1>2. ASSUME NEW b \in BuildId, NEW outcome \in {"success", "failure"}, Complete(b, outcome)
        PROVE  UnfinishedIsWanted'
    BY ZenonT(120), <1>2 DEF Complete, Answerable
  <1>3. ASSUME NEW b \in BuildId, CancelUnwanted(b)
        PROVE  UnfinishedIsWanted'
    BY ZenonT(120), <1>3 DEF CancelUnwanted, CancelLocked
  <1>4. ASSUME NEW r \in Request, ReleaseRequest(r)
        PROVE  UnfinishedIsWanted'
    <2> SUFFICES ASSUME NEW b \in BuildId, b < next_id', ~IsDone(b)'
                 PROVE  holders'[b] # {} \/ standalone'[b] > 0
      BY ZenonT(120)
    <2>1. b < next_id /\ ~IsDone(b) /\ standalone'[b] = standalone[b]
      BY ZenonT(120), <1>4 DEF ReleaseRequest, Forsaken, MarksWithout, CancelLocked
    <2>2. CASE b \in held[r]
      <3>1. ~(holders[b] \subseteq {r} /\ standalone[b] = 0)
        BY ZenonT(120), <1>4, <2>1, <2>2 DEF ReleaseRequest, Forsaken, MarksWithout, CancelLocked, Outcome
      <3>2. holders'[b] = holders[b] \ {r}
        BY ZenonT(120), <1>4, <2>2 DEF ReleaseRequest, Forsaken, MarksWithout
      <3> QED BY SMTT(120), <2>1, <3>1, <3>2
    <2>3. CASE b \notin held[r]
      BY ZenonT(120), <1>4, <2>1, <2>3 DEF ReleaseRequest, Forsaken, MarksWithout
    <2> QED BY ZenonT(120), <2>2, <2>3
  <1>5. ASSUME NEW b \in BuildId, NEW c \in Client, Unsubscribe(b, c)
        PROVE  UnfinishedIsWanted'
    BY ZenonT(120), <1>5 DEF Unsubscribe, Refers, IsLast, CancelLocked, queueVars
  <1>6. CASE UNCHANGED <<next_id, buildVars>>
    BY ZenonT(120), <1>6 DEF buildVars
  <1>7. ASSUME \/ \E b \in BuildId : DecideUnwanted(b)
               \/ \E r \in Request : PruneAfterRelease(r)
               \/ PruneAfterStandalone
               \/ \E b \in BuildId, c \in Client : \/ SubscribeSilently(b, c) \/ SubscribeWrites(b, c)
                                                    \/ DropDeadSubscriber(b, c)
               \/ \E ok \in BOOLEAN : SubscribeEnds(ok)
               \/ \E b \in BuildId : PostLog(b)
               \/ \E b \in BuildId, s \in Store : SpawnWorker(b, s)
               \/ \E b \in BuildId, w \in Scope : WorkerEnded(b, w)
               \/ \E b \in BuildId, cancels \in BOOLEAN : ResetForRetry(b, cancels)
               \/ UNCHANGED vars
        PROVE  UNCHANGED <<next_id, buildVars>>
    BY ZenonT(120), <1>7 DEF DecideUnwanted, PruneAfterRelease, PruneAfterStandalone, Prune, Doomed, Unlisted,
       SubscribeSilently, SubscribeWrites, SubscribeEnds, PostLog, DropDeadSubscriber,
       SpawnWorker, WorkerEnded, ResetForRetry, WithoutWorker, vars, queueVars
  <1> HIDE DEF Inv, UnfinishedIsWanted, TypeOK, IsDone
  <1> QED BY ZenonT(120), <1>1, <1>2, <1>3, <1>4, <1>5, <1>6, <1>7 DEF Next

\* What is streamed stays queued: only prune removes a build, never one with a
\* subscriber, and never while a subscription holds the lock.
LEMMA StreamStep == Inv /\ [Next]_vars => StreamedIsQueued'
  <1> SUFFICES ASSUME Inv, [Next]_vars PROVE StreamedIsQueued'
    BY ZenonT(120)
  <1> USE ConstantsAssumption DEF Inv, StreamedIsQueued, Subscribers, TypeOK
  <1>1. ASSUME NEW k \in Key, NEW r \in Request \cup {None}, NEW delegated \in BOOLEAN,
               Enqueue(k, r, delegated)
        PROVE  StreamedIsQueued'
    BY ZenonT(120), <1>1 DEF Enqueue, EnqueueJoins, EnqueueCreates, streamVars
  <1>2. ASSUME Prune
        PROVE  StreamedIsQueued'
    BY ZenonT(120), <1>2 DEF Prune, Doomed, Unlisted, streamVars
  <1>3. ASSUME NEW b \in BuildId, NEW c \in Client, SubscribeSilently(b, c)
        PROVE  StreamedIsQueued'
    BY ZenonT(120), <1>3 DEF SubscribeSilently, queueVars
  <1>4. ASSUME NEW b \in BuildId, NEW c \in Client, SubscribeWrites(b, c)
        PROVE  StreamedIsQueued'
    BY ZenonT(120), <1>4 DEF SubscribeWrites, queueVars
  <1>5. ASSUME NEW ok \in BOOLEAN, SubscribeEnds(ok)
        PROVE  StreamedIsQueued'
    BY SMTT(120), <1>5 DEF SubscribeEnds, queueVars
  <1>6. ASSUME NEW b \in BuildId, NEW c \in Client, Unsubscribe(b, c)
        PROVE  StreamedIsQueued'
    BY SMTT(120), <1>6 DEF Unsubscribe, Refers, IsLast, queueVars
  <1>7. ASSUME NEW b \in BuildId, NEW c \in Client, DropDeadSubscriber(b, c)
        PROVE  StreamedIsQueued'
    BY SMTT(120), <1>7 DEF DropDeadSubscriber, queueVars
  <1>8. CASE UNCHANGED <<by_id, lock, subs>>
    BY ZenonT(120), <1>8
  <1>9. ASSUME \/ \E b \in BuildId, outcome \in {"success", "failure"} : Complete(b, outcome)
               \/ \E b \in BuildId : DecideUnwanted(b) \/ CancelUnwanted(b) \/ PostLog(b)
               \/ \E r \in Request : ReleaseRequest(r)
               \/ \E b \in BuildId, s \in Store : SpawnWorker(b, s)
               \/ \E b \in BuildId, w \in Scope : WorkerEnded(b, w)
               \/ \E b \in BuildId, cancels \in BOOLEAN : ResetForRetry(b, cancels)
               \/ UNCHANGED vars
        PROVE  UNCHANGED <<by_id, lock, subs>>
    BY ZenonT(120), <1>9 DEF Complete, Answerable, DecideUnwanted, CancelUnwanted, PostLog, ReleaseRequest, Forsaken, MarksWithout,
       SpawnWorker, WorkerEnded, ResetForRetry, WithoutWorker, vars, queueVars, streamVars
  <1>10. ASSUME (\E r \in Request : PruneAfterRelease(r)) \/ PruneAfterStandalone
         PROVE  Prune
    BY ZenonT(120), <1>10 DEF PruneAfterRelease, PruneAfterStandalone
  <1> HIDE DEF Inv, StreamedIsQueued, Subscribers, TypeOK
  <1> QED BY ZenonT(120), <1>1, <1>2, <1>3, <1>4, <1>5, <1>6, <1>7, <1>8, <1>9, <1>10 DEF Next

\* A cancel of a worker comes with an answer of its build or takes the worker
\* off it, and a new worker gets a scope that nobody could have cancelled.
LEMMA WorkerStep == Inv /\ [Next]_vars => ScopesIssued' /\ LiveWorkerNotCancelled'
  <1> SUFFICES ASSUME Inv, [Next]_vars PROVE ScopesIssued' /\ LiveWorkerNotCancelled'
    BY ZenonT(120)
  <1> USE ConstantsAssumption
          DEF Inv, ScopesIssued, LiveWorkerNotCancelled, IsBuilding, IsDone, TypeOK, Scope
  <1>1. ASSUME NEW S \in SUBSET BuildId, CancelLocked(S), UNCHANGED <<worker, next_scope>>
        PROVE  ScopesIssued' /\ LiveWorkerNotCancelled'
    BY SMTT(120), <1>1 DEF CancelLocked, Outcome
  <1>2. ASSUME NEW b \in BuildId, CancelUnwanted(b)
        PROVE  ScopesIssued' /\ LiveWorkerNotCancelled'
    BY SMTT(120), <1>1, <1>2 DEF CancelUnwanted
  <1>3. ASSUME NEW r \in Request, ReleaseRequest(r)
        PROVE  ScopesIssued' /\ LiveWorkerNotCancelled'
    <2>1. PICK S \in SUBSET BuildId : CancelLocked(S)
      BY ZenonT(120), <1>3 DEF ReleaseRequest, Forsaken, MarksWithout
    <2> QED BY ZenonT(120), <1>1, <1>3, <2>1 DEF ReleaseRequest, Forsaken, MarksWithout
  <1>4. ASSUME NEW b \in BuildId, NEW c \in Client, Unsubscribe(b, c)
        PROVE  ScopesIssued' /\ LiveWorkerNotCancelled'
    <2>1. PICK S \in SUBSET BuildId : CancelLocked(S)
      BY SMTT(120), <1>4 DEF Unsubscribe, Refers, IsLast
    <2> QED BY ZenonT(120), <1>1, <1>4, <2>1 DEF Unsubscribe, Refers, IsLast
  <1>5. ASSUME NEW b \in BuildId, NEW outcome \in {"success", "failure"}, Complete(b, outcome)
        PROVE  ScopesIssued' /\ LiveWorkerNotCancelled'
    BY SMTT(120), <1>5 DEF Complete, Answerable, workerVars
  <1>6. ASSUME NEW b \in BuildId, NEW s \in Store, SpawnWorker(b, s)
        PROVE  ScopesIssued' /\ LiveWorkerNotCancelled'
    <2>1. /\ worker' = [worker EXCEPT ![b] = next_scope]
          /\ next_scope' = next_scope + 1
          /\ cancelled' = cancelled /\ answer' = answer
      BY ZenonT(120), <1>6 DEF SpawnWorker, buildVars
    <2>2. next_scope \in Nat /\ next_scope \notin cancelled
      BY SMTT(120)
    <2>3. \A x \in BuildId : worker[x] \in Nat /\ worker[x] < next_scope
      BY SMTT(120)
    <2>4. \A x \in BuildId : worker'[x] < next_scope'
      BY SMTT(120), <2>1, <2>2, <2>3
    <2>5. \A w \in cancelled' : w < next_scope'
      BY SMTT(120), <2>1, <2>2
    <2>6. \A x, y \in BuildId : worker'[x] # 0 /\ worker'[x] = worker'[y] => x = y
      BY SMTT(120), <2>1, <2>3
    <2>7. LiveWorkerNotCancelled'
      BY ZenonT(120), <2>1, <2>2
    <2> QED BY ZenonT(120), <2>4, <2>5, <2>6, <2>7
  <1>7. ASSUME NEW b \in BuildId, NEW w \in Scope, WorkerEnded(b, w)
        PROVE  ScopesIssued' /\ LiveWorkerNotCancelled'
    BY SMTT(120), <1>7 DEF WorkerEnded, buildVars
  <1>8. ASSUME NEW b \in BuildId, NEW cancels \in BOOLEAN, ResetForRetry(b, cancels)
        PROVE  ScopesIssued' /\ LiveWorkerNotCancelled'
    BY SMTT(120), <1>8 DEF ResetForRetry, WithoutWorker, buildVars
  <1>9. CASE UNCHANGED <<worker, next_scope, cancelled, answer>>
    BY ZenonT(120), <1>9
  <1>10. ASSUME \/ \E k \in Key, r \in Request \cup {None}, delegated \in BOOLEAN : Enqueue(k, r, delegated)
                \/ \E b \in BuildId : DecideUnwanted(b) \/ PostLog(b)
                \/ \E r \in Request : PruneAfterRelease(r)
                \/ PruneAfterStandalone
                \/ \E b \in BuildId, c \in Client : \/ SubscribeSilently(b, c) \/ SubscribeWrites(b, c)
                                                     \/ DropDeadSubscriber(b, c)
                \/ \E ok \in BOOLEAN : SubscribeEnds(ok)
                \/ UNCHANGED vars
         PROVE  UNCHANGED <<worker, next_scope, cancelled, answer>>
    BY ZenonT(120), <1>10 DEF Enqueue, DecideUnwanted, PostLog, PruneAfterRelease, PruneAfterStandalone, Prune, Doomed, Unlisted,
       SubscribeSilently, SubscribeWrites, DropDeadSubscriber, SubscribeEnds, vars, buildVars, workerVars
  <1> HIDE DEF Inv, ScopesIssued, LiveWorkerNotCancelled, IsBuilding, IsDone, TypeOK, Scope
  <1> QED BY ZenonT(120), <1>2, <1>3, <1>4, <1>5, <1>6, <1>7, <1>8, <1>9, <1>10 DEF Next

\* Every call of the queue, by whatever caller, keeps the invariant.
LEMMA InvStep == Inv /\ [Next]_vars => Inv'
  BY ZenonT(120), TypeStep, DedupStep, HoldsStep, WantedStep, StreamStep, WorkerStep DEF Inv

\* The invariant holds in every reachable state, for any number of requests,
\* clients, keys, builds and workers.
LEMMA Invariance == Spec => []Inv
  BY InvInit, InvStep, PTL DEF Spec

\* BuildQueue.enqueue, complete and prune keep the dedup index exact: no two
\* unfinished builds of one key, and none that a prune or a newer build hides.
THEOREM DedupIsExact == Spec => []UnfinishedIsFound
  BY Invariance, PTL DEF Inv

\* release_request finds every hold of its request, whatever was pruned,
\* completed or cancelled in between.
THEOREM HoldsAreExact == Spec => [](HoldsAgree /\ HolderIsKnown)
  BY Invariance, PTL DEF Inv, HoldsInv

\* A give-up mark stands for a failed build that the request still holds.
THEOREM GiveUpIsJustified == Spec => []GaveUpForAReason
  BY Invariance, PTL DEF Inv, HoldsInv

\* No build runs, or waits to run, for nobody.
THEOREM NothingForNobody == Spec => []UnfinishedIsWanted
  BY Invariance, PTL DEF Inv

\* unsubscribe finds every subscription, and no client is replayed twice.
THEOREM SubscriptionsStay == Spec => []StreamedIsQueued
  BY Invariance, PTL DEF Inv

\* The worker of an unfinished build was not cancelled.
THEOREM WorkersStayLive == Spec => []LiveWorkerNotCancelled
  BY Invariance, PTL DEF Inv

\* A call leaves an answer that is set alone.
LEMMA AnswerStep ==
  ASSUME Inv, [Next]_vars, NEW b \in BuildId, IsDone(b)
  PROVE  answer'[b] = answer[b]
  <1>1. ASSUME NEW S \in SUBSET BuildId, CancelLocked(S)
        PROVE  answer'[b] = answer[b]
    BY ZenonT(120), <1>1 DEF CancelLocked
  <1>2. ASSUME NEW x \in BuildId, NEW outcome \in {"success", "failure"}, Complete(x, outcome)
        PROVE  answer'[b] = answer[b]
    BY ZenonT(120), <1>2 DEF Complete, Answerable, Inv, TypeOK
  <1>3. ASSUME \/ \E x \in BuildId : CancelUnwanted(x)
               \/ \E r \in Request : ReleaseRequest(r)
               \/ \E x \in BuildId, c \in Client : Unsubscribe(x, c)
        PROVE  \E S \in SUBSET BuildId : CancelLocked(S)
    BY ZenonT(120), <1>3 DEF CancelUnwanted, ReleaseRequest, Forsaken, MarksWithout, Unsubscribe, Refers, IsLast, Inv, TypeOK
  <1>4. ASSUME \/ \E k \in Key, r \in Request \cup {None}, delegated \in BOOLEAN : Enqueue(k, r, delegated)
               \/ \E x \in BuildId : DecideUnwanted(x) \/ PostLog(x)
               \/ \E r \in Request : PruneAfterRelease(r)
               \/ PruneAfterStandalone
               \/ \E x \in BuildId, c \in Client : \/ SubscribeSilently(x, c) \/ SubscribeWrites(x, c)
                                                    \/ DropDeadSubscriber(x, c)
               \/ \E ok \in BOOLEAN : SubscribeEnds(ok)
               \/ \E x \in BuildId, s \in Store : SpawnWorker(x, s)
               \/ \E x \in BuildId, w \in Scope : WorkerEnded(x, w)
               \/ \E x \in BuildId, cancels \in BOOLEAN : ResetForRetry(x, cancels)
               \/ UNCHANGED vars
        PROVE  answer' = answer
    BY ZenonT(120), <1>4 DEF Enqueue, DecideUnwanted, PostLog, PruneAfterRelease, PruneAfterStandalone, Prune, Doomed, Unlisted,
       SubscribeSilently, SubscribeWrites, DropDeadSubscriber, SubscribeEnds, SpawnWorker,
       WorkerEnded, ResetForRetry, WithoutWorker, vars, buildVars
  <1> QED BY ZenonT(120), <1>1, <1>2, <1>3, <1>4 DEF Next

\* No call changes an answer that is set.
THEOREM AnswersAreFinal == Spec => AnswerIsFinal
  <1>1. Inv /\ [Next]_vars => [\A b \in BuildId : IsDone(b) => answer'[b] = answer[b]]_vars
    BY ZenonT(120), AnswerStep
  <1> QED BY Invariance, <1>1, PTL DEF Spec, AnswerIsFinal

-----------------------------------------------------------------------------
(* Only unsubscribe touches the subscribers of a build and cancels in one   *)
(* step, and it cancels for the last one only.                             *)

\* unsubscribe cancels a build only when it leaves nobody behind.
LEMMA UnsubscribeSpares ==
  ASSUME TypeOK, NEW x \in BuildId, NEW c \in Client, Unsubscribe(x, c),
         NEW b \in BuildId, ~IsDone(b), answer'[b] = "cancelled"
  PROVE  Subscribers(b)' = {}
  <1> DEFINE S == IF client_bound[x] /\ IsLast(x, c) /\ ~IsDone(x) THEN {x} ELSE {}
  <1>1. answer'[b] = IF b \in S /\ ~IsDone(b) THEN "cancelled" ELSE answer[b]
    BY ZenonT(120) DEF Unsubscribe, CancelLocked
  <1>2. answer[b] = None
    BY ZenonT(120) DEF IsDone
  <1>3. None # "cancelled"
    BY ZenonT(120), ConstantsAssumption DEF Outcome
  <1>4. b \in S
    BY ZenonT(120), <1>1, <1>2, <1>3
  <1>5. b = x /\ subs[x][c] = 1 /\ Subscribers(x) = {c}
    BY ZenonT(120), <1>4 DEF IsLast
  <1>6. subs' = [subs EXCEPT ![x][c] = @ - 1]
    BY ZenonT(120) DEF Unsubscribe
  <1>7. \A d \in Client : d # c => subs[b][d] = 0
    BY SMTT(120), <1>5 DEF Subscribers, TypeOK
  <1>8. \A d \in Client : subs'[b][d] = 0
    BY SMTT(120), <1>5, <1>6, <1>7 DEF TypeOK
  <1> QED BY SMTT(120), <1>8 DEF Subscribers

\* Every other call leaves the subscribers of every build, or its answer, alone,
\* or sets another answer.
LEMMA CancelStep ==
  ASSUME TypeOK, [Next]_vars, NEW b \in BuildId, subs'[b] # subs[b], ~IsDone(b), answer'[b] = "cancelled"
  PROVE  Subscribers(b)' = {}
  <1>1. answer[b] # answer'[b]
    BY ZenonT(120), ConstantsAssumption DEF IsDone, Outcome
  <1>2. answer' # answer /\ subs' # subs
    BY ZenonT(120), <1>1
  <1>3. ASSUME \/ \E k \in Key, r \in Request \cup {None}, delegated \in BOOLEAN : Enqueue(k, r, delegated)
               \/ \E x \in BuildId : DecideUnwanted(x) \/ PostLog(x)
               \/ \E r \in Request : PruneAfterRelease(r)
               \/ PruneAfterStandalone
               \/ \E x \in BuildId, c \in Client : \/ SubscribeSilently(x, c) \/ SubscribeWrites(x, c)
                                                    \/ DropDeadSubscriber(x, c)
               \/ \E ok \in BOOLEAN : SubscribeEnds(ok)
               \/ \E x \in BuildId, s \in Store : SpawnWorker(x, s)
               \/ \E x \in BuildId, w \in Scope : WorkerEnded(x, w)
               \/ \E x \in BuildId, cancels \in BOOLEAN : ResetForRetry(x, cancels)
               \/ UNCHANGED vars
        PROVE  answer' = answer
    BY ZenonT(120), <1>3 DEF Enqueue, DecideUnwanted, PostLog, PruneAfterRelease, PruneAfterStandalone, Prune, Doomed, Unlisted,
       SubscribeSilently, SubscribeWrites, DropDeadSubscriber, SubscribeEnds, SpawnWorker,
       WorkerEnded, ResetForRetry, WithoutWorker, vars, buildVars
  <1>4. ASSUME \/ \E x \in BuildId, outcome \in {"success", "failure"} : Complete(x, outcome)
               \/ \E x \in BuildId : CancelUnwanted(x)
               \/ \E r \in Request : ReleaseRequest(r)
        PROVE  subs' = subs
    BY ZenonT(120), <1>4 DEF Complete, CancelUnwanted, ReleaseRequest, streamVars
  <1>5. \E x \in BuildId, c \in Client : Unsubscribe(x, c)
    BY ZenonT(120), <1>2, <1>3, <1>4 DEF Next
  <1> QED BY ZenonT(120), <1>5, UnsubscribeSpares

\* However the callers interleave, the unsubscribe that cancels a build leaves
\* nobody who streams it.
THEOREM CancelsSpareListeners == Spec => CancelSparesListeners
  <1>1. Inv => TypeOK
    BY ZenonT(120) DEF Inv
  <1>2. Inv /\ [Next]_vars
          => [\A b \in BuildId : subs'[b] # subs[b] /\ ~IsDone(b) /\ answer'[b] = "cancelled"
                 => Subscribers(b)' = {}]_vars
    BY ZenonT(120), <1>1, CancelStep
  <1> QED BY Invariance, <1>2, PTL DEF Spec, CancelSparesListeners
=============================================================================
