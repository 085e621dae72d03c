----------------------- MODULE SubstitutionQueueProofs -----------------------
(***************************************************************************)
(* The substitution queue implements SharedImport, for any number of        *)
(* callers, paths and substituters, whatever fails, expires or is           *)
(* cancelled.                                                               *)
(***************************************************************************)
EXTENDS SubstitutionQueue, FiniteSetTheorems, WellFoundedInduction, TLAPS

\* _best_candidate_from_cache takes one of the stores it is given.
LEMMA BestIsMember ==
  ASSUME NEW S \in SUBSET Stores, S # {}
  PROVE  Best(S) \in S
  <1> DEFINE ranks == {Rank[s] : s \in S}
  <1>1. ranks \subseteq Nat /\ ranks # {}
    BY SMTT(120), SubstAssumption
  <1>2. PICK n \in ranks : \A m \in ranks : ~(<<m, n>> \in OpToRel(<, Nat))
    <2> HIDE DEF ranks
    <2> QED BY ZenonT(120), <1>1, NatLessThanWellFounded, WFMin
  <1>3. \A m \in ranks : ~(m < n)
    BY ZenonT(120), <1>1, <1>2 DEF OpToRel
  <1>4. PICK s \in S : Rank[s] = n
    BY ZenonT(120), <1>2
  <1>5. \A t \in S : Rank[s] <= Rank[t]
    BY SMTT(120), <1>3, <1>4, SubstAssumption
  <1> QED BY ZenonT(120), <1>5 DEF Best

-----------------------------------------------------------------------------
(* The inductive invariant.                                                 *)

IsCall(r) ==
    r \in [op : {r.op}, path : {r.path}, set : {r.set}, at : {r.at}, join : {r.join},
           pend : {r.pend}, found : {r.found}]
IsWork(w) ==
    w \in [at : {w.at}, key : {w.key}, pend : {w.pend}, back : {w.back}, from : {w.from},
           what : {w.what}]

KeyOf(r) == [path |-> r.path, set |-> r.set]
Runs(w) == w.at \in {"begun", "selecting", "queued", "streaming"}

\* A call of the queue's substitute waits for, or has, the answer of an import of
\* its own key; nobody who has not called has an import.
CallOK(r) ==
    /\ IsCall(r)
    /\ r.op = "none" <=> r.at = "idle"
    /\ r.at = "joined" => r.op = "import"
    /\ r.op = "import" => KeyOf(r) \in Key /\ r.at \in {"joined", "done", "left", "refused"}
    /\ r.op = "import" /\ r.at \in {"joined", "done"} =>
         r.join \in Callers /\ work[r.join].at # "none" /\ work[r.join].key = KeyOf(r)

\* An import has a source of its own key once it has chosen.
WorkOK(w) ==
    /\ IsWork(w)
    /\ w.at \in {"none", "over"} \/ Runs(w)
    /\ w.back \in SUBSET Stores
    /\ w.at \in {"begun", "selecting"} => w.from = None
    /\ w.at \in {"queued", "streaming"} => w.from \in w.key.set

\* _active_imports holds exactly the imports that run, each under its own key.
Registered ==
    /\ active \in [Key -> Callers \cup {None}]
    /\ \A k \in Key : active[k] # None => work[active[k]].key = k /\ Runs(work[active[k]])
    /\ \A c \in Callers : Runs(work[c]) => work[c].key \in Key /\ active[work[c].key] = c

\* The caches name substituters, and so do the queries in flight.
Sane ==
    /\ positive \in [Paths -> SUBSET Stores]
    /\ tasks \subseteq Task

ImportInv ==
    /\ call = [c \in Callers |-> call[c]]
    /\ work = [c \in Callers |-> work[c]]
    /\ \A c \in Callers : CallOK(call[c]) /\ WorkOK(work[c])
    /\ \A c \in Callers : call[c].op # "import" => work[c].at = "none"
    /\ Sane
    /\ Registered
-----------------------------------------------------------------------------
(* Steps that no caller of substitute can tell.                             *)

\* A call of another operation moves on, or the caller of substitute reads its
\* answer.
OtherCall(c) ==
    \/ call'[c] = call[c]
    \/ /\ call[c].op # "import"
       /\ IsCall(call'[c])
       /\ call'[c].op \notin {"none", "import"} /\ call'[c].at \notin {"idle", "joined"}
    \/ call[c].at = "joined" /\ call'[c] = [call[c] EXCEPT !.at = "done"]

\* An import moves on and has no answer yet.
OtherWork(c) ==
    /\ WorkOK(work'[c])
    /\ work'[c].key = work[c].key
    /\ work'[c].at = "none" <=> work[c].at = "none"
    /\ work'[c].at = "over" <=> work[c].at = "over"
    /\ work[c].at = "over" => work'[c].what = work[c].what /\ work'[c].from = work[c].from

\* Such steps keep the invariant and change nothing a caller of substitute sees.
LEMMA InvisibleStep ==
  ASSUME ImportInv, Sane', UNCHANGED <<valid, active>>,
         call' = [c \in Callers |-> call'[c]], work' = [c \in Callers |-> work'[c]],
         \A c \in Callers : OtherCall(c) /\ OtherWork(c)
  PROVE  ImportInv' /\ UNCHANGED Shared!importVars
  <1>1. \A c \in Callers : Runs(work[c]) <=> Runs(work'[c])
    BY ZenonT(120) DEF ImportInv, WorkOK, OtherWork, Runs
  <1>2. Registered'
    <2>1. \A k \in Key : active[k] # None => active[k] \in Callers
      BY SMTT(120) DEF ImportInv, Registered
    <2> QED BY ZenonT(120), <1>1, <2>1 DEF ImportInv, Registered, OtherWork
  <1>3. ASSUME NEW c \in Callers
        PROVE  CallOK(call[c])'
    <2>1. CASE call'[c] = call[c]
      BY SMTT(120), <2>1 DEF ImportInv, CallOK, OtherWork, KeyOf, IsCall
    <2>2. CASE call[c].at = "joined" /\ call'[c] = [call[c] EXCEPT !.at = "done"]
      BY SMTT(120), <2>2 DEF ImportInv, CallOK, OtherWork, KeyOf, IsCall
    <2>3. CASE call'[c].op \notin {"none", "import"} /\ call'[c].at \notin {"idle", "joined"} /\ IsCall(call'[c])
      BY ZenonT(120), <2>3 DEF CallOK, IsCall
    <2> QED BY ZenonT(120), <2>1, <2>2, <2>3 DEF OtherCall
  <1>4. \A c \in Callers : WorkOK(work[c])'
    BY ZenonT(120) DEF OtherWork, WorkOK, IsWork, Runs
  <1>5. \A c \in Callers : call'[c].op # "import" => work'[c].at = "none"
    <2> SUFFICES ASSUME NEW c \in Callers, call'[c].op # "import" PROVE work'[c].at = "none"
      BY ZenonT(120)
    <2>1. call[c].op # "import"
      BY SMTT(120) DEF OtherCall, ImportInv, CallOK, IsCall
    <2> QED BY ZenonT(120), <2>1 DEF OtherWork, ImportInv
  <1>6. ASSUME NEW c \in Callers
        PROVE  ImportCaller(c)' = ImportCaller(c)
    <2>1. CASE call'[c] = call[c]
      <3>1. CASE call[c].op = "import" /\ call[c].at \notin {"left", "refused"}
        <4>1. call[c].join \in Callers
          BY ZenonT(120), <3>1 DEF ImportInv, CallOK
        <4> QED BY SMTT(120), <2>1, <4>1 DEF ImportCaller, OtherWork
      <3>2. CASE ~(call[c].op = "import" /\ call[c].at \notin {"left", "refused"})
        BY ZenonT(120), <2>1, <3>2 DEF ImportCaller
      <3> QED BY ZenonT(120), <3>1, <3>2
    <2>2. CASE call[c].at = "joined" /\ call'[c] = [call[c] EXCEPT !.at = "done"]
      <3>1. call[c].join \in Callers /\ call[c].op = "import" /\ IsCall(call[c])
        BY ZenonT(120), <2>2 DEF ImportInv, CallOK
      <3>2. /\ call'[c].op = "import" /\ call'[c].at = "done" /\ call'[c].join = call[c].join
            /\ call'[c].path = call[c].path /\ call'[c].set = call[c].set
        BY ZenonT(120), <2>2, <3>1 DEF IsCall
      <3> QED BY SMTT(120), <2>2, <3>1, <3>2 DEF ImportCaller, OtherWork
    <2>3. CASE call'[c].op # "import" /\ call[c].op # "import"
      BY ZenonT(120), <2>3 DEF ImportCaller, Knows
    <2> QED BY ZenonT(120), <2>1, <2>2, <2>3 DEF OtherCall
  <1> QED BY ZenonT(120), <1>2, <1>3, <1>4, <1>5, <1>6 DEF ImportInv, Shared!importVars

-----------------------------------------------------------------------------
(* Steps of the shared import.                                              *)

\* What a caller of substitute knows, by the import it joined.
LEMMA JoinedCaller ==
  ASSUME ImportInv, NEW c \in Callers, call[c].op = "import", call[c].at \in {"joined", "done"}
  PROVE  /\ call[c].join \in Callers
         /\ work[call[c].join].at = "over" =>
              ImportCaller(c) = Knows("answered", KeyOf(call[c]), work[call[c].join].what,
                                      work[call[c].join].from)
         /\ work[call[c].join].at # "over" =>
              /\ ImportCaller(c) = Knows("waiting", KeyOf(call[c]), None, None)
              /\ Runs(work[call[c].join])
              /\ active[KeyOf(call[c])] = call[c].join
  <1>1. /\ call[c].join \in Callers /\ work[call[c].join].at # "none"
        /\ work[call[c].join].key = KeyOf(call[c])
    BY ZenonT(120) DEF ImportInv, CallOK
  <1>2. work[call[c].join].at # "over" => Runs(work[call[c].join])
    BY ZenonT(120), <1>1 DEF ImportInv, WorkOK
  <1>3. Runs(work[call[c].join]) => active[KeyOf(call[c])] = call[c].join
    BY ZenonT(120), <1>1 DEF ImportInv, Registered
  <1>4. ImportCaller(c) = IF work[call[c].join].at = "over"
                          THEN Knows("answered", KeyOf(call[c]), work[call[c].join].what,
                                     work[call[c].join].from)
                          ELSE Knows("waiting", KeyOf(call[c]), None, None)
    BY ZenonT(120) DEF ImportCaller, KeyOf
  <1> QED BY ZenonT(120), <1>1, <1>2, <1>3, <1>4

\* A caller that has joined no import, or has left it, knows what its own call says.
LEMMA OtherCaller ==
  ASSUME ImportInv, NEW c \in Callers, ~(call[c].op = "import" /\ call[c].at \in {"joined", "done"})
  PROVE  ImportCaller(c) = IF call[c].op # "import" THEN Knows("idle", None, None, None)
                           ELSE IF call[c].at = "left" THEN Knows("left", KeyOf(call[c]), None, None)
                           ELSE Knows("answered", KeyOf(call[c]), "closed", None)
  BY ZenonT(120) DEF ImportInv, CallOK, ImportCaller, KeyOf

\* The answer of an import ends the wait of those who joined it, and no other.
LEMMA AnswerStep ==
  ASSUME ImportInv, Sane', NEW c \in Callers, NEW what \in {"ok", "none", "failed", "gone"},
         Runs(work[c]), AnswerImport(c, what), UNCHANGED call,
         NEW from \in Stores \cup {None}, from = work[c].from, NEW k, k = work[c].key,
         IF what = "ok" THEN from \in k.set /\ valid' = valid \cup {k.path} ELSE UNCHANGED valid
  PROVE  ImportInv' /\ Shared!ImportNext
  <1>1. k \in Key /\ active[k] = c /\ IsWork(work[c])
    BY ZenonT(120) DEF ImportInv, Registered, WorkOK
  <1>2. /\ work' = [d \in Callers |-> work'[d]]
        /\ \A d \in Callers : d # c => work'[d] = work[d]
        /\ work'[c].at = "over" /\ work'[c].key = k /\ work'[c].from = from
        /\ work'[c].what = what /\ work'[c].back = {} /\ IsWork(work'[c])
    BY ZenonT(120), <1>1 DEF ImportInv, AnswerImport, IsWork
  <1>3. active' = [j \in Key |-> IF j = k THEN None ELSE active[j]]
    BY ZenonT(120), <1>1 DEF ImportInv, Registered, AnswerImport
  <1>4. \A d \in Callers : WorkOK(work[d])'
    BY SMTT(120), <1>2 DEF ImportInv, WorkOK, IsWork, Runs
  <1>5. \A d \in Callers : CallOK(call[d])'
    BY SMTT(120), <1>2 DEF ImportInv, CallOK, IsCall, KeyOf
  <1>6. Registered'
    <2>1. active' \in [Key -> Callers \cup {None}]
      BY ZenonT(120), <1>3 DEF ImportInv, Registered
    <2>2. ASSUME NEW j \in Key, active'[j] # None
          PROVE  work'[active'[j]].key = j /\ Runs(work'[active'[j]])
      <3>1. j # k /\ active'[j] = active[j]
        BY ZenonT(120), <1>3, <2>2
      <3>2. active[j] \in Callers /\ work[active[j]].key = j /\ Runs(work[active[j]])
        BY SMTT(120), <2>2, <3>1 DEF ImportInv, Registered
      <3> QED BY ZenonT(120), <1>2, <3>1, <3>2
    <2>3. ASSUME NEW d \in Callers, Runs(work'[d])
          PROVE  work'[d].key \in Key /\ active'[work'[d].key] = d
      <3>1. d # c
        BY ZenonT(120), <1>2, <2>3 DEF Runs
      <3>2. work[d].key \in Key /\ active[work[d].key] = d
        BY SMTT(120), <1>2, <2>3, <3>1 DEF ImportInv, Registered
      <3> QED BY ZenonT(120), <1>1, <1>2, <1>3, <3>1, <3>2
    <2> QED BY ZenonT(120), <2>1, <2>2, <2>3 DEF Registered
  <1>7. ImportInv'
    <2>1. \A d \in Callers : call[d].op # "import" => work'[d].at = "none"
      BY SMTT(120), <1>2 DEF ImportInv, Runs
    <2> QED BY ZenonT(120), <1>2, <1>4, <1>5, <1>6, <2>1 DEF ImportInv
  <1>8. ASSUME NEW d \in Callers
        PROVE  ImportCaller(d)' =
                 IF ImportCaller(d).at = "waiting" /\ ImportCaller(d).key = k
                 THEN Knows("answered", ImportCaller(d).key, what, from)
                 ELSE ImportCaller(d)
    <2>1. CASE call[d].op = "import" /\ call[d].at \in {"joined", "done"} /\ call[d].join = c
      <3>1. ImportCaller(d) = Knows("waiting", KeyOf(call[d]), None, None)
        BY ZenonT(120), <2>1, JoinedCaller DEF Runs
      <3>2. ImportCaller(d)' = Knows("answered", KeyOf(call[d]), what, from)
        BY ZenonT(120), <1>2, <2>1 DEF ImportCaller, KeyOf, Knows
      <3>3. KeyOf(call[d]) = k
        BY ZenonT(120), <2>1 DEF ImportInv, CallOK
      <3> QED BY SMTT(120), <3>1, <3>2, <3>3 DEF Knows
    <2>2. CASE call[d].op = "import" /\ call[d].at \in {"joined", "done"} /\ call[d].join # c
      <3>1. work'[call[d].join] = work[call[d].join] /\ call[d].join \in Callers
        BY ZenonT(120), <1>2, <2>2, JoinedCaller
      <3>2. ImportCaller(d)' = ImportCaller(d)
        BY ZenonT(120), <3>1 DEF ImportCaller, Knows
      <3>3. ~(ImportCaller(d).at = "waiting" /\ ImportCaller(d).key = k)
        BY SMTT(120), <1>1, <2>2, JoinedCaller DEF Knows
      <3> QED BY ZenonT(120), <3>2, <3>3
    <2>3. CASE ~(call[d].op = "import" /\ call[d].at \in {"joined", "done"})
      <3>1. ImportCaller(d).at # "waiting"
        BY SMTT(120), <2>3, OtherCaller DEF Knows
      <3>2. ImportCaller(d)' = ImportCaller(d)
        BY ZenonT(120), <2>3 DEF ImportInv, CallOK, ImportCaller, Knows
      <3> QED BY ZenonT(120), <3>1, <3>2
    <2> QED BY ZenonT(120), <2>1, <2>2, <2>3
  <1>9. {j \in Key : active[j] # None}' = {j \in Key : active[j] # None} \ {k}
    BY ZenonT(120), <1>3
  <1>10. k \in {j \in Key : active[j] # None}
    BY ZenonT(120), <1>1, SubstAssumption
  <1>11. Shared!Ends(k, what, from)
    BY ZenonT(120), <1>8, <1>9, <1>10 DEF Shared!Ends, Shared!Waits, Shared!Answered, Shared!Knows, Knows
  <1>12. what \in Shared!Outcome /\ k \in Shared!Key
    BY ZenonT(120), <1>1 DEF Shared!Outcome, Shared!Key, Key
  <1> QED BY ZenonT(120), <1>7, <1>11, <1>12 DEF Shared!ImportNext

\* One caller of substitute moves and the imports stay as they are.
LEMMA OneCallerStep ==
  ASSUME ImportInv, Sane', NEW c \in Callers, UNCHANGED <<active, work>>,
         call' = [call EXCEPT ![c] = call'[c]],
         CallOK(call'[c]), call'[c].op = "import"
  PROVE  /\ ImportInv'
         /\ [d \in Callers |-> ImportCaller(d)]' =
              [[d \in Callers |-> ImportCaller(d)] EXCEPT ![c] = ImportCaller(c)']
  <1>1. call' = [d \in Callers |-> call'[d]] /\ \A d \in Callers : d # c => call'[d] = call[d]
    BY ZenonT(120) DEF ImportInv
  <1>2. \A d \in Callers : CallOK(call[d])'
    BY SMTT(120), <1>1 DEF ImportInv, CallOK
  <1>3. \A d \in Callers : WorkOK(work[d])'
    BY ZenonT(120) DEF ImportInv, WorkOK, IsWork, Runs
  <1>4. Registered'
    BY ZenonT(120) DEF ImportInv, Registered, Runs
  <1>5. \A d \in Callers : d # c => ImportCaller(d)' = ImportCaller(d)
    BY SMTT(120), <1>1 DEF ImportCaller, Knows
  <1>6. \A d \in Callers : call'[d].op # "import" => work'[d].at = "none"
    BY ZenonT(120), <1>1 DEF ImportInv
  <1>7. work' = [d \in Callers |-> work'[d]]
    BY ZenonT(120) DEF ImportInv
  <1> QED BY ZenonT(120), <1>1, <1>2, <1>3, <1>4, <1>5, <1>6, <1>7 DEF ImportInv

\* substitute asks the shared import, or is refused by a closed queue.
LEMMA SubstituteStep ==
  ASSUME ImportInv, Sane', NEW c \in Callers, NEW p \in Paths, NEW S \in Sets, Substitute(c, p, S)
  PROVE  ImportInv' /\ Shared!ImportNext
  <1> DEFINE r == Begun(c, "import", p, S)
  <1> DEFINE k == ImportKey(p, S)
  <1>1. /\ k \in Key /\ k \in Shared!Key /\ IsCall(call[c]) /\ call[c].at = "idle"
        /\ call[c].op # "import" /\ work[c].at = "none"
    BY ZenonT(120) DEF Substitute, ImportInv, CallOK, Key, Shared!Key, ImportKey
  <1>2. ImportCaller(c) = Knows("idle", None, None, None)
    BY ZenonT(120), <1>1 DEF ImportCaller
  <1>3. IsCall(r) /\ r.op = "import" /\ r.path = p /\ r.set = S /\ KeyOf(r) = k
    BY ZenonT(120), <1>1 DEF Begun, IsCall, KeyOf, ImportKey
  <1> HIDE DEF r
  <1>4. CASE active[k] # None /\ SetCall(c, Joined(r, "joined", active[k])) /\ UNCHANGED imports
    <2>1. /\ call'[c].op = "import" /\ call'[c].path = p /\ call'[c].set = S
          /\ call'[c].at = "joined" /\ call'[c].join = active[k] /\ IsCall(call'[c])
      BY ZenonT(120), <1>3, <1>4 DEF SetCall, Joined, IsCall, ImportInv
    <2>2. KeyOf(call'[c]) = k
      BY ZenonT(120), <2>1 DEF KeyOf, ImportKey
    <2>3. active[k] \in Callers /\ work[active[k]].key = k /\ Runs(work[active[k]])
      <3>1. Registered /\ active[k] # None /\ k \in Key
        BY ZenonT(120), <1>1, <1>4 DEF ImportInv
      <3> HIDE DEF k
      <3> QED BY SMTT(120), <3>1 DEF Registered
    <2>4. CallOK(call'[c])
      BY ZenonT(120), <1>1, <2>1, <2>2, <2>3 DEF CallOK, Runs
    <2>5. ImportCaller(c)' = Knows("waiting", k, None, None)
      BY ZenonT(120), <1>4, <2>1, <2>2, <2>3 DEF ImportCaller, KeyOf, Runs, imports, Knows
    <2>6. /\ ImportInv'
          /\ [d \in Callers |-> ImportCaller(d)]' =
               [[d \in Callers |-> ImportCaller(d)] EXCEPT ![c] = Knows("waiting", k, None, None)]
      BY ZenonT(120), <1>4, <2>1, <2>4, <2>5, OneCallerStep DEF SetCall, imports
    <2>7. Shared!Asks(c, k)
      BY SMTT(120), <1>1, <1>2, <1>4, <2>6 DEF Shared!Asks, Shared!Knows, Knows, Substitute, imports
    <2> QED BY ZenonT(120), <1>1, <2>6, <2>7 DEF Shared!ImportNext
  <1>5. CASE active[k] = None /\ SetCall(c, Joined(r, "refused", None)) /\ UNCHANGED imports
    <2>1. /\ call'[c].op = "import" /\ call'[c].path = p /\ call'[c].set = S
          /\ call'[c].at = "refused" /\ IsCall(call'[c])
      BY ZenonT(120), <1>3, <1>5 DEF SetCall, Joined, IsCall, ImportInv
    <2>2. KeyOf(call'[c]) = k
      BY ZenonT(120), <2>1 DEF KeyOf, ImportKey
    <2>3. CallOK(call'[c])
      BY ZenonT(120), <1>1, <2>1, <2>2 DEF CallOK
    <2>4. ImportCaller(c)' = Knows("answered", k, "closed", None)
      BY ZenonT(120), <2>1, <2>2 DEF ImportCaller, KeyOf, Knows
    <2>5. /\ ImportInv'
          /\ [d \in Callers |-> ImportCaller(d)]' =
               [[d \in Callers |-> ImportCaller(d)] EXCEPT ![c] = Knows("answered", k, "closed", None)]
      BY ZenonT(120), <1>5, <2>1, <2>3, <2>4, OneCallerStep DEF SetCall, imports
    <2>6. Shared!Refuses(c, k)
      BY SMTT(120), <1>1, <1>2, <1>5, <2>5 DEF Shared!Refuses, Shared!Knows, Knows, Substitute, imports
    <2> QED BY ZenonT(120), <1>1, <2>5, <2>6 DEF Shared!ImportNext
  <1>6. CASE /\ active[k] = None
             /\ SetCall(c, Joined(r, "joined", c))
             /\ active' = [active EXCEPT ![k] = c]
             /\ work' = [work EXCEPT ![c] = [Work EXCEPT !.at = "begun", !.key = k]]
    <2>1. /\ call'[c].op = "import" /\ call'[c].path = p /\ call'[c].set = S
          /\ call'[c].at = "joined" /\ call'[c].join = c /\ IsCall(call'[c])
          /\ call' = [d \in Callers |-> call'[d]] /\ \A d \in Callers : d # c => call'[d] = call[d]
      BY ZenonT(120), <1>3, <1>6 DEF SetCall, Joined, IsCall, ImportInv
    <2>2. KeyOf(call'[c]) = k
      BY ZenonT(120), <2>1 DEF KeyOf, ImportKey
    <2>3. /\ work'[c].at = "begun" /\ work'[c].key = k /\ work'[c].from = None
          /\ work'[c].back = {} /\ IsWork(work'[c])
          /\ work' = [d \in Callers |-> work'[d]] /\ \A d \in Callers : d # c => work'[d] = work[d]
      BY ZenonT(120), <1>6 DEF ImportInv, Work, IsWork
    <2>4. active' = [j \in Key |-> IF j = k THEN c ELSE active[j]]
      BY ZenonT(120), <1>6 DEF ImportInv, Registered
    <2>5. ASSUME NEW d \in Callers
          PROVE  CallOK(call[d])'
      <3>1. CASE d = c
        BY ZenonT(120), <1>1, <2>1, <2>2, <2>3, <3>1 DEF CallOK
      <3>2. CASE d # c
        BY SMTT(120), <1>1, <2>1, <2>3, <3>2 DEF CallOK, ImportInv, KeyOf
      <3> QED BY ZenonT(120), <3>1, <3>2
    <2>6. \A d \in Callers : WorkOK(work[d])'
      BY SMTT(120), <2>3 DEF ImportInv, WorkOK, IsWork, Runs
    <2>7. Registered'
      <3>1. active' \in [Key -> Callers \cup {None}]
        BY ZenonT(120), <2>4 DEF ImportInv, Registered
      <3>2. ASSUME NEW j \in Key, active'[j] # None
            PROVE  work'[active'[j]].key = j /\ Runs(work'[active'[j]])
        <4>1. CASE j = k
          BY ZenonT(120), <2>3, <2>4, <4>1 DEF Runs
        <4>2. CASE j # k
          <5>1. active[j] \in Callers /\ work[active[j]].key = j /\ Runs(work[active[j]])
            BY ZenonT(120), <2>4, <3>2, <4>2 DEF ImportInv, Registered
          <5> QED BY ZenonT(120), <1>1, <2>3, <2>4, <4>2, <5>1 DEF Runs
        <4> QED BY ZenonT(120), <4>1, <4>2
      <3>3. ASSUME NEW d \in Callers, Runs(work'[d])
            PROVE  work'[d].key \in Key /\ active'[work'[d].key] = d
        <4>1. CASE d = c
          BY ZenonT(120), <1>1, <2>3, <2>4, <4>1
        <4>2. CASE d # c
          <5>1. work[d].key \in Key /\ active[work[d].key] = d
            BY ZenonT(120), <2>3, <3>3, <4>2 DEF ImportInv, Registered
          <5> QED BY SMTT(120), <1>6, <2>3, <2>4, <4>2, <5>1, SubstAssumption
        <4> QED BY ZenonT(120), <4>1, <4>2
      <3> QED BY ZenonT(120), <3>1, <3>2, <3>3 DEF Registered
    <2>8. ImportInv'
      BY SMTT(120), <2>1, <2>3, <2>5, <2>6, <2>7 DEF ImportInv
    <2>9. ASSUME NEW d \in Callers
          PROVE  ImportCaller(d)' = IF d = c THEN Knows("waiting", k, None, None) ELSE ImportCaller(d)
      <3>1. CASE d = c
        BY ZenonT(120), <2>1, <2>2, <2>3, <3>1 DEF ImportCaller, KeyOf, Knows
      <3>2. CASE d # c /\ call[d].op = "import" /\ call[d].at \in {"joined", "done"}
        <4>1. call[d].join \in Callers /\ call[d].join # c
          BY ZenonT(120), <1>1, <3>2 DEF ImportInv, CallOK
        <4> QED BY SMTT(120), <2>1, <2>3, <3>2, <4>1 DEF ImportCaller, Knows
      <3>3. CASE d # c /\ ~(call[d].op = "import" /\ call[d].at \in {"joined", "done"})
        BY SMTT(120), <2>1, <3>3 DEF ImportCaller, Knows, ImportInv, CallOK
      <3> QED BY ZenonT(120), <3>1, <3>2, <3>3
    <2>10. [d \in Callers |-> ImportCaller(d)]' =
             [[d \in Callers |-> ImportCaller(d)] EXCEPT ![c] = Knows("waiting", k, None, None)]
      BY ZenonT(120), <2>9
    <2>11. {j \in Key : active[j] # None}' = {j \in Key : active[j] # None} \cup {k}
      BY SMTT(120), <1>1, <2>4, SubstAssumption
    <2>12. Shared!Asks(c, k)
      BY SMTT(120), <1>2, <2>10, <2>11 DEF Shared!Asks, Shared!Knows, Knows, Substitute
    <2> QED BY ZenonT(120), <1>1, <2>8, <2>12 DEF Shared!ImportNext
  <1> QED BY ZenonT(120), <1>4, <1>5, <1>6 DEF Substitute, r

\* A caller that is cancelled leaves the import to the others.
LEMMA LeaveStep ==
  ASSUME ImportInv, Sane', NEW c \in Callers, Leave(c), call[c].at = "joined"
  PROVE  ImportInv' /\ Shared!ImportNext
  <1>1. IsCall(call[c]) /\ call[c].op = "import" /\ KeyOf(call[c]) \in Key
    BY ZenonT(120) DEF ImportInv, CallOK
  <1>2. /\ call'[c].op = "import" /\ call'[c].at = "left" /\ IsCall(call'[c])
        /\ KeyOf(call'[c]) = KeyOf(call[c])
    BY ZenonT(120), <1>1 DEF Leave, SetCall, Moved, Done, IsCall, KeyOf, ImportInv
  <1>3. CallOK(call'[c])
    BY ZenonT(120), <1>1, <1>2 DEF CallOK
  <1>4. ImportCaller(c)' = Knows("left", KeyOf(call[c]), None, None)
    BY ZenonT(120), <1>2 DEF ImportCaller, KeyOf, Knows
  <1>5. ImportCaller(c).key = KeyOf(call[c]) /\ ImportCaller(c).at \in {"waiting", "answered"}
    BY SMTT(120), <1>1, JoinedCaller DEF Knows
  <1>6. /\ ImportInv'
        /\ [d \in Callers |-> ImportCaller(d)]' =
             [[d \in Callers |-> ImportCaller(d)] EXCEPT ![c] = ImportCaller(c)']
    BY ZenonT(120), <1>2, <1>3, OneCallerStep DEF Leave, SetCall, imports
  <1>7. Shared!Leaves(c)
    BY ZenonT(120), <1>4, <1>5, <1>6 DEF Shared!Leaves, Shared!Knows, Knows, Leave, imports
  <1> QED BY ZenonT(120), <1>6, <1>7 DEF Shared!ImportNext

\* close answers every import that runs.
LEMMA CloseStep ==
  ASSUME ImportInv, Sane', Close
  PROVE  ImportInv' /\ Shared!ImportNext
  <1>1. UNCHANGED <<call, valid>> /\ active' = [k \in Key |-> None]
    BY ZenonT(120) DEF Close
  <1>2. /\ work' = [c \in Callers |-> work'[c]]
        /\ \A c \in Callers : work[c].at \in {"none", "over"} => work'[c] = work[c]
        /\ \A c \in Callers : work[c].at \notin {"none", "over"} =>
             /\ work'[c].at = "over" /\ work'[c].what = "closed" /\ work'[c].from = None
             /\ work'[c].key = work[c].key /\ work'[c].back = {} /\ IsWork(work'[c])
    BY ZenonT(120) DEF Close, ImportInv, WorkOK, IsWork
  <1>3. \A c \in Callers : WorkOK(work[c])'
    BY SMTT(120), <1>2 DEF ImportInv, WorkOK, IsWork, Runs
  <1>4. \A c \in Callers : CallOK(call[c])'
    <2> SUFFICES ASSUME NEW c \in Callers PROVE CallOK(call[c])'
      BY ZenonT(120)
    <2>1. CallOK(call[c])
      BY ZenonT(120) DEF ImportInv
    <2>2. call[c].join \in Callers =>
            /\ work'[call[c].join].key = work[call[c].join].key
            /\ work[call[c].join].at # "none" => work'[call[c].join].at # "none"
      BY ZenonT(120), <1>2
    <2>3. call'[c] = call[c]
      BY ZenonT(120), <1>1
    <2>4. CASE call[c].op = "import" /\ call[c].at \in {"joined", "done"}
      <3>1. /\ call[c].join \in Callers /\ work[call[c].join].at # "none"
            /\ work[call[c].join].key = KeyOf(call[c])
        BY ZenonT(120), <2>1, <2>4 DEF CallOK
      <3>2. work'[call[c].join].at # "none" /\ work'[call[c].join].key = KeyOf(call[c])
        BY ZenonT(120), <2>2, <3>1
      <3> QED BY ZenonT(120), <2>1, <2>3, <2>4, <3>1, <3>2 DEF CallOK
    <2>5. CASE ~(call[c].op = "import" /\ call[c].at \in {"joined", "done"})
      BY ZenonT(120), <2>1, <2>3, <2>5 DEF CallOK
    <2> QED BY ZenonT(120), <2>4, <2>5
  <1>5. Registered'
    BY ZenonT(120), <1>1, <1>2 DEF Registered, Runs
  <1>6. ImportInv'
    BY SMTT(120), <1>1, <1>2, <1>3, <1>4, <1>5 DEF ImportInv
  <1>7. ASSUME NEW c \in Callers
        PROVE  ImportCaller(c)' = IF ImportCaller(c).at = "waiting"
                                  THEN Knows("answered", ImportCaller(c).key, "closed", None)
                                  ELSE ImportCaller(c)
    <2>1. CASE call[c].op = "import" /\ call[c].at \in {"joined", "done"}
      <3>1. ImportCaller(c)' = IF work'[call[c].join].at = "over"
                               THEN Knows("answered", KeyOf(call[c]), work'[call[c].join].what,
                                          work'[call[c].join].from)
                               ELSE Knows("waiting", KeyOf(call[c]), None, None)
        BY ZenonT(120), <1>1, <2>1 DEF ImportCaller, KeyOf, Knows
      <3>2. CASE work[call[c].join].at = "over"
        BY SMTT(120), <1>2, <2>1, <3>1, <3>2, JoinedCaller DEF Knows
      <3>3. CASE work[call[c].join].at # "over"
        BY SMTT(120), <1>2, <2>1, <3>1, <3>3, JoinedCaller DEF Knows, Runs
      <3> QED BY ZenonT(120), <3>2, <3>3
    <2>2. CASE ~(call[c].op = "import" /\ call[c].at \in {"joined", "done"})
      <3>1. ImportCaller(c).at # "waiting"
        BY SMTT(120), <2>2, OtherCaller DEF Knows
      <3>2. ImportCaller(c)' = ImportCaller(c)
        BY ZenonT(120), <1>1, <2>2 DEF ImportInv, CallOK, ImportCaller, Knows
      <3> QED BY ZenonT(120), <3>1, <3>2
    <2> QED BY ZenonT(120), <2>1, <2>2
  <1>8. {k \in Key : active[k] # None}' = {}
    BY ZenonT(120), <1>1
  <1>9. Shared!Closes
    BY ZenonT(120), <1>1, <1>7, <1>8 DEF Shared!Closes, Shared!Answered, Shared!Knows, Knows
  <1> QED BY ZenonT(120), <1>6, <1>9 DEF Shared!ImportNext

-----------------------------------------------------------------------------
(* Every action.                                                            *)

\* A call of another operation moves on.
LEMMA OtherCallStep ==
  ASSUME ImportInv, Sane', NEW c \in Callers, UNCHANGED <<valid, active, work>>,
         call' = [call EXCEPT ![c] = call'[c]],
         call[c].op # "import", IsCall(call'[c]), call'[c].op \notin {"none", "import"},
         call'[c].at \notin {"idle", "joined"}
  PROVE  ImportInv' /\ UNCHANGED Shared!importVars
  <1>1. call' = [d \in Callers |-> call'[d]] /\ \A d \in Callers : OtherCall(d)
    BY ZenonT(120) DEF ImportInv, OtherCall
  <1>2. \A d \in Callers : OtherWork(d)
    BY ZenonT(120) DEF ImportInv, OtherWork
  <1>3. work' = [d \in Callers |-> work'[d]]
    BY ZenonT(120) DEF ImportInv
  <1> QED BY ZenonT(120), <1>1, <1>2, <1>3, InvisibleStep

\* An import that has no answer yet moves on.
LEMMA OtherWorkStep ==
  ASSUME ImportInv, Sane', NEW c \in Callers, UNCHANGED <<valid, active, call>>,
         work' = [work EXCEPT ![c] = work'[c]], OtherWork(c)
  PROVE  ImportInv' /\ UNCHANGED Shared!importVars
  <1>1. /\ work' = [d \in Callers |-> work'[d]] /\ \A d \in Callers : OtherWork(d)
    BY ZenonT(120) DEF ImportInv, OtherWork
  <1>2. call' = [d \in Callers |-> call'[d]] /\ \A d \in Callers : OtherCall(d)
    BY ZenonT(120) DEF ImportInv, OtherCall
  <1> QED BY ZenonT(120), <1>1, <1>2, InvisibleStep

\* A step that leaves calls, imports and the local store alone.
LEMMA QuietStep ==
  ASSUME ImportInv, Sane', UNCHANGED <<valid, active, call, work>>
  PROVE  ImportInv' /\ UNCHANGED Shared!importVars
  <1>1. /\ work' = [d \in Callers |-> work'[d]] /\ \A d \in Callers : OtherWork(d)
    BY ZenonT(120) DEF ImportInv, OtherWork
  <1>2. call' = [d \in Callers |-> call'[d]] /\ \A d \in Callers : OtherCall(d)
    BY ZenonT(120) DEF ImportInv, OtherCall
  <1> QED BY ZenonT(120), <1>1, <1>2, InvisibleStep

\* The probes of a lookup are tasks.
LEMMA ProbesAreTasks ==
  ASSUME NEW kind \in {"can", "race", "select", "back", "nar"}, NEW c \in Callers,
         NEW S \in SUBSET Stores
  PROVE  Probes(kind, c, S) \subseteq Task
  BY SMTT(120) DEF Probes, Task

\* The stores an import asks are substituters.
LEMMA WorkStores ==
  ASSUME ImportInv, NEW c \in Callers, Runs(work[c])
  PROVE  work[c].key \in Key /\ work[c].key.set \in SUBSET Stores /\ work[c].back \in SUBSET Stores
  <1>1. work[c].key \in Key /\ work[c].back \in SUBSET Stores
    BY ZenonT(120) DEF ImportInv, Registered, WorkOK
  <1> QED BY ZenonT(120), <1>1, SubstAssumption DEF Key

\* A request of the HTTP server asks binary caches only.
LEMMA RaceIsSane ==
  ASSUME ImportInv, NEW c \in Callers, NEW p \in Paths,
         NarinfoRequest(c, p) \/ NarRequest(c, p)
  PROVE  Sane'
  <1>1. Http \in SUBSET Stores /\ Healthy(Http \ Cached(p)) \in SUBSET Stores
    BY ZenonT(120), SubstAssumption DEF Healthy
  <1>2. Begun(c, "race", p, Http).path = p /\ Begun(c, "nar", p, Http).path = p
    BY SMTT(120) DEF Begun, ImportInv, CallOK, IsCall
  <1>3. positive' = positive
    BY ZenonT(120) DEF NarinfoRequest, NarRequest, caches
  <1>4. tasks' \subseteq tasks \cup Probes("race", c, Http) \cup Probes("nar", c, Healthy(Http \ Cached(p)))
    BY ZenonT(120), <1>2 DEF NarinfoRequest, NarRequest, RaceHttpNarinfo, JoinsRace, Continues
  <1> QED BY ZenonT(120), <1>1, <1>3, <1>4, ProbesAreTasks DEF Sane, ImportInv

\* So does one that goes on after its cached stores or its race.
LEMMA WakeIsSane ==
  ASSUME ImportInv, NEW c \in Callers, NEW reply, Refetch(c, reply) \/ RaceWakes(c)
  PROVE  Sane'
  <1>1. Http \in SUBSET Stores /\ Healthy(Http \ Cached(call[c].path)) \in SUBSET Stores
    BY ZenonT(120), SubstAssumption DEF Healthy
  <1>2. IsCall(call[c])
    BY ZenonT(120) DEF ImportInv, CallOK
  <1>3. positive' = positive
    BY ZenonT(120) DEF Refetch, RaceWakes, caches
  <1>4. CASE Refetch(c, reply)
    <2>1. Moved(call[c], "refetch", call[c].pend \ {Best(call[c].pend)}).path = call[c].path
      BY ZenonT(120), <1>2 DEF IsCall, Moved
    <2>2. tasks' \subseteq tasks \cup Probes("race", c, Http)
                              \cup Probes("nar", c, Healthy(Http \ Cached(call[c].path)))
      BY ZenonT(120), <1>4, <2>1 DEF Refetch, JoinsRace, Continues
    <2> QED BY ZenonT(120), <1>1, <1>3, <2>2, ProbesAreTasks DEF Sane, ImportInv
  <1>5. CASE RaceWakes(c)
    <2>1. tasks' \subseteq tasks \cup Probes("nar", c, Healthy(Http \ Cached(call[c].path)))
      BY ZenonT(120), <1>5 DEF RaceWakes, Continues
    <2> QED BY ZenonT(120), <1>1, <1>3, <2>1, ProbesAreTasks DEF Sane, ImportInv
  <1> QED BY ZenonT(120), <1>4, <1>5

\* An answer is cached for the store that gave it.
LEMMA ReplyIsSane ==
  ASSUME ImportInv, NEW t \in tasks, NEW reply, QueryEnds(t, reply) \/ ProbeEnds(t, reply)
  PROVE  Sane'
  <1>1. t.store \in Stores
    BY ZenonT(120) DEF ImportInv, Sane, Task
  <1>2. positive' = positive \/ positive' = [positive EXCEPT ![PathOf(t)] = @ \cup {t.store}]
    BY ZenonT(120) DEF QueryEnds, ProbeEnds, Records
  <1>3. positive' \in [Paths -> SUBSET Stores]
    BY SMTT(120), <1>1, <1>2 DEF ImportInv, Sane
  <1> QED BY ZenonT(120), <1>3 DEF QueryEnds, ProbeEnds, ImportInv, Sane

\* An import asks the stores of its own list.
LEMMA ImporterIsSane ==
  ASSUME ImportInv, NEW c \in Callers, Importer(c)
  PROVE  Sane'
  <1>1. positive' = positive
    BY ZenonT(120) DEF Importer, GetSubstituter, Selected, Stream, ImportEnds, caches
  <1>2. CASE GetSubstituter(c)
    <2>1. work[c].key.set \in SUBSET Stores
      BY ZenonT(120), <1>2, WorkStores DEF GetSubstituter, Runs
    <2>2. Healthy(work[c].key.set \ Cached(work[c].key.path)) \in SUBSET Stores
      BY ZenonT(120), <2>1 DEF Healthy
    <2>3. tasks' \subseteq tasks \cup Probes("select", c, Healthy(work[c].key.set \ Cached(work[c].key.path)))
      BY ZenonT(120), <1>2 DEF GetSubstituter
    <2> QED BY ZenonT(120), <1>1, <2>2, <2>3, ProbesAreTasks DEF Sane, ImportInv
  <1>3. CASE Selected(c)
    <2>1. work[c].back \in SUBSET Stores
      BY ZenonT(120), <1>3, WorkStores DEF Selected, Runs
    <2>2. tasks' = tasks \cup Probes("back", c, work[c].back)
      BY ZenonT(120), <1>3 DEF Selected
    <2> QED BY ZenonT(120), <1>1, <2>1, <2>2, ProbesAreTasks DEF Sane, ImportInv
  <1>4. CASE Stream(c) \/ \E what \in {"ok", "gone", "failed"} : ImportEnds(c, what)
    BY ZenonT(120), <1>1, <1>4 DEF Stream, ImportEnds, Sane, ImportInv
  <1> QED BY ZenonT(120), <1>2, <1>3, <1>4 DEF Importer

\* can_substitute asks the stores of its caller.
LEMMA CanIsSane ==
  ASSUME ImportInv, NEW c \in Callers, NEW p \in Paths, NEW S \in Sets, CanSubstitute(c, p, S)
  PROVE  Sane'
  <1>1. S \ Cached(p) \in SUBSET Stores
    BY ZenonT(120), SubstAssumption
  <1>2. positive' = positive /\ tasks' \subseteq tasks \cup Probes("can", c, S \ Cached(p))
    BY ZenonT(120) DEF CanSubstitute, caches
  <1> QED BY ZenonT(120), <1>1, <1>2, ProbesAreTasks DEF Sane, ImportInv

-----------------------------------------------------------------------------
(* Every action is a step of the shared import, or changes nothing of it.   *)

\* A call goes on: it is still a call of its operation.
Follows(q, r) == IsCall(q) /\ q.op = r.op /\ q.at \notin {"idle", "joined"}

\* The ways in which a call goes on.
LEMMA CallEdits ==
  ASSUME NEW r, IsCall(r), NEW a, a \notin {"idle", "joined"}, NEW x
  PROVE  Follows(Moved(r, a, x), r) /\ Follows(Joined(r, a, x), r) /\ Follows(Done(r, x), r)
  BY ZenonT(120) DEF Follows, IsCall, Done, Moved, Joined

\* A call that begins is a call of its operation.
LEMMA BegunCall ==
  ASSUME ImportInv, NEW c \in Callers, NEW op, NEW p, NEW S
  PROVE  IsCall(Begun(c, op, p, S)) /\ Begun(c, op, p, S).op = op /\ Begun(c, op, p, S).path = p
  BY ZenonT(120) DEF Begun, IsCall, ImportInv, CallOK

\* can_substitute, and the wait of any caller of another operation.
LEMMA CanActions ==
  ASSUME ImportInv, Sane', NEW c \in Callers,
         \/ \E p \in Paths, S \in Sets : CanSubstitute(c, p, S)
         \/ CanWakes(c)
         \/ NarRanks(c)
         \/ \E reply \in Reply : NarFetch(c, reply)
         \/ (Leave(c) /\ call[c].at = "probing")
  PROVE  ImportInv' /\ UNCHANGED Shared!importVars
  <1>1. IsCall(call[c]) /\ CallOK(call[c])
    BY ZenonT(120) DEF ImportInv, CallOK
  <1>2. UNCHANGED <<valid, active, work>>
    BY ZenonT(120) DEF CanSubstitute, CanWakes, NarRanks, NarFetch, Leave, imports
  <1>3. call[c].op # "import" /\ call' = [call EXCEPT ![c] = call'[c]]
    BY ZenonT(120), <1>1 DEF CanSubstitute, CanWakes, NarRanks, NarFetch, Leave, SetCall, CallOK, ImportInv
  <1>4. /\ IsCall(call'[c]) /\ call'[c].op \notin {"none", "import"}
        /\ call'[c].at \notin {"idle", "joined"}
    <2>1. ASSUME NEW p \in Paths, NEW S \in Sets, CanSubstitute(c, p, S)
          PROVE  Follows(call'[c], Begun(c, "can", p, S))
      <3>1. \/ call'[c] = Done(Begun(c, "can", p, S), FirstListed(positive[p] \cap S))
            \/ call'[c] = Joined(Begun(c, "can", p, S), "refused", None)
            \/ call'[c] = Moved(Begun(c, "can", p, S), "probing", Healthy(S \ Cached(p)))
        BY ZenonT(120), <2>1 DEF CanSubstitute, SetCall, ImportInv
      <3> QED BY SMTT(120), <3>1, BegunCall, CallEdits
    <2>2. ASSUME CanWakes(c) \/ NarRanks(c) \/ (Leave(c) /\ call[c].at = "probing")
          PROVE  Follows(call'[c], call[c]) /\ call[c].at # "idle"
      <3>1. \/ call'[c] = Done(call[c], call[c].found)
            \/ call'[c] = Moved(call[c], "ranking", positive[call[c].path] \cap Http)
            \/ call'[c] = Moved(Done(call[c], None), "left", {})
        <4>0. call = [d \in Callers |-> call[d]]
          BY ZenonT(120) DEF ImportInv
        <4>1. CASE CanWakes(c)
          BY ZenonT(120), <4>0, <4>1 DEF CanWakes, SetCall
        <4>2. CASE NarRanks(c)
          BY ZenonT(120), <4>0, <4>2 DEF NarRanks, SetCall
        <4>3. CASE Leave(c) /\ call[c].at = "probing"
          BY ZenonT(120), <4>0, <4>3 DEF Leave, SetCall
        <4> QED BY ZenonT(120), <2>2, <4>1, <4>2, <4>3
      <3>2. Follows(Done(call[c], None), call[c]) /\ Follows(Done(call[c], call[c].found), call[c])
        BY SMTT(120), <1>1, CallEdits
      <3>3. Follows(Moved(Done(call[c], None), "left", {}), Done(call[c], None))
        BY SMTT(120), <3>2, CallEdits DEF Follows
      <3>4. Follows(Moved(call[c], "ranking", positive[call[c].path] \cap Http), call[c])
        BY ZenonT(120), <1>1, CallEdits
      <3>5. call[c].at # "idle"
        BY ZenonT(120), <2>2 DEF CanWakes, NarRanks
      <3> QED BY ZenonT(120), <3>1, <3>2, <3>3, <3>4, <3>5 DEF Follows
    <2>3. ASSUME NEW reply \in Reply, NarFetch(c, reply)
          PROVE  Follows(call'[c], call[c]) /\ call[c].at = "ranking"
      <3>1. \/ call'[c] = Done(call[c], Best(call[c].pend))
            \/ call'[c] = Moved(call[c], "ranking", call[c].pend \ {Best(call[c].pend)})
        BY ZenonT(120), <2>3 DEF NarFetch, SetCall, ImportInv
      <3> QED BY ZenonT(120), <1>1, <2>3, <3>1, CallEdits DEF NarFetch
    <2>4. CASE \E p \in Paths, S \in Sets : CanSubstitute(c, p, S)
      <3>1. PICK p \in Paths, S \in Sets : Follows(call'[c], Begun(c, "can", p, S))
        BY ZenonT(120), <2>1, <2>4
      <3> QED BY SMTT(120), <3>1, BegunCall DEF Follows
    <2>5. CASE Follows(call'[c], call[c]) /\ call[c].at # "idle"
      BY ZenonT(120), <1>1, <1>3, <2>5 DEF Follows, CallOK
    <2>6. (\E reply \in Reply : NarFetch(c, reply)) => Follows(call'[c], call[c]) /\ call[c].at # "idle"
      BY ZenonT(120), <2>3
    <2> QED BY ZenonT(120), <2>2, <2>4, <2>5, <2>6
  <1> QED BY ZenonT(120), <1>2, <1>3, <1>4, OtherCallStep

\* A request of the HTTP server, up to its race or its answer.
LEMMA HttpActions ==
  ASSUME ImportInv, Sane', NEW c \in Callers, NEW p \in Paths,
         NarinfoRequest(c, p) \/ NarRequest(c, p)
  PROVE  ImportInv' /\ UNCHANGED Shared!importVars
  <1>1. CallOK(call[c]) /\ call[c].at = "idle" /\ call[c].op # "import"
    BY ZenonT(120) DEF ImportInv, CallOK, NarinfoRequest, NarRequest
  <1>2. UNCHANGED <<valid, active, work>>
    BY ZenonT(120) DEF NarinfoRequest, NarRequest, imports
  <1>3. PICK op \in {"race", "nar"} :
          \E x, a : /\ a \notin {"idle", "joined"}
                    /\ \/ call'[c] = Done(Begun(c, op, p, Http), x)
                       \/ call'[c] = Moved(Begun(c, op, p, Http), a, x)
                       \/ call'[c] = Joined(Begun(c, op, p, Http), a, x)
    <2>1. CASE NarinfoRequest(c, p)
      <3> DEFINE r == Begun(c, "race", p, Http)
      <3>1. \E x : \/ call'[c] = Done(r, x) \/ call'[c] = Moved(r, "refetch", x)
                   \/ \E a \in {"refused", "racing"} : call'[c] = Joined(r, a, x)
        BY SMTT(120), <2>1 DEF NarinfoRequest, RaceHttpNarinfo, JoinsRace, SetCall, ImportInv
      <3> QED BY SMTT(120), <3>1
    <2>2. CASE NarRequest(c, p) /\ p \in hashPath
      BY SMTT(120), <2>2 DEF NarRequest, Continues, SetCall, ImportInv
    <2>3. CASE NarRequest(c, p) /\ p \notin hashPath
      BY SMTT(120), <2>3 DEF NarRequest, RaceHttpNarinfo, JoinsRace, SetCall, ImportInv
    <2> QED BY ZenonT(120), <2>1, <2>2, <2>3
  <1>4. Follows(call'[c], Begun(c, op, p, Http))
    BY SMTT(120), <1>3, BegunCall, CallEdits
  <1>5. call' = [call EXCEPT ![c] = call'[c]]
    BY ZenonT(120) DEF NarinfoRequest, NarRequest, RaceHttpNarinfo, JoinsRace, Continues, SetCall, ImportInv
  <1> QED BY SMTT(120), <1>1, <1>2, <1>4, <1>5, BegunCall, OtherCallStep DEF Follows

\* A request of the HTTP server goes on.
LEMMA HttpWakes ==
  ASSUME ImportInv, Sane', NEW c \in Callers, NEW reply, Refetch(c, reply) \/ RaceWakes(c)
  PROVE  ImportInv' /\ UNCHANGED Shared!importVars
  <1>1. /\ IsCall(call[c]) /\ CallOK(call[c]) /\ call[c].at \in {"refetch", "racing"}
        /\ call[c].op \notin {"none", "import"}
    BY ZenonT(120) DEF ImportInv, CallOK, Refetch, RaceWakes
  <1>2. UNCHANGED <<valid, active, work>>
    BY ZenonT(120) DEF Refetch, RaceWakes, imports
  <1>3. call' = [call EXCEPT ![c] = call'[c]]
    BY ZenonT(120) DEF Refetch, RaceWakes, JoinsRace, Continues, SetCall, ImportInv
  <1>4. Follows(call'[c], call[c])
    <2> DEFINE r == Moved(call[c], "refetch", call[c].pend \ {Best(call[c].pend)})
    <2>1. Follows(r, call[c])
      BY ZenonT(120), <1>1, CallEdits
    <2>2. PICK q \in {r, call[c]} :
            \/ call'[c] = r
            \/ \E x, a : /\ a \notin {"idle", "joined"}
                         /\ call'[c] = Done(q, x) \/ call'[c] = Moved(q, a, x) \/ call'[c] = Joined(q, a, x)
      <3>1. CASE Refetch(c, reply) /\ reply = "hit"
        BY ZenonT(120), <3>1 DEF Refetch, Continues, SetCall, ImportInv
      <3>2. CASE Refetch(c, reply) /\ reply # "hit"
        <4>1. \/ call'[c] = r
              \/ \E x : \E a \in {"refused", "racing"} : call'[c] = Joined(r, a, x)
          BY ZenonT(120), <3>2 DEF Refetch, JoinsRace, SetCall, ImportInv
        <4> QED BY ZenonT(120), <4>1
      <3>3. CASE RaceWakes(c)
        <4>1. \E x : \/ call'[c] = Done(call[c], x)
                     \/ \E a \in {"ranking", "querying"} : call'[c] = Moved(call[c], a, x)
          BY SMTT(120), <3>3 DEF RaceWakes, Continues, SetCall, ImportInv
        <4> QED BY SMTT(120), <4>1
      <3> QED BY ZenonT(120), <3>1, <3>2, <3>3
    <2>3. IsCall(q) /\ q.op = call[c].op
      BY ZenonT(120), <1>1, <2>1 DEF Follows
    <2>4. Follows(call'[c], q) \/ call'[c] = r
      BY ZenonT(120), <2>2, <2>3, CallEdits
    <2> QED BY ZenonT(120), <2>1, <2>3, <2>4 DEF Follows
  <1> QED BY ZenonT(120), <1>1, <1>2, <1>3, <1>4, OtherCallStep DEF Follows

\* The caller of substitute reads an answer it already has.
LEMMA SubstituteWakesStep ==
  ASSUME ImportInv, Sane', NEW c \in Callers, SubstituteWakes(c)
  PROVE  ImportInv' /\ UNCHANGED Shared!importVars
  <1>1. UNCHANGED <<valid, active, work>>
    BY ZenonT(120) DEF SubstituteWakes, imports
  <1>2. call' = [d \in Callers |-> call'[d]] /\ \A d \in Callers : OtherCall(d)
    BY ZenonT(120) DEF SubstituteWakes, SetCall, OtherCall, ImportInv
  <1>3. work' = [d \in Callers |-> work'[d]] /\ \A d \in Callers : OtherWork(d)
    BY ZenonT(120), <1>1 DEF ImportInv, OtherWork
  <1> QED BY ZenonT(120), <1>1, <1>2, <1>3, InvisibleStep

\* An import that takes a source takes one of its own list; one that finds none
\* answers.
LEMMA ChoosesStep ==
  ASSUME ImportInv, Sane', NEW c \in Callers, work[c].at \in {"begun", "selecting"},
         Chooses(c), UNCHANGED <<valid, call>>
  PROVE  ImportInv' /\ [Shared!ImportNext]_(Shared!importVars)
  <1> DEFINE known == positive[work[c].key.path] \cap work[c].key.set
  <1>1. Runs(work[c]) /\ IsWork(work[c]) /\ work[c].from = None
    BY ZenonT(120) DEF Runs, ImportInv, WorkOK
  <1>2. work[c].key.set \in SUBSET Stores
    BY ZenonT(120), <1>1, WorkStores
  <1>3. CASE Best(known) = None
    <2>1. AnswerImport(c, "none")
      BY ZenonT(120), <1>3 DEF Chooses
    <2>2. PICK k, from : k = work[c].key /\ from = work[c].from
      BY ZenonT(120)
    <2> QED BY ZenonT(120), <1>1, <2>1, <2>2, AnswerStep
  <1>4. CASE Best(known) # None
    <2>1. known # {} /\ known \in SUBSET Stores
      BY ZenonT(120), <1>2, <1>4 DEF Best
    <2>2. Best(known) \in work[c].key.set
      BY ZenonT(120), <2>1, BestIsMember
    <2>3. /\ active' = active
          /\ work' = [work EXCEPT ![c] = [work[c] EXCEPT !.at = "queued", !.from = Best(known), !.back = {}]]
      BY ZenonT(120), <1>4 DEF Chooses
    <2>4. /\ work' = [work EXCEPT ![c] = work'[c]] /\ work'[c].at = "queued" /\ work'[c].from = Best(known)
          /\ work'[c].key = work[c].key /\ work'[c].back = {} /\ IsWork(work'[c])
      BY ZenonT(120), <1>1, <2>3 DEF ImportInv, IsWork
    <2>5. OtherWork(c)
      BY ZenonT(120), <2>2, <2>4 DEF OtherWork, WorkOK, Runs
    <2> QED BY ZenonT(120), <2>3, <2>4, <2>5, OtherWorkStep
  <1> QED BY ZenonT(120), <1>3, <1>4

\* The steps of an import.
LEMMA ImporterActions ==
  ASSUME ImportInv, Sane', NEW c \in Callers, Importer(c)
  PROVE  ImportInv' /\ [Shared!ImportNext]_(Shared!importVars)
  <1>1. IsWork(work[c]) /\ WorkOK(work[c])
    BY ZenonT(120) DEF ImportInv, WorkOK
  <1>2. CASE GetSubstituter(c)
    <2> DEFINE stale == work[c].key.set \ Cached(work[c].key.path)
    <2>1. CASE stale = {}
      BY ZenonT(120), <1>2, <2>1, ChoosesStep DEF GetSubstituter
    <2>2. CASE stale # {}
      <3>1. /\ UNCHANGED <<active, valid, call>>
            /\ work' = [work EXCEPT ![c] = [work[c] EXCEPT !.at = "selecting", !.pend = Healthy(stale),
                                                          !.back = stale \ Healthy(stale)]]
        BY ZenonT(120), <1>2, <2>2 DEF GetSubstituter
      <3>2. stale \ Healthy(stale) \in SUBSET Stores /\ work[c].at = "begun"
        BY ZenonT(120), <1>2, WorkStores DEF GetSubstituter, Runs
      <3>3. /\ work' = [work EXCEPT ![c] = work'[c]] /\ work'[c].at = "selecting"
            /\ work'[c].key = work[c].key /\ work'[c].from = work[c].from
            /\ work'[c].back = stale \ Healthy(stale) /\ IsWork(work'[c])
        BY ZenonT(120), <1>1, <3>1 DEF ImportInv, IsWork
      <3>4. OtherWork(c)
        BY ZenonT(120), <1>1, <3>2, <3>3 DEF OtherWork, WorkOK, Runs
      <3> QED BY ZenonT(120), <3>1, <3>3, <3>4, OtherWorkStep
    <2> QED BY ZenonT(120), <2>1, <2>2
  <1>3. CASE Selected(c)
    BY ZenonT(120), <1>3, ChoosesStep DEF Selected
  <1>4. CASE Stream(c)
    <2>1. /\ UNCHANGED <<active, valid, call>> /\ work[c].at = "queued"
          /\ work' = [work EXCEPT ![c] = [work[c] EXCEPT !.at = "streaming"]]
      BY ZenonT(120), <1>4 DEF Stream
    <2>2. /\ work' = [work EXCEPT ![c] = work'[c]] /\ work'[c].at = "streaming"
          /\ work'[c].key = work[c].key /\ work'[c].from = work[c].from
          /\ work'[c].back = work[c].back /\ IsWork(work'[c])
      BY ZenonT(120), <1>1, <2>1 DEF ImportInv, IsWork
    <2>3. OtherWork(c)
      BY ZenonT(120), <1>1, <2>1, <2>2 DEF OtherWork, WorkOK, Runs
    <2> QED BY ZenonT(120), <2>1, <2>2, <2>3, OtherWorkStep
  <1>5. ASSUME NEW what \in {"ok", "gone", "failed"}, ImportEnds(c, what)
        PROVE  ImportInv' /\ Shared!ImportNext
    <2>1. Runs(work[c]) /\ work[c].from \in work[c].key.set /\ AnswerImport(c, what) /\ UNCHANGED call
      BY ZenonT(120), <1>1, <1>5 DEF ImportEnds, WorkOK, Runs
    <2>2. work[c].from \in Stores
      BY ZenonT(120), <2>1, WorkStores
    <2>3. PICK k, from : k = work[c].key /\ from = work[c].from
      BY ZenonT(120)
    <2>4. IF what = "ok" THEN from \in k.set /\ valid' = valid \cup {k.path} ELSE UNCHANGED valid
      BY ZenonT(120), <1>5, <2>1, <2>3 DEF ImportEnds
    <2> QED BY ZenonT(120), <2>1, <2>2, <2>3, <2>4, AnswerStep
  <1> QED BY ZenonT(120), <1>2, <1>3, <1>4, <1>5 DEF Importer

\* The answer of a query or a probe.
LEMMA ReplyActions ==
  ASSUME ImportInv, Sane', NEW t \in tasks, NEW reply, QueryEnds(t, reply) \/ ProbeEnds(t, reply)
  PROVE  ImportInv' /\ UNCHANGED Shared!importVars
  <1>1. t.of \in Callers
    BY ZenonT(120) DEF ImportInv, Sane, Task
  <1>2. CASE ProbeEnds(t, reply)
    BY ZenonT(120), <1>2, QuietStep DEF ProbeEnds, imports
  <1>3. CASE QueryEnds(t, reply) /\ t.kind = "select"
    <2>0. UNCHANGED <<valid, active, call>>
      BY ZenonT(120), <1>3 DEF QueryEnds
    <2>1. PICK P : work' = [work EXCEPT ![t.of] = [work[t.of] EXCEPT !.pend = P]]
      BY ZenonT(120), <1>3 DEF QueryEnds
    <2>2. IsWork(work[t.of]) /\ WorkOK(work[t.of])
      BY ZenonT(120), <1>1 DEF ImportInv, WorkOK
    <2>3. /\ work' = [work EXCEPT ![t.of] = work'[t.of]] /\ work'[t.of].at = work[t.of].at
          /\ work'[t.of].key = work[t.of].key /\ work'[t.of].from = work[t.of].from
          /\ work'[t.of].what = work[t.of].what
          /\ work'[t.of].back = work[t.of].back /\ IsWork(work'[t.of])
      BY ZenonT(120), <1>1, <2>1, <2>2 DEF ImportInv, IsWork
    <2>4. OtherWork(t.of)
      BY ZenonT(120), <2>2, <2>3 DEF OtherWork, WorkOK, Runs
    <2> QED BY ZenonT(120), <1>1, <2>0, <2>3, <2>4, OtherWorkStep
  <1>4. CASE QueryEnds(t, reply) /\ t.kind # "select" /\ call' = call
    BY ZenonT(120), <1>4, QuietStep DEF QueryEnds
  <1>5. CASE QueryEnds(t, reply) /\ t.kind # "select" /\ call' # call
    <2>1. UNCHANGED <<valid, active, work>> /\ call[t.of].at \in {"probing", "querying"}
      BY ZenonT(120), <1>5 DEF QueryEnds
    <2>2. PICK P, f : call' = [call EXCEPT ![t.of] = [call[t.of] EXCEPT !.pend = P, !.found = f]]
      BY ZenonT(120), <1>5 DEF QueryEnds
    <2>3. IsCall(call[t.of]) /\ CallOK(call[t.of])
      BY ZenonT(120), <1>1 DEF ImportInv, CallOK
    <2>4. /\ call' = [call EXCEPT ![t.of] = call'[t.of]] /\ IsCall(call'[t.of])
          /\ call'[t.of].op = call[t.of].op /\ call'[t.of].at = call[t.of].at
      BY ZenonT(120), <1>1, <2>2, <2>3 DEF ImportInv, IsCall
    <2>5. call[t.of].op \notin {"none", "import"}
      BY ZenonT(120), <2>1, <2>3 DEF CallOK
    <2> QED BY ZenonT(120), <1>1, <2>1, <2>4, <2>5, OtherCallStep
  <1> QED BY ZenonT(120), <1>2, <1>3, <1>4, <1>5

\* The caches of the queue stay sane over every step.
LEMMA SaneStep ==
  ASSUME ImportInv, SubstNext
  PROVE  Sane'
  <1>1. CASE \E c \in Callers, p \in Paths :
               \/ \E S \in Sets : CanSubstitute(c, p, S) \/ Substitute(c, p, S)
               \/ NarinfoRequest(c, p) \/ NarRequest(c, p)
    <2>1. ASSUME NEW c \in Callers, NEW p \in Paths, NEW S \in Sets, Substitute(c, p, S)
          PROVE  Sane'
      BY ZenonT(120), <2>1 DEF Substitute, caches, ImportInv, Sane
    <2> QED BY ZenonT(120), <1>1, <2>1, CanIsSane, RaceIsSane
  <1>2. ASSUME NEW c \in Callers, Waker(c) \/ Importer(c) \/ Fetches(c) \/ Leave(c)
        PROVE  Sane'
    <2>1. CASE CanWakes(c) \/ SubstituteWakes(c) \/ NarRanks(c) \/ Leave(c)
      BY ZenonT(120), <2>1 DEF CanWakes, SubstituteWakes, NarRanks, Leave, caches, ImportInv, Sane
    <2>2. CASE \E reply \in Reply : NarFetch(c, reply)
      BY ZenonT(120), <2>2 DEF NarFetch, caches, ImportInv, Sane
    <2> QED BY ZenonT(120), <1>2, <2>1, <2>2, WakeIsSane, ImporterIsSane DEF Waker, Fetches
  <1>3. CASE Replied
    BY ZenonT(120), <1>3, ReplyIsSane DEF Replied
  <1>4. ASSUME NEW p \in Paths, Expires(p)
        PROVE  Sane'
    BY ZenonT(120), <1>4 DEF Expires, ImportInv, Sane
  <1>5. ASSUME NEW p \in Paths, NEW s \in Stores, Moves(s, p)
        PROVE  Sane'
    BY ZenonT(120), <1>5 DEF Moves, caches, ImportInv, Sane
  <1>6. CASE Close
    BY ZenonT(120), <1>6 DEF Close, caches, ImportInv, Sane
  <1> QED BY ZenonT(120), <1>1, <1>2, <1>3, <1>4, <1>5, <1>6 DEF SubstNext

\* Every step of the queue keeps the invariant and is a step of the shared import.
LEMMA QueueStep ==
  ASSUME ImportInv, [SubstNext]_substVars
  PROVE  ImportInv' /\ [Shared!ImportNext]_(Shared!importVars)
  <1>1. CASE UNCHANGED substVars
    <2>1. UNCHANGED <<valid, active, call, work, positive, tasks>>
      BY ZenonT(120), <1>1 DEF substVars, imports, caches
    <2>2. Sane'
      BY ZenonT(120), <2>1 DEF ImportInv, Sane
    <2> QED BY ZenonT(120), <2>1, <2>2, QuietStep
  <1>2. CASE SubstNext
    <2>1. Sane'
      BY ZenonT(120), <1>2, SaneStep
    <2>2. ASSUME NEW c \in Callers, NEW p \in Paths,
                 \/ \E S \in Sets : CanSubstitute(c, p, S) \/ Substitute(c, p, S)
                 \/ NarinfoRequest(c, p) \/ NarRequest(c, p)
          PROVE  ImportInv' /\ [Shared!ImportNext]_(Shared!importVars)
      <3>1. CASE \E S \in Sets : CanSubstitute(c, p, S)
        BY ZenonT(120), <2>1, <3>1, CanActions
      <3>2. CASE \E S \in Sets : Substitute(c, p, S)
        BY ZenonT(120), <2>1, <3>2, SubstituteStep
      <3>3. CASE NarinfoRequest(c, p) \/ NarRequest(c, p)
        BY ZenonT(120), <2>1, <3>3, HttpActions
      <3> QED BY ZenonT(120), <2>2, <3>1, <3>2, <3>3
    <2>3. ASSUME NEW c \in Callers, Waker(c) \/ Importer(c) \/ Fetches(c) \/ Leave(c)
          PROVE  ImportInv' /\ [Shared!ImportNext]_(Shared!importVars)
      <3>1. CASE CanWakes(c) \/ NarRanks(c) \/ (\E reply \in Reply : NarFetch(c, reply))
        BY ZenonT(120), <2>1, <3>1, CanActions
      <3>2. CASE RaceWakes(c) \/ \E reply \in Reply : Refetch(c, reply)
        BY ZenonT(120), <2>1, <3>2, HttpWakes
      <3>3. CASE SubstituteWakes(c)
        BY ZenonT(120), <2>1, <3>3, SubstituteWakesStep
      <3>4. CASE Importer(c)
        BY ZenonT(120), <2>1, <3>4, ImporterActions
      <3>5. CASE Leave(c)
        <4>1. call[c].at = "probing" \/ call[c].at = "joined"
          BY ZenonT(120), <3>5 DEF Leave
        <4>2. CASE call[c].at = "probing"
          BY ZenonT(120), <2>1, <3>5, <4>2, CanActions
        <4>3. CASE call[c].at = "joined"
          BY ZenonT(120), <2>1, <3>5, <4>3, LeaveStep
        <4> QED BY ZenonT(120), <4>1, <4>2, <4>3
      <3> QED BY ZenonT(120), <2>3, <3>1, <3>2, <3>3, <3>4, <3>5 DEF Waker, Fetches
    <2>4. CASE Replied
      BY ZenonT(120), <2>1, <2>4, ReplyActions DEF Replied
    <2>5. CASE \E p \in Paths : Expires(p) \/ \E s \in Stores : Moves(s, p)
      <3>1. UNCHANGED <<valid, active, call, work>>
        BY ZenonT(120), <2>5 DEF Expires, Moves, imports
      <3> QED BY ZenonT(120), <2>1, <3>1, QuietStep
    <2>6. CASE Close
      BY ZenonT(120), <2>1, <2>6, CloseStep
    <2> QED BY ZenonT(120), <1>2, <2>2, <2>3, <2>4, <2>5, <2>6 DEF SubstNext
  <1> QED BY ZenonT(120), <1>1, <1>2

\* In the initial state nobody has called.
LEMMA QueueInit ==
  ASSUME SubstInit
  PROVE  ImportInv /\ Shared!ImportInit
  <1>1. \A c \in Callers : call[c] = Call /\ work[c] = Work
    BY ZenonT(120) DEF SubstInit
  <1>2. CallOK(Call) /\ WorkOK(Work) /\ Call.op = "none" /\ Work.at = "none"
    BY ZenonT(120) DEF CallOK, WorkOK, IsCall, IsWork, Call, Work, Runs
  <1>3. Registered
    BY ZenonT(120), <1>1, <1>2 DEF SubstInit, Registered, Runs
  <1>4. ImportInv
    BY ZenonT(120), <1>1, <1>2, <1>3 DEF SubstInit, ImportInv, Sane
  <1>5. \A c \in Callers : ImportCaller(c) = Knows("idle", None, None, None)
    BY ZenonT(120), <1>1, <1>2 DEF ImportCaller
  <1> QED BY ZenonT(120), <1>4, <1>5 DEF SubstInit, Shared!ImportInit, Shared!Knows, Knows

\* The substitution queue implements the shared import: whatever fails, expires,
\* is cancelled or closes, there is at most one import of a path and a list of
\* substituters, everyone who joined it gets its one answer, and no answer comes
\* from a store the caller did not name.
THEOREM QueueSharesImports == SubstSpec => SharesImports
  <1>1. SubstInit => ImportInv /\ Shared!ImportInit
    BY ZenonT(120), QueueInit
  <1>2. ImportInv /\ [SubstNext]_substVars => ImportInv' /\ [Shared!ImportNext]_(Shared!importVars)
    BY ZenonT(120), QueueStep
  <1> QED BY <1>1, <1>2, PTL DEF SubstSpec, SharesImports, Shared!ImportSpec

-----------------------------------------------------------------------------
(* The count of a race and the health logs.  A race is started once, by a   *)
(* caller that has no probe out, and every probe that ends counts down.     *)

RaceOf(T, c) == {t \in T : t.kind = "race" /\ t.of = c}
MayRace(r) == r.at \in {"idle", "refetch"}

HealthOK ==
    /\ health \in [Stores -> Seq(BOOLEAN)]
    /\ \A s \in Stores : Len(health[s]) <= Window

RaceOK ==
    /\ race = [c \in Callers |-> race[c]]
    /\ \A c \in Callers : MayRace(call[c]) => RaceOf(tasks, c) = {}
    /\ open => \A c \in Callers :
                  /\ IsFiniteSet(RaceOf(tasks, c))
                  /\ race[c].remaining = Cardinality(RaceOf(tasks, c))

\* A log keeps its length in the window.
LEMMA NotedFits ==
  ASSUME NEW log \in Seq(BOOLEAN), Len(log) <= Window, NEW ok \in BOOLEAN
  PROVE  Noted(log, ok) \in Seq(BOOLEAN) /\ Len(Noted(log, ok)) <= Window
  <1>1. Append(log, ok) \in Seq(BOOLEAN) /\ Len(Append(log, ok)) = Len(log) + 1
    BY SMTT(120), SMT
  <1>2. Len(log) \in Nat /\ Window \in Nat
    BY SMTT(120), SubstAssumption
  <1>3. CASE Len(Append(log, ok)) > Window
    <2>1. Append(log, ok) # << >>
      BY SMTT(120), <1>1, <1>2
    <2>2. Tail(Append(log, ok)) \in Seq(BOOLEAN) /\ Len(Tail(Append(log, ok))) = Len(Append(log, ok)) - 1
      BY SMTT(120), <1>1, <2>1
    <2>3. Noted(log, ok) = Tail(Append(log, ok))
      BY ZenonT(120), <1>3 DEF Noted
    <2> QED BY SMTT(120), <1>1, <1>2, <2>2, <2>3
  <1>4. CASE ~(Len(Append(log, ok)) > Window)
    <2>1. Noted(log, ok) = Append(log, ok)
      BY ZenonT(120), <1>4 DEF Noted
    <2> QED BY SMTT(120), <1>1, <1>2, <1>4, <2>1
  <1> QED BY ZenonT(120), <1>3, <1>4

\* One store's log takes an entry.
LEMMA HealthAppends ==
  ASSUME HealthOK, NEW s \in Stores, NEW ok \in BOOLEAN, health' = [health EXCEPT ![s] = Noted(@, ok)]
  PROVE  HealthOK'
  <1>1. Noted(health[s], ok) \in Seq(BOOLEAN) /\ Len(Noted(health[s], ok)) <= Window
    BY ZenonT(120), NotedFits DEF HealthOK
  <1> QED BY ZenonT(120), <1>1 DEF HealthOK

\* The health logs change only where an answer is recorded.
LEMMA HealthStep ==
  ASSUME ImportInv, HealthOK, [SubstNext]_substVars
  PROVE  HealthOK'
  <1>1. ASSUME health' = health
        PROVE  HealthOK'
    BY ZenonT(120), <1>1 DEF HealthOK
  <1>2. ASSUME NEW t \in tasks, NEW reply, QueryEnds(t, reply) \/ ProbeEnds(t, reply)
        PROVE  HealthOK'
    <2>1. t.store \in Stores
      BY ZenonT(120) DEF ImportInv, Sane, Task
    <2>2. (reply # "fail") \in BOOLEAN /\ FALSE \in BOOLEAN
      BY ZenonT(120)
    <2>3. \/ health' = health
          \/ health' = [health EXCEPT ![t.store] = Noted(@, reply # "fail")]
          \/ health' = [health EXCEPT ![t.store] = Noted(@, FALSE)]
      BY ZenonT(120), <1>2 DEF QueryEnds, ProbeEnds, Records
    <2> QED BY ZenonT(120), <1>1, <2>1, <2>2, <2>3, HealthAppends
  <1>3. ASSUME NEW c \in Callers, NEW p \in Paths,
               \/ \E S \in Sets : CanSubstitute(c, p, S) \/ Substitute(c, p, S)
               \/ NarinfoRequest(c, p) \/ NarRequest(c, p)
        PROVE  health' = health
    BY ZenonT(120), <1>3 DEF CanSubstitute, Substitute, NarinfoRequest, NarRequest, caches
  <1>4. ASSUME NEW c \in Callers, Waker(c) \/ Importer(c) \/ Fetches(c) \/ Leave(c)
        PROVE  health' = health
    BY ZenonT(120), <1>4 DEF Waker, CanWakes, SubstituteWakes, RaceWakes, NarRanks, Importer, GetSubstituter,
       Selected, Stream, ImportEnds, Fetches, Refetch, NarFetch, Leave, caches
  <1>5. ASSUME \/ \E p \in Paths : Expires(p) \/ \E s \in Stores : Moves(s, p)
               \/ Close \/ UNCHANGED substVars
        PROVE  health' = health
    BY ZenonT(120), <1>5 DEF Expires, Moves, Close, substVars, caches
  <1> QED BY ZenonT(120), <1>1, <1>2, <1>3, <1>4, <1>5 DEF SubstNext, Replied

\* A step that touches no race, and makes no caller ready to start one.
LEMMA QuietRace ==
  ASSUME RaceOK, race' = race, open' = open,
         \A c \in Callers : RaceOf(tasks', c) = RaceOf(tasks, c),
         \A c \in Callers : MayRace(call'[c]) => MayRace(call[c])
  PROVE  RaceOK'
  BY ZenonT(120) DEF RaceOK

\* The probes of other lookups do not count.
LEMMA OtherProbes ==
  ASSUME NEW kind \in {"can", "select", "back", "nar"}, NEW c,
         tasks' = tasks \/ \E S : tasks' = tasks \cup Probes(kind, c, S)
  PROVE  \A d \in Callers : RaceOf(tasks', d) = RaceOf(tasks, d)
  <1>1. CASE tasks' = tasks
    BY ZenonT(120), <1>1
  <1>2. ASSUME NEW S, tasks' = tasks \cup Probes(kind, c, S)
        PROVE  \A d \in Callers : RaceOf(tasks', d) = RaceOf(tasks, d)
    <2>1. \A t \in Probes(kind, c, S) : t.kind # "race"
      BY SMTT(120), SMT DEF Probes
    <2> QED BY ZenonT(120), <1>2, <2>1 DEF RaceOf
  <1> QED BY ZenonT(120), <1>1, <1>2

\* The call of one caller moves, and that caller could start a race before or
\* cannot after.
LEMMA OneMoves ==
  ASSUME ImportInv, NEW c \in Callers, NEW r, SetCall(c, r), MayRace(r) => MayRace(call[c])
  PROVE  \A d \in Callers : MayRace(call'[d]) => MayRace(call[d])
  BY ZenonT(120) DEF SetCall, ImportInv

\* One probe for each binary cache.
LEMMA ProbeCount ==
  ASSUME NEW c, NEW T, RaceOf(T, c) = {}
  PROVE  /\ RaceOf(T \cup Probes("race", c, Http), c) = Probes("race", c, Http)
         /\ IsFiniteSet(Probes("race", c, Http))
         /\ Cardinality(Probes("race", c, Http)) = Cardinality(Http)
  <1> DEFINE P == Probes("race", c, Http)
             f == [s \in Http |-> [kind |-> "race", of |-> c, store |-> s]]
  <1>1. \A t \in P : t.kind = "race" /\ t.of = c
    BY SMTT(120), SMT DEF Probes
  <1>2. RaceOf(T \cup P, c) = P
    BY ZenonT(120), <1>1 DEF RaceOf
  <1>3. f \in [Http -> P] /\ \A t \in P : \E s \in Http : f[s] = t
    BY ZenonT(120) DEF Probes
  <1>4. \A a, b \in Http : f[a] = f[b] => a = b
    BY SMTT(120), SMT
  <1>5. f \in Bijection(Http, P)
    BY ZenonT(120), <1>3, <1>4 DEF Bijection, Injection, Surjection, IsInjective
  <1>6. ExistsBijection(Http, P) /\ IsFiniteSet(Http)
    BY ZenonT(120), <1>5, SubstAssumption DEF ExistsBijection
  <1> QED BY ZenonT(120), <1>2, <1>6, FS_Bijection

\* A race is joined, or started with one probe for each binary cache.
LEMMA JoinedRace ==
  ASSUME ImportInv, RaceOK, NEW c \in Callers, NEW r, IsCall(r), MayRace(call[c]), JoinsRace(c, r), open' = open
  PROVE  RaceOK'
  <1>1. ~MayRace(call'[c]) /\ \A d \in Callers : d # c => call'[d] = call[d]
    <2>1. \A x : Joined(r, "racing", x).at = "racing" /\ Joined(r, "refused", x).at = "refused"
      BY SMTT(120) DEF IsCall, Joined
    <2>2. PICK x : SetCall(c, Joined(r, "racing", x)) \/ SetCall(c, Joined(r, "refused", x))
      BY SMTT(120) DEF JoinsRace
    <2>3. /\ call'[c] = Joined(r, "racing", x) \/ call'[c] = Joined(r, "refused", x)
          /\ \A d \in Callers : d # c => call'[d] = call[d]
      BY ZenonT(120), <2>2 DEF SetCall, ImportInv
    <2> QED BY ZenonT(120), <2>1, <2>3 DEF MayRace
  <1>2. CASE races[r.path] = None
    <2>1. race' = [race EXCEPT ![c] = [Race EXCEPT !.remaining = Cardinality(Http)]]
      BY ZenonT(120), <1>2 DEF JoinsRace
    <2>2. race' = [d \in Callers |-> race'[d]] /\ race'[c].remaining = Cardinality(Http)
          /\ \A d \in Callers : d # c => race'[d] = race[d]
      BY ZenonT(120), <2>1 DEF RaceOK, Race
    <2>3. tasks' = IF open THEN tasks \cup Probes("race", c, Http) ELSE tasks
      BY ZenonT(120), <1>2 DEF JoinsRace
    <2>4. \A d \in Callers : d # c => RaceOf(tasks', d) = RaceOf(tasks, d)
      <3>1. \A t \in Probes("race", c, Http) : t.of = c
        BY SMTT(120), SMT DEF Probes
      <3> QED BY ZenonT(120), <2>3, <3>1 DEF RaceOf
    <2>5. RaceOf(tasks, c) = {}
      BY ZenonT(120) DEF RaceOK
    <2>6. open => /\ IsFiniteSet(RaceOf(tasks', c))
                  /\ race'[c].remaining = Cardinality(RaceOf(tasks', c))
      BY ZenonT(120), <2>2, <2>3, <2>5, ProbeCount
    <2> QED BY ZenonT(120), <1>1, <2>2, <2>4, <2>6 DEF RaceOK
  <1>3. CASE races[r.path] # None
    BY ZenonT(120), <1>1, <1>3, QuietRace DEF JoinsRace
  <1> QED BY ZenonT(120), <1>2, <1>3

\* A probe of a race ends: one fewer is out, and one fewer is counted.
LEMMA CountsDown ==
  ASSUME ImportInv, RaceOK, NEW t \in tasks, NEW reply, ProbeEnds(t, reply)
  PROVE  RaceOK'
  <1>1. t.kind = "race" /\ tasks' = tasks \ {t} /\ call' = call /\ open' = open
    BY ZenonT(120) DEF ProbeEnds
  <1>2. t.of \in Callers
    BY ZenonT(120) DEF ImportInv, Sane, Task
  <1>3. /\ race' = [d \in Callers |-> race'[d]] /\ race'[t.of].remaining = race[t.of].remaining - 1
        /\ \A d \in Callers : d # t.of => race'[d] = race[d]
    BY SMTT(120), <1>2 DEF ProbeEnds, Remaining, RaceOK
  <1>4. RaceOf(tasks', t.of) = RaceOf(tasks, t.of) \ {t} /\ t \in RaceOf(tasks, t.of)
    BY ZenonT(120), <1>1 DEF RaceOf
  <1>5. \A d \in Callers : d # t.of => RaceOf(tasks', d) = RaceOf(tasks, d)
    BY ZenonT(120), <1>1 DEF RaceOf
  <1>6. open => /\ IsFiniteSet(RaceOf(tasks', t.of))
                /\ race'[t.of].remaining = Cardinality(RaceOf(tasks', t.of))
    <2>1. ASSUME open
          PROVE  IsFiniteSet(RaceOf(tasks, t.of)) /\ race[t.of].remaining = Cardinality(RaceOf(tasks, t.of))
      BY ZenonT(120), <1>2, <2>1 DEF RaceOK
    <2> QED BY ZenonT(120), <1>3, <1>4, <2>1, FS_RemoveElement
  <1>7. MayRace(call[t.of]) => RaceOf(tasks', t.of) = {}
    BY ZenonT(120), <1>2, <1>4 DEF RaceOK
  <1> QED BY ZenonT(120), <1>1, <1>3, <1>5, <1>6, <1>7 DEF RaceOK

\* A request of the HTTP server joins a race, or none changes.
LEMMA HttpRace ==
  ASSUME ImportInv, RaceOK, NEW c \in Callers, NEW p \in Paths,
         NarinfoRequest(c, p) \/ NarRequest(c, p)
  PROVE  RaceOK'
  <1> DEFINE r == IF NarinfoRequest(c, p) THEN Begun(c, "race", p, Http) ELSE Begun(c, "nar", p, Http)
  <1>1. IsCall(Begun(c, "race", p, Http)) /\ IsCall(Begun(c, "nar", p, Http))
    BY ZenonT(120) DEF Begun, ImportInv, CallOK, IsCall
  <1>2. MayRace(call[c]) /\ open' = open
    BY ZenonT(120) DEF NarinfoRequest, NarRequest, MayRace
  <1>3. CASE JoinsRace(c, Begun(c, "race", p, Http)) \/ JoinsRace(c, Begun(c, "nar", p, Http))
    BY ZenonT(120), <1>1, <1>2, <1>3, JoinedRace
  <1>4. CASE race' = race /\ (\E x : SetCall(c, x))
             /\ (tasks' = tasks \/ \E S : tasks' = tasks \cup Probes("nar", c, S))
    <2>1. \A d \in Callers : RaceOf(tasks', d) = RaceOf(tasks, d)
      BY ZenonT(120), <1>4, OtherProbes
    <2>2. \A d \in Callers : MayRace(call'[d]) => MayRace(call[d])
      BY ZenonT(120), <1>2, <1>4, OneMoves
    <2> QED BY ZenonT(120), <1>2, <1>4, <2>1, <2>2, QuietRace
  <1> QED BY ZenonT(120), <1>3, <1>4 DEF NarinfoRequest, NarRequest, RaceHttpNarinfo, Continues, raceVars

\* So does one whose cached stores have gone, and a race that ends starts none.
LEMMA WakeRace ==
  ASSUME ImportInv, RaceOK, NEW c \in Callers, NEW reply, Refetch(c, reply) \/ RaceWakes(c)
  PROVE  RaceOK'
  <1> DEFINE r == Moved(call[c], "refetch", call[c].pend \ {Best(call[c].pend)})
  <1>1. IsCall(call[c])
    BY ZenonT(120) DEF ImportInv, CallOK
  <1>2. IsCall(r)
    BY ZenonT(120), <1>1 DEF IsCall, Moved
  <1>3. CASE Refetch(c, reply)
    <2>1. MayRace(call[c]) /\ open' = open
      BY ZenonT(120), <1>3 DEF Refetch, MayRace
    <2>2. CASE JoinsRace(c, r)
      BY ZenonT(120), <1>2, <2>1, <2>2, JoinedRace
    <2>3. CASE race' = race /\ (\E x : SetCall(c, x))
               /\ (tasks' = tasks \/ \E S : tasks' = tasks \cup Probes("nar", c, S))
      <3>1. \A d \in Callers : RaceOf(tasks', d) = RaceOf(tasks, d)
        BY ZenonT(120), <2>3, OtherProbes
      <3>2. \A d \in Callers : MayRace(call'[d]) => MayRace(call[d])
        BY ZenonT(120), <2>1, <2>3, OneMoves
      <3> QED BY ZenonT(120), <2>1, <2>3, <3>1, <3>2, QuietRace
    <2> QED BY ZenonT(120), <1>3, <2>2, <2>3 DEF Refetch, Continues, raceVars
  <1>4. CASE RaceWakes(c)
    <2>1. race' = race /\ open' = open
          /\ (tasks' = tasks \/ \E S : tasks' = tasks \cup Probes("nar", c, S))
      BY ZenonT(120), <1>4 DEF RaceWakes, Continues
    <2>2. \E x : SetCall(c, Done(call[c], x)) \/ SetCall(c, Moved(call[c], "ranking", x))
                 \/ SetCall(c, Moved(call[c], "querying", x))
      BY SMTT(120), <1>4 DEF RaceWakes, Continues
    <2>3. \A x : /\ ~MayRace(Done(call[c], x)) /\ ~MayRace(Moved(call[c], "ranking", x))
                 /\ ~MayRace(Moved(call[c], "querying", x))
      BY SMTT(120), <1>1 DEF MayRace, Done, Moved, IsCall
    <2>4. \A d \in Callers : MayRace(call'[d]) => MayRace(call[d])
      BY ZenonT(120), <2>2, <2>3, OneMoves
    <2>5. \A d \in Callers : RaceOf(tasks', d) = RaceOf(tasks, d)
      BY ZenonT(120), <2>1, OtherProbes
    <2> QED BY ZenonT(120), <2>1, <2>4, <2>5, QuietRace
  <1> QED BY ZenonT(120), <1>3, <1>4

\* The other steps of a caller.
LEMMA CallerRace ==
  ASSUME ImportInv, RaceOK, NEW c \in Callers,
         \/ \E p \in Paths, S \in Sets : CanSubstitute(c, p, S) \/ Substitute(c, p, S)
         \/ CanWakes(c) \/ SubstituteWakes(c) \/ NarRanks(c) \/ Leave(c)
         \/ \E reply : NarFetch(c, reply)
  PROVE  RaceOK'
  <1>1. IsCall(call[c])
    BY ZenonT(120) DEF ImportInv, CallOK
  <1>2. race' = race /\ open' = open /\ (tasks' = tasks \/ \E S : tasks' = tasks \cup Probes("can", c, S))
    BY ZenonT(120) DEF CanSubstitute, Substitute, CanWakes, SubstituteWakes, NarRanks, Leave, NarFetch, raceVars
  <1>3. \A d \in Callers : RaceOf(tasks', d) = RaceOf(tasks, d)
    BY ZenonT(120), <1>2, OtherProbes
  <1>4. \A x : ~MayRace(Done(call[c], x)) /\ ~MayRace(Moved(call[c], "ranking", x))
               /\ ~MayRace([call[c] EXCEPT !.at = "done"])
    BY SMTT(120), <1>1 DEF MayRace, Done, Moved, IsCall
  <1>5. \A x : ~MayRace(Moved(Done(call[c], x), "left", {}))
    BY SMTT(120), <1>1 DEF MayRace, Done, Moved, IsCall
  <1>6. \E x : SetCall(c, x) /\ (MayRace(x) => MayRace(call[c]))
    <2>1. CASE \E p \in Paths, S \in Sets : CanSubstitute(c, p, S)
      BY ZenonT(120), <1>4, <1>5, <2>1 DEF CanSubstitute, MayRace
    <2>2. CASE \E p \in Paths, S \in Sets : Substitute(c, p, S)
      BY ZenonT(120), <1>4, <1>5, <2>2 DEF Substitute, MayRace
    <2>3. CASE CanWakes(c)
      BY ZenonT(120), <1>4, <1>5, <2>3 DEF CanWakes, MayRace
    <2>4. CASE SubstituteWakes(c)
      BY ZenonT(120), <1>4, <1>5, <2>4 DEF SubstituteWakes, MayRace
    <2>5. CASE NarRanks(c)
      BY ZenonT(120), <1>4, <1>5, <2>5 DEF NarRanks, MayRace
    <2>6. CASE Leave(c)
      BY ZenonT(120), <1>4, <1>5, <2>6 DEF Leave, MayRace
    <2>7. CASE \E reply : NarFetch(c, reply)
      BY ZenonT(120), <1>4, <1>5, <2>7 DEF NarFetch, MayRace
    <2> QED BY ZenonT(120), <2>1, <2>2, <2>3, <2>4, <2>5, <2>6, <2>7
  <1>7. \A d \in Callers : MayRace(call'[d]) => MayRace(call[d])
    BY ZenonT(120), <1>6, OneMoves
  <1> QED BY ZenonT(120), <1>2, <1>3, <1>7, QuietRace

\* An import starts no race, nor does a query that ends.
LEMMA ImportRace ==
  ASSUME ImportInv, RaceOK,
         \/ \E c \in Callers : Importer(c)
         \/ \E t \in tasks : \E reply : QueryEnds(t, reply)
  PROVE  RaceOK'
  <1>1. race' = race /\ open' = open
    BY ZenonT(120) DEF Importer, GetSubstituter, Selected, Stream, ImportEnds, QueryEnds, raceVars
  <1>2. ASSUME NEW c \in Callers, Importer(c)
        PROVE  RaceOK'
    <2>1. \/ tasks' = tasks \/ \E S : tasks' = tasks \cup Probes("select", c, S)
          \/ \E S : tasks' = tasks \cup Probes("back", c, S)
      BY ZenonT(120), <1>2 DEF Importer, GetSubstituter, Selected, Stream, ImportEnds
    <2>2. call' = call
      BY ZenonT(120), <1>2 DEF Importer, GetSubstituter, Selected, Stream, ImportEnds
    <2>3. \A d \in Callers : RaceOf(tasks', d) = RaceOf(tasks, d)
      BY ZenonT(120), <2>1, OtherProbes
    <2> QED BY ZenonT(120), <1>1, <2>2, <2>3, QuietRace
  <1>3. ASSUME NEW t \in tasks, NEW reply, QueryEnds(t, reply)
        PROVE  RaceOK'
    <2>1. t.kind # "race" /\ tasks' = tasks \ {t}
      BY ZenonT(120), <1>3 DEF QueryEnds
    <2>2. \A d \in Callers : RaceOf(tasks', d) = RaceOf(tasks, d)
      BY ZenonT(120), <2>1 DEF RaceOf
    <2>3. t.of \in Callers /\ IsCall(call[t.of])
      BY ZenonT(120) DEF ImportInv, Sane, Task, CallOK
    <2>4. call' = call \/ \E pend, found :
                call' = [call EXCEPT ![t.of] = [@ EXCEPT !.pend = pend, !.found = found]]
      BY ZenonT(120), <1>3, <2>3 DEF QueryEnds
    <2>5. \A d \in Callers : MayRace(call'[d]) => MayRace(call[d])
      <3>1. ASSUME NEW pend, NEW found,
                   call' = [call EXCEPT ![t.of] = [@ EXCEPT !.pend = pend, !.found = found]], NEW d \in Callers
            PROVE  call'[d].at = call[d].at
        <4>1. call = [x \in Callers |-> call[x]]
          BY ZenonT(120) DEF ImportInv
        <4>2. d # t.of => call'[d] = call[d]
          BY ZenonT(120), <3>1, <4>1
        <4>3. call'[t.of] = [call[t.of] EXCEPT !.pend = pend, !.found = found]
          BY ZenonT(120), <2>3, <3>1, <4>1
        <4>4. call'[t.of].at = call[t.of].at
          BY SMTT(120), SMT, <2>3, <4>3 DEF IsCall
        <4> QED BY ZenonT(120), <4>2, <4>4
      <3>2. \A d \in Callers : call'[d].at = call[d].at
        BY ZenonT(120), <2>4, <3>1
      <3> QED BY ZenonT(120), <3>2 DEF MayRace
    <2> QED BY ZenonT(120), <1>1, <2>2, <2>5, QuietRace
  <1> QED BY ZenonT(120), <1>2, <1>3

\* Every step keeps the count of every race.
LEMMA RaceStep ==
  ASSUME ImportInv, RaceOK, [SubstNext]_substVars
  PROVE  RaceOK'
  <1>1. CASE Close
    <2>1. open' = FALSE /\ call' = call /\ race' = race /\ tasks' \subseteq tasks
      BY ZenonT(120), <1>1 DEF Close, raceVars
    <2>2. \A c \in Callers : RaceOf(tasks', c) \subseteq RaceOf(tasks, c)
      BY ZenonT(120), <2>1 DEF RaceOf
    <2> QED BY ZenonT(120), <2>1, <2>2 DEF RaceOK
  <1>2. CASE (\E p \in Paths : Expires(p) \/ \E s \in Stores : Moves(s, p)) \/ UNCHANGED substVars
    <2>1. UNCHANGED <<race, open, tasks, call>>
      BY ZenonT(120), <1>2 DEF Expires, Moves, substVars, raceVars
    <2> QED BY ZenonT(120), <2>1, QuietRace
  <1>3. ASSUME NEW c \in Callers, NEW p \in Paths,
               \/ \E S \in Sets : CanSubstitute(c, p, S) \/ Substitute(c, p, S)
               \/ NarinfoRequest(c, p) \/ NarRequest(c, p)
        PROVE  RaceOK'
    BY ZenonT(120), <1>3, CallerRace, HttpRace
  <1>4. ASSUME NEW c \in Callers, Waker(c) \/ Importer(c) \/ Fetches(c) \/ Leave(c)
        PROVE  RaceOK'
    BY ZenonT(120), <1>4, CallerRace, WakeRace, ImportRace DEF Waker, Fetches
  <1>5. CASE Replied
    BY ZenonT(120), <1>5, ImportRace, CountsDown DEF Replied
  <1> QED BY ZenonT(120), <1>1, <1>2, <1>3, <1>4, <1>5 DEF SubstNext

\* Whatever answers, fails, expires or leaves, a race that is open counts exactly
\* the probes it still has, so its event is set when the last one ends; and no
\* health log outgrows its window.
THEOREM SubstTypes == SubstSpec => []SubstTypeOK
  <1> DEFINE I == ImportInv /\ HealthOK /\ RaceOK
  <1>1. SubstInit => I
    <2> SUFFICES ASSUME SubstInit PROVE I
      BY SMTT(120)
    <2>1. HealthOK
      <3>1. << >> \in Seq(BOOLEAN) /\ Len(<< >>) = 0 /\ 0 <= Window
        BY SMTT(120), SubstAssumption
      <3> QED BY ZenonT(120), <3>1 DEF SubstInit, HealthOK
    <2>2. RaceOK
      <3>1. \A c \in Callers : RaceOf(tasks, c) = {} /\ race[c].remaining = 0
        BY SMTT(120) DEF SubstInit, RaceOf, Race
      <3> QED BY ZenonT(120), <3>1, FS_EmptySet DEF SubstInit, RaceOK
    <2> QED BY ZenonT(120), <2>1, <2>2, QueueInit
  <1>2. I /\ [SubstNext]_substVars => I'
    BY ZenonT(120), QueueStep, HealthStep, RaceStep
  <1>3. I => SubstTypeOK
    BY ZenonT(120) DEF ImportInv, Sane, HealthOK, RaceOK, RaceOf, SubstTypeOK
  <1> QED BY <1>1, <1>2, <1>3, PTL DEF SubstSpec
=============================================================================
