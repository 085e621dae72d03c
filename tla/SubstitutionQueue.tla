-------------------------- MODULE SubstitutionQueue --------------------------
(***************************************************************************)
(* The substitution queue of one pynixd (substitution_queue.py): what each  *)
(* substituter said of each path, the probes that outlive their lookup, the *)
(* narinfo races of the HTTP cache, and the imports that concurrent clients *)
(* share.  A caller is one client request: it makes one call, of one of the *)
(* four operations of the queue, and waits for its answer.  A step runs     *)
(* from one await to the next.                                              *)
(*                                                                         *)
(* A path stands for its hash too.  A list of substituters is a set, with   *)
(* Rank for the priorities.  The repair flag of an import is left out: like *)
(* the list of substituters it only makes two keys differ.                  *)
(***************************************************************************)
EXTENDS Integers, FiniteSets, Sequences

CONSTANTS
    Callers,
    Paths,
    Stores,      \* the substituters of the daemon's list
    Http,        \* those that are binary caches
    Sets,        \* the lists a client may name
    Rank,        \* Rank[s]: the priority of a substituter, lowest first
    Ops,         \* the operations called, of "can", "import", "race" and "nar"
    None,
    Window,      \* substitution_health_window
    MinEntries,  \* the entries below which a store counts as healthy
    Slots,       \* max-substitution-jobs
    MaxTroubles  \* bound on what may happen to the calls: a failed query or stream, an
                 \* expired entry, a change upstream, a client that hangs up, a close

ASSUME SubstAssumption ==
    /\ None \notin Callers /\ None \notin Stores /\ None \notin Paths
    /\ Http \subseteq Stores /\ IsFiniteSet(Http)
    /\ Sets \subseteq SUBSET Stores
    /\ Rank \in [Stores -> Nat]
    /\ Window \in Nat \ {0} /\ MinEntries \in 1..Window /\ Slots \in Nat \ {0}

VARIABLES
    upstream,   \* the paths each substituter holds
    troubles,   \* what has happened so far, to bound it
    valid,      \* the paths of the local store
    positive,   \* the stores with a cached yes for each path
    negative,   \* the stores with a cached no
    hashPath,   \* _http_hash_paths
    hashNeg,    \* _http_hash_negative
    missHash,   \* _negative_hash_paths
    health,     \* the last Window results of each store, TRUE for an answer
    tasks,      \* the queries and probes in flight
    call,       \* the request of each caller
    active,     \* _active_imports: the caller that started the import of a key
    work,       \* the import each caller started
    races,      \* _http_races: the caller that started the race for a path
    race,       \* the race each caller started
    open        \* the probes' task group runs

Trouble == troubles < MaxTroubles /\ troubles' = troubles + 1

caches == <<positive, negative, hashPath, hashNeg, missHash, health>>
imports == <<active, work>>
raceVars == <<races, race>>
world == <<upstream, troubles>>
substVars == <<world, valid, caches, tasks, call, imports, raceVars, open>>

Key == [path : Paths, set : Sets]

Call == [op |-> "none", path |-> None, set |-> {}, at |-> "idle", join |-> None,
         pend |-> {}, found |-> None]
Work == [at |-> "none", key |-> None, pend |-> {}, back |-> {}, from |-> None, what |-> None]
Race == [remaining |-> 0, winner |-> None, event |-> FALSE]
Task == [kind : {"can", "race", "select", "back", "nar"}, of : Callers, store : Stores]

SubstInit ==
    /\ upstream \in [Stores -> SUBSET Paths]
    /\ troubles = 0
    /\ valid = {}
    /\ positive = [p \in Paths |-> {}]
    /\ negative = [p \in Paths |-> {}]
    /\ hashPath = {} /\ hashNeg = {} /\ missHash = {}
    /\ health = [s \in Stores |-> <<>>]
    /\ tasks = {}
    /\ call = [c \in Callers |-> Call]
    /\ active = [k \in Key |-> None]
    /\ work = [c \in Callers |-> Work]
    /\ races = [p \in Paths |-> None]
    /\ race = [c \in Callers |-> Race]
    /\ open = TRUE

-----------------------------------------------------------------------------
(* What the caches say.                                                     *)

Cached(p) == positive[p] \cup negative[p]

\* is_healthy: more than half of the answers in the window came in time.
IsHealthy(s) ==
    \/ Len(health[s]) < MinEntries
    \/ 2 * Len(SelectSeq(health[s], LAMBDA ok : ok)) > Len(health[s])

Healthy(S) == {s \in S : IsHealthy(s)}

Best(S) == IF S = {} THEN None ELSE CHOOSE s \in S : \A t \in S : Rank[s] <= Rank[t]

\* The first listed: lists are sets here, so any one of them.
FirstListed(S) == IF S = {} THEN None ELSE CHOOSE s \in S : TRUE

EveryStoreMissed(p) ==
    /\ p \in missHash
    /\ positive[p] = {}
    /\ Http \subseteq negative[p]

Probes(kind, c, S) == {[kind |-> kind, of |-> c, store |-> s] : s \in S}

\* The deque of a store's health log drops its oldest entry.
Noted(log, ok) == LET n == Append(log, ok) IN IF Len(n) > Window THEN Tail(n) ELSE n

\* record_query_result
Records(p, s, r) ==
    /\ positive' = IF r = "hit" THEN [positive EXCEPT ![p] = @ \cup {s}] ELSE positive
    /\ negative' = IF r = "hit" THEN negative ELSE [negative EXCEPT ![p] = @ \cup {s}]
    /\ missHash' = IF r = "hit" THEN missHash ELSE missHash \cup {p}
    /\ health' = [health EXCEPT ![s] = Noted(@, r # "fail")]

\* A substituter answers a query: a timeout or an error is a "fail", and a fault of
\* a binary cache reads as a miss (_get_narinfo_raw).
Replies(p, s, reply) ==
    /\ \/ reply = (IF p \in upstream[s] THEN "hit" ELSE "miss") /\ UNCHANGED troubles
       \/ reply = "fail" /\ Trouble
       \/ reply = "miss" /\ p \in upstream[s] /\ s \in Http /\ Trouble
    /\ UNCHANGED upstream

-----------------------------------------------------------------------------
(* Calls.                                                                   *)

Begun(c, op, p, S) == [call[c] EXCEPT !.op = op, !.path = p, !.set = S]
Moved(r, at, pend) == [r EXCEPT !.at = at, !.pend = pend]
Joined(r, at, join) == [r EXCEPT !.at = at, !.join = join]
Done(r, found) == [r EXCEPT !.at = "done", !.pend = {}, !.found = found]

\* The call of c is now r.
SetCall(c, r) == call' = [call EXCEPT ![c] = r]

\* can_substitute, up to its wait: unhealthy stores are asked and not waited for.
CanSubstitute(c, p, S) ==
    LET r == Begun(c, "can", p, S)
        toProbe == S \ Cached(p)
        waited == Healthy(toProbe)
        asks == positive[p] \cap S = {} /\ toProbe # {}
    IN
    /\ call[c].at = "idle" /\ "can" \in Ops
    /\ tasks' = IF asks /\ open THEN tasks \cup Probes("can", c, toProbe) ELSE tasks
    /\ SetCall(c, IF asks /\ ~open THEN Joined(r, "refused", None)
                ELSE IF asks /\ waited # {} THEN Moved(r, "probing", waited)
                ELSE Done(r, FirstListed(positive[p] \cap S)))
    /\ UNCHANGED <<world, valid, caches, imports, raceVars, open>>

CanWakes(c) ==
    /\ call[c].at = "probing" /\ (call[c].found # None \/ call[c].pend = {})
    /\ SetCall(c, Done(call[c], call[c].found))
    /\ UNCHANGED <<world, valid, caches, tasks, imports, raceVars, open>>

\* Mutant: the key leaves the list of substituters out.
ImportKeyPathOnly(p, S) == [path |-> p, set |-> Stores]

\* The key of _active_imports.
ImportKey(p, S) == [path |-> p, set |-> S]

\* substitute: join the import of the key, or start one.
Substitute(c, p, S) ==
    LET r == Begun(c, "import", p, S)
        k == ImportKey(p, S)
    IN
    /\ call[c].at = "idle" /\ "import" \in Ops
    /\ \/ /\ active[k] # None
          /\ SetCall(c, Joined(r, "joined", active[k]))
          /\ UNCHANGED imports
       \/ /\ active[k] = None /\ open
          /\ SetCall(c, Joined(r, "joined", c))
          /\ active' = [active EXCEPT ![k] = c]
          /\ work' = [work EXCEPT ![c] = [Work EXCEPT !.at = "begun", !.key = ImportKey(p, S)]]
       \/ /\ active[k] = None /\ ~open
          /\ SetCall(c, Joined(r, "refused", None))
          /\ UNCHANGED imports
    /\ UNCHANGED <<world, valid, caches, tasks, raceVars, open>>

\* The caller reads the answer of the import it joined.
SubstituteWakes(c) ==
    /\ call[c].at = "joined" /\ work[call[c].join].at = "over"
    /\ SetCall(c, [call[c] EXCEPT !.at = "done"])
    /\ UNCHANGED <<world, valid, caches, tasks, imports, raceVars, open>>

\* A client hangs up.  The HTTP server does not cancel its handlers.
Leave(c) ==
    /\ Trouble
    /\ call[c].at \in {"probing", "joined"}
    /\ SetCall(c, Moved(Done(call[c], None), "left", {}))
    /\ UNCHANGED <<upstream, valid, caches, tasks, imports, raceVars, open>>

-----------------------------------------------------------------------------
(* The import, in the queue's task group.                                   *)

\* _answer_the_import: the answer is set and the key popped in one step.
AnswerImport(c, what) ==
    /\ work' = [work EXCEPT ![c] =
                  [@ EXCEPT !.at = "over", !.what = what, !.pend = {}, !.back = {}]]
    /\ active' = [active EXCEPT ![work[c].key] = None]

\* _best_candidate_from_cache, and what _substitute_uncached does with it.
Chooses(c) ==
    LET best == Best(positive[work[c].key.path] \cap work[c].key.set) IN
    IF best = None THEN AnswerImport(c, "none")
    ELSE /\ work' = [work EXCEPT ![c] = [@ EXCEPT !.at = "queued", !.from = best, !.back = {}]]
         /\ UNCHANGED active

\* get_substituter: ask the stores nothing is cached of.
GetSubstituter(c) ==
    LET stale == work[c].key.set \ Cached(work[c].key.path)
        waited == Healthy(stale)
    IN
    /\ work[c].at = "begun"
    /\ IF stale = {} THEN Chooses(c) /\ UNCHANGED tasks
       ELSE /\ work' = [work EXCEPT ![c] = [@ EXCEPT !.at = "selecting", !.pend = waited,
                                                     !.back = stale \ waited]]
            /\ tasks' = tasks \cup Probes("select", c, waited)
            /\ UNCHANGED active
    /\ UNCHANGED <<world, valid, caches, call, raceVars, open>>

\* _query_stores_for_selection has its answers: the rest are asked in the background.
Selected(c) ==
    /\ work[c].at = "selecting" /\ work[c].pend = {}
    /\ tasks' = tasks \cup Probes("back", c, work[c].back)
    /\ Chooses(c)
    /\ UNCHANGED <<world, valid, caches, call, raceVars, open>>

\* import_limit
Stream(c) ==
    /\ work[c].at = "queued"
    /\ Cardinality({d \in Callers : work[d].at = "streaming"}) < Slots
    /\ work' = [work EXCEPT ![c] = [@ EXCEPT !.at = "streaming"]]
    /\ UNCHANGED <<world, valid, caches, tasks, call, active, raceVars, open>>

\* _import_nar ends; a NAR the substituter has deleted is "gone".
ImportEnds(c, what) ==
    LET p == work[c].key.path
        there == p \in upstream[work[c].from]
    IN
    /\ work[c].at = "streaming"
    /\ \/ what = "ok" /\ there /\ valid' = valid \cup {p} /\ UNCHANGED troubles
       \/ what = "gone" /\ ~there /\ UNCHANGED <<valid, troubles>>
       \/ what = "failed" /\ UNCHANGED valid /\ Trouble
    /\ AnswerImport(c, what)
    /\ UNCHANGED <<upstream, caches, tasks, call, raceVars, open>>

-----------------------------------------------------------------------------
(* The HTTP cache.                                                          *)

\* upstream_nar_source once the path is known: query the stale healthy stores.
\* A narinfo request has its answer then.
Continues(c, r, winner) ==
    LET stale == Healthy(Http \ Cached(r.path)) IN
    IF r.op = "race" \/ winner = None
    THEN SetCall(c, Done(r, winner)) /\ UNCHANGED tasks
    ELSE IF stale = {}
    THEN SetCall(c, Moved(r, "ranking", positive[r.path] \cap Http)) /\ UNCHANGED tasks
    ELSE /\ SetCall(c, Moved(r, "querying", stale))
         /\ tasks' = tasks \cup Probes("nar", c, stale)

\* race_http_narinfo after its caches missed: join the race, or start one.  A
\* closed queue has registered the race before its first probe raises.
JoinsRace(c, r) ==
    LET first == races[r.path] = None IN
    /\ races' = IF first THEN [races EXCEPT ![r.path] = c] ELSE races
    /\ race' = IF first THEN [race EXCEPT ![c] = [Race EXCEPT !.remaining = Cardinality(Http)]]
               ELSE race
    /\ tasks' = IF first /\ open THEN tasks \cup Probes("race", c, Http) ELSE tasks
    /\ SetCall(c, Joined(r, IF first /\ ~open THEN "refused" ELSE "racing", races'[r.path]))

\* race_http_narinfo: the caches first, then the race.
RaceHttpNarinfo(c, r) ==
    LET known == positive[r.path] \cap Http IN
    \/ /\ r.path \in hashNeg \/ Http = {} \/ EveryStoreMissed(r.path)
       /\ SetCall(c, Done(r, None))
       /\ UNCHANGED <<tasks, raceVars>>
    \/ /\ ~(r.path \in hashNeg \/ Http = {} \/ EveryStoreMissed(r.path))
       /\ IF r.path \in hashPath /\ known # {}
          THEN SetCall(c, Moved(r, "refetch", known)) /\ UNCHANGED <<tasks, raceVars>>
          ELSE JoinsRace(c, r)

\* A .narinfo request of the HTTP server.
NarinfoRequest(c, p) ==
    /\ call[c].at = "idle" /\ "race" \in Ops
    /\ RaceHttpNarinfo(c, Begun(c, "race", p, Http))
    /\ UNCHANGED <<world, valid, caches, imports, open>>

\* A NAR request of the HTTP server: upstream_nar_source.
NarRequest(c, p) ==
    LET r == Begun(c, "nar", p, Http) IN
    /\ call[c].at = "idle" /\ "nar" \in Ops
    /\ IF p \in hashPath
       THEN Continues(c, r, p) /\ UNCHANGED raceVars
       ELSE RaceHttpNarinfo(c, r)
    /\ UNCHANGED <<world, valid, caches, imports, open>>

\* _cached_http_narinfo asks the stores with a cached yes, best first.
Refetch(c, reply) ==
    LET best == Best(call[c].pend)
        r == Moved(call[c], "refetch", call[c].pend \ {best})
    IN
    /\ call[c].at = "refetch"
    /\ Replies(r.path, best, reply)
    /\ IF reply = "hit"
       THEN Continues(c, r, best) /\ UNCHANGED raceVars
       ELSE IF r.pend = {} THEN JoinsRace(c, r)
       ELSE SetCall(c, r) /\ UNCHANGED <<tasks, raceVars>>
    /\ UNCHANGED <<valid, caches, imports, open>>

\* Every waiter of a race pops it, and a race nobody won is remembered briefly.
RaceWakes(c) ==
    LET won == race[call[c].join].winner IN
    /\ call[c].at = "racing" /\ race[call[c].join].event
    /\ races' = [races EXCEPT ![call[c].path] = None]
    /\ hashNeg' = IF won = None THEN hashNeg \cup {call[c].path} ELSE hashNeg
    /\ Continues(c, call[c], won)
    /\ UNCHANGED <<world, valid, positive, negative, hashPath, missHash, health, imports, race, open>>

\* The stale stores have answered: rank those with a yes.
NarRanks(c) ==
    /\ call[c].at = "querying" /\ call[c].pend = {}
    /\ SetCall(c, Moved(call[c], "ranking", positive[call[c].path] \cap Http))
    /\ UNCHANGED <<world, valid, caches, tasks, imports, raceVars, open>>

\* get_narinfo of the best store left, a failure being a None.
NarFetch(c, reply) ==
    LET best == Best(call[c].pend) IN
    /\ call[c].at = "ranking"
    /\ IF best = None THEN reply = "miss" /\ UNCHANGED world ELSE Replies(call[c].path, best, reply)
    /\ SetCall(c, IF best = None \/ reply = "hit" THEN Done(call[c], best)
                ELSE Moved(call[c], "ranking", call[c].pend \ {best}))
    /\ UNCHANGED <<valid, caches, tasks, imports, raceVars, open>>

-----------------------------------------------------------------------------
(* The queries and probes in flight.                                        *)

PathOf(t) == IF t.kind \in {"select", "back"} THEN work[t.of].key.path ELSE call[t.of].path

\* Mutant: a failed query is not discarded.
DiscardsAnswers(pend, s, reply) == IF reply = "fail" THEN pend ELSE pend \ {s}

\* healthy_pending.discard, whatever the answer was.
Discards(pend, s, reply) == pend \ {s}

\* _query_store and record_query_result, for the lookup that asked.
QueryEnds(t, reply) ==
    /\ t \in tasks /\ t.kind # "race"
    /\ Replies(PathOf(t), t.store, reply)
    /\ tasks' = tasks \ {t}
    /\ Records(PathOf(t), t.store, reply)
    /\ call' = IF t.kind \in {"can", "nar"} /\ call[t.of].at \in {"probing", "querying"}
               THEN [call EXCEPT ![t.of] =
                        [@ EXCEPT !.pend = Discards(@, t.store, reply),
                                  !.found = IF t.kind = "can" /\ reply = "hit" /\ @ = None
                                            THEN t.store ELSE @]]
               ELSE call
    /\ work' = IF t.kind = "select"
               THEN [work EXCEPT ![t.of] = [@ EXCEPT !.pend = Discards(@, t.store, reply)]]
               ELSE work
    /\ UNCHANGED <<valid, hashPath, hashNeg, active, raceVars, open>>

\* Mutant: the probe that fails is not counted down.
RemainingFails(n, reply) == IF reply = "fail" THEN n ELSE n - 1

\* race.remaining, counted down in the finally of every probe.
Remaining(n, reply) == n - 1

\* _probe_http_narinfo: a miss is recorded nowhere, a failure in the health log only.
ProbeEnds(t, reply) ==
    LET p == PathOf(t)
        x == race[t.of]
        wins == reply = "hit" /\ x.winner = None
    IN
    /\ t \in tasks /\ t.kind = "race"
    /\ Replies(p, t.store, reply)
    /\ tasks' = tasks \ {t}
    /\ race' = [race EXCEPT ![t.of] =
                  [remaining |-> Remaining(x.remaining, reply),
                   winner |-> IF wins THEN t.store ELSE x.winner,
                   event |-> x.event \/ wins \/ Remaining(x.remaining, reply) <= 0]]
    /\ IF reply = "hit"
       THEN Records(p, t.store, reply) /\ hashPath' = hashPath \cup {p}
       ELSE /\ health' = IF reply = "fail" THEN [health EXCEPT ![t.store] = Noted(@, FALSE)]
                         ELSE health
            /\ UNCHANGED <<positive, negative, missHash, hashPath>>
    /\ UNCHANGED <<valid, hashNeg, call, imports, races, open>>

-----------------------------------------------------------------------------
(* The rest of the world.                                                   *)

\* An entry of a TTL cache expires.
Expires(p) ==
    /\ Trouble
    /\ \/ /\ positive[p] # {} /\ positive' = [positive EXCEPT ![p] = {}]
          /\ UNCHANGED <<negative, hashPath, hashNeg, missHash>>
       \/ /\ negative[p] # {} /\ negative' = [negative EXCEPT ![p] = {}]
          /\ UNCHANGED <<positive, hashPath, hashNeg, missHash>>
       \/ /\ p \in hashPath /\ hashPath' = hashPath \ {p}
          /\ UNCHANGED <<positive, negative, hashNeg, missHash>>
       \/ /\ p \in hashNeg /\ hashNeg' = hashNeg \ {p}
          /\ UNCHANGED <<positive, negative, hashPath, missHash>>
       \/ /\ p \in missHash /\ missHash' = missHash \ {p}
          /\ UNCHANGED <<positive, negative, hashPath, hashNeg>>
    /\ UNCHANGED <<upstream, valid, health, tasks, call, imports, raceVars, open>>

\* A substituter gains or deletes a path.
Moves(s, p) ==
    /\ Trouble
    /\ upstream' = [upstream EXCEPT ![s] = IF p \in @ THEN @ \ {p} ELSE @ \cup {p}]
    /\ UNCHANGED <<valid, caches, tasks, call, imports, raceVars, open>>

\* close: every probe and import is cancelled.  The queries of a NAR request
\* run in the request.
Close ==
    /\ open /\ Trouble
    /\ open' = FALSE
    /\ tasks' = {t \in tasks : t.kind = "nar"}
    /\ work' = [c \in Callers |-> IF work[c].at \in {"none", "over"} THEN work[c]
                  ELSE [work[c] EXCEPT !.at = "over", !.what = "closed", !.from = None,
                                       !.pend = {}, !.back = {}]]
    /\ active' = [k \in Key |-> None]
    /\ UNCHANGED <<upstream, valid, caches, call, raceVars>>

Waker(c) == CanWakes(c) \/ SubstituteWakes(c) \/ RaceWakes(c) \/ NarRanks(c)
Reply == {"hit", "miss", "fail"}

Importer(c) ==
    \/ GetSubstituter(c) \/ Selected(c) \/ Stream(c)
    \/ \E what \in {"ok", "gone", "failed"} : ImportEnds(c, what)

Fetches(c) == \E reply \in Reply : Refetch(c, reply) \/ NarFetch(c, reply)

Replied == \E t \in tasks, reply \in Reply : QueryEnds(t, reply) \/ ProbeEnds(t, reply)

SubstNext ==
    \/ \E c \in Callers, p \in Paths :
         \/ \E S \in Sets : CanSubstitute(c, p, S) \/ Substitute(c, p, S)
         \/ NarinfoRequest(c, p) \/ NarRequest(c, p)
    \/ \E c \in Callers : Waker(c) \/ Importer(c) \/ Fetches(c) \/ Leave(c)
    \/ Replied
    \/ \E p \in Paths : Expires(p) \/ \E s \in Stores : Moves(s, p)
    \/ Close

SubstSpec == SubstInit /\ [][SubstNext]_substVars

\* The event loop runs every task that can run.  A query ends: fail_after bounds it.
\* A stream ends: the connection's timeouts bound its reads.
FairSubst ==
    /\ SubstSpec
    /\ WF_substVars(\E c \in Callers : Waker(c))
    /\ WF_substVars(\E c \in Callers : Importer(c))
    /\ WF_substVars(\E c \in Callers : Fetches(c))
    /\ WF_substVars(Replied)

-----------------------------------------------------------------------------
(* Properties.                                                              *)

\* The state is well formed: a health log fits its window, and a race counts
\* exactly the probes it still has, whichever of them failed (race.remaining).
SubstTypeOK ==
    /\ tasks \subseteq Task
    /\ \A s \in Stores : Len(health[s]) <= Window
    /\ \A c \in Callers :
         open => race[c].remaining = Cardinality({t \in tasks : t.kind = "race" /\ t.of = c})

\* How the queue's state reads as a shared import: a caller has its answer as
\* soon as the import it joined has one.
Knows(at, k, what, from) == [at |-> at, key |-> k, what |-> what, from |-> from]

ImportCaller(c) ==
    LET r == call[c]
        k == [path |-> r.path, set |-> r.set]
    IN
    CASE r.op # "import" -> Knows("idle", None, None, None)
      [] r.op = "import" /\ r.at = "left" -> Knows("left", k, None, None)
      [] r.op = "import" /\ r.at = "refused" -> Knows("answered", k, "closed", None)
      [] OTHER -> IF work[r.join].at = "over"
                  THEN Knows("answered", k, work[r.join].what, work[r.join].from)
                  ELSE Knows("waiting", k, None, None)

Shared == INSTANCE SharedImport WITH
    caller <- [c \in Callers |-> ImportCaller(c)],
    active <- {k \in Key : active[k] # None}

\* The queue's imports are shared imports: one at a time for a path and a list of
\* substituters, one answer for everyone who joined, never from a store a
\* client's list leaves out, and unharmed by a caller that leaves (substitute,
\* _answer_the_import).
SharesImports == Shared!ImportSpec

\* While the queue is open every call is answered: no straggler, failed query,
\* popped race or full import limit leaves a client waiting for good.
EveryCallIsAnswered ==
    \A c \in Callers : call[c].at # "idle" ~> (call[c].at \in {"done", "left", "refused"} \/ ~open)
=============================================================================
