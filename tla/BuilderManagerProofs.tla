------------------------ MODULE BuilderManagerProofs ------------------------
(***************************************************************************)
(* What the builder manager establishes for any Jobs, systems, limits,      *)
(* faults and bounds.                                                       *)
(***************************************************************************)
EXTENDS BuilderManager, FiniteSetTheorems, WellFoundedInduction, TLAPS

Status == {"active", "failed", "succeeded", "gone"}
JobOps == {"each", "drop", "recycle", "connect", "ensure", "forget", "register", "unregister",
           "delete", "retire"}

\* What the agenda holds.
AnEntry == [op : JobOps, jobs : SUBSET Jobs, of : SUBSET (Jobs \X Status)]
           \cup [op : {"fill"}, jobs : SUBSET Jobs, of : (SUBSET Systems) \ {{}}, total : Nat]

\* The types, with the agenda's; a store that is served is registered.
Types == BuildersTypeOK /\ agenda \in Seq(AnEntry) /\ served \subseteq registered

\* A pass deletes a Job next, or once it has unregistered its store; by then the store is
\* not served, or it drains and is idle.  What it is about to retire drains and is idle,
\* and comes after the deletion and the removal of another one.
DeleteOK(steps, i, stores, idle) ==
    steps[i].op = "delete" =>
        \/ i = 1 /\ \A j \in steps[1].jobs : j \notin stores \/ j \in idle
        \/ i = 2 /\ steps[1].op = "unregister" /\ \E j : steps[1].jobs = {j} /\ steps[2].jobs = {j}
RetireOK(steps, i, idle) ==
    steps[i].op = "retire" =>
        /\ steps[i].jobs \subseteq idle
        /\ \A k \in 1..(i - 1) : steps[k].op \in {"delete", "unregister"} /\ steps[k].jobs \cap steps[i].jobs = {}
Orderly(steps, stores, idle) ==
    \A i \in 1..Len(steps) : DeleteOK(steps, i, stores, idle) /\ RetireOK(steps, i, idle)

\* What says that a Job has ended is true of it for as long as it is to be handled.
Old(says, jobs, status) ==
    \A p \in says : p[1] \in jobs /\ p[2] # "active" => status[p[1]] # "active"
EachIsOld(steps, status) ==
    \A i \in 1..Len(steps) : steps[i].op = "each" => Old(steps[i].of, steps[i].jobs, status)

\* The inductive invariant.
BuildersInv ==
    /\ Types
    /\ Orderly(agenda, served, draining \ busy)
    /\ EachIsOld(agenda, job)
    /\ Old(stream, Jobs, job)

-----------------------------------------------------------------------------
(* The agenda.                                                              *)

\* One sequence after another.
LEMMA Joins ==
  ASSUME NEW S, NEW s \in Seq(S), NEW t \in Seq(S)
  PROVE  /\ s \o t \in Seq(S) /\ Len(s \o t) = Len(s) + Len(t)
         /\ \A i \in 1..Len(s) : (s \o t)[i] = s[i]
         /\ \A i \in 1..Len(s \o t) : i > Len(s) => (s \o t)[i] = t[i - Len(s)]
  BY SMTT(120)

\* The agenda after its first step gave way to others.
LEMMA Takes ==
  ASSUME NEW S, NEW a \in Seq(S), a # <<>>, NEW st \in Seq(S), NEW b, b = st \o Tail(a)
  PROVE  /\ b \in Seq(S) /\ Len(b) = Len(st) + Len(a) - 1
         /\ \A i \in 1..Len(st) : b[i] = st[i]
         /\ \A i \in 1..Len(b) : i > Len(st) => b[i] = a[i - Len(st) + 1] /\ i - Len(st) + 1 \in 2..Len(a)
  BY SMTT(120)

\* The smallest of a set is one of it.
LEMMA MinIs ==
  ASSUME NEW S \in SUBSET Nat, S # {}
  PROVE  Min(S) \in S /\ \A m \in S : Min(S) <= m
  <1>1. PICK n \in S : \A m \in S : ~(<<m, n>> \in OpToRel(<, Nat))
    BY ZenonT(120), NatLessThanWellFounded, WFMin
  <1>2. \A m \in S : ~(m < n)
    BY ZenonT(120), <1>1 DEF OpToRel
  <1>3. \A m \in S : n <= m
    BY SMTT(120), <1>2
  <1> QED BY ZenonT(120), <1>3 DEF Min

\* What an entry is about.
LEMMA EntriesAre ==
  /\ \A op \in JobOps, jobs \in SUBSET Jobs :
       Todo(op, jobs) \in AnEntry /\ Todo(op, jobs).op = op /\ Todo(op, jobs).jobs = jobs
  /\ \A op \in JobOps, jobs \in SUBSET Jobs, of \in SUBSET (Jobs \X Status) :
       /\ TodoOf(op, jobs, of) \in AnEntry /\ TodoOf(op, jobs, of).op = op
       /\ TodoOf(op, jobs, of).jobs = jobs /\ TodoOf(op, jobs, of).of = of
  /\ \A t \in AnEntry : /\ t.jobs \in SUBSET Jobs /\ t.op \in JobOps \cup {"fill"}
                        /\ t.op # "fill" => t.of \in SUBSET (Jobs \X Status)
                        /\ t.op = "fill" => t.of \in (SUBSET Systems) \ {{}} /\ t.total \in Nat
  BY SMTT(120) DEF AnEntry, Todo, TodoOf, JobOps

\* The first entry is one.
LEMMA HeadIs ==
  ASSUME Types, NEW op, Doing(op)
  PROVE  /\ agenda # <<>> /\ agenda \in Seq(AnEntry) /\ Len(agenda) \in Nat \ {0}
         /\ Head(agenda) = agenda[1] /\ Head(agenda) \in AnEntry /\ Head(agenda).op = op
         /\ Head(agenda).jobs \in SUBSET Jobs
  <1>1. agenda # <<>> /\ agenda \in Seq(AnEntry) /\ Head(agenda).op = op
    BY ZenonT(120) DEF Types, Doing
  <1>2. Len(agenda) \in Nat \ {0} /\ Head(agenda) = agenda[1] /\ Head(agenda) \in AnEntry
    BY SMTT(120), <1>1
  <1> QED BY ZenonT(120), <1>1, <1>2, EntriesAre

\* The rest of the first entry.
LEMMA WithoutIs ==
  ASSUME Types, NEW op \in {"each", "retire", "unregister"}, Doing(op), NEW j
  PROVE  /\ Without(j) \in Seq(AnEntry) /\ Len(Without(j)) \in {0, 1}
         /\ Len(Without(j)) = 0 <=> Head(agenda).jobs \subseteq {j}
         /\ Len(Without(j)) = 1 => /\ Without(j)[1].op = op /\ Without(j)[1].of = Head(agenda).of
                                   /\ Without(j)[1].jobs = Head(agenda).jobs \ {j}
  <1> DEFINE h == Head(agenda)
             t == [h EXCEPT !.jobs = @ \ {j}]
  <1>1. h \in AnEntry /\ h.op = op
    BY ZenonT(120), HeadIs
  <1>2. t \in AnEntry /\ t.op = op /\ t.of = h.of /\ t.jobs = h.jobs \ {j}
    BY ZenonT(120), <1>1 DEF AnEntry, JobOps
  <1>3. Without(j) = IF h.jobs \ {j} = {} THEN <<>> ELSE <<t>>
    BY ZenonT(120), <1>2 DEF Without, IfAny
  <1> HIDE DEF t, h
  <1>4. CASE h.jobs \subseteq {j}
    BY SMTT(120), <1>3, <1>4 DEF h
  <1>5. CASE ~(h.jobs \subseteq {j})
    BY SMTT(120), <1>2, <1>3, <1>5 DEF h
  <1> QED BY ZenonT(120), <1>4, <1>5

\* An entry "each" among the steps is what is left of the first.
EachFrom(steps) ==
    \A i \in 1..Len(steps) : steps[i].op = "each" =>
        /\ Head(agenda).op = "each" /\ steps[i].of = Head(agenda).of
        /\ steps[i].jobs \subseteq Head(agenda).jobs

\* The step under way is replaced by others.
Replaces(steps) ==
    /\ agenda # <<>> /\ steps \in Seq(AnEntry) /\ EachFrom(steps)
    /\ agenda' = steps \o Tail(agenda)

\* As it is by a step that neither deletes nor unregisters.
Goes(steps) ==
    /\ Replaces(steps) /\ Head(agenda).op \notin {"delete", "unregister"}
    /\ Orderly(steps, served', draining' \ busy')

\* Steps that neither delete nor retire are in order.
LEMMA PlainSteps ==
  ASSUME Types, NEW op, Doing(op), op \notin {"delete", "unregister"}, NEW st \in Seq(AnEntry), Then(st),
         \A i \in 1..Len(st) : st[i].op \notin {"delete", "retire", "each"}
  PROVE  Goes(st)
  <1>1. agenda # <<>> /\ Head(agenda).op = op /\ agenda' = st \o Tail(agenda)
    BY ZenonT(120) DEF Doing, Then
  <1> QED BY ZenonT(120), <1>1 DEF Goes, Replaces, EachFrom, Orderly, DeleteOK, RetireOK

\* Nothing more to do, or one entry, or two.
LEMMA FewSteps ==
  /\ <<>> \in Seq(AnEntry) /\ Len(<<>>) = 0
  /\ \A t \in AnEntry : <<t>> \in Seq(AnEntry) /\ Len(<<t>>) = 1 /\ <<t>>[1] = t
  /\ \A t, u \in AnEntry : <<t, u>> \in Seq(AnEntry) /\ Len(<<t, u>>) = 2 /\ <<t, u>>[1] = t /\ <<t, u>>[2] = u
  BY SMTT(120)

\* _ensure_min_builders leaves at most the systems to fill.
LEMMA FillIs ==
  ASSUME NEW short \in SUBSET Systems, NEW total \in Nat
  PROVE  /\ FillSteps(short, total) \in Seq(AnEntry)
         /\ \A i \in 1..Len(FillSteps(short, total)) : FillSteps(short, total)[i].op = "fill"
  <1> DEFINE t == [op |-> "fill", jobs |-> {}, of |-> short, total |-> total]
  <1>1. FillSteps(short, total) = <<>> \/ (short # {} /\ FillSteps(short, total) = <<t>>)
    BY ZenonT(120) DEF FillSteps
  <1>2. short # {} => t \in AnEntry
    <2>1. ASSUME short # {} PROVE short \in (SUBSET Systems) \ {{}}
      BY ZenonT(120), <2>1
    <2> DEFINE T == (SUBSET Systems) \ {{}}
    <2> HIDE DEF T
    <2>2. short # {} => t \in [op : {"fill"}, jobs : SUBSET Jobs, of : T, total : Nat]
      BY ZenonT(120), <2>1 DEF T
    <2> QED BY ZenonT(120), <2>2 DEF AnEntry, T
  <1>3. t.op = "fill"
    BY ZenonT(120)
  <1> HIDE DEF t
  <1>4. CASE FillSteps(short, total) = <<>>
    BY SMTT(120), <1>4
  <1>5. CASE FillSteps(short, total) = <<t>> /\ short # {}
    BY SMTT(120), <1>2, <1>3, <1>5
  <1> QED BY ZenonT(120), <1>1, <1>4, <1>5

\* How many builders count.
LEMMA CountsAre ==
  AllActive \in Nat
  <1>1. IsFiniteSet({j \in Jobs : Counts(j)})
    BY ZenonT(120), BuildersAssumption, FS_Subset
  <1> QED BY ZenonT(120), <1>1, FS_CardinalityType DEF AllActive

LEMMA EnsureSays ==
  ASSUME Types, NEW op, Doing(op), op \notin {"delete", "unregister"}, EnsureMinBuilders
  PROVE  \E st : Goes(st)
  <1>1. EnsureSteps \in Seq(AnEntry) /\ \A i \in 1..Len(EnsureSteps) : EnsureSteps[i].op = "fill"
    BY ZenonT(120), FillIs, CountsAre DEF EnsureSteps
  <1>2. CASE Then(EnsureSteps)
    <2>1. \A i \in 1..Len(EnsureSteps) : EnsureSteps[i].op \notin {"delete", "retire", "each"}
      BY ZenonT(120), <1>1
    <2> QED BY ZenonT(120), <1>1, <1>2, <2>1, PlainSteps
  <1>3. CASE Then(<<>>)
    <2>1. \A i \in 1..Len(<<>>) : <<>>[i].op \notin {"delete", "retire", "each"}
      BY SMTT(120)
    <2> QED BY ZenonT(120), <1>3, <2>1, FewSteps, PlainSteps
  <1> QED BY ZenonT(120), <1>2, <1>3 DEF EnsureMinBuilders

-----------------------------------------------------------------------------
(* The steps of a pass.                                                     *)

\* One Job of those to reconcile.
LEMMA ReconcileSays ==
  ASSUME Types, Doing("each"), NEW j \in Jobs,
         \/ Then(<<Todo("unregister", {j}), Todo("delete", {j})>> \o Without(j))
         \/ \E op \in {"register", "unregister"} :
              Then(<<Todo(op, {j})>> \o Without(j)) \/ Then(<<>> \o Without(j))
         \/ Then(For(j \in registered, "unregister", j) \o <<Todo("delete", {j})>> \o Without(j)),
         UNCHANGED server
  PROVE  \E st : Goes(st)
  <1> DEFINE W == Without(j)
             u == Todo("unregister", {j})
             d == Todo("delete", {j})
  <1>0. /\ agenda # <<>> /\ Head(agenda).op = "each" /\ served \subseteq registered
        /\ UNCHANGED <<served, draining, busy>>
    BY ZenonT(120), HeadIs DEF Types, server
  <1>1. /\ W \in Seq(AnEntry) /\ Len(W) \in {0, 1}
        /\ Len(W) = 1 => W[1].op = "each" /\ W[1].of = Head(agenda).of /\ W[1].jobs \subseteq Head(agenda).jobs
    BY SMTT(120), WithoutIs
  <1>2. /\ u \in AnEntry /\ u.op = "unregister" /\ u.jobs = {j}
        /\ d \in AnEntry /\ d.op = "delete" /\ d.jobs = {j}
        /\ \A op \in {"register", "unregister"} : Todo(op, {j}) \in AnEntry /\ Todo(op, {j}).op = op
    BY SMTT(120), EntriesAre DEF JobOps
  <1> HIDE DEF W, u, d
  <1>3. ASSUME NEW s \in Seq(AnEntry), Len(s) = 2, s[1] = u, s[2] = d, Then(s \o W)
        PROVE  Goes(s \o W)
    <2> DEFINE st == s \o W
    <2>0. /\ st \in Seq(AnEntry) /\ Len(st) = Len(s) + Len(W) /\ \A i \in 1..Len(s) : st[i] = s[i]
          /\ \A i \in 1..Len(st) : i > Len(s) => st[i] = W[i - Len(s)]
      BY ZenonT(120), <1>1, Joins
    <2>2. agenda' = st \o Tail(agenda)
      BY ZenonT(120), <1>3 DEF Then
    <2> HIDE DEF st
    <2>1. /\ st \in Seq(AnEntry) /\ Len(st) = 2 + Len(W) /\ st[1] = u /\ st[2] = d
          /\ \A i \in 1..Len(st) : i \in {1, 2} \/ (Len(W) = 1 /\ st[i] = W[1])
      BY SMTT(120), <1>1, <1>3, <2>0
    <2>3. \A i \in 1..Len(st) : (i = 1 /\ st[i].op = "unregister") \/ (i = 2 /\ st[i].op = "delete")
                                 \/ (Len(W) = 1 /\ st[i] = W[1] /\ st[i].op = "each")
      BY ZenonT(120), <1>1, <1>2, <2>1
    <2>4. EachFrom(st)
      BY ZenonT(120), <1>0, <1>1, <2>3 DEF EachFrom
    <2>5. Orderly(st, served', draining' \ busy')
      BY ZenonT(120), <1>2, <2>1, <2>3 DEF Orderly, DeleteOK, RetireOK
    <2> QED BY ZenonT(120), <1>0, <2>1, <2>2, <2>4, <2>5 DEF Goes, Replaces, st
  <1>4. ASSUME NEW s \in Seq(AnEntry), Len(s) \in {0, 1}, Len(s) = 1 => s[1].op \in {"register", "unregister"},
               Then(s \o W)
        PROVE  Goes(s \o W)
    <2> DEFINE st == s \o W
    <2>1. /\ st \in Seq(AnEntry) /\ Len(st) = Len(s) + Len(W)
          /\ \A i \in 1..Len(st) : (i = 1 /\ Len(s) = 1 /\ st[i] = s[1]) \/ (Len(W) = 1 /\ st[i] = W[1])
      BY SMTT(120), <1>1, <1>4
    <2>2. agenda' = st \o Tail(agenda)
      BY ZenonT(120), <1>4 DEF Then
    <2> HIDE DEF st
    <2>3. EachFrom(st)
      BY ZenonT(120), <1>0, <1>1, <1>4, <2>1 DEF EachFrom
    <2>4. Orderly(st, served', draining' \ busy')
      BY ZenonT(120), <1>0, <1>1, <1>4, <2>1 DEF Orderly, DeleteOK, RetireOK
    <2> QED BY ZenonT(120), <1>0, <2>1, <2>2, <2>3, <2>4 DEF Goes, Replaces, st
  <1>5. ASSUME NEW op \in {"register", "unregister"},
               Then(<<Todo(op, {j})>> \o W) \/ Then(<<>> \o W)
        PROVE  \E st : Goes(st)
    <2>1. CASE Then(<<Todo(op, {j})>> \o W)
      <3>1. Todo(op, {j}) \in AnEntry /\ Todo(op, {j}).op = op
        BY ZenonT(120), <1>2
      <3> DEFINE s == <<Todo(op, {j})>>
      <3>2. s \in Seq(AnEntry) /\ Len(s) = 1 /\ s[1].op \in {"register", "unregister"}
        BY ZenonT(120), <3>1, FewSteps
      <3>3. Then(s \o W)
        BY ZenonT(120), <2>1
      <3> HIDE DEF s
      <3> QED BY ZenonT(120), <1>4, <3>2, <3>3
    <2>2. CASE Then(<<>> \o W)
      <3>1. <<>> \in Seq(AnEntry) /\ Len(<<>>) \in {0, 1} /\ Len(<<>>) # 1
        BY SMTT(120), FewSteps
      <3> QED BY ZenonT(120), <1>4, <2>2, <3>1
    <2> QED BY ZenonT(120), <1>5, <2>1, <2>2
  <1>6. ASSUME j \notin served, NEW s \in Seq(AnEntry), Len(s) = 1, s[1] = d, Then(s \o W)
        PROVE  Goes(s \o W)
    <2> DEFINE st == s \o W
    <2>0. /\ st \in Seq(AnEntry) /\ Len(st) = Len(s) + Len(W) /\ \A i \in 1..Len(s) : st[i] = s[i]
          /\ \A i \in 1..Len(st) : i > Len(s) => st[i] = W[i - Len(s)]
      BY ZenonT(120), <1>1, Joins
    <2>2. agenda' = st \o Tail(agenda)
      BY ZenonT(120), <1>6 DEF Then
    <2> HIDE DEF st
    <2>1. /\ st \in Seq(AnEntry) /\ Len(st) = 1 + Len(W) /\ st[1] = d
          /\ \A i \in 1..Len(st) : i = 1 \/ (Len(W) = 1 /\ st[i] = W[1])
      BY SMTT(120), <1>1, <1>6, <2>0
    <2>3. \A i \in 1..Len(st) : (i = 1 /\ st[i].op = "delete")
                                 \/ (Len(W) = 1 /\ st[i] = W[1] /\ st[i].op = "each")
      BY ZenonT(120), <1>1, <1>2, <2>1
    <2>4. EachFrom(st)
      BY ZenonT(120), <1>0, <1>1, <2>3 DEF EachFrom
    <2>5. Orderly(st, served', draining' \ busy')
      BY ZenonT(120), <1>0, <1>2, <1>6, <2>1, <2>3 DEF Orderly, DeleteOK, RetireOK
    <2> QED BY ZenonT(120), <1>0, <2>1, <2>2, <2>4, <2>5 DEF Goes, Replaces, st
  <1>7. ASSUME Then(For(j \in registered, "unregister", j) \o <<d>> \o W)
        PROVE  \E st : Goes(st)
    <2>1. CASE j \in registered
      <3>1. For(j \in registered, "unregister", j) = <<u>>
        BY ZenonT(120), <2>1 DEF For, u
      <3> DEFINE s == <<u>> \o <<d>>
      <3>2. s \in Seq(AnEntry) /\ Len(s) = 2 /\ s[1] = u /\ s[2] = d
        BY SMTT(120), <1>2
      <3>3. Then(s \o W)
        BY ZenonT(120), <1>7, <3>1
      <3> HIDE DEF s
      <3> QED BY ZenonT(120), <1>3, <3>2, <3>3
    <2>2. CASE j \notin registered
      <3>1. For(j \in registered, "unregister", j) = <<>>
        BY ZenonT(120), <2>2 DEF For
      <3> DEFINE s == <<>> \o <<d>>
      <3>2. s \in Seq(AnEntry) /\ Len(s) = 1 /\ s[1] = d
        BY SMTT(120), <1>2
      <3>3. Then(s \o W) /\ j \notin served
        BY ZenonT(120), <1>0, <1>7, <2>2, <3>1
      <3> HIDE DEF s
      <3> QED BY ZenonT(120), <1>6, <3>2, <3>3
    <2> QED BY ZenonT(120), <2>1, <2>2
  <1>8. ASSUME Then(<<u, d>> \o W) PROVE \E st : Goes(st)
    BY ZenonT(120), <1>2, <1>3, <1>8, FewSteps
  <1> QED BY ZenonT(120), <1>5, <1>7, <1>8 DEF u, d, W

\* What Reconciles does with one Job is one of these.
LEMMA ReconcilesGo ==
  ASSUME Types, Reconciles
  PROVE  \E st : Goes(st)
  <1>1. Doing("each") /\ Head(agenda).jobs \in SUBSET Jobs /\ UNCHANGED server
    BY ZenonT(120), HeadIs DEF Reconciles
  <1>2. PICK j \in Head(agenda).jobs, status \in {"active", "failed", "succeeded"} :
          \/ ReconcileOutdated(j)
          \/ ReconcileFinished(j, status)
          \/ \E p \in PodReads(j) : ReconcileActive(j, p)
    BY ZenonT(120) DEF Reconciles
  <1>3. j \in Jobs
    BY ZenonT(120), <1>1
  <1>5. CASE ReconcileOutdated(j)
    BY ZenonT(120), <1>1, <1>3, <1>5, ReconcileSays DEF ReconcileOutdated
  <1>6. CASE ReconcileFinished(j, status)
    <2>1. Then(For(j \in registered, "unregister", j) \o Without(j))
      BY ZenonT(120), <1>6 DEF ReconcileFinished
    <2>2. Then(<<Todo("unregister", {j})>> \o Without(j)) \/ Then(<<>> \o Without(j))
      BY ZenonT(120), <2>1 DEF For
    <2> QED BY ZenonT(120), <1>1, <1>3, <2>2, ReconcileSays
  <1>7. ASSUME NEW p \in PodReads(j), ReconcileActive(j, p)
        PROVE  \E st : Goes(st)
    <2>1. \/ Then(For(j \notin registered, "register", j) \o Without(j))
          \/ Then(For(j \in registered, "unregister", j) \o <<Todo("delete", {j})>> \o Without(j))
          \/ Then(For(j \notin registered /\ p \in {"up", "dead"}, "register", j) \o Without(j))
      BY ZenonT(120), <1>7 DEF ReconcileActive
    <2>2. \/ Then(<<Todo("register", {j})>> \o Without(j)) \/ Then(<<>> \o Without(j))
          \/ Then(For(j \in registered, "unregister", j) \o <<Todo("delete", {j})>> \o Without(j))
      <3>1. CASE Then(For(j \notin registered, "register", j) \o Without(j))
        BY ZenonT(120), <3>1 DEF For
      <3>2. CASE Then(For(j \notin registered /\ p \in {"up", "dead"}, "register", j) \o Without(j))
        BY ZenonT(120), <3>2 DEF For
      <3> QED BY ZenonT(120), <2>1, <3>1, <3>2
    <2> QED BY ZenonT(120), <1>1, <1>3, <2>2, ReconcileSays
  <1> QED BY ZenonT(120), <1>2, <1>5, <1>6, <1>7

\* A builder to retire is deleted and then unregistered; it drains and is idle.
LEMMA RetiresGo ==
  ASSUME Types, Orderly(agenda, served, draining \ busy), Retires
  PROVE  \E st : Goes(st)
  <1>1. Doing("retire") /\ UNCHANGED <<served, draining, busy>>
    BY ZenonT(120) DEF Retires, server
  <1>2. PICK j \in Head(agenda).jobs : Then(<<Todo("delete", {j}), Todo("unregister", {j})>> \o Without(j))
    BY ZenonT(120) DEF Retires
  <1>3. /\ agenda # <<>> /\ Len(agenda) \in Nat \ {0} /\ Head(agenda) = agenda[1]
        /\ Head(agenda).op = "retire" /\ Head(agenda).jobs \in SUBSET Jobs
    BY ZenonT(120), <1>1, HeadIs
  <1>4. Head(agenda).jobs \subseteq draining \ busy
    BY SMTT(120), <1>3 DEF Orderly, DeleteOK, RetireOK
  <1> DEFINE W == Without(j)
             d == Todo("delete", {j})
             u == Todo("unregister", {j})
             s == <<d, u>>
             st == s \o W
  <1>5. /\ W \in Seq(AnEntry) /\ Len(W) \in {0, 1}
        /\ Len(W) = 1 => W[1].op = "retire" /\ W[1].jobs = Head(agenda).jobs \ {j}
    BY ZenonT(120), <1>1, WithoutIs
  <1>6. /\ d \in AnEntry /\ d.op = "delete" /\ d.jobs = {j}
        /\ u \in AnEntry /\ u.op = "unregister" /\ u.jobs = {j}
    BY SMTT(120), <1>3, EntriesAre DEF JobOps
  <1> HIDE DEF W, d, u
  <1>7. s \in Seq(AnEntry) /\ Len(s) = 2 /\ s[1] = d /\ s[2] = u
    BY SMTT(120), <1>6
  <1> HIDE DEF s
  <1>8. /\ st \in Seq(AnEntry) /\ Len(st) = Len(s) + Len(W) /\ \A i \in 1..Len(s) : st[i] = s[i]
        /\ \A i \in 1..Len(st) : i > Len(s) => st[i] = W[i - Len(s)]
    <2>1. s \in Seq(AnEntry) /\ W \in Seq(AnEntry)
      BY ZenonT(120), <1>5, <1>7
    <2> QED BY ZenonT(120), <2>1, Joins
  <1>9. agenda' = st \o Tail(agenda)
    BY ZenonT(120), <1>2 DEF Then, W, d, u, s
  <1> HIDE DEF st
  <1>10. /\ Len(st) = 2 + Len(W) /\ st[1] = d /\ st[2] = u
         /\ \A i \in 1..Len(st) : i = 1 \/ i = 2 \/ (i = 3 /\ Len(W) = 1 /\ st[i] = W[1])
    BY SMTT(120), <1>5, <1>7, <1>8
  <1>11. EachFrom(st)
    BY ZenonT(120), <1>5, <1>6, <1>10 DEF EachFrom
  <1>12. Orderly(st, served', draining' \ busy')
    <2>1. \A i \in 1..Len(st) : st[i].op = "delete" => i = 1
      BY ZenonT(120), <1>5, <1>6, <1>10
    <2>2. \A i \in 1..Len(st) : st[i].op = "retire" => i = 3 /\ st[i].jobs = Head(agenda).jobs \ {j}
      BY ZenonT(120), <1>5, <1>6, <1>10
    <2>3. \A k \in 1..(3 - 1) : st[k].op \in {"delete", "unregister"} /\ st[k].jobs = {j}
      BY SMTT(120), <1>6, <1>10
    <2>4. \A k \in st[1].jobs : k \in draining' \ busy'
      BY ZenonT(120), <1>1, <1>4, <1>6, <1>10
    <2>5. Head(agenda).jobs \ {j} \subseteq draining' \ busy'
      BY ZenonT(120), <1>1, <1>4
    <2> QED BY SMTT(120), <2>1, <2>2, <2>3, <2>4, <2>5 DEF Orderly, DeleteOK, RetireOK
  <1> QED BY ZenonT(120), <1>3, <1>8, <1>9, <1>11, <1>12 DEF Goes, Replaces

\* The other steps of a pass but the two that delete and unregister.
LEMMA OthersGo ==
  ASSUME Types, Orderly(agenda, served, draining \ busy),
         WatchConnects \/ Drops \/ Forgets \/ Registers \/ Ensures \/ Fills \/ Recycles
  PROVE  \E st : Goes(st)
  <1>1. ASSUME NEW op \in {"connect", "register"}, Doing(op), Then(<<>>) PROVE \E st : Goes(st)
    <2>1. \A i \in 1..Len(<<>>) : <<>>[i].op \notin {"delete", "retire", "each"}
      BY SMTT(120)
    <2>2. op \notin {"delete", "unregister"}
      BY ZenonT(120)
    <2> QED BY ZenonT(120), <1>1, <2>1, <2>2, FewSteps, PlainSteps
  <1>2. ASSUME NEW op \in {"drop", "forget"}, Doing(op), NEW lost \in SUBSET Jobs,
               Then(<<Todo("unregister", lost), Head(agenda)>>)
        PROVE  \E st : Goes(st)
    <2> DEFINE u == Todo("unregister", lost)
               st == <<u, Head(agenda)>>
    <2>1. u \in AnEntry /\ u.op = "unregister"
      BY SMTT(120), EntriesAre DEF JobOps
    <2>2. Head(agenda) \in AnEntry /\ Head(agenda).op = op
      BY ZenonT(120), <1>2, HeadIs
    <2> HIDE DEF u
    <2>3. st \in Seq(AnEntry) /\ \A i \in 1..Len(st) : st[i].op \notin {"delete", "retire", "each"}
      BY SMTT(120), <2>1, <2>2
    <2>4. Then(st)
      BY ZenonT(120), <1>2 DEF u
    <2>5. op \notin {"delete", "unregister"}
      BY ZenonT(120)
    <2> HIDE DEF st
    <2> QED BY ZenonT(120), <1>2, <2>3, <2>4, <2>5, PlainSteps
  <1>3. CASE WatchConnects \/ Registers
    BY ZenonT(120), <1>1, <1>3 DEF WatchConnects, Registers
  <1>4. CASE Ensures
    <2>1. Doing("ensure") /\ EnsureMinBuilders /\ "ensure" \notin {"delete", "unregister"}
      BY ZenonT(120), <1>4 DEF Ensures
    <2> QED BY ZenonT(120), <2>1, EnsureSays
  <1>5. CASE Drops
    <2>1. Doing("drop") /\ "drop" \notin {"delete", "unregister"} /\ Lost(Head(agenda).jobs) \in SUBSET Jobs
      BY ZenonT(120), <1>5 DEF Drops, Lost, Types, BuildersTypeOK
    <2>2. Then(<<Todo("unregister", Lost(Head(agenda).jobs)), Head(agenda)>>) \/ EnsureMinBuilders
      BY ZenonT(120), <1>5 DEF Drops
    <2> QED BY ZenonT(120), <1>2, <2>1, <2>2, EnsureSays
  <1>6. CASE Forgets
    <2>1. Doing("forget") /\ "forget" \notin {"delete", "unregister"}
      BY ZenonT(120), <1>6 DEF Forgets
    <2>2. Head(agenda).jobs \in SUBSET Jobs
      BY ZenonT(120), <2>1, HeadIs
    <2>3. Then(<<Todo("unregister", Head(agenda).jobs), Head(agenda)>>) \/ EnsureMinBuilders
      BY ZenonT(120), <1>6 DEF Forgets
    <2> QED BY ZenonT(120), <1>2, <2>1, <2>2, <2>3, EnsureSays
  <1>7. CASE Fills
    <2>1. Doing("fill") /\ "fill" \notin {"delete", "unregister"}
      BY ZenonT(120), <1>7 DEF Fills
    <2>2. Head(agenda) \in AnEntry /\ Head(agenda).op = "fill"
      BY ZenonT(120), <2>1, HeadIs
    <2>3. Head(agenda).of \in SUBSET Systems /\ Head(agenda).total \in Nat
      BY ZenonT(120), <2>2, EntriesAre
    <2>4. PICK n \in {Head(agenda).total, Head(agenda).total + 1} :
            Then(FillSteps(Head(agenda).of \ {Min(Head(agenda).of)}, n))
      BY ZenonT(120), <1>7 DEF Fills
    <2>5. n \in Nat /\ Head(agenda).of \ {Min(Head(agenda).of)} \in SUBSET Systems
      BY SMTT(120), <2>3
    <2> DEFINE st == FillSteps(Head(agenda).of \ {Min(Head(agenda).of)}, n)
    <2>6. st \in Seq(AnEntry) /\ \A i \in 1..Len(st) : st[i].op = "fill"
      BY ZenonT(120), <2>5, FillIs
    <2> HIDE DEF st
    <2>7. \A i \in 1..Len(st) : st[i].op \notin {"delete", "retire", "each"}
      BY ZenonT(120), <2>6
    <2> QED BY ZenonT(120), <2>1, <2>4, <2>6, <2>7, PlainSteps DEF st
  <1>8. CASE Recycles
    <2> DEFINE t == Todo("retire", ToRetire)
               st == IfAny(t)
    <2>1. /\ Doing("recycle") /\ agenda' = st \o Tail(agenda) /\ busy' = busy /\ draining \subseteq draining'
      BY ZenonT(120), <1>8 DEF Recycles, Then
    <2>2. ToRetire \in SUBSET Jobs /\ ToRetire \subseteq draining' \ busy'
      BY ZenonT(120), <2>1 DEF ToRetire, Seen, Types, BuildersTypeOK
    <2>3. t \in AnEntry /\ t.op = "retire" /\ t.jobs = ToRetire
      BY SMTT(120), <2>2, EntriesAre DEF JobOps
    <2>4. st = <<>> \/ st = <<t>>
      BY ZenonT(120) DEF IfAny
    <2> HIDE DEF t, st
    <2>5. st \in Seq(AnEntry) /\ \A i \in 1..Len(st) : i = 1 /\ st[i] = t
      <3>1. CASE st = <<>>
        BY SMTT(120), <3>1
      <3>2. CASE st = <<t>>
        BY SMTT(120), <2>3, <3>2
      <3> QED BY ZenonT(120), <2>4, <3>1, <3>2
    <2>6. EachFrom(st)
      BY ZenonT(120), <2>3, <2>5 DEF EachFrom
    <2>7. Orderly(st, served', draining' \ busy')
      <3>1. \A i \in 1..Len(st) : st[i].op # "delete" /\ st[i].jobs \subseteq draining' \ busy'
        BY ZenonT(120), <2>2, <2>3, <2>5
      <3>2. \A i \in 1..Len(st) : \A k \in 1..(i - 1) : FALSE
        BY SMTT(120), <2>5
      <3> QED BY ZenonT(120), <3>1, <3>2 DEF Orderly, DeleteOK, RetireOK
    <2>8. agenda # <<>> /\ Head(agenda).op \notin {"delete", "unregister"}
      BY ZenonT(120), <2>1 DEF Doing
    <2> QED BY ZenonT(120), <2>1, <2>5, <2>6, <2>7, <2>8 DEF Goes, Replaces
  <1> QED BY ZenonT(120), <1>3, <1>4, <1>5, <1>6, <1>7, <1>8

-----------------------------------------------------------------------------
(* The order of the agenda.                                                 *)

\* What follows a step that neither deletes nor unregisters neither deletes nor retires.
LEMMA OrderAfter ==
  ASSUME NEW S, NEW a \in Seq(S), a # <<>>, NEW st \in Seq(S), NEW b, b = st \o Tail(a),
         NEW stores, NEW idle, Orderly(a, stores, idle), a[1].op \notin {"delete", "unregister"},
         NEW stores1, NEW idle1, Orderly(st, stores1, idle1)
  PROVE  Orderly(b, stores1, idle1)
  <1>1. Len(a) \in Nat \ {0} /\ Len(st) \in Nat
    BY SMTT(120)
  <1>2. \A i \in 2..Len(a) : a[i].op \notin {"delete", "retire"}
    <2> SUFFICES ASSUME NEW i \in 2..Len(a) PROVE a[i].op \notin {"delete", "retire"}
      BY ZenonT(120)
    <2>1. i \in 1..Len(a) /\ 1 \in 1..(i - 1) /\ i # 1
      BY SMTT(120), <1>1
    <2> QED BY ZenonT(120), <2>1 DEF Orderly, DeleteOK, RetireOK
  <1>3. /\ Len(b) = Len(st) + Len(a) - 1
        /\ \A i \in 1..Len(st) : b[i] = st[i]
        /\ \A i \in 1..Len(b) : i > Len(st) => b[i] = a[i - Len(st) + 1] /\ i - Len(st) + 1 \in 2..Len(a)
    BY SMTT(120), Takes
  <1>4. ASSUME NEW i \in 1..Len(b), ~(i <= Len(st)) PROVE DeleteOK(b, i, stores1, idle1) /\ RetireOK(b, i, idle1)
    <2>1. i > Len(st)
      BY SMTT(120), <1>1, <1>4
    <2>2. b[i].op \notin {"delete", "retire"}
      BY ZenonT(120), <1>2, <1>3, <2>1
    <2> QED BY ZenonT(120), <2>2 DEF DeleteOK, RetireOK
  <1>5. ASSUME NEW i \in 1..Len(b), i <= Len(st) PROVE DeleteOK(b, i, stores1, idle1) /\ RetireOK(b, i, idle1)
    <2>1. i \in 1..Len(st) /\ b[i] = st[i] /\ b[1] = st[1] /\ \A k \in 1..(i - 1) : b[k] = st[k]
      BY SMTT(120), <1>1, <1>3, <1>5
    <2>2. DeleteOK(st, i, stores1, idle1) /\ RetireOK(st, i, idle1)
      BY ZenonT(120), <2>1 DEF Orderly
    <2>3. DeleteOK(b, i, stores1, idle1)
      BY ZenonT(120), <2>1, <2>2 DEF DeleteOK
    <2>4. RetireOK(b, i, idle1)
      BY ZenonT(120), <2>1, <2>2 DEF RetireOK
    <2> QED BY ZenonT(120), <2>3, <2>4
  <1> QED BY ZenonT(120), <1>4, <1>5 DEF Orderly

\* Deleting comes first, so nothing that is left deletes before it has unregistered.
LEMMA OrderAfterDelete ==
  ASSUME NEW S, NEW a \in Seq(S), a # <<>>, a[1].op = "delete", NEW b, b = <<>> \o Tail(a),
         NEW stores, NEW idle, Orderly(a, stores, idle)
  PROVE  Orderly(b, stores, idle)
  <1>1. Len(a) \in Nat \ {0} /\ b \in Seq(S) /\ Len(b) = Len(a) - 1 /\ \A i \in 1..Len(b) : b[i] = a[i + 1]
    BY SMTT(120)
  <1> SUFFICES ASSUME NEW i \in 1..Len(b) PROVE DeleteOK(b, i, stores, idle) /\ RetireOK(b, i, idle)
    BY ZenonT(120) DEF Orderly
  <1>2. i + 1 \in 1..Len(a) /\ i + 1 # 1 /\ \A k \in 1..(i - 1) : k + 1 \in 1..((i + 1) - 1) /\ b[k] = a[k + 1]
    BY SMTT(120), <1>1
  <1>3. b[i] = a[i + 1] /\ DeleteOK(a, i + 1, stores, idle) /\ RetireOK(a, i + 1, idle)
    BY ZenonT(120), <1>1, <1>2 DEF Orderly
  <1>4. DeleteOK(b, i, stores, idle)
    BY ZenonT(120), <1>2, <1>3 DEF DeleteOK
  <1>5. RetireOK(b, i, idle)
    BY ZenonT(120), <1>2, <1>3 DEF RetireOK
  <1> QED BY ZenonT(120), <1>4, <1>5

\* A store that is unregistered is the one to delete next, and not one to retire.
LEMMA OrderAfterUnregister ==
  ASSUME NEW S, NEW a \in Seq(S), a # <<>>, a[1].op = "unregister", NEW j \in a[1].jobs,
         NEW w \in Seq(S), Len(w) \in {0, 1}, Len(w) = 0 <=> a[1].jobs \subseteq {j},
         Len(w) = 1 => w[1].op = "unregister" /\ w[1].jobs = a[1].jobs \ {j},
         NEW b, b = w \o Tail(a),
         NEW stores, NEW idle, Orderly(a, stores, idle),
         NEW idle1, idle \ {j} \subseteq idle1
  PROVE  Orderly(b, stores \ {j}, idle1)
  <1>1. Len(a) \in Nat \ {0}
    BY SMTT(120)
  <1>2. /\ Len(b) = Len(w) + Len(a) - 1
        /\ \A i \in 1..Len(w) : b[i] = w[i]
        /\ \A i \in 1..Len(b) : i > Len(w) => b[i] = a[i - Len(w) + 1] /\ i - Len(w) + 1 \in 2..Len(a)
    BY SMTT(120), Takes
  <1>3. CASE Len(w) = 0
    <2>1. \A i \in 1..Len(b) : b[i] = a[i + 1] /\ i + 1 \in 1..Len(a) /\ i + 1 # 1
      BY SMTT(120), <1>1, <1>2, <1>3
    <2> SUFFICES ASSUME NEW i \in 1..Len(b) PROVE DeleteOK(b, i, stores \ {j}, idle1) /\ RetireOK(b, i, idle1)
      BY ZenonT(120) DEF Orderly
    <2>2. b[i] = a[i + 1] /\ DeleteOK(a, i + 1, stores, idle) /\ RetireOK(a, i + 1, idle)
      BY ZenonT(120), <2>1 DEF Orderly
    <2>3. DeleteOK(b, i, stores \ {j}, idle1)
      <3> SUFFICES ASSUME b[i].op = "delete" PROVE i = 1 /\ \A k \in b[1].jobs : k \notin stores \ {j}
        BY ZenonT(120) DEF DeleteOK
      <3>1. i + 1 = 2 /\ \E k : a[1].jobs = {k} /\ a[2].jobs = {k}
        BY ZenonT(120), <2>1, <2>2 DEF DeleteOK
      <3>2. i = 1 /\ a[2].jobs = {j}
        BY SMTT(120), <3>1
      <3> QED BY SMTT(120), <2>2, <3>2
    <2>4. RetireOK(b, i, idle1)
      <3> SUFFICES ASSUME b[i].op = "retire"
                   PROVE  /\ b[i].jobs \subseteq idle1
                          /\ \A k \in 1..(i - 1) : b[k].op \in {"delete", "unregister"} /\ b[k].jobs \cap b[i].jobs = {}
        BY ZenonT(120) DEF RetireOK
      <3>1. 1 \in 1..((i + 1) - 1) /\ \A k \in 1..(i - 1) : k \in 1..Len(b) /\ k + 1 \in 1..((i + 1) - 1)
        BY SMTT(120), <1>1, <1>2, <1>3
      <3>2. /\ b[i].jobs \subseteq idle
            /\ \A k \in 1..((i + 1) - 1) : a[k].op \in {"delete", "unregister"} /\ a[k].jobs \cap b[i].jobs = {}
        BY ZenonT(120), <2>2 DEF RetireOK
      <3>3. j \notin b[i].jobs
        BY ZenonT(120), <3>1, <3>2
      <3> QED BY ZenonT(120), <2>1, <3>1, <3>2, <3>3
    <2> QED BY ZenonT(120), <2>3, <2>4
  <1>4. CASE Len(w) = 1
    <2>1. /\ b[1] = w[1] /\ 1 \in 1..Len(b) /\ Len(b) = Len(a)
          /\ \A i \in 1..Len(b) : i # 1 => b[i] = a[i]
      BY SMTT(120), <1>1, <1>2, <1>4
    <2> SUFFICES ASSUME NEW i \in 1..Len(b) PROVE DeleteOK(b, i, stores \ {j}, idle1) /\ RetireOK(b, i, idle1)
      BY ZenonT(120) DEF Orderly
    <2>2. CASE i = 1
      BY ZenonT(120), <1>4, <2>1, <2>2 DEF DeleteOK, RetireOK
    <2>3. CASE i # 1
      <3>1. b[i] = a[i] /\ DeleteOK(a, i, stores, idle) /\ RetireOK(a, i, idle)
        BY ZenonT(120), <2>1, <2>3 DEF Orderly
      <3>2. b[i].op # "delete"
        BY ZenonT(120), <1>4, <2>3, <3>1 DEF DeleteOK
      <3>3. 1 \in 1..(i - 1) /\ \A k \in 1..(i - 1) : k \in 1..Len(b)
        BY SMTT(120), <1>1, <2>1, <2>3
      <3>4. ASSUME b[i].op = "retire"
            PROVE  /\ b[i].jobs \subseteq idle1
                   /\ \A k \in 1..(i - 1) : b[k].op \in {"delete", "unregister"} /\ b[k].jobs \cap b[i].jobs = {}
        <4>1. /\ b[i].jobs \subseteq idle
              /\ \A k \in 1..(i - 1) : a[k].op \in {"delete", "unregister"} /\ a[k].jobs \cap b[i].jobs = {}
          BY ZenonT(120), <3>1, <3>4 DEF RetireOK
        <4>2. j \notin b[i].jobs
          BY ZenonT(120), <3>3, <4>1
        <4>3. b[1].op \in {"delete", "unregister"} /\ b[1].jobs \cap b[i].jobs = {}
          BY ZenonT(120), <1>4, <2>1, <3>3, <4>1
        <4> QED BY ZenonT(120), <2>1, <3>3, <4>1, <4>2, <4>3
      <3> QED BY ZenonT(120), <3>2, <3>4 DEF DeleteOK, RetireOK
    <2> QED BY ZenonT(120), <2>2, <2>3
  <1> QED BY ZenonT(120), <1>3, <1>4

-----------------------------------------------------------------------------
(* The cluster and what the watch says of it.                               *)

JobStatus == {"none", "active", "failed", "succeeded", "gone"}
ClusterOK ==
    /\ job \in [Jobs -> JobStatus] /\ system \in [Jobs -> Systems]
    /\ pod \in [Jobs -> {"absent", "up", "ready", "dead"}] /\ age \in [Jobs -> 0..2]

\* A Job that starts is one that nothing mentions; what the watch newly says to have ended
\* has.
Starts == \A j \in Jobs : job'[j] = "active" => job[j] = "active" \/ j \notin Mentioned
News == \A e \in stream' : e \in Jobs \X Status /\ (e[2] # "active" => e \in stream \/ job'[e[1]] # "active")

LEMMA TypesAre ==
  ASSUME Types
  PROVE  ClusterOK /\ stream \subseteq Jobs \X Status
  BY ZenonT(120) DEF Types, BuildersTypeOK, ClusterOK, JobStatus, Status

\* One event more, or none.
LEMMA EmitSays ==
  ASSUME NEW j \in Jobs, NEW status \in Status, Emit(j, status), stream \subseteq Jobs \X Status,
         status # "active" => job'[j] # "active"
  PROVE  News
  <1> SUFFICES ASSUME NEW e \in stream'
      PROVE  e \in Jobs \X Status /\ (e[2] # "active" => e \in stream \/ job'[e[1]] # "active")
    BY ZenonT(120) DEF News
  <1>1. e \in stream \/ e = <<j, status>>
    BY ZenonT(120) DEF Emit
  <1>2. CASE e \in stream
    BY ZenonT(120), <1>2
  <1>3. CASE e = <<j, status>>
    BY ZenonT(120), <1>3
  <1> QED BY ZenonT(120), <1>1, <1>2, <1>3

\* A Job and its Pod change.
LEMMA ChangeSays ==
  ASSUME ClusterOK, NEW j \in Jobs, NEW status \in Status, status # "active", NEW phase \in {"absent", "up", "ready", "dead"},
         job' = [job EXCEPT ![j] = status], pod' = pod \/ pod' = [pod EXCEPT ![j] = phase],
         UNCHANGED <<system, age>>
  PROVE  ClusterOK' /\ Starts /\ job'[j] # "active"
  <1>1. /\ job \in [Jobs -> JobStatus] /\ pod \in [Jobs -> {"absent", "up", "ready", "dead"}]
        /\ system' \in [Jobs -> Systems] /\ age' \in [Jobs -> 0..2]
    BY ZenonT(120) DEF ClusterOK
  <1>2. status \in JobStatus
    BY ZenonT(120) DEF Status, JobStatus
  <1>3. job' \in [Jobs -> JobStatus] /\ job'[j] = status /\ \A i \in Jobs : i # j => job'[i] = job[i]
    BY ZenonT(120), <1>1, <1>2
  <1>4. pod' \in [Jobs -> {"absent", "up", "ready", "dead"}]
    BY ZenonT(120), <1>1
  <1>5. Starts
    BY ZenonT(120), <1>3 DEF Starts
  <1> QED BY ZenonT(120), <1>1, <1>3, <1>4, <1>5 DEF ClusterOK

\* A deleted Job.
LEMMA GoneSays ==
  ASSUME Types, NEW j \in Jobs, JobGoes(j), UNCHANGED <<system, age>>
  PROVE  ClusterOK' /\ Starts /\ News
  <1>1. ClusterOK /\ stream \subseteq Jobs \X Status /\ "gone" \in Status /\ "gone" # "active"
        /\ "absent" \in {"absent", "up", "ready", "dead"}
    BY ZenonT(120), TypesAre DEF Status
  <1>2. /\ job' = [job EXCEPT ![j] = "gone"] /\ Emit(j, "gone")
        /\ pod' = pod \/ pod' = [pod EXCEPT ![j] = "absent"]
    BY ZenonT(120) DEF JobGoes
  <1>3. ClusterOK' /\ Starts /\ job'[j] # "active"
    BY ZenonT(120), <1>1, <1>2, ChangeSays
  <1>4. News
    BY ZenonT(120), <1>1, <1>2, <1>3, EmitSays
  <1> QED BY ZenonT(120), <1>3, <1>4

\* A created Job.
LEMMA CreatedSays ==
  ASSUME Types, NEW s \in Systems, CreatesJob(s)
  PROVE  ClusterOK' /\ Starts /\ News
  <1>1. ClusterOK /\ stream \subseteq Jobs \X Status /\ "active" \in Status
    BY ZenonT(120), TypesAre DEF Status
  <1>2. CASE UNCHANGED <<cluster, watch>>
    BY ZenonT(120), <1>1, <1>2 DEF ClusterOK, Starts, News, cluster, watch
  <1>3. ASSUME NEW j \in Jobs, Unused(j), job' = [job EXCEPT ![j] = "active"], system' = [system EXCEPT ![j] = s],
               age' = [age EXCEPT ![j] = 0], Emit(j, "active"), UNCHANGED pod
        PROVE  ClusterOK' /\ Starts /\ News
    <2>1. News
      BY ZenonT(120), <1>1, <1>3, EmitSays
    <2>2. j \notin Mentioned
      BY ZenonT(120), <1>3 DEF Unused
    <2>3. job \in [Jobs -> JobStatus] /\ "active" \in JobStatus
      BY ZenonT(120), <1>1 DEF ClusterOK, JobStatus
    <2>4. job' \in [Jobs -> JobStatus] /\ \A i \in Jobs : i # j => job'[i] = job[i]
      BY ZenonT(120), <1>3, <2>3
    <2>5. system' \in [Jobs -> Systems]
      BY ZenonT(120), <1>1, <1>3 DEF ClusterOK
    <2>6. age' \in [Jobs -> 0..2]
      BY SMTT(120), <1>1, <1>3 DEF ClusterOK
    <2>7. pod' \in [Jobs -> {"absent", "up", "ready", "dead"}]
      BY ZenonT(120), <1>1, <1>3 DEF ClusterOK
    <2>8. Starts
      BY ZenonT(120), <2>2, <2>4 DEF Starts
    <2> QED BY ZenonT(120), <2>1, <2>4, <2>5, <2>6, <2>7, <2>8 DEF ClusterOK
  <1> QED BY ZenonT(120), <1>2, <1>3 DEF CreatesJob

\* Every step keeps the cluster's types, starts only Jobs that nothing mentions and lets
\* the watch report only ends that are true.
LEMMA ClusterStep ==
  ASSUME Types, BuildersNext
  PROVE  ClusterOK' /\ Starts /\ News
  <1>0. ClusterOK /\ stream \subseteq Jobs \X Status
    BY ZenonT(120), TypesAre
  <1>1. ASSUME UNCHANGED cluster, stream' \subseteq stream
        PROVE  ClusterOK' /\ Starts /\ News
    BY ZenonT(120), <1>0, <1>1 DEF ClusterOK, Starts, News, cluster
  <1>2. CASE Tick \/ WatchResyncs \/ Drops \/ Forgets \/ Reconciles \/ Registers \/ Unregisters
    BY ZenonT(120), <1>1, <1>2 DEF Tick, WatchResyncs, Drops, Forgets, Reconciles, Registers, Unregisters, watch
  <1>3. CASE Ensures \/ Recycles \/ Retires \/ WatchBreaks \/ Restarts
    BY ZenonT(120), <1>1, <1>3 DEF Ensures, Recycles, Retires, WatchBreaks, Restarts, watch
  <1>4. ASSUME NEW s \in Systems, BackoffEnds(s) PROVE ClusterOK' /\ Starts /\ News
    BY ZenonT(120), <1>1, <1>4 DEF BackoffEnds, watch
  <1>5. ASSUME NEW j \in Jobs, WatchHandles(j) \/ BuildStarts(j) \/ BuildEnds(j)
        PROVE  ClusterOK' /\ Starts /\ News
    BY ZenonT(120), <1>1, <1>5 DEF WatchHandles, BuildStarts, BuildEnds, watch
  <1>6. ASSUME NEW j \in Jobs, JobCollected(j) PROVE ClusterOK' /\ Starts /\ News
    BY ZenonT(120), <1>6, GoneSays DEF JobCollected
  <1>7. ASSUME NEW j \in Jobs, NEW status \in {"failed", "succeeded"}, JobEnds(j, status)
        PROVE  ClusterOK' /\ Starts /\ News
    <2>1. status \in Status /\ status # "active" /\ "dead" \in {"absent", "up", "ready", "dead"}
      BY ZenonT(120) DEF Status
    <2>2. /\ job' = [job EXCEPT ![j] = status] /\ pod' = [pod EXCEPT ![j] = "dead"] /\ Emit(j, status)
          /\ UNCHANGED <<system, age>>
      BY ZenonT(120), <1>7 DEF JobEnds
    <2>3. ClusterOK' /\ Starts /\ job'[j] # "active"
      BY ZenonT(120), <1>0, <2>1, <2>2, ChangeSays
    <2> QED BY ZenonT(120), <1>0, <2>1, <2>2, <2>3, EmitSays
  <1>8. CASE Deletes
    <2>1. Head(agenda).jobs \in SUBSET Jobs /\ UNCHANGED <<system, age>>
      BY ZenonT(120), <1>8, HeadIs DEF Deletes
    <2>2. PICK j \in Head(agenda).jobs : DeletesJob(j)
      BY ZenonT(120), <1>8 DEF Deletes
    <2>3. CASE JobGoes(j)
      BY ZenonT(120), <2>1, <2>3, GoneSays
    <2>4. CASE UNCHANGED <<job, pod, watch>>
      BY ZenonT(120), <1>0, <2>1, <2>4 DEF ClusterOK, Starts, News, watch
    <2> QED BY ZenonT(120), <2>2, <2>3, <2>4 DEF DeletesJob
  <1>9. CASE Fills
    <2> DEFINE s == Min(Head(agenda).of)
    <2>1. Head(agenda) \in AnEntry /\ Head(agenda).op = "fill"
      BY ZenonT(120), <1>9, HeadIs DEF Fills
    <2>2. Head(agenda).of \in (SUBSET Systems) \ {{}}
      BY ZenonT(120), <2>1, EntriesAre
    <2>3. Head(agenda).of \in SUBSET Nat /\ Head(agenda).of # {} /\ Head(agenda).of \subseteq Systems
      BY ZenonT(120), <2>2, BuildersAssumption
    <2>4. s \in Systems
      BY ZenonT(120), <2>3, MinIs
    <2>5. UNCHANGED <<cluster, watch>> \/ CreatesJob(s)
      BY ZenonT(120), <1>9 DEF Fills
    <2>6. CASE UNCHANGED <<cluster, watch>>
      BY ZenonT(120), <1>1, <2>6 DEF watch
    <2> HIDE DEF s
    <2> QED BY ZenonT(120), <2>4, <2>5, <2>6, CreatedSays
  <1>10. CASE WatchConnects
    <2>1. UNCHANGED cluster /\ stream' = {<<j, job[j]>> : j \in {i \in Jobs : Exists(i)}}
      BY ZenonT(120), <1>10 DEF WatchConnects
    <2>2. ClusterOK' /\ Starts /\ job' = job
      BY ZenonT(120), <1>0, <2>1 DEF ClusterOK, Starts, cluster
    <2>3. ASSUME NEW e \in stream'
          PROVE  e \in Jobs \X Status /\ (e[2] # "active" => e \in stream \/ job'[e[1]] # "active")
      <3>1. PICK j \in Jobs : Exists(j) /\ e = <<j, job[j]>>
        BY ZenonT(120), <2>1, <2>3
      <3>2. job[j] \in Status
        BY ZenonT(120), <3>1 DEF Exists, Status
      <3> QED BY ZenonT(120), <2>2, <3>1, <3>2
    <2> QED BY ZenonT(120), <2>2, <2>3 DEF News
  <1>11. ASSUME NEW j \in Jobs, PodMoves(j) \/ PodUnready(j) \/ PodEnds(j) \/ JobAges(j)
         PROVE  ClusterOK' /\ Starts /\ News
    <2>1. job' = job /\ system' = system /\ (UNCHANGED watch \/ Emit(j, "active"))
      BY ZenonT(120), <1>11 DEF PodMoves, PodUnready, PodEnds, JobAges
    <2>2. "active" \in Status /\ ("active" # "active" => job'[j] # "active")
      BY ZenonT(120) DEF Status
    <2>3. News
      <3>1. CASE UNCHANGED watch
        BY ZenonT(120), <1>0, <3>1 DEF News, watch
      <3> QED BY ZenonT(120), <1>0, <2>1, <2>2, <3>1, EmitSays
    <2>4. pod' = pod \/ (\E p \in {"absent", "up", "ready", "dead"} : pod' = [pod EXCEPT ![j] = p])
      BY ZenonT(120), <1>11 DEF PodMoves, PodUnready, PodEnds, JobAges
    <2>5. pod' \in [Jobs -> {"absent", "up", "ready", "dead"}]
      BY ZenonT(120), <1>0, <2>4 DEF ClusterOK
    <2>6. age' = age \/ (\E n \in 0..2 : age' = [age EXCEPT ![j] = n])
      BY SMTT(120), <1>11 DEF PodMoves, PodUnready, PodEnds, JobAges
    <2>7. age' \in [Jobs -> 0..2]
      BY ZenonT(120), <1>0, <2>6 DEF ClusterOK
    <2>8. Starts
      BY ZenonT(120), <2>1 DEF Starts
    <2> QED BY ZenonT(120), <1>0, <2>1, <2>3, <2>5, <2>7, <2>8 DEF ClusterOK
  <1>12. CASE TemplateChanges
    BY ZenonT(120), <1>0, <1>12 DEF TemplateChanges, ClusterOK, Starts, News, watch
  <1> QED BY ZenonT(120), <1>2, <1>3, <1>4, <1>5, <1>6, <1>7, <1>8, <1>9, <1>10, <1>11, <1>12 DEF BuildersNext, LockedStep

-----------------------------------------------------------------------------
(* The server's stores.                                                     *)

StoresOK ==
    /\ served \subseteq registered /\ registered \subseteq Jobs
    /\ draining \subseteq served /\ busy \subseteq served

\* Every step keeps the stores in the manager's index, and what drains or works served.
LEMMA StoresStep ==
  ASSUME Types, BuildersNext
  PROVE  StoresOK'
  <1>0. StoresOK
    BY ZenonT(120) DEF Types, BuildersTypeOK, StoresOK
  <1>1. ASSUME UNCHANGED <<registered, server>> PROVE StoresOK'
    BY ZenonT(120), <1>0, <1>1 DEF StoresOK, server
  <1>2. CASE Tick \/ WatchResyncs \/ WatchConnects \/ Drops \/ Forgets \/ Deletes \/ Ensures \/ Fills \/ Retires
    BY ZenonT(120), <1>1, <1>2 DEF Tick, WatchResyncs, WatchConnects, Drops, Forgets, ForgetJobs, Deletes, Ensures,
       Fills, Retires, memory
  <1>3. CASE Reconciles
    BY ZenonT(120), <1>1, <1>3 DEF Reconciles, ReconcileOutdated, ReconcileFinished, ReconcileActive, memory
  <1>4. CASE TemplateChanges \/ WatchBreaks
    BY ZenonT(120), <1>1, <1>4 DEF TemplateChanges, WatchBreaks, memory
  <1>5. ASSUME NEW s \in Systems, BackoffEnds(s) PROVE StoresOK'
    BY ZenonT(120), <1>1, <1>5 DEF BackoffEnds
  <1>6. ASSUME NEW j \in Jobs, WatchHandles(j) \/ PodMoves(j) \/ PodUnready(j) \/ PodEnds(j) \/ JobCollected(j)
                                \/ JobAges(j) \/ \E status \in {"failed", "succeeded"} : JobEnds(j, status)
        PROVE  StoresOK'
    BY ZenonT(120), <1>1, <1>6 DEF WatchHandles, PodMoves, PodUnready, PodEnds, JobCollected, JobAges, JobEnds, memory
  <1>7. ASSUME NEW j \in Jobs, BuildStarts(j) \/ BuildEnds(j) PROVE StoresOK'
    BY ZenonT(120), <1>0, <1>7 DEF BuildStarts, BuildEnds, StoresOK, memory
  <1>8. CASE Restarts
    BY ZenonT(120), <1>8 DEF Restarts, StoresOK
  <1>9. CASE Recycles
    BY ZenonT(120), <1>0, <1>9 DEF Recycles, ToDrain, Seen, StoresOK, memory
  <1>10. CASE Registers
    <2>1. Head(agenda).jobs \in SUBSET Jobs
      BY ZenonT(120), <1>10, HeadIs DEF Registers
    <2> QED BY ZenonT(120), <1>0, <1>10, <2>1 DEF Registers, StoresOK
  <1>11. CASE Unregisters
    BY ZenonT(120), <1>0, <1>11 DEF Unregisters, StoresOK
  <1> QED BY ZenonT(120), <1>2, <1>3, <1>4, <1>5, <1>6, <1>7, <1>8, <1>9, <1>10, <1>11 DEF BuildersNext, LockedStep

-----------------------------------------------------------------------------
(* The inductive invariant.                                                 *)

\* What the agenda's entries are about is mentioned.
LEMMA AgendaIsMentioned ==
  \A i \in DOMAIN agenda : agenda[i].jobs \subseteq Mentioned
  BY ZenonT(120) DEF Mentioned

\* What remains of the entries stays true.
LEMMA EachStaysOld ==
  ASSUME Types, EachIsOld(agenda, job), Starts, NEW steps, Replaces(steps)
  PROVE  EachIsOld(agenda', job') /\ agenda' \in Seq(AnEntry)
  <1> DEFINE b == agenda'
  <1>1. /\ agenda # <<>> /\ agenda \in Seq(AnEntry) /\ steps \in Seq(AnEntry) /\ EachFrom(steps)
        /\ b = steps \o Tail(agenda)
    BY ZenonT(120) DEF Types, Replaces
  <1> HIDE DEF b
  <1>2. /\ b \in Seq(AnEntry)
        /\ \A i \in 1..Len(steps) : b[i] = steps[i]
        /\ \A i \in 1..Len(b) : i > Len(steps) => b[i] = agenda[i - Len(steps) + 1] /\ i - Len(steps) + 1 \in 2..Len(agenda)
    BY SMTT(120), <1>1, Takes
  <1>3. Len(agenda) \in Nat \ {0} /\ Len(steps) \in Nat /\ Head(agenda) = agenda[1] /\ DOMAIN agenda = 1..Len(agenda)
    BY SMTT(120), <1>1
  <1>4. ASSUME NEW i \in 1..Len(b), b[i].op = "each"
        PROVE  \E k \in 1..Len(agenda) : /\ agenda[k].op = "each" /\ b[i].of = agenda[k].of
                                         /\ b[i].jobs \subseteq agenda[k].jobs
    <2>1. CASE i <= Len(steps)
      <3>1. i \in 1..Len(steps) /\ 1 \in 1..Len(agenda)
        BY SMTT(120), <1>3, <2>1
      <3> QED BY ZenonT(120), <1>1, <1>2, <1>3, <1>4, <3>1 DEF EachFrom
    <2>2. CASE i > Len(steps)
      <3>1. i - Len(steps) + 1 \in 1..Len(agenda)
        BY SMTT(120), <1>2, <1>3, <2>2
      <3> QED BY ZenonT(120), <1>2, <1>4, <2>2, <3>1
    <2> QED BY SMTT(120), <1>3, <2>1, <2>2
  <1>5. ASSUME NEW i \in 1..Len(b), b[i].op = "each" PROVE Old(b[i].of, b[i].jobs, job')
    <2>1. PICK k \in 1..Len(agenda) : /\ agenda[k].op = "each" /\ b[i].of = agenda[k].of
                                      /\ b[i].jobs \subseteq agenda[k].jobs
      BY ZenonT(120), <1>4, <1>5
    <2>2. Old(agenda[k].of, agenda[k].jobs, job) /\ agenda[k].jobs \subseteq Mentioned /\ agenda[k].jobs \subseteq Jobs
      <3>1. agenda[k] \in AnEntry
        BY SMTT(120), <1>1
      <3>2. agenda[k].jobs \in SUBSET Jobs
        BY ZenonT(120), <3>1, EntriesAre
      <3> QED BY ZenonT(120), <1>3, <2>1, <3>2, AgendaIsMentioned DEF EachIsOld
    <2> QED BY ZenonT(120), <2>1, <2>2 DEF Old, Starts
  <1>6. EachIsOld(b, job')
    BY ZenonT(120), <1>5 DEF EachIsOld
  <1> QED BY ZenonT(120), <1>2, <1>6 DEF b

\* The agenda's part of the invariant.
AgendaInv == agenda \in Seq(AnEntry) /\ Orderly(agenda, served, draining \ busy) /\ EachIsOld(agenda, job)

\* A store that starts to drain or ends its work disturbs nothing.
LEMMA AgendaStays ==
  ASSUME BuildersInv, Starts, agenda' = agenda, served' = served, draining \ busy \subseteq draining' \ busy'
  PROVE  AgendaInv'
  <1>1. agenda \in Seq(AnEntry) /\ Orderly(agenda, served, draining \ busy) /\ EachIsOld(agenda, job)
    BY ZenonT(120) DEF BuildersInv, Types
  <1>2. Orderly(agenda, served, draining' \ busy')
    BY ZenonT(120), <1>1 DEF Orderly, DeleteOK, RetireOK
  <1>3. ASSUME NEW i \in 1..Len(agenda), agenda[i].op = "each" PROVE Old(agenda[i].of, agenda[i].jobs, job')
    <2>1. i \in DOMAIN agenda /\ agenda[i] \in AnEntry
      BY SMTT(120), <1>1
    <2>2. agenda[i].jobs \in SUBSET Jobs /\ agenda[i].jobs \subseteq Mentioned
      BY ZenonT(120), <2>1, EntriesAre, AgendaIsMentioned
    <2>3. Old(agenda[i].of, agenda[i].jobs, job)
      BY ZenonT(120), <1>1, <1>3 DEF EachIsOld
    <2> QED BY ZenonT(120), <2>2, <2>3 DEF Old, Starts
  <1>4. EachIsOld(agenda, job')
    BY ZenonT(120), <1>3 DEF EachIsOld
  <1> QED BY ZenonT(120), <1>1, <1>2, <1>4 DEF AgendaInv

\* A pass begins with nothing to delete or to retire.
PlainStart(steps) ==
    /\ steps \in Seq(AnEntry)
    /\ \A i \in 1..Len(steps) : /\ steps[i].op \notin {"delete", "retire"}
                                /\ steps[i].op = "each" => Old(steps[i].of, steps[i].jobs, job)

LEMMA StartsInOrder ==
  ASSUME NEW steps, PlainStart(steps), agenda' = steps, job' = job
  PROVE  AgendaInv'
  BY ZenonT(120) DEF PlainStart, AgendaInv, Orderly, DeleteOK, RetireOK, EachIsOld

\* One entry more.
LEMMA JoinsOne ==
  ASSUME NEW S, NEW s \in Seq(S), NEW x \in S, NEW T, \A i \in 1..Len(s) : s[i] \in T
  PROVE  s \o <<x>> \in Seq(S) /\ \A i \in 1..Len(s \o <<x>>) : (s \o <<x>>)[i] \in T \cup {x}
  BY SMTT(120)

\* A resync is about the Jobs there are, and knows their status.
LEMMA ResyncIs ==
  ASSUME Types, NEW op \in {"recycle", "connect"}
  PROVE  PlainStart(Resync \o <<Todo(op, {})>>)
  <1> DEFINE seen == {j \in Jobs : Exists(j)}
             says == {<<j, job[j]>> : j \in seen}
             t == TodoOf("each", seen, says)
             d == Todo("drop", seen)
             x == Todo(op, {})
             b == (IfAny(t) \o <<d>>) \o <<x>>
  <1>1. says \in SUBSET (Jobs \X Status) /\ seen \in SUBSET Jobs
    <2>1. \A j \in seen : j \in Jobs /\ job[j] \in Status
      BY ZenonT(120) DEF Exists, Status
    <2> HIDE DEF seen
    <2> QED BY SMTT(120), <2>1 DEF seen
  <1>2. Old(says, seen, job)
    <2> SUFFICES ASSUME NEW p \in says, p[2] # "active" PROVE job[p[1]] # "active"
      BY ZenonT(120) DEF Old
    <2>1. PICK j \in seen : p = <<j, job[j]>>
      BY ZenonT(120)
    <2> QED BY ZenonT(120), <2>1
  <1> HIDE DEF seen, says
  <1>3. /\ t \in AnEntry /\ t.op = "each" /\ t.of = says /\ t.jobs = seen
        /\ d \in AnEntry /\ d.op = "drop" /\ x \in AnEntry /\ x.op = op
    BY SMTT(120), <1>1, EntriesAre DEF JobOps
  <1>4. IfAny(t) = <<>> \/ IfAny(t) = <<t>>
    BY ZenonT(120) DEF IfAny
  <1>5. Resync \o <<Todo(op, {})>> = b
    BY ZenonT(120) DEF Resync, seen, says
  <1> DEFINE f == IfAny(t)
  <1> HIDE DEF t, d, x, f
  <1>6. b \in Seq(AnEntry) /\ \A i \in 1..Len(b) : b[i] \in {t, d, x}
    <2>1. f \in Seq(AnEntry) /\ \A i \in 1..Len(f) : f[i] \in {t}
      <3>1. CASE f = <<>>
        BY SMTT(120), <3>1
      <3>2. CASE f = <<t>>
        BY SMTT(120), <1>3, <3>2
      <3> QED BY ZenonT(120), <1>4, <3>1, <3>2 DEF f
    <2> DEFINE g == f \o <<d>>
    <2>2. g \in Seq(AnEntry) /\ \A i \in 1..Len(g) : g[i] \in {t} \cup {d}
      BY ZenonT(120), <1>3, <2>1, JoinsOne
    <2> HIDE DEF g
    <2>3. g \o <<x>> \in Seq(AnEntry) /\ \A i \in 1..Len(g \o <<x>>) : (g \o <<x>>)[i] \in ({t} \cup {d}) \cup {x}
      BY ZenonT(120), <1>3, <2>2, JoinsOne
    <2> QED BY ZenonT(120), <2>3 DEF f, g
  <1> HIDE DEF b
  <1>7. ASSUME NEW i \in 1..Len(b)
        PROVE  b[i].op \notin {"delete", "retire"} /\ (b[i].op = "each" => Old(b[i].of, b[i].jobs, job))
    <2>1. CASE b[i] = t
      BY ZenonT(120), <1>2, <1>3, <2>1
    <2>2. CASE b[i] = d \/ b[i] = x
      BY ZenonT(120), <1>3, <2>2
    <2> QED BY ZenonT(120), <1>6, <1>7, <2>1, <2>2
  <1>8. PlainStart(b)
    BY ZenonT(120), <1>6, <1>7 DEF PlainStart
  <1> QED BY ZenonT(120), <1>5, <1>8

\* An event of the watch is handled.
LEMMA HandlesIs ==
  ASSUME BuildersInv, NEW j \in Jobs, NEW e \in stream, e[1] = j
  PROVE  PlainStart(Handles(j, e[2]))
  <1>1. e \in Jobs \X Status /\ Old(stream, Jobs, job)
    BY ZenonT(120), TypesAre DEF BuildersInv
  <1> DEFINE status == e[2]
             t == TodoOf("each", {j}, {<<j, status>>})
             x == Todo("ensure", {})
             g == Todo("forget", {j})
  <1>2. status \in Status /\ (status # "active" => job[j] # "active")
    BY ZenonT(120), <1>1 DEF Old
  <1> SUFFICES PlainStart(Handles(j, status))
    BY ZenonT(120)
  <1> HIDE DEF status
  <1>3. {<<j, status>>} \in SUBSET (Jobs \X Status) /\ Old({<<j, status>>}, {j}, job)
    BY SMTT(120), <1>2 DEF Old
  <1>4. /\ t \in AnEntry /\ t.op = "each" /\ t.of = {<<j, status>>} /\ t.jobs = {j}
        /\ x \in AnEntry /\ x.op = "ensure" /\ g \in AnEntry /\ g.op = "forget"
    BY SMTT(120), <1>3, EntriesAre DEF JobOps
  <1>5. Handles(j, status) = <<g>> \/ Handles(j, status) = <<t, x>>
    BY ZenonT(120) DEF Handles
  <1> HIDE DEF t, x, g
  <1>6. CASE Handles(j, status) = <<g>>
    <2>1. <<g>> \in Seq(AnEntry) /\ \A i \in 1..Len(<<g>>) : <<g>>[i] = g
      BY SMTT(120), <1>4
    <2>2. g.op \notin {"delete", "retire"} /\ g.op # "each"
      BY ZenonT(120), <1>4
    <2> QED BY ZenonT(120), <1>6, <2>1, <2>2 DEF PlainStart
  <1>7. CASE Handles(j, status) = <<t, x>>
    <2>1. <<t, x>> \in Seq(AnEntry) /\ \A i \in 1..Len(<<t, x>>) : <<t, x>>[i] \in {t, x}
      BY SMTT(120), <1>4
    <2>2. \A r \in {t, x} : r.op \notin {"delete", "retire"} /\ (r.op = "each" => Old(r.of, r.jobs, job))
      <3>1. t.op \notin {"delete", "retire"} /\ x.op \notin {"delete", "retire"} /\ x.op # "each" /\ Old(t.of, t.jobs, job)
        BY ZenonT(120), <1>3, <1>4
      <3> QED BY ZenonT(120), <3>1
    <2>3. PlainStart(<<t, x>>)
      BY ZenonT(120), <2>1, <2>2 DEF PlainStart
    <2> QED BY ZenonT(120), <1>7, <2>3
  <1> QED BY ZenonT(120), <1>5, <1>6, <1>7

\* Every step keeps the agenda in order.
LEMMA AgendaStep ==
  ASSUME BuildersInv, BuildersNext
  PROVE  AgendaInv'
  <1>0. /\ Types /\ Orderly(agenda, served, draining \ busy) /\ EachIsOld(agenda, job)
        /\ agenda \in Seq(AnEntry) /\ Starts /\ StoresOK'
    BY ZenonT(120), ClusterStep, StoresStep DEF BuildersInv, Types
  <1>1. ASSUME NEW st, Goes(st) PROVE AgendaInv'
    <2>1. /\ Replaces(st) /\ Head(agenda).op \notin {"delete", "unregister"}
          /\ Orderly(st, served', draining' \ busy')
      BY ZenonT(120), <1>1 DEF Goes
    <2>2. agenda # <<>> /\ st \in Seq(AnEntry) /\ agenda' = st \o Tail(agenda)
      BY ZenonT(120), <2>1 DEF Replaces
    <2>3. Head(agenda) = agenda[1]
      BY SMTT(120), <1>0, <2>2
    <2>4. Orderly(agenda', served', draining' \ busy')
      BY ZenonT(120), <1>0, <2>1, <2>2, <2>3, OrderAfter
    <2> QED BY ZenonT(120), <1>0, <2>1, <2>4, EachStaysOld DEF AgendaInv
  <1>2. CASE WatchConnects \/ Drops \/ Forgets \/ Registers \/ Ensures \/ Fills \/ Recycles \/ Reconciles \/ Retires
    BY ZenonT(120), <1>0, <1>1, <1>2, OthersGo, ReconcilesGo, RetiresGo
  <1>3. CASE Deletes
    <2>1. /\ agenda # <<>> /\ agenda[1].op = "delete" /\ agenda' = <<>> \o Tail(agenda)
          /\ UNCHANGED <<served, draining, busy>>
      BY ZenonT(120), <1>0, <1>3, HeadIs DEF Deletes, Then, server
    <2>2. Orderly(agenda', served, draining \ busy)
      BY ZenonT(120), <1>0, <2>1, OrderAfterDelete
    <2>3. Replaces(<<>>)
      BY SMTT(120), <2>1 DEF Replaces, EachFrom
    <2> QED BY ZenonT(120), <1>0, <2>1, <2>2, <2>3, EachStaysOld DEF AgendaInv
  <1>4. CASE Unregisters
    <2>1. Doing("unregister")
      BY ZenonT(120), <1>4 DEF Unregisters
    <2>2. agenda # <<>> /\ Head(agenda) = agenda[1] /\ agenda[1].op = "unregister"
      BY ZenonT(120), <1>0, <2>1, HeadIs
    <2>3. PICK j \in agenda[1].jobs : /\ agenda' = Without(j) \o Tail(agenda) /\ served' = served \ {j}
                                      /\ draining' = draining \ {j} /\ busy' = busy \ {j}
      BY ZenonT(120), <1>4, <2>2 DEF Unregisters, Then
    <2> DEFINE w == Without(j)
    <2>4. /\ w \in Seq(AnEntry) /\ Len(w) \in {0, 1} /\ (Len(w) = 0 <=> agenda[1].jobs \subseteq {j})
          /\ Len(w) = 1 => w[1].op = "unregister" /\ w[1].jobs = agenda[1].jobs \ {j}
      BY ZenonT(120), <1>0, <2>1, <2>2, WithoutIs
    <2>5. agenda' = w \o Tail(agenda)
      BY ZenonT(120), <2>3
    <2> HIDE DEF w
    <2>6. (draining \ busy) \ {j} \subseteq draining' \ busy'
      BY ZenonT(120), <2>3
    <2>7. Orderly(agenda', served \ {j}, draining' \ busy')
      BY ZenonT(120), <1>0, <2>2, <2>4, <2>5, <2>6, OrderAfterUnregister
    <2>8. EachFrom(w)
      BY SMTT(120), <2>4 DEF EachFrom
    <2>9. Replaces(w)
      BY ZenonT(120), <2>2, <2>4, <2>5, <2>8 DEF Replaces
    <2> QED BY ZenonT(120), <1>0, <2>3, <2>7, <2>9, EachStaysOld DEF AgendaInv
  <1>5. CASE Tick \/ WatchResyncs
    <2>1. job' = job /\ \E op \in {"recycle", "connect"} : agenda' = Resync \o <<Todo(op, {})>>
      BY ZenonT(120), <1>5 DEF Tick, WatchResyncs, cluster
    <2> QED BY ZenonT(120), <1>0, <2>1, ResyncIs, StartsInOrder
  <1>6. ASSUME NEW j \in Jobs, WatchHandles(j) PROVE AgendaInv'
    <2>1. job' = job /\ \E e \in stream : e[1] = j /\ agenda' = Handles(j, e[2])
      BY ZenonT(120), <1>6 DEF WatchHandles, cluster
    <2> QED BY ZenonT(120), <2>1, HandlesIs, StartsInOrder
  <1>7. CASE Restarts
    <2>1. agenda' = <<>> /\ job' = job
      BY ZenonT(120), <1>7 DEF Restarts, cluster
    <2>2. PlainStart(<<>>)
      BY SMTT(120) DEF PlainStart
    <2> QED BY ZenonT(120), <2>1, <2>2, StartsInOrder
  <1>8. CASE TemplateChanges \/ WatchBreaks
    <2>1. agenda' = agenda /\ served' = served /\ draining \ busy \subseteq draining' \ busy'
      BY ZenonT(120), <1>8 DEF TemplateChanges, WatchBreaks, server
    <2> QED BY ZenonT(120), <1>0, <2>1, AgendaStays
  <1>9. ASSUME NEW s \in Systems, BackoffEnds(s) PROVE AgendaInv'
    <2>1. agenda' = agenda /\ served' = served /\ draining \ busy \subseteq draining' \ busy'
      BY ZenonT(120), <1>9 DEF BackoffEnds, server
    <2> QED BY ZenonT(120), <1>0, <2>1, AgendaStays
  <1>10. ASSUME NEW j \in Jobs, PodMoves(j) \/ PodUnready(j) \/ PodEnds(j) \/ JobCollected(j) \/ JobAges(j)
                                \/ BuildStarts(j) \/ BuildEnds(j)
                                \/ \E status \in {"failed", "succeeded"} : JobEnds(j, status)
         PROVE  AgendaInv'
    <2>1. agenda' = agenda /\ served' = served /\ draining \ busy \subseteq draining' \ busy'
      BY ZenonT(120), <1>10 DEF PodMoves, PodUnready, PodEnds, JobCollected, JobAges, BuildStarts, BuildEnds, JobEnds, server
    <2> QED BY ZenonT(120), <1>0, <2>1, AgendaStays
  <1> QED BY ZenonT(120), <1>2, <1>3, <1>4, <1>5, <1>6, <1>7, <1>8, <1>9, <1>10 DEF BuildersNext, LockedStep

\* The invariant is one.
LEMMA InvInit ==
  ASSUME BuildersInit
  PROVE  BuildersInv
  <1>1. /\ job = [j \in Jobs |-> "none"] /\ system = [j \in Jobs |-> Min(Systems)]
        /\ pod = [j \in Jobs |-> "absent"] /\ age = [j \in Jobs |-> 0]
    BY ZenonT(120) DEF BuildersInit
  <1>2. stream = {} /\ registered = {} /\ agenda = <<>> /\ served = {} /\ draining = {} /\ busy = {}
    BY ZenonT(120) DEF BuildersInit
  <1>3. Min(Systems) \in Systems
    BY ZenonT(120), BuildersAssumption, MinIs
  <1>4. ClusterOK
    BY SMTT(120), <1>1, <1>3 DEF ClusterOK, JobStatus
  <1>5. BuildersTypeOK /\ served \subseteq registered
    BY ZenonT(120), <1>2, <1>4 DEF ClusterOK, JobStatus, BuildersTypeOK
  <1>6. agenda \in Seq(AnEntry) /\ Orderly(agenda, served, draining \ busy) /\ EachIsOld(agenda, job)
    BY SMTT(120), <1>2 DEF Orderly, EachIsOld
  <1>7. Old(stream, Jobs, job)
    BY ZenonT(120), <1>2 DEF Old
  <1> QED BY ZenonT(120), <1>5, <1>6, <1>7 DEF BuildersInv, Types

LEMMA InvStep ==
  ASSUME BuildersInv, BuildersNext
  PROVE  BuildersInv'
  <1>1. Types /\ Old(stream, Jobs, job)
    BY ZenonT(120) DEF BuildersInv
  <1>2. ClusterOK' /\ Starts /\ News /\ StoresOK' /\ AgendaInv'
    BY ZenonT(120), <1>1, ClusterStep, StoresStep, AgendaStep
  <1>3. \A e \in stream' : e \in Jobs \X Status
    BY ZenonT(120), <1>2 DEF News
  <1>4. BuildersTypeOK' /\ served' \subseteq registered'
    BY ZenonT(120), <1>2, <1>3 DEF ClusterOK, JobStatus, StoresOK, BuildersTypeOK, Status
  <1>5. Old(stream', Jobs, job')
    <2> SUFFICES ASSUME NEW e \in stream', e[1] \in Jobs, e[2] # "active", job'[e[1]] = "active" PROVE FALSE
      BY ZenonT(120) DEF Old
    <2>1. e \in stream
      BY ZenonT(120), <1>2 DEF News
    <2>2. e[1] \in Mentioned
      BY ZenonT(120), <2>1 DEF Mentioned
    <2>3. job[e[1]] = "active"
      BY ZenonT(120), <1>2, <2>2 DEF Starts
    <2> QED BY ZenonT(120), <1>1, <2>1, <2>3 DEF Old
  <1> QED BY ZenonT(120), <1>2, <1>4, <1>5 DEF BuildersInv, Types, AgendaInv

LEMMA InvStutters ==
  ASSUME BuildersInv, UNCHANGED builderVars
  PROVE  BuildersInv'
  <1>1. UNCHANGED <<job, system, pod, age, stream, registered, agenda, served, draining, busy>>
    BY ZenonT(120) DEF builderVars, cluster, watch, memory, server
  <1> QED BY ZenonT(120), <1>1 DEF BuildersInv, Types, BuildersTypeOK

-----------------------------------------------------------------------------
(* What the builder manager establishes.                                    *)

\* In every state of the manager its indexes hold Jobs, a store drains or works only while
\* it is served, and one that is served is registered (builder_manager.py, _register and
\* _unregister, with the server's add_store and remove_store).
THEOREM BuildersTypes ==
  BuildersSpec => []BuildersTypeOK
  <1>1. BuildersInv => BuildersTypeOK
    BY ZenonT(120) DEF BuildersInv, Types
  <1>2. BuildersInv /\ [BuildersNext]_builderVars => BuildersInv'
    BY ZenonT(120), InvStep, InvStutters
  <1> QED BY <1>1, <1>2, InvInit, PTL DEF BuildersSpec

\* Once it has seen a builder Ready, the manager counts it as failed only after its Job has
\* ended: an event that says so is never about a Job that is active again.
THEOREM SeenReadyAreSpared ==
  BuildersSpec => SeenReadyIsSpared
  <1> DEFINE Spares == \A j \in counted' \ counted : j \in everReady => job[j] # "active"
  <1>1. ASSUME BuildersInv, BuildersNext PROVE Spares
    <2>1. ASSUME counted' \subseteq counted PROVE Spares
      BY ZenonT(120), <2>1
    <2>2. CASE Reconciles
      <3> SUFFICES ASSUME NEW j \in counted' \ counted, j \in everReady PROVE job[j] # "active"
        BY ZenonT(120)
      <3>1. PICK i \in Head(agenda).jobs, status \in {"active", "failed", "succeeded"} :
              /\ <<i, status>> \in Head(agenda).of
              /\ \/ ReconcileOutdated(i)
                 \/ ReconcileFinished(i, status)
                 \/ \E p \in PodReads(i) : ReconcileActive(i, p)
        BY ZenonT(120), <2>2 DEF Reconciles
      <3>2. i = j /\ status = "failed"
        BY ZenonT(120), <3>1 DEF ReconcileOutdated, ReconcileFinished, ReconcileActive, RecordsFailure, StartupExpired, memory
      <3>3. /\ Len(agenda) \in Nat \ {0} /\ Head(agenda) = agenda[1] /\ Head(agenda).op = "each"
            /\ EachIsOld(agenda, job)
        BY ZenonT(120), <1>1, <2>2, HeadIs DEF Reconciles, BuildersInv
      <3>4. 1 \in 1..Len(agenda)
        BY SMTT(120), <3>3
      <3>5. Old(Head(agenda).of, Head(agenda).jobs, job)
        BY ZenonT(120), <3>3, <3>4 DEF EachIsOld
      <3>6. <<j, "failed">> \in Head(agenda).of /\ j \in Head(agenda).jobs
        BY ZenonT(120), <3>1, <3>2
      <3> QED BY ZenonT(120), <3>5, <3>6 DEF Old
    <2>3. CASE Tick \/ WatchResyncs \/ WatchConnects \/ Drops \/ Forgets \/ Deletes \/ Ensures \/ Fills \/ Retires
      BY ZenonT(120), <2>1, <2>3 DEF Tick, WatchResyncs, WatchConnects, Drops, Forgets, ForgetJobs, Deletes, Ensures,
         Fills, Retires, memory
    <2>4. CASE Registers \/ Unregisters \/ Recycles \/ TemplateChanges \/ WatchBreaks \/ Restarts
      BY ZenonT(120), <2>1, <2>4 DEF Registers, Unregisters, Recycles, TemplateChanges, WatchBreaks, Restarts, memory
    <2>5. ASSUME NEW s \in Systems, BackoffEnds(s) PROVE Spares
      BY ZenonT(120), <2>1, <2>5 DEF BackoffEnds
    <2>6. ASSUME NEW j \in Jobs, WatchHandles(j) \/ PodMoves(j) \/ PodUnready(j) \/ PodEnds(j) \/ JobCollected(j)
                                  \/ JobAges(j) \/ BuildStarts(j) \/ BuildEnds(j)
                                  \/ \E status \in {"failed", "succeeded"} : JobEnds(j, status)
          PROVE  Spares
      BY ZenonT(120), <2>1, <2>6 DEF WatchHandles, PodMoves, PodUnready, PodEnds, JobCollected, JobAges, BuildStarts,
         BuildEnds, JobEnds, memory
    <2> HIDE DEF Spares
    <2> QED BY ZenonT(120), <1>1, <2>2, <2>3, <2>4, <2>5, <2>6 DEF BuildersNext, LockedStep
  <1>2. BuildersInv /\ [BuildersNext]_builderVars => BuildersInv'
    BY ZenonT(120), InvStep, InvStutters
  <1>3. BuildersInv /\ [BuildersNext]_builderVars => [Spares]_builderVars
    BY ZenonT(120), <1>1
  <1> QED BY <1>2, <1>3, InvInit, PTL DEF BuildersSpec, SeenReadyIsSpared

\* A builder that drains has no work when its Job is deleted: between the pass that finds it
\* idle and the deletion no build reaches it (_recycle_builders and plan_recycle).
THEOREM RetiredAreIdle ==
  BuildersSpec => RetiredIsIdle
  <1> DEFINE Idle == \A j \in Jobs : (Deletes /\ job'[j] # job[j] /\ j \in draining) => j \notin busy
  <1>1. ASSUME BuildersInv PROVE Idle
    <2> SUFFICES ASSUME NEW j \in Jobs, Deletes, job'[j] # job[j], j \in draining PROVE j \notin busy
      BY ZenonT(120)
    <2>1. Types /\ Orderly(agenda, served, draining \ busy) /\ j \in served
      BY ZenonT(120), <1>1 DEF BuildersInv, Types, BuildersTypeOK
    <2>2. /\ Len(agenda) \in Nat \ {0} /\ Head(agenda) = agenda[1] /\ Head(agenda).op = "delete"
          /\ Head(agenda).jobs \in SUBSET Jobs
      BY ZenonT(120), <2>1, HeadIs DEF Deletes
    <2>3. 1 \in 1..Len(agenda) /\ 1 # 2
      BY SMTT(120), <2>2
    <2>4. \A k \in agenda[1].jobs : k \notin served \/ k \in draining \ busy
      BY ZenonT(120), <2>1, <2>2, <2>3 DEF Orderly, DeleteOK
    <2>5. PICK i \in agenda[1].jobs : job' = [job EXCEPT ![i] = "gone"] \/ job' = job
      BY ZenonT(120), <2>2 DEF Deletes, DeletesJob, JobGoes
    <2>6. ClusterOK
      BY ZenonT(120), <2>1, TypesAre
    <2>7. i = j
      BY ZenonT(120), <2>2, <2>5, <2>6 DEF ClusterOK
    <2> QED BY ZenonT(120), <2>1, <2>4, <2>7
  <1>2. BuildersInv /\ [BuildersNext]_builderVars => BuildersInv'
    BY ZenonT(120), InvStep, InvStutters
  <1>3. BuildersInv => [Idle]_builderVars
    BY ZenonT(120), <1>1
  <1> QED BY <1>2, <1>3, InvInit, PTL DEF BuildersSpec, RetiredIsIdle

\* While a minimum is asked for, recycling leaves a system that has a builder with one.
RecycleLeavesOne ==
    [][Recycles /\ MinBuilders > 0 => \A s \in Systems : Serving(s) # {} => Serving(s)' # {}]_builderVars

\* What recycling drains has a fresh builder of its system beside it, which it keeps.
LEMMA RecyclingLeaves ==
  ASSUME Recycles, MinBuilders > 0, NEW s \in Systems, Serving(s) # {}
  PROVE  Serving(s)' # {}
  <1>1. draining' = draining \cup ToDrain /\ served' = served /\ system' = system
    BY ZenonT(120) DEF Recycles, cluster
  <1>2. MinBuilders # 0
    BY SMTT(120), BuildersAssumption
  <1>3. PICK j : j \in served \ draining /\ system[j] = s
    BY ZenonT(120) DEF Serving
  <1>4. CASE j \notin ToDrain
    <2>1. j \in Serving(s)'
      BY ZenonT(120), <1>1, <1>3, <1>4 DEF Serving
    <2> QED BY ZenonT(120), <2>1
  <1>5. CASE j \in ToDrain
    <2>1. PICK f : f \in Fresh(s)
      BY ZenonT(120), <1>2, <1>3, <1>5 DEF ToDrain
    <2>2. f \in Serving(s)'
      BY ZenonT(120), <1>1, <2>1 DEF Serving, Fresh, Seen, ToDrain
    <2> QED BY ZenonT(120), <2>2
  <1> QED BY ZenonT(120), <1>4, <1>5

\* For any minimum above zero, recycling never takes the last builder of a system that
\* serves one (plan_recycle drains an aged builder only beside a fresh one).
THEOREM RecyclingLeavesOne ==
  BuildersSpec => RecycleLeavesOne
  <1> DEFINE Leaves == Recycles /\ MinBuilders > 0 => \A s \in Systems : Serving(s) # {} => Serving(s)' # {}
  <1>1. Leaves
    BY ZenonT(120), RecyclingLeaves
  <1>2. [Leaves]_builderVars
    BY ZenonT(120), <1>1
  <1> QED BY <1>2, PTL DEF BuildersSpec, RecycleLeavesOne

\* With a minimum of at most one, recycling leaves every system at it, or with what it had.
\* With a larger one it need not: one fresh builder is enough for plan_recycle to drain all
\* the aged ones of its system.
THEOREM RecyclingKeepsMinimum ==
  ASSUME MinBuilders <= 1
  PROVE  BuildersSpec => RecycleKeepsMinimum
  <1> DEFINE Keeps == Recycles => \A s \in Systems :
                 Cardinality(Serving(s)') >= Min({MinBuilders, Cardinality(Serving(s))})
  <1>1. ASSUME BuildersInv PROVE Keeps
    <2> SUFFICES ASSUME Recycles, NEW s \in Systems
                 PROVE  Cardinality(Serving(s)') >= Min({MinBuilders, Cardinality(Serving(s))})
      BY ZenonT(120)
    <2>1. served \subseteq Jobs /\ served' = served
      BY ZenonT(120), <1>1 DEF Recycles, BuildersInv, Types, BuildersTypeOK
    <2> DEFINE A == Serving(s)
               B == Serving(s)'
    <2>2. A \subseteq Jobs /\ B \subseteq Jobs
      BY ZenonT(120), <2>1 DEF Serving
    <2>3. MinBuilders > 0 /\ A # {} => B # {}
      BY ZenonT(120), RecyclingLeaves
    <2> HIDE DEF A, B
    <2>4. IsFiniteSet(A) /\ IsFiniteSet(B)
      BY ZenonT(120), <2>2, BuildersAssumption, FS_Subset
    <2>5. /\ Cardinality(A) \in Nat /\ (Cardinality(A) = 0 <=> A = {})
          /\ Cardinality(B) \in Nat /\ (Cardinality(B) = 0 <=> B = {})
      BY ZenonT(120), <2>4, FS_CardinalityType, FS_EmptySet
    <2> DEFINE S == {MinBuilders, Cardinality(A)}
    <2>6. S \in SUBSET Nat /\ S # {}
      BY ZenonT(120), <2>5, BuildersAssumption
    <2>7. Min(S) \in S /\ \A m \in S : Min(S) <= m
      BY ZenonT(120), <2>6, MinIs
    <2>8. Min(S) \in Nat /\ Min(S) <= MinBuilders /\ Min(S) <= Cardinality(A)
      BY ZenonT(120), <2>6, <2>7
    <2> HIDE DEF S
    <2>9. Cardinality(B) >= Min(S)
      BY SMTT(120), <2>3, <2>5, <2>8, BuildersAssumption
    <2> QED BY ZenonT(120), <2>9 DEF A, B, S
  <1>2. BuildersInv /\ [BuildersNext]_builderVars => BuildersInv'
    BY ZenonT(120), InvStep, InvStutters
  <1>3. BuildersInv => [Keeps]_builderVars
    BY ZenonT(120), <1>1
  <1> QED BY <1>2, <1>3, InvInit, PTL DEF BuildersSpec, RecycleKeepsMinimum
=============================================================================
