------------------------- MODULE RolloutFleetProofs -------------------------
(***************************************************************************)
(* maxUnavailable: how many nodes of a fleet a rollout has switching at     *)
(* once, for prebuilt systems and specs that change at rest, and for any    *)
(* rollouts, nodes, systems, faults and bounds.                             *)
(***************************************************************************)
EXTENDS RolloutProofs, FiniteSetTheorems

(* The nodes that count against maxUnavailable: P is the phase of each     *)
(* node, left the ones the pass still has to step, sw, bo and di the ones  *)
(* with a live switch, boot or disarm Job of the spec's generation.        *)

Fits(P, sw, bo) ==
    /\ \A n \in sw : P[n] \in {"Pending", "Switching"}
    /\ \A n \in bo : P[n] \in {"Draining", "Booting", "DrainFailed"}

\* A node that is Disarming with its Job gone or over is done after its step.
Busy(P, left, bo, di) ==
    {n \in Nodes : \/ P[n] \in InFlight /\ ~(P[n] = "Disarming" /\ n \in left /\ n \notin di)
                   \/ P[n] = "DrainFailed" /\ n \in bo}

\* A node whose switch Job is not in the status yet, and those before it.
Queued(P, sw) == {m \in Nodes : P[m] = "Pending" /\ \E u \in sw : P[u] = "Pending" /\ m <= u}

Reserved(P, left, sw, bo, di) == Busy(P, left, bo, di) \cup Queued(P, sw)

Within(P, left, sw, bo, di) ==
    Fits(P, sw, bo) /\ Cardinality(Reserved(P, left, sw, bo, di)) <= MaxUnavailable

\* Q is what a pass that began with P has made of it so far.
Follows(P, Q, di) ==
    \A n \in Nodes :
        /\ P[n] = "Pending" => Q[n] \in {"Pending", "Switching"}
        /\ Q[n] = "Pending" => P[n] = "Pending"
        /\ P[n] \in InFlight => Q[n] \in Landing
        /\ P[n] \in InFlight /\ Q[n] = "Done" => P[n] = "Disarming" /\ n \notin di
        /\ P[n] = "DrainFailed" => Q[n] = "DrainFailed"

\* Fewer reserved nodes stay within the limit.
LEMMA FewerReserved ==
  ASSUME NEW R, R \subseteq Nodes, NEW S, S \subseteq R, Cardinality(R) <= MaxUnavailable
  PROVE  Cardinality(S) <= MaxUnavailable
  <1>1. IsFiniteSet(R) /\ IsFiniteSet(S)
    BY ZenonT(120), SwitchAssumption, FS_Subset
  <1>2. Cardinality(R) \in Nat /\ Cardinality(S) \in Nat /\ Cardinality(S) <= Cardinality(R)
    BY SMTT(120), <1>1, FS_Subset, FS_CardinalityType
  <1> QED BY SMTT(120), <1>2, RolloutAssumption

\* So do the same nodes with fewer live Jobs.
LEMMA FewerLive ==
  ASSUME NEW P, NEW left, NEW sw, NEW bo, NEW di, Within(P, left, sw, bo, di),
         NEW sw2, sw2 \subseteq sw, NEW bo2, bo2 \subseteq bo, NEW di2, di2 \subseteq di
  PROVE  Within(P, left, sw2, bo2, di2)
  <1>1. Reserved(P, left, sw2, bo2, di2) \subseteq Reserved(P, left, sw, bo, di)
    BY ZenonT(120) DEF Reserved, Busy, Queued
  <1>2. Reserved(P, left, sw, bo, di) \subseteq Nodes
    BY ZenonT(120) DEF Reserved, Busy, Queued
  <1>3. Fits(P, sw2, bo2)
    BY ZenonT(120) DEF Within, Fits
  <1> QED BY ZenonT(120), <1>1, <1>2, <1>3, FewerReserved DEF Within

\* P2 is P but for node n, which a pass has stepped.
Stepped(P, P2, left, left2, n) ==
    /\ \A m \in Nodes \ {n} : P2[m] = P[m]
    /\ left2 = left \/ left2 = left \ {n}

\* The pass stays within the limit.
LEMMA LandsWithin ==
  ASSUME NEW P, NEW left, NEW sw, NEW bo, NEW di, Within(P, left, sw, bo, di),
         sw \subseteq Nodes, bo \subseteq Nodes, left \subseteq Nodes,
         NEW P2, NEW left2, NEW n \in left, Stepped(P, P2, left, left2, n),
         NEW sw2, NEW bo2, NEW di2, Lands(n, P[n], P2[n], sw, bo, di, sw2, bo2, di2)
  PROVE  Within(P2, left2, sw2, bo2, di2)
  <1>a. PICK a : a = P[n]
    BY ZenonT(120)
  <1>b. PICK b : b = P2[n]
    BY ZenonT(120)
  <1>l. Lands(n, a, b, sw, bo, di, sw2, bo2, di2)
    BY ZenonT(120), <1>a, <1>b
  <1>0. sw2 \subseteq sw /\ bo2 \subseteq bo \cup {n} /\ di2 \subseteq di \cup {n} /\ n \in Nodes
    BY ZenonT(120), <1>l DEF Lands
  <1>1. \A m \in sw2 : P2[m] \in {"Pending", "Switching"}
    <2>1. \A m \in sw2 \ {n} : P2[m] \in {"Pending", "Switching"}
      BY ZenonT(120), <1>0, <1>a DEF Within, Fits, Stepped
    <2>2. n \in sw2 => a = "Switching" /\ b = "Switching"
      <3>1. n \in sw2 => a \in {"Pending", "Switching"} /\ n \in sw
        BY ZenonT(120), <1>0, <1>a DEF Within, Fits, Stepped
      <3>2. a # "Pending"
        BY ZenonT(120), <1>l DEF Lands, InFlight
      <3>3. a = "Switching" /\ n \in sw => b = "Switching"
        BY ZenonT(120), <1>l DEF Lands
      <3> QED BY ZenonT(120), <3>1, <3>2, <3>3
    <2> QED BY ZenonT(120), <1>b, <2>1, <2>2
  <1>2. \A m \in bo2 : P2[m] \in {"Draining", "Booting", "DrainFailed"}
    <2>1. \A m \in bo2 \ {n} : P2[m] \in {"Draining", "Booting", "DrainFailed"}
      BY ZenonT(120), <1>0, <1>a DEF Within, Fits, Stepped
    <2>2. n \in bo2 => b \in {"Draining", "Booting", "DrainFailed"}
      <3>1. n \in bo => a \in {"Draining", "Booting", "DrainFailed"}
        BY ZenonT(120), <1>0, <1>a DEF Within, Fits, Stepped
      <3> QED BY ZenonT(120), <1>l, <3>1 DEF Lands
    <2> QED BY ZenonT(120), <1>b, <2>1, <2>2
  <1>3. a # "Pending" /\ b # "Pending"
    BY ZenonT(120), <1>l DEF Lands, InFlight
  <1>4. Queued(P2, sw2) \subseteq Queued(P, sw)
    BY ZenonT(120), <1>a, <1>b, <1>0, <1>3 DEF Queued, Stepped
  <1>5. ASSUME NEW m \in Busy(P2, left2, bo2, di2) PROVE m \in Busy(P, left, bo, di)
    <2>0. m \in Nodes
      BY ZenonT(120), <1>5 DEF Busy
    <2>1. CASE m # n
      <3>1. P2[m] = P[m] /\ (m \in left2 <=> m \in left) /\ (m \in bo2 => m \in bo) /\ (m \in di2 => m \in di)
        BY ZenonT(120), <1>0, <2>0, <2>1 DEF Stepped
      <3> QED BY ZenonT(120), <1>5, <2>0, <3>1 DEF Busy
    <2>2. CASE m = n
      <3>1. b \in InFlight \/ b = "DrainFailed"
        BY ZenonT(120), <1>b, <1>5, <2>2 DEF Busy
      <3>2. a \in InFlight /\ (a = "Disarming" => n \in di)
        BY ZenonT(120), <1>l, <3>1 DEF Lands, InFlight
      <3> QED BY ZenonT(120), <1>a, <2>0, <2>2, <3>2 DEF Busy
    <2> QED BY ZenonT(120), <2>1, <2>2
  <1>6. Reserved(P2, left2, sw2, bo2, di2) \subseteq Reserved(P, left, sw, bo, di)
    BY ZenonT(120), <1>4, <1>5 DEF Reserved
  <1>7. Reserved(P, left, sw, bo, di) \subseteq Nodes
    BY ZenonT(120) DEF Reserved, Busy, Queued
  <1> QED BY ZenonT(120), <1>1, <1>2, <1>6, <1>7, FewerReserved DEF Within, Fits

\* So does the status, which has the node in flight as it was.
LEMMA LandsAhead ==
  ASSUME NEW P, NEW sw, NEW bo, NEW di, Within(P, Nodes, sw, bo, di), sw \subseteq Nodes, bo \subseteq Nodes,
         NEW n \in Nodes, NEW a, NEW b, P[n] \in InFlight, P[n] = a \/ a = "Reverted",
         NEW sw2, NEW bo2, NEW di2, Lands(n, a, b, sw, bo, di, sw2, bo2, di2)
  PROVE  /\ Within(P, Nodes, sw2, bo2, di2)
         /\ \A Q, Q2 : /\ Follows(P, Q, di)
                       /\ Q2[n] = b
                       /\ \A m \in Nodes \ {n} : Q2[m] = Q[m]
                       => Follows(P, Q2, di2)
  <1>0. sw2 \subseteq sw /\ bo2 \subseteq bo \cup {n} /\ di2 \subseteq di \cup {n}
    BY ZenonT(120) DEF Lands
  <1>1. (n \in bo2 /\ n \notin bo => P[n] = "Draining") /\ (n \in di2 /\ n \notin di => P[n] # "Disarming")
    BY ZenonT(120) DEF Lands
  <1>2. Fits(P, sw2, bo2)
    BY ZenonT(120), <1>0, <1>1 DEF Within, Fits
  <1>3. Busy(P, Nodes, bo2, di2) \subseteq Busy(P, Nodes, bo, di)
    <2> SUFFICES ASSUME NEW m \in Busy(P, Nodes, bo2, di2) PROVE m \in Busy(P, Nodes, bo, di)
      BY ZenonT(120)
    <2>1. m \in Nodes
      BY ZenonT(120) DEF Busy
    <2>2. CASE m # n
      BY ZenonT(120), <1>0, <2>1, <2>2 DEF Busy
    <2>3. CASE m = n
      <3>1. P[n] # "DrainFailed"
        BY ZenonT(120) DEF InFlight
      <3> QED BY ZenonT(120), <1>1, <2>1, <2>3, <3>1 DEF Busy
    <2> QED BY ZenonT(120), <2>2, <2>3
  <1>4. Queued(P, sw2) \subseteq Queued(P, sw)
    BY ZenonT(120), <1>0 DEF Queued
  <1>5. /\ Reserved(P, Nodes, sw2, bo2, di2) \subseteq Reserved(P, Nodes, sw, bo, di)
        /\ Reserved(P, Nodes, sw, bo, di) \subseteq Nodes
    BY ZenonT(120), <1>3, <1>4 DEF Reserved, Busy, Queued
  <1>6. Within(P, Nodes, sw2, bo2, di2)
    BY ZenonT(120), <1>2, <1>5, FewerReserved DEF Within
  <1>7. ASSUME NEW Q, NEW Q2, Follows(P, Q, di), Q2[n] = b, \A m \in Nodes \ {n} : Q2[m] = Q[m]
        PROVE  Follows(P, Q2, di2)
    <2>1. b \in Landing /\ b # "Pending"
      BY ZenonT(120) DEF Lands, Landing, InFlight
    <2>2. b = "Done" => P[n] = "Disarming" /\ n \notin di2
      BY ZenonT(120) DEF Lands, InFlight
    <2>3. P[n] # "Pending" /\ P[n] # "DrainFailed"
      BY ZenonT(120) DEF InFlight
    <2>4. \A m \in Nodes \ {n} : Q2[m] = Q[m] /\ (m \in di2 => m \in di)
      BY ZenonT(120), <1>0, <1>7
    <2> QED BY ZenonT(120), <1>7, <2>1, <2>2, <2>3, <2>4 DEF Follows
  <1> QED BY ZenonT(120), <1>6, <1>7

\* Q2 is Q but for node n, which starts.
Starts(Q, Q2, n) ==
    /\ \A m \in Nodes : Q[m] \notin {"Reverted", "DrainFailed"}
    /\ Cardinality({m \in Nodes : Q[m] \in InFlight}) < MaxUnavailable
    /\ Q[n] = "Pending" /\ \A m \in Nodes : Q[m] = "Pending" => n <= m
    /\ Q2[n] = "Switching" /\ \A m \in Nodes \ {n} : Q2[m] = Q[m]

\* A switch that starts: the pass was below the limit, and the nodes that a
\* lost pass started before are the ones that start first.
LEMMA StartWithin ==
  ASSUME NEW P, NEW Q, NEW sw, NEW bo, NEW di, sw \subseteq Nodes, bo \subseteq Nodes,
         Within(P, Nodes, sw, bo, di), Within(Q, {}, sw, bo, di), Follows(P, Q, di),
         NEW n \in Nodes, NEW Q2, Starts(Q, Q2, n), NEW sw2, sw2 \subseteq sw \cup {n}
  PROVE  /\ Within(P, Nodes, sw2, bo, di)
         /\ Within(Q2, {}, sw2, bo, di)
         /\ Follows(P, Q2, di)
  <1> USE DEF Starts
  <1> DEFINE flying == {m \in Nodes : Q[m] \in InFlight}
  <1>0. P[n] = "Pending"
    BY ZenonT(120) DEF Follows
  <1>1. ASSUME NEW R, R \subseteq flying \cup {n} PROVE Cardinality(R) <= MaxUnavailable
    <2>1. IsFiniteSet(flying) /\ flying \cup {n} \subseteq Nodes
      BY SMTT(120), SwitchAssumption, FS_Subset
    <2>2. Cardinality(flying) \in Nat /\ Cardinality(flying \cup {n}) <= Cardinality(flying) + 1
      <3> HIDE DEF flying, Starts
      <3>1. Cardinality(flying) \in Nat
        BY SMTT(120), <2>1, FS_CardinalityType
      <3>2. Cardinality(flying \cup {n}) = IF n \in flying THEN Cardinality(flying) ELSE Cardinality(flying) + 1
        BY SMTT(120), <2>1, FS_AddElement
      <3> QED BY SMTT(120), <3>1, <3>2
    <2>3. IsFiniteSet(flying \cup {n}) /\ Cardinality(flying \cup {n}) \in Nat
      <3> HIDE DEF flying, Starts
      <3>1. IsFiniteSet(flying \cup {n})
        BY SMTT(120), <2>1, FS_AddElement
      <3> QED BY SMTT(120), <3>1, FS_CardinalityType
    <2>4. Cardinality(flying) < MaxUnavailable
      BY ZenonT(120)
    <2> HIDE DEF flying
    <2>5. Cardinality(flying \cup {n}) <= MaxUnavailable
      BY SMTT(120), <2>2, <2>3, <2>4, RolloutAssumption
    <2> QED BY ZenonT(120), <1>1, <2>1, <2>5, FewerReserved
  <1>2. \A m \in Nodes : m \in Nat
    BY ZenonT(120), SwitchAssumption
  <1>3. \A m \in sw2 : m \in Nodes /\ (m = n \/ m \in sw)
    BY ZenonT(120)
  <1>4. Fits(P, sw2, bo)
    BY ZenonT(120), <1>0, <1>3 DEF Within, Fits
  <1>5. Fits(Q2, sw2, bo)
    <2>1. n \notin bo
      BY ZenonT(120) DEF Within, Fits
    <2> QED BY ZenonT(120), <1>3, <2>1 DEF Within, Fits
  <1>6. Cardinality(Reserved(P, Nodes, sw2, bo, di)) <= MaxUnavailable
    <2>1. CASE \E u \in sw : P[u] = "Pending" /\ n <= u
      <3>1. PICK u \in sw : P[u] = "Pending" /\ n <= u
        BY ZenonT(120), <2>1
      <3>2. Queued(P, sw2) \subseteq Queued(P, sw)
        <4> SUFFICES ASSUME NEW m \in Nodes, P[m] = "Pending", NEW v \in sw2, P[v] = "Pending", m <= v
                     PROVE  \E w \in sw : P[w] = "Pending" /\ m <= w
          BY ZenonT(120) DEF Queued
        <4>1. CASE v \in sw
          BY ZenonT(120), <4>1
        <4>2. CASE v = n
          <5>1. m <= u
            BY SMTT(120), <1>2, <3>1, <4>2
          <5> QED BY ZenonT(120), <3>1, <5>1
        <4> QED BY ZenonT(120), <1>3, <4>1, <4>2
      <3>3. /\ Reserved(P, Nodes, sw2, bo, di) \subseteq Reserved(P, Nodes, sw, bo, di)
            /\ Reserved(P, Nodes, sw, bo, di) \subseteq Nodes
        BY ZenonT(120), <3>2 DEF Reserved, Busy, Queued
      <3> QED BY ZenonT(120), <3>3, FewerReserved DEF Within
    <2>2. CASE ~\E u \in sw : P[u] = "Pending" /\ n <= u
      <3>1. ASSUME NEW m \in Busy(P, Nodes, bo, di) PROVE m \in flying
        <4>1. m \in Nodes
          BY ZenonT(120), <3>1 DEF Busy
        <4>2. P[m] # "DrainFailed"
          BY ZenonT(120), <4>1 DEF Follows
        <4>3. P[m] \in InFlight /\ ~(P[m] = "Disarming" /\ m \notin di)
          BY ZenonT(120), <3>1, <4>1, <4>2 DEF Busy
        <4>4. Q[m] \in Landing /\ Q[m] # "Done"
          BY ZenonT(120), <4>1, <4>3 DEF Follows
        <4>5. Q[m] \in InFlight
          BY ZenonT(120), <4>1, <4>4 DEF Landing
        <4> QED BY ZenonT(120), <4>1, <4>5
      <3>2. ASSUME NEW m \in Queued(P, sw2) PROVE m \in flying \cup {n}
        <4>1. m \in Nodes /\ P[m] = "Pending"
          BY ZenonT(120), <3>2 DEF Queued
        <4>2. PICK u \in sw2 : P[u] = "Pending" /\ m <= u
          BY ZenonT(120), <3>2 DEF Queued
        <4>3. CASE Q[m] = "Switching"
          BY ZenonT(120), <4>1, <4>3 DEF InFlight
        <4>4. CASE Q[m] = "Pending"
          <5>1. n <= m
            BY ZenonT(120), <4>1, <4>4
          <5>2. n <= u
            BY SMTT(120), <1>2, <1>3, <4>1, <4>2, <5>1
          <5>3. u = n
            BY ZenonT(120), <1>3, <2>2, <4>2, <5>2
          <5>4. m = n
            BY SMTT(120), <1>2, <4>1, <4>2, <5>1, <5>3
          <5> QED BY ZenonT(120), <5>4
        <4> QED BY ZenonT(120), <4>1, <4>3, <4>4 DEF Follows
      <3> HIDE DEF flying
      <3>3. Reserved(P, Nodes, sw2, bo, di) \subseteq flying \cup {n}
        BY ZenonT(120), <3>1, <3>2 DEF Reserved
      <3> QED BY ZenonT(120), <1>1, <3>3
    <2> QED BY ZenonT(120), <2>1, <2>2
  <1>7. Cardinality(Reserved(Q2, {}, sw2, bo, di)) <= MaxUnavailable
    <2>0. ASSUME NEW m \in Busy(Q2, {}, bo, di) PROVE m \in flying \cup {n}
      <3>1. m \in Nodes
        BY ZenonT(120), <2>0 DEF Busy
      <3>2. m # n => Q[m] \in InFlight
        BY ZenonT(120), <2>0, <3>1 DEF Busy
      <3> QED BY ZenonT(120), <3>1, <3>2
    <2>1. CASE \E u \in sw : Q[u] = "Pending"
      <3>1. PICK u \in sw : Q[u] = "Pending" /\ n <= u
        BY ZenonT(120), <2>1
      <3>2. n \in Queued(Q, sw)
        BY ZenonT(120), <3>1 DEF Queued
      <3>3. Queued(Q2, sw2) \subseteq Queued(Q, sw)
        BY ZenonT(120), <1>3 DEF Queued
      <3>4. flying \subseteq Busy(Q, {}, bo, di)
        BY ZenonT(120) DEF Busy
      <3> HIDE DEF flying
      <3>5. /\ Reserved(Q2, {}, sw2, bo, di) \subseteq Reserved(Q, {}, sw, bo, di)
            /\ Reserved(Q, {}, sw, bo, di) \subseteq Nodes
        <4>1. Reserved(Q2, {}, sw2, bo, di) \subseteq Reserved(Q, {}, sw, bo, di)
          BY ZenonT(120), <2>0, <3>2, <3>3, <3>4 DEF Reserved
        <4> QED BY ZenonT(120), <4>1 DEF Reserved, Busy, Queued
      <3> QED BY ZenonT(120), <3>5, FewerReserved DEF Within
    <2>2. CASE ~\E u \in sw : Q[u] = "Pending"
      <3>1. Queued(Q2, sw2) = {}
        BY ZenonT(120), <1>3, <2>2 DEF Queued
      <3> HIDE DEF flying
      <3>2. Reserved(Q2, {}, sw2, bo, di) \subseteq flying \cup {n}
        BY ZenonT(120), <2>0, <3>1 DEF Reserved
      <3> QED BY ZenonT(120), <1>1, <3>2
    <2> QED BY ZenonT(120), <2>1, <2>2
  <1>8. Follows(P, Q2, di)
    <2>1. P[n] \notin InFlight /\ P[n] # "DrainFailed" /\ Q2[n] # "Pending"
      BY ZenonT(120), <1>0 DEF InFlight
    <2> QED BY ZenonT(120), <1>0, <2>1 DEF Follows
  <1> QED BY ZenonT(120), <1>4, <1>5, <1>6, <1>7, <1>8 DEF Within

\* A pass begins with what plan makes of the status, and its end is the status.
LEMMA PassWithin ==
  ASSUME NEW P, NEW sw, NEW bo, NEW di
  PROVE  /\ Within(P, Nodes, sw, bo, di)
            => Within(P, {n \in Nodes : P[n] \in InFlight}, sw, bo, di) /\ Follows(P, P, di)
         /\ Within(P, {}, sw, bo, di) => Within(P, Nodes, sw, bo, di)
         /\ sw = {} /\ bo = {} /\ (\A n \in Nodes : P[n] \notin InFlight)
            => Within(P, Nodes, sw, bo, di)
  <1> DEFINE flying == {n \in Nodes : P[n] \in InFlight}
  <1>1. /\ Reserved(P, flying, sw, bo, di) \subseteq Reserved(P, Nodes, sw, bo, di)
        /\ Reserved(P, Nodes, sw, bo, di) \subseteq Nodes
        /\ Reserved(P, Nodes, sw, bo, di) \subseteq Reserved(P, {}, sw, bo, di)
        /\ Reserved(P, {}, sw, bo, di) \subseteq Nodes
    BY ZenonT(120) DEF Reserved, Busy, Queued
  <1>2. Follows(P, P, di)
    <2>1. InFlight \subseteq Landing /\ "Done" \notin InFlight
      BY ZenonT(120) DEF InFlight, Landing
    <2> QED BY ZenonT(120), <2>1 DEF Follows
  <1>3. ASSUME sw = {}, bo = {}, \A n \in Nodes : P[n] \notin InFlight
        PROVE  Within(P, Nodes, sw, bo, di)
    <2>1. Reserved(P, Nodes, sw, bo, di) = {}
      BY ZenonT(120), <1>3 DEF Reserved, Busy, Queued
    <2>2. Cardinality(Reserved(P, Nodes, sw, bo, di)) <= MaxUnavailable
      BY SMTT(120), <2>1, FS_EmptySet, RolloutAssumption
    <2> QED BY ZenonT(120), <1>3, <2>2 DEF Within, Fits
  <1> HIDE DEF flying
  <1>4. /\ Within(P, Nodes, sw, bo, di) => Within(P, flying, sw, bo, di)
        /\ Within(P, {}, sw, bo, di) => Within(P, Nodes, sw, bo, di)
    BY ZenonT(120), <1>1, FewerReserved DEF Within
  <1> QED BY ZenonT(120), <1>2, <1>3, <1>4 DEF flying

-----------------------------------------------------------------------------
(* The same of the state.                                                   *)

ComingPhases(r) == [n \in Nodes |-> Coming(r, n).phase]
PassPhases == [n \in Nodes |-> pass.entries[n].phase]

\* The status, and the pass, are within maxUnavailable.
FleetAt(r) ==
    /\ Within(ComingPhases(r), Nodes, Live(r, "switch"), Live(r, "boot"), Live(r, "disarm"))
    /\ WorksFor(r) =>
        /\ Within(PassPhases, pass.left, Live(r, "switch"), Live(r, "boot"), Live(r, "disarm"))
        /\ Follows(ComingPhases(r), PassPhases, Live(r, "disarm"))

FleetInv == \A r \in Rollouts : FleetAt(r)

\* A pass that steps a node in flight stays within the limit.
LEMMA StepFleet ==
  ASSUME RolloutInv, EntriesAreSteady, JobsAreSeen, NoStaleFlight, NEW r \in Rollouts, WorksFor(r), FleetAt(r),
         NEW n \in Nodes, Step(n), ~StartSwitch(n)
  PROVE  FleetAt(r)'
  <1>0. Types /\ PassOK /\ pass.at # "next" /\ UNCHANGED <<spec, status>> /\ LeftIsInFlight /\ pass.of = r
    BY ZenonT(120), TypesAre, StepSays DEF RolloutInv, WorksFor
  <1>s. PICK sw : sw = Live(r, "switch")
    BY ZenonT(120)
  <1>b. PICK bo : bo = Live(r, "boot")
    BY ZenonT(120)
  <1>d. PICK di : di = Live(r, "disarm")
    BY ZenonT(120)
  <1>s2. PICK sw2 : sw2 = Live(r, "switch")'
    BY ZenonT(120)
  <1>b2. PICK bo2 : bo2 = Live(r, "boot")'
    BY ZenonT(120)
  <1>d2. PICK di2 : di2 = Live(r, "disarm")'
    BY ZenonT(120)
  <1>p. PICK P : P = ComingPhases(r)
    BY ZenonT(120)
  <1>q. PICK Q : Q = PassPhases
    BY ZenonT(120)
  <1>q2. PICK Q2 : Q2 = PassPhases'
    BY ZenonT(120)
  <1>l. PICK left : left = pass.left
    BY ZenonT(120)
  <1>l2. PICK left2 : left2 = pass'.left
    BY ZenonT(120)
  <1>1. /\ n \in left /\ (left2 = left \/ left2 = left \ {n})
        /\ \E b : Turns(n, b) /\ Lands(n, Q[n], b, sw, bo, di, sw2, bo2, di2)
    <2>1. Q[n] = pass.entries[n].phase
      BY ZenonT(120), <1>q DEF PassPhases
    <2> QED BY ZenonT(120), <1>s, <1>b, <1>d, <1>s2, <1>b2, <1>d2, <1>l, <1>l2, <2>1, StepLands
  <1>2. PICK b : Turns(n, b) /\ Lands(n, Q[n], b, sw, bo, di, sw2, bo2, di2)
    BY ZenonT(120), <1>1
  <1>3. Q2[n] = b /\ \A m \in Nodes \ {n} : Q2[m] = Q[m]
    BY ZenonT(120), <1>q, <1>q2, <1>2 DEF Turns, PassPhases
  <1>4. P = ComingPhases(r)'
    BY ZenonT(120), <1>0, <1>p DEF ComingPhases, Coming
  <1>5. sw \subseteq Nodes /\ bo \subseteq Nodes /\ left \subseteq Nodes
    BY ZenonT(120), <1>0, <1>s, <1>b, <1>l DEF Live, PassOK
  <1>6. Within(P, Nodes, sw, bo, di) /\ Within(Q, left, sw, bo, di) /\ Follows(P, Q, di)
    BY ZenonT(120), <1>s, <1>b, <1>d, <1>p, <1>q, <1>l DEF FleetAt
  <1>7. P[n] \in InFlight /\ (P[n] = Q[n] \/ Q[n] = "Reverted")
    <2>1. /\ status[r].nodes[n].phase \in InFlight
          /\ pass.entries[n] = status[r].nodes[n] \/ pass.entries[n].phase = "Reverted"
      BY ZenonT(120), <1>0, <1>1, <1>l DEF LeftIsInFlight
    <2>2. Coming(r, n) = status[r].nodes[n]
      BY ZenonT(120), <2>1, PlansSteadily
    <2>3. P[n] = Coming(r, n).phase /\ Q[n] = pass.entries[n].phase
      BY ZenonT(120), <1>p, <1>q DEF ComingPhases, PassPhases
    <2> QED BY ZenonT(120), <2>1, <2>2, <2>3
  <1>8. Within(Q2, left2, sw2, bo2, di2)
    <2>1. Stepped(Q, Q2, left, left2, n) /\ Lands(n, Q[n], Q2[n], sw, bo, di, sw2, bo2, di2) /\ n \in left
      BY ZenonT(120), <1>1, <1>2, <1>3 DEF Stepped
    <2> QED BY ZenonT(120), <1>5, <1>6, <2>1, LandsWithin
  <1>9. Within(P, Nodes, sw2, bo2, di2) /\ Follows(P, Q2, di2)
    BY ZenonT(120), <1>2, <1>3, <1>5, <1>6, <1>7, LandsAhead
  <1> QED BY ZenonT(120), <1>s2, <1>b2, <1>d2, <1>q2, <1>l2, <1>4, <1>8, <1>9 DEF FleetAt

\* So does one that starts a switch.
LEMMA StartFleet ==
  ASSUME RolloutInv, NEW r \in Rollouts, WorksFor(r), FleetAt(r), NEW n \in Nodes, StartSwitch(n)
  PROVE  FleetAt(r)'
  <1>0. Types /\ PassOK /\ pass.at # "next" /\ UNCHANGED <<spec, status>> /\ pass.of = r
    BY ZenonT(120), TypesAre DEF RolloutInv, WorksFor, StartSwitch, apiVars
  <1>s. PICK sw : sw = Live(r, "switch")
    BY ZenonT(120)
  <1>b. PICK bo : bo = Live(r, "boot")
    BY ZenonT(120)
  <1>d. PICK di : di = Live(r, "disarm")
    BY ZenonT(120)
  <1>s2. PICK sw2 : sw2 = Live(r, "switch")'
    BY ZenonT(120)
  <1>b2. PICK bo2 : bo2 = Live(r, "boot")'
    BY ZenonT(120)
  <1>d2. PICK di2 : di2 = Live(r, "disarm")'
    BY ZenonT(120)
  <1>p. PICK P : P = ComingPhases(r)
    BY ZenonT(120)
  <1>q. PICK Q : Q = PassPhases
    BY ZenonT(120)
  <1>q2. PICK Q2 : Q2 = PassPhases'
    BY ZenonT(120)
  <1>1. sw2 \subseteq sw \cup {n} /\ bo2 \subseteq bo /\ di2 \subseteq di
    <2>1. PICK k : k = [JobName(n, "switch") EXCEPT !.generation = pass.docs[pass.of].gen]
      BY ZenonT(120)
    <2>2. k.node = n /\ k.action = "switch"
      BY ZenonT(120), <2>1 DEF JobName
    <2>3. Creates(k)
      BY ZenonT(120), <2>1 DEF StartSwitch
    <2>4. "switch" # "boot" /\ "switch" # "disarm"
      BY ZenonT(120)
    <2> QED BY ZenonT(120), <1>0, <1>s, <1>b, <1>d, <1>s2, <1>b2, <1>d2, <2>2, <2>3, <2>4, LiveGrows
  <1>2. Turns(n, "Switching") /\ pass.left = {} /\ pass'.left = {}
    <2> DEFINE e == [pass.entries[n] EXCEPT !.phase = "Switching", !.generation = pass.docs[pass.of].gen]
    <2>1. Becomes(n, e) /\ pass.left = {}
      BY ZenonT(120) DEF StartSwitch
    <2>2. pass.entries[n] \in Entry
      BY ZenonT(120), <1>0 DEF PassOK
    <2>3. e.phase = "Switching"
      BY ZenonT(120), <2>2 DEF Entry
    <2> HIDE DEF e
    <2> QED BY ZenonT(120), <1>0, <2>1, <2>3, BecomesTurn
  <1>3. Q2[n] = "Switching" /\ \A m \in Nodes \ {n} : Q2[m] = Q[m]
    BY ZenonT(120), <1>q, <1>q2, <1>2 DEF Turns, PassPhases
  <1>4. P = ComingPhases(r)'
    BY ZenonT(120), <1>0, <1>p DEF ComingPhases, Coming
  <1>5. sw \subseteq Nodes /\ bo \subseteq Nodes
    BY ZenonT(120), <1>s, <1>b DEF Live
  <1>6. Within(P, Nodes, sw, bo, di) /\ Within(Q, {}, sw, bo, di) /\ Follows(P, Q, di)
    BY ZenonT(120), <1>s, <1>b, <1>d, <1>p, <1>q, <1>2 DEF FleetAt
  <1>7. \A m \in Nodes : Q[m] = pass.entries[m].phase
    BY ZenonT(120), <1>q DEF PassPhases
  <1>8. \A m \in Nodes : Q[m] \notin {"Reverted", "DrainFailed"}
    <2>1. rollout_phase(pass.entries) # "Halted"
      BY ZenonT(120) DEF StartSwitch, Startable
    <2>2. Phases(pass.entries) \cap Halting = {}
      <3>1. Phases(pass.entries) \cap Halting # {} => rollout_phase(pass.entries) = "Halted"
        <4>1. "Done" \notin Halting
          BY ZenonT(120) DEF Halting
        <4> QED BY ZenonT(120), <4>1 DEF rollout_phase
      <3> QED BY ZenonT(120), <2>1, <3>1
    <2> QED BY ZenonT(120), <1>7, <2>2 DEF Phases, Halting
  <1>9. Cardinality({m \in Nodes : Q[m] \in InFlight}) < MaxUnavailable
    <2>1. {m \in Nodes : Q[m] \in InFlight} = Flying
      BY ZenonT(120), <1>7 DEF Flying
    <2> QED BY ZenonT(120), <2>1 DEF StartSwitch, Startable
  <1>10. Q[n] = "Pending" /\ \A m \in Nodes : Q[m] = "Pending" => n <= m
    BY ZenonT(120), <1>7 DEF StartSwitch, StartsNext, Waiting
  <1>11. Within(P, Nodes, sw2, bo, di) /\ Within(Q2, {}, sw2, bo, di) /\ Follows(P, Q2, di)
    <2>1. Starts(Q, Q2, n)
      BY ZenonT(120), <1>3, <1>8, <1>9, <1>10 DEF Starts
    <2> QED BY ZenonT(120), <1>1, <1>5, <1>6, <2>1, StartWithin
  <1>12. Within(P, Nodes, sw2, bo2, di2) /\ Within(Q2, {}, sw2, bo2, di2) /\ Follows(P, Q2, di2)
    <2>1. Within(P, Nodes, sw2, bo2, di2) /\ Within(Q2, {}, sw2, bo2, di2)
      BY ZenonT(120), <1>1, <1>11, FewerLive
    <2>2. Follows(P, Q2, di2)
      BY ZenonT(120), <1>1, <1>11 DEF Follows
    <2> QED BY ZenonT(120), <2>1, <2>2
  <1> QED BY ZenonT(120), <1>s2, <1>b2, <1>d2, <1>q2, <1>2, <1>4, <1>12 DEF FleetAt

\* A rollout that nobody is in flight for, and without live Jobs.
LEMMA IdleFleet ==
  ASSUME NEW r \in Rollouts, Types', GenerationsAreSeen',
         \A n \in Nodes : status'[r].nodes[n].phase \notin InFlight,
         Live(r, "switch")' = {}, Live(r, "boot")' = {}, ~WorksFor(r)'
  PROVE  FleetAt(r)'
  <1>1. spec'[r] \in Doc /\ \A n \in Nodes : /\ EntryOK(status'[r].nodes[n])
                                            /\ status'[r].nodes[n].generation <= spec'[r].gen
    <2>1. SpecsOK' /\ StatusOK'
      BY ZenonT(120), TypesAre
    <2> QED BY ZenonT(120), <2>1 DEF SpecsOK, StatusOK, GenerationsAreSeen
  <1>2. PICK P : P = ComingPhases(r)'
    BY ZenonT(120)
  <1>3. ASSUME NEW n \in Nodes PROVE P[n] \notin InFlight
    <2>1. P[n] = PlanOf(status'[r].nodes[n], spec'[r], n).phase
      BY ZenonT(120), <1>2 DEF ComingPhases, Coming
    <2>2. PICK e : e = status'[r].nodes[n]
      BY ZenonT(120)
    <2>3. PICK doc : doc = spec'[r]
      BY ZenonT(120)
    <2> QED BY ZenonT(120), <1>1, <2>1, <2>2, <2>3, IdlePlan
  <1>4. PICK di : di = Live(r, "disarm")'
    BY ZenonT(120)
  <1>5. Within(P, Nodes, {}, {}, di)
    BY ZenonT(120), <1>3, PassWithin
  <1> QED BY ZenonT(120), <1>2, <1>4, <1>5 DEF FleetAt

\* A rollout that a step leaves alone.
LEMMA SameFleet ==
  ASSUME RolloutInv, JobsAreSeen, [RolloutNext]_rolloutVars, NEW r \in Rollouts, FleetAt(r),
         ~WorksFor(r) \/ \A n \in Nodes : ~Step(n), spec'[r] = spec[r], status'[r] = status[r],
         WorksFor(r)' => WorksFor(r) /\ UNCHANGED pass
  PROVE  FleetAt(r)'
  <1>s. PICK sw : sw = Live(r, "switch")
    BY ZenonT(120)
  <1>b. PICK bo : bo = Live(r, "boot")
    BY ZenonT(120)
  <1>d. PICK di : di = Live(r, "disarm")
    BY ZenonT(120)
  <1>s2. PICK sw2 : sw2 = Live(r, "switch")'
    BY ZenonT(120)
  <1>b2. PICK bo2 : bo2 = Live(r, "boot")'
    BY ZenonT(120)
  <1>d2. PICK di2 : di2 = Live(r, "disarm")'
    BY ZenonT(120)
  <1>p. PICK P : P = ComingPhases(r)
    BY ZenonT(120)
  <1>q. PICK Q : Q = PassPhases
    BY ZenonT(120)
  <1>l. PICK left : left = pass.left
    BY ZenonT(120)
  <1>1. sw2 \subseteq sw /\ bo2 \subseteq bo /\ di2 \subseteq di
    BY ZenonT(120), <1>s, <1>b, <1>d, <1>s2, <1>b2, <1>d2, LiveShrinks
  <1>2. P = ComingPhases(r)'
    BY ZenonT(120), <1>p DEF ComingPhases, Coming
  <1>3. Within(P, Nodes, sw, bo, di) /\ (WorksFor(r) => Within(Q, left, sw, bo, di) /\ Follows(P, Q, di))
    BY ZenonT(120), <1>s, <1>b, <1>d, <1>p, <1>q, <1>l DEF FleetAt
  <1>4. Within(P, Nodes, sw2, bo2, di2) /\ (WorksFor(r) => Within(Q, left, sw2, bo2, di2))
    BY ZenonT(120), <1>1, <1>3, FewerLive
  <1>5. WorksFor(r) => Follows(P, Q, di2)
    BY ZenonT(120), <1>1, <1>3 DEF Follows
  <1>6. WorksFor(r)' => Q = PassPhases' /\ left = pass'.left /\ WorksFor(r)
    BY ZenonT(120), <1>q, <1>l DEF PassPhases
  <1> QED BY ZenonT(120), <1>s2, <1>b2, <1>d2, <1>2, <1>4, <1>5, <1>6 DEF FleetAt

\* A pass begins with what plan makes of the status.
LEMMA TakesFleet ==
  ASSUME RolloutInv, NoConflictListed, EntriesAreSteady, JobsAreSeen, Prebuilt, NoStaleFlight,
         NEW r \in Rollouts, FleetAt(r), Reconcile(r), pass.docs[r] = spec[r]
  PROVE  FleetAt(r)'
  <1>0. Types
    BY ZenonT(120) DEF RolloutInv
  <1>1. /\ UNCHANGED <<spec, status, jobs>>
        /\ pass'.left = {n \in Nodes : pass'.entries[n].phase \in InFlight}
    BY ZenonT(120), <1>0, TakesSay
  <1>s. PICK sw : sw = Live(r, "switch") /\ sw = Live(r, "switch")'
    BY ZenonT(120), <1>1 DEF Live
  <1>b. PICK bo : bo = Live(r, "boot") /\ bo = Live(r, "boot")'
    BY ZenonT(120), <1>1 DEF Live
  <1>d. PICK di : di = Live(r, "disarm") /\ di = Live(r, "disarm")'
    BY ZenonT(120), <1>1 DEF Live
  <1>p. PICK P : P = ComingPhases(r) /\ P = ComingPhases(r)'
    BY ZenonT(120), <1>1 DEF ComingPhases, Coming
  <1>2. \A n \in Nodes : pass'.entries[n] = Coming(r, n)
    BY ZenonT(120), PlansSteadily
  <1>3. P = PassPhases'
    BY ZenonT(120), <1>p, <1>2 DEF PassPhases, ComingPhases
  <1>4. pass'.left = {n \in Nodes : P[n] \in InFlight}
    <2>1. \A n \in Nodes : P[n] = pass'.entries[n].phase
      BY ZenonT(120), <1>3 DEF PassPhases
    <2> QED BY ZenonT(120), <1>1, <2>1
  <1>5. Within(P, Nodes, sw, bo, di)
    BY ZenonT(120), <1>s, <1>b, <1>d, <1>p DEF FleetAt
  <1>6. Within(P, {n \in Nodes : P[n] \in InFlight}, sw, bo, di) /\ Follows(P, P, di)
    BY ZenonT(120), <1>5, PassWithin
  <1> QED BY ZenonT(120), <1>s, <1>b, <1>d, <1>p, <1>3, <1>4, <1>5, <1>6 DEF FleetAt

\* The end of a pass is the status.
LEMMA SavesFleet ==
  ASSUME RolloutInv, RolloutInv', EntriesAreSteady, JobsAreSeen, NoStaleFlight', [RolloutNext]_rolloutVars,
         NEW r \in Rollouts, FleetAt(r), Saves, r = pass.of, \A n \in Nodes : ~Step(n)
  PROVE  FleetAt(r)'
  <1>0. Types /\ Types' /\ DocsAreSpecs /\ GenerationsAreSeen /\ GenerationsAreSeen'
    BY ZenonT(120) DEF RolloutInv
  <1>1. /\ pass.at # "next" /\ pass.left = {} /\ pass'.at = "next" /\ UNCHANGED spec /\ Waits(r)
        /\ \A n \in Nodes : status'[r].nodes[n] = pass.entries[n]
    BY ZenonT(120), <1>0, SavesSay DEF Saves, Ends, Waits
  <1>2. ~WorksFor(r)'
    BY ZenonT(120), <1>1 DEF WorksFor
  <1>3. \A a : Live(r, a)' \subseteq Live(r, a)
    BY ZenonT(120), <1>1, LiveShrinks
  <1>4. /\ pass.docs[r].gen \in Nat /\ spec[r].gen \in Nat /\ pass.docs[r].gen <= spec[r].gen
        /\ \A n \in Nodes : /\ pass.entries[n].generation <= pass.docs[r].gen
                            /\ pass.entries[n].generation \in Nat
    BY ZenonT(120), <1>0, <1>1, Numbers DEF DocsAreSpecs, GenerationsAreSeen
  <1>5. CASE WorksFor(r)
    <2>s. PICK sw : sw = Live(r, "switch")
      BY ZenonT(120)
    <2>b. PICK bo : bo = Live(r, "boot")
      BY ZenonT(120)
    <2>d. PICK di : di = Live(r, "disarm")
      BY ZenonT(120)
    <2>s2. PICK sw2 : sw2 = Live(r, "switch")'
      BY ZenonT(120)
    <2>b2. PICK bo2 : bo2 = Live(r, "boot")'
      BY ZenonT(120)
    <2>d2. PICK di2 : di2 = Live(r, "disarm")'
      BY ZenonT(120)
    <2>q. PICK Q : Q = PassPhases
      BY ZenonT(120)
    <2>1. Within(Q, {}, sw, bo, di)
      BY ZenonT(120), <1>1, <1>5, <2>s, <2>b, <2>d, <2>q DEF FleetAt
    <2>2. Within(Q, Nodes, sw, bo, di)
      BY ZenonT(120), <2>1, PassWithin
    <2>3. Within(Q, Nodes, sw2, bo2, di2)
      <3>1. sw2 \subseteq sw /\ bo2 \subseteq bo /\ di2 \subseteq di
        BY ZenonT(120), <1>3, <2>s, <2>b, <2>d, <2>s2, <2>b2, <2>d2
      <3> QED BY ZenonT(120), <2>2, <3>1, FewerLive
    <2>4. ASSUME NEW n \in Nodes PROVE Coming(r, n)'.phase = Q[n]
      <3>1. PICK e : e = pass.entries[n]
        BY ZenonT(120)
      <3>2. PICK doc : doc = spec[r]
        BY ZenonT(120)
      <3>3. Steady(e, doc, n) /\ e.generation <= doc.gen
        BY ZenonT(120), <1>1, <1>4, <1>5, <3>1, <3>2 DEF EntriesAreSteady, WorksFor
      <3>4. EntryOK(e) /\ doc \in Doc
        BY ZenonT(120), <1>0, <1>1, <3>1, <3>2, TypesAre DEF PassOK, SpecsOK
      <3>5. FliesFor(e, doc, n)
        <4>1. \A b \in InFlight : b \notin {"Done", "Pending", "None"}
          BY ZenonT(120) DEF InFlight
        <4> QED BY ZenonT(120), <3>3, <3>4, <4>1 DEF FliesFor, Steady
      <3>6. PlanOf(e, doc, n).phase = e.phase
        BY ZenonT(120), <3>3, <3>4, <3>5, PlanSteady DEF PlanIsSteady
      <3>7. Coming(r, n)' = PlanOf(e, doc, n)
        BY ZenonT(120), <1>1, <3>1, <3>2 DEF Coming
      <3>8. Q[n] = e.phase
        BY ZenonT(120), <2>q, <3>1 DEF PassPhases
      <3> QED BY ZenonT(120), <3>6, <3>7, <3>8
    <2>5. Q = ComingPhases(r)'
      <3>1. Q = [n \in Nodes |-> Q[n]]
        BY ZenonT(120), <2>q DEF PassPhases
      <3> QED BY ZenonT(120), <2>4, <3>1 DEF ComingPhases
    <2> QED BY ZenonT(120), <1>2, <2>s2, <2>b2, <2>d2, <2>3, <2>5 DEF FleetAt
  <1>6. CASE ~WorksFor(r)
    <2>1. pass.docs[r].gen < spec[r].gen
      <3>1. pass.docs[r].gen # spec[r].gen
        BY ZenonT(120), <1>1, <1>6 DEF WorksFor
      <3> QED BY SMTT(120), <1>4, <3>1
    <2>2. ASSUME NEW a PROVE Live(r, a)' = {}
      <3>1. ASSUME NEW j \in DOMAIN jobs, j.rollout = r PROVE j.generation # spec[r].gen
        <4>1. j.generation <= pass.docs[r].gen
          BY ZenonT(120), <1>1, <3>1 DEF JobsAreSeen
        <4>2. j.generation = spec[r].gen => ~(pass.docs[r].gen < spec[r].gen)
          BY SMTT(120), <1>4, <4>1
        <4> QED BY ZenonT(120), <2>1, <4>2
      <3>2. Live(r, a) = {}
        BY ZenonT(120), <3>1 DEF Live
      <3> QED BY ZenonT(120), <1>3, <3>2
    <2>3. ASSUME NEW n \in Nodes PROVE status'[r].nodes[n].phase \notin InFlight
      <3>1. status'[r].nodes[n].generation # spec'[r].gen
        BY SMTT(120), <1>1, <1>4, <2>1
      <3> QED BY ZenonT(120), <3>1 DEF NoStaleFlight
    <2> QED BY ZenonT(120), <1>0, <1>2, <2>2, <2>3, IdleFleet
  <1> QED BY ZenonT(120), <1>5, <1>6

\* A spec that changes at rest.
LEMMA ChangesFleet ==
  ASSUME RolloutInv, RolloutInv', JobsAreSeen, NoStaleFlight', NEW r \in Rollouts, SpecChanges(r),
         [RolloutNext]_rolloutVars
  PROVE  FleetAt(r)'
  <1>0. Types /\ Types' /\ DocsAreSpecs /\ GenerationsAreSeen /\ GenerationsAreSeen'
    BY ZenonT(120) DEF RolloutInv
  <1>1. UNCHANGED <<status, pass>> /\ spec'[r].gen = spec[r].gen + 1 /\ spec[r].gen \in Nat
    BY ZenonT(120), <1>0, ChangesSay, Numbers
  <1>2. UNCHANGED jobs
    BY ZenonT(120) DEF SpecChanges, hostVars
  <1>3. ASSUME NEW a PROVE Live(r, a)' = {}
    <2>1. ASSUME NEW j \in DOMAIN jobs, j.rollout = r PROVE j.generation # spec'[r].gen
      <3>1. j.generation <= spec[r].gen
        BY ZenonT(120), <2>1 DEF JobsAreSeen
      <3> QED BY SMTT(120), <1>1, <3>1
    <2> QED BY ZenonT(120), <1>2, <2>1 DEF Live
  <1>4. ASSUME NEW n \in Nodes PROVE status'[r].nodes[n].phase \notin InFlight
    <2>1. status[r].nodes[n].generation <= spec[r].gen
      BY ZenonT(120), <1>0 DEF GenerationsAreSeen
    <2>2. status'[r].nodes[n].generation # spec'[r].gen
      BY SMTT(120), <1>1, <2>1
    <2> QED BY ZenonT(120), <2>2 DEF NoStaleFlight
  <1>5. ~WorksFor(r)'
    <2>1. spec'[r] # spec[r]
      BY SMTT(120), <1>1
    <2> QED BY ZenonT(120), <1>0, <2>1, WorksStep
  <1> QED BY ZenonT(120), <1>0, <1>3, <1>4, <1>5, IdleFleet

\* Every rollout stays within its limit.
LEMMA FleetStep ==
  ASSUME RolloutInv, RolloutInv', NoConflictListed, EntriesAreSteady, JobsAreSeen, FleetInv,
         Prebuilt, NoStaleFlight, NoStaleFlight', [RolloutNext]_rolloutVars
  PROVE  FleetInv'
  <1>0. Types /\ DocsAreSpecs
    BY ZenonT(120) DEF RolloutInv
  <1> SUFFICES ASSUME NEW r \in Rollouts PROVE FleetAt(r)'
    BY ZenonT(120) DEF FleetInv
  <1>1. FleetAt(r)
    BY ZenonT(120) DEF FleetInv
  <1>2. ASSUME NEW n \in Nodes, Step(n) PROVE FleetAt(r)'
    <2>1. pass.at # "next" /\ UNCHANGED <<spec, status>>
      BY ZenonT(120), <1>0, <1>2, StepSays, StepPass
    <2>2. CASE WorksFor(r)
      BY ZenonT(120), <1>1, <1>2, <2>2, StepFleet, StartFleet
    <2>3. CASE ~WorksFor(r)
      <3>1. ~WorksFor(r)'
        BY ZenonT(120), <1>0, <2>1, <2>3, WorksStep DEF Reconcile
      <3> QED BY ZenonT(120), <1>1, <2>1, <2>3, <3>1, SameFleet
    <2> QED BY ZenonT(120), <2>2, <2>3
  <1>3. ASSUME \A n \in Nodes : ~Step(n) PROVE FleetAt(r)'
    <2>1. CASE spec'[r] = spec[r] /\ status'[r] = status[r] /\ (WorksFor(r)' => WorksFor(r) /\ UNCHANGED pass)
      BY ZenonT(120), <1>1, <1>3, <2>1, SameFleet
    <2>2. CASE Begins \/ Drops \/ UNCHANGED <<spec, status, pass>>
      <3>1. UNCHANGED <<spec, status>>
        BY ZenonT(120), <2>2 DEF Begins, Drops, Ends
      <3>2. WorksFor(r)' => WorksFor(r) /\ UNCHANGED pass
        BY ZenonT(120), <2>2 DEF Begins, Drops, Ends, WorksFor
      <3> QED BY ZenonT(120), <2>1, <3>1, <3>2
    <2>3. CASE Saves
      <3>1. CASE r = pass.of
        BY ZenonT(120), <1>1, <1>3, <2>3, <3>1, SavesFleet
      <3>2. CASE r # pass.of
        <4>1. UNCHANGED spec /\ status'[r] = status[r] /\ ~WorksFor(r)'
          BY ZenonT(120), <1>0, <2>3, <3>2, SavesSay DEF Saves, Ends, WorksFor
        <4> QED BY ZenonT(120), <2>1, <4>1
      <3> QED BY ZenonT(120), <3>1, <3>2
    <2>4. ASSUME NEW q \in Rollouts, Reconcile(q) PROVE FleetAt(r)'
      <3>1. UNCHANGED <<spec, status>> /\ ~WorksFor(r)
        BY ZenonT(120), <1>0, <2>4, TakesSay DEF Reconcile, WorksFor
      <3>2. CASE ~WorksFor(r)'
        BY ZenonT(120), <2>1, <3>1, <3>2
      <3>3. CASE WorksFor(r)'
        <4>1. Reconcile(r) /\ pass.docs[r] = spec[r]
          BY ZenonT(120), <1>0, <3>1, <3>3, WorksStep
        <4> QED BY ZenonT(120), <1>1, <4>1, TakesFleet
      <3> QED BY ZenonT(120), <3>2, <3>3
    <2>5. ASSUME NEW q \in Rollouts, SpecChanges(q) PROVE FleetAt(r)'
      <3>1. CASE q = r
        BY ZenonT(120), <2>5, <3>1, ChangesFleet
      <3>2. CASE q # r
        <4>1. spec'[r] = spec[r] /\ UNCHANGED <<status, pass>>
          BY ZenonT(120), <1>0, <2>5, <3>2, ChangesSay
        <4>2. WorksFor(r)' => WorksFor(r)
          BY ZenonT(120), <4>1 DEF WorksFor
        <4> QED BY ZenonT(120), <2>1, <4>1, <4>2
      <3> QED BY ZenonT(120), <3>1, <3>2
    <2> QED BY ZenonT(120), <1>0, <1>3, <2>2, <2>3, <2>4, <2>5, Kinds
  <1> QED BY ZenonT(120), <1>2, <1>3

\* At first nothing is in flight.
LEMMA FleetInit ==
  ASSUME RolloutInit
  PROVE  EntriesAreSteady /\ JobsAreSeen /\ FleetInv
  <1>1. /\ RolloutInv /\ pass.at = "next" /\ DOMAIN jobs = {}
        /\ \A r \in Rollouts, n \in Nodes : status[r].nodes[n] = NoEntry
    <2>1. jobs = << >> => DOMAIN jobs = {}
      BY SMTT(120), SMT
    <2> QED BY ZenonT(120), <2>1, InvInit, IdleTypes DEF RolloutInit, SwitchInit
  <1>2. NoEntry.phase \notin InFlight /\ \A r : ~WorksFor(r)
    BY ZenonT(120), <1>1 DEF NoEntry, InFlight, WorksFor
  <1>3. EntriesAreSteady /\ JobsAreSeen
    BY ZenonT(120), <1>1, <1>2 DEF EntriesAreSteady, JobsAreSeen
  <1>4. ASSUME NEW r \in Rollouts PROVE FleetAt(r)
    <2>1. spec[r] \in Doc /\ \A n \in Nodes : /\ EntryOK(status[r].nodes[n])
                                             /\ status[r].nodes[n].generation <= spec[r].gen
      BY ZenonT(120), <1>1, TypesAre DEF RolloutInv, SpecsOK, StatusOK, GenerationsAreSeen
    <2>2. PICK P : P = ComingPhases(r)
      BY ZenonT(120)
    <2>3. ASSUME NEW n \in Nodes PROVE P[n] \notin InFlight
      <3>1. P[n] = PlanOf(status[r].nodes[n], spec[r], n).phase
        BY ZenonT(120), <2>2 DEF ComingPhases, Coming
      <3>2. PICK e : e = status[r].nodes[n]
        BY ZenonT(120)
      <3>3. PICK doc : doc = spec[r]
        BY ZenonT(120)
      <3>4. e.phase \notin InFlight
        BY ZenonT(120), <1>1, <1>2, <3>2
      <3> QED BY ZenonT(120), <2>1, <3>1, <3>2, <3>3, <3>4, IdlePlan
    <2>4. \A a : Live(r, a) = {}
      BY ZenonT(120), <1>1 DEF Live
    <2>5. Within(P, Nodes, {}, {}, {})
      BY ZenonT(120), <2>3, PassWithin
    <2> QED BY ZenonT(120), <1>2, <2>2, <2>4, <2>5 DEF FleetAt
  <1> QED BY ZenonT(120), <1>3, <1>4 DEF FleetInv

\* A node with a live switch or boot Job is one of those that count.
LEMMA FleetIsBounded ==
  ASSUME FleetInv PROVE UnavailableBounded
  <1> SUFFICES ASSUME NEW r \in Rollouts PROVE Cardinality(LiveNodes(r)) <= MaxUnavailable
    BY ZenonT(120) DEF UnavailableBounded
  <1>s. PICK sw : sw = Live(r, "switch")
    BY ZenonT(120)
  <1>b. PICK bo : bo = Live(r, "boot")
    BY ZenonT(120)
  <1>d. PICK di : di = Live(r, "disarm")
    BY ZenonT(120)
  <1>p. PICK P : P = ComingPhases(r)
    BY ZenonT(120)
  <1>1. Within(P, Nodes, sw, bo, di)
    BY ZenonT(120), <1>s, <1>b, <1>d, <1>p DEF FleetInv, FleetAt
  <1>2. LiveNodes(r) \subseteq sw \cup bo /\ sw \subseteq Nodes /\ bo \subseteq Nodes
    BY ZenonT(120), <1>s, <1>b DEF LiveNodes, Live
  <1>3. ASSUME NEW n \in sw PROVE n \in Reserved(P, Nodes, sw, bo, di)
    <2>1. n \in Nodes /\ n <= n
      BY SMTT(120), <1>2, <1>3, SwitchAssumption
    <2>2. CASE P[n] = "Pending"
      BY ZenonT(120), <1>3, <2>1, <2>2 DEF Reserved, Queued
    <2>3. CASE P[n] = "Switching"
      BY ZenonT(120), <2>1, <2>3 DEF Reserved, Busy, InFlight
    <2> QED BY ZenonT(120), <1>1, <1>3, <2>2, <2>3 DEF Within, Fits
  <1>4. ASSUME NEW n \in bo PROVE n \in Reserved(P, Nodes, sw, bo, di)
    <2>1. n \in Nodes
      BY ZenonT(120), <1>2, <1>4
    <2>2. CASE P[n] = "Draining" \/ P[n] = "Booting"
      BY ZenonT(120), <2>1, <2>2 DEF Reserved, Busy, InFlight
    <2>3. CASE P[n] = "DrainFailed"
      BY ZenonT(120), <1>4, <2>1, <2>3 DEF Reserved, Busy
    <2> QED BY ZenonT(120), <1>1, <1>4, <2>2, <2>3 DEF Within, Fits
  <1>5. LiveNodes(r) \subseteq Reserved(P, Nodes, sw, bo, di)
    BY ZenonT(120), <1>2, <1>3, <1>4
  <1>6. Reserved(P, Nodes, sw, bo, di) \subseteq Nodes
    BY ZenonT(120) DEF Reserved, Busy, Queued
  <1>7. PICK S : S = LiveNodes(r)
    BY ZenonT(120)
  <1> QED BY ZenonT(120), <1>1, <1>5, <1>6, <1>7, FewerReserved DEF Within

\* While no node is selected by two rollouts, the specs give systems that are
\* built already, and no spec changes while nodes are in flight for it, no more
\* than maxUnavailable nodes of a generation have a live switch or boot Job:
\* whatever crashes and failed calls come between a Job and the status, and
\* whichever Jobs expire (startable, start_switch, and the order it starts in).
THEOREM UnavailableIsBounded ==
  RolloutSpec /\ []NoConflict /\ []Prebuilt /\ []NoStaleFlight => []UnavailableBounded
  <1> DEFINE Inv == RolloutInv /\ NoConflictListed /\ EntriesAreSteady /\ JobsAreSeen /\ FleetInv
  <1>1. RolloutInit => Inv
    BY ZenonT(120), InvInit, FleetInit, IdleTypes DEF RolloutInit, NoConflictListed
  <1>2. Inv /\ NoConflict /\ Prebuilt /\ NoStaleFlight /\ NoStaleFlight' /\ [RolloutNext]_rolloutVars => Inv'
    <2> SUFFICES ASSUME Inv, NoConflict, Prebuilt, NoStaleFlight, NoStaleFlight', [RolloutNext]_rolloutVars
                 PROVE  Inv'
      BY ZenonT(120)
    <2>1. RolloutInv' /\ Types
      BY ZenonT(120), InvStep DEF RolloutInv
    <2>2. NoConflictListed'
      BY ZenonT(120), <2>1, ListedStep
    <2>3. EntriesAreSteady' /\ JobsAreSeen'
      BY ZenonT(120), SteadyStep, JobsSeenStep
    <2>4. FleetInv'
      BY ZenonT(120), <2>1, FleetStep
    <2> QED BY ZenonT(120), <2>1, <2>2, <2>3, <2>4
  <1>3. Inv => UnavailableBounded
    BY ZenonT(120), FleetIsBounded
  <1> HIDE DEF Inv
  <1> QED BY <1>1, <1>2, <1>3, PTL DEF RolloutSpec
=============================================================================
