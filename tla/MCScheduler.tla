---------------------------- MODULE MCScheduler -----------------------------
(* Instances of Scheduler for TLC.                                         *)
EXTENDS Scheduler, TLC

CONSTANTS r1, r2, k1, k2, local, s1, s2

\* Every store can build every key.
EverySupport == Key \X Store

\* One build at a time on each store.
OneSlot == [s \in Store |-> 1]

\* Two builds at a time on the local store, one on each other.
TwoLocalSlots == [s \in Store |-> IF s = LocalStore THEN 2 ELSE 1]

\* No client sends max-jobs; every client sends -j1.
NoJobsLimit == [r \in Request |-> None]

OneJob == [r \in Request |-> 1]
=============================================================================
