---------------------------- MODULE SharedImport ----------------------------
(***************************************************************************)
(* What SubstitutionQueue.substitute promises its callers (pynixd,          *)
(* substitution_queue.py): of one path and one list of substituters there   *)
(* is at most one import, everyone who asks while it runs gets its one      *)
(* answer, an import never takes a store the caller did not name, success   *)
(* means the path is in the local store, and who leaves ends nobody else's  *)
(* wait.                                                                    *)
(***************************************************************************)
CONSTANTS
    Callers,
    Paths,
    Stores,
    Sets,     \* the lists of substituters a caller may name
    None

Key == [path : Paths, set : Sets]
Outcome == {"ok", "none", "failed", "gone", "closed"}

VARIABLES
    caller,  \* what each caller knows: its state, its key and its answer
    active,  \* the keys with an import under way
    valid    \* the paths of the local store

importVars == <<caller, active, valid>>

Waits(c, k) == caller[c].at = "waiting" /\ caller[c].key = k

Knows(at, k, what, from) == [at |-> at, key |-> k, what |-> what, from |-> from]
Answered(c, what, from) == Knows("answered", caller[c].key, what, from)

ImportInit ==
    /\ caller = [c \in Callers |-> Knows("idle", None, None, None)]
    /\ active = {}
    /\ valid = {}

\* A caller joins the import of its key, or starts one.
Asks(c, k) ==
    /\ caller[c].at = "idle"
    /\ caller' = [caller EXCEPT ![c] = Knows("waiting", k, None, None)]
    /\ active' = active \cup {k}
    /\ UNCHANGED valid

\* The queue has closed.
Refuses(c, k) ==
    /\ caller[c].at = "idle"
    /\ caller' = [caller EXCEPT ![c] = Knows("answered", k, "closed", None)]
    /\ UNCHANGED <<active, valid>>

\* An import answers everyone who waits for it, and nobody else.
Ends(k, what, from) ==
    /\ k \in active
    /\ active' = active \ {k}
    /\ caller' = [c \in Callers |-> IF Waits(c, k) THEN Answered(c, what, from) ELSE caller[c]]
    /\ IF what = "ok" THEN from \in k.set /\ valid' = valid \cup {k.path} ELSE UNCHANGED valid

\* Every import under way ends with the queue.
Closes ==
    /\ active' = {}
    /\ caller' = [c \in Callers |-> IF caller[c].at = "waiting"
                                    THEN Answered(c, "closed", None) ELSE caller[c]]
    /\ UNCHANGED valid

\* A caller is cancelled; an answer it has not read is lost to it alone.
Leaves(c) ==
    /\ caller[c].at \in {"waiting", "answered"}
    /\ caller' = [caller EXCEPT ![c] = Knows("left", @.key, None, None)]
    /\ UNCHANGED <<active, valid>>

ImportNext ==
    \/ \E c \in Callers, k \in Key : Asks(c, k) \/ Refuses(c, k)
    \/ \E k \in Key, what \in Outcome, from \in Stores \cup {None} : Ends(k, what, from)
    \/ Closes
    \/ \E c \in Callers : Leaves(c)

ImportSpec == ImportInit /\ [][ImportNext]_importVars
=============================================================================
