----------------------------- MODULE SettledStore -----------------------------
(***************************************************************************)
(* What a relational resource promises to the evaluator, whatever its      *)
(* backend (relational.py, tck_adapter/relational_harness.py): a Subject's *)
(* mutation is accepted while admission is open, and has one outcome: it   *)
(* is committed, exactly as accepted, or rolled back.  A final projection  *)
(* shows the store when admission is closed and no outcome is open.  Only  *)
(* the evaluator can then still move the store, and only back to a state   *)
(* it has captured.                                                        *)
(***************************************************************************)
CONSTANTS
    Relations,      \* relation identifiers of the Manifest
    Tables,         \* what one relation can contain
    Ids,            \* names of accepted mutations
    Unobserved      \* no final projection has been taken

VARIABLES
    store,          \* what is committed
    open,           \* accepted mutations without an outcome
    admitting,      \* new mutations are accepted
    captured,       \* states the evaluator can go back to
    final           \* the last final projection

storeVars == <<store, open, admitting, captured, final>>

Stores == [Relations -> Tables]

Accepted == [id : Ids, relation : Relations, table : Tables]

StoreInit ==
    /\ store \in Stores
    /\ open = {}
    /\ admitting = TRUE
    /\ captured = {store}
    /\ final = Unobserved

Accept(m) ==
    /\ admitting
    /\ m \in Accepted
    /\ open' = open \cup {m}
    /\ UNCHANGED <<store, admitting, captured, final>>

\* Accepted and committed in one call, over one relation or several.
Write ==
    /\ admitting
    /\ store' \in Stores
    /\ UNCHANGED <<open, admitting, captured, final>>

Commit(m) ==
    /\ m \in open
    /\ open' = open \ {m}
    /\ store' = [store EXCEPT ![m.relation] = m.table]
    /\ UNCHANGED <<admitting, captured, final>>

RollBack(m) ==
    /\ m \in open
    /\ open' = open \ {m}
    /\ UNCHANGED <<store, admitting, captured, final>>

Close ==
    /\ admitting' = FALSE
    /\ UNCHANGED <<store, open, captured, final>>

Observe ==
    /\ ~admitting
    /\ open = {}
    /\ final' = store
    /\ UNCHANGED <<store, open, admitting, captured>>

Capture ==
    /\ captured' = captured \cup {store}
    /\ UNCHANGED <<store, open, admitting, final>>

Reestablish ==
    /\ store' \in captured
    /\ UNCHANGED <<open, admitting, captured, final>>

StoreNext ==
    \/ \E m \in open' \ open : Accept(m)
    \/ \E m \in open : Commit(m) \/ RollBack(m)
    \/ Write
    \/ Reestablish
    \/ Close
    \/ Observe
    \/ Capture

StoreSpec == StoreInit /\ [][StoreNext]_storeVars

=============================================================================
