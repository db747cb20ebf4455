------------------------ MODULE MCRelationalResource ------------------------
(***************************************************************************)
(* The two relational backends for TLC, each by itself, over two relations *)
(* of one row key.                                                         *)
(*                                                                         *)
(* In memory, mutations are cut at MaxMutations, and there is one snapshot *)
(* or one reason to refuse at a time.  SettledStore is checked over the    *)
(* same bounded identifiers.                                               *)
(*                                                                         *)
(* In the database there are two held labels, or one beside a snapshot; a  *)
(* drift or a snapshot; a write puts v1 or nothing at a key, and one of    *)
(* both relations comes to r1 first; what is held differs from the         *)
(* baseline; and nothing follows a slip, after which no property speaks.   *)
(***************************************************************************)
EXTENDS RelationalResource, PostgreSQLResource, FiniteSets

CONSTANTS r1, r2, k1, v1, v2, MaxMutations

VARIABLE backend        \* which of the two is run

MCBaseline == [relation \in {r1, r2} |-> [key \in {k1} |-> v1]]
MCForeign == [relation \in {r1, r2} |-> [key \in {k1} |->
                 IF relation = r1 THEN v2 ELSE v1]]

Refusals == {reason \in {"released", "unbound", "otherInputs"} :
                CASE reason = "released" -> released
                  [] reason = "unbound" -> ~bound
                  [] reason = "otherInputs" -> ~sameInputs}

BoundedNext ==
    /\ Next
    /\ Len(pending') <= MaxMutations
    /\ Cardinality(Refusals') + Len(snapshots') <= 1

BoundedDatabaseNext ==
    /\ slips = {}
    /\ DatabaseNext
    /\ Cardinality(labels') + Cardinality(images') <= 2
    /\ \A x \in Transactions : r1 \in txs'[x].left => r2 \notin txs'[x].on
    /\ \A label \in Labels : txs'[label].active => txs'[label].image # Baseline
    /\ Cardinality(drifted') + Cardinality(images') <= 1
    /\ \A x \in Transactions, relation \in Relations, key \in Keys :
          txs'[x].image[relation][key] # v2

BackendsInit ==
    /\ backend \in {"memory", "postgresql"}
    /\ Init
    /\ Provisioned

BackendsNext ==
    \/ /\ backend = "memory"
       /\ BoundedNext
       /\ UNCHANGED <<backend, databaseVars>>
    \/ /\ backend = "postgresql"
       /\ BoundedDatabaseNext
       /\ UNCHANGED <<backend, vars>>

BackendsSpec == BackendsInit /\ [][BackendsNext]_<<backend, vars, databaseVars>>

=============================================================================
