------------------------------ MODULE MCComponents ------------------------------
(***************************************************************************)
(* The Episode object, the environment's sessions and the Fabric for TLC,  *)
(* each by itself: the others stay as they were made.                      *)
(*                                                                         *)
(* A PAUSED Episode can resume and pause for ever, so its history is cut   *)
(* at MaxRecords; six already cover every path without a pause.  Of two    *)
(* sessions of one adapter, MaxFaults rules and MaxSnapshots are there at  *)
(* a time in both together, and no clock goes beyond MaxTime.  The Fabric  *)
(* has one resource of each restore fidelity, the exact one first, and     *)
(* each fails one operation or none.                                       *)
(***************************************************************************)
EXTENDS EpisodeLifecycle, EnvironmentSession, EnvironmentFabric, TLC

CONSTANTS h1, h2, t, u, MaxRecords, MaxFaults, MaxSnapshots, MaxTime

VARIABLE component      \* which of the three is run

MCFailures == {{}} \cup {{operation} : operation \in Operations}
MCFidelity == [r \in Resources |-> 3 - r]

Symmetry == Permutations({h1, h2}) \union Permutations({t, u})

WithinBounds ==
    /\ Len(faults[h1]) + Len(faults[h2]) <= MaxFaults
    /\ Cardinality(refs) <= MaxSnapshots
    /\ Len(snapshots[h1]) + Len(snapshots[h2]) <= MaxSnapshots
    /\ \A h \in Handles : world[h].time <= MaxTime
    /\ \A h \in Handles : \A i \in DOMAIN faults[h] : faults[h][i].since <= MaxTime + 1

ComponentsInit ==
    /\ component \in {"episode", "sessions", "fabric"}
    /\ Init /\ SessionInit /\ FabricInit
    /\ component # "fabric" =>
           required = {} /\ compatible /\ \A r \in Resources : failing[r] = {}

ComponentsNext ==
    \/ /\ component = "episode"
       /\ Next
       /\ Len(records') <= MaxRecords
       /\ UNCHANGED <<component, vars, fabricVars>>
    \/ /\ component = "sessions"
       /\ SessionNext
       /\ WithinBounds'
       /\ UNCHANGED <<component, lifecycleVars, fabricVars>>
    \/ /\ component = "fabric"
       /\ FabricNext
       /\ UNCHANGED <<component, lifecycleVars, vars>>

ComponentsSpec ==
    ComponentsInit /\ [][ComponentsNext]_<<component, lifecycleVars, vars, fabricVars>>

=============================================================================
