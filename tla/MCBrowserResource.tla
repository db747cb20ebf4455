-------------------------- MODULE MCBrowserResource --------------------------
(***************************************************************************)
(* BrowserResource for TLC: one key, so two cookies that the provider      *)
(* cannot tell apart, and one origin.  One thing at a time is out of       *)
(* order: a condition that keeps the observer from accepting, a            *)
(* partitioned cookie, or a record that has lost its cookie.  MaxSnapshots *)
(* are taken, and a released resource is not followed any more.            *)
(***************************************************************************)
EXTENDS BrowserResource, FiniteSets

CONSTANTS k1, v1, v2, lossy, o1, i1, MaxSnapshots

MCBaselineCookies == [c \in {k1} \X BOOLEAN |-> IF c = <<k1, TRUE>> THEN v1 ELSE None]
MCBaselineStorage == [o \in {o1} |-> i1]

Bounded ==
    /\ Len(snapshots) <= MaxSnapshots
    /\ Cardinality(conditions) + Cardinality(partitioned) + Cardinality(strayed) <= 1

BoundedSpec == Init /\ [][phase # "released" /\ Next /\ Bounded']_vars

=============================================================================
