----------------------------- MODULE MCHostBinding -----------------------------
(***************************************************************************)
(* HostBinding for TLC: a pool of three threads.  Threads are alike, so    *)
(* they are symmetric.                                                     *)
(***************************************************************************)
EXTENDS HostBinding, TLC

Symmetry == Permutations(Threads)

\* The bound: once it has repeated a request, the client waits for its answers.
Asks(t, op) == repeated = {} /\ Receive(t, op)

BoundedNext ==
    \E t \in Threads :
        \/ \E op \in Operations : Asks(t, op)
        \/ Handle(t)

BoundedSpec == Init /\ [][BoundedNext]_vars

=============================================================================
