------------------------------ MODULE MCEvaluation ------------------------------
(***************************************************************************)
(* Evaluation for TLC: one verification of two contents, and another       *)
(* publisher that puts either of them.  The store is used when the runner  *)
(* has ended: verify leaves it alone before, and what others do to it then *)
(* commutes with the runner's steps.  Others use it, and damage it, when   *)
(* the evaluation has succeeded: then verify puts both of its contents.    *)
(* A verification that was lost in the runner is not followed any more.    *)
(***************************************************************************)
EXTENDS Evaluation

CONSTANTS e1, record, evidence, h1, h2

MCRecordOf == [e \in {e1} |-> record]
MCEvidenceOf == [e \in {e1} |-> evidence]
MCHomeOf == [c \in {record, evidence} |-> IF c = record THEN h1 ELSE h2]

StoreWaits ==
    (\E e \in Evaluations : runner[e] \notin {"returned", "raised"})
        => UNCHANGED artifactVars

OthersWait ==
    (\E e \in Evaluations : status[e] # "SUCCESS") =>
        /\ \A p \in Publishers \ Evaluations : step'[p] = step[p]
        /\ \A c \in Contents : objects[c] = "intact" => objects'[c] # "damaged"

LostRest ==
    (\E e \in Evaluations : runner[e] = "lost") => UNCHANGED runnerVars

BoundedSpec == Init /\ [][Next /\ StoreWaits /\ OthersWait /\ LostRest]_vars /\ Fairness

=============================================================================
