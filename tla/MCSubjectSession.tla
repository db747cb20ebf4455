--------------------------- MODULE MCSubjectSession ---------------------------
(***************************************************************************)
(* Two Episodes that were given one gateway, the first with two steps.     *)
(* The server moves between a contract of two pages, one in which both     *)
(* tools have changed pages and the called one its schema, and one whose   *)
(* second page is full and leads to itself; a listing may find pages of    *)
(* two of them.  It moves when a call is about to begin or a listing is    *)
(* under way: at any other time nobody looks.  The second Episode is       *)
(* provisioned when the first has had its first call answered, and meets   *)
(* it in the second one.  A call that was refused or raised leaves the     *)
(* Episode before anybody else goes on, which nobody can tell.             *)
(***************************************************************************)
EXTENDS SubjectSession

CONSTANTS t, u, s1, s2, e1, e2

MCMaxSteps == [e \in {e1, e2} |-> IF e = e1 THEN 2 ELSE 1]

P(tools, next) == [tools |-> tools, next |-> next]

MCContracts ==
    {<<P(<<<<t, s1>>>>, 2), P(<<<<u, s1>>>>, 0)>>,
     <<P(<<<<u, s1>>>>, 2), P(<<<<t, s2>>>>, 0)>>,
     <<P(<<>>, 2), P(<<<<t, s1>>, <<u, s1>>>>, 2)>>}

DriftIsSeen ==
    contract' # contract => \E e \in Episodes : pc[e] \in {"asked", "listing"}

FirstIsServed ==
    pc[e2] = "new" /\ pc'[e2] # "new" => results[e1] # {} \/ pc[e1] = "over"

FailureEndsAtOnce ==
    \A e \in Episodes : pc[e] \in {"refused", "raised"} => pc'[e] = "over"

BoundedSpec ==
    Init /\ [][Next /\ DriftIsSeen /\ FirstIsServed /\ FailureEndsAtOnce]_vars /\ Fairness

=============================================================================
