--------------------------- MODULE EnvironmentFabric ---------------------------
(***************************************************************************)
(* EnvironmentFabric over its InMemoryFabricResources (fabric/runtime.py): *)
(* provisioning behind the capability check, composite operations in the   *)
(* order of the resources, and release with retry.  Which resources are    *)
(* REQUIRED, which operations each one fails and how faithfully it         *)
(* restores is fixed when the Fabric is built, and left open here.         *)
(*                                                                         *)
(* A composite operation can raise in the middle of its loop.  Resources   *)
(* before that point keep what was done to them, and no result is built.   *)
(***************************************************************************)
EXTENDS Integers, FiniteSets

CONSTANTS
    N,              \* the resources are 1..N, in the order of the composition
    Fidelity,       \* restore_fidelity of each resource
    Failures,       \* the sets of operations a resource may be built to fail
    MaxState        \* how often a resource is mutated

ASSUME CountAssumption == N \in Nat \ {0} /\ MaxState \in Nat

Resources == 1..N

VARIABLES
    required,       \* resources whose participation is REQUIRED
    failing,        \* _fail_operations of each resource
    compatible,     \* the required capabilities are there
    provisioned,    \* InMemoryFabricResource._provisioned
    gone,           \* InMemoryFabricResource._released
    states,         \* InMemoryFabricResource._state
    ready,          \* EnvironmentFabric._ready
    released,       \* EnvironmentFabric._released
    last            \* the last FabricOperationResult, or that the call raised

fabricVars == <<required, failing, compatible, provisioned, gone, states, ready,
          released, last>>

fixed == <<required, failing, compatible>>

Operations == {"RESET", "SNAPSHOT", "RESTORE", "RELEASE"}

\* _FIDELITY_RANK: NON_EQUIVALENT, STATE_EQUIVALENT, EXACT.
Ranks == 0..2
NonEquivalent == 0
NoFidelity == 3

ASSUME FidelityAssumption == Fidelity \in [Resources -> Ranks]

ASSUME FailuresAssumption == Failures \subseteq SUBSET Operations

Statuses == {"SUCCEEDED", "FAILED", "NOT_PARTICIPATING"}

Raised == [operation |-> "RAISED"]

Result == [operation : Operations, status : {"SUCCEEDED", "FAILED"},
           results : [Resources -> Statuses], fidelity : Ranks \cup {NoFidelity}]

FabricInit ==
    /\ required \in SUBSET Resources
    /\ failing \in [Resources -> Failures]
    /\ compatible \in BOOLEAN
    /\ provisioned = [r \in Resources |-> FALSE]
    /\ gone = [r \in Resources |-> FALSE]
    /\ states = [r \in Resources |-> 0]
    /\ ready = FALSE
    /\ released = FALSE
    /\ last = Raised

\* InMemoryFabricResource._assert_usable.
Usable(r) == provisioned[r] /\ ~gone[r]

\* The resources a loop gets to before the first that raises.
Reached(raising) == {r \in Resources : \A q \in raising : r < q}

\* Mutant: the Fabric is ready although a resource refused.
ProvisionReady ==
    /\ ~released
    /\ compatible
    /\ LET stale == {r \in Resources : gone[r]}
       IN  provisioned' = [r \in Resources |-> provisioned[r] \/ r \in Reached(stale)]
    /\ ready' = TRUE
    /\ UNCHANGED <<fixed, gone, states, released, last>>

\* provision: every resource, unless the capabilities are missing; a resource
\* that was released raises, and the Fabric does not become ready.
ProvisionFabric ==
    /\ ~released
    /\ compatible
    /\ LET stale == {r \in Resources : gone[r]}
       IN  /\ provisioned' = [r \in Resources |-> provisioned[r] \/ r \in Reached(stale)]
           /\ ready' = (ready \/ stale = {})
    /\ UNCHANGED <<fixed, gone, states, released, last>>

\* InMemoryFabricResource.mutate, the Subject's way to a resource.
Mutate(r) ==
    /\ Usable(r)
    /\ states[r] < MaxState
    /\ states' = [states EXCEPT ![r] = @ + 1]
    /\ UNCHANGED <<fixed, provisioned, gone, ready, released, last>>

\* What a resource answers to an operation that it takes part in: one that is
\* gone is released again without an effect, the rest fail as they were built.
StatusOf(operation, r) ==
    IF operation \in failing[r] /\ ~(operation = "RELEASE" /\ gone[r])
    THEN "FAILED" ELSE "SUCCEEDED"

\* Mutant: the aggregate fails only when every required resource does.
AggregateOfAll(results) ==
    IF required # {} /\ \A r \in required : results[r] # "SUCCEEDED"
    THEN "FAILED" ELSE "SUCCEEDED"

\* A result fails with any REQUIRED resource.
Aggregate(results) ==
    IF \E r \in required : results[r] # "SUCCEEDED" THEN "FAILED" ELSE "SUCCEEDED"

\* Mutant: the best of the required fidelities.
BestFidelity(status) ==
    IF status = "FAILED" THEN NonEquivalent
    ELSE CHOOSE f \in Ranks :
             /\ \E r \in required : Fidelity[r] = f
             /\ \A r \in required : f >= Fidelity[r]

\* The weakest of the required fidelities, NON_EQUIVALENT if a restore failed.
RestoreFidelity(status) ==
    IF status = "FAILED" THEN NonEquivalent
    ELSE CHOOSE f \in Ranks :
             /\ \E r \in required : Fidelity[r] = f
             /\ \A r \in required : f <= Fidelity[r]

\* What an operation leaves behind in the resources that perform it.
Perform(operation, performed) ==
    /\ states' = [r \in Resources |->
           IF operation = "RESET" /\ r \in performed THEN 0 ELSE states[r]]
    /\ gone' = [r \in Resources |->
           gone[r] \/ (operation = "RELEASE" /\ r \in performed)]
    /\ provisioned' = [r \in Resources |->
           provisioned[r] /\ ~(operation = "RELEASE" /\ r \in performed)]

\* execute_composite.  It raises at a required resource that is to be left out
\* and at a resource that is not usable, in the order of the composition, and
\* after the loop for a restore with nothing required.
Composite(operation, omitted) ==
    /\ ready /\ ~released
    /\ LET raising == {r \in Resources :
                          \/ r \in omitted \cap required
                          \/ r \notin omitted /\ operation # "RELEASE" /\ ~Usable(r)}
           results == [r \in Resources |->
                          IF r \in omitted THEN "NOT_PARTICIPATING"
                          ELSE StatusOf(operation, r)]
           status  == Aggregate(results)
       IN  /\ Perform(operation, {r \in Reached(raising) : results[r] = "SUCCEEDED"})
           /\ last' = IF raising # {} \/ (operation = "RESTORE" /\ required = {})
                      THEN Raised
                      ELSE [operation |-> operation, status |-> status,
                            results |-> results,
                            fidelity |-> IF operation = "RESTORE"
                                         THEN RestoreFidelity(status) ELSE NoFidelity]
    /\ UNCHANGED <<fixed, ready, released>>

\* release.  It asks for no provisioning; a failed one leaves the Fabric as it
\* is, and after a successful one every resource is reported as released.
ReleaseFabric ==
    LET results == [r \in Resources |->
                       IF released THEN "SUCCEEDED" ELSE StatusOf("RELEASE", r)]
        status  == Aggregate(results)
    IN  /\ Perform("RELEASE", {r \in Resources : ~released /\ results[r] = "SUCCEEDED"})
        /\ last' = [operation |-> "RELEASE", status |-> status, results |-> results,
                    fidelity |-> NoFidelity]
        /\ released' = (status = "SUCCEEDED")
        /\ ready' = (ready /\ status = "FAILED")
        /\ UNCHANGED fixed

FabricNext ==
    \/ ProvisionFabric
    \/ \E r \in Resources : Mutate(r)
    \/ \E operation \in Operations, omitted \in SUBSET Resources :
           Composite(operation, omitted)
    \/ ReleaseFabric

FabricSpec == FabricInit /\ [][FabricNext]_fabricVars

-----------------------------------------------------------------------------
\* The type invariant (fabric/runtime.py, the fields of the two classes).
FabricTypeOK ==
    /\ required \subseteq Resources
    /\ failing \in [Resources -> SUBSET Operations]
    /\ compatible \in BOOLEAN
    /\ provisioned \in [Resources -> BOOLEAN]
    /\ gone \in [Resources -> BOOLEAN]
    /\ states \in [Resources -> 0..MaxState]
    /\ ready \in BOOLEAN
    /\ released \in BOOLEAN
    /\ last \in Result \cup {Raised}

\* A Fabric that reports itself released has released every required resource,
\* through however many failed and partial attempts (release, execute_composite
\* of RELEASE) it got there; what is left over is optional and cannot be freed.
LeftoversAreOptional ==
    released => \A r \in Resources :
        ~gone[r] => r \notin required /\ "RELEASE" \in failing[r]

\* A Fabric is ready only when the loop of provision went past every resource,
\* also when an early release had already taken some of them away: none is
\* still to be provisioned.
ReadyIsProvisioned ==
    ready => \A r \in Resources : provisioned[r] \/ gone[r]

\* The result of execute_composite and release is honest: no aggregate success
\* over a required resource that failed or that a RELEASE left behind, and no
\* stronger fidelity than that of each required resource.
ResultHonest ==
    (last # Raised /\ last.status = "SUCCEEDED") => \A r \in required :
        /\ last.results[r] = "SUCCEEDED"
        /\ last.operation = "RELEASE" => gone[r]
        /\ last.operation = "RESTORE" => last.fidelity <= Fidelity[r]

\* Neither a retry of release nor any other call brings a released resource
\* back: it is not provisioned and its content stays (_assert_live_reference).
NoResurrection ==
    [][\A r \in Resources : gone[r] =>
           gone'[r] /\ ~provisioned'[r] /\ states'[r] = states[r]]_fabricVars

=============================================================================
