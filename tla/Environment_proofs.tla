-------------------------- MODULE Environment_proofs --------------------------
(***************************************************************************)
(* Proofs for the environments: EnvironmentFabric, for every number of     *)
(* resources, fidelity and set of failures, and EnvironmentSession, for    *)
(* every set of handles, tools, contents and occurrences.                  *)
(*                                                                         *)
(* The Fabric first.  Every operation reaches the resources through        *)
(* Perform and the result through Aggregate and RestoreFidelity, so the    *)
(* invariant is proved from one lemma about each of them.                  *)
(***************************************************************************)
EXTENDS EnvironmentFabric, EnvironmentSession, TLAPS

\* A released resource is not provisioned (InMemoryFabricResource.release).
GoneIsUnprovisioned == \A r \in Resources : gone[r] => ~provisioned[r]

\* The inductive invariant.
IInv ==
    /\ FabricTypeOK
    /\ LeftoversAreOptional
    /\ ReadyIsProvisioned
    /\ ResultHonest
    /\ GoneIsUnprovisioned

\* The aggregate of a composite operation is a status, and it is SUCCEEDED
\* only when every required resource succeeded.
LEMMA AggregateHonest ==
    ASSUME NEW results
    PROVE  /\ Aggregate(results) \in {"SUCCEEDED", "FAILED"}
           /\ Aggregate(results) = "SUCCEEDED" <=>
                  \A r \in required : results[r] = "SUCCEEDED"
  BY DEF Aggregate

\* The fidelity of a restore is a rank, not above that of any required
\* resource unless the restore failed.
LEMMA FidelityHonest ==
    ASSUME required \subseteq Resources, required # {}, NEW outcome
    PROVE  /\ RestoreFidelity(outcome) \in Ranks
           /\ outcome # "FAILED" =>
                  \A r \in required : RestoreFidelity(outcome) <= Fidelity[r]
<1> DEFINE Least(f) == /\ \E r \in required : Fidelity[r] = f
                       /\ \A r \in required : f <= Fidelity[r]
<1>1. \A r \in required : Fidelity[r] \in {0, 1, 2}
  BY FidelityAssumption DEF Ranks
<1>2. \E f \in Ranks : Least(f)
  <2>1. CASE \E r \in required : Fidelity[r] = 0
    <3>1. Least(0)
      BY <1>1, <2>1
    <3> QED
      BY <3>1 DEF Ranks
  <2>2. CASE ~(\E r \in required : Fidelity[r] = 0) /\ \E r \in required : Fidelity[r] = 1
    <3>1. Least(1)
      BY <1>1, <2>2
    <3> QED
      BY <3>1 DEF Ranks
  <2>3. CASE \A r \in required : Fidelity[r] = 2
    <3>1. Least(2)
      BY <1>1, <2>3
    <3> QED
      BY <3>1 DEF Ranks
  <2> QED
    BY <1>1, <2>1, <2>2, <2>3
<1>3. /\ (CHOOSE f \in Ranks : Least(f)) \in Ranks
      /\ Least(CHOOSE f \in Ranks : Least(f))
  BY <1>2
<1>4. CASE outcome = "FAILED"
  BY <1>4 DEF RestoreFidelity, Ranks, NonEquivalent
<1>5. CASE outcome # "FAILED"
  <2>1. RestoreFidelity(outcome) = CHOOSE f \in Ranks : Least(f)
    BY <1>5 DEF RestoreFidelity
  <2> QED
    BY <1>3, <2>1
<1> QED
  BY <1>4, <1>5

\* What an operation leaves in the resources keeps their types, keeps the
\* released ones released and unprovisioned, and does not touch those.
LEMMA PerformKeeps ==
    ASSUME FabricTypeOK, GoneIsUnprovisioned, NEW operation, NEW performed,
           Perform(operation, performed),
           operation # "RELEASE" => \A r \in performed : ~gone[r]
    PROVE  /\ states' \in [Resources -> 0..MaxState]
           /\ gone' \in [Resources -> BOOLEAN]
           /\ provisioned' \in [Resources -> BOOLEAN]
           /\ GoneIsUnprovisioned'
           /\ \A r \in Resources : gone'[r] <=>
                  gone[r] \/ (operation = "RELEASE" /\ r \in performed)
           /\ \A r \in Resources : provisioned'[r] <=>
                  provisioned[r] /\ ~(operation = "RELEASE" /\ r \in performed)
           /\ \A r \in Resources : gone[r] => states'[r] = states[r]
<1>1. 0 \in 0..MaxState
  BY CountAssumption
<1>2. states' \in [Resources -> 0..MaxState]
  BY <1>1 DEF FabricTypeOK, Perform
<1>3. /\ gone' \in [Resources -> BOOLEAN]
      /\ provisioned' \in [Resources -> BOOLEAN]
  BY DEF FabricTypeOK, Perform
<1>4. \A r \in Resources : gone'[r] <=>
          gone[r] \/ (operation = "RELEASE" /\ r \in performed)
  BY DEF Perform
<1>5. \A r \in Resources : provisioned'[r] <=>
          provisioned[r] /\ ~(operation = "RELEASE" /\ r \in performed)
  BY DEF Perform
<1>6. \A r \in Resources : gone[r] => states'[r] = states[r]
  BY DEF Perform, FabricTypeOK
<1> QED
  BY <1>2, <1>3, <1>4, <1>5, <1>6 DEF GoneIsUnprovisioned

\* A Fabric as it is constructed.
LEMMA InitHolds == FabricInit => IInv
<1> SUFFICES ASSUME FabricInit PROVE IInv
  OBVIOUS
<1>1. 0 \in 0..MaxState
  BY CountAssumption
<1>2. FabricTypeOK
  BY <1>1, FailuresAssumption DEF FabricInit, FabricTypeOK
<1>3. ResultHonest
  BY DEF FabricInit, ResultHonest
<1> QED
  BY <1>2, <1>3 DEF FabricInit, IInv, LeftoversAreOptional, ReadyIsProvisioned,
     GoneIsUnprovisioned

\* What NoResurrection says of one step.
StaysGone == \A r \in Resources : gone[r] =>
                 gone'[r] /\ ~provisioned'[r] /\ states'[r] = states[r]

\* provision keeps the invariant: the loop stops at a released resource.
LEMMA ProvisionHolds ==
    ASSUME IInv, ProvisionFabric
    PROVE  IInv' /\ StaysGone
<1> DEFINE stale == {r \in Resources : gone[r]}
<1>1. /\ provisioned' = [r \in Resources |-> provisioned[r] \/ r \in Reached(stale)]
      /\ ready' = (ready \/ stale = {})
      /\ UNCHANGED <<fixed, gone, states, released, last>>
  BY DEF ProvisionFabric
<1>2. \A r \in Resources : gone[r] => r \notin Reached(stale)
  <2> SUFFICES ASSUME NEW r \in Resources, gone[r], r \in Reached(stale)
               PROVE  FALSE
    OBVIOUS
  <2>1. r < r
    BY DEF Reached
  <2> QED
    BY <2>1, CountAssumption DEF Resources
<1>3. FabricTypeOK'
  BY <1>1 DEF IInv, FabricTypeOK, fixed
<1>4. GoneIsUnprovisioned' /\ StaysGone
  BY <1>1, <1>2 DEF IInv, GoneIsUnprovisioned, StaysGone
<1>5. LeftoversAreOptional' /\ ResultHonest'
  BY <1>1 DEF IInv, LeftoversAreOptional, ResultHonest, fixed
<1>6. ReadyIsProvisioned'
  <2>1. CASE stale = {}
    BY <1>1, <2>1 DEF ReadyIsProvisioned, Reached
  <2>2. CASE stale # {}
    BY <1>1, <2>2 DEF IInv, ReadyIsProvisioned
  <2> QED
    BY <2>1, <2>2
<1> QED
  BY <1>3, <1>4, <1>5, <1>6 DEF IInv

\* mutate keeps the invariant: it asks for a usable resource.
LEMMA MutateHolds ==
    ASSUME IInv, NEW s \in Resources, Mutate(s)
    PROVE  IInv' /\ StaysGone
<1>1. states' \in [Resources -> 0..MaxState]
  BY CountAssumption DEF IInv, FabricTypeOK, Mutate
<1>2. FabricTypeOK'
  BY <1>1 DEF IInv, FabricTypeOK, Mutate, fixed
<1>3. StaysGone
  BY DEF IInv, FabricTypeOK, Mutate, Usable, StaysGone, GoneIsUnprovisioned
<1> QED
  BY <1>2, <1>3 DEF IInv, Mutate, fixed, LeftoversAreOptional,
     ReadyIsProvisioned, ResultHonest, GoneIsUnprovisioned

\* execute_composite keeps the invariant, also when it raises on the way.
LEMMA CompositeHolds ==
    ASSUME IInv, NEW operation \in Operations, NEW omitted \in SUBSET Resources,
           Composite(operation, omitted)
    PROVE  IInv' /\ StaysGone
<1> DEFINE raising == {r \in Resources :
                          \/ r \in omitted \cap required
                          \/ r \notin omitted /\ operation # "RELEASE" /\ ~Usable(r)}
           results == [r \in Resources |->
                          IF r \in omitted THEN "NOT_PARTICIPATING"
                          ELSE StatusOf(operation, r)]
           outcome == Aggregate(results)
           performed == {r \in Reached(raising) : results[r] = "SUCCEEDED"}
           answer  == [operation |-> operation, status |-> outcome,
                       results |-> results,
                       fidelity |-> IF operation = "RESTORE"
                                    THEN RestoreFidelity(outcome) ELSE NoFidelity]
<1>1. /\ ready /\ ~released
      /\ Perform(operation, performed)
      /\ last' = IF raising # {} \/ (operation = "RESTORE" /\ required = {})
                 THEN Raised ELSE answer
      /\ UNCHANGED <<required, failing, compatible, ready, released>>
  BY DEF Composite, fixed
<1>2. operation # "RELEASE" => \A r \in performed : ~gone[r]
  <2> SUFFICES ASSUME operation # "RELEASE", NEW r \in performed, gone[r]
               PROVE  FALSE
    OBVIOUS
  <2>1. r \in Resources /\ r \in Reached(raising) /\ r \notin omitted
    BY DEF Reached
  <2>2. r \in raising
    BY <2>1 DEF Usable
  <2>3. r < r
    BY <2>1, <2>2 DEF Reached
  <2> QED
    BY <2>1, <2>3 DEF Resources
<1> DEFINE Kept ==
           /\ states' \in [Resources -> 0..MaxState]
           /\ gone' \in [Resources -> BOOLEAN]
           /\ provisioned' \in [Resources -> BOOLEAN]
           /\ GoneIsUnprovisioned'
           /\ \A r \in Resources : gone'[r] <=>
                  gone[r] \/ (operation = "RELEASE" /\ r \in performed)
           /\ \A r \in Resources : provisioned'[r] <=>
                  provisioned[r] /\ ~(operation = "RELEASE" /\ r \in performed)
           /\ \A r \in Resources : gone[r] => states'[r] = states[r]
<1> HIDE DEF performed
<1>3. Kept
  BY <1>1, <1>2, PerformKeeps DEF IInv
<1> USE DEF performed
<1>4. CASE raising # {} \/ (operation = "RESTORE" /\ required = {})
  <2>1. last' = Raised
    BY <1>1, <1>4
  <2> HIDE DEF performed
  <2>2. FabricTypeOK' /\ ResultHonest'
    BY <1>1, <1>3, <2>1 DEF IInv, FabricTypeOK, ResultHonest
  <2> QED
    BY <1>1, <1>3, <2>2 DEF IInv, LeftoversAreOptional, ReadyIsProvisioned, StaysGone,
       GoneIsUnprovisioned
<1>5. CASE raising = {} /\ ~(operation = "RESTORE" /\ required = {})
  <2>1. last' = answer
    BY <1>1, <1>5
  <2>2. Reached(raising) = Resources
    BY <1>5 DEF Reached
  <2>3. results \in [Resources -> Statuses]
    BY DEF StatusOf, Statuses
  <2>4. /\ outcome \in {"SUCCEEDED", "FAILED"}
        /\ outcome = "SUCCEEDED" <=> \A r \in required : results[r] = "SUCCEEDED"
    <3> HIDE DEF results
    <3> QED
      BY AggregateHonest
  <2>5. operation = "RESTORE" =>
            /\ RestoreFidelity(outcome) \in Ranks
            /\ outcome # "FAILED" =>
                  \A r \in required : RestoreFidelity(outcome) <= Fidelity[r]
    <3> HIDE DEF outcome
    <3> QED
      BY <1>5, FidelityHonest DEF IInv, FabricTypeOK
  <2>6. outcome = "SUCCEEDED" /\ operation = "RELEASE" => required \subseteq performed
    <3> HIDE DEF results, outcome
    <3> QED
      BY <2>2, <2>4 DEF IInv, FabricTypeOK
  <2> HIDE DEF performed, results, outcome
  <2>7. last' \in Result
    BY <2>1, <2>3, <2>4, <2>5 DEF Result, NoFidelity
  <2>8. FabricTypeOK'
    BY <1>1, <1>3, <2>7 DEF IInv, FabricTypeOK
  <2>9. ResultHonest'
    <3> SUFFICES ASSUME outcome = "SUCCEEDED", NEW r \in required
                 PROVE  /\ results[r] = "SUCCEEDED"
                        /\ operation = "RELEASE" => gone'[r]
                        /\ operation = "RESTORE" => answer.fidelity <= Fidelity[r]
      BY <1>1, <2>1 DEF ResultHonest
    <3>1. r \in Resources
      BY DEF IInv, FabricTypeOK
    <3> QED
      BY <3>1, <1>3, <2>4, <2>5, <2>6
  <2> QED
    BY <1>1, <1>3, <2>8, <2>9 DEF IInv, LeftoversAreOptional, ReadyIsProvisioned, StaysGone,
       GoneIsUnprovisioned
<1> QED
  BY <1>4, <1>5

\* release keeps the invariant, the first time, in a retry, and after it was done.
LEMMA ReleaseHolds ==
    ASSUME IInv, ReleaseFabric
    PROVE  IInv' /\ StaysGone
<1> DEFINE results == [r \in Resources |->
                          IF released THEN "SUCCEEDED" ELSE StatusOf("RELEASE", r)]
           outcome == Aggregate(results)
           performed == {r \in Resources : ~released /\ results[r] = "SUCCEEDED"}
<1>1. /\ Perform("RELEASE", performed)
      /\ last' = [operation |-> "RELEASE", status |-> outcome, results |-> results,
                  fidelity |-> NoFidelity]
      /\ released' = (outcome = "SUCCEEDED")
      /\ ready' = (ready /\ outcome = "FAILED")
      /\ UNCHANGED <<required, failing, compatible>>
  BY DEF ReleaseFabric, fixed
<1>2. results \in [Resources -> Statuses]
  BY DEF StatusOf, Statuses
<1>3. /\ outcome \in {"SUCCEEDED", "FAILED"}
      /\ outcome = "SUCCEEDED" <=> \A r \in required : results[r] = "SUCCEEDED"
  <2> HIDE DEF results
  <2> QED
    BY AggregateHonest
<1>4. \A r \in Resources : ~released =>
          results[r] = "SUCCEEDED" \/ (~gone[r] /\ "RELEASE" \in failing[r])
  BY DEF StatusOf
<1>5. released => outcome = "SUCCEEDED"
  BY <1>3 DEF IInv, FabricTypeOK
<1>6. \A r \in Resources : ~released /\ results[r] = "SUCCEEDED" => r \in performed
  OBVIOUS
<1> HIDE DEF performed, results, outcome
<1>7. /\ states' \in [Resources -> 0..MaxState]
      /\ gone' \in [Resources -> BOOLEAN]
      /\ provisioned' \in [Resources -> BOOLEAN]
      /\ GoneIsUnprovisioned'
      /\ \A r \in Resources : gone'[r] <=> gone[r] \/ r \in performed
      /\ \A r \in Resources : provisioned'[r] <=> provisioned[r] /\ r \notin performed
      /\ \A r \in Resources : gone[r] => states'[r] = states[r]
  BY <1>1, PerformKeeps DEF IInv
<1>8. FabricTypeOK'
  <2>1. last' \in Result
    BY <1>1, <1>2, <1>3 DEF Result, Operations
  <2> QED
    BY <1>1, <1>3, <1>7, <2>1 DEF IInv, FabricTypeOK
<1>9. LeftoversAreOptional'
  <2> SUFFICES ASSUME outcome = "SUCCEEDED", NEW r \in Resources, ~gone'[r]
               PROVE  r \notin required /\ "RELEASE" \in failing[r]
    BY <1>1 DEF LeftoversAreOptional
  <2>1. CASE released
    BY <1>7, <2>1 DEF IInv, LeftoversAreOptional
  <2>2. CASE ~released
    BY <1>3, <1>4, <1>6, <1>7, <2>2
  <2> QED
    BY <2>1, <2>2
<1>10. ReadyIsProvisioned'
  BY <1>1, <1>7 DEF IInv, ReadyIsProvisioned
<1>11. ResultHonest'
  <2> SUFFICES ASSUME outcome = "SUCCEEDED", NEW r \in required
               PROVE  results[r] = "SUCCEEDED" /\ gone'[r]
    BY <1>1 DEF ResultHonest
  <2>1. r \in Resources
    BY DEF IInv, FabricTypeOK
  <2>2. CASE released
    BY <1>3, <1>7, <2>1, <2>2 DEF IInv, LeftoversAreOptional
  <2>3. CASE ~released
    BY <1>3, <1>6, <1>7, <2>1, <2>3
  <2> QED
    BY <2>2, <2>3
<1>12. StaysGone
  BY <1>7 DEF IInv, GoneIsUnprovisioned, StaysGone
<1> QED
  BY <1>7, <1>8, <1>9, <1>10, <1>11, <1>12 DEF IInv

\* Every step keeps the invariant and leaves what is released alone.
LEMMA StepHolds ==
    ASSUME IInv, [FabricNext]_fabricVars
    PROVE  IInv' /\ StaysGone
<1>1. CASE UNCHANGED fabricVars
  BY <1>1 DEF fabricVars, IInv, FabricTypeOK, LeftoversAreOptional, ReadyIsProvisioned,
     ResultHonest, GoneIsUnprovisioned, StaysGone
<1>2. CASE ProvisionFabric
  BY <1>2, ProvisionHolds
<1>3. CASE \E r \in Resources : Mutate(r)
  BY <1>3, MutateHolds
<1>4. CASE \E operation \in Operations, omitted \in SUBSET Resources :
               Composite(operation, omitted)
  BY <1>4, CompositeHolds
<1>5. CASE ReleaseFabric
  BY <1>5, ReleaseHolds
<1> QED
  BY <1>1, <1>2, <1>3, <1>4, <1>5 DEF FabricNext

\* The invariant holds in every reachable state.
LEMMA Invariance == FabricSpec => []IInv
<1>1. IInv /\ [FabricNext]_fabricVars => IInv'
  BY StepHolds
<1> QED
  BY InitHolds, <1>1, PTL DEF FabricSpec

\* The fields of the Fabric and its resources keep their types, and no result
\* carries a fidelity that was never established (fabric/runtime.py).
THEOREM TypeCorrect == FabricSpec => []FabricTypeOK
<1>1. IInv => FabricTypeOK
  BY DEF IInv
<1> QED
  BY Invariance, <1>1, PTL

\* Whatever failed on the way, a released Fabric has freed all but optional
\* resources whose cleanup fails (EnvironmentFabric.release).
THEOREM LeftoversCorrect == FabricSpec => []LeftoversAreOptional
<1>1. IInv => LeftoversAreOptional
  BY DEF IInv
<1> QED
  BY Invariance, <1>1, PTL

\* A ready Fabric went through its whole provision loop.
THEOREM ReadyCorrect == FabricSpec => []ReadyIsProvisioned
<1>1. IInv => ReadyIsProvisioned
  BY DEF IInv
<1> QED
  BY Invariance, <1>1, PTL

\* Aggregate status and fidelity of execute_composite and release are honest.
THEOREM ResultCorrect == FabricSpec => []ResultHonest
<1>1. IInv => ResultHonest
  BY DEF IInv
<1> QED
  BY Invariance, <1>1, PTL

\* No call brings a released resource back.
THEOREM ReleaseIsFinal == FabricSpec => NoResurrection
<1>1. IInv /\ [FabricNext]_fabricVars =>
          [\A r \in Resources : gone[r] =>
              gone'[r] /\ ~provisioned'[r] /\ states'[r] = states[r]]_fabricVars
  BY StepHolds DEF StaysGone
<1> QED
  BY Invariance, <1>1, PTL DEF FabricSpec, NoResurrection

-----------------------------------------------------------------------------
(***************************************************************************)
(* The sessions of the in-memory adapter.                                  *)
(***************************************************************************)

\* A rule that waits has counted fewer calls than its occurrence, none that did
\* not come, and all that came but those another rule has answered.
Waiting(rule) ==
    /\ rule.seen < rule.occurrence
    /\ rule.seen <= rule.since
    /\ rule.since <= rule.seen + rule.overtaken

RulesWait == \A h \in Handles : \A i \in DOMAIN faults[h] : Waiting(faults[h][i])

\* A handle that was not provisioned yet has not been referred to.
NewIsUnknown == \A ref \in refs : status[ref.handle] # "new"

\* What a session could return to is its own, too.
PastIsOwn == \A h \in Handles :
    /\ InitialContent \in written[h]
    /\ \A i \in DOMAIN snapshots[h] : snapshots[h][i].content \in written[h]

SessionInv ==
    /\ SessionTypeOK
    /\ RulesWait /\ FiredInTime
    /\ NewIsUnknown /\ RefsStayTrue
    /\ PastIsOwn /\ WorldIsOwn

\* What is left without one rule are the others.
LEMMA OthersAreLeft ==
    ASSUME NEW S, NEW rules \in Seq(S), NEW i \in DOMAIN rules
    PROVE  /\ Without(rules, i) \in Seq(S)
           /\ \A k \in DOMAIN Without(rules, i) :
                 \E j \in DOMAIN rules \ {i} : Without(rules, i)[k] = rules[j]
<1> DEFINE n == Len(rules)
           a == SubSeq(rules, 1, i - 1)
           b == SubSeq(rules, i + 1, n)
<1>1. n \in Nat /\ i \in 1..n
  OBVIOUS
<1>2. a \in Seq(S) /\ Len(a) = i - 1 /\ \A k \in 1..(i - 1) : a[k] = rules[k]
  BY <1>1
<1>3. b \in Seq(S) /\ Len(b) = n - i /\ \A k \in 1..(n - i) : b[k] = rules[i + k]
  BY <1>1
<1> HIDE DEF a, b
<1>4. /\ a \o b \in Seq(S) /\ Len(a \o b) = n - 1
      /\ \A k \in 1..(n - 1) : (a \o b)[k] = IF k < i THEN rules[k] ELSE rules[k + 1]
  BY <1>1, <1>2, <1>3
<1>5. DOMAIN rules = 1..n /\ DOMAIN (a \o b) = 1..(n - 1)
  BY <1>4
<1> DEFINE c == a \o b
<1> HIDE DEF c, n
<1>6. \A k \in DOMAIN c : \E j \in DOMAIN rules \ {i} : c[k] = rules[j]
  <2> SUFFICES ASSUME NEW k \in 1..(n - 1)
               PROVE  \E j \in (1..n) \ {i} : c[k] = rules[j]
    BY <1>5 DEF c
  <2>1. c[k] = IF k < i THEN rules[k] ELSE rules[k + 1]
    BY <1>4 DEF c
  <2>2. CASE k < i
    BY <1>1, <2>1, <2>2
  <2>3. CASE ~(k < i)
    <3>1. k + 1 \in (1..n) \ {i} /\ c[k] = rules[k + 1]
      BY <1>1, <2>1, <2>3
    <3> QED
      BY <3>1
  <2> QED
    BY <2>2, <2>3
<1> QED
  BY <1>4, <1>6 DEF Without, a, b, c, n

\* What one call of a tool makes of a rule, which it meets once or not at all.
Counts(rule, next, tool, met, overtaken) ==
    IF rule.target # tool THEN next = rule
    ELSE /\ next.target = tool /\ next.occurrence = rule.occurrence
         /\ next.seen = rule.seen + met
         /\ next.since = rule.since + 1
         /\ next.overtaken = rule.overtaken + overtaken

\* Every rule of the tool counts, and every other one stays as it is.
LEMMA RulesCount ==
    ASSUME NEW rules \in Seq(Rule), NEW tool,
           NEW before \in Nat, NEW overtaken \in Nat
    PROVE  /\ Counted(rules, tool, before, overtaken) \in Seq(Rule)
           /\ DOMAIN Counted(rules, tool, before, overtaken) = DOMAIN rules
           /\ \A i \in DOMAIN rules :
                 Counts(rules[i], Counted(rules, tool, before, overtaken)[i],
                        tool, IF i < before THEN 1 ELSE 0, overtaken)
<1> DEFINE counted == Counted(rules, tool, before, overtaken)
           moved(i) ==
              [target |-> rules[i].target, occurrence |-> rules[i].occurrence,
               seen |-> IF i < before THEN rules[i].seen + 1 ELSE rules[i].seen,
               since |-> rules[i].since + 1,
               overtaken |-> rules[i].overtaken + overtaken]
<1>1. Len(rules) \in Nat /\ DOMAIN rules = 1..Len(rules)
  OBVIOUS
<1>2. DOMAIN counted = DOMAIN rules
  BY DEF Counted
<1>3. ASSUME NEW i \in DOMAIN rules PROVE rules[i] \in Rule
  OBVIOUS
<1>4. ASSUME NEW i \in DOMAIN rules, rules[i].target # tool
      PROVE  counted[i] = rules[i]
  BY <1>4 DEF Counted
<1>5. ASSUME NEW i \in DOMAIN rules, rules[i].target = tool
      PROVE  counted[i] = moved(i)
  <2>1. counted[i] = [rules[i] EXCEPT !.seen = IF i < before THEN @ + 1 ELSE @,
                                      !.since = @ + 1, !.overtaken = @ + overtaken]
    BY <1>5 DEF Counted
  <2> HIDE DEF counted
  <2> QED
    BY <1>3, <2>1 DEF Rule
<1>6. ASSUME NEW i \in DOMAIN rules PROVE moved(i) \in Rule
  <2>1. i \in Nat
    BY <1>1
  <2> QED
    BY <1>3, <2>1 DEF Rule
<1>7. \A i \in DOMAIN rules : counted[i] \in Rule
  <2> HIDE DEF counted, moved
  <2> QED
    BY <1>3, <1>4, <1>5, <1>6
<1>8. counted = [i \in DOMAIN rules |-> counted[i]]
  BY DEF Counted
<1> HIDE DEF counted
<1>9. counted \in Seq(Rule)
  BY <1>1, <1>7, <1>8
<1>10. \A i \in DOMAIN rules : Counts(rules[i], counted[i], tool, IF i < before THEN 1 ELSE 0, overtaken)
  <2> SUFFICES ASSUME NEW i \in DOMAIN rules
               PROVE  Counts(rules[i], counted[i], tool, IF i < before THEN 1 ELSE 0, overtaken)
    OBVIOUS
  <2>1. CASE rules[i].target # tool
    BY <1>4, <2>1 DEF Counts
  <2>2. CASE rules[i].target = tool
    <3>1. counted[i] = moved(i)
      BY <1>5, <2>2
    <3>2. rules[i] \in Rule
      BY <1>3
    <3>3. /\ counted[i].target = tool /\ counted[i].occurrence = rules[i].occurrence
          /\ counted[i].since = rules[i].since + 1
          /\ counted[i].overtaken = rules[i].overtaken + overtaken
      BY <2>2, <3>1
    <3>4. counted[i].seen = IF i < before THEN rules[i].seen + 1 ELSE rules[i].seen
      BY <3>1
    <3>5. counted[i].seen = rules[i].seen + IF i < before THEN 1 ELSE 0
      BY <3>2, <3>4 DEF Rule
    <3> QED
      BY <2>2, <3>3, <3>5 DEF Counts
  <2> QED
    BY <2>1, <2>2
<1> QED
  BY <1>2, <1>9, <1>10 DEF counted

RuleTyped(rule) ==
    /\ rule.occurrence \in Nat /\ rule.seen \in Nat
    /\ rule.since \in Nat /\ rule.overtaken \in Nat

LEMMA RulesAreTyped ==
    ASSUME NEW rule \in Rule PROVE RuleTyped(rule)
BY EnvironmentAssumption DEF Rule, RuleTyped

\* None of the rules is due: all of them wait on.
LEMMA RulesWaitOn ==
    ASSUME NEW rules \in Seq(Rule), NEW tool,
           \A i \in DOMAIN rules : Waiting(rules[i]),
           Due(rules, tool) = {}
    PROVE  \A i \in DOMAIN rules :
              Waiting(Counted(rules, tool, Len(rules) + 1, 0)[i])
<1> DEFINE counted == Counted(rules, tool, Len(rules) + 1, 0)
<1> SUFFICES ASSUME NEW i \in DOMAIN rules PROVE Waiting(counted[i])
  OBVIOUS
<1>1. /\ Len(rules) + 1 \in Nat /\ i \in Nat /\ i < Len(rules) + 1
      /\ rules[i] \in Rule
  OBVIOUS
<1>2. Counts(rules[i], counted[i], tool, 1, 0)
  BY <1>1, RulesCount
<1>3. rules[i].target = tool => rules[i].seen + 1 # rules[i].occurrence
  BY DEF Due
<1>4. RuleTyped(rules[i]) /\ Waiting(rules[i])
  BY <1>1, RulesAreTyped
<1> HIDE DEF counted
<1>5. CASE rules[i].target # tool
  BY <1>2, <1>4, <1>5 DEF Counts
<1>6. CASE rules[i].target = tool
  <2>1. /\ counted[i].occurrence = rules[i].occurrence
        /\ counted[i].seen = rules[i].seen + 1
        /\ counted[i].since = rules[i].since + 1
        /\ counted[i].overtaken = rules[i].overtaken + 0
    BY <1>2, <1>6 DEF Counts
  <2> QED
    BY <1>3, <1>4, <1>6, <2>1 DEF Waiting, RuleTyped
<1> QED
  BY <1>5, <1>6

\* The first rule that is due is activated in time, and the others wait on.
LEMMA FirstDueIsActivated ==
    ASSUME NEW rules \in Seq(Rule), NEW tool,
           \A i \in DOMAIN rules : Waiting(rules[i]),
           NEW i \in Due(rules, tool),
           \A j \in Due(rules, tool) : i <= j
    PROVE  LET activated == Counted(rules, tool, i + 1, 0)[i]
               left == Without(Counted(rules, tool, i, 1), i)
           IN  /\ activated \in Rule /\ left \in Seq(Rule)
               /\ activated.occurrence <= activated.since
               /\ activated.since <= activated.occurrence + activated.overtaken
               /\ \A k \in DOMAIN left : Waiting(left[k])
<1> DEFINE all == Counted(rules, tool, i + 1, 0)
           counted == Counted(rules, tool, i, 1)
           activated == all[i]
           left == Without(counted, i)
<1>1. /\ i \in DOMAIN rules /\ i \in Nat
      /\ rules[i].target = tool /\ rules[i].seen + 1 = rules[i].occurrence
  BY DEF Due
<1>2. \A j \in DOMAIN rules :
        /\ j \in Nat /\ rules[j] \in Rule
        /\ j < i /\ rules[j].target = tool => rules[j].seen + 1 # rules[j].occurrence
  BY <1>1 DEF Due
<1>3. \A j \in DOMAIN rules : RuleTyped(rules[j]) /\ Waiting(rules[j])
  BY <1>2, RulesAreTyped
<1>4. /\ all \in Seq(Rule) /\ DOMAIN all = DOMAIN rules
      /\ Counts(rules[i], activated, tool, 1, 0)
  BY <1>1, RulesCount
<1>5. /\ counted \in Seq(Rule) /\ DOMAIN counted = DOMAIN rules
      /\ \A j \in DOMAIN rules : Counts(rules[j], counted[j], tool, IF j < i THEN 1 ELSE 0, 1)
  BY <1>1, RulesCount
<1>6. activated \in Rule
  <2> HIDE DEF all
  <2> QED
    BY <1>1, <1>4
<1> HIDE DEF all, counted, activated
<1>7. /\ activated.occurrence <= activated.since
      /\ activated.since <= activated.occurrence + activated.overtaken
  <2>1. RuleTyped(rules[i]) /\ Waiting(rules[i])
    BY <1>1, <1>3
  <2> QED
    BY <1>1, <1>4, <2>1 DEF Counts, Waiting, RuleTyped
<1>8. ASSUME NEW j \in DOMAIN rules, j # i PROVE Waiting(counted[j])
  <2>1. Counts(rules[j], counted[j], tool, IF j < i THEN 1 ELSE 0, 1) /\ Waiting(rules[j])
    BY <1>5
  <2>2. /\ RuleTyped(rules[j])
        /\ j < i /\ rules[j].target = tool => rules[j].seen + 1 # rules[j].occurrence
    BY <1>2, <1>3
  <2> QED
    <3>1. CASE rules[j].target # tool
      BY <2>1, <3>1 DEF Counts
    <3>2. CASE rules[j].target = tool /\ j < i
      <4>1. /\ counted[j].occurrence = rules[j].occurrence
            /\ counted[j].seen = rules[j].seen + 1
            /\ counted[j].since = rules[j].since + 1
            /\ counted[j].overtaken = rules[j].overtaken + 1
        BY <2>1, <3>2 DEF Counts
      <4>2. rules[j].seen + 1 # rules[j].occurrence
        BY <2>2, <3>2
      <4> QED
        BY <2>1, <2>2, <4>1, <4>2 DEF Waiting, RuleTyped
    <3>3. CASE rules[j].target = tool /\ ~(j < i)
      BY <2>1, <2>2, <3>3 DEF Counts, Waiting, RuleTyped
    <3> QED
      BY <3>1, <3>2, <3>3
<1>9. left \in Seq(Rule) /\ \A k \in DOMAIN left : Waiting(left[k])
  BY <1>1, <1>5, <1>8, OthersAreLeft
<1> QED
  BY <1>6, <1>7, <1>9 DEF all, counted, activated

\* A step of a session keeps the types.
LEMMA SessionTypes ==
    ASSUME SessionTypeOK, SessionNext
    PROVE  SessionTypeOK'
<1> USE EnvironmentAssumption DEF SessionTypeOK, Live
<1> SUFFICES ASSUME NEW h \in Handles,
                    \/ Provision(h) \/ Release(h) \/ Reset(h)
                    \/ TakeSnapshot(h)
                    \/ \E ref \in refs : Restore(h, ref)
                    \/ \E tool \in Tools :
                        \/ Execute(h, tool) \/ ExecuteFaulted(h, tool)
                        \/ \E occurrence \in Occurrences :
                              InjectFault(h, tool, occurrence)
                    \/ \E i \in DOMAIN faults[h] : ClearFault(h, i)
             PROVE  SessionTypeOK'
  BY DEF SessionNext
<1>0. InitialWorld \in World
  BY DEF InitialWorld, World
<1>1. CASE Provision(h)
  BY <1>1 DEF Provision
<1>2. CASE Release(h)
  <2>1. /\ world' \in [Handles -> World]
        /\ faults' \in [Handles -> Seq(Rule)]
        /\ snapshots' \in [Handles -> Seq(World)]
    BY <1>0, <1>2 DEF Release
  <2> QED
    BY <1>2, <2>1 DEF Release
<1>3. CASE Reset(h)
  <2>1. /\ world' \in [Handles -> World]
        /\ faults' \in [Handles -> Seq(Rule)]
        /\ snapshots' \in [Handles -> Seq(World)]
    BY <1>0, <1>3 DEF Reset
  <2> QED
    BY <1>3, <2>1 DEF Reset
<1>4. CASE TakeSnapshot(h)
  <2>1. snapshots' \in [Handles -> Seq(World)]
    BY <1>4 DEF TakeSnapshot
  <2>2. Len(snapshots[h]) \in Nat /\ world[h] \in World
    OBVIOUS
  <2>3. refs' \subseteq Ref
    BY <1>4, <2>2 DEF TakeSnapshot, Ref
  <2> QED
    BY <1>4, <2>1, <2>3 DEF TakeSnapshot
<1>5. ASSUME NEW ref \in refs,
             Restore(h, ref)
      PROVE  SessionTypeOK'
  <2>1. snapshots[h][ref.number] \in World
    BY <1>5 DEF Restore, Presented
  <2>2. world' \in [Handles -> World]
    BY <1>5, <2>1 DEF Restore
  <2> QED
    BY <1>5, <2>2 DEF Restore
<1>6. ASSUME NEW tool \in Tools,
             Execute(h, tool)
      PROVE  SessionTypeOK'
  <2>1. Len(faults[h]) + 1 \in Nat
    OBVIOUS
  <2>2. faults' = [faults EXCEPT ![h] =
                     Counted(faults[h], tool, Len(faults[h]) + 1, 0)]
    BY <1>6 DEF Execute
  <2>3. Counted(faults[h], tool, Len(faults[h]) + 1, 0) \in Seq(Rule)
    BY <2>1, RulesCount
  <2>4. faults' \in [Handles -> Seq(Rule)]
    BY <2>2, <2>3
  <2>5. PICK content \in Contents :
          /\ world' = [world EXCEPT ![h] = [content |-> content, time |-> @.time + 1]]
          /\ written' = [written EXCEPT ![h] = @ \union {content}]
    BY <1>6 DEF Execute
  <2>6. world' \in [Handles -> World] /\ written' \in [Handles -> SUBSET Contents]
    BY <2>5 DEF World
  <2>7. status[h] = "live" /\ fired' = None /\ UNCHANGED <<status, snapshots, refs>>
    BY <1>6 DEF Execute
  <2>8. ASSUME NEW x \in Handles, status[x] # "live"
        PROVE  world'[x] = InitialWorld /\ faults'[x] = <<>>
    BY <2>2, <2>5, <2>7, <2>8
  <2> QED
    BY <2>4, <2>6, <2>7, <2>8
<1>7. ASSUME NEW tool \in Tools,
             ExecuteFaulted(h, tool)
      PROVE  SessionTypeOK'
  <2>1. PICK i \in Due(faults[h], tool) :
          /\ \A j \in Due(faults[h], tool) : i <= j
          /\ fired' = Counted(faults[h], tool, i + 1, 0)[i]
          /\ faults' = [faults EXCEPT ![h] =
                          Without(Counted(faults[h], tool, i, 1), i)]
    BY <1>7 DEF ExecuteFaulted
  <2>2. i \in DOMAIN faults[h] /\ i \in Nat
    BY DEF Due
  <2>3. fired' \in Rule
    BY <2>1, <2>2, RulesCount
  <2> DEFINE counted == Counted(faults[h], tool, i, 1)
  <2>a. counted \in Seq(Rule) /\ i \in DOMAIN counted
    BY <2>2, RulesCount
  <2> HIDE DEF counted
  <2>b. Without(counted, i) \in Seq(Rule)
    BY <2>a, OthersAreLeft
  <2>4. Without(Counted(faults[h], tool, i, 1), i) \in Seq(Rule)
    BY <2>b DEF counted
  <2>5. faults' \in [Handles -> Seq(Rule)]
    BY <2>1, <2>4
  <2> QED
    BY <1>7, <2>1, <2>3, <2>5 DEF ExecuteFaulted
<1>8. ASSUME NEW tool \in Tools, NEW occurrence \in Occurrences,
             InjectFault(h, tool, occurrence)
      PROVE  SessionTypeOK'
  <2> DEFINE rule == [target |-> tool, occurrence |-> occurrence, seen |-> 0,
                      since |-> 0, overtaken |-> 0]
  <2>1. rule \in Rule
    BY DEF Rule
  <2>2. faults' = [faults EXCEPT ![h] = Append(@, rule)]
    BY <1>8 DEF InjectFault
  <2> HIDE DEF rule
  <2>3. faults' \in [Handles -> Seq(Rule)]
    BY <2>1, <2>2
  <2> QED
    BY <1>8, <2>2, <2>3 DEF InjectFault
<1>9. ASSUME NEW i \in DOMAIN faults[h],
             ClearFault(h, i)
      PROVE  SessionTypeOK'
  <2>1. Without(faults[h], i) \in Seq(Rule)
    BY OthersAreLeft
  <2>2. faults' \in [Handles -> Seq(Rule)]
    BY <1>9, <2>1 DEF ClearFault
  <2> QED
    BY <1>9, <2>2 DEF ClearFault
<1> QED
  BY <1>1, <1>2, <1>3, <1>4, <1>5, <1>6, <1>7, <1>8, <1>9

\* A rule that is met before it is due waits on, and the first that is due is activated.
LEMMA SessionRules ==
    ASSUME SessionTypeOK, RulesWait, FiredInTime, SessionNext
    PROVE  RulesWait' /\ FiredInTime'
<1> USE EnvironmentAssumption DEF SessionTypeOK, Live, RulesWait, Waiting, FiredInTime
<1> SUFFICES ASSUME NEW h \in Handles,
                    \/ Provision(h) \/ Release(h) \/ Reset(h)
                    \/ TakeSnapshot(h)
                    \/ \E ref \in refs : Restore(h, ref)
                    \/ \E tool \in Tools :
                        \/ Execute(h, tool) \/ ExecuteFaulted(h, tool)
                        \/ \E occurrence \in Occurrences :
                              InjectFault(h, tool, occurrence)
                    \/ \E i \in DOMAIN faults[h] : ClearFault(h, i)
             PROVE  RulesWait' /\ FiredInTime'
  BY DEF SessionNext
<1>1. CASE Provision(h)
  BY <1>1 DEF Provision
<1>2. CASE Release(h)
  BY <1>2 DEF Release
<1>3. CASE Reset(h)
  BY <1>3 DEF Reset
<1>4. CASE TakeSnapshot(h)
  BY <1>4 DEF TakeSnapshot
<1>5. ASSUME NEW ref \in refs,
             Restore(h, ref)
      PROVE  RulesWait' /\ FiredInTime'
  BY <1>5 DEF Restore
<1>6. ASSUME NEW tool \in Tools,
             Execute(h, tool)
      PROVE  RulesWait' /\ FiredInTime'
  <2> DEFINE counted == Counted(faults[h], tool, Len(faults[h]) + 1, 0)
  <2>1. /\ Due(faults[h], tool) = {} /\ fired' = None
        /\ faults' = [faults EXCEPT ![h] = counted]
    BY <1>6 DEF Execute
  <2>2. faults[h] \in Seq(Rule) /\ Len(faults[h]) + 1 \in Nat
    OBVIOUS
  <2>3. DOMAIN counted = DOMAIN faults[h]
    <3> HIDE DEF Waiting, RulesWait, FiredInTime, SessionTypeOK
    <3> QED
      BY <2>2, RulesCount
  <2>4. \A i \in DOMAIN faults[h] : Waiting(counted[i])
    <3> HIDE DEF Waiting
    <3> QED
      BY <2>1, <2>2, RulesWaitOn
  <2> HIDE DEF counted, Waiting
  <2> QED
    BY <2>1, <2>3, <2>4
<1>7. ASSUME NEW tool \in Tools,
             ExecuteFaulted(h, tool)
      PROVE  RulesWait' /\ FiredInTime'
  <2>1. PICK i \in Due(faults[h], tool) :
          /\ \A j \in Due(faults[h], tool) : i <= j
          /\ fired' = Counted(faults[h], tool, i + 1, 0)[i]
          /\ faults' = [faults EXCEPT ![h] =
                          Without(Counted(faults[h], tool, i, 1), i)]
    BY <1>7 DEF ExecuteFaulted
  <2> DEFINE activated == Counted(faults[h], tool, i + 1, 0)[i]
             left == Without(Counted(faults[h], tool, i, 1), i)
  <2> HIDE DEF Waiting
  <2>2. faults[h] \in Seq(Rule) /\ \A j \in DOMAIN faults[h] : Waiting(faults[h][j])
    OBVIOUS
  <2>3. /\ activated.occurrence <= activated.since
        /\ activated.since <= activated.occurrence + activated.overtaken
        /\ \A k \in DOMAIN left : Waiting(left[k])
    BY <2>1, <2>2, FirstDueIsActivated
  <2>4. fired' = activated /\ faults' = [faults EXCEPT ![h] = left]
    BY <2>1
  <2> HIDE DEF left, activated
  <2> QED
    BY <2>3, <2>4
<1>8. ASSUME NEW tool \in Tools, NEW occurrence \in Occurrences,
             InjectFault(h, tool, occurrence)
      PROVE  RulesWait' /\ FiredInTime'
  BY <1>8 DEF InjectFault
<1>9. ASSUME NEW i \in DOMAIN faults[h],
             ClearFault(h, i)
      PROVE  RulesWait' /\ FiredInTime'
  <2>1. \A k \in DOMAIN Without(faults[h], i) :
          Waiting(Without(faults[h], i)[k])
    <3> HIDE DEF Waiting
    <3> QED
      BY OthersAreLeft
  <2> QED
    BY <1>9, <2>1 DEF ClearFault
<1> QED
  BY <1>1, <1>2, <1>3, <1>4, <1>5, <1>6, <1>7, <1>8, <1>9

\* Snapshots of a live session only grow.
LEMMA SessionRefs ==
    ASSUME SessionTypeOK, NewIsUnknown, RefsStayTrue, SessionNext
    PROVE  NewIsUnknown' /\ RefsStayTrue'
<1> USE DEF SessionTypeOK, Live, NewIsUnknown, RefsStayTrue
<1> SUFFICES ASSUME NEW h \in Handles,
                    \/ Provision(h) \/ Release(h) \/ Reset(h)
                    \/ TakeSnapshot(h)
                    \/ \E ref \in refs : Restore(h, ref)
                    \/ \E tool \in Tools :
                        \/ Execute(h, tool) \/ ExecuteFaulted(h, tool)
                        \/ \E occurrence \in Occurrences :
                              InjectFault(h, tool, occurrence)
                    \/ \E i \in DOMAIN faults[h] : ClearFault(h, i)
             PROVE  NewIsUnknown' /\ RefsStayTrue'
  BY DEF SessionNext
<1>1. CASE Provision(h)
  BY <1>1 DEF Provision
<1>2. CASE Release(h)
  BY <1>2 DEF Release
<1>3. CASE Reset(h)
  BY <1>3 DEF Reset
<1>4. CASE TakeSnapshot(h)
  BY <1>4 DEF TakeSnapshot
<1>5. ASSUME NEW ref \in refs,
             Restore(h, ref)
      PROVE  NewIsUnknown' /\ RefsStayTrue'
  BY <1>5 DEF Restore
<1>6. ASSUME NEW tool \in Tools,
             Execute(h, tool)
      PROVE  NewIsUnknown' /\ RefsStayTrue'
  BY <1>6 DEF Execute
<1>7. ASSUME NEW tool \in Tools,
             ExecuteFaulted(h, tool)
      PROVE  NewIsUnknown' /\ RefsStayTrue'
  BY <1>7 DEF ExecuteFaulted
<1>8. ASSUME NEW tool \in Tools, NEW occurrence \in Occurrences,
             InjectFault(h, tool, occurrence)
      PROVE  NewIsUnknown' /\ RefsStayTrue'
  BY <1>8 DEF InjectFault
<1>9. ASSUME NEW i \in DOMAIN faults[h],
             ClearFault(h, i)
      PROVE  NewIsUnknown' /\ RefsStayTrue'
  BY <1>9 DEF ClearFault
<1> QED
  BY <1>1, <1>2, <1>3, <1>4, <1>5, <1>6, <1>7, <1>8, <1>9

\* A world is the initial one, a snapshot of its own session, or what a call made.
LEMMA SessionWorlds ==
    ASSUME SessionTypeOK, PastIsOwn, WorldIsOwn, SessionNext
    PROVE  PastIsOwn' /\ WorldIsOwn'
<1> USE EnvironmentAssumption DEF SessionTypeOK, Live, PastIsOwn, WorldIsOwn, InitialWorld
<1> SUFFICES ASSUME NEW h \in Handles,
                    \/ Provision(h) \/ Release(h) \/ Reset(h)
                    \/ TakeSnapshot(h)
                    \/ \E ref \in refs : Restore(h, ref)
                    \/ \E tool \in Tools :
                        \/ Execute(h, tool) \/ ExecuteFaulted(h, tool)
                        \/ \E occurrence \in Occurrences :
                              InjectFault(h, tool, occurrence)
                    \/ \E i \in DOMAIN faults[h] : ClearFault(h, i)
             PROVE  PastIsOwn' /\ WorldIsOwn'
  BY DEF SessionNext
<1>1. CASE Provision(h)
  BY <1>1 DEF Provision
<1>2. CASE Release(h)
  BY <1>2 DEF Release
<1>3. CASE Reset(h)
  BY <1>3 DEF Reset
<1>4. CASE TakeSnapshot(h)
  BY <1>4 DEF TakeSnapshot
<1>5. ASSUME NEW ref \in refs,
             Restore(h, ref)
      PROVE  PastIsOwn' /\ WorldIsOwn'
  <2>1. world' = [world EXCEPT ![h] = snapshots[h][ref.number]]
        /\ ref.number \in DOMAIN snapshots[h] /\ UNCHANGED <<snapshots, written>>
    BY <1>5 DEF Restore, Presented
  <2> QED
    BY <2>1
<1>6. ASSUME NEW tool \in Tools,
             Execute(h, tool)
      PROVE  PastIsOwn' /\ WorldIsOwn'
  BY <1>6 DEF Execute
<1>7. ASSUME NEW tool \in Tools,
             ExecuteFaulted(h, tool)
      PROVE  PastIsOwn' /\ WorldIsOwn'
  BY <1>7 DEF ExecuteFaulted
<1>8. ASSUME NEW tool \in Tools, NEW occurrence \in Occurrences,
             InjectFault(h, tool, occurrence)
      PROVE  PastIsOwn' /\ WorldIsOwn'
  BY <1>8 DEF InjectFault
<1>9. ASSUME NEW i \in DOMAIN faults[h],
             ClearFault(h, i)
      PROVE  PastIsOwn' /\ WorldIsOwn'
  BY <1>9 DEF ClearFault
<1> QED
  BY <1>1, <1>2, <1>3, <1>4, <1>5, <1>6, <1>7, <1>8, <1>9

LEMMA SessionInvInit == SessionInit => SessionInv
<1> SUFFICES ASSUME SessionInit PROVE SessionInv
  OBVIOUS
<1> USE EnvironmentAssumption DEF SessionInit, InitialWorld, Live
<1>1. SessionTypeOK
  BY DEF SessionTypeOK, World
<1>2. RulesWait /\ FiredInTime
  BY DEF RulesWait, FiredInTime
<1>3. NewIsUnknown /\ RefsStayTrue
  BY DEF NewIsUnknown, RefsStayTrue
<1>4. PastIsOwn /\ WorldIsOwn
  BY DEF PastIsOwn, WorldIsOwn
<1> QED
  BY <1>1, <1>2, <1>3, <1>4 DEF SessionInv

LEMMA SessionInvNext == SessionInv /\ [SessionNext]_vars => SessionInv'
<1> SUFFICES ASSUME SessionInv, [SessionNext]_vars
             PROVE  SessionInv'
  OBVIOUS
<1>1. CASE SessionNext
  BY <1>1, SessionTypes, SessionRules, SessionRefs, SessionWorlds DEF SessionInv
<1>2. CASE UNCHANGED vars
  <2> USE <1>2 DEF vars, SessionInv
  <2>1. SessionTypeOK'
    BY DEF SessionTypeOK, Live
  <2>2. RulesWait' /\ FiredInTime'
    BY DEF RulesWait, FiredInTime
  <2>3. NewIsUnknown' /\ RefsStayTrue'
    BY DEF NewIsUnknown, RefsStayTrue, Live
  <2>4. PastIsOwn' /\ WorldIsOwn'
    BY DEF PastIsOwn, WorldIsOwn
  <2> QED
    BY <2>1, <2>2, <2>3, <2>4
<1> QED
  BY <1>1, <1>2

LEMMA SessionAlways == SessionSpec => []SessionInv
<1>1. SessionInit => SessionInv
  BY SessionInvInit
<1>2. SessionInv /\ [SessionNext]_vars => SessionInv'
  BY SessionInvNext
<1> QED
  BY <1>1, <1>2, PTL DEF SessionSpec

\* The sessions keep their types; a handle without a session has no world, snapshots
\* or rules of its own.
THEOREM SessionTypeCorrect == SessionSpec => []SessionTypeOK
<1>1. SessionInv => SessionTypeOK
  BY DEF SessionInv
<1> QED
  BY <1>1, SessionAlways, PTL

\* _apply_fault_if_due activates no fault before its occurrence, and none later than
\* by the calls of its tool that other rules have answered.
THEOREM FaultsAreInTime == SessionSpec => []FiredInTime
<1>1. SessionInv => FiredInTime
  BY DEF SessionInv
<1> QED
  BY <1>1, SessionAlways, PTL

\* A SnapshotRef of a live session leads to the state it was taken of.
THEOREM RefsAreTrue == SessionSpec => []RefsStayTrue
<1>1. SessionInv => RefsStayTrue
  BY DEF SessionInv
<1> QED
  BY <1>1, SessionAlways, PTL

\* A session's world is what its own calls have made, or the initial one.
THEOREM WorldsAreApart == SessionSpec => []WorldIsOwn
<1>1. SessionInv => WorldIsOwn
  BY DEF SessionInv
<1> QED
  BY <1>1, SessionAlways, PTL

=============================================================================
