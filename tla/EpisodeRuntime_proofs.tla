------------------------- MODULE EpisodeRuntime_proofs -------------------------
(***************************************************************************)
(* Proofs about EpisodeRuntime: for every set of results, Evidence         *)
(* identifiers, telemetry policies and environment states, every kind of   *)
(* Subject and any number of tool calls.                                   *)
(***************************************************************************)
EXTENDS EpisodeRuntime, TLAPS

\* The two records that can be frozen are records the code lets exist.
LEMMA RecordsExist ==
    /\ \A code \in DetailCodes : FailureRecord(code) \in Evaluations
    /\ verification \in SUBSET Results /\ (\A r \in verification : r.valid) =>
         AcceptanceRecord \in Evaluations
<1>1. VerdictOf(verification) \in {"PASS", "FAIL"}
  BY DEF VerdictOf
<1> QED
  BY <1>1 DEF FailureRecord, AcceptanceRecord, Evaluations, ExecutionRecorded

\* A move made under a cause the runtime can name is a Transition of the
\* Episode, and what it freezes is a record the code lets exist.
LEMMA MoveIsTransition ==
    ASSUME verification \in SUBSET Results,
           NEW target, NEW v \in Validities,
           NEW d \in DetailCodes \cup {NoDetail},
           v = "ORACLE_FAILURE" => d \in DetailCodes,
           MoveTo(target, v, d)
    PROVE  /\ Lifecycle!Transition(target)
           /\ evaluation' = evaluation \/ evaluation' \in Evaluations
<1>1. CASE FreezesFailure(target, v)
  <2>1. FailureRecord(d) \in Evaluations
    BY <1>1, RecordsExist DEF FreezesFailure
  <2>2. evaluation' = FailureRecord(d)
    BY <1>1 DEF MoveTo
  <2> QED
    BY <1>1, <2>1, <2>2 DEF MoveTo, FreezesFailure, Lifecycle!Transition,
                            Lifecycle!Freeze
<1>2. CASE ~FreezesFailure(target, v) /\ FreezesAcceptance(target, v)
  <2>1. \A r \in verification : r.valid
    BY <1>2 DEF MoveTo, FreezeRaises
  <2>2. AcceptanceRecord \in Evaluations
    BY <2>1, RecordsExist
  <2>3. evaluation' = AcceptanceRecord
    BY <1>2 DEF MoveTo
  <2> QED
    BY <1>2, <2>2, <2>3 DEF MoveTo, FreezesAcceptance, Lifecycle!Transition,
                            Lifecycle!Freeze
<1>3. CASE ~FreezesFailure(target, v) /\ ~FreezesAcceptance(target, v)
  BY <1>3 DEF MoveTo, Lifecycle!Transition, Lifecycle!Freeze
<1> QED
  BY <1>1, <1>2, <1>3

\* The lifecycle part of the typing survives every move.
LEMMA TransitionTypes ==
    ASSUME Lifecycle!TypeOK, NEW target \in Lifecycle!States,
           Lifecycle!Transition(target)
    PROVE  Lifecycle!TypeOK'
<1>1. Lifecycle!RecordOf(records, state, target) \in Lifecycle!Record
  BY DEF Lifecycle!RecordOf, Lifecycle!Record, Lifecycle!TypeOK
<1>2. records' \in Seq(Lifecycle!Record)
  BY <1>1 DEF Lifecycle!Transition, Lifecycle!TypeOK
<1>3. evaluation' \in Evaluations \cup {NoEvaluation}
  BY DEF Lifecycle!Transition, Lifecycle!Freeze, Lifecycle!TypeOK
<1> QED
  BY <1>2, <1>3 DEF Lifecycle!Transition, Lifecycle!TypeOK

-----------------------------------------------------------------------------
(* Typing *)

\* An ORACLE_FAILURE is never without its detail code (engine.py:812-813).
DetailGiven == validity = "ORACLE_FAILURE" => detail \in DetailCodes

\* A step finds what the step before it has left for it.
HandedOver == /\ step = "invalidate" => cause \in Causes
              /\ step = "publishExecution" => output \in Executions

Typed == TypeOK /\ DetailGiven /\ HandedOver

\* A move under the Episode's own validity keeps the lifecycle part typed.
LEMMA AdvanceTypes ==
    ASSUME Typed, NEW target \in Lifecycle!States, Advance(target)
    PROVE  Lifecycle!TypeOK'
<1>1. Lifecycle!TypeOK /\ verification \in SUBSET Results
  BY DEF Typed, TypeOK
<1>2. Lifecycle!Transition(target)
  BY <1>1, MoveIsTransition DEF Advance, Typed, TypeOK, DetailGiven
<1> QED
  BY <1>1, <1>2, TransitionTypes

\* So does a move under a validity that comes with its detail.
LEMMA MoveTypes ==
    ASSUME Typed, NEW target \in Lifecycle!States, NEW v \in Validities,
           NEW d \in DetailCodes \cup {NoDetail},
           v = "ORACLE_FAILURE" => d \in DetailCodes, MoveTo(target, v, d)
    PROVE  Lifecycle!TypeOK'
<1>1. Lifecycle!TypeOK /\ verification \in SUBSET Results
  BY DEF Typed, TypeOK
<1>2. Lifecycle!Transition(target)
  BY <1>1, MoveIsTransition
<1> QED
  BY <1>1, <1>2, TransitionTypes

\* Finalizing the telemetry yields an artifact and registers under a known name.
LEMMA CloseTypes ==
    ASSUME TypeOK, CloseTrace
    PROVE  /\ artifact' \in Completeness \cup {NoArtifact}
           /\ evidence' \in [EvidenceIds -> {"absent", "runtime", "oracle"}]
<1>1. artifact' \in Completeness \cup {NoArtifact}
  BY DEF CloseTrace, ArtifactAfter, Finalized, Completeness, TypeOK
<1>2. TelemetryId \in EvidenceIds
  BY DEF EvidenceIds
<1> QED
  BY <1>1, <1>2 DEF CloseTrace, PublishTelemetry, TypeOK

\* No cause of an invalidation leaves the Episode VALID, and it comes with a
\* detail code exactly when it is the Oracle's failure.
LEMMA CausesTyped ==
    /\ NoCause \in Causes \cup {NoCause}
    /\ \A c \in Causes : /\ c.validity \in Validities \ {"VALID"}
                         /\ c.detail \in DetailCodes \cup {NoDetail}
                         /\ c.validity = "ORACLE_FAILURE" <=> c.detail \in DetailCodes
BY DEF Causes, NoCause, Validities, DetailCodes, NoDetail

\* A new Episode is typed.
LEMMA InitTyped == Init => Typed
<1> SUFFICES ASSUME Init PROVE Typed
  OBVIOUS
<1>1. Lifecycle!TypeOK
  BY DEF Init, Lifecycle!Init, Lifecycle!TypeOK, Lifecycle!States,
         Lifecycle!Record
<1>2. NoDetail \notin DetailCodes /\ validity \in Validities
  BY DEF Init, NoDetail, DetailCodes, Validities
<1>3. DetailGiven /\ HandedOver
  BY DEF Init, DetailGiven, HandedOver
<1>4. evidence \in [EvidenceIds -> {"absent", "runtime", "oracle"}]
  BY DEF Init
<1>5. calls \in 0..MaxCalls /\ unanswered \subseteq 1..MaxCalls
  BY CallsAssumption DEF Init
<1> QED
  BY <1>1, <1>2, <1>3, <1>4, <1>5, WorldsAssumption
     DEF Init, Typed, TypeOK, Verdicts, EventTypes, Steps

\* One step per action of the specification.
LEMMA NextTyped == Typed /\ [Next]_vars => Typed'
<1> SUFFICES ASSUME Typed, [Next]_vars
             PROVE  Typed'
  OBVIOUS
<1> USE DEF DetailGiven, lifecycleVars, outcomeVars, traceVars,
            resourceVars, worldVars, callVars, handlerVars
<1>0. /\ TypeOK
      /\ DetailGiven
      /\ HandedOver
      /\ Lifecycle!TypeOK
  BY DEF Typed, TypeOK
<1>a. {"PROVISIONING", "READY", "RUNNING", "QUIESCING", "VERIFYING",
       "COMPLETED", "INVALID", "INFRA_FAILED"} \subseteq Lifecycle!States
  BY DEF Lifecycle!States
<1>b. "idle" \in Steps /\ "invalidate" \in Steps
  BY DEF Steps, VerifySteps
<1>c. Return \/ Leave("closeFailed") \/ Leave("closeInvalid") =>
        /\ step' \in Steps
        /\ output' \in Executions \cup {NoOutput}
        /\ cause' \in Causes \cup {NoCause}
        /\ HandedOver'
  BY DEF Return, Leave, Steps, ClosingSteps, HandedOver
<1>d. step' \notin {"publishExecution", "invalidate"} => HandedOver'
  BY DEF HandedOver
<1>e. UNCHANGED <<step, output, cause>> => HandedOver'
  BY <1>0 DEF HandedOver
<1>f. step' = "invalidate" /\ cause' \in Causes => HandedOver'
  BY DEF HandedOver
<1>1. CASE \E source \in Sources : BindReplaySource(source)
  <2>1. PICK source \in Sources : BindReplaySource(source)
    BY <1>1
  <2>2. Lifecycle!TypeOK'
    BY <1>0, <2>1 DEF BindReplaySource, Lifecycle!BindReplaySource,
                      Lifecycle!TypeOK
  <2> QED
    BY <1>0, <1>e, <2>1, <2>2 DEF BindReplaySource, TypeOK, Typed
<1>2. CASE Provision
  <2>1. Lifecycle!TypeOK'
    BY <1>2, <1>a, AdvanceTypes DEF Provision
  <2> QED
    BY <1>0, <1>d, <1>2, <2>1 DEF Provision, Goto, Steps, ProvisionSteps, TypeOK, Typed
<1>3. CASE ProvisionEnvironment
  BY <1>0, <1>d, <1>3 DEF ProvisionEnvironment, Goto, Steps, ProvisionSteps,
                    Lifecycle!TypeOK, TypeOK, Typed
<1>4. CASE OpenSubject
  BY <1>0, <1>d, <1>4 DEF OpenSubject, Goto, Steps, ProvisionSteps,
                    Lifecycle!TypeOK, TypeOK, Typed
<1>5. CASE OpenGateway
  BY <1>0, <1>d, <1>5 DEF OpenGateway, Goto, Steps, ProvisionSteps,
                    Lifecycle!TypeOK, TypeOK, Typed
<1>6. CASE ResetEnvironment
  <2>1. Lifecycle!TypeOK'
    BY <1>6, <1>a, AdvanceTypes DEF ResetEnvironment
  <2> QED
    BY <1>0, <1>6, <1>c, <2>1, WorldsAssumption
       DEF ResetEnvironment, TypeOK, Typed
<1>7. CASE \E v \in Validities : ProvisionFails(v)
  <2>1. PICK v \in Validities : ProvisionFails(v)
    BY <1>7
  <2>2. v # "ORACLE_FAILURE"
    BY <2>1 DEF ProvisionFails, ProvisionFailure, ProvisionSteps
  <2>3. Lifecycle!TypeOK'
    BY <2>1, <2>2, <1>a, MoveTypes DEF ProvisionFails
  <2> QED
    BY <1>0, <1>c, <2>1, <2>2, <2>3 DEF ProvisionFails, TypeOK, Typed
<1>8. CASE RunSubject
  <2>1. Lifecycle!TypeOK'
    BY <1>8, <1>a, AdvanceTypes DEF RunSubject
  <2> QED
    BY <1>0, <1>d, <1>8, <2>1 DEF RunSubject, Emit, EventTypes, Goto, Steps, TypeOK,
                            Typed
<1>9. CASE CallTool
  BY <1>0, <1>e, <1>9, CallsAssumption
     DEF CallTool, Lifecycle!TypeOK, TypeOK, Typed
<1>10. CASE \E c \in inFlight : CallReturns(c) \/ CallFails(c) \/ CallRaises(c)
  <2>1. PICK c \in inFlight : CallReturns(c) \/ CallFails(c) \/ CallRaises(c)
    BY <1>10
  <2>2. RaiseToSubject => /\ step' \in Steps
                          /\ output' \in Executions \cup {NoOutput}
                          /\ cause' \in Causes \cup {NoCause}
                          /\ HandedOver'
    BY <1>0, <1>c, <1>e DEF RaiseToSubject, TypeOK
  <2>3. CASE CallReturns(c)
    BY <1>0, <1>e, <2>3 DEF CallReturns, Lifecycle!TypeOK, TypeOK, Typed
  <2>4. CASE CallFails(c)
    BY <1>0, <2>2, <2>4 DEF CallFails, Lifecycle!TypeOK, TypeOK, Typed
  <2>5. CASE CallRaises(c)
    BY <1>0, <2>2, <2>5 DEF CallRaises, Lifecycle!TypeOK, TypeOK, Typed
  <2> QED
    BY <2>1, <2>3, <2>4, <2>5
<1>11. CASE InvokeReturns
  <2>1. Lifecycle!TypeOK'
    BY <1>11, <1>a, AdvanceTypes DEF InvokeReturns
  <2> QED
    BY <1>0, <1>c, <1>11, <2>1 DEF InvokeReturns, Emit, EventTypes, TypeOK, Typed
<1>12. CASE InvokeFails
  <2>1. Lifecycle!TypeOK'
    BY <1>12, <1>a, MoveTypes DEF InvokeFails, Validities
  <2> QED
    BY <1>0, <1>c, <1>12, <2>1
       DEF InvokeFails, Emit, EventTypes, Validities, TypeOK, Typed
<1>13. CASE Verify
  <2>1. Lifecycle!TypeOK'
    BY <1>13, <1>a, AdvanceTypes DEF Verify
  <2> QED
    BY <1>0, <1>d, <1>13, <2>1 DEF Verify, Emit, EventTypes, Goto, Steps, VerifySteps,
                             TypeOK, Typed
<1>14. CASE BuildRequest
  BY <1>0, <1>d, <1>14 DEF BuildRequest, Emit, EventTypes, Goto, Steps, VerifySteps,
                     Lifecycle!TypeOK, TypeOK, Typed
<1>15. CASE \E code \in DetailCodes : EvaluationRaises(code)
  BY <1>0, <1>b, <1>f, <1>15 DEF EvaluationRaises, InvalidateWith, Causes,
                     Lifecycle!TypeOK, TypeOK, Typed
<1>16. CASE \E execution \in Executions : Evaluate(execution)
  BY <1>0, <1>16 DEF Evaluate, HandedOver, Steps, VerifySteps, Lifecycle!TypeOK, TypeOK, Typed
<1>17. CASE ExecutionNotPublished
  BY <1>0, <1>b, <1>f, <1>17 DEF ExecutionNotPublished, InvalidateWith, Causes,
                           Lifecycle!TypeOK, TypeOK, Typed
<1>18. CASE PublishExecution
  <2>1. /\ evidence' \in [EvidenceIds -> {"absent", "runtime", "oracle"}]
        /\ log' \subseteq EventTypes
    BY <1>0, <1>18 DEF PublishExecution, Emit, EventTypes, EvidenceIds, TypeOK
  <2>2. CASE output.status = "SUCCESS"
    BY <1>0, <1>d, <1>18, <2>1, <2>2
       DEF PublishExecution, Goto, Steps, VerifySteps, Lifecycle!TypeOK, TypeOK, Typed
  <2>3. CASE output.status # "SUCCESS"
    <3>1. output.status \in DOMAIN FailureDetail
      BY <1>0, <1>18, <2>3 DEF PublishExecution, HandedOver, Executions
    <3>2. FailureDetail[output.status] \in DetailCodes
      BY <3>1 DEF FailureDetail, DetailCodes
    <3> QED
      BY <1>0, <1>b, <1>f, <1>18, <2>1, <2>3, <3>2
         DEF PublishExecution, InvalidateWith, Causes, Lifecycle!TypeOK, TypeOK, Typed
  <2> QED
    BY <2>2, <2>3
<1>19. CASE \E i \in OracleIds : PublishItem(i)
  <2>1. PICK i \in OracleIds : PublishItem(i)
    BY <1>19
  <2>2. output' \in Executions
    BY <1>0, <2>1 DEF PublishItem, TypeOK, Executions, NoOutput
  <2> QED
    BY <1>0, <1>d, <2>1, <2>2 DEF PublishItem, EvidenceIds, Lifecycle!TypeOK, TypeOK, Typed
<1>20. CASE ItemRejected
  BY <1>0, <1>b, <1>f, <1>20 DEF ItemRejected, InvalidateWith, Causes, DetailCodes,
                           Lifecycle!TypeOK, TypeOK, Typed
<1>21. CASE ItemNotStored
  BY <1>0, <1>b, <1>f, <1>21 DEF ItemNotStored, InvalidateWith, Causes,
                           Lifecycle!TypeOK, TypeOK, Typed
<1>22. CASE Accept
  <2>1. verification' \in SUBSET Results
    BY <1>0, <1>22 DEF Accept, TypeOK, Executions, NoOutput
  <2>2. CASE Unresolved(verification') # {}
    BY <1>0, <1>b, <1>f, <1>22, <2>1, <2>2
       DEF Accept, InvalidateWith, Causes, DetailCodes, Lifecycle!TypeOK, TypeOK, Typed
  <2>3. CASE Unresolved(verification') = {}
    BY <1>0, <1>d, <1>22, <2>1, <2>3
       DEF Accept, VerdictOf, Verdicts, Goto, Steps, VerifySteps, Validities,
           Lifecycle!TypeOK, TypeOK, Typed
  <2> QED
    BY <2>2, <2>3
<1>23. CASE TelemetryFinalized \/ TelemetryNotStored
  <2>1. artifact' \in Completeness \cup {NoArtifact}
    BY <1>0, <1>23 DEF TelemetryFinalized, TelemetryNotStored, ArtifactAfter,
                       Finalized, Completeness, TypeOK
  <2>2. evidence' \in [EvidenceIds -> {"absent", "runtime", "oracle"}]
    BY <1>0, <1>23 DEF TelemetryFinalized, TelemetryNotStored, PublishTelemetry,
                       EvidenceIds, TypeOK
  <2>3. /\ step' \in Steps
        /\ output' \in Executions \cup {NoOutput}
        /\ cause' \in Causes \cup {NoCause}
        /\ HandedOver'
    <3>1. \/ Goto("complete")
          \/ InvalidateWith("TRACE_INCOMPLETE", NoDetail)
          \/ InvalidateWith("INFRA_CONFOUND", NoDetail)
      BY <1>23 DEF TelemetryFinalized, TelemetryNotStored
    <3>2. CASE Goto("complete")
      BY <1>0, <1>d, <3>2 DEF Goto, Steps, VerifySteps, TypeOK
    <3>3. ASSUME NEW v \in {"TRACE_INCOMPLETE", "INFRA_CONFOUND"},
                 InvalidateWith(v, NoDetail)
          PROVE  /\ step' \in Steps
                 /\ output' \in Executions \cup {NoOutput}
                 /\ cause' \in Causes \cup {NoCause}
                 /\ HandedOver'
      BY <1>0, <1>b, <1>f, <3>3 DEF InvalidateWith, Causes, TypeOK
    <3> QED
      BY <3>1, <3>2, <3>3
  <2> QED
    BY <1>0, <1>23, <2>1, <2>2, <2>3
       DEF TelemetryFinalized, TelemetryNotStored, Lifecycle!TypeOK, TypeOK, Typed
<1>24. CASE Complete
  <2>1. Lifecycle!TypeOK'
    BY <1>0, <1>24, <1>a, AdvanceTypes DEF Complete, Lifecycle!TypeOK
  <2> QED
    BY <1>0, <1>c, <1>24, <2>1 DEF Complete, TypeOK, Typed
<1>25. CASE Invalidate
  <2>1. cause \in Causes
    BY <1>0, <1>25 DEF Invalidate, HandedOver
  <2>2. /\ cause.validity \in Validities
        /\ cause.detail \in DetailCodes \cup {NoDetail}
        /\ cause.validity = "ORACLE_FAILURE" => cause.detail \in DetailCodes
    BY <2>1, CausesTyped
  <2>3. Lifecycle!TypeOK'
    <3>1. CASE FreezeRaises("INVALID", cause.validity)
      BY <1>0, <1>25, <3>1 DEF Invalidate, Lifecycle!TypeOK
    <3>2. CASE ~FreezeRaises("INVALID", cause.validity)
      BY <1>25, <1>a, <2>2, <3>2, MoveTypes DEF Invalidate
    <3> QED
      BY <3>1, <3>2
  <2>4. Return \/ Leave("closeInvalid")
    BY <1>25 DEF Invalidate
  <2> QED
    BY <1>0, <1>c, <1>25, <2>2, <2>3, <2>4
       DEF Invalidate, Verdicts, TypeOK, Typed
<1>26. CASE Snapshot
  BY <1>0, <1>e, <1>26 DEF Snapshot, Lifecycle!TypeOK, TypeOK, Typed
<1>27. CASE \E w \in snapshots : Restore(w)
  BY <1>0, <1>e, <1>27 DEF Restore, Lifecycle!TypeOK, TypeOK, Typed
<1>28. CASE \E f \in Faults : InjectFault(f)
  BY <1>0, <1>e, <1>28 DEF InjectFault, Lifecycle!TypeOK, TypeOK, Typed
<1>29. CASE ReleaseSubject
  BY <1>0, <1>d, <1>29 DEF ReleaseSubject, Goto, Steps, Lifecycle!TypeOK, TypeOK, Typed
<1>30. CASE ReleaseEnvironment \/ ReleaseEnvironmentFails
  BY <1>0, <1>c, <1>30 DEF ReleaseEnvironment, ReleaseEnvironmentFails,
                           Lifecycle!TypeOK, TypeOK, Typed
<1>31. CASE UNCHANGED vars
  BY <1>0, <1>e, <1>31 DEF vars, Lifecycle!TypeOK, TypeOK, Typed
<1>32. CASE StoreRaises
  <2>1. artifact' \in Completeness \cup {NoArtifact}
    BY <1>0, <1>32 DEF StoreRaises, ArtifactAfter, Finalized, Completeness, TypeOK
  <2> QED
    BY <1>0, <1>c, <1>32, <2>1 DEF StoreRaises, Lifecycle!TypeOK, TypeOK, Typed
<1>33. CASE CloseTrace
  BY <1>0, <1>c, <1>33, CloseTypes DEF CloseTrace, Lifecycle!TypeOK, TypeOK, Typed
<1> QED
  BY <1>1, <1>2, <1>3, <1>4, <1>5, <1>6, <1>7, <1>8, <1>9, <1>10, <1>11,
     <1>12, <1>13, <1>14, <1>15, <1>16, <1>17, <1>18, <1>19, <1>20, <1>21,
     <1>22, <1>23, <1>24, <1>25, <1>26, <1>27, <1>28, <1>29, <1>30, <1>31,
     <1>32, <1>33
     DEF Next, HostStep, HandlerStep, ProvisionStep, InvokeStep, VerifyStep,
         ReleaseStep

\* Every state the runtime can be in is typed.
THEOREM TypeCorrect == Spec => []TypeOK
<1>1. Typed => TypeOK
  BY DEF Typed
<1> QED
  BY <1>1, InitTyped, NextTyped, PTL DEF Spec

-----------------------------------------------------------------------------
(* What the handlers keep true between their steps *)

\* A handler runs in the state it was called for; a record exists only at an
\* end that verify reached, and results only from verify on.
Phases ==
    /\ step \in ProvisionSteps => state = "PROVISIONING"
    /\ step = "invoke" => state = "RUNNING"
    /\ step \in VerifySteps => state = "VERIFYING"
    /\ step = "closeFailed" => state = "INFRA_FAILED"
    /\ step = "closeInvalid" => state = "INVALID"
    /\ evaluation # NoEvaluation => state \in {"COMPLETED", "INVALID"}
    /\ state \notin {"VERIFYING", "COMPLETED", "INVALID"} =>
         taskVerdict = "INCONCLUSIVE" /\ verification = {}
    /\ state \notin {"PAUSED", "ABORTED"}

\* The execution record is the runtime's own, and the events say so.
Traced ==
    /\ evidence[ExecutionId] # "oracle"
    /\ evidence[ExecutionId] = "runtime" <=> ExecutionRecorded
    /\ step \in VerifySteps => "episode.verification.started" \in log
    /\ step \in VerifySteps \ {"buildRequest", "invalidate"} =>
         "oracle.execution.started" \in log
    /\ step \in {"publishItems", "telemetry", "complete"} =>
         "oracle.execution.completed" \in log
    /\ verification # {} => "oracle.execution.completed" \in log

\* What verify has established when it reaches each of its last steps.
Pending ==
    /\ detail # NoDetail <=> validity = "ORACLE_FAILURE"
    /\ step \in VerifySteps \ {"telemetry", "complete", "invalidate"} =>
         verification = {}
    /\ step \in {"telemetry", "complete"} =>
         /\ validity = "VALID"
         /\ taskVerdict = VerdictOf(verification)
         /\ Unresolved(verification) = {}
    /\ step = "invalidate" /\ cause.validity # "ORACLE_FAILURE" =>
         Unresolved(verification) = {}

Accountable ==
    Phases /\ Traced /\ Pending /\ AcceptanceSound /\ OutcomeConsistent

\* The steps that leave the Episode's account alone: those of host calls that
\* serve other purposes, of the Subject's calls, of provision between its
\* first and its last call, and of release.
account == <<state, evaluation, outcomeVars, traceVars>>

Idles ==
    /\ UNCHANGED account
    /\ \/ UNCHANGED <<step, output, cause>>
       \/ step' \in {"idle", "releaseEnvironment"}
       \/ step \in ProvisionSteps /\ step' \in ProvisionSteps

\* The steps that write it.
Writes ==
    \/ Provision
    \/ ResetEnvironment
    \/ \E v \in Validities : ProvisionFails(v)
    \/ RunSubject
    \/ InvokeReturns
    \/ InvokeFails
    \/ Verify
    \/ VerifyStep
    \/ CloseTrace

\* Every step is of one kind or the other.
LEMMA NextIdlesOrWrites == [Next]_vars => Idles \/ Writes
<1> SUFFICES ASSUME [Next]_vars
             PROVE  Idles \/ Writes
  OBVIOUS
<1> USE DEF Idles, account, lifecycleVars, outcomeVars, traceVars, handlerVars
<1>1. ASSUME NEW source \in Sources, BindReplaySource(source)
      PROVE  Idles
  BY <1>1 DEF BindReplaySource, Lifecycle!BindReplaySource
<1>2. CASE ProvisionEnvironment \/ OpenSubject \/ OpenGateway
  BY <1>2 DEF ProvisionEnvironment, OpenSubject, OpenGateway, Goto, ProvisionSteps
<1>3. ASSUME NEW c \in inFlight, CallReturns(c) \/ CallFails(c) \/ CallRaises(c)
      PROVE  Idles
  BY <1>3 DEF CallReturns, CallFails, CallRaises, RaiseToSubject, Return, Leave
<1>4. CASE CallTool \/ Snapshot \/ ReleaseSubject
  BY <1>4 DEF CallTool, Snapshot, ReleaseSubject, Goto
<1>5. ASSUME NEW w \in snapshots, Restore(w)
      PROVE  Idles
  BY <1>5 DEF Restore
<1>6. ASSUME NEW f \in Faults, InjectFault(f)
      PROVE  Idles
  BY <1>6 DEF InjectFault
<1>7. CASE ReleaseStep
  BY <1>7 DEF ReleaseStep, ReleaseEnvironment, ReleaseEnvironmentFails, Return,
              Leave
<1>8. CASE UNCHANGED vars
  BY <1>8 DEF vars
<1> QED
  BY <1>1, <1>2, <1>3, <1>4, <1>5, <1>6, <1>7, <1>8
     DEF Next, HostStep, HandlerStep, ProvisionStep, InvokeStep, Writes

\* A move to anything but the two ends of verify freezes nothing.
LEMMA PlainMove ==
    ASSUME NEW target \in Lifecycle!States \ {"COMPLETED", "INVALID"},
           NEW v, NEW d, MoveTo(target, v, d)
    PROVE  /\ state' = target
           /\ target \in Lifecycle!Transitions[state]
           /\ evaluation' = evaluation
BY DEF MoveTo, FreezesFailure, FreezesAcceptance

\* The same for a move under the Episode's own validity.
LEMMA PlainAdvance ==
    ASSUME NEW target \in Lifecycle!States \ {"COMPLETED", "INVALID"},
           Advance(target)
    PROVE  /\ state' = target
           /\ target \in Lifecycle!Transitions[state]
           /\ evaluation' = evaluation
BY PlainMove DEF Advance

\* Evidence is only ever added, so what was resolved stays resolved.
LEMMA StaysResolved ==
    ASSUME verification \in SUBSET Results, verification' = verification,
           \A id \in EvidenceIds : Registered(id) => Registered(id)',
           Unresolved(verification) = {}
    PROVE  Unresolved(verification)' = {}
<1>1. \A r \in verification : \A id \in r.cites : id \in EvidenceIds
  BY ResultsAssumption
<1>2. \A r \in verification : \A id \in r.cites : Registered(id)
  BY DEF Unresolved
<1> QED
  BY <1>1, <1>2 DEF Unresolved, Registered

\* Finalizing the telemetry registers at most the telemetry Evidence.
LEMMA CloseAdds ==
    ASSUME TypeOK, CloseTrace
    PROVE  /\ evidence'[ExecutionId] = evidence[ExecutionId]
           /\ \A id \in EvidenceIds : Registered(id) => Registered(id)'
BY DEF CloseTrace, PublishTelemetry, TypeOK, Registered, EvidenceIds,
       ExecutionId, TelemetryId

\* A new Episode has nothing to account for.
LEMMA InitAccountable == Init => Accountable
<1> SUFFICES ASSUME Init
             PROVE  Accountable
  OBVIOUS
<1>1. ExecutionId \in EvidenceIds
  BY DEF EvidenceIds
<1>2. Phases
  BY DEF Init, Lifecycle!Init, Phases, ProvisionSteps, VerifySteps
<1>3. Traced
  BY <1>1 DEF Init, Traced, ExecutionRecorded, VerifySteps
<1>4. Pending
  BY DEF Init, Pending, VerifySteps
<1>5. AcceptanceSound /\ OutcomeConsistent
  BY DEF Init, Lifecycle!Init, AcceptanceSound, OutcomeConsistent,
         Lifecycle!Terminal, Terminal
<1> QED
  BY <1>2, <1>3, <1>4, <1>5 DEF Accountable

\* Steps that leave the account alone keep it in order.
LEMMA IdlesKeep == Accountable /\ Idles => Accountable'
<1> SUFFICES ASSUME Accountable, Idles
             PROVE  Accountable'
  OBVIOUS
<1> USE DEF account, outcomeVars, traceVars, lifecycleVars
<1>1. "idle" \notin ProvisionSteps \cup VerifySteps \cup {"invoke"}
      /\ "releaseEnvironment" \notin ProvisionSteps \cup VerifySteps \cup {"invoke"}
      /\ ProvisionSteps
           \cap (VerifySteps \cup {"invoke", "closeFailed", "closeInvalid"}) = {}
  BY DEF ProvisionSteps, VerifySteps
<1>2. Phases'
  BY <1>1 DEF Accountable, Idles, Phases
<1>3. Traced'
  BY <1>1 DEF Accountable, Idles, Traced, ExecutionRecorded, VerifySteps
<1>4. Pending'
  BY <1>1 DEF Accountable, Idles, Pending, VerifySteps, VerdictOf, Unresolved, Registered
<1>5. AcceptanceSound'
  BY DEF Accountable, Idles, AcceptanceSound, Unresolved, Registered
<1>6. OutcomeConsistent'
  BY DEF Accountable, Idles, OutcomeConsistent, Terminal, Lifecycle!Terminal
<1> QED
  BY <1>2, <1>3, <1>4, <1>5, <1>6 DEF Accountable

\* The steps of verify before its last: the state and the record stay.
LEMMA VerifyMoves ==
    ASSUME Phases, VerifyStep, ~Complete, ~Invalidate
    PROVE  /\ state = "VERIFYING" /\ state' = state
           /\ evaluation = NoEvaluation /\ evaluation' = evaluation
           /\ step \in VerifySteps
<1> USE DEF outcomeVars, traceVars, lifecycleVars, handlerVars
<1>1. step \in VerifySteps /\ UNCHANGED <<state, evaluation>>
  BY DEF VerifyStep, BuildRequest, EvaluationRaises, RaisedDetail, Evaluate,
         ExecutionNotPublished, PublishExecution, PublishItem, ItemRejected,
         ItemNotStored, Accept, TelemetryFinalized, TelemetryNotStored,
         StoreRaises, VerifySteps
<1> QED
  BY <1>1 DEF Phases

\* The steps that write keep state and step together.
LEMMA WritesKeepPhases == Typed /\ Accountable /\ Writes => Phases'
<1> SUFFICES ASSUME Typed, Accountable, Writes
             PROVE  Phases'
  OBVIOUS
<1> USE DEF outcomeVars, traceVars, lifecycleVars, handlerVars
<1>0. /\ Phases
      /\ state \in Lifecycle!States
      /\ verification \in SUBSET Results
  BY DEF Accountable, Typed, TypeOK, Lifecycle!TypeOK
<1>a. /\ {"PROVISIONING", "READY", "RUNNING", "QUIESCING", "VERIFYING",
          "INFRA_FAILED"} \subseteq Lifecycle!States \ {"COMPLETED", "INVALID"}
      /\ ({"idle"} \cup ClosingSteps)
           \cap (ProvisionSteps \cup VerifySteps \cup {"invoke"}) = {}
  BY DEF Lifecycle!States, ProvisionSteps, VerifySteps, ClosingSteps
<1> USE DEF Leave
<1>1. CASE Provision
  <2>1. state' = "PROVISIONING" /\ evaluation' = evaluation /\ state = "CREATED"
    BY <1>1, <1>a, PlainAdvance, <1>0
       DEF Provision, Lifecycle!Transitions, Lifecycle!Forward,
           Lifecycle!Failed, Lifecycle!Terminal, Lifecycle!States
  <2> QED
    BY <1>0, <1>1, <2>1 DEF Provision, Goto, Phases, ProvisionSteps, VerifySteps
<1>2. CASE ResetEnvironment
  <2>1. state' = "READY" /\ evaluation' = evaluation
    BY <1>2, <1>a, PlainAdvance DEF ResetEnvironment
  <2> QED
    BY <1>0, <1>a, <1>2, <2>1 DEF ResetEnvironment, Return, Phases, ProvisionSteps
<1>3. CASE \E v \in Validities : ProvisionFails(v)
  <2>1. PICK v \in Validities : ProvisionFails(v)
    BY <1>3
  <2>2. state' = "INFRA_FAILED" /\ evaluation' = evaluation
    BY <2>1, <1>a, PlainMove DEF ProvisionFails
  <2> QED
    BY <1>0, <1>a, <2>1, <2>2 DEF ProvisionFails, ClosingSteps, Phases
<1>4. CASE RunSubject
  <2>1. state' = "RUNNING" /\ evaluation' = evaluation
    BY <1>4, <1>a, PlainAdvance DEF RunSubject
  <2> QED
    BY <1>0, <1>4, <2>1 DEF RunSubject, Goto, Phases, ProvisionSteps, VerifySteps
<1>5. CASE InvokeReturns
  <2>1. state' = "QUIESCING" /\ evaluation' = evaluation
    BY <1>5, <1>a, PlainAdvance DEF InvokeReturns
  <2> QED
    BY <1>0, <1>a, <1>5, <2>1 DEF InvokeReturns, Return, Phases
<1>6. CASE InvokeFails
  <2>1. state' = "INFRA_FAILED" /\ evaluation' = evaluation
    BY <1>6, <1>a, PlainMove DEF InvokeFails
  <2> QED
    BY <1>0, <1>a, <1>6, <2>1 DEF InvokeFails, ClosingSteps, Phases
<1>7. CASE Verify
  <2>1. state' = "VERIFYING" /\ evaluation' = evaluation
    BY <1>7, <1>a, PlainAdvance DEF Verify
  <2> QED
    BY <1>0, <1>7, <2>1 DEF Verify, Goto, Phases, ProvisionSteps, VerifySteps
<1>8. CASE VerifyStep /\ ~Complete /\ ~Invalidate
  <2>1. step \in VerifySteps /\ UNCHANGED <<state, evaluation>>
    BY <1>0, <1>8, VerifyMoves
  <2>2. step' \in VerifySteps \cup {"idle"}
    BY <1>8, <2>1
       DEF VerifyStep, BuildRequest, EvaluationRaises, Evaluate,
           ExecutionNotPublished, PublishExecution, PublishItem, ItemRejected,
           ItemNotStored, Accept, TelemetryFinalized, TelemetryNotStored,
           StoreRaises, Goto, Return, InvalidateWith, VerifySteps
  <2> QED
    BY <1>0, <2>1, <2>2 DEF Phases, ProvisionSteps, VerifySteps
<1>9. CASE Complete
  <2>1. state' \in {state, "COMPLETED"}
        /\ (state' = state => evaluation' = evaluation)
    BY <1>0, <1>9 DEF Complete, Advance, MoveTo, Phases, VerifySteps
  <2> QED
    BY <1>0, <1>a, <1>9, <2>1 DEF Complete, Return, Phases, VerifySteps
<1>10. CASE Invalidate
  <2>1. state = "VERIFYING"
    BY <1>0, <1>10 DEF Invalidate, Phases, VerifySteps
  <2>2. \/ step' = "idle" /\ UNCHANGED <<state, evaluation>>
        \/ step' = "closeInvalid" /\ state' = "INVALID"
    BY <1>10 DEF Invalidate, MoveTo, Return
  <2> QED
    BY <1>0, <1>a, <2>1, <2>2 DEF Phases, ClosingSteps
<1>11. CASE CloseTrace
  BY <1>0, <1>a, <1>11 DEF CloseTrace, Return, Phases, ClosingSteps
<1> QED
  BY <1>1, <1>2, <1>3, <1>4, <1>5, <1>6, <1>7, <1>8, <1>9, <1>10, <1>11
     DEF Writes

\* They keep events and execution Evidence together.
LEMMA WritesKeepTrace == Typed /\ Accountable /\ Writes => Traced'
<1> SUFFICES ASSUME Typed, Accountable, Writes
             PROVE  Traced'
  OBVIOUS
<1> USE DEF outcomeVars, traceVars, lifecycleVars, handlerVars, Emit,
            ExecutionRecorded, Leave
<1>0. /\ Phases /\ Traced /\ Pending
      /\ TypeOK
      /\ ExecutionId \in EvidenceIds
      /\ evidence \in [EvidenceIds -> {"absent", "runtime", "oracle"}]
      /\ {"idle", "closeFailed", "closeInvalid"} \cap VerifySteps = {}
  BY DEF Accountable, Typed, TypeOK, EvidenceIds, VerifySteps
<1>1. CASE Provision \/ ResetEnvironment
  BY <1>0, <1>1 DEF Provision, ResetEnvironment, Goto, Return, Traced, VerifySteps
<1>2. CASE \E v \in Validities : ProvisionFails(v)
  BY <1>0, <1>2 DEF ProvisionFails, Traced, VerifySteps
<1>3. CASE RunSubject \/ InvokeReturns
  BY <1>0, <1>3 DEF RunSubject, InvokeReturns, Goto, Return, Traced, VerifySteps
<1>4. CASE InvokeFails
  BY <1>0, <1>4 DEF InvokeFails, Traced, VerifySteps
<1>5. CASE Verify \/ BuildRequest
  BY <1>0, <1>5 DEF Verify, BuildRequest, Goto, Traced, VerifySteps
<1>6. CASE \E code \in DetailCodes : EvaluationRaises(code)
  BY <1>0, <1>6 DEF EvaluationRaises, RaisedDetail, InvalidateWith, Traced,
                    VerifySteps
<1>7. CASE \E execution \in Executions : Evaluate(execution)
  BY <1>0, <1>7 DEF Evaluate, Traced, VerifySteps
<1>8. CASE ExecutionNotPublished \/ ItemRejected \/ ItemNotStored
  BY <1>0, <1>8 DEF ExecutionNotPublished, ItemRejected, ItemNotStored,
                    InvalidateWith, Traced, VerifySteps
<1>9. CASE PublishExecution
  <2>1. evidence'[ExecutionId] = "runtime"
    BY <1>0, <1>9 DEF PublishExecution
  <2> QED
    BY <1>0, <1>9, <2>1 DEF PublishExecution, Goto, InvalidateWith, Traced,
                            VerifySteps
<1>10. CASE \E i \in OracleIds : PublishItem(i)
  <2>1. PICK i \in OracleIds : PublishItem(i)
    BY <1>10
  <2>2. i # ExecutionId
    BY <1>0, <2>1 DEF PublishItem, Registered, Traced
  <2>3. evidence'[ExecutionId] = evidence[ExecutionId]
    BY <1>0, <2>1, <2>2 DEF PublishItem
  <2> QED
    BY <1>0, <2>1, <2>3 DEF PublishItem, Traced
<1>11. CASE Accept
  BY <1>0, <1>11 DEF Accept, Goto, InvalidateWith, Traced, VerifySteps
<1>12. CASE TelemetryFinalized \/ TelemetryNotStored
  <2>1. evidence'[ExecutionId] = evidence[ExecutionId]
    BY <1>0, <1>12 DEF TelemetryFinalized, TelemetryNotStored, PublishTelemetry,
                       ExecutionId, TelemetryId
  <2>2. step' \in {"complete", "invalidate"} /\ step = "telemetry"
    BY <1>12 DEF TelemetryFinalized, TelemetryNotStored, Goto, InvalidateWith
  <2>3. UNCHANGED <<log, verification>>
    BY <1>12 DEF TelemetryFinalized, TelemetryNotStored
  <2> QED
    BY <1>0, <2>1, <2>2, <2>3 DEF Traced, VerifySteps
<1>13. CASE Complete
  BY <1>0, <1>13 DEF Complete, Return, Traced
<1>14. CASE Invalidate \/ StoreRaises
  <2>1. /\ UNCHANGED <<log, evidence, verification>>
        /\ step' \notin VerifySteps
    BY <1>0, <1>14 DEF Invalidate, StoreRaises, Return
  <2> QED
    BY <1>0, <2>1 DEF Traced, VerifySteps
<1>15. CASE CloseTrace
  <2>1. evidence'[ExecutionId] = evidence[ExecutionId]
    BY <1>0, <1>15, CloseAdds
  <2> QED
    BY <1>0, <1>15, <2>1 DEF CloseTrace, Return, Traced, VerifySteps
<1> QED
  BY <1>1, <1>2, <1>3, <1>4, <1>5, <1>6, <1>7, <1>8, <1>9, <1>10, <1>11,
     <1>12, <1>13, <1>14, <1>15 DEF Writes, VerifyStep

\* They establish what the next step of verify relies on.
LEMMA WritesKeepPending == Typed /\ Accountable /\ Writes => Pending'
<1> SUFFICES ASSUME Typed, Accountable, Writes
             PROVE  Pending'
  OBVIOUS
<1> USE DEF outcomeVars, traceVars, lifecycleVars, handlerVars, VerdictOf,
            Leave
<1>0. /\ Phases /\ Traced /\ Pending
      /\ TypeOK /\ HandedOver
      /\ verification \in SUBSET Results
      /\ NoDetail \notin DetailCodes
      /\ {"idle", "invoke", "closeFailed", "closeInvalid"} \cap VerifySteps = {}
      /\ ProvisionSteps \cap VerifySteps = {}
  BY DEF Accountable, Typed, TypeOK, VerifySteps, ProvisionSteps, NoDetail,
         DetailCodes
<1>1. CASE Provision \/ ResetEnvironment \/ RunSubject \/ InvokeReturns
  BY <1>0, <1>1 DEF Provision, ResetEnvironment, RunSubject, InvokeReturns, Goto,
                    Return, Pending, VerifySteps
<1>2. CASE \E v \in Validities : ProvisionFails(v)
  BY <1>0, <1>2 DEF ProvisionFails, ProvisionFailure, ProvisionSteps, Pending
<1>3. CASE InvokeFails
  BY <1>0, <1>3 DEF InvokeFails, Pending
<1>4. CASE Verify
  BY <1>0, <1>4 DEF Verify, Goto, Pending, Phases
<1>5. CASE BuildRequest
  BY <1>0, <1>5 DEF BuildRequest, Goto, Pending, VerifySteps
<1>6. CASE \E code \in DetailCodes : EvaluationRaises(code)
  BY <1>0, <1>6 DEF EvaluationRaises, InvalidateWith, Pending, VerifySteps
<1>7. CASE \E execution \in Executions : Evaluate(execution)
  BY <1>0, <1>7 DEF Evaluate, Pending, VerifySteps
<1>8. CASE ExecutionNotPublished \/ ItemNotStored
  BY <1>0, <1>8 DEF ExecutionNotPublished, ItemNotStored, InvalidateWith, Pending,
                    VerifySteps, Unresolved
<1>9. CASE PublishExecution
  BY <1>0, <1>9 DEF PublishExecution, Goto, InvalidateWith, Pending, VerifySteps
<1>10. CASE \E i \in OracleIds : PublishItem(i)
  BY <1>0, <1>10 DEF PublishItem, Pending, VerifySteps
<1>11. CASE ItemRejected
  BY <1>0, <1>11 DEF ItemRejected, InvalidateWith, Pending, VerifySteps
<1>12. CASE Accept
  <2>1. Unresolved(verification)' = Unresolved(verification')
    BY <1>12 DEF Accept, Unresolved, Registered
  <2>2. CASE Unresolved(verification') # {}
    BY <1>0, <1>12, <2>2 DEF Accept, InvalidateWith, Pending, VerifySteps
  <2>3. CASE Unresolved(verification') = {}
    BY <1>0, <1>12, <2>1, <2>3 DEF Accept, Goto, Pending, VerifySteps, NoDetail
  <2> QED
    BY <2>2, <2>3
<1>13. CASE TelemetryFinalized \/ TelemetryNotStored
  <2>1. /\ step = "telemetry"
        /\ step' \in {"complete", "invalidate"}
        /\ UNCHANGED <<validity, detail, taskVerdict, verification>>
    BY <1>13 DEF TelemetryFinalized, TelemetryNotStored, Goto, InvalidateWith
  <2>2. \A id \in EvidenceIds : Registered(id) => Registered(id)'
    BY <1>0, <1>13 DEF TelemetryFinalized, TelemetryNotStored, PublishTelemetry,
                       Registered, TypeOK
  <2>3. Unresolved(verification)' = {}
    BY <1>0, <2>1, <2>2, StaysResolved DEF Pending
  <2> QED
    BY <1>0, <2>1, <2>3 DEF Pending, VerifySteps
<1>14. CASE Complete \/ StoreRaises \/ CloseTrace
  <2>1. UNCHANGED <<validity, detail>> /\ step' = "idle"
    BY <1>14 DEF Complete, StoreRaises, CloseTrace, Return
  <2> QED
    BY <1>0, <2>1 DEF Pending
<1>15. CASE Invalidate
  <2>1. cause \in Causes
    BY <1>0, <1>15 DEF Invalidate, HandedOver
  <2>2. cause.detail # NoDetail <=> cause.validity = "ORACLE_FAILURE"
    BY <1>0, <2>1, CausesTyped
  <2> QED
    BY <1>0, <1>15, <2>2 DEF Invalidate, Return, Pending
<1> QED
  BY <1>1, <1>2, <1>3, <1>4, <1>5, <1>6, <1>7, <1>8, <1>9, <1>10, <1>11,
     <1>12, <1>13, <1>14, <1>15 DEF Writes, VerifyStep

\* An Episode that has not ended and has no record owes no account yet.
LEMMA NothingToSay ==
    ASSUME evaluation' = NoEvaluation,
           state' \notin {"COMPLETED", "INVALID", "INFRA_FAILED", "ABORTED"}
    PROVE  AcceptanceSound' /\ OutcomeConsistent'
BY DEF AcceptanceSound, OutcomeConsistent, Terminal, Lifecycle!Terminal

\* Of the steps that write, only the two that end verify freeze a record.
LEMMA WritesKeepRecords ==
    Typed /\ Accountable /\ Writes => AcceptanceSound' /\ OutcomeConsistent'
<1> SUFFICES ASSUME Typed, Accountable, Writes
             PROVE  AcceptanceSound' /\ OutcomeConsistent'
  OBVIOUS
<1> USE DEF outcomeVars, traceVars, lifecycleVars, handlerVars
<1>0. /\ Phases /\ Traced /\ Pending
      /\ TypeOK /\ HandedOver
      /\ verification \in SUBSET Results
      /\ NoDetail \notin DetailCodes
      /\ state \in Lifecycle!States
  BY DEF Accountable, Typed, TypeOK, Lifecycle!TypeOK, NoDetail, DetailCodes
<1>a. {"PROVISIONING", "READY", "RUNNING", "QUIESCING", "VERIFYING",
       "INFRA_FAILED"} \subseteq Lifecycle!States \ {"COMPLETED", "INVALID"}
  BY DEF Lifecycle!States
<1>k. AcceptanceSound /\ OutcomeConsistent
  BY DEF Accountable
<1>1. CASE Provision \/ ResetEnvironment \/ RunSubject \/ InvokeReturns \/ Verify
  <2>1. PICK target \in {"PROVISIONING", "READY", "RUNNING", "QUIESCING",
                         "VERIFYING"} : Advance(target)
    BY <1>1 DEF Provision, ResetEnvironment, RunSubject, InvokeReturns, Verify
  <2>2. /\ state' = target /\ evaluation' = evaluation
        /\ target \in Lifecycle!Transitions[state]
    BY <1>a, <2>1, PlainAdvance
  <2>3. state \notin {"COMPLETED", "INVALID"}
    BY <1>0, <2>2 DEF Lifecycle!Transitions, Lifecycle!Terminal
  <2> QED
    BY <1>0, <2>2, <2>3, NothingToSay DEF Phases
<1>2. CASE \E v \in Validities : ProvisionFails(v)
  <2>1. PICK v \in Validities : ProvisionFails(v)
    BY <1>2
  <2>2. v \notin {"VALID", "ORACLE_FAILURE"} /\ step \in ProvisionSteps
    BY <2>1 DEF ProvisionFails, ProvisionFailure, ProvisionSteps
  <2>3. state' = "INFRA_FAILED" /\ evaluation' = evaluation
    BY <2>1, <1>a, PlainMove DEF ProvisionFails
  <2> QED
    BY <1>0, <2>1, <2>2, <2>3
       DEF ProvisionFails, Phases, AcceptanceSound, OutcomeConsistent, Terminal,
           Lifecycle!Terminal
<1>3. CASE InvokeFails
  <2>1. state' = "INFRA_FAILED" /\ evaluation' = evaluation
    BY <1>3, <1>a, PlainMove DEF InvokeFails
  <2> QED
    BY <1>0, <1>3, <2>1
       DEF InvokeFails, Phases, AcceptanceSound, OutcomeConsistent, Terminal,
           Lifecycle!Terminal
<1>4. CASE VerifyStep /\ ~Complete /\ ~Invalidate
  BY <1>0, <1>4, VerifyMoves, NothingToSay
<1>5. CASE Complete
  <2>1. /\ state = "VERIFYING" /\ evaluation = NoEvaluation
        /\ validity = "VALID" /\ detail = NoDetail
        /\ taskVerdict = VerdictOf(verification)
        /\ Unresolved(verification) = {}
        /\ "oracle.execution.completed" \in log
        /\ VerificationRequested /\ ExecutionRecorded
        /\ evidence[ExecutionId] = "runtime"
        /\ UNCHANGED <<outcomeVars, traceVars>>
    BY <1>0, <1>5 DEF Complete, Phases, Traced, Pending, VerifySteps,
                      VerificationRequested, ExecutionRecorded
  <2>2. CASE FreezeRaises("COMPLETED", validity)
    BY <1>5, <2>1, <2>2, NothingToSay DEF Complete
  <2>3. CASE ~FreezeRaises("COMPLETED", validity)
    <3>1. FreezesAcceptance("COMPLETED", validity)
      BY <2>1 DEF FreezesAcceptance
    <3>2. state' = "COMPLETED" /\ evaluation' = AcceptanceRecord
      BY <1>5, <2>1, <2>3, <3>1 DEF Complete, Advance, MoveTo, FreezesFailure
    <3>3. \A r \in verification : r.valid
      BY <2>3, <3>1 DEF FreezeRaises
    <3>4. AcceptanceRecord # NoEvaluation
      BY <1>0, <3>3, RecordsExist, EvaluationAssumption
    <3>5. Unresolved(verification)' = {}
      BY <2>1 DEF Unresolved, Registered
    <3>6. AcceptanceSound'
      BY <2>1, <3>2, <3>5 DEF AcceptanceSound, AcceptanceRecord, Unresolved,
                              Registered
    <3>7. OutcomeConsistent'
      BY <2>1, <3>2, <3>4 DEF OutcomeConsistent, AcceptanceRecord, VerdictOf
    <3> QED
      BY <3>6, <3>7
  <2> QED
    BY <2>2, <2>3
<1>6. CASE Invalidate
  <2>1. cause \in Causes
    BY <1>0, <1>6 DEF Invalidate, HandedOver
  <2>2. /\ state = "VERIFYING" /\ evaluation = NoEvaluation
        /\ cause.validity # "VALID"
        /\ cause.validity = "ORACLE_FAILURE" <=> cause.detail \in DetailCodes
        /\ cause.detail \in DetailCodes \cup {NoDetail}
        /\ validity' = cause.validity /\ detail' = cause.detail
        /\ taskVerdict' = "INCONCLUSIVE"
        /\ UNCHANGED <<verification, log>>
    BY <1>0, <1>6, <2>1, CausesTyped DEF Invalidate, Phases, VerifySteps
  <2>3. CASE FreezeRaises("INVALID", cause.validity)
    BY <1>6, <2>2, <2>3, NothingToSay DEF Invalidate
  <2>4. CASE ~FreezeRaises("INVALID", cause.validity)
    <3>1. /\ MoveTo("INVALID", cause.validity, cause.detail)
          /\ UNCHANGED evidence
      BY <1>6, <2>4 DEF Invalidate
    <3>2. state' = "INVALID"
      BY <3>1 DEF MoveTo
    <3>3. OutcomeConsistent'
      BY <1>0, <2>2, <3>2 DEF OutcomeConsistent
    <3>4. /\ evidence'[ExecutionId] = evidence[ExecutionId]
          /\ \A id \in EvidenceIds : Registered(id) => Registered(id)'
      BY <3>1 DEF Registered
    <3>5. CASE FreezesFailure("INVALID", cause.validity)
      <4>1. evaluation' = FailureRecord(cause.detail)
        BY <3>1, <3>5 DEF MoveTo
      <4>2. evaluation'.executed <=> evidence'[ExecutionId] = "runtime"
        BY <1>0, <3>4, <4>1 DEF FailureRecord, Traced
      <4> QED
        BY <2>2, <3>2, <3>3, <3>5, <4>1, <4>2
           DEF AcceptanceSound, FailureRecord, FreezesFailure
    <3>6. CASE ~FreezesFailure("INVALID", cause.validity)
               /\ FreezesAcceptance("INVALID", cause.validity)
      <4>1. evaluation' = AcceptanceRecord
        BY <3>1, <3>6 DEF MoveTo
      <4>2. /\ verification # {}
            /\ "oracle.execution.completed" \in log
            /\ ExecutionRecorded
            /\ cause.validity # "ORACLE_FAILURE"
        BY <1>0, <3>6 DEF FreezesAcceptance, Traced
      <4>3. Unresolved(verification)' = {}
        BY <1>0, <1>6, <2>2, <3>4, <4>2, StaysResolved DEF Pending, Invalidate
      <4>4. evidence'[ExecutionId] = "runtime"
        BY <1>0, <3>4, <4>2 DEF Traced
      <4> QED
        BY <2>2, <3>3, <4>1, <4>2, <4>3, <4>4
           DEF AcceptanceSound, AcceptanceRecord, Unresolved, Registered
    <3>7. CASE ~FreezesFailure("INVALID", cause.validity)
               /\ ~FreezesAcceptance("INVALID", cause.validity)
      BY <2>2, <3>1, <3>3, <3>7 DEF MoveTo, AcceptanceSound
    <3> QED
      BY <3>5, <3>6, <3>7
  <2> QED
    BY <2>3, <2>4
<1>7. CASE CloseTrace
  <2>1. /\ UNCHANGED <<state, evaluation, outcomeVars, log>>
        /\ state \in {"INVALID", "INFRA_FAILED"}
        /\ evidence'[ExecutionId] = evidence[ExecutionId]
        /\ \A id \in EvidenceIds : Registered(id) => Registered(id)'
    BY <1>0, <1>7, CloseAdds DEF CloseTrace, ClosingSteps, Phases
  <2>2. OutcomeConsistent'
    BY <1>k, <2>1 DEF OutcomeConsistent
  <2>3. Unresolved(verification) = {} => Unresolved(verification)' = {}
    BY <1>0, <2>1, StaysResolved
  <2>4. AcceptanceSound'
    BY <1>k, <2>1, <2>3 DEF AcceptanceSound, Unresolved, Registered
  <2> QED
    BY <2>2, <2>4
<1> QED
  BY <1>1, <1>2, <1>3, <1>4, <1>5, <1>6, <1>7, <1>0 DEF Writes, VerifyStep

\* The inductive invariant holds in every behaviour.
LEMMA AccountableAlways == Spec => [](Typed /\ Accountable)
<1>1. Typed /\ Accountable /\ [Next]_vars => Accountable'
  BY NextIdlesOrWrites, IdlesKeep, WritesKeepPhases, WritesKeepTrace,
     WritesKeepPending, WritesKeepRecords DEF Accountable
<1> QED
  BY <1>1, InitTyped, NextTyped, InitAccountable, PTL DEF Spec

\* A frozen acceptance record stands for results the runtime took over, cited
\* Evidence that is registered and an execution record of the runtime's own.
THEOREM AcceptanceCorrect == Spec => []AcceptanceSound
<1>1. Accountable => AcceptanceSound
  BY DEF Accountable
<1> QED
  BY <1>1, AccountableAlways, PTL

\* State, validity, verdict, detail and record of an ended Episode agree.
THEOREM OutcomeCorrect == Spec => []OutcomeConsistent
<1>1. Accountable => OutcomeConsistent
  BY DEF Accountable
<1> QED
  BY <1>1, AccountableAlways, PTL

-----------------------------------------------------------------------------
(***************************************************************************)
(* What the runtime's steps add up to.  The engine implements the Episode, *)
(* and ended Episodes and registered Evidence stay as they are: from the   *)
(* invariant above.  What a verdict stands for, the state the Oracle       *)
(* judged and the trace of a COMPLETED Episode, holds under a condition on *)
(* the environment of the runtime, without which TLC refutes it: the       *)
(* Subject waits for its calls, and no Oracle names its Evidence like the  *)
(* telemetry of the runtime.                                               *)
(***************************************************************************)

\* Every step of the engine is a step of its Episode or leaves it alone.
LEMMA StepsOfEpisode ==
    Typed /\ [Next]_vars => [Lifecycle!Next]_lifecycleVars
<1> SUFFICES ASSUME Typed, [Next]_vars
             PROVE  Lifecycle!Next \/ UNCHANGED lifecycleVars
  BY DEF lifecycleVars
<1>0. /\ TypeOK /\ DetailGiven /\ HandedOver
      /\ verification \in SUBSET Results
      /\ validity \in Validities
      /\ detail \in DetailCodes \cup {NoDetail}
  BY DEF Typed, TypeOK
<1>a. {"PROVISIONING", "READY", "RUNNING", "QUIESCING", "VERIFYING",
       "COMPLETED", "INVALID", "INFRA_FAILED"} \subseteq Lifecycle!States
  BY DEF Lifecycle!States
<1>b. ASSUME NEW target \in Lifecycle!States, Advance(target)
      PROVE  Lifecycle!Next
  BY <1>0, <1>b, MoveIsTransition DEF Advance, DetailGiven, Lifecycle!Next
<1>c. ASSUME NEW target \in Lifecycle!States, NEW v \in Validities,
             NEW d \in DetailCodes \cup {NoDetail},
             v = "ORACLE_FAILURE" => d \in DetailCodes, MoveTo(target, v, d)
      PROVE  Lifecycle!Next
  BY <1>0, <1>c, MoveIsTransition DEF Lifecycle!Next
<1>1. ASSUME NEW source \in Sources, BindReplaySource(source)
      PROVE  Lifecycle!Next
  BY <1>1 DEF BindReplaySource, Lifecycle!Next
<1>2. CASE Provision \/ ResetEnvironment \/ RunSubject \/ InvokeReturns \/ Verify
  BY <1>2, <1>a, <1>b DEF Provision, ResetEnvironment, RunSubject, InvokeReturns,
                          Verify
<1>3. ASSUME NEW v \in Validities, ProvisionFails(v)
      PROVE  Lifecycle!Next
  <2>1. v # "ORACLE_FAILURE"
    BY <1>3 DEF ProvisionFails, ProvisionFailure, ProvisionSteps
  <2> QED
    BY <1>3, <1>a, <1>c, <2>1 DEF ProvisionFails
<1>4. CASE InvokeFails
  BY <1>4, <1>a, <1>c DEF InvokeFails, Validities
<1>5. CASE Complete
  BY <1>5, <1>a, <1>b DEF Complete
<1>6. CASE Invalidate
  <2>1. cause \in Causes
    BY <1>0, <1>6 DEF Invalidate, HandedOver
  <2>2. /\ cause.validity \in Validities
        /\ cause.detail \in DetailCodes \cup {NoDetail}
        /\ cause.validity = "ORACLE_FAILURE" => cause.detail \in DetailCodes
    BY <2>1, CausesTyped
  <2> QED
    BY <1>6, <1>a, <1>c, <2>2 DEF Invalidate
<1>7. CASE VerifyStep /\ ~Complete /\ ~Invalidate
  BY <1>7 DEF VerifyStep, BuildRequest, EvaluationRaises, Evaluate,
              ExecutionNotPublished, PublishExecution, PublishItem, ItemRejected,
              ItemNotStored, Accept, TelemetryFinalized, TelemetryNotStored,
              StoreRaises
<1>8. CASE \/ ProvisionEnvironment \/ OpenSubject \/ OpenGateway \/ CallTool
           \/ \E c \in inFlight : CallReturns(c) \/ CallFails(c) \/ CallRaises(c)
  BY <1>8 DEF ProvisionEnvironment, OpenSubject, OpenGateway, CallTool,
              CallReturns, CallFails, CallRaises
<1>9. CASE \/ Snapshot \/ ReleaseSubject \/ ReleaseStep
           \/ \E w \in snapshots : Restore(w)
           \/ \E f \in Faults : InjectFault(f)
  BY <1>9 DEF Snapshot, Restore, InjectFault, ReleaseSubject, ReleaseStep,
              ReleaseEnvironment, ReleaseEnvironmentFails
<1>10. CASE CloseTrace \/ UNCHANGED vars
  BY <1>10 DEF CloseTrace, vars
<1> QED
  BY <1>1, <1>2, <1>3, <1>4, <1>5, <1>6, <1>7, <1>8, <1>9, <1>10
     DEF Next, HostStep, HandlerStep, ProvisionStep, InvokeStep, VerifyStep

\* The engine drives its Episode as EpisodeLifecycle promises.
THEOREM EngineImplementsEpisode == Spec => LifecycleSpec
<1>1. Init => Lifecycle!Init
  BY DEF Init
<1>2. lifecycleVars = Lifecycle!lifecycleVars
  BY DEF lifecycleVars, Lifecycle!lifecycleVars
<1>3. Typed /\ [Next]_vars => [Lifecycle!Next]_(Lifecycle!lifecycleVars)
  BY <1>2, StepsOfEpisode DEF lifecycleVars, Lifecycle!lifecycleVars
<1> QED
  BY <1>1, <1>3, InitTyped, NextTyped, PTL DEF Spec, LifecycleSpec, Lifecycle!Spec

-----------------------------------------------------------------------------
(* Finality *)

\* Whoever writes the account does so before the end, but for the telemetry.
LEMMA WritesAreEarly ==
    Typed /\ Phases /\ Writes => CloseTrace \/ state \notin Terminal
<1> SUFFICES ASSUME Typed, Phases, Writes, ~CloseTrace
             PROVE  state \notin Terminal
  OBVIOUS
<1>0. /\ state \in Lifecycle!States
      /\ {"PROVISIONING", "READY", "RUNNING", "QUIESCING", "VERIFYING"}
           \cap Terminal = {}
  BY DEF Typed, TypeOK, Lifecycle!TypeOK, Terminal, Lifecycle!Terminal
<1>1. CASE Provision
  BY <1>0, <1>1
     DEF Provision, Advance, MoveTo, Lifecycle!Transitions, Lifecycle!Forward,
         Lifecycle!Failed, Lifecycle!States, Lifecycle!Terminal, Terminal
<1>2. CASE ResetEnvironment \/ \E v \in Validities : ProvisionFails(v)
  BY <1>0, <1>2 DEF ResetEnvironment, ProvisionFails, ProvisionSteps, Phases
<1>3. CASE RunSubject \/ Verify \/ InvokeReturns \/ InvokeFails
  BY <1>0, <1>3 DEF RunSubject, Verify, InvokeReturns, InvokeFails, Phases
<1>4. CASE VerifyStep
  <2>1. step \in VerifySteps
    BY <1>4 DEF VerifyStep, BuildRequest, EvaluationRaises, RaisedDetail,
                Evaluate, ExecutionNotPublished, PublishExecution, PublishItem,
                ItemRejected, ItemNotStored, Accept, TelemetryFinalized,
                TelemetryNotStored, StoreRaises, Complete, Invalidate, VerifySteps
  <2> QED
    BY <1>0, <2>1 DEF Phases
<1> QED
  BY <1>1, <1>2, <1>3, <1>4 DEF Writes

\* Once terminal, an Episode does not change its mind; only the handler that
\* ended it, without completing it, still adds its telemetry.
THEOREM OutcomeStays == Spec => OutcomeFinal
<1>1. Typed /\ Accountable /\ [Next]_vars =>
        [(state \in Terminal) => OnlyTelemetryFollows]_vars
  <2> SUFFICES ASSUME Typed, Accountable, [Next]_vars, state \in Terminal
               PROVE  OnlyTelemetryFollows
    OBVIOUS
  <2>1. Idles \/ CloseTrace
    BY NextIdlesOrWrites, WritesAreEarly DEF Accountable
  <2>2. state \in Lifecycle!States
    BY DEF Typed, TypeOK, Lifecycle!TypeOK
  <2>3. ~Lifecycle!Next
    BY <2>2 DEF Lifecycle!Next, Lifecycle!BindReplaySource,
                Lifecycle!Transition, Lifecycle!Transitions, Terminal,
                Lifecycle!Terminal
  <2>4. UNCHANGED lifecycleVars
    BY <2>3, StepsOfEpisode
  <2>5. CASE Idles
    BY <2>4, <2>5 DEF Idles, account, traceVars, OnlyTelemetryFollows
  <2>6. CASE CloseTrace
    <3>1. state # "COMPLETED" /\ step \in ClosingSteps
      BY <2>6 DEF CloseTrace, ClosingSteps, Accountable, Phases
    <3>2. artifact # NoArtifact => artifact' = artifact
      BY <2>6 DEF CloseTrace, ArtifactAfter
    <3>3. \A id \in EvidenceIds \ {TelemetryId} : evidence'[id] = evidence[id]
      BY <2>6 DEF CloseTrace, PublishTelemetry, Typed, TypeOK
    <3> QED
      BY <2>4, <2>6, <3>1, <3>2, <3>3 DEF CloseTrace, OnlyTelemetryFollows
  <2> QED
    BY <2>1, <2>5, <2>6
<1> QED
  BY <1>1, AccountableAlways, PTL DEF Spec, OutcomeFinal

\* Evidence, once registered, is neither replaced nor withdrawn.
THEOREM EvidenceStays == Spec => EvidenceNeverReplaced
<1> DEFINE Kept == \A id \in EvidenceIds :
                     evidence[id] # "absent" => evidence'[id] = evidence[id]
<1>1. Typed /\ Accountable /\ [Next]_vars => [Kept]_evidence
  <2> SUFFICES ASSUME Typed, Accountable, [Next]_vars
               PROVE  Kept \/ UNCHANGED evidence
    OBVIOUS
  <2> USE DEF traceVars
  <2>0. /\ evidence \in [EvidenceIds -> {"absent", "runtime", "oracle"}]
        /\ evidence[ExecutionId] # "oracle"
        /\ ExecutionId \in EvidenceIds
    BY DEF Typed, TypeOK, Accountable, Traced, EvidenceIds
  <2>1. CASE Idles
    BY <2>1 DEF Idles, account
  <2>2. CASE CloseTrace
    BY <2>0, <2>2 DEF CloseTrace, PublishTelemetry, TelemetryUnpublished,
                      Registered
  <2>3. CASE Provision \/ ResetEnvironment \/ RunSubject \/ InvokeReturns \/ Verify
    BY <2>3 DEF Provision, ResetEnvironment, RunSubject, InvokeReturns, Verify
  <2>4. CASE InvokeFails \/ \E v \in Validities : ProvisionFails(v)
    BY <2>4 DEF ProvisionFails, InvokeFails
  <2>5. CASE PublishExecution
    BY <2>0, <2>5 DEF PublishExecution
  <2>6. CASE \E i \in OracleIds : PublishItem(i)
    BY <2>0, <2>6 DEF PublishItem, Registered
  <2>7. CASE TelemetryFinalized
    BY <2>0, <2>7 DEF TelemetryFinalized, PublishTelemetry, TelemetryUnpublished,
                      Registered
  <2>8. CASE Invalidate \/ StoreRaises
    BY <2>8 DEF Invalidate, StoreRaises
  <2>9. CASE \/ BuildRequest \/ ExecutionNotPublished \/ ItemRejected
             \/ ItemNotStored \/ Accept \/ TelemetryNotStored \/ Complete
             \/ \E code \in DetailCodes : EvaluationRaises(code)
             \/ \E execution \in Executions : Evaluate(execution)
    BY <2>9 DEF BuildRequest, EvaluationRaises, Evaluate, ExecutionNotPublished,
                ItemRejected, ItemNotStored, Accept, TelemetryNotStored, Complete
  <2> QED
    BY <2>1, <2>2, <2>3, <2>4, <2>5, <2>6, <2>7, <2>8, <2>9, NextIdlesOrWrites
       DEF Writes, VerifyStep
<1> QED
  BY <1>1, AccountableAlways, PTL DEF Spec, EvidenceNeverReplaced

-----------------------------------------------------------------------------
\* The steps between the projection and the end of the evaluation.
AfterProjection == VerifySteps \ {"buildRequest", "invalidate"}

\* Calls execute while the Episode runs, and from the projection on the
\* world stays; an evaluation that failed before it is the Oracle's failure
\* and judges nothing.
Judging ==
    /\ inFlight # {} => state = "RUNNING"
    /\ step \in AfterProjection => judged = world
    /\ step = "invalidate" /\ cause.validity # "ORACLE_FAILURE" => judged = world
    /\ JudgedWorldIsFinal

\* Nothing has been judged when the runtime starts.
LEMMA InitJudging == Init => Judging
BY DEF Init, Lifecycle!Init, Judging, AfterProjection, JudgedWorldIsFinal

\* The steps that change the world come before there is a record.
LEMMA WorldChangesEarly ==
    ASSUME Typed, Accountable, Judging,
           \/ ResetEnvironment
           \/ \E c \in inFlight : CallReturns(c) \/ CallFails(c)
           \/ \E w \in snapshots : Restore(w)
    PROVE  Judging'
<1>0. /\ Phases
      /\ "idle" \notin AfterProjection /\ "invoke" \notin AfterProjection
  BY DEF Accountable, AfterProjection, VerifySteps
<1>1. CASE ResetEnvironment
  <2>1. state = "PROVISIONING" /\ inFlight = {} /\ evaluation = NoEvaluation
    BY <1>0, <1>1 DEF ResetEnvironment, Phases, ProvisionSteps, Judging
  <2>2. evaluation' = NoEvaluation
    BY <1>1, <2>1, PlainAdvance DEF ResetEnvironment, Lifecycle!States
  <2> QED
    BY <1>0, <1>1, <2>1, <2>2
       DEF ResetEnvironment, Return, Leave, callVars, Judging, JudgedWorldIsFinal
<1>2. CASE \E c \in inFlight : CallReturns(c) \/ CallFails(c)
  <2>1. state = "RUNNING" /\ evaluation = NoEvaluation /\ step \notin VerifySteps
    BY <1>0, <1>2 DEF Phases, Judging
  <2>2. /\ UNCHANGED <<state, evaluation>>
        /\ step' \in {step, "idle"}
    BY <1>2 DEF CallReturns, CallFails, RaiseToSubject, Return, Leave, lifecycleVars,
                handlerVars
  <2> QED
    BY <2>1, <2>2 DEF Judging, JudgedWorldIsFinal, VerifySteps, AfterProjection
<1>3. CASE \E w \in snapshots : Restore(w)
  <2>1. evaluation = NoEvaluation /\ step = "idle"
    BY <1>0, <1>3 DEF Restore, Phases
  <2> QED
    BY <1>0, <1>3, <2>1 DEF Restore, Judging, JudgedWorldIsFinal, lifecycleVars,
                     callVars, handlerVars
<1> QED
  BY <1>1, <1>2, <1>3

\* The last steps of verify freeze what was judged.
LEMMA VerifyJudges ==
    ASSUME Typed, Accountable, Judging, VerifyStep
    PROVE  Judging'
<1> USE DEF lifecycleVars, outcomeVars, traceVars, worldVars, callVars, handlerVars,
            Leave
<1>0. /\ Phases
      /\ step \in VerifySteps /\ state = "VERIFYING"
      /\ inFlight = {} /\ inFlight' = {}
  <2>1. step \in VerifySteps /\ UNCHANGED inFlight
    BY DEF VerifyStep, BuildRequest, EvaluationRaises, RaisedDetail, Evaluate,
           ExecutionNotPublished, PublishExecution, PublishItem, ItemRejected,
           ItemNotStored, Accept, TelemetryFinalized, TelemetryNotStored,
           StoreRaises, Complete, Invalidate, VerifySteps
  <2> QED
    BY <2>1 DEF Accountable, Phases, Judging
<1>1. evaluation = NoEvaluation
  BY <1>0 DEF Phases
<1>2. CASE Complete
  <2>1. judged' = world' /\ step' = "idle"
    BY <1>2 DEF Complete, Return, Judging, AfterProjection, VerifySteps
  <2> QED
    BY <1>0, <2>1 DEF Judging, JudgedWorldIsFinal, AfterProjection, VerifySteps
<1>3. CASE Invalidate
  <2>1. step' \in {"idle", "closeInvalid"} /\ UNCHANGED <<world, judged>>
    BY <1>3 DEF Invalidate, Return
  <2>2. CASE cause.validity # "ORACLE_FAILURE"
    BY <1>0, <1>3, <2>1, <2>2 DEF Invalidate, Judging, JudgedWorldIsFinal,
                                  AfterProjection, VerifySteps
  <2>3. CASE cause.validity = "ORACLE_FAILURE"
    <3>1. evaluation' = NoEvaluation \/ evaluation' = FailureRecord(cause.detail)
      BY <1>1, <1>3, <2>3 DEF Invalidate, MoveTo, FreezesAcceptance
    <3> QED
      BY <1>0, <2>1, <3>1 DEF FailureRecord, Judging, JudgedWorldIsFinal,
                              AfterProjection, VerifySteps
  <2> QED
    BY <2>2, <2>3
<1>4. CASE VerifyStep /\ ~Complete /\ ~Invalidate
  <2>1. evaluation' = NoEvaluation
    BY <1>0, <1>1, <1>4, VerifyMoves
  <2>2. CASE BuildRequest
    BY <1>0, <2>1, <2>2 DEF BuildRequest, Goto, Judging, JudgedWorldIsFinal
  <2>3. CASE \E code \in DetailCodes : EvaluationRaises(code)
    BY <1>0, <2>1, <2>3 DEF EvaluationRaises, InvalidateWith, Judging,
                            JudgedWorldIsFinal, AfterProjection
  <2>4. CASE ~BuildRequest /\ ~(\E code \in DetailCodes : EvaluationRaises(code))
    <3>1. step \in AfterProjection /\ UNCHANGED <<world, judged>>
      BY <1>4, <2>4
         DEF VerifyStep, Evaluate, ExecutionNotPublished, PublishExecution,
             PublishItem, ItemRejected, ItemNotStored, Accept,
             TelemetryFinalized, TelemetryNotStored, StoreRaises, AfterProjection, VerifySteps
    <3> QED
      BY <1>0, <2>1, <3>1 DEF Judging, JudgedWorldIsFinal
  <2> QED
    BY <2>2, <2>3, <2>4
<1> QED
  BY <1>2, <1>3, <1>4

\* Provided that the Subject waits for its calls, every step keeps it.
LEMMA NextJudging ==
    ASSUME ~LeavesCallsOpen
    PROVE  Typed /\ Accountable /\ Judging /\ [Next]_vars => Judging'
<1> SUFFICES ASSUME Typed, Accountable, Judging, [Next]_vars
             PROVE  Judging'
  OBVIOUS
<1> USE DEF lifecycleVars, outcomeVars, traceVars, resourceVars, worldVars,
            callVars, handlerVars, Leave
<1>0. /\ Phases
      /\ state \in Lifecycle!States
      /\ {"PROVISIONING", "READY", "RUNNING", "QUIESCING", "VERIFYING",
          "INFRA_FAILED"} \subseteq Lifecycle!States \ {"COMPLETED", "INVALID"}
      /\ AfterProjection \cap ProvisionSteps = {}
      /\ AfterProjection \cap {"idle", "invoke", "buildRequest", "invalidate",
                               "releaseEnvironment", "closeFailed"} = {}
      /\ "invalidate" \notin ProvisionSteps
  BY DEF Accountable, Typed, TypeOK, Lifecycle!TypeOK, Lifecycle!States,
         AfterProjection, VerifySteps, ProvisionSteps
<1>1. CASE \/ ResetEnvironment
           \/ \E c \in inFlight : CallReturns(c) \/ CallFails(c)
           \/ \E w \in snapshots : Restore(w)
  BY <1>1, WorldChangesEarly
<1>2. CASE VerifyStep
  BY <1>2, VerifyJudges
<1>3. CASE Provision \/ RunSubject \/ Verify \/ InvokeReturns
  <2>1. /\ inFlight = {} /\ UNCHANGED <<inFlight, world, judged>>
        /\ step' \notin AfterProjection \cup {"invalidate"}
        /\ evaluation' = evaluation
    <3>1. CASE Provision
      <4>1. state # "RUNNING"
        BY <1>0, <1>3, <3>1
           DEF Provision, Advance, MoveTo, Lifecycle!Transitions,
               Lifecycle!Forward, Lifecycle!Failed, Lifecycle!States,
               Lifecycle!Terminal
      <4> QED
        BY <1>0, <3>1, <4>1, PlainAdvance
           DEF Provision, Goto, Judging, ProvisionSteps
    <3>2. CASE RunSubject \/ Verify
      BY <1>0, <3>2, PlainAdvance DEF RunSubject, Verify, Goto, Judging
    <3>3. CASE InvokeReturns
      BY <1>0, <3>3, PlainAdvance DEF InvokeReturns, Return
    <3> QED
      BY <1>3, <3>1, <3>2, <3>3
  <2> QED
    BY <2>1 DEF Judging, JudgedWorldIsFinal
<1>4. CASE InvokeFails \/ \E v \in Validities : ProvisionFails(v)
  <2>1. /\ inFlight = {} /\ UNCHANGED <<inFlight, world, judged>>
        /\ step' = "closeFailed"
        /\ evaluation' = evaluation
    BY <1>0, <1>4, PlainMove DEF InvokeFails, ProvisionFails, Phases, Judging
  <2> QED
    BY <1>0, <2>1 DEF Judging, JudgedWorldIsFinal
<1>5. CASE CallTool \/ \E c \in inFlight : CallRaises(c)
  <2>1. /\ state = "RUNNING" /\ UNCHANGED <<state, evaluation, world, judged>>
        /\ UNCHANGED <<step, cause>> \/ step' = "idle"
    BY <1>5 DEF CallTool, CallRaises, RaiseToSubject, Return, Judging
  <2> QED
    BY <1>0, <2>1 DEF Judging, JudgedWorldIsFinal
<1>6. CASE \/ ProvisionEnvironment \/ OpenSubject \/ OpenGateway
           \/ Snapshot \/ ReleaseSubject \/ ReleaseStep \/ CloseTrace
           \/ \E source \in Sources : BindReplaySource(source)
           \/ \E f \in Faults : InjectFault(f)
           \/ UNCHANGED vars
  <2>1. /\ UNCHANGED <<state, evaluation, world, judged, inFlight>>
        /\ \/ UNCHANGED <<step, cause>>
           \/ step' \in ProvisionSteps \cup {"idle", "releaseEnvironment"}
    BY <1>6 DEF ProvisionEnvironment, OpenSubject, OpenGateway, Snapshot,
                ReleaseSubject, ReleaseStep, ReleaseEnvironment,
                ReleaseEnvironmentFails, CloseTrace, BindReplaySource,
                Lifecycle!BindReplaySource, InjectFault, Goto, Return,
                ProvisionSteps, vars
  <2> QED
    BY <1>0, <2>1 DEF Judging, JudgedWorldIsFinal
<1> QED
  BY <1>1, <1>2, <1>3, <1>4, <1>5, <1>6
     DEF Next, HostStep, HandlerStep, ProvisionStep, InvokeStep

\* A Subject that waits for its calls leaves the Oracle the final state: what
\* was judged is what the environment still holds, in every VALID record.
THEOREM JudgedCorrect ==
    ASSUME ~LeavesCallsOpen
    PROVE  Spec => []JudgedWorldIsFinal
<1>1. Typed /\ Accountable /\ Judging /\ [Next]_vars => Judging'
  BY NextJudging
<1>2. Judging => JudgedWorldIsFinal
  BY DEF Judging
<1> QED
  BY <1>1, <1>2, InitJudging, AccountableAlways, PTL DEF Spec

-----------------------------------------------------------------------------
(* The trace *)

\* What the telemetry session holds: no artifact before the last steps of
\* verify, a COMPLETE one only over a whole trace, and, once required
\* telemetry has been finalized, a COMPLETE one in the runtime's Evidence.
Tracing ==
    /\ artifact # NoArtifact =>
         state \notin {"CREATED", "PROVISIONING", "READY", "RUNNING", "QUIESCING"}
    /\ step \in VerifySteps \ {"complete", "invalidate"} => artifact = NoArtifact
    /\ artifact = "COMPLETE" => unanswered = {} /\ RequiredEvents \subseteq log
    /\ evidence[TelemetryId] # "oracle"
    /\ step = "complete" /\ policy.kind = "otel" /\ policy.required =>
         artifact = "COMPLETE" /\ evidence[TelemetryId] = "runtime"
    /\ CompletedIsTraced

\* Nothing has been traced when the runtime starts.
LEMMA InitTracing == Init => Tracing
BY DEF Init, Lifecycle!Init, Tracing, VerifySteps, CompletedIsTraced,
       EvidenceIds, NoArtifact

\* The first finalization of a session judges the trace as it is.
LEMMA FinalizedWhole ==
    ASSUME NEW complete \in BOOLEAN, artifact' = ArtifactAfter(complete),
           log' \subseteq EventTypes
    PROVE  /\ artifact # NoArtifact => artifact' = artifact
           /\ artifact' = "COMPLETE" =>
                \/ artifact = "COMPLETE"
                \/ unanswered = {} /\ RequiredEvents \subseteq log'
BY DEF ArtifactAfter, Finalized, MappingComplete, NoArtifact

\* A session that has to be whole is COMPLETE or known to be missing.
LEMMA RequiredIsDecided ==
    ASSUME policy.kind = "otel", policy.required, artifact = NoArtifact,
           artifact' = ArtifactAfter(TRUE), ~RequiredMissing(policy, artifact')
    PROVE  artifact' = "COMPLETE"
BY DEF ArtifactAfter, Finalized, RequiredMissing, NoArtifact

\* Idle steps answer calls or accept new ones while the Episode runs.
LEMMA IdlesKeepTracing ==
    ASSUME Typed, Accountable, Tracing, [Next]_vars, Idles
    PROVE  Tracing'
<1> USE DEF account, outcomeVars, traceVars
<1>1. /\ UNCHANGED <<state, evidence, artifact, log>>
      /\ UNCHANGED step \/ step' \notin VerifySteps
  BY DEF Idles, ProvisionSteps, VerifySteps
<1>2. UNCHANGED policy
  BY DEF Next, HostStep, HandlerStep, ProvisionStep, InvokeStep, VerifyStep,
         ReleaseStep, vars, BindReplaySource, Provision, RunSubject, Verify,
         Snapshot, Restore, InjectFault, ReleaseSubject, ProvisionEnvironment,
         OpenSubject, OpenGateway, ResetEnvironment, ProvisionFails, CallTool,
         CallReturns, CallFails, CallRaises, InvokeReturns, InvokeFails,
         BuildRequest, EvaluationRaises, Evaluate, ExecutionNotPublished,
         PublishExecution, PublishItem, ItemRejected, ItemNotStored, Accept,
         TelemetryFinalized, TelemetryNotStored, StoreRaises, Complete,
         Invalidate, CloseTrace,
         ReleaseEnvironment, ReleaseEnvironmentFails
<1>3. artifact = "COMPLETE" => unanswered' = {}
  <2> SUFFICES ASSUME artifact = "COMPLETE"
               PROVE  unanswered' = {}
    OBVIOUS
  <2>1. unanswered = {} /\ ~CallTool
    BY DEF Tracing, CallTool, NoArtifact
  <2> QED
    BY <2>1 DEF Next, HostStep, HandlerStep, ProvisionStep, InvokeStep, VerifyStep,
         ReleaseStep, vars, callVars, BindReplaySource, Provision, RunSubject, Verify,
         Snapshot, Restore, InjectFault, ReleaseSubject, ProvisionEnvironment,
         OpenSubject, OpenGateway, ResetEnvironment, ProvisionFails,
         CallReturns, CallFails, CallRaises, InvokeReturns, InvokeFails,
         BuildRequest, EvaluationRaises, Evaluate, ExecutionNotPublished,
         PublishExecution, PublishItem, ItemRejected, ItemNotStored, Accept,
         TelemetryFinalized, TelemetryNotStored, StoreRaises, Complete,
         Invalidate, CloseTrace,
         ReleaseEnvironment, ReleaseEnvironmentFails
<1> QED
  BY <1>1, <1>2, <1>3 DEF Tracing, CompletedIsTraced, VerifySteps

\* Provided that no Oracle takes the identifier of the telemetry, the steps
\* that write the Episode's account keep it.
LEMMA WritesKeepTracing ==
    ASSUME TelemetryId \notin OracleIds,
           Typed, Accountable, Tracing, Writes
    PROVE  Tracing'
<1> USE DEF lifecycleVars, outcomeVars, traceVars, resourceVars, worldVars,
            callVars, handlerVars, Leave
<1>0. /\ Phases
      /\ state \in Lifecycle!States
      /\ log \subseteq EventTypes
      /\ evidence \in [EvidenceIds -> {"absent", "runtime", "oracle"}]
      /\ {TelemetryId, ExecutionId} \subseteq EvidenceIds
      /\ TelemetryId # ExecutionId
      /\ ({"idle", "invoke"} \cup ClosingSteps) \cap VerifySteps = {}
      /\ VerifySteps \cap ProvisionSteps = {}
  BY DEF Accountable, Typed, TypeOK, Lifecycle!TypeOK, EvidenceIds, TelemetryId,
         ExecutionId, VerifySteps, ProvisionSteps, ClosingSteps
<1>a. {"PROVISIONING", "READY", "RUNNING", "QUIESCING", "VERIFYING",
       "INFRA_FAILED"} \subseteq Lifecycle!States \ {"COMPLETED", "INVALID"}
  BY DEF Lifecycle!States
<1>1. CASE Provision \/ ResetEnvironment \/ RunSubject \/ InvokeReturns \/ Verify
  <2>1. artifact = NoArtifact /\ state' # "COMPLETED"
    <3>1. CASE Provision
      <4>1. state = "CREATED" /\ state' = "PROVISIONING"
        BY <1>0, <1>a, <3>1, PlainAdvance
           DEF Provision, Lifecycle!Transitions, Lifecycle!Forward,
               Lifecycle!Failed, Lifecycle!Terminal, Lifecycle!States
      <4> QED
        BY <4>1 DEF Tracing
    <3>2. CASE ResetEnvironment
      BY <1>0, <1>a, <3>2, PlainAdvance
         DEF ResetEnvironment, Phases, ProvisionSteps, Tracing
    <3>3. CASE RunSubject \/ InvokeReturns \/ Verify
      BY <1>0, <1>a, <3>3, PlainAdvance
         DEF RunSubject, InvokeReturns, Verify, Phases, Tracing
    <3> QED
      BY <1>1, <3>1, <3>2, <3>3
  <2>2. /\ UNCHANGED <<artifact, evidence>>
        /\ step' # "complete"
    BY <1>1 DEF Provision, ResetEnvironment, RunSubject, InvokeReturns, Verify,
                Goto, Return
  <2> QED
    BY <2>1, <2>2 DEF Tracing, CompletedIsTraced, NoArtifact
<1>2. CASE InvokeFails \/ \E v \in Validities : ProvisionFails(v)
  <2>1. /\ state' = "INFRA_FAILED" /\ step' = "closeFailed"
        /\ log \subseteq log' /\ UNCHANGED <<unanswered, evidence, artifact>>
    BY <1>0, <1>2, <1>a, PlainMove DEF InvokeFails, ProvisionFails, Emit
  <2> QED
    BY <1>0, <2>1 DEF Tracing, CompletedIsTraced, ClosingSteps
<1>3. CASE Invalidate
  <2>1. /\ UNCHANGED <<unanswered, log, evidence, artifact>>
        /\ step' \in {"idle", "closeInvalid"}
        /\ state' \in {state, "INVALID"}
    BY <1>3 DEF Invalidate, MoveTo, Return
  <2>2. state = "VERIFYING"
    BY <1>0, <1>3 DEF Invalidate, Phases, VerifySteps
  <2> QED
    BY <1>0, <2>1, <2>2 DEF Tracing, CompletedIsTraced, ClosingSteps
<1>6. CASE CloseTrace
  <2>1. /\ state \in {"INFRA_FAILED", "INVALID"} /\ step' = "idle"
        /\ UNCHANGED <<state, log, unanswered, policy>>
    BY <1>0, <1>6 DEF CloseTrace, ClosingSteps, Return, Phases
  <2>2. evidence'[TelemetryId] # "oracle"
    BY <1>0, <1>6 DEF CloseTrace, PublishTelemetry, Tracing
  <2>3. artifact' = "COMPLETE" => unanswered = {} /\ RequiredEvents \subseteq log
    <3>1. artifact' = ArtifactAfter(step = "closeInvalid")
      BY <1>6 DEF CloseTrace
    <3>2. \/ artifact' = ArtifactAfter(TRUE)
          \/ artifact' = ArtifactAfter(FALSE)
      BY <3>1
    <3> QED
      BY <1>0, <2>1, <3>2, FinalizedWhole DEF Tracing
  <2> QED
    BY <1>0, <2>1, <2>2, <2>3 DEF Tracing, CompletedIsTraced
<1>4. CASE Complete
  <2>1. /\ step = "complete" /\ step' = "idle"
        /\ UNCHANGED <<log, evidence, artifact, policy, unanswered>>
        /\ state' \in {state, "COMPLETED"}
    BY <1>4 DEF Complete, Return, Advance, MoveTo
  <2>2. state = "VERIFYING"
    BY <1>0, <2>1 DEF Phases, VerifySteps
  <2> QED
    BY <1>0, <2>1, <2>2 DEF Tracing, CompletedIsTraced
<1>5. CASE VerifyStep /\ ~Complete /\ ~Invalidate
  <2>1. state = "VERIFYING" /\ state' = state /\ step \in VerifySteps
    BY <1>0, <1>5, VerifyMoves
  <2>2. UNCHANGED <<policy, unanswered>>
    BY <1>5 DEF VerifyStep, BuildRequest, EvaluationRaises, Evaluate,
                ExecutionNotPublished, PublishExecution, PublishItem,
                ItemRejected, ItemNotStored, Accept, TelemetryFinalized,
                TelemetryNotStored, StoreRaises
  <2>3. CASE TelemetryFinalized
    <3>1. /\ artifact = NoArtifact /\ artifact' = ArtifactAfter(TRUE)
          /\ UNCHANGED log
      BY <1>0, <2>1, <2>3 DEF TelemetryFinalized, Tracing
    <3>2. evidence'[TelemetryId] # "oracle"
      BY <1>0, <2>3 DEF TelemetryFinalized, PublishTelemetry, Tracing
    <3>3. artifact' = "COMPLETE" => unanswered = {} /\ RequiredEvents \subseteq log
      BY <1>0, <3>1, FinalizedWhole DEF Tracing
    <3>4. ASSUME step' = "complete", policy.kind = "otel", policy.required
          PROVE  artifact' = "COMPLETE" /\ evidence'[TelemetryId] = "runtime"
      <4>1. ~RequiredMissing(policy, artifact')
        BY <2>3, <3>4 DEF TelemetryFinalized, InvalidateWith
      <4>2. evidence'[TelemetryId] = "runtime"
        BY <1>0, <2>3, <3>4 DEF TelemetryFinalized, PublishTelemetry,
                                TelemetryUnpublished, Registered, Tracing
      <4> QED
        BY <3>1, <3>4, <4>1, <4>2, RequiredIsDecided
    <3>5. step' \in {"complete", "invalidate"}
      BY <2>3 DEF TelemetryFinalized, InvalidateWith, Goto
    <3> QED
      BY <2>1, <2>2, <3>1, <3>2, <3>3, <3>4, <3>5 DEF Tracing, CompletedIsTraced
  <2>4. CASE TelemetryNotStored
    <3>1. /\ artifact' = ArtifactAfter(TRUE)
          /\ UNCHANGED <<log, evidence>> /\ step' = "invalidate"
      BY <2>4 DEF TelemetryNotStored, InvalidateWith
    <3> QED
      BY <1>0, <2>1, <2>2, <3>1, FinalizedWhole DEF Tracing, CompletedIsTraced
  <2>6. CASE StoreRaises
    <3>1. UNCHANGED <<log, evidence>> /\ step' = "idle"
      BY <2>6 DEF StoreRaises, Return
    <3>2. artifact' = artifact \/ artifact' = ArtifactAfter(TRUE)
      BY <2>6 DEF StoreRaises
    <3>3. artifact' = "COMPLETE" => unanswered = {} /\ RequiredEvents \subseteq log
      BY <1>0, <3>1, <3>2, FinalizedWhole DEF Tracing
    <3> QED
      BY <1>0, <2>1, <2>2, <3>1, <3>3 DEF Tracing, CompletedIsTraced
  <2>5. CASE ~TelemetryFinalized /\ ~TelemetryNotStored /\ ~StoreRaises
    <3>1. /\ UNCHANGED artifact /\ log \subseteq log'
          /\ step' # "complete" /\ step # "complete"
          /\ step' = "invalidate" \/ step # "invalidate"
      BY <1>5, <2>1, <2>5
         DEF VerifyStep, BuildRequest, EvaluationRaises, RaisedDetail, Evaluate,
             ExecutionNotPublished, PublishExecution, PublishItem, ItemRejected,
             ItemNotStored, Accept, Emit, Goto, InvalidateWith
    <3>2. evidence'[TelemetryId] = evidence[TelemetryId]
      BY <1>0, <1>5, <2>5
         DEF VerifyStep, BuildRequest, EvaluationRaises, Evaluate,
             ExecutionNotPublished, PublishExecution, PublishItem, ItemRejected,
             ItemNotStored, Accept
    <3> QED
      BY <2>1, <2>2, <3>1, <3>2 DEF Tracing, CompletedIsTraced
  <2> QED
    BY <2>3, <2>4, <2>5, <2>6
<1> QED
  BY <1>1, <1>2, <1>3, <1>4, <1>5, <1>6 DEF Writes

\* A COMPLETED Episode that has to be traced is traced, unless an Oracle uses
\* the identifier the runtime keeps for its telemetry.
THEOREM TraceCorrect ==
    ASSUME TelemetryId \notin OracleIds
    PROVE  Spec => []CompletedIsTraced
<1>1. Typed /\ Accountable /\ Tracing /\ [Next]_vars => Tracing'
  BY NextIdlesOrWrites, IdlesKeepTracing, WritesKeepTracing
<1>2. Tracing => CompletedIsTraced
  BY DEF Tracing
<1> QED
  BY <1>1, <1>2, InitTracing, AccountableAlways, PTL DEF Spec

=============================================================================
