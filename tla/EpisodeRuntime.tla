---------------------------- MODULE EpisodeRuntime ----------------------------
(***************************************************************************)
(* One Episode driven by the ReferenceRuntime (runtime/engine.py).  The    *)
(* Episodes of a runtime share no mutable state but an MCP gateway, so one *)
(* Episode is modelled.                                                    *)
(*                                                                         *)
(* Host calls (provision, run_subject, verify, snapshot, restore,          *)
(* inject_fault, release) come one at a time, the way a sequential host    *)
(* makes them.  A handler is a chain of steps, one per external call it    *)
(* makes, because each of them can fail on its own and another request can *)
(* read the Episode in between; "step" is where the handler stands.  An    *)
(* exception no except clause catches sends it back to "idle" with the     *)
(* Episode left as it is.  Environment, Subject, Oracle runner, store and  *)
(* tracer are external: each call's outcome is a choice over what the      *)
(* runtime distinguishes.                                                  *)
(***************************************************************************)
EXTENDS Integers, Sequences, FiniteSets, TelemetrySession

CONSTANTS
    Results,          \* verification results an Oracle output can contain
    OracleIds,        \* Evidence identifiers an Oracle output can carry
    SessionPolicies,  \* telemetry set-ups the runtime can be built with
    Worlds,           \* authoritative states of the environment
    InitialWorld,
    Faults,           \* faults the evaluator may schedule
    Sources,          \* Episodes this one can be a replay of
    NoSource,
    NoEvaluation,
    MaxCalls,         \* bound on the tool calls of one Subject
    AdapterWraps,     \* the Subject adapter turns every exception of the
                      \* Subject into SubjectAdapterError (in_process.py)
    RetainsSession,   \* the Subject may use its SubjectSession after it returned
    LeavesCallsOpen,  \* the Subject may return while a call is in flight
    StoreWraps        \* the store reports every failure of its own as
                      \* ArtifactStoreError: the in-memory store does, the
                      \* file-system store does not (filesystem.py:72)

ExecutionId == "ev_oracle_execution"
TelemetryId == "ev_telemetry"
EvidenceIds == OracleIds \cup {ExecutionId, TelemetryId}

\* A result: is it a critical FAIL, is its own validity VALID, what it cites.
ASSUME ResultsAssumption ==
    Results \subseteq [fails : BOOLEAN, valid : BOOLEAN,
                       cites : SUBSET EvidenceIds]
ASSUME PoliciesAssumption == SessionPolicies \subseteq Policies
ASSUME WorldsAssumption == InitialWorld \in Worlds
ASSUME CallsAssumption == MaxCalls \in Nat
ASSUME SubjectAssumption ==
    /\ AdapterWraps \in BOOLEAN
    /\ RetainsSession \in BOOLEAN
    /\ LeavesCallsOpen \in BOOLEAN
ASSUME StoreAssumption == StoreWraps \in BOOLEAN

VARIABLES
    \* the Episode object
    state, records, replaySource, evaluation,
    validity,       \* Episode.validity
    detail,         \* Episode.validity_detail, by its code
    taskVerdict,    \* Episode.task_verdict
    verification,   \* Episode.verification
    evidence,       \* Episode.evidence: who published each identifier
    log,            \* types in Episode.events that later decisions read
    \* the telemetry session
    policy,         \* what the session was started with
    artifact,       \* its artifact's completeness, once finalized
    \* the runtime's bindings and the resources behind them
    environment, subject,  \* the adapters' sessions: none, live, released
    bound,          \* _handles and _subject_handles have the Episode
    world,          \* the environment's authoritative state
    snapshots,      \* the states of the snapshots taken
    faults,         \* _faults[episode]
    judged,         \* the state projected for the Oracle (history variable)
    \* the Subject's tool calls
    calls,          \* number of calls accepted
    unanswered,     \* calls with tool.call but no tool.result or tool.error
    inFlight,       \* calls the environment or gateway is executing
    \* the running handler
    step,
    output,         \* verify: the execution under verification
    cause           \* verify: what _invalidate_evaluation was called with

lifecycleVars == <<state, records, replaySource, evaluation>>
outcomeVars == <<validity, detail, taskVerdict, verification>>
traceVars == <<evidence, log, artifact>>
resourceVars == <<environment, subject, bound>>
worldVars == <<world, snapshots, faults, judged>>
callVars == <<calls, unanswered, inFlight>>
handlerVars == <<step, output, cause>>
vars == <<lifecycleVars, outcomeVars, traceVars, policy, resourceVars,
          worldVars, callVars, handlerVars>>

-----------------------------------------------------------------------------
(* Values *)

Validities == {"VALID", "ENVIRONMENT_FAILURE", "INFRA_CONFOUND",
               "ORACLE_FAILURE", "TRACE_INCOMPLETE"}

NoDetail == "none"
DetailCodes == {"ORACLE_TIMEOUT", "ORACLE_CRASH", "ORACLE_PROTOCOL_ERROR",
                "ORACLE_SECURITY_VIOLATION", "ORACLE_RUNNER_ERROR"}

Verdicts == {"PASS", "FAIL", "INCONCLUSIVE"}

NoArtifact == "none"

\* The OracleEvaluationRecords __post_init__ lets exist (models.py:447-480).
Evaluations ==
    [validity : {"VALID"}, verdict : {"PASS", "FAIL"},
     accepted : SUBSET {r \in Results : r.valid},
     executed : {TRUE}, detail : {NoDetail}]
    \cup
    [validity : {"ORACLE_FAILURE"}, verdict : {"INCONCLUSIVE"},
     accepted : {{}}, executed : BOOLEAN, detail : DetailCodes]

ASSUME EvaluationAssumption == NoEvaluation \notin Evaluations

Lifecycle == INSTANCE EpisodeLifecycle

Terminal == Lifecycle!Terminal

\* OracleExecutionStatus and the detail code of every failing one.
FailureDetail == [TIMEOUT            |-> "ORACLE_TIMEOUT",
                  CRASHED            |-> "ORACLE_CRASH",
                  PROTOCOL_ERROR     |-> "ORACLE_PROTOCOL_ERROR",
                  SECURITY_VIOLATION |-> "ORACLE_SECURITY_VIOLATION"]

\* A failed execution carries no results and no evidence (models.py:406-431).
Executions ==
    [status : {"SUCCESS"}, results : SUBSET Results, items : SUBSET OracleIds]
    \cup
    [status : DOMAIN FailureDetail, results : {{}}, items : {{}}]

NoOutput == [status |-> "none", results |-> {}, items |-> {}]

Causes == [validity : {"INFRA_CONFOUND", "TRACE_INCOMPLETE"},
           detail : {NoDetail}]
          \cup [validity : {"ORACLE_FAILURE"}, detail : DetailCodes]

NoCause == [validity |-> "VALID", detail |-> NoDetail]

ProvisionSteps == {"provisionEnvironment", "openSubject", "openGateway",
                   "reset"}
VerifySteps == {"buildRequest", "evaluate", "publishExecution",
                "publishItems", "telemetry", "complete",
                "invalidate"}
\* The Episode has failed, its telemetry has yet to be finalized.
ClosingSteps == {"closeFailed", "closeInvalid"}
Steps == {"idle", "invoke", "releaseEnvironment"}
         \cup ClosingSteps \cup ProvisionSteps \cup VerifySteps

EventTypes == {"episode.created", "episode.started",
               "agent.invocation.completed", "episode.verification.started",
               "oracle.execution.started", "oracle.execution.completed",
               "oracle.execution.failed"}

Registered(id) == evidence[id] # "absent"

\* A task verdict over results: FAIL only on a critical FAIL.
VerdictOf(results) ==
    IF \E r \in results : r.fails THEN "FAIL" ELSE "PASS"

-----------------------------------------------------------------------------
(* Episode.transition and what it freezes *)

\* The events _freeze_oracle_evaluation needs before it says anything.
VerificationRequested ==
    {"episode.verification.started", "oracle.execution.started"} \subseteq log

\* An execution event, and with it the digest of the execution record.
ExecutionRecorded ==
    log \cap {"oracle.execution.completed", "oracle.execution.failed"} # {}

FailureRecord(code) ==
    [validity |-> "ORACLE_FAILURE", verdict |-> "INCONCLUSIVE",
     accepted |-> {}, executed |-> ExecutionRecorded, detail |-> code]

AcceptanceRecord ==
    [validity |-> "VALID", verdict |-> VerdictOf(verification),
     accepted |-> verification, executed |-> TRUE, detail |-> NoDetail]

\* Which record, if any, a move to target freezes under validity v.
FreezesFailure(target, v) ==
    /\ target \in {"COMPLETED", "INVALID"}
    /\ evaluation = NoEvaluation
    /\ VerificationRequested
    /\ v = "ORACLE_FAILURE"

\* Mutant: no record without results, whatever the target.
FreezesResults(target, v) ==
    /\ target \in {"COMPLETED", "INVALID"}
    /\ evaluation = NoEvaluation
    /\ VerificationRequested
    /\ v # "ORACLE_FAILURE"
    /\ ExecutionRecorded
    /\ verification # {}

FreezesAcceptance(target, v) ==
    /\ target \in {"COMPLETED", "INVALID"}
    /\ evaluation = NoEvaluation
    /\ VerificationRequested
    /\ v # "ORACLE_FAILURE"
    /\ ExecutionRecorded
    /\ target = "INVALID" => verification # {}

\* The record's own validation raises, before anything is assigned, when a
\* result to be accepted is not VALID.
FreezeRaises(target, v) ==
    FreezesAcceptance(target, v) /\ \E r \in verification : ~r.valid

\* transition(target) under validity v and detail code d.
MoveTo(target, v, d) ==
    /\ target \in Lifecycle!Transitions[state]
    /\ ~FreezeRaises(target, v)
    /\ evaluation' = IF FreezesFailure(target, v) THEN FailureRecord(d)
                     ELSE IF FreezesAcceptance(target, v) THEN AcceptanceRecord
                     ELSE evaluation
    /\ state' = target
    /\ records' = Append(records, Lifecycle!RecordOf(records, state, target))
    /\ UNCHANGED replaySource

\* Mutant: the target is not checked.
AdvanceUnchecked(target) ==
    /\ state' = target
    /\ records' = Append(records, Lifecycle!RecordOf(records, state, target))
    /\ UNCHANGED <<replaySource, evaluation>>

\* A move before verification has been requested freezes nothing.
Advance(target) == MoveTo(target, validity, detail)

Emit(types) == log' = log \cup types

\* The artifact once the session is asked to finalize; the first answer stays.
ArtifactAfter(complete) ==
    IF policy.kind = "none" \/ artifact # NoArtifact
    THEN artifact
    ELSE Finalized(policy, complete, log', unanswered)

\* _finalize_telemetry registers its Evidence unless the identifier is taken.
TelemetryUnpublished ==
    policy.kind # "none" /\ ~Registered(TelemetryId)

PublishTelemetry ==
    /\ TelemetryUnpublished
    /\ evidence' = [evidence EXCEPT ![TelemetryId] = "runtime"]

\* Where a handler goes next: on to a step, out of the call, or into
\* _invalidate_evaluation.
Goto(next) == step' = next /\ UNCHANGED <<output, cause>>

\* On to a step that needs nothing of what the handler holds.
Leave(next) == step' = next /\ output' = NoOutput /\ cause' = NoCause

Return == Leave("idle")

InvalidateWith(v, d) ==
    /\ step' = "invalidate"
    /\ cause' = [validity |-> v, detail |-> d]
    /\ UNCHANGED output

-----------------------------------------------------------------------------
(* create_episode has run: the Episode exists and the session is started *)

Init ==
    /\ Lifecycle!Init
    /\ validity = "VALID"
    /\ detail = NoDetail
    /\ taskVerdict = "INCONCLUSIVE"
    /\ verification = {}
    /\ evidence = [id \in EvidenceIds |-> "absent"]
    /\ log = {"episode.created"}
    /\ policy \in SessionPolicies
    /\ artifact = NoArtifact
    /\ environment = "none"
    /\ subject = "none"
    /\ bound = FALSE
    /\ world = InitialWorld
    /\ snapshots = {}
    /\ faults = {}
    /\ judged = InitialWorld
    /\ calls = 0
    /\ unanswered = {}
    /\ inFlight = {}
    /\ step = "idle"
    /\ output = NoOutput
    /\ cause = NoCause

\* replay_episode: link the new Episode to its source.
BindReplaySource(source) ==
    /\ step = "idle"
    /\ Lifecycle!BindReplaySource(source)
    /\ UNCHANGED <<outcomeVars, traceVars, policy, resourceVars, worldVars,
                   callVars, handlerVars>>

-----------------------------------------------------------------------------
(* provision *)

Provision ==
    /\ step = "idle"
    /\ Advance("PROVISIONING")
    /\ Goto("provisionEnvironment")
    /\ UNCHANGED <<outcomeVars, traceVars, policy, resourceVars, worldVars,
                   callVars>>

ProvisionEnvironment ==
    /\ step = "provisionEnvironment"
    /\ environment' = "live"
    /\ Goto("openSubject")
    /\ UNCHANGED <<lifecycleVars, outcomeVars, traceVars, policy, subject,
                   bound, worldVars, callVars>>

\* Both handles are stored only after the Subject has been opened.
OpenSubject ==
    /\ step = "openSubject"
    /\ subject' = "live"
    /\ bound' = TRUE
    /\ Goto("openGateway")
    /\ UNCHANGED <<lifecycleVars, outcomeVars, traceVars, policy, environment,
                   worldVars, callVars>>

\* Also the case of an Episode without a gateway.
OpenGateway ==
    /\ step = "openGateway"
    /\ Goto("reset")
    /\ UNCHANGED <<lifecycleVars, outcomeVars, traceVars, policy, resourceVars,
                   worldVars, callVars>>

ResetEnvironment ==
    /\ step = "reset"
    /\ world' = InitialWorld
    /\ Advance("READY")
    /\ Return
    /\ UNCHANGED <<outcomeVars, traceVars, policy, resourceVars, snapshots,
                   faults, judged, callVars>>

\* Which validity a failure at each step of provision yields: Subject and
\* gateway errors are INFRA_CONFOUND, any other exception is the environment's.
ProvisionFailure ==
    [provisionEnvironment |-> {"ENVIRONMENT_FAILURE"},
     openSubject          |-> {"ENVIRONMENT_FAILURE", "INFRA_CONFOUND"},
     openGateway          |-> {"ENVIRONMENT_FAILURE", "INFRA_CONFOUND"},
     reset                |-> {"ENVIRONMENT_FAILURE"}]

ProvisionFails(v) ==
    /\ step \in ProvisionSteps
    /\ v \in ProvisionFailure[step]
    /\ validity' = v
    /\ detail' = NoDetail
    /\ UNCHANGED <<taskVerdict, verification>>
    /\ MoveTo("INFRA_FAILED", v, NoDetail)
    /\ Leave("closeFailed")
    /\ UNCHANGED <<traceVars, policy, resourceVars, worldVars, callVars>>

-----------------------------------------------------------------------------
(* run_subject and the Subject's use of its session *)

RunSubject ==
    /\ step = "idle"
    /\ bound
    /\ state = "READY"
    /\ Advance("RUNNING")
    /\ Emit({"episode.started"})
    /\ Goto("invoke")
    /\ UNCHANGED <<outcomeVars, evidence, artifact, policy, resourceVars,
                   worldVars, callVars>>

\* _subject_call_tool up to the external call.  The session checks the
\* Episode's state on every use; a Subject may try it after it has returned.
CallTool ==
    /\ (step = "invoke" /\ subject = "live") \/ RetainsSession
    /\ bound
    /\ state = "RUNNING"
    /\ calls < MaxCalls
    /\ inFlight = {} \/ LeavesCallsOpen
    /\ calls' = calls + 1
    /\ unanswered' = unanswered \cup {calls'}
    /\ inFlight' = inFlight \cup {calls'}
    /\ UNCHANGED <<lifecycleVars, outcomeVars, traceVars, policy, resourceVars,
                   worldVars, handlerVars>>

\* tool.result; the tool may have changed the environment.
CallReturns(c) ==
    /\ c \in inFlight
    /\ environment = "live"
    /\ world' \in Worlds
    /\ inFlight' = inFlight \ {c}
    /\ unanswered' = unanswered \ {c}
    /\ UNCHANGED <<lifecycleVars, outcomeVars, traceVars, policy, resourceVars,
                   snapshots, faults, judged, calls, handlerVars>>

\* An exception raised to the Subject: the in-process adapter wraps what the
\* Subject does not handle, the HTTP adapter lets it leave run_subject.
RaiseToSubject ==
    IF step = "invoke" /\ ~AdapterWraps THEN Return ELSE UNCHANGED handlerVars

\* ToolExecutionError or MCPGatewayError: tool.error, then RuntimeError.  The
\* upstream of a gateway may have acted before the error.
CallFails(c) ==
    /\ c \in inFlight
    /\ world' \in Worlds
    /\ inFlight' = inFlight \ {c}
    /\ unanswered' = unanswered \ {c}
    /\ RaiseToSubject
    /\ UNCHANGED <<lifecycleVars, outcomeVars, traceVars, policy, resourceVars,
                   snapshots, faults, judged, calls>>

\* Any other exception of the environment (permission denied, KeyError for an
\* unknown order): no tool.error is emitted.
CallRaises(c) ==
    /\ c \in inFlight
    /\ inFlight' = inFlight \ {c}
    /\ RaiseToSubject
    /\ UNCHANGED <<lifecycleVars, outcomeVars, traceVars, policy, resourceVars,
                   worldVars, calls, unanswered>>

\* An adapter that no longer knows the handle does not even start.
InvokeReturns ==
    /\ step = "invoke"
    /\ subject = "live"
    /\ inFlight = {} \/ LeavesCallsOpen
    /\ Advance("QUIESCING")
    /\ Emit({"agent.invocation.completed"})
    /\ Return
    /\ UNCHANGED <<outcomeVars, evidence, artifact, policy, resourceVars,
                   worldVars, callVars>>

\* SubjectAdapterError, or a status other than COMPLETED.
InvokeFails ==
    /\ step = "invoke"
    /\ inFlight = {} \/ LeavesCallsOpen
    /\ validity' = "INFRA_CONFOUND"
    /\ detail' = NoDetail
    /\ UNCHANGED <<taskVerdict, verification>>
    /\ Emit({"agent.invocation.completed"})
    /\ MoveTo("INFRA_FAILED", "INFRA_CONFOUND", NoDetail)
    /\ Leave("closeFailed")
    /\ UNCHANGED <<evidence, artifact, policy, resourceVars, worldVars,
                   callVars>>

-----------------------------------------------------------------------------
(* verify *)

Verify ==
    /\ step = "idle"
    /\ bound
    /\ state = "QUIESCING"
    /\ Advance("VERIFYING")
    /\ Emit({"episode.verification.started"})
    /\ Goto("buildRequest")
    /\ UNCHANGED <<outcomeVars, evidence, artifact, policy, resourceVars,
                   worldVars, callVars>>

\* _build_oracle_request projects the environment for the Oracle.
BuildRequest ==
    /\ step = "buildRequest"
    /\ judged' = world
    /\ Emit({"oracle.execution.started"})
    /\ Goto("evaluate")
    /\ UNCHANGED <<lifecycleVars, outcomeVars, evidence, artifact, policy,
                   resourceVars, world, snapshots, faults, callVars>>

\* The codes an exception yields: a failing projection or pointer, or the
\* runner, which also raises OracleProtocolError and OracleSecurityError.
RaisedDetail ==
    [buildRequest |-> {"ORACLE_RUNNER_ERROR"},
     evaluate |-> {"ORACLE_RUNNER_ERROR", "ORACLE_PROTOCOL_ERROR",
                   "ORACLE_SECURITY_VIOLATION"}]

\* Mutant: the exception leaves verify.
EvaluationEscapes(code) ==
    /\ step \in DOMAIN RaisedDetail
    /\ code \in RaisedDetail[step]
    /\ Return
    /\ UNCHANGED <<lifecycleVars, outcomeVars, traceVars, policy, resourceVars,
                   worldVars, callVars>>

EvaluationRaises(code) ==
    /\ step \in DOMAIN RaisedDetail
    /\ code \in RaisedDetail[step]
    /\ InvalidateWith("ORACLE_FAILURE", code)
    /\ UNCHANGED <<lifecycleVars, outcomeVars, traceVars, policy, resourceVars,
                   worldVars, callVars>>

Evaluate(execution) ==
    /\ step = "evaluate"
    /\ output' = execution
    /\ step' = "publishExecution"
    /\ UNCHANGED <<lifecycleVars, outcomeVars, traceVars, policy, resourceVars,
                   worldVars, callVars, cause>>

\* The store refuses: the failing execution goes unrecorded as well.
ExecutionNotPublished ==
    /\ step = "publishExecution"
    /\ InvalidateWith("INFRA_CONFOUND", NoDetail)
    /\ UNCHANGED <<lifecycleVars, outcomeVars, traceVars, policy, resourceVars,
                   worldVars, callVars>>

PublishExecution ==
    /\ step = "publishExecution"
    /\ evidence' = [evidence EXCEPT ![ExecutionId] = "runtime"]
    /\ IF output.status = "SUCCESS"
       THEN Emit({"oracle.execution.completed"}) /\ Goto("publishItems")
       ELSE /\ Emit({"oracle.execution.failed"})
            /\ InvalidateWith("ORACLE_FAILURE", FailureDetail[output.status])
    /\ UNCHANGED <<lifecycleVars, outcomeVars, artifact, policy, resourceVars,
                   worldVars, callVars>>

\* Mutant: an identifier that is taken is registered again.
ReplaceItem(i) ==
    /\ step = "publishItems"
    /\ i \in output.items
    /\ evidence' = [evidence EXCEPT ![i] = "oracle"]
    /\ output' = [output EXCEPT !.items = @ \ {i}]
    /\ UNCHANGED <<lifecycleVars, outcomeVars, log, artifact, policy,
                   resourceVars, worldVars, callVars, step, cause>>

\* One Oracle Evidence item, registered unless its identifier is taken.  Items
\* registered before a bad one stay.
PublishItem(i) ==
    /\ step = "publishItems"
    /\ i \in output.items
    /\ ~Registered(i)
    /\ evidence' = [evidence EXCEPT ![i] = "oracle"]
    /\ output' = [output EXCEPT !.items = @ \ {i}]
    /\ UNCHANGED <<lifecycleVars, outcomeVars, log, artifact, policy,
                   resourceVars, worldVars, callVars, step, cause>>

\* A duplicate identifier or invalid metadata is the Oracle's failure, a
\* refusing store is not.
ItemRejected ==
    /\ step = "publishItems"
    /\ output.items # {}
    /\ InvalidateWith("ORACLE_FAILURE", "ORACLE_PROTOCOL_ERROR")
    /\ UNCHANGED <<lifecycleVars, outcomeVars, traceVars, policy, resourceVars,
                   worldVars, callVars>>

ItemNotStored ==
    /\ step = "publishItems"
    /\ \E i \in output.items : ~Registered(i)
    /\ InvalidateWith("INFRA_CONFOUND", NoDetail)
    /\ UNCHANGED <<lifecycleVars, outcomeVars, traceVars, policy, resourceVars,
                   worldVars, callVars>>

\* Mutant: checked before the results have been taken over.
UnresolvedBefore(results) ==
    {id \in UNION {r.cites : r \in verification} : ~Registered(id)}

\* _unresolved_evidence_ids over the results just taken over.
Unresolved(results) ==
    {id \in UNION {r.cites : r \in results} : ~Registered(id)}

\* The results become Episode.verification before they are checked.
Accept ==
    /\ step = "publishItems"
    /\ output.items = {}
    /\ verification' = output.results
    /\ IF Unresolved(verification') # {}
       THEN /\ InvalidateWith("ORACLE_FAILURE", "ORACLE_PROTOCOL_ERROR")
            /\ UNCHANGED <<validity, detail, taskVerdict>>
       ELSE /\ taskVerdict' = VerdictOf(verification')
            /\ validity' = "VALID"
            /\ detail' = NoDetail
            /\ Goto("telemetry")
    /\ UNCHANGED <<lifecycleVars, traceVars, policy, resourceVars, worldVars,
                   callVars>>

\* _finalize_telemetry(strict=True) returned; the code never asks whether the
\* Evidence registered under the telemetry identifier is the runtime's own.
TelemetryFinalized ==
    /\ step = "telemetry"
    /\ UNCHANGED log
    /\ artifact' = ArtifactAfter(TRUE)
    /\ IF TelemetryUnpublished THEN PublishTelemetry ELSE UNCHANGED evidence
    /\ IF RequiredMissing(policy, artifact')
       THEN InvalidateWith("TRACE_INCOMPLETE", NoDetail)
       ELSE Goto("complete")
    /\ UNCHANGED <<lifecycleVars, outcomeVars, policy, resourceVars, worldVars,
                   callVars>>

\* The store refuses the telemetry artifact: the session stays finalized.
TelemetryNotStored ==
    /\ step = "telemetry"
    /\ TelemetryUnpublished
    /\ UNCHANGED <<log, evidence>>
    /\ artifact' = ArtifactAfter(TRUE)
    /\ InvalidateWith("INFRA_CONFOUND", NoDetail)
    /\ UNCHANGED <<lifecycleVars, outcomeVars, policy, resourceVars, worldVars,
                   callVars>>

\* An OSError of the store that is no ArtifactStoreError leaves verify at any
\* of its three publications, and the Episode VERIFYING.
StoreRaises ==
    /\ ~StoreWraps
    /\ UNCHANGED <<log, evidence>>
    /\ \/ step = "publishExecution" /\ UNCHANGED artifact
       \/ /\ step = "publishItems"
          /\ \E i \in output.items : ~Registered(i)
          /\ UNCHANGED artifact
       \/ /\ step = "telemetry"
          /\ TelemetryUnpublished
          /\ artifact' = ArtifactAfter(TRUE)
    /\ Return
    /\ UNCHANGED <<lifecycleVars, outcomeVars, policy, resourceVars, worldVars,
                   callVars>>

\* Mutant: completed first, its telemetry finalized after.
CompleteBeforeTelemetry ==
    /\ step = "telemetry"
    /\ Advance("COMPLETED")
    /\ UNCHANGED <<outcomeVars, traceVars, policy, resourceVars, worldVars,
                   callVars, handlerVars>>

\* A record that cannot be built raises out of verify before the move.
Complete ==
    /\ step = "complete"
    /\ IF FreezeRaises("COMPLETED", validity)
       THEN UNCHANGED lifecycleVars
       ELSE Advance("COMPLETED")
    /\ Return
    /\ UNCHANGED <<outcomeVars, traceVars, policy, resourceVars, worldVars,
                   callVars>>

\* _invalidate_evaluation up to the transition.
Invalidate ==
    /\ step = "invalidate"
    /\ validity' = cause.validity
    /\ detail' = cause.detail
    /\ taskVerdict' = "INCONCLUSIVE"
    /\ IF FreezeRaises("INVALID", cause.validity)
       THEN UNCHANGED lifecycleVars /\ Return
       ELSE /\ MoveTo("INVALID", cause.validity, cause.detail)
            /\ Leave("closeInvalid")
    /\ UNCHANGED <<verification, traceVars, policy, resourceVars, worldVars,
                   callVars>>

\* _finalize_telemetry(complete=False, strict=False), the last thing a handler
\* does that ended the Episode without completing it.  The episode.invalid
\* event has made the session finalize itself as complete before.  With
\* strict=False a refusing store is ignored; what it raises besides leaves the
\* handler here, with nothing left to do.
CloseTrace ==
    /\ step \in ClosingSteps
    /\ UNCHANGED log
    /\ artifact' = ArtifactAfter(step = "closeInvalid")
    /\ PublishTelemetry \/ UNCHANGED evidence
    /\ Return
    /\ UNCHANGED <<lifecycleVars, outcomeVars, policy, resourceVars, worldVars,
                   callVars>>

-----------------------------------------------------------------------------
(* snapshot, restore, inject_fault, release *)

Snapshot ==
    /\ step = "idle"
    /\ bound
    /\ state \in {"READY", "QUIESCING"}
    /\ environment = "live"
    /\ snapshots' = snapshots \cup {world}
    /\ UNCHANGED <<lifecycleVars, outcomeVars, traceVars, policy, resourceVars,
                   world, faults, judged, callVars, handlerVars>>

\* Mutant: a restore in any state.
RestoreAnytime(w) ==
    /\ step = "idle"
    /\ bound
    /\ environment = "live"
    /\ w \in snapshots
    /\ world' = w
    /\ UNCHANGED <<lifecycleVars, outcomeVars, traceVars, policy, resourceVars,
                   snapshots, faults, judged, callVars, handlerVars>>

\* Restoring after the Subject's run changes what the Oracle will judge.
Restore(w) ==
    /\ step = "idle"
    /\ bound
    /\ state \in {"READY", "QUIESCING"}
    /\ environment = "live"
    /\ w \in snapshots
    /\ world' = w
    /\ UNCHANGED <<lifecycleVars, outcomeVars, traceVars, policy, resourceVars,
                   snapshots, faults, judged, callVars, handlerVars>>

InjectFault(f) ==
    /\ step = "idle"
    /\ bound
    /\ state = "READY"
    /\ environment = "live"
    /\ faults' = faults \cup {f}
    /\ UNCHANGED <<lifecycleVars, outcomeVars, traceVars, policy, resourceVars,
                   world, snapshots, judged, callVars, handlerVars>>

\* release asks for no state, and nothing records that it has begun: a retry
\* starts with the Subject again, whose adapter no longer knows the handle.
ReleaseSubject ==
    /\ step = "idle"
    /\ bound
    /\ subject = "live"
    /\ subject' = "released"
    /\ Goto("releaseEnvironment")
    /\ UNCHANGED <<lifecycleVars, outcomeVars, traceVars, policy, environment,
                   bound, worldVars, callVars>>

ReleaseEnvironment ==
    /\ step = "releaseEnvironment"
    /\ environment' = "released"
    /\ bound' = FALSE
    /\ faults' = {}
    /\ Return
    /\ UNCHANGED <<lifecycleVars, outcomeVars, traceVars, policy, subject,
                   world, snapshots, judged, callVars>>

ReleaseEnvironmentFails ==
    /\ step = "releaseEnvironment"
    /\ Return
    /\ UNCHANGED <<lifecycleVars, outcomeVars, traceVars, policy, resourceVars,
                   worldVars, callVars>>

-----------------------------------------------------------------------------

HostStep ==
    \/ \E source \in Sources : BindReplaySource(source)
    \/ Provision
    \/ RunSubject
    \/ Verify
    \/ Snapshot
    \/ \E w \in snapshots : Restore(w)
    \/ \E f \in Faults : InjectFault(f)
    \/ ReleaseSubject

ProvisionStep ==
    \/ ProvisionEnvironment
    \/ OpenSubject
    \/ OpenGateway
    \/ ResetEnvironment
    \/ \E v \in Validities : ProvisionFails(v)

InvokeStep ==
    \/ \E c \in inFlight : CallReturns(c) \/ CallFails(c) \/ CallRaises(c)
    \/ InvokeReturns
    \/ InvokeFails

VerifyStep ==
    \/ BuildRequest
    \/ \E code \in DetailCodes : EvaluationRaises(code)
    \/ \E execution \in Executions : Evaluate(execution)
    \/ ExecutionNotPublished
    \/ PublishExecution
    \/ \E i \in OracleIds : PublishItem(i)
    \/ ItemRejected
    \/ ItemNotStored
    \/ Accept
    \/ TelemetryFinalized
    \/ TelemetryNotStored
    \/ StoreRaises
    \/ Complete
    \/ Invalidate

ReleaseStep == ReleaseEnvironment \/ ReleaseEnvironmentFails

\* What goes on once a host call has been made.
HandlerStep ==
    \/ ProvisionStep
    \/ InvokeStep
    \/ VerifyStep
    \/ CloseTrace
    \/ ReleaseStep

Next == HostStep \/ CallTool \/ HandlerStep

Spec == Init /\ [][Next]_vars

\* External calls return and the Subject stops; nobody has to make a host call.
FairSpec == Spec /\ WF_vars(HandlerStep)

-----------------------------------------------------------------------------
(* Properties *)

TypeOK ==
    /\ Lifecycle!TypeOK
    /\ validity \in Validities
    /\ detail \in DetailCodes \cup {NoDetail}
    /\ taskVerdict \in Verdicts
    /\ verification \in SUBSET Results
    /\ evidence \in [EvidenceIds -> {"absent", "runtime", "oracle"}]
    /\ log \subseteq EventTypes
    /\ policy \in SessionPolicies
    /\ artifact \in Completeness \cup {NoArtifact}
    /\ environment \in {"none", "live", "released"}
    /\ subject \in {"none", "live", "released"}
    /\ bound \in BOOLEAN
    /\ world \in Worlds
    /\ snapshots \subseteq Worlds
    /\ faults \subseteq Faults
    /\ judged \in Worlds
    /\ calls \in 0..MaxCalls
    /\ unanswered \subseteq 1..MaxCalls
    /\ inFlight \subseteq unanswered
    /\ step \in Steps
    /\ output \in Executions \cup {NoOutput}
    /\ cause \in Causes \cup {NoCause}

\* What a frozen acceptance record stands for (episode.py:145-156,
\* AVP-ORACLE-007): a VALID one names results the runtime took over, whose
\* cited Evidence is registered, and an execution record the runtime itself
\* published, even when the Episode was invalidated later for another reason;
\* an ORACLE_FAILURE one belongs to an Episode invalidated for that reason.
AcceptanceSound ==
    evaluation # NoEvaluation =>
        IF evaluation.validity = "VALID"
        THEN /\ evidence[ExecutionId] = "runtime"
             /\ "oracle.execution.completed" \in log
             /\ evaluation.accepted = verification
             /\ Unresolved(evaluation.accepted) = {}
             /\ validity # "ORACLE_FAILURE"
        ELSE /\ state = "INVALID"
             /\ validity = "ORACLE_FAILURE"
             /\ detail = evaluation.detail
             /\ evaluation.executed <=> evidence[ExecutionId] = "runtime"

\* The published outcome of an ended Episode is of one piece: COMPLETED means
\* VALID with a frozen record saying the same verdict, every other end means
\* no verdict, and a detail code comes with ORACLE_FAILURE and only then
\* (engine.py:531-577, 817-842; AVP-ORACLE-004).
OutcomeConsistent ==
    /\ state = "COMPLETED" =>
         /\ validity = "VALID"
         /\ evaluation # NoEvaluation
         /\ evaluation.validity = "VALID"
         /\ taskVerdict = evaluation.verdict
    /\ state \in {"INVALID", "INFRA_FAILED"} =>
         /\ validity # "VALID"
         /\ taskVerdict = "INCONCLUSIVE"
    /\ state = "INFRA_FAILED" => evaluation = NoEvaluation
    /\ state \in Terminal => (detail # NoDetail <=> validity = "ORACLE_FAILURE")

\* The Oracle judged the state the environment was left in: no snapshot is
\* restored and no call of the Subject takes effect between the projection and
\* the verdict or after it, although sessions, snapshots and release stay
\* available to others (engine.py:592, 609, 875).
JudgedWorldIsFinal ==
    evaluation # NoEvaluation /\ evaluation.validity = "VALID" => judged = world

\* A COMPLETED Episode under a policy that requires telemetry has it whole:
\* every tool call answered, every required event seen, and the artifact
\* published as Evidence by the runtime (AVP-OTEL-008).
CompletedIsTraced ==
    state = "COMPLETED" /\ policy.kind = "otel" /\ policy.required =>
        /\ artifact = "COMPLETE"
        /\ unanswered = {}
        /\ RequiredEvents \subseteq log
        /\ evidence[TelemetryId] = "runtime"

\* Once terminal, an Episode does not change its mind, whatever comes later,
\* release and late tool calls included (episode.py:30-32): outcome and record
\* stay, an artifact that is there stays, and no Evidence but the telemetry is
\* registered.  That telemetry comes after the end on the failing paths, where
\* only the handler that ended the Episode adds it, and never after COMPLETED
\* (engine.py:276, 288, 356, 542, 842).
OnlyTelemetryFollows ==
    /\ UNCHANGED <<lifecycleVars, outcomeVars>>
    /\ artifact # NoArtifact => artifact' = artifact
    /\ \A id \in EvidenceIds \ {TelemetryId} : evidence'[id] = evidence[id]
    /\ step \notin ClosingSteps \/ state = "COMPLETED" =>
         UNCHANGED <<artifact, evidence>>

OutcomeFinal == [][(state \in Terminal) => OnlyTelemetryFollows]_vars

\* Evidence is never replaced or withdrawn, so an identifier cited by a result
\* means the same bytes for every reader (engine.py:691, 1010).
EvidenceNeverReplaced ==
    [][\A id \in EvidenceIds :
         evidence[id] # "absent" => evidence'[id] = evidence[id]]_evidence

\* The engine drives its Episode as the Episode object promises.
LifecycleSpec == Lifecycle!Spec

\* A host call does not leave the Episode in a state that only the call itself
\* could have moved it out of (engine.py:266-292, 339-366, 391-577), as long as
\* adapter and store wrap their errors and every result is VALID.  Where they do
\* not, it does: RunningEnds, VerifyingExecutes and VerdictIsRecorded.
HandlersSettle ==
    \A active \in {"PROVISIONING", "RUNNING", "VERIFYING"} :
        state = active ~> state # active

\* While the Episode is VERIFYING, "evaluator-owned verification is executing"
\* (spec/core/episode-lifecycle.md:31): verify has not been left (engine.py:440,
\* 548, 707-713).
VerifyingExecutes == state = "VERIFYING" => step \in VerifySteps

\* Results that end in a verdict are preserved in a record (AVP-ORACLE-007):
\* when verify is over, an Episode with a verdict has one (engine.py:531-567).
VerdictIsRecorded ==
    step = "idle" /\ taskVerdict # "INCONCLUSIVE" => evaluation # NoEvaluation

\* An Agent that runs comes to an end (subject/http.py:163, engine.py:322-366).
RunningEnds == state = "RUNNING" ~> state # "RUNNING"

=============================================================================
