--------------------------- MODULE TelemetrySession ---------------------------
(***************************************************************************)
(* How a telemetry session judges its own Episode when it is finalized     *)
(* (telemetry/bridge.py).  The session sees every event the runtime emits  *)
(* until it has an artifact, so the set of event types it has seen is the  *)
(* set emitted so far, and its open spans are the tool calls that have no  *)
(* result or error yet.                                                    *)
(***************************************************************************)
EXTENDS FiniteSets

\* TelemetryPolicy.required_event_types by default.
RequiredEvents == {"episode.created", "episode.started",
                   "agent.invocation.completed", "oracle.execution.completed"}

\* No bridge, the no-op bridge, or the OpenTelemetry bridge; "sampled" is
\* whether the tracer records the Episode's spans (the sampler's choice).
Policies == [kind : {"none", "noop", "otel"}, required : BOOLEAN,
             sampled : BOOLEAN]

Completeness == {"BEST_EFFORT", "COMPLETE", "INCOMPLETE", "REQUIRED_MISSING"}

\* Mutant: open spans are ended and forgotten.
EventsSeen(seen, openCalls) == RequiredEvents \subseteq seen

\* A span still open, or a missing required event, spoils the mapping.
MappingComplete(seen, openCalls) ==
    openCalls = {} /\ RequiredEvents \subseteq seen

\* finalize(complete=...), in the order of the code: the last test of the
\* OpenTelemetry session overrides the ones before it.
Finalized(policy, complete, seen, openCalls) ==
    CASE policy.kind = "noop" ->
            IF policy.required THEN "REQUIRED_MISSING" ELSE "BEST_EFFORT"
      [] policy.required /\ ~policy.sampled -> "REQUIRED_MISSING"
      [] complete /\ MappingComplete(seen, openCalls) -> "COMPLETE"
      [] OTHER ->
            IF policy.required /\ complete THEN "REQUIRED_MISSING"
                                           ELSE "INCOMPLETE"

\* _required_telemetry_missing: what the runtime asks of the artifact before
\* it lets an evaluation stand.
RequiredMissing(policy, artifact) ==
    /\ policy.kind # "none"
    /\ policy.required
    /\ artifact = "REQUIRED_MISSING"

=============================================================================
