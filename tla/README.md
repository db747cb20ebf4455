# Verification of the AVP reference runtime

This directory holds TLA+ models of the Agent Verification Protocol reference
implementation (`src/src/avp_ref`), the TLC configurations that check them and
TLAPS proofs about them. Paths below are relative to `src/src/avp_ref` unless
they start with `src/`.

## The system

The runtime lets an Agent (the *Subject*) act on an environment it controls,
and then has an isolated *Oracle* judge the state the Agent left. One such run
is an *Episode*. What makes the system useful is that its published outcome can
be trusted: a verdict exists only when something trustworthy produced it, is
backed by registered Evidence, and never changes afterwards.

| Component | State it keeps | Operations | Talks to |
|---|---|---|---|
| Episode (`runtime/episode.py`, `state.py`, `lifecycle.py`) | lifecycle state, transition records, replay source, Oracle acceptance record, validity, verdict, results, Evidence registry, events | `transition`, `bind_replay_source` | emits events to the telemetry session |
| Runtime engine (`runtime/engine.py`, `replay.py`) | Episodes and, per Episode, adapters, handles, Oracle package, gateway, faults | `create_episode`, `create_replay_episode`, `provision`, `run_subject`, `verify`, `snapshot`, `restore`, `inject_fault`, `release`, and for the Subject `observe`, `call_tool` | everything below, by synchronous calls |
| Telemetry session (`telemetry/bridge.py`) | seen event types, open spans, artifact | `record_event`, `finalize` | called on every event; finalizes itself on the end events |
| Oracle runner (`oracle_runner/`, `oracle_worker.py`) | a worker process per evaluation | `evaluate` | the worker, over pipes |
| Subject adapters (`subject/`) | open handles; HTTP: step, deadline | `open`, `invoke`, `release` | call back into the runtime through `SubjectSession` |
| Environment adapter (`environment/`, `world.py`) | sessions: world, snapshots, fault rules | `provision`, `reset`, `execute`, `project`, `snapshot`, `restore`, `inject_fault`, `release` | - |
| Environment Fabric (`fabric/`) | ready, released, resources | `provision`, `execute_composite`, `release` | its resources |
| Relational resource (`relational.py`) | relations, pending mutations, quiescing | begin and settle mutation, quiesce, project, snapshot, restore, reset | - |
| PostgreSQL backend (`tck_adapter/postgresql_relational/`) | tables, held connections and their labels, a writer thread, quiescing | the relational resource's, each a transaction or part of one | a database, by SQL statements |
| Browser resource (`tck_adapter/playwright_browser/`, `tck_adapter/browser_harness.py`) | the page's cookies and local storage, provenance records, delayed mutations, settlement ledger, snapshots | seed, mutate, settle, project, snapshot, restore, reset, release | a browser, by provider calls |
| MCP gateway (`mcp/`) | server, catalog baseline, call records | `open`, `call_tool`, `refresh_catalog` | an upstream server |
| Artifact store (`artifacts/`) | content-addressed objects | `put`, `open_reader`, `contains` | the file system |
| HTTP host binding (`http_server.py`) | one shared runtime | create, provision, run, verify, get | the engine, from a thread pool |
| Scenario compiler, security context, trust bundles, TCK adapters, CLI | none that evolves | pure functions, checks, drivers | - |

**What is hard.** A handler of the engine is a chain of external calls, each of
which can fail on its own, and every failure must still leave the Episode with
one consistent outcome. Values are assigned before the check that may reject
them (results, verdict, validity). The acceptance record is computed from an
event log written by earlier steps. The Subject calls back into the runtime
while it runs, and may keep its session or have a call executing after it
returned. The telemetry session finalizes itself on the events the runtime
emits. The surroundings are as hard: worker processes that end between two
polls, files that are linked but not yet durable, a tool server that changes
between listing and call, mutations that settle after the state they were made
for was replaced, a browser that acts when it wants to, and a thread pool that
calls the engine without a lock. `PROJECT.json` lists the hazards with their lines and the property that
covers each.

**What makes each component correct.** Episode: its history is a legal walk and
its end is final. Engine: the published outcome is of one piece, backed by
Evidence, final, and reached. Telemetry: a required trace is whole or the
evaluation does not stand. Runner: one status per evaluation, no output of a
failed one. Environment and relational resource: snapshots restore what they
captured, settled state is what is projected. Fabric: a release is all or is
reported. Gateway: no call under a drifted catalog. Store: an object is never
visible half-written and never replaced.

## Modules

| Module | Models | Lines of code it stands for |
|---|---|---|
| `EpisodeLifecycle` | the Episode object on its own: the abstract specification | `runtime/state.py`, `episode.py`, `lifecycle.py` |
| `TelemetrySession` | operators: how a session judges its trace | `telemetry/bridge.py`, `models.py` |
| `EpisodeRuntime` | one Episode driven by the engine, with Subject, environment, Oracle runner, store and tracer around it | `runtime/engine.py`, `replay.py`, `episode.py`, `oracle_runner/models.py` |
| `HostBinding` | one Episode under the thread pool of the HTTP binding, `transition` statement by statement | `http_server.py`, `runtime/episode.py`, heads of the handlers in `runtime/engine.py` |
| `EnvironmentSession` | the in-memory environment adapter: sessions, snapshots, fault rules | `environment/in_memory.py`, `world.py` |
| `SettledStore` | what a relational resource promises: the abstract specification | the protocols of `tck_adapter/relational_harness.py` |
| `RelationalManifest` | the relations, keys and values both relational backends are over | `relational.py` |
| `RelationalResource` | the in-memory relational resource with its fixture control | `relational.py`, `tck_adapter/reference_relational_harness.py` |
| `PostgreSQLResource` | the PostgreSQL relational resource with its fixture control, statement by statement | `tck_adapter/postgresql_relational/resource.py`, `fixture.py` |
| `EnvironmentFabric` | composite operations and release over resources that fail | `fabric/runtime.py`, `fabric/models.py` |
| `BrowserResource` | the browser resource with its controls and verifier | `tck_adapter/playwright_browser/`, `tck_adapter/browser_harness.py` |
| `OracleRunner` | `evaluate` and its worker process | `oracle_runner/subprocess.py`, `oracle_worker.py` |
| `ImmutableStore` | what an Artifact store promises: the abstract specification | `artifacts/protocol.py` |
| `ArtifactStore` | the file system store, system call by system call | `artifacts/filesystem.py` |
| `Evaluation` | `verify` over `OracleRunner` and `ArtifactStore`, which it extends | `runtime/engine.py`, `evidence.py` |
| `McpGateway` | the gateway, its transport and the server behind it | `mcp/gateway.py`, `mcp/transport.py`, `mcp/models.py` |
| `SubjectSession` | Episodes with HTTP Subjects on one `McpGateway`, which it extends | `subject/http.py`, `runtime/engine.py` |
| `MC...` | bounds and values for TLC, one for each module that is run; `MCComponents` runs `EpisodeLifecycle`, `EnvironmentSession` and `EnvironmentFabric`, each by itself | |
| `EpisodeLifecycle_proofs`, `EpisodeRuntime_proofs`, `HostBinding_proofs`, `RelationalResource_proofs`, `Environment_proofs` (Fabric and sessions), `BrowserResource_proofs`, `Evaluation_proofs`, `SubjectSession_proofs` | theorems | |

Four detailed modules are shown to implement an abstract one.

- `EpisodeRuntime` extends `TelemetrySession` and instantiates
  `EpisodeLifecycle` as `Lifecycle` over its own variables of the same names,
  so the refinement mapping is the identity and `LifecycleSpec` is
  `Lifecycle!Spec`. What `EpisodeLifecycle` leaves open, which record a move to
  COMPLETED or INVALID freezes, `EpisodeRuntime` computes from the event log,
  the results and the validity, as `_freeze_oracle_evaluation` does.
- `RelationalResource` implements `SettledStore` (`ImplementsStore`): the store
  is `_state`, the open mutations are those pending and not settled, admission
  is the negation of `_quiescing`, and what the evaluator can go back to is the
  baseline and the resource's own snapshots. Mutations are named by their
  position in `_pending`.
- `PostgreSQLResource` implements the same `SettledStore` (`ImplementsBackend`):
  the store is what the committed rows spell, the open mutations are the
  transactions behind held labels, and mutations are named by their labels. It
  does so while neither of two slips has happened (below).
- `ArtifactStore` implements `ImmutableStore` (`ImplementsImmutable`): the
  store is the set of contents with an object at their path, the filed ones are
  those whose entry in their directory is synced, shelves are the fan-out
  directories, fixed once their own entries are on the disk, and references are
  the same.

`HostBinding` instantiates `EpisodeLifecycle` too, for its relation and its
records.

### How EpisodeRuntime corresponds to the code

*Variables.* `state`, `records`, `replaySource`, `evaluation`, `validity`,
`detail`, `taskVerdict`, `verification` and `evidence` are the fields of
`Episode`. `log` is the set of event types later decisions read (the freeze and
the telemetry policy), `evidence` maps each identifier to who registered it.
`policy` and `artifact` belong to the telemetry session; its open spans are
`unanswered`. `environment` and `subject` are the adapters' sessions, `bound`
is whether the runtime holds the handles. `world` is the authoritative state,
`judged` a history variable: the state projected for the Oracle. `calls`,
`inFlight` and `unanswered` are the Subject's tool calls. `step` is the program
counter of the running host call, `output` and `cause` its locals.

*Actions.* A host call starts when `step = "idle"` and runs one action per
external call, in the order of the code:

- `provision`: `Provision`, `ProvisionEnvironment`, `OpenSubject`,
  `OpenGateway`, `ResetEnvironment`; `ProvisionFails` at each of them.
- `run_subject`: `RunSubject`, any number of `CallTool` and its `CallReturns`,
  `CallFails` (an error the runtime answers with `tool.error`) or `CallRaises`
  (one it does not), then `InvokeReturns` or `InvokeFails`.
- `verify`: `Verify`, `BuildRequest`, `Evaluate`, `PublishExecution`,
  `PublishItem` for each item, `Accept`, `TelemetryFinalized`, `Complete`; from
  each of them `EvaluationRaises`, `ExecutionNotPublished`, `ItemRejected`,
  `ItemNotStored` or `TelemetryNotStored` leads to `Invalidate`, which is
  `_invalidate_evaluation` up to its transition. At each publication
  `StoreRaises` is the error of the store that no clause catches, and that
  leaves `verify`.
- `CloseTrace` is the `_finalize_telemetry` with which `ProvisionFails`,
  `InvokeFails` and `Invalidate` go on: the Episode is terminal by then, and its
  artifact and the telemetry Evidence are still to come.
- `release`: `ReleaseSubject`, then `ReleaseEnvironment` or
  `ReleaseEnvironmentFails`.
- `snapshot`, `restore`, `inject_fault`, `create_replay_episode` are one action
  each. `create_episode` is `Init`.

An exception that no `except` clause of the handler catches returns `step` to
`"idle"` and leaves the Episode as it is.

*Constants that are choices about the surroundings.* `AdapterWraps`: the
Subject adapter turns what the Subject does not handle into
`SubjectAdapterError` (the in-process adapter does, the HTTP adapter does not).
`StoreWraps`: the Artifact store raises nothing but `ArtifactStoreError` (the
in-memory store, `engine.py`'s default, does; the file system store does not).
`RetainsSession`: the Subject uses its session after it returned.
`LeavesCallsOpen`: the Subject returns while a call is executing (a thread of
its own). The theorems hold for every choice, but for the one that names its
condition.

*Abstractions.* A result is three facts: is it a critical FAIL, is its own
validity VALID, which identifiers it cites. The execution Evidence that verify
adds to each result's citations is registered by then and is left out. The
order in which an Oracle lists its Evidence is a choice. The telemetry policy's
required event types are the default ones. Digests, identifiers, payloads,
logical time and wording are left out; so are `observe` and `read_evidence`,
which change nothing kept here, and exceptions from `logical_time` of a live
environment. `TypeError` and `ValueError` from encoding telemetry, which strict
finalization would let escape, cannot arise for the artifact's own fields.

### How the other modules correspond to the code

*HostBinding.* `state`, `records`, `shown` and `evaluation` are `Episode.state`,
`_transition_records`, `verification` and `_oracle_evaluation`; results are
named by the thread that got them. `sessions` are the environment's sessions
and `handle` is the engine's entry in `_handles` and `_subject_handles`. Each
thread has a program counter, the operation it serves and the locals of
`transition`: the target, `previous` and the number of the record. `Enter` is
`_bound`, `TestState` the test at the head of `run_subject` and `verify`;
`AssertTransition`, `Freeze`, `NumberRecord`, `AssignState` and `AppendRecord`
are the statements of `transition`. What a handler does in between
(`ProvisionEnvironment`, `OpenSubject`, `ResetEnvironment`, `InvokeSubject`,
`EvaluateOracle`) is a step that succeeds, fails into the transition the code
makes, or raises. `Receive` takes any request at any time, a second one for an
operation that is being served included: nothing in the binding or the engine
refuses it. `repeated` remembers those operations, and the properties say what
still holds after that: what is before the repeated operation (`Calm`).

*EnvironmentSession.* One record per handle: `world` (state and logical time),
`snapshots` and `faults` are the fields of `_Session`, and `refs` the
`SnapshotRef`s handed out, of all sessions. `Execute` is a call that gets
through to `CommerceWorld.call_tool`, which can leave any state; `ExecuteFaulted`
one that `_apply_fault_if_due` answers, after the rules before it have counted
the call. `since`, `overtaken`, `fired` and `written` are history.

*RelationalResource.* `state`, `pending`, `quiescing` and `released` are the
fields of `InMemoryRelationalResource`, `held` is the fixture control's table
of labels, `bound` and `sameInputs` what `_ensure_live` asks for. A relation is
a function from row keys to a value or `NoRow`. `Begin`, `Settle` and
`SettleRefused` are the control's calls with the resource's behind them, and
`Diff` is the set of changes `diff` lists.

*PostgreSQLResource.* `rows` are the committed rows, `txs` the transaction of
each held label, of each writer thread and of the call on the controlling
thread (`Control`), `labels` is `_held_labels`, `control` where the controlling
thread is, `allowed` which `allow_commit` events are set. A write is
`_replace_relations_on_connection`: `DeleteBegins` takes the statement's
snapshot, `DeleteRow` locks and deletes row by row and waits while another
transaction has deleted the row, `InsertRows` inserts. A row knows the
transaction that inserted it, so that two rows of one key can be told apart.
`Legible` is what `_validate_state_for_manifest` asks of a read, `Logical` the
`StateImage` of it. Held mutations are `BeginHeldMutation`, the statements,
`HeldMutationBegun` and `SettleHeldMutation`, or `ConnectionLost`.
`project_during_atomic_commit` is `ProjectDuringAtomicCommit`, the writer's
statements beside `AllowCommit` and `WriterJoined`, and `WriterCommits` or
`WriterFails`; its two waits of ten seconds may end with the writer still
there. `release` rolls back one connection after the other (`RollBackHeld`,
`RollbackRaises`) and then drops the schema (`DropSchema`). The server runs
every transaction at READ COMMITTED, its default, and a statement may fail at
any time. `slips` is history: `"bare"`, a held mutation found nothing to delete
and so holds no row lock; `"overdue"`, a writer outlived its call.

*EnvironmentFabric.* `provisioned`, `gone` and `state` belong to the
resources, `ready` and `released` to the Fabric, `last` is the last
`FabricOperationResult` or that the call raised. A composite operation is one
step, its loop the operator `Before`: with the resources before the one that
raised done and the others untouched. Which resources fail what is chosen by
`Init`.

*BrowserResource.* A cookie is its visible key and whether it is host-only: the
provider's listing shows the key alone. `provenance` are the resource's
records, `cookies`, `partitioned` and `storage` the browser. `sessions` are
delayed mutations, whose timer is `Fire`; `admission` and `mutations` are the
`BrowserSettlementLedger`. `Replacements` is the set of states that clearing,
filling and seeding can leave when any provider call may raise, before it took
effect or after. A call that raises after a cookie was added leaves the cookie
without a record, and so does `SeedCookie`; one that raises after a cookie was
cleared (`Clearings`) leaves a record without its cookie, because the record is
popped after the call. `strayed` is a history variable: the keys under which a
cookie was removed and its record left, by that, by a refused seed or by the
Subject. `Verified...` are the verifier's calls with the projections they
compare.

*OracleRunner.* The runner's program counter goes through the statements of
`evaluate`; `Poll`, `Measure` and `CheckDeadline` are the three things
`_wait_bounded` looks at, one after the other, while the worker goes on.
`long` says that the request does not fit into the pipe, so that the write
waits for a worker that reads. The worker boots, receives, may print, fork and
end in any way; only `Answer` writes a response frame. `child` says where the
processes are that Oracle code started: in the worker's process group, or apart
from it, once one has made a session or a group of its own (`LeaveGroup`), where
`killpg` does not reach it. `Collect` may raise, as the removal of the temporary
directory does while such a process writes in it.

*ArtifactStore.* `step` is where each publisher's `put_stream` is; `objects`
what is at a digest's path, `durable` which entries are synced in their
directories, and `homes` those directories: `"made"` by `mkdir`, whose own
entries `put_stream` never syncs, and `"settled"` when the system has written
them (`WriteBack`). The levels of the fan-out are one directory, which is
settled when all of them are. Every call may raise; the process may be killed,
and a loss of power takes any unsynced entries and any directories that are not
settled, with what is in them. `vanished` is history. `Damage` is a changed
object.

*Evaluation.* `verdict` is where `verify` is or how it ended. The thread of an
evaluation is the runner's `evaluate` and then the publisher of its record and
of its Evidence. An error of the store that is no `ArtifactStoreError`
(`mkstemp` raises outside the `try`) ends `verify` without a verdict.

*McpGateway and SubjectSession.* `pc` is where the thread of each Episode is;
`listing` and `call` are the locals of `_list_tools` and `call_tool`. A request
to the server is one step that gets an answer or fails, as `Drift` lets the
server change between any two of them. `catalog` and `records` are the
gateway's and shared. `SubjectSession` adds the state, the frames asked for
and the `tool.result` events of each Episode. `sent`, `live`, `alone` and
`opened` are history. `trickling` has the Episodes whose request, to the server
or to the Subject, has a response that comes byte by byte: `urlopen`'s timeout
ends the wait for the next byte, so such a request does not fail until it
stalls. Whatever changes where the request is ends it (`Requests`).

## Runs

| Run | Checks | What it shows |
|---|---|---|
| `components` | `HistoryIsWalk`, `NoPhaseSkipped`; `FiredInTime`, `RefsStayTrue`, `WorldIsOwn`; `LeftoversAreOptional`, `ReadyIsProvisioned`, `ResultHonest` | three components, each by itself. The Episode object under every call sequence. Two sessions under any calls: references lead to what they were taken of, and how late a fault can be. Every sequence of composite operations with every failing resource: what is left behind is optional, results agree with what was done |
| `runtime` | `AcceptanceSound`, `OutcomeConsistent`, `CompletedIsTraced`, `OutcomeFinal`, `EvidenceNeverReplaced`, `LifecycleSpec` | safety of the engine in the widest surroundings |
| `settle` | `JudgedWorldIsFinal`, `HandlersSettle` | every host call ends, and the Oracle judged the final state |
| `requests` | `WorkIsExclusive`, `HistoryIsComplete`, `LostOnlyByFailure`, `StateWalks` | requests for one Episode that overlap on three threads: until an operation is asked for again, handlers work one at a time, every assignment is a legal move, the records are a complete walk and no session is lost but by a failure; afterwards what comes before that operation is still undisturbed |
| `relational` | `DiffLeadsToState`, `FinalProjectionStands`, `OrphanedOnlyByDrift`, `ImplementsStore`; `RowsAreKeyed`, `ProjectionStands`, `ImplementsBackend` | the two backends, each by itself. In memory, mutations held across reset, restore, quiescing and drift do not move what the final projection showed, but to a captured state. In PostgreSQL the same of held transactions, a writer thread, failing statements and lost connections, and row locks alone keep the row keys unique |
| `browser` | `AcceptedStands`, `CookiesAreExact`, `SnapshotsAreSeedable` | late timers and half-done replacements: an accepted projection stays true, and records and cookies agree under every key where no record has lost its cookie |
| `evaluation` | `SuccessIsAnswered`, `NothingIsLeftInGroup`, `ReferencesLead`, `ValidIsFounded`, `ImplementsImmutable`, `VerificationEnds` | `verify` down to processes and system calls: a valid evaluation had an answer and has its Evidence stored, and `verify` ends |
| `gateway` | `SentUnderBaseline`, `RecordsAreExecuted`, `ResultsAreBound`, `HostCallsEnd` | two Episodes on one gateway and a drifting server; host calls end unless a response goes on trickling |
| `tool_error` | `RunningEnds`, violated | finding 1 |
| `invalid_result` | `VerdictIsRecorded`, violated | finding 2 |
| `store_error` | `VerifyingExecutes`, violated | finding 3 |
| `repeated_provision` | `TerminalStays`, violated | finding 4 |

Every property of a passing run has a mutant of the code that breaks it, listed
in `PROJECT.json`; the mutated operators stand next to the originals. Where `TypeOK`, `TerminalIsFinal`,
`HistoryAppendOnly` or `NoResurrection` are not in a run's list
they are theorems (below) and TLC does not look at them again.

*Bounds.* `components`, the Episode: ten records; the longest history without a pause is six
moves, so every normal path with two pauses fits. Only pausing makes it longer.
`runtime`: three results (a pass that cites Evidence, a critical failure, a
critical failure that is not VALID), two identifiers an Oracle can use (one of
its own, one the runtime has taken), two environment states, one fault, one
replay source, two tool calls, five telemetry set-ups. Two calls are enough to
have one answered and one open; an Episode runs its Subject once and verifies
once, so nothing else repeats except snapshots and restores, which two states
cover. `requests`: three threads, enough for two requests of one operation and
one of another; once it has repeated a request, the client waits for its answers
(`Asks`), since a third and fourth repetition only multiply the records. The
theorems have no such bound. `components`, the sessions: two sessions, two tools, two fault rules and two
snapshots in both together, clocks to two: enough for one rule to answer a call
the other has to count, and for a reference of one session to be presented to
the other. `relational`: two relations of one row key, two values, two labels,
two mutations (one that loses its update to the other) and one snapshot beside
the baseline and one of another resource; the resource refuses for one reason
at a time (released, unbound, other inputs), since `_ensure_live` does not tell
them apart. Its database has the same relations and values, two labels, one
writer thread, two held transactions or one beside a snapshot, and a drift or a
snapshot; a write puts one value or nothing at a key and one of both relations
starts with the first, a held mutation differs from the baseline, and nothing
follows a slip. That is enough for a held transaction, the writer and the
controlling thread to wait for each other's rows, and for a writer to find a row
gone that it waited for. `components`, the Fabric: three resources, one of
each restore fidelity, each of which fails one operation or none, so that a
loop has resources before and after the one that raises. `browser`: one visible
key, that is two cookies the provider cannot tell apart, one origin, one item,
three values of which one is not kept exactly, one delayed mutation, one
snapshot, and one thing at a time that is out of order: a condition that keeps
the verifier from accepting, a partitioned cookie, or a record that has lost its
cookie. A released resource is not followed: only the ledger still takes calls,
and those leave the acceptance or take it back. The theorems have no such bound.
`evaluation`: one evaluation with a record and Evidence, whose objects have a
directory each, new or settled, and another publisher of either. The store's steps wait until the runner has ended, with which they
commute; the other publisher puts and objects are damaged when the evaluation
was a success, since only then does `verify` put both contents; and a
verification that was lost in the runner is not followed.
`gateway`: an Episode of two steps and one of one step, two tools of which one
is allowed, two schemas, three contracts of two pages each: a server that
moves both tools to other pages and changes the called one, and one whose pages
lead in a circle. The server moves only when somebody is about to look, and the
second Episode starts after the first has had an answer. A call that was refused
or raised leaves its Episode before anybody else goes on: until then it touches
nothing that another thread reads. `settle`: the required OpenTelemetry policy only, since it has all the
exits of the others. The violation runs shrink to what the counterexample
needs.

*Restrictions of a passing run, and why.* `runtime` has no Oracle that uses the
telemetry identifier (`CompletedIsTraced` fails with one: see Findings). `settle`
has only VALID results and an adapter and a store that wrap exceptions
(`HandlersSettle` fails otherwise: findings 2, 1 and 3), and a Subject that waits for its calls: a
call that is still executing when verify projects the state changes it
afterwards, which `src/spec/core/episode-lifecycle.md` section 6 allows for
operations accepted before QUIESCING.

*Deadlock.* Where a run says `CHECK_DEADLOCK FALSE` the system may stop: an
ended and released Episode has no operation left, a resource or session that is
released takes none, the gateway's Episodes end, and the client of `requests`
asks for nothing more once it has repeated a request. `evaluation` checks it.

*Fairness.* `FairSpec` is weakly fair in `HandlerStep`: once a host call has
been made its external calls return or raise, and the Subject stops. Of the
Oracle runner the code ensures it (`VerificationEnds`); of the HTTP Subject its
budgets do as long as responses end (Findings, the slow Subject); of
environment, store and an in-process Subject it is one about them.
No host call is ever assumed to be made. `HandlersSettle` speaks only of states
that a running handler must leave.

`VerificationEnds` (`evaluation`) assumes that the runner goes on polling, that
its deadline passes, that a worker that was started boots as far as reading its
request, and that `verify` and its own `put_stream` calls go on. It assumes
nothing of Oracle code, which may loop, print or leave the request unread; the
process being killed is one of the ends. `HostCallsEnd` (`gateway`) assumes
that a thread that can go on does, where a request of which no byte comes can go
on: the socket's timeout ends it. It assumes nothing of server or Subject, not
even that a response ends, and says so: a host call ends or a response trickles.
Connecting and resolving a name are taken to return.

## Findings

1. `tool_error`: a tool failure under the HTTP Subject adapter leaves
   `run_subject` as a `RuntimeError`; the Episode stays RUNNING for ever
   (`subject/http.py:165`, `runtime/engine.py:339`).
2. `invalid_result`: a result whose own validity is not VALID makes the
   acceptance record raise after the verdict has been assigned; the Episode
   stays VERIFYING, with a verdict and without a record
   (`runtime/engine.py:567`, `oracle_runner/models.py:465`).
3. `store_error`: `put_stream` of the file system store makes its temporary file
   before the `try` that converts errors. Its `OSError` is caught nowhere in
   `verify`, and the Episode stays VERIFYING with nothing executing
   (`artifacts/filesystem.py:72`, `runtime/engine.py:440`).
4. `repeated_provision`: of two provision requests at once, the second passes
   the assertion of `transition` before the first has ended the Episode, and
   assigns PROVISIONING to an Episode that is INFRA_FAILED
   (`runtime/episode.py:121`, `http_server.py:46`).
   `src/spec/core/episode-lifecycle.md:135` forbids it.

Ten more differences between the code and its documents follow from the
models. The runs are restricted to leave them out, or a property that holds
excepts exactly them and says so.

- Repeated verify: of two verify requests that both find the Episode QUIESCING,
  the second assigns its results after the first has frozen its record and
  completed the Episode; its own transition then raises and leaves them there.
  The results a COMPLETED Episode shows are then not those its record has
  accepted (`runtime/engine.py:493`, `:370`). In `HostBinding` that is `shown`
  against `evaluation`; the properties of `requests` promise nothing of an
  operation that was asked for again. Of one handler `AcceptanceSound` says it.
- Stray cookie: `_project_cookies` looks a record up by name, domain and path
  and takes `hostOnly` from the record. When the recorded cookie is gone and its
  other variant lies there with the same value, the projection is accepted with
  the wrong `hostOnly` (`tck_adapter/playwright_browser/backend.py:728`), where
  AVP-BROWSER-008 wants it to fail closed
  (`src/spec/browser/browser-state-contract.md:123`). Three things take a cookie
  and leave its record: a page, a refused seed (`backend.py:623`), and a
  `clear_cookies` that took effect and then raised (`:675`). `CookiesAreExact` and
  `SnapshotsAreSeedable` say that nothing else does, and that it stays with that
  key (`strayed`) until a replacement has got through its clearing.
- Slow Subject: the deadline of `invoke` reaches `urlopen` as the timeout of
  each read of the socket, and is looked at itself only between two frames. A
  Subject whose response trickles in keeps the Episode RUNNING past its budget
  for as long as it likes, and a late `completed` is accepted
  (`subject/http.py:230`, `:123`), where AVP-SUBJECT-004 makes the budget an upper
  bound (`src/spec/subject/subject-adapter-contract.md:43`). The server's responses
  are read the same way (`mcp/transport.py:120`). `HostCallsEnd` says that only
  this keeps a host call open (`trickling`).
- Late writer: `project_during_atomic_commit` waits ten seconds for its writer
  to get ready and ten for it to commit, and then raises with `allow_commit` set
  (`tck_adapter/postgresql_relational/fixture.py:103`, `:117`). The writer commits
  after the call has failed, and perhaps after a final projection, which asks for
  `_held_labels` only; the quiescing design wants that no unresolved activity can
  (`src/docs/design/alpha3-relational-state-quiescing-and-schema-drift.md:72`).
  `ProjectionStands` and `ImplementsBackend` except it (`"overdue"`).
- Oracle Evidence registered under the runtime's telemetry identifier keeps the
  telemetry artifact from being published (`runtime/engine.py:1010`): with
  `TelemetryId` among `OracleIds`, `CompletedIsTraced` is violated.
- A tool call that ends in anything but `ToolExecutionError` gets no
  `tool.error` (`runtime/engine.py:951`): after `CallRaises` the call stays in
  `unanswered`.
- `transition` numbers its record, assigns the state and appends in three steps
  (`NumberRecord`, `AssignState`, `AppendRecord`): a run request that finds the
  Episode READY in between gives its record the same number
  (`runtime/episode.py:127`). `HistoryIsComplete` therefore speaks of the
  records' states and not of their numbers, which
  `src/spec/core/episode-lifecycle.md:131` wants to increase.
- The tables declare no key (`tck_adapter/postgresql_relational/resource.py:174`).
  Two writes of a relation that is empty find no row to wait for, and both
  commit the same key: every later read is refused, where AVP-RELATIONAL-004
  (`src/spec/relational/relational-state-contract.md:76`) wants unique key
  values. `RowsAreKeyed` excepts it (`"bare"`, `"overdue"`).
- A rollback that raises leaves `release` with the labels in place and the
  connections before it closed (`resource.py:490` there); a retry raises at
  those, until each label is settled by name. The same design asks at line 126
  that cleanup "MUST remain retry-safe".
- `begin_held_mutation`, reset and restore of a relation that another label
  holds wait for its row lock on the thread that would settle it, without a lock
  timeout (`fixture.py:146` there): the call returns only when a connection is
  lost. In the model it stays at `"writing"`.

## Proofs

TLAPS checks, for every value of the constants:

- `EpisodeLifecycle_proofs`: `TypeCorrect`, `WalkCorrect`, `PhasesCorrect`,
  `TerminalCorrect`, `AppendCorrect`: types, its two properties of `components`
  without the bound on the history, that nothing moves after a terminal state,
  and that the history only grows. `HistoryIsWalk` is inductive with the type
  invariant. `NoPhaseSkipped` needs it as well: what the last record says is
  the present state, so the phase before the next one has its record
  (`EnteredFrom`).
- `EpisodeRuntime_proofs`: `TypeCorrect`, `AcceptanceCorrect`,
  `OutcomeCorrect`. `TypeOK` is not inductive: `Typed` adds that a cause is
  handed over exactly at the step `"invalidate"`, and that an ORACLE_FAILURE
  has a detail. `AcceptanceSound` and `OutcomeConsistent` need `Accountable`:
  `Phases` (which lifecycle state goes with which step, and that nothing is
  frozen before the end), `Traced` (which events and Evidence the execution
  leaves at which step) and `Pending` (what validity, detail, verdict and
  results are while verify is under way). Most steps write none of this;
  `NextIdlesOrWrites` separates them once, and each part is then proved for the
  steps that write.
  From the same invariant follow `EngineImplementsEpisode` (the refinement),
  `OutcomeStays` and `EvidenceStays`. `OutcomeStays` says what may still change
  behind a terminal state: the trace is finalized and published (`CloseTrace`),
  and late events arrive; everything the Episode says of its outcome stays. The
  refinement
  rests on `MoveIsTransition`: what a move freezes is a record its own
  validation accepts. The module's last part has `JudgedCorrect` and
  `TraceCorrect`, each under the condition its run is made under. `JudgedCorrect` assumes a Subject
  that waits for its calls (`~LeavesCallsOpen`); its invariant `Judging` says
  that calls execute only while the Episode is RUNNING, so that nothing but
  `Restore`, which asks for READY or QUIESCING, could change the world after
  the projection. `TraceCorrect` assumes `TelemetryId \notin OracleIds`; its
  invariant `Tracing` says that no artifact exists before the last steps of
  `verify`, so the artifact a COMPLETED Episode has was judged over the whole
  trace. Without that condition TLC finds a counterexample.
- `HostBinding_proofs`: `TypeCorrect`, `WorkCorrect`, `WalkCorrect`,
  `SessionsCorrect` and `HistoryCorrect`, for a pool of any size and any requests,
  repeated ones included. No lock makes the handlers exclusive. The invariant
  `IInv` says which targets each operation has (`Shape`), that an operation
  nobody has repeated has one thread (`Alone`), that a thread between test and
  assignment goes on as if the state were a certain one (`RestsOn`), which it is
  if its operation is calm (`Resting`), and that the Episode is past every calm
  operation before the one a thread has begun (`Begun`). The states different
  operations rest on are disjoint, so `OneRests`: who rests on a state and is
  calm is alone with it, and no thread of a later operation has begun; one that a
  repeated request lets go on from a state long gone can therefore only disturb
  its own operation and the later ones. `SessionsCorrect` adds what a provision
  has done so far (`Kept`). `HistoryCorrect` has an invariant of its own,
  `Complete`, over records that are there and records still to come, of threads
  between assigning and appending: what is left has been entered, always
  (`Traced`); and while nothing is repeated, what such a thread has read is the
  state until it assigns (`PreviousIsState`), no state has two records
  (`RecordedOnce`), and the states left and entered are those of a walk from
  CREATED to the present state (`Walked`). That no state comes twice follows
  from `Rank`, which every calm move increases.
- `RelationalResource_proofs`: `TypeCorrect`, `FinalProjectionCorrect`,
  `OrphansCorrect`, `DiffCorrect` and `StoreImplemented`. The invariant adds that
  labels hold different mutations, all unsettled (`HeldAreUnsettled`), and that
  a final projection is only there behind the barrier, with nothing unsettled
  (`BarrierHolds`); with it a step of the resource
  is a step of `SettledStore` or is not seen there.
  For PostgreSQL: `DatabaseTypeCorrect`, `KeysCorrect`, `ProjectionCorrect` and
  `DatabaseImplemented`, for any relations and keys and any number of labels and
  writer threads. None of the three properties is inductive. `DatabaseIInv` adds
  that what a transaction has seen or deleted is still there, in relations it
  has come to (`TransactionShape`), that a row lock has one owner
  (`LocksApart`), that behind each label is one relation, written and locked
  (`HeldShape`), that apart from the labels one transaction at a time is under
  way (`OneAtATime`), that behind the barrier only a reset or restore is
  (`Admitted`), and the heart of it, `WholeWrites`: a transaction that is writing
  a relation has deleted, or has still to delete, every row there is in it.
  Nobody adds a row to a relation another one is writing, because whoever writes
  a relation beside a held transaction still waits for a row that one has
  deleted; a transaction that deleted nothing is a slip. So a commit replaces
  whole relations (`CommitReplaces`), which keeps the keys unique and makes it
  the store's `Commit`, `Write` or `Reestablish`.
- `Environment_proofs`, for the Fabric: types, its three properties of `components`,
  and that a released resource stays as it is (`ReleaseIsFinal`), for any number
  of resources and any failures. They are inductive together, once no released
  resource counts as provisioned (`GoneIsUnprovisioned`).
  For the sessions: `SessionTypeCorrect`, `FaultsAreInTime`, `RefsAreTrue` and
  `WorldsAreApart`, for any number of sessions, snapshots and fault rules.
  `FiredInTime` speaks of the one rule that has just been activated; it rests on
  `RulesWait`, which says of every rule that waits that it has counted fewer
  calls than its occurrence and missed none but those another rule has answered
  (`FirstDueIsActivated` is the step where one rule answers and the later ones
  miss the call). References stay true because nothing refers to a handle that
  was not provisioned (`NewIsUnknown`), and worlds stay apart because what a
  session can return to is its own as well (`PastIsOwn`).
- `BrowserResource_proofs`: `AcceptedCorrect`, `TypeCorrect`, `CookiesCorrect` and
  `SnapshotsCorrect`. For the first, the invariant says that a delayed
  mutation that can still fire is unresolved in the ledger, that an accepted
  projection has a settled ledger and agrees with the page, and that a new
  resource has none. The others rest on `ReplacementIsEither`, which sorts
  everything a replacement can leave into what has not begun to seed (`Clears`)
  and what has (`Seeds`). `CookiesAreExact` is not inductive, and that records
  and cookies agree is not even true: a call that raises leaves cookies without
  a record, or with another value than the record's, and records without their
  cookie. `Traceable` says what remains under the keys that have not strayed: a
  cookie with a record is there, no two records share a key, and so in every
  snapshot. `ProjectableIsExact` shows that a jar `_project_cookies`
  accepts then is the records.
- `SubjectSession_proofs`: `TypeCorrect`, `CallsAreUnderBaseline`,
  `RecordsAreOfCalls` and `ResultsNameTheirCall`, for any number of Episodes on one
  gateway and any drift of the server. The invariant has what an Episode's
  place in the code says of its phase and call (`Phases`), that every schema it
  has read since its call began was in force since (`ReadWhileLive`), that its
  records are of earlier calls until this one is recorded, and what was
  recorded was sent and executed (`RecordedOnce`), and that an Episode nobody
  came between meets the catalog it opened (`OwnBaseline`).
- `Evaluation_proofs`: `TypeCorrect`, `SuccessCorrect`, `CleanupCorrect`,
  `ReferencesCorrect`, `ValidCorrect` and `StoreImplemented` (the refinement of
  `ImmutableStore`), over the composition of `OracleRunner` and `ArtifactStore`,
  for any number of evaluations and publishers. The invariant is one for the
  store (`StoreInv`: references lead to objects, or to a directory that an
  outage took; synced entries are there; objects are in directories), one for
  the runner (`RunnerInv`: only a worker that has the request runs, its exit is
  final, and a killed one has left nothing in its group) and what `verify` makes
  of both. `CleanupCorrect` says nothing of a process that left the worker's
  group: nothing ends it. `ReferencesCorrect` and `StoreImplemented` say exactly
  what a loss of power can take: a directory that was new, with all its
  objects, and what a publisher had only found. No document promises more.

The assumptions are those named in the modules: results and policies have their
shape, the initial state is a state, bounds are numbers, the Subject's choices
are booleans, and the values that stand for "nothing" are no members of the
sets they are added to. Where a theorem has a condition beyond them
(`~LeavesCallsOpen`, `TelemetryId \notin OracleIds`) it says
so, and the text above says what happens without it.

Only model-checked: liveness, which is out of the prover's reach
(`HandlersSettle`, `VerificationEnds`, `HostCallsEnd`). Every other property of a
passing run is a theorem. The violations are TLC's counterexamples.

## Not modelled

The scenario compiler, the trust bundles and the security context are pure
functions and checks over immutable values; what could go wrong in them is in
hashing and parsing, which a model would have to repeat. The TCK adapters, the
CLI and the benchmarks drive the components above in sequence. Of the SQL
backends the MySQL one is not modelled: its fixture control follows the
PostgreSQL one, but its engine locks differently. Of the PostgreSQL backend the
value codec, roles and column grants, `subject_view` and the negative controls
are left out.

Of modelled components these are left out: frame validation, headers and the
handle tables of the Subject adapters; `refresh_catalog`, a gateway with
`detect_schema_drift=False`, and whether schemas and headers are valid; the
cookies whose expiry passes during a run; the
in-memory Artifact store, a dictionary under one lock, and the readers of both
stores; Manifest validation and the lexical forms of values; canonicalization
and the security checks of the browser; identity digests everywhere.

## Plan

What the models leave for later, in this order.

1. `EnvironmentSession` as the environment of `EpisodeRuntime`, with its session
   table in place of `environment`, and a host that retries `release`.
2. `tck_adapter/mysql_relational/` over the locks of its engine, as a third
   implementation of `SettledStore`.
3. `refresh_catalog` and `detect_schema_drift=False` in `McpGateway`.
