------------------------------ MODULE HostBinding ------------------------------
(***************************************************************************)
(* The HTTP host binding (http_server.py) in front of one Episode.  Its    *)
(* handlers are plain functions, which FastAPI runs on a pool of threads:  *)
(* the requests of a client that does not wait for its answers meet in the *)
(* engine (runtime/engine.py), which takes no lock.  Here                  *)
(* Episode.transition (runtime/episode.py) is the statements it consists   *)
(* of; EpisodeRuntime has what the handlers do in between.                 *)
(***************************************************************************)
EXTENDS Integers, Sequences, FiniteSets

CONSTANTS
    Threads,        \* of the pool
    None

Operations == {"provision", "run", "verify"}

VARIABLES
    repeated,       \* what was asked for again while a thread served it: history
    state,          \* Episode.state
    records,        \* Episode._transition_records
    shown,          \* the thread whose results Episode.verification holds
    evaluation,     \* the thread whose results were frozen with the record
    sessions,       \* the environment sessions, by the thread that provisioned
    handle,         \* ReferenceRuntime._handles and _subject_handles
    operation,      \* what each thread serves
    pc,             \* and where it is
    target,         \* transition: its target
    previous,       \* its local "previous"
    sequence        \* the number of the record it builds

episodeVars == <<state, records, shown, evaluation>>
runtimeVars == <<sessions, handle>>
transitionVars == <<target, previous, sequence>>
vars == <<repeated, episodeVars, runtimeVars, operation, pc, transitionVars>>

\* The Episode without threads, for its relation and its records.
Lifecycle == INSTANCE EpisodeLifecycle WITH
                 Evaluations <- Threads, NoEvaluation <- None,
                 Sources <- {}, NoSource <- None, replaySource <- None

ASSUME HostAssumption ==
    None \notin Threads \union Operations \union Lifecycle!States

Init ==
    /\ repeated = {}
    /\ state = "CREATED"
    /\ records = <<>>
    /\ shown = None
    /\ evaluation = None
    /\ sessions = {}
    /\ handle = None
    /\ operation = [t \in Threads |-> None]
    /\ pc = [t \in Threads |-> "idle"]
    /\ target = [t \in Threads |-> None]
    /\ previous = [t \in Threads |-> None]
    /\ sequence = [t \in Threads |-> 0]

Goto(t, place) == pc' = [pc EXCEPT ![t] = place]

\* The handler returns or raises; FastAPI answers with what it makes of it.
Answer(t) ==
    /\ Goto(t, "idle")
    /\ operation' = [operation EXCEPT ![t] = None]
    /\ target' = [target EXCEPT ![t] = None]
    /\ previous' = [previous EXCEPT ![t] = None]
    /\ sequence' = [sequence EXCEPT ![t] = 0]

\* episode.transition(s) is called.
CallTransition(t, s) ==
    /\ Goto(t, "asserting")
    /\ target' = [target EXCEPT ![t] = s]
    /\ UNCHANGED <<operation, previous, sequence>>

-----------------------------------------------------------------------------
\* A request arrives at an idle thread, whatever the others serve: neither the
\* binding nor the engine refuses a second request for the same operation.
Receive(t, op) ==
    /\ pc[t] = "idle"
    /\ repeated' = IF \E u \in Threads : operation[u] = op
                   THEN repeated \union {op} ELSE repeated
    /\ operation' = [operation EXCEPT ![t] = op]
    /\ Goto(t, "called")
    /\ UNCHANGED <<episodeVars, runtimeVars, transitionVars>>

\* provision starts with its transition; run and verify ask for the handles.
Enter(t) ==
    /\ pc[t] = "called"
    /\ \/ operation[t] = "provision" /\ CallTransition(t, "PROVISIONING")
       \/ /\ operation[t] # "provision" /\ handle # None
          /\ Goto(t, "testing")
          /\ UNCHANGED <<operation,
                   transitionVars>>
       \/ operation[t] # "provision" /\ handle = None /\ Answer(t)
    /\ UNCHANGED <<repeated, episodeVars, runtimeVars>>

Required(op) == IF op = "run" THEN "READY" ELSE "QUIESCING"
Started(op) == IF op = "run" THEN "RUNNING" ELSE "VERIFYING"

\* The test of the state at the head of run_subject and verify.
TestState(t) ==
    /\ pc[t] = "testing"
    /\ IF state = Required(operation[t])
         THEN CallTransition(t, Started(operation[t]))
         ELSE Answer(t)
    /\ UNCHANGED <<repeated, episodeVars, runtimeVars>>

-----------------------------------------------------------------------------
\* Mutant: the target is not checked.
AssertNothing(t) ==
    /\ pc[t] = "asserting"
    /\ Goto(t, IF target[t] \in {"COMPLETED", "INVALID"}
               THEN "freezing" ELSE "numbering")
    /\ previous' = [previous EXCEPT ![t] = state]
    /\ UNCHANGED <<repeated, episodeVars, runtimeVars, operation, target,
                   sequence>>

\* previous = self.state, and assert_transition.
AssertTransition(t) ==
    /\ pc[t] = "asserting"
    /\ IF target[t] \in Lifecycle!Transitions[state]
         THEN /\ Goto(t, IF target[t] \in {"COMPLETED", "INVALID"}
                         THEN "freezing" ELSE "numbering")
              /\ previous' = [previous EXCEPT ![t] = state]
              /\ UNCHANGED <<operation, target, sequence>>
         ELSE Answer(t)
    /\ UNCHANGED <<repeated, episodeVars, runtimeVars>>

\* _freeze_oracle_evaluation: of an INVALID Episode it depends on the validity,
\* and results that are not VALID make it raise.
Freeze(t) ==
    /\ pc[t] = "freezing"
    /\ IF evaluation # None THEN UNCHANGED evaluation
       ELSE \/ evaluation' = shown
            \/ target[t] = "INVALID" /\ UNCHANGED evaluation
    /\ Goto(t, "numbering")
    /\ UNCHANGED <<repeated, state, records, shown, runtimeVars, operation,
                   transitionVars>>

FreezeRaises(t) ==
    /\ pc[t] = "freezing"
    /\ evaluation = None
    /\ Answer(t)
    /\ UNCHANGED <<repeated, episodeVars, runtimeVars>>

NumberRecord(t) ==
    /\ pc[t] = "numbering"
    /\ sequence' = [sequence EXCEPT ![t] = Len(records) + 1]
    /\ Goto(t, "assigning")
    /\ UNCHANGED <<repeated, episodeVars, runtimeVars, operation, target,
                   previous>>

AssignState(t) ==
    /\ pc[t] = "assigning"
    /\ state' = target[t]
    /\ Goto(t, "appending")
    /\ UNCHANGED <<repeated, records, shown, evaluation, runtimeVars, operation,
                   transitionVars>>

\* What the handler does after a transition.
After(s) ==
    CASE s = "PROVISIONING" -> "provisioning"
      [] s = "RUNNING"      -> "invoking"
      [] s = "VERIFYING"    -> "evaluating"
      [] OTHER              -> "idle"

\* Mutant: the record is built when the state has moved.
RecordOfNow(t) ==
    [sequence |-> sequence[t], previous |-> state, resulting |-> target[t]]

BuiltRecord(t) ==
    [sequence |-> sequence[t], previous |-> previous[t], resulting |-> target[t]]

AppendRecord(t) ==
    /\ pc[t] = "appending"
    /\ records' = Append(records, BuiltRecord(t))
    /\ IF After(target[t]) = "idle" THEN Answer(t)
       ELSE Goto(t, After(target[t])) /\ UNCHANGED <<operation,
                   transitionVars>>
    /\ UNCHANGED <<repeated, state, shown, evaluation, runtimeVars>>

-----------------------------------------------------------------------------
\* environment_adapter.provision.
ProvisionEnvironment(t) ==
    /\ pc[t] = "provisioning"
    /\ \/ /\ sessions' = sessions \union {t}
          /\ Goto(t, "opening")
          /\ UNCHANGED <<operation,
                   transitionVars>>
       \/ CallTransition(t, "INFRA_FAILED") /\ UNCHANGED sessions
    /\ UNCHANGED <<repeated, episodeVars, handle>>

\* Mutant: the engine remembers a session only when it has been reset.
OpenAndForget(t) ==
    /\ pc[t] = "opening"
    /\ Goto(t, "resetting")
    /\ UNCHANGED <<repeated, episodeVars, runtimeVars, operation,
                   transitionVars>>

\* subject_adapter.open; both handles are remembered when it has returned.
OpenSubject(t) ==
    /\ pc[t] = "opening"
    /\ \/ /\ handle' = t
          /\ Goto(t, "resetting")
          /\ UNCHANGED <<operation,
                   transitionVars>>
       \/ CallTransition(t, "INFRA_FAILED") /\ UNCHANGED handle
    /\ UNCHANGED <<repeated, episodeVars, sessions>>

\* gateway.open and environment_adapter.reset.
ResetEnvironment(t) ==
    /\ pc[t] = "resetting"
    /\ CallTransition(t, "READY") \/ CallTransition(t, "INFRA_FAILED")
    /\ UNCHANGED <<repeated, episodeVars, runtimeVars>>

\* subject_adapter.invoke, which may raise what run_subject does not catch.
InvokeSubject(t) ==
    /\ pc[t] = "invoking"
    /\ \/ CallTransition(t, "QUIESCING") \/ CallTransition(t, "INFRA_FAILED")
       \/ Answer(t)
    /\ UNCHANGED <<repeated, episodeVars, runtimeVars>>

\* The execution; its results, if it has any, become the Episode's.  Not every
\* exception of the store is caught.
EvaluateOracle(t) ==
    /\ pc[t] = "evaluating"
    /\ \/ shown' = t /\ CallTransition(t, "COMPLETED")
       \/ shown' \in {shown, t} /\ (CallTransition(t, "INVALID") \/ Answer(t))
    /\ UNCHANGED <<repeated, state, records, evaluation, runtimeVars>>

Handle(t) ==
    \/ Enter(t) \/ TestState(t)
    \/ AssertTransition(t) \/ Freeze(t) \/ FreezeRaises(t) \/ NumberRecord(t)
    \/ AssignState(t) \/ AppendRecord(t)
    \/ ProvisionEnvironment(t) \/ OpenSubject(t) \/ ResetEnvironment(t)
    \/ InvokeSubject(t) \/ EvaluateOracle(t)

Next ==
    \E t \in Threads :
        \/ \E op \in Operations : Receive(t, op)
        \/ Handle(t)

Spec == Init /\ [][Next]_vars

-----------------------------------------------------------------------------
Places == {"idle", "called", "testing", "asserting", "freezing", "numbering",
           "assigning", "appending", "provisioning", "opening", "resetting",
           "invoking", "evaluating"}

\* A thread that is idle serves nothing.
ThreadTypeOK ==
    /\ operation \in [Threads -> Operations \union {None}]
    /\ pc \in [Threads -> Places]
    /\ target \in [Threads -> Lifecycle!States \union {None}]
    /\ previous \in [Threads -> Lifecycle!States \union {None}]
    /\ sequence \in [Threads -> Nat]
    /\ \A t \in Threads : pc[t] = "idle" <=> operation[t] = None

\* The types of the Episode, of what the engine keeps of it, and of the threads.
TypeOK ==
    /\ repeated \subseteq Operations
    /\ state \in Lifecycle!States
    /\ records \in Seq(Lifecycle!Record)
    /\ {shown, evaluation, handle} \subseteq Threads \union {None}
    /\ sessions \subseteq Threads
    /\ ThreadTypeOK

\* The order the operations have in an Episode.
Turn(op) ==
    IF op = "provision" THEN 1 ELSE IF op = "run" THEN 2 ELSE 3

\* Neither the operation nor one before it was asked for again too early.
Calm(op) == \A other \in repeated : Turn(op) < Turn(other)

\* If the thread executes the assignment of its transition, it makes a legal move.
WalksOn(t) ==
    (pc[t] = "assigning" /\ pc'[t] = "appending" /\ Calm(operation[t])) =>
        state' \in Lifecycle!Transitions[state]

\* Between test and assignment nothing holds the state: still, a thread moves it
\* along the Core relation, from the state it has then (runtime/episode.py:120 to
\* 132), whatever is asked for again of the operations that come after its own.
StateWalks == [][\A t \in Threads : WalksOn(t)]_vars

Working == {t \in Threads : pc[t] \in
                {"provisioning", "opening", "resetting", "invoking", "evaluating"}}

\* The environment is not prepared, used and judged by requests that overlap: two
\* handlers work on the Episode at a time only if an operation that is not after
\* either of theirs was asked for again while it was served (http_server.py:46).
WorkIsExclusive ==
    \A t, u \in Working : t # u => ~Calm(operation[t]) /\ ~Calm(operation[u])

Moves == {<<records[i].previous, records[i].resulting>> : i \in DOMAIN records}
StatesLeft == {move[1] : move \in Moves}
StatesEntered == {move[2] : move \in Moves}

\* A transition appends its record after it has moved the state, and the next
\* one may have moved it by then.  When all have (runtime/episode.py:133), every
\* state the Episode is in or has left is one that a record enters; and if nothing
\* was asked for again, the records are the steps of one walk, none there twice.
HistoryIsComplete ==
    (\A t \in Threads : pc[t] # "appending") =>
        /\ StatesLeft \union {state} \subseteq StatesEntered \union {"CREATED"}
        /\ repeated = {} =>
            /\ Cardinality(StatesEntered) = Len(records)
            /\ StatesEntered \subseteq StatesLeft \union {state}
            /\ state \notin StatesLeft

\* An environment session that the engine has no handle to is one it is just
\* opening, or the Episode fails to provision: only then is it never given back
\* (runtime/engine.py:220).  That takes one provision at a time, and nothing of
\* the runs and verifications that overlap.
LostOnlyByFailure ==
    "provision" \notin repeated =>
        \A t \in sessions :
            \/ handle = t
            \/ pc[t] = "opening"
            \/ target[t] = "INFRA_FAILED" \/ state = "INFRA_FAILED"

-----------------------------------------------------------------------------
\* What the specification says and repeated requests break.

\* "A terminal Episode MUST NOT transition to any other lifecycle state."
\* (spec/core/episode-lifecycle.md:135)
StaysIfTerminal == state \in Lifecycle!Terminal => state' = state

TerminalStays == [][StaysIfTerminal]_vars

=============================================================================
