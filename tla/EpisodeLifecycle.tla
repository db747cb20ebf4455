--------------------------- MODULE EpisodeLifecycle ---------------------------
(***************************************************************************)
(* What one Episode object promises (runtime/episode.py, runtime/state.py):*)
(* its state only moves along the Core relation, every move appends one    *)
(* transition record, the replay source is bound before the first move,    *)
(* and the Oracle acceptance record, once frozen, is never rewritten.      *)
(*                                                                         *)
(* The acceptance record is frozen inside the move to COMPLETED or INVALID.*)
(* What it contains is left open here; EpisodeRuntime says what it is.     *)
(***************************************************************************)
EXTENDS Integers, Sequences

CONSTANTS
    Evaluations,     \* the acceptance records that can be frozen
    NoEvaluation,    \* no record has been frozen
    Sources,         \* Episodes a replay can name as its source
    NoSource         \* the Episode is not (yet) linked to a source

VARIABLES
    state,           \* Episode.state
    records,         \* Episode._transition_records
    replaySource,    \* Episode._replay_source
    evaluation       \* Episode._oracle_evaluation

lifecycleVars == <<state, records, replaySource, evaluation>>

States == {"CREATED", "PROVISIONING", "READY", "RUNNING", "PAUSED",
           "QUIESCING", "VERIFYING",
           "COMPLETED", "ABORTED", "INVALID", "INFRA_FAILED"}

Terminal == {"COMPLETED", "ABORTED", "INVALID", "INFRA_FAILED"}

\* The ends every state but CREATED and the terminal ones can fall into.
Failed == {"ABORTED", "INVALID", "INFRA_FAILED"}

\* Where the work of an Episode goes next.
Forward ==
    [s \in States |->
        CASE s = "CREATED"      -> {"PROVISIONING"}
          [] s = "PROVISIONING" -> {"READY"}
          [] s = "READY"        -> {"RUNNING"}
          [] s = "RUNNING"      -> {"QUIESCING", "PAUSED"}
          [] s = "PAUSED"       -> {"RUNNING"}
          [] s = "QUIESCING"    -> {"VERIFYING"}
          [] s = "VERIFYING"    -> {"COMPLETED"}
          [] OTHER              -> {}]

Transitions ==
    [s \in States |->
        CASE s \in Terminal -> {}
          [] s = "CREATED"  -> Forward[s] \cup {"ABORTED"}
          [] OTHER          -> Forward[s] \cup Failed]

\* EpisodeTransition without its identifier and cause.
Record == [sequence : Nat \ {0}, previous : States, resulting : States]

\* Mutant: built once the state has been assigned.
RecordAfterMove(history, from, target) ==
    [sequence |-> Len(history) + 1, previous |-> target, resulting |-> target]

RecordOf(history, from, target) ==
    [sequence |-> Len(history) + 1, previous |-> from, resulting |-> target]

-----------------------------------------------------------------------------

Init ==
    /\ state = "CREATED"
    /\ records = <<>>
    /\ replaySource = NoSource
    /\ evaluation = NoEvaluation

\* bind_replay_source: only while CREATED, before any move, and only once.
BindReplaySource(source) ==
    /\ state = "CREATED"
    /\ records = <<>>
    /\ replaySource = NoSource
    /\ replaySource' = source
    /\ UNCHANGED <<state, records, evaluation>>

\* _freeze_oracle_evaluation: keeps a record that is already there.
Freeze(target) ==
    IF target \in {"COMPLETED", "INVALID"} /\ evaluation = NoEvaluation
    THEN evaluation' \in Evaluations \cup {NoEvaluation}
    ELSE UNCHANGED evaluation

\* Mutant: the target is not checked.
TransitionUnchecked(target) ==
    /\ Freeze(target)
    /\ state' = target
    /\ records' = Append(records, RecordOf(records, state, target))
    /\ UNCHANGED replaySource

\* transition: assert, freeze, then state and record together.
Transition(target) ==
    /\ target \in Transitions[state]
    /\ Freeze(target)
    /\ state' = target
    /\ records' = Append(records, RecordOf(records, state, target))
    /\ UNCHANGED replaySource

Next ==
    \/ \E source \in Sources : BindReplaySource(source)
    \/ \E target \in States : Transition(target)

Spec == Init /\ [][Next]_lifecycleVars

-----------------------------------------------------------------------------

TypeOK ==
    /\ state \in States
    /\ records \in Seq(Record)
    /\ replaySource \in Sources \cup {NoSource}
    /\ evaluation \in Evaluations \cup {NoEvaluation}

\* The history is one legal walk from CREATED to the present state, numbered
\* without gap or repetition (assert_transition, episode.py:124-131): what an
\* auditor reconstructs from the records alone is what happened.
HistoryIsWalk ==
    /\ \A i \in 1..Len(records) :
         /\ records[i].sequence = i
         /\ records[i].resulting \in Transitions[records[i].previous]
         /\ records[i].previous =
              IF i = 1 THEN "CREATED" ELSE records[i - 1].resulting
    /\ state = IF records = <<>> THEN "CREATED"
                                 ELSE records[Len(records)].resulting

\* The step of the normal path that leads into each of its states.
Before ==
    [s \in {"READY", "RUNNING", "PAUSED", "QUIESCING", "VERIFYING",
            "COMPLETED"} |->
        CASE s = "READY"     -> "PROVISIONING"
          [] s = "RUNNING"   -> "READY"
          [] s = "PAUSED"    -> "RUNNING"
          [] s = "QUIESCING" -> "RUNNING"
          [] s = "VERIFYING" -> "QUIESCING"
          [] s = "COMPLETED" -> "VERIFYING"]

\* No phase is skipped (spec/core/episode-lifecycle.md section 5): whoever is
\* recorded to have entered a phase has an earlier record of entering the one
\* before it, so a COMPLETED Episode was provisioned, ran, settled and was
\* verified, in that order, however often it paused.
NoPhaseSkipped ==
    \A i \in 1..Len(records) :
        records[i].resulting \in DOMAIN Before =>
            \E j \in 1..(i - 1) :
                records[j].resulting = Before[records[i].resulting]

\* AVP-CORE-005 and the frozen acceptance record (episode.py:30-32): after a
\* terminal state nothing about the Episode's history or verdict basis moves.
TerminalIsFinal ==
    [][state \notin Terminal]_lifecycleVars

\* The history only grows, and the replay source and the acceptance record
\* are written once (episode.py:83-99, 145-156).
HistoryAppendOnly ==
    [][/\ Len(records') >= Len(records)
       /\ SubSeq(records', 1, Len(records)) = records
       /\ replaySource # NoSource => replaySource' = replaySource
       /\ evaluation # NoEvaluation => evaluation' = evaluation
      ]_lifecycleVars

=============================================================================
