-------------------------- MODULE RelationalResource --------------------------
(***************************************************************************)
(* InMemoryRelationalResource (relational.py) under the fixture control of *)
(* its conformance harness (tck_adapter/reference_relational_harness.py):  *)
(* mutations the control holds by label and settles in any order, the      *)
(* QUIESCING barrier before the final projection, snapshot, reset and      *)
(* restore, and drift of what the resource is bound to.                    *)
(***************************************************************************)
EXTENDS RelationalManifest, Integers, Sequences, Functions

CONSTANTS
    Unheld,         \* a label that holds nothing
    ForeignState    \* what a snapshot of another resource instance contains

ASSUME ForeignAssumption == ForeignState \in Stores
ASSUME UnheldAssumption == Unheld \notin Nat \ {0}

VARIABLES
    state,          \* _state
    pending,        \* _pending: every mutation begun, settled or not
    held,           \* InMemoryRelationalFixtureControl._held
    quiescing,      \* _quiescing
    released,       \* _released
    bound,          \* _logical_binding_valid
    sameInputs,     \* execution_input_identity = _bound_execution_identity
    snapshots,      \* the RelationalSnapshots handed out
    final           \* what the last final_projection returned

vars == <<state, pending, held, quiescing, released, bound, sameInputs,
          snapshots, final>>

Mutation == [relation : Relations, replacement : Tables,
             settled : BOOLEAN, committed : BOOLEAN]

Begun(relation, replacement) ==
    [relation |-> relation, replacement |-> replacement,
     settled |-> FALSE, committed |-> FALSE]

\* RelationalSnapshot: whose it is and what it contains.
Snapshot == [own : BOOLEAN, state : Stores]

Init ==
    /\ state = Baseline
    /\ pending = <<>>
    /\ held = [label \in Labels |-> Unheld]
    /\ quiescing = FALSE
    /\ released = FALSE
    /\ bound = TRUE
    /\ sameInputs = TRUE
    /\ snapshots = <<>>
    /\ final = Unobserved

\* _ensure_live, the first statement of every operation below.
Live == ~released /\ bound /\ sameInputs

Unsettled == {i \in DOMAIN pending : ~pending[i].settled}

\* Mutant: QUIESCING closes nothing.
AdmitsAlways == Live

\* begin_subject_mutation refuses new work after QUIESCING.
Admits == Live /\ ~quiescing

\* begin_held_mutation.
Begin(label, relation, replacement) ==
    /\ held[label] = Unheld
    /\ Admits
    /\ pending' = Append(pending, Begun(relation, replacement))
    /\ held' = [held EXCEPT ![label] = Len(pending) + 1]
    /\ UNCHANGED <<state, quiescing, released, bound, sameInputs, snapshots,
                   final>>

\* Mutant: a rollback leaves the mutation unsettled.
SettledByCommit(i, commit) ==
    /\ pending' = [pending EXCEPT ![i].settled = commit, ![i].committed = commit]
    /\ state' = IF commit
                THEN [state EXCEPT ![pending[i].relation] = pending[i].replacement]
                ELSE state

\* settle_subject_mutation: a commit writes the whole relation as it was
\* given to begin, whatever the relation has become.
Settled(i, commit) ==
    /\ pending' = [pending EXCEPT ![i].settled = TRUE, ![i].committed = commit]
    /\ state' = IF commit
                THEN [state EXCEPT ![pending[i].relation] = pending[i].replacement]
                ELSE state

\* settle_held_mutation: the control forgets the label before it asks the
\* resource, which may refuse.
Settle(label, commit) ==
    /\ held[label] # Unheld
    /\ Live
    /\ Settled(held[label], commit)
    /\ held' = [held EXCEPT ![label] = Unheld]
    /\ UNCHANGED <<quiescing, released, bound, sameInputs, snapshots, final>>

SettleRefused(label) ==
    /\ held[label] # Unheld
    /\ ~Live
    /\ held' = [held EXCEPT ![label] = Unheld]
    /\ UNCHANGED <<state, pending, quiescing, released, bound, sameInputs,
                   snapshots, final>>

\* replace_relation: a mutation begun and committed in one call.
ReplaceRelation(relation, replacement) ==
    /\ Admits
    /\ state' = [state EXCEPT ![relation] = replacement]
    /\ pending' = Append(pending, [Begun(relation, replacement) EXCEPT
                                       !.settled = TRUE, !.committed = TRUE])
    /\ UNCHANGED <<held, quiescing, released, bound, sameInputs, snapshots,
                   final>>

\* replace_relations_atomically, and project_during_atomic_commit, which
\* projects after it: the state is replaced without a pending mutation.
ReplaceAtomically(replacements) ==
    /\ Admits
    /\ state' = replacements
    /\ UNCHANGED <<pending, held, quiescing, released, bound, sameInputs,
                   snapshots, final>>

EnterQuiescing ==
    /\ Live
    /\ quiescing' = TRUE
    /\ UNCHANGED <<state, pending, held, released, bound, sameInputs,
                   snapshots, final>>

FinalProjection ==
    /\ Live
    /\ quiescing
    /\ Unsettled = {}
    /\ final' = state
    /\ UNCHANGED <<state, pending, held, quiescing, released, bound,
                   sameInputs, snapshots>>

TakeSnapshot ==
    /\ Live
    /\ snapshots' = Append(snapshots, [own |-> TRUE, state |-> state])
    /\ UNCHANGED <<state, pending, held, quiescing, released, bound,
                   sameInputs, final>>

Reset ==
    /\ Live
    /\ state' = Baseline
    /\ UNCHANGED <<pending, held, quiescing, released, bound, sameInputs,
                   snapshots, final>>

\* Mutant: the owner of the snapshot is not looked at.
RestoreUnowned(snapshot) ==
    /\ Live
    /\ state' = snapshot.state
    /\ UNCHANGED <<pending, held, quiescing, released, bound, sameInputs,
                   snapshots, final>>

Restore(snapshot) ==
    /\ Live
    /\ snapshot.own
    /\ state' = snapshot.state
    /\ UNCHANGED <<pending, held, quiescing, released, bound, sameInputs,
                   snapshots, final>>

SetBindingValid(valid) ==
    /\ bound' = valid
    /\ UNCHANGED <<state, pending, held, quiescing, released, sameInputs,
                   snapshots, final>>

SetExecutionInput(same) ==
    /\ sameInputs' = same
    /\ UNCHANGED <<state, pending, held, quiescing, released, bound,
                   snapshots, final>>

Release ==
    /\ released' = TRUE
    /\ UNCHANGED <<state, pending, held, quiescing, bound, sameInputs,
                   snapshots, final>>

Presented == Range(snapshots) \cup {[own |-> FALSE, state |-> ForeignState]}

Next ==
    \/ \E label \in Labels, relation \in Relations, table \in Tables :
           Begin(label, relation, table)
    \/ \E label \in Labels, commit \in BOOLEAN : Settle(label, commit)
    \/ \E label \in Labels : SettleRefused(label)
    \/ \E relation \in Relations, table \in Tables :
           ReplaceRelation(relation, table)
    \/ \E s \in Stores : ReplaceAtomically(s)
    \/ EnterQuiescing
    \/ FinalProjection
    \/ TakeSnapshot
    \/ Reset
    \/ \E snapshot \in Presented : Restore(snapshot)
    \/ \E valid \in BOOLEAN : SetBindingValid(valid)
    \/ \E same \in BOOLEAN : SetExecutionInput(same)
    \/ Release

Spec == Init /\ [][Next]_vars

-----------------------------------------------------------------------------

(***************************************************************************)
(* diff: one change for every row key whose row differs.                   *)
(***************************************************************************)

Change(before, after, relation, key) ==
    [relation |-> relation, key |-> key,
     kind |-> IF before[relation][key] = NoRow THEN "INSERT"
              ELSE IF after[relation][key] = NoRow THEN "DELETE" ELSE "UPDATE",
     value |-> after[relation][key]]

\* Mutant: only the rows that exist afterwards are compared.
DiffOfNewRows(before, after) ==
    {Change(before, after, p[1], p[2]) :
        p \in {q \in Relations \X Keys :
                 /\ after[q[1]][q[2]] # NoRow
                 /\ before[q[1]][q[2]] # after[q[1]][q[2]]}}

Diff(before, after) ==
    {Change(before, after, p[1], p[2]) :
        p \in {q \in Relations \X Keys : before[q[1]][q[2]] # after[q[1]][q[2]]}}

\* What a consumer does with a diff: insert what is not there, delete or
\* update what is.
Applies(change, s) ==
    (change.kind = "INSERT") <=> (s[change.relation][change.key] = NoRow)

Patched(s, changes) ==
    [relation \in Relations |-> [key \in Keys |->
        LET here == {c \in changes : c.relation = relation /\ c.key = key}
        IN  IF here = {} THEN s[relation][key]
            ELSE LET c == CHOOSE c \in here : TRUE
                 IN  IF c.kind = "DELETE" THEN NoRow ELSE c.value]]

-----------------------------------------------------------------------------

TypeOK ==
    /\ state \in Stores
    /\ pending \in Seq(Mutation)
    /\ held \in [Labels -> DOMAIN pending \cup {Unheld}]
    /\ quiescing \in BOOLEAN
    /\ released \in BOOLEAN
    /\ bound \in BOOLEAN
    /\ sameInputs \in BOOLEAN
    /\ snapshots \in Seq(Snapshot)
    /\ final \in Stores \cup {Unobserved}

\* The states reset and restore may go back to.
Captured == {Baseline} \cup {snapshot.state : snapshot \in Range(snapshots)}

\* A final projection is not overtaken by the Subject (final_projection,
\* settle_subject_mutation): from the first one on, whatever labels are still
\* held, settled or lost, the state only moves to one the evaluator captured.
FinalProjectionStands ==
    [][final # Unobserved => state' \in {state} \cup Captured]_vars

\* An accepted mutation loses its label without an outcome, and the settlement
\* barrier with it, only in a settle_held_mutation that the resource refuses
\* (the control pops the label before _ensure_live speaks).
OrphanedOnlyByDrift ==
    [][\A i \in Unsettled :
           (i \in Range(held) /\ i \notin Range(held') /\ ~pending'[i].settled)
               => ~Live]_vars

\* The diff from any snapshot to the present state leads a consumer of the
\* changes from the one to the other, and each change applies (diff).
DiffLeadsToState ==
    \A snapshot \in Range(snapshots) :
        LET changes == Diff(snapshot.state, state)
        IN  /\ \A change \in changes : Applies(change, snapshot.state)
            /\ Patched(snapshot.state, changes) = state

\* The promise of SettledStore: an unsettled mutation is an open one, the
\* evaluator's captures are the baseline and the snapshots.
OpenMutations ==
    {[id |-> i, relation |-> pending[i].relation,
      table |-> pending[i].replacement] : i \in Unsettled}

Promise == INSTANCE SettledStore WITH
    Ids <- Nat,
    store <- state,
    open <- OpenMutations,
    admitting <- ~quiescing,
    captured <- Captured

\* The in-memory resource implements SettledStore, through late commits,
\* resets, restores, lost labels and drift.
ImplementsStore == Promise!StoreSpec

=============================================================================
