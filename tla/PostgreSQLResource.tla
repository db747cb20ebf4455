-------------------------- MODULE PostgreSQLResource --------------------------
(***************************************************************************)
(* PostgreSQLRelationalResource under its fixture control (resource.py and *)
(* fixture.py of tck_adapter/postgresql_relational): the same operations   *)
(* as RelationalResource, where a held mutation is an open transaction, an *)
(* atomic commit is made by a writer thread, and every other call runs on  *)
(* one controlling thread, statement by statement.                         *)
(*                                                                         *)
(* The server is external.  A transaction runs at READ COMMITTED: a DELETE *)
(* sees the rows committed when it starts, locks them one by one, waits    *)
(* for a row another transaction has deleted, and skips it if that one     *)
(* commits.  The tables declare no key, so an INSERT waits for nobody.     *)
(***************************************************************************)
EXTENDS RelationalManifest

CONSTANTS
    Writers,    \* writer threads of project_during_atomic_commit
    Control     \* the transaction of a call on the controlling thread

ASSUME TransactionsAssumption ==
    /\ Labels \cap Writers = {}
    /\ Control \notin Labels \cup Writers

Transactions == Labels \cup Writers \cup {Control}

VARIABLES
    rows,           \* what is committed in the tables
    txs,            \* the transaction of each label, writer and call
    labels,         \* _held_labels
    control,        \* what the controlling thread is in the middle of
    allowed,        \* writers whose allow_commit is set
    quiesced,       \* _quiescing
    drifted,        \* what _ensure_live finds changed
    dropped,        \* the schema is gone and _released is set
    images,         \* states of the RelationalSnapshots handed out
    shown,          \* what the last final_projection returned
    slips           \* history: how two writers of a relation came not to wait

databaseVars == <<rows, txs, labels, control, allowed, quiesced, drifted,
                  dropped, images, shown, slips>>

\* A row version: two transactions can insert the same row.
Row == [relation : Relations, key : Keys, value : Values, by : Transactions]

RowsOf(image, over, x) ==
    {row \in Row : /\ row.by = x
                   /\ row.relation \in over
                   /\ image[row.relation][row.key] = row.value}

\* A connection inside a transaction: the candidate it writes, the relations
\* it has not come to, the one it is deleting from and those it has written,
\* the rows it still has to lock and those it has deleted.
Transaction == [active : BOOLEAN, image : Stores,
                left : SUBSET Relations, on : SUBSET Relations,
                done : SUBSET Relations,
                seen : SUBSET Row, deleted : SUBSET Row]

Closed == [active |-> FALSE, image |-> Baseline, left |-> {}, on |-> {},
           done |-> {}, seen |-> {}, deleted |-> {}]

Opened(over, image) ==
    [Closed EXCEPT !.active = TRUE, !.image = image, !.left = over]

Call == [at : {"free", "writing", "awaiting", "joining", "releasing",
               "raising"},
         tx : Transactions]

Free == [at |-> "free", tx |-> Control]

Calling(at, x) == [at |-> at, tx |-> x]

\* provision_database has returned: the baseline is committed.
Provisioned ==
    /\ rows = RowsOf(Baseline, Relations, Control)
    /\ txs = [x \in Transactions |-> Closed]
    /\ labels = {}
    /\ control = Free
    /\ allowed = {}
    /\ quiesced = FALSE
    /\ drifted = {}
    /\ dropped = FALSE
    /\ images = {}
    /\ shown = Unobserved
    /\ slips = {}

\* _validate_state_for_manifest accepts what is read: no row key twice.
Legible ==
    \A p, q \in rows : (p.relation = q.relation /\ p.key = q.key) => p = q

\* The StateImage a read of legible rows returns.
Logical ==
    [relation \in Relations |-> [key \in Keys |->
        LET here == {row \in rows : row.relation = relation /\ row.key = key}
        IN  IF here = {} THEN NoRow ELSE (CHOOSE row \in here : TRUE).value]]

\* _ensure_live.
Usable == ~dropped /\ drifted = {}

\* _require_mutation_admission.
AdmitsMutation == Usable /\ ~quiesced

\* _validated_candidate: the present state with some relations replaced.
Candidate(over, image) ==
    /\ Legible
    /\ over # {}
    /\ \A relation \in Relations \ over : image[relation] = Logical[relation]

-----------------------------------------------------------------------------

(***************************************************************************)
(* _replace_relations_on_connection, one relation after the other: DELETE  *)
(* takes its snapshot, deletes row by row, then the new rows are inserted. *)
(***************************************************************************)

DeleteBegins(x, relation) ==
    /\ txs[x].active
    /\ ~dropped
    /\ txs[x].on = {}
    /\ relation \in txs[x].left
    /\ txs' = [txs EXCEPT ![x].left = @ \ {relation},
                          ![x].on = {relation},
                          ![x].seen = {row \in rows : row.relation = relation}]
    /\ UNCHANGED <<rows, labels, control, allowed, quiesced, drifted, dropped,
                   images, shown, slips>>

DeleteRow(x, row) ==
    /\ row \in txs[x].seen
    /\ \A y \in Transactions \ {x} : row \notin txs[y].deleted
    /\ txs' = [txs EXCEPT ![x].seen = @ \ {row},
                          ![x].deleted = @ \cup {row}]
    /\ UNCHANGED <<rows, labels, control, allowed, quiesced, drifted, dropped,
                   images, shown, slips>>

\* Mutant: the rows are inserted beside those already there.
InsertUndeleted(x) ==
    /\ txs[x].on # {}
    /\ txs' = [txs EXCEPT ![x].on = {}, ![x].seen = {},
                          ![x].done = @ \cup txs[x].on]
    /\ UNCHANGED <<rows, labels, control, allowed, quiesced, drifted, dropped,
                   images, shown, slips>>

\* Mutant: the connection commits every statement by itself.
InsertAutocommits(x) ==
    /\ txs[x].on # {}
    /\ txs[x].seen = {}
    /\ rows' = (rows \ txs[x].deleted) \cup RowsOf(txs[x].image, txs[x].on, x)
    /\ txs' = [y \in Transactions |->
                  IF y = x
                  THEN [txs[x] EXCEPT !.on = {}, !.deleted = {},
                                      !.done = @ \cup txs[x].on]
                  ELSE [txs[y] EXCEPT !.seen = @ \ txs[x].deleted]]
    /\ UNCHANGED <<labels, control, allowed, quiesced, drifted, dropped, images,
                   shown, slips>>

InsertRows(x) ==
    /\ txs[x].on # {}
    /\ txs[x].seen = {}
    /\ txs' = [txs EXCEPT ![x].on = {}, ![x].done = @ \cup txs[x].on]
    /\ UNCHANGED <<rows, labels, control, allowed, quiesced, drifted, dropped,
                   images, shown, slips>>

Written(x) == txs[x].active /\ txs[x].left = {} /\ txs[x].on = {}

\* COMMIT: whoever waits for a row deleted here no longer finds it.
Committed(x) ==
    /\ rows' = (rows \ txs[x].deleted) \cup RowsOf(txs[x].image, txs[x].done, x)
    /\ txs' = [y \in Transactions |->
                  IF y = x THEN Closed
                  ELSE [txs[y] EXCEPT !.seen = @ \ txs[x].deleted]]

\* ROLLBACK, and what a lost connection comes to.
RolledBack(x) ==
    /\ txs' = [txs EXCEPT ![x] = Closed]
    /\ UNCHANGED rows

-----------------------------------------------------------------------------

(***************************************************************************)
(* Calls on the controlling thread.                                        *)
(***************************************************************************)

Begins(at, x, over, image) ==
    /\ control = Free
    /\ txs' = [txs EXCEPT ![x] = Opened(over, image)]
    /\ control' = Calling(at, x)

\* begin_held_mutation, up to its first statement.
BeginHeldMutation(label, relation, image) ==
    /\ AdmitsMutation
    /\ label \notin labels
    /\ Candidate({relation}, image)
    /\ Begins("writing", label, {relation}, image)
    /\ UNCHANGED <<rows, labels, allowed, quiesced, drifted, dropped, images,
                   shown, slips>>

\* begin_held_mutation returns; with nothing to delete it holds no lock.
HeldMutationBegun ==
    /\ control.at = "writing"
    /\ control.tx \in Labels
    /\ Written(control.tx)
    /\ labels' = labels \cup {control.tx}
    /\ control' = Free
    /\ slips' = IF txs[control.tx].deleted = {} THEN slips \cup {"bare"}
                ELSE slips
    /\ UNCHANGED <<rows, txs, allowed, quiesced, drifted, dropped, images, shown>>

\* replace_relation and replace_relations_atomically.
ReplaceRelations(over, image) ==
    /\ AdmitsMutation
    /\ Candidate(over, image)
    /\ Begins("writing", Control, over, image)
    /\ UNCHANGED <<rows, labels, allowed, quiesced, drifted, dropped, images,
                   shown, slips>>

\* reset, and restore of a snapshot of this instance.
Reestablish(image) ==
    /\ Usable
    /\ Begins("writing", Control, Relations, image)
    /\ UNCHANGED <<rows, labels, allowed, quiesced, drifted, dropped, images,
                   shown, slips>>

\* The connection's context manager commits.
ControlCommits ==
    /\ control.at = "writing"
    /\ control.tx = Control
    /\ Written(Control)
    /\ Committed(Control)
    /\ control' = Free
    /\ UNCHANGED <<labels, allowed, quiesced, drifted, dropped, images, shown,
                   slips>>

\* A statement or the commit raises: the call rolls back and raises.
WritingFails ==
    /\ control.at = "writing"
    /\ RolledBack(control.tx)
    /\ control' = Free
    /\ UNCHANGED <<labels, allowed, quiesced, drifted, dropped, images, shown,
                   slips>>

\* settle_held_mutation: the label goes even when the commit raises.
SettleHeldMutation(label, committed) ==
    /\ control = Free
    /\ Usable
    /\ label \in labels
    /\ committed => txs[label].active
    /\ IF committed THEN Committed(label) ELSE RolledBack(label)
    /\ labels' = labels \ {label}
    /\ UNCHANGED <<control, allowed, quiesced, drifted, dropped, images, shown,
                   slips>>

\* The server ends a held transaction before the control does.
ConnectionLost(label) ==
    /\ control.at # "releasing"
    /\ label \in labels
    /\ txs[label].active
    /\ RolledBack(label)
    /\ UNCHANGED <<labels, control, allowed, quiesced, drifted, dropped, images,
                   shown, slips>>

EnterQuiescingBoundary ==
    /\ control = Free
    /\ Usable
    /\ quiesced' = TRUE
    /\ UNCHANGED <<rows, txs, labels, control, allowed, drifted, dropped,
                   images, shown, slips>>

\* Mutant: the held labels are not looked at.
ProjectUnsettled ==
    /\ control = Free
    /\ Usable
    /\ quiesced
    /\ Legible
    /\ shown' = Logical
    /\ UNCHANGED <<rows, txs, labels, control, allowed, quiesced, drifted,
                   dropped, images, slips>>

\* final_projection.
ProjectFinally ==
    /\ control = Free
    /\ Usable
    /\ quiesced
    /\ labels = {}
    /\ Legible
    /\ shown' = Logical
    /\ UNCHANGED <<rows, txs, labels, control, allowed, quiesced, drifted,
                   dropped, images, slips>>

\* snapshot.
CaptureImage ==
    /\ control = Free
    /\ Usable
    /\ Legible
    /\ images' = images \cup {Logical}
    /\ UNCHANGED <<rows, txs, labels, control, allowed, quiesced, drifted,
                   dropped, shown, slips>>

\* set_logical_binding_valid and set_execution_input_identity.
SetDrift(changed) ==
    /\ control = Free
    /\ drifted' = changed
    /\ UNCHANGED <<rows, txs, labels, control, allowed, quiesced, dropped,
                   images, shown, slips>>

-----------------------------------------------------------------------------

(***************************************************************************)
(* project_during_atomic_commit: a writer thread writes and waits for      *)
(* allow_commit, which the controlling thread sets after it has projected, *)
(* or after ten seconds; it waits ten seconds more for the writer to end.  *)
(***************************************************************************)

ProjectDuringAtomicCommit(w, over, image) ==
    /\ AdmitsMutation
    /\ ~txs[w].active
    /\ Candidate(over, image)
    /\ Begins("awaiting", w, over, image)
    /\ allowed' = allowed \ {w}
    /\ UNCHANGED <<rows, labels, quiesced, drifted, dropped, images, shown, slips>>

AllowCommit ==
    /\ control.at = "awaiting"
    /\ allowed' = allowed \cup {control.tx}
    /\ control' = Calling("joining", control.tx)
    /\ UNCHANGED <<rows, txs, labels, quiesced, drifted, dropped, images, shown,
                   slips>>

\* The call returns or raises, whether the writer has ended or not.
WriterJoined ==
    /\ control.at = "joining"
    /\ control' = Free
    /\ slips' = IF txs[control.tx].active THEN slips \cup {"overdue"} ELSE slips
    /\ UNCHANGED <<rows, txs, labels, allowed, quiesced, drifted, dropped,
                   images, shown>>

WriterCommits(w) ==
    /\ Written(w)
    /\ w \in allowed
    /\ Committed(w)
    /\ UNCHANGED <<labels, control, allowed, quiesced, drifted, dropped, images,
                   shown, slips>>

\* A statement raises, or the commit barrier times out.
WriterFails(w) ==
    /\ txs[w].active
    /\ RolledBack(w)
    /\ UNCHANGED <<labels, control, allowed, quiesced, drifted, dropped, images,
                   shown, slips>>

-----------------------------------------------------------------------------

(***************************************************************************)
(* release: every held connection is rolled back, then the labels are      *)
(* cleared and the schema is dropped.  A rollback on a closed connection   *)
(* raises, and leaves the labels as they are.                              *)
(***************************************************************************)

ReleaseBegins ==
    /\ control = Free
    /\ ~dropped
    /\ control' = Calling(IF \A label \in labels : txs[label].active
                          THEN "releasing" ELSE "raising", Control)
    /\ UNCHANGED <<rows, txs, labels, allowed, quiesced, drifted, dropped,
                   images, shown, slips>>

RollBackHeld(label) ==
    /\ control.at \in {"releasing", "raising"}
    /\ label \in labels
    /\ txs[label].active
    /\ RolledBack(label)
    /\ UNCHANGED <<labels, control, allowed, quiesced, drifted, dropped, images,
                   shown, slips>>

RollbackRaises ==
    /\ control.at \in {"releasing", "raising"}
    /\ \E label \in labels : ~txs[label].active
    /\ control' = Free
    /\ UNCHANGED <<rows, txs, labels, allowed, quiesced, drifted, dropped,
                   images, shown, slips>>

\* DROP SCHEMA waits for every transaction that has touched a table.
DropSchema(done) ==
    /\ control.at = "releasing"
    /\ \A label \in labels : ~txs[label].active
    /\ done => \A w \in Writers : txs[w].on = {} /\ txs[w].done = {}
    /\ labels' = {}
    /\ dropped' = done
    /\ control' = Free
    /\ UNCHANGED <<rows, txs, allowed, quiesced, drifted, images, shown, slips>>

-----------------------------------------------------------------------------

CapturedImages == {Baseline} \cup images

DatabaseNext ==
    \/ \E x \in Transactions :
          \/ \E relation \in Relations : DeleteBegins(x, relation)
          \/ \E row \in txs[x].seen : DeleteRow(x, row)
          \/ InsertRows(x)
    \/ \E label \in Labels, relation \in Relations, image \in Stores :
           BeginHeldMutation(label, relation, image)
    \/ HeldMutationBegun
    \/ \E over \in SUBSET Relations, image \in Stores :
           ReplaceRelations(over, image)
    \/ \E image \in CapturedImages : Reestablish(image)
    \/ ControlCommits
    \/ WritingFails
    \/ \E label \in Labels, committed \in BOOLEAN :
           SettleHeldMutation(label, committed)
    \/ \E label \in Labels : ConnectionLost(label)
    \/ EnterQuiescingBoundary
    \/ ProjectFinally
    \/ CaptureImage
    \/ \E changed \in SUBSET {"binding", "inputs"} : SetDrift(changed)
    \/ \E w \in Writers, over \in SUBSET Relations, image \in Stores :
           ProjectDuringAtomicCommit(w, over, image)
    \/ AllowCommit
    \/ WriterJoined
    \/ \E w \in Writers : WriterCommits(w) \/ WriterFails(w)
    \/ ReleaseBegins
    \/ \E label \in Labels : RollBackHeld(label)
    \/ RollbackRaises
    \/ \E done \in BOOLEAN : DropSchema(done)

DatabaseSpec == Provisioned /\ [][DatabaseNext]_databaseVars

-----------------------------------------------------------------------------

DatabaseTypeOK ==
    /\ rows \subseteq Row
    /\ txs \in [Transactions -> Transaction]
    /\ labels \subseteq Labels
    /\ control \in Call
    /\ allowed \subseteq Writers
    /\ quiesced \in BOOLEAN
    /\ drifted \subseteq {"binding", "inputs"}
    /\ dropped \in BOOLEAN
    /\ images \subseteq Stores
    /\ shown \in Stores \cup {Unobserved}
    /\ slips \subseteq {"bare", "overdue"}

\* No row key is ever there twice, though no table declares a key: the row
\* locks of the DELETE that opens every write keep two writers of a relation
\* apart.  They do not for a held mutation of an empty relation, nor for a
\* writer thread that outlives its call; both are in slips.
RowsAreKeyed == slips = {} => Legible

\* A final projection is not overtaken (final_projection): no held transaction
\* and no writer thread commits behind it, except a writer that outlives its
\* call.
ProjectionStands ==
    [][(shown # Unobserved /\ "overdue" \notin slips')
           => Logical' \in {Logical} \cup CapturedImages]_databaseVars

\* The promise of SettledStore: a held transaction is an open mutation.
OpenTransactions ==
    {[id |-> p[1], relation |-> p[2], table |-> txs[p[1]].image[p[2]]] :
        p \in {q \in labels \X Relations : q[2] \in txs[q[1]].done}}

Backend == INSTANCE SettledStore WITH
    Ids <- Labels,
    store <- Logical,
    open <- OpenTransactions,
    admitting <- ~quiesced,
    captured <- CapturedImages,
    final <- shown

\* While neither slip happens the database implements the store that the
\* in-memory resource implements: through row locks, failing statements, lost
\* connections and a writer thread, every step is one of its steps or none.
ImplementsBackend ==
    /\ Backend!StoreInit
    /\ [][slips' = {} => \/ Backend!StoreNext
                         \/ UNCHANGED Backend!storeVars]_databaseVars

=============================================================================
