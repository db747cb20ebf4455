----------------------- MODULE RelationalResource_proofs -----------------------
(***************************************************************************)
(* Proofs about the two relational backends, for all relations, tables,    *)
(* labels, writers and histories of any length.                            *)
(*                                                                         *)
(* In memory, the inductive invariant says that a label names a mutation   *)
(* without an outcome, that no two labels share one, and that behind a     *)
(* final projection admission is closed and nothing is open.               *)
(*                                                                         *)
(* In the database, it says who can be under way beside whom, and that a   *)
(* transaction has deleted, or still waits for, every row of the relations *)
(* it has come to: nobody adds one there, since whoever could would have   *)
(* had to delete a row this transaction has locked.                        *)
(***************************************************************************)
EXTENDS RelationalResource, PostgreSQLResource, TLAPS

HeldAreUnsettled ==
    /\ \A label \in Labels : held[label] # Unheld => held[label] \in Unsettled
    /\ \A a, b \in Labels : held[a] # Unheld /\ held[a] = held[b] => a = b

BarrierHolds == final # Unobserved => quiescing /\ Unsettled = {}

IInv == TypeOK /\ HeldAreUnsettled /\ BarrierHolds

\* Appending to _pending leaves the mutations before it where they are
\* (begin_subject_mutation).
LEMMA AppendedPending ==
    ASSUME NEW s \in Seq(Mutation), NEW m \in Mutation
    PROVE  /\ Append(s, m) \in Seq(Mutation)
           /\ DOMAIN s = 1..Len(s)
           /\ Len(s) \in Nat
           /\ DOMAIN Append(s, m) = 1..(Len(s) + 1)
           /\ Append(s, m)[Len(s) + 1] = m
           /\ \A i \in DOMAIN s : Append(s, m)[i] = s[i]
  OBVIOUS

\* Settling replaces one record and touches no other (settle_subject_mutation).
LEMMA SettledPending ==
    ASSUME TypeOK, NEW i \in DOMAIN pending, NEW commit \in BOOLEAN,
           Settled(i, commit)
    PROVE  /\ pending' \in Seq(Mutation)
           /\ DOMAIN pending' = DOMAIN pending
           /\ state' \in Stores
           /\ pending'[i] = [pending[i] EXCEPT !.settled = TRUE,
                                               !.committed = commit]
           /\ \A j \in DOMAIN pending : j # i => pending'[j] = pending[j]
           /\ Unsettled' = Unsettled \ {i}
<1>1. pending \in Seq(Mutation) /\ pending[i] \in Mutation
  BY DEF TypeOK
<1>2. pending' = [pending EXCEPT ![i] = [pending[i] EXCEPT !.settled = TRUE,
                                                         !.committed = commit]]
  BY <1>1 DEF Settled, Mutation
<1>3. [pending[i] EXCEPT !.settled = TRUE, !.committed = commit] \in Mutation
  BY <1>1 DEF Mutation
<1>4. pending' \in Seq(Mutation) /\ DOMAIN pending' = DOMAIN pending
  BY <1>1, <1>2, <1>3
<1>5. /\ pending'[i] = [pending[i] EXCEPT !.settled = TRUE, !.committed = commit]
      /\ \A j \in DOMAIN pending : j # i => pending'[j] = pending[j]
  BY <1>1, <1>2
<1>6. pending'[i].settled
  BY <1>1, <1>5 DEF Mutation
<1>7. state' \in Stores
  BY <1>1 DEF Settled, TypeOK, Stores, Mutation
<1> QED
  BY <1>4, <1>5, <1>6, <1>7 DEF Unsettled

\* A begun mutation is the one new unsettled one; one begun and settled in
\* the same call adds none (begin_held_mutation, replace_relation).
LEMMA AppendedUnsettled ==
    ASSUME TypeOK, NEW m \in Mutation, pending' = Append(pending, m)
    PROVE  /\ pending' \in Seq(Mutation)
           /\ DOMAIN pending \subseteq DOMAIN pending'
           /\ Len(pending) + 1 \in DOMAIN pending'
           /\ Len(pending) + 1 \notin DOMAIN pending
           /\ \A i \in DOMAIN pending : pending'[i] = pending[i]
           /\ pending'[Len(pending) + 1] = m
           /\ m.settled => Unsettled' = Unsettled
           /\ ~m.settled => Unsettled' = Unsettled \cup {Len(pending) + 1}
<1>1. pending \in Seq(Mutation)
  BY DEF TypeOK
<1>2. /\ pending' \in Seq(Mutation)
      /\ DOMAIN pending = 1..Len(pending)
      /\ Len(pending) \in Nat
      /\ DOMAIN pending' = 1..(Len(pending) + 1)
      /\ pending'[Len(pending) + 1] = m
      /\ \A i \in DOMAIN pending : pending'[i] = pending[i]
  BY <1>1, AppendedPending
<1>3. DOMAIN pending' = DOMAIN pending \cup {Len(pending) + 1}
  BY <1>2
<1>4. Len(pending) + 1 \notin DOMAIN pending
  BY <1>2
<1> QED
  BY <1>2, <1>3, <1>4 DEF Unsettled

\* The first state: nothing is pending, held or projected (__init__).
LEMMA InitInv == Init => IInv
<1> SUFFICES ASSUME Init
             PROVE  IInv
  OBVIOUS
<1>1. Unsettled = {} /\ pending \in Seq(Mutation) /\ snapshots \in Seq(Snapshot)
  BY DEF Init, Unsettled
<1>2. TypeOK
  BY <1>1, BaselineAssumption DEF Init, TypeOK
<1>3. HeldAreUnsettled
  BY DEF Init, HeldAreUnsettled
<1>4. BarrierHolds
  BY DEF Init, BarrierHolds
<1> QED
  BY <1>2, <1>3, <1>4 DEF IInv

\* Every operation of the resource and of the fixture control keeps the
\* invariant.
LEMMA NextInv == IInv /\ [Next]_vars => IInv'
<1> SUFFICES ASSUME IInv, [Next]_vars
             PROVE  IInv'
  OBVIOUS
<1> USE DEF IInv
<1>1. ASSUME NEW label \in Labels, NEW relation \in Relations,
             NEW table \in Tables, Begin(label, relation, table)
      PROVE  IInv'
  <2>1. Begun(relation, table) \in Mutation /\ ~Begun(relation, table).settled
    BY DEF Begun, Mutation
  <2>2. pending' = Append(pending, Begun(relation, table))
    BY <1>1 DEF Begin
  <2> DEFINE n == Len(pending) + 1
  <2>3. /\ pending' \in Seq(Mutation)
        /\ DOMAIN pending \subseteq DOMAIN pending'
        /\ n \in DOMAIN pending'
        /\ n \notin DOMAIN pending
        /\ Unsettled' = Unsettled \cup {n}
    BY <2>1, <2>2, AppendedUnsettled
  <2>4. held' = [held EXCEPT ![label] = n]
    BY <1>1 DEF Begin
  <2> HIDE DEF n
  <2>5. TypeOK'
    BY <1>1, <2>3, <2>4 DEF Begin, TypeOK
  <2>6. HeldAreUnsettled'
    BY <2>3, <2>4 DEF HeldAreUnsettled, TypeOK, Unsettled
  <2>7. BarrierHolds'
    BY <1>1 DEF Begin, Admits, BarrierHolds
  <2> QED
    BY <2>5, <2>6, <2>7
<1>2. ASSUME NEW label \in Labels, NEW commit \in BOOLEAN, Settle(label, commit)
      PROVE  IInv'
  <2>1. held[label] \in Unsettled /\ held[label] \in DOMAIN pending
    BY <1>2 DEF Settle, HeldAreUnsettled, Unsettled
  <2>2. Settled(held[label], commit)
    BY <1>2 DEF Settle
  <2>3. /\ pending' \in Seq(Mutation)
        /\ DOMAIN pending' = DOMAIN pending
        /\ state' \in Stores
        /\ Unsettled' = Unsettled \ {held[label]}
    BY <2>1, <2>2, SettledPending
  <2>4. held' = [held EXCEPT ![label] = Unheld]
    BY <1>2 DEF Settle
  <2>5. TypeOK'
    BY <1>2, <2>3, <2>4 DEF Settle, TypeOK
  <2>6. HeldAreUnsettled'
    BY <1>2, <2>3, <2>4 DEF HeldAreUnsettled, TypeOK, Settle
  <2>7. BarrierHolds'
    BY <1>2, <2>3 DEF Settle, BarrierHolds
  <2> QED
    BY <2>5, <2>6, <2>7
<1>3. ASSUME NEW label \in Labels, SettleRefused(label)
      PROVE  IInv'
  <2>1. Unsettled' = Unsettled
    BY <1>3 DEF SettleRefused, Unsettled
  <2> QED
    BY <1>3, <2>1 DEF SettleRefused, TypeOK, HeldAreUnsettled, BarrierHolds
<1>4. ASSUME NEW relation \in Relations, NEW table \in Tables,
             ReplaceRelation(relation, table)
      PROVE  IInv'
  <2> DEFINE m == [Begun(relation, table) EXCEPT !.settled = TRUE,
                                                 !.committed = TRUE]
  <2>1. m \in Mutation /\ m.settled
    BY DEF Begun, Mutation
  <2>2. pending' = Append(pending, m)
    BY <1>4 DEF ReplaceRelation
  <2> HIDE DEF m
  <2>3. /\ pending' \in Seq(Mutation)
        /\ DOMAIN pending \subseteq DOMAIN pending'
        /\ Unsettled' = Unsettled
    BY <2>1, <2>2, AppendedUnsettled
  <2>4. state' \in Stores
    BY <1>4 DEF ReplaceRelation, TypeOK, Stores
  <2> QED
    BY <1>4, <2>3, <2>4
       DEF ReplaceRelation, TypeOK, HeldAreUnsettled, BarrierHolds
<1>5. ASSUME NEW s \in Stores, ReplaceAtomically(s)
      PROVE  IInv'
  BY <1>5 DEF ReplaceAtomically, TypeOK, HeldAreUnsettled, BarrierHolds, Unsettled
<1>6. CASE EnterQuiescing
  BY <1>6 DEF EnterQuiescing, TypeOK, HeldAreUnsettled, BarrierHolds, Unsettled
<1>7. CASE FinalProjection
  BY <1>7 DEF FinalProjection, TypeOK, HeldAreUnsettled, BarrierHolds, Unsettled
<1>8. CASE TakeSnapshot
  <2>1. [own |-> TRUE, state |-> state] \in Snapshot
    BY DEF TypeOK, Snapshot
  <2> QED
    BY <1>8, <2>1
       DEF TakeSnapshot, TypeOK, HeldAreUnsettled, BarrierHolds, Unsettled
<1>9. CASE Reset
  BY <1>9, BaselineAssumption
     DEF Reset, TypeOK, HeldAreUnsettled, BarrierHolds, Unsettled
<1>10. ASSUME NEW snapshot \in Presented, Restore(snapshot)
       PROVE  IInv'
  <2>1. CASE snapshot \in Range(snapshots)
    <3>1. snapshot \in Snapshot
      BY <2>1 DEF Range, TypeOK
    <3>2. snapshot.state \in Stores
      BY <3>1 DEF Snapshot
    <3> QED
      BY <1>10, <3>2
         DEF Restore, TypeOK, HeldAreUnsettled, BarrierHolds, Unsettled
  <2>2. CASE snapshot = [own |-> FALSE, state |-> ForeignState]
    BY <1>10, <2>2 DEF Restore
  <2> QED
    BY <2>1, <2>2 DEF Presented
<1>11. ASSUME NEW valid \in BOOLEAN, SetBindingValid(valid)
       PROVE  IInv'
  BY <1>11 DEF SetBindingValid, TypeOK, HeldAreUnsettled, BarrierHolds, Unsettled
<1>12. ASSUME NEW same \in BOOLEAN, SetExecutionInput(same)
       PROVE  IInv'
  BY <1>12 DEF SetExecutionInput, TypeOK, HeldAreUnsettled, BarrierHolds, Unsettled
<1>13. CASE Release
  BY <1>13 DEF Release, TypeOK, HeldAreUnsettled, BarrierHolds, Unsettled
<1>14. CASE UNCHANGED vars
  BY <1>14 DEF vars, TypeOK, HeldAreUnsettled, BarrierHolds, Unsettled
<1> QED
  BY <1>1, <1>2, <1>3, <1>4, <1>5, <1>6, <1>7, <1>8, <1>9, <1>10, <1>11, <1>12,
     <1>13, <1>14 DEF Next

\* Typing: every label names a mutation in _pending.
THEOREM TypeCorrect == Spec => []TypeOK
<1>1. IInv => TypeOK
  BY DEF IInv
<1> QED
  BY InitInv, NextInv, <1>1, PTL DEF Spec

\* Behind a final projection only reset and restore move the state: nothing is
\* left that could settle, and nothing can begin.
THEOREM FinalProjectionCorrect == Spec => FinalProjectionStands
<1>1. IInv /\ [Next]_vars
        => [final # Unobserved => state' \in {state} \cup Captured]_vars
  <2> SUFFICES ASSUME IInv, Next, final # Unobserved
               PROVE  state' \in {state} \cup Captured
    BY DEF vars
  <2>1. quiescing /\ Unsettled = {}
    BY DEF IInv, BarrierHolds
  <2>2. ASSUME NEW label \in Labels, NEW commit \in BOOLEAN, Settle(label, commit)
        PROVE  FALSE
    BY <2>1, <2>2 DEF Settle, IInv, HeldAreUnsettled
  <2>3. ASSUME NEW snapshot \in Presented, Restore(snapshot)
        PROVE  state' \in Captured
    BY <2>3 DEF Restore, Presented, Captured
  <2>4. CASE Reset
    BY <2>4 DEF Reset, Captured
  <2> QED
    BY <2>1, <2>2, <2>3, <2>4
       DEF Next, Begin, ReplaceRelation, ReplaceAtomically, Admits,
           SettleRefused, EnterQuiescing, FinalProjection, TakeSnapshot,
           SetBindingValid, SetExecutionInput, Release
<1> QED
  BY <1>1, InitInv, NextInv, PTL DEF Spec, FinalProjectionStands

\* A settle that the resource accepts gives its mutation an outcome, so only a
\* refused one can orphan it.
THEOREM OrphansCorrect == Spec => OrphanedOnlyByDrift
<1> DEFINE Kept ==
        \A i \in Unsettled :
           (i \in Range(held) /\ i \notin Range(held') /\ ~pending'[i].settled)
               => ~Live
<1>1. IInv /\ [Next]_vars => [Kept]_vars
  <2> SUFFICES ASSUME IInv, Next, NEW i \in Unsettled,
                      i \in Range(held), i \notin Range(held'),
                      ~pending'[i].settled
               PROVE  ~Live
    BY DEF vars
  <2>1. held' # held
    OBVIOUS
  <2>2. ASSUME NEW label \in Labels, NEW relation \in Relations,
               NEW table \in Tables, Begin(label, relation, table)
        PROVE  FALSE
    <3>1. PICK a \in Labels : held[a] = i
      BY DEF Range, IInv, TypeOK
    <3>2. held[label] = Unheld /\ held' = [held EXCEPT ![label] = Len(pending) + 1]
      BY <2>2 DEF Begin
    <3>3. i # Unheld
      BY UnheldAssumption DEF Unsettled, IInv, TypeOK
    <3>4. held'[a] = i /\ a \in DOMAIN held'
      BY <3>1, <3>2, <3>3 DEF IInv, TypeOK
    <3> QED
      BY <3>4 DEF Range
  <2>3. ASSUME NEW label \in Labels, NEW commit \in BOOLEAN, Settle(label, commit)
        PROVE  FALSE
    <3>1. PICK a \in Labels : held[a] = i
      BY DEF Range, IInv, TypeOK
    <3>2. held[label] # Unheld /\ held' = [held EXCEPT ![label] = Unheld]
      BY <2>3 DEF Settle
    <3>3. a = label
      BY <3>1, <3>2 DEF Range, IInv, TypeOK
    <3>4. held[label] \in Unsettled /\ Settled(held[label], commit)
      BY <2>3 DEF Settle, IInv, HeldAreUnsettled
    <3>5. Unsettled' = Unsettled \ {i} /\ DOMAIN pending' = DOMAIN pending
      BY <3>1, <3>3, <3>4, SettledPending DEF IInv, Unsettled
    <3> QED
      BY <3>5 DEF Unsettled
  <2>4. ASSUME NEW label \in Labels, SettleRefused(label)
        PROVE  ~Live
    BY <2>4 DEF SettleRefused
  <2> QED
    BY <2>1, <2>2, <2>3, <2>4
       DEF Next, ReplaceRelation, ReplaceAtomically, EnterQuiescing,
           FinalProjection, TakeSnapshot, Reset, Restore, SetBindingValid,
           SetExecutionInput, Release
<1> QED
  BY <1>1, InitInv, NextInv, PTL DEF Spec, OrphanedOnlyByDrift

\* A change of the diff is found again by its relation and its key, so a
\* consumer of the diff of any two states arrives at the second (diff).
LEMMA DiffRoundTrip ==
    ASSUME NEW before \in Stores, NEW after \in Stores
    PROVE  /\ \A change \in Diff(before, after) : Applies(change, before)
           /\ Patched(before, Diff(before, after)) = after
<1> DEFINE changes == Diff(before, after)
<1>1. ASSUME NEW change \in changes
      PROVE  Applies(change, before)
  BY DEF Diff, Change, Applies, Stores, Tables
<1>2. ASSUME NEW relation \in Relations, NEW key \in Keys
      PROVE  Patched(before, changes)[relation][key] = after[relation][key]
  <2> DEFINE here == {c \in changes : c.relation = relation /\ c.key = key}
             one  == Change(before, after, relation, key)
  <2>1. CASE before[relation][key] = after[relation][key]
    <3>1. here = {}
      BY <2>1 DEF Diff, Change
    <3> QED
      BY <2>1, <3>1 DEF Patched
  <2>2. CASE before[relation][key] # after[relation][key]
    <3>1. here = {one}
      <4>1. one \in here
        <5>1. <<relation, key>> \in {q \in Relations \X Keys :
                  before[q[1]][q[2]] # after[q[1]][q[2]]}
          BY <2>2
        <5>2. one \in changes
          BY <5>1 DEF Diff
        <5> QED
          BY <5>2 DEF Change
      <4>2. ASSUME NEW c \in here
            PROVE  c = one
        BY DEF Diff, Change
      <4> QED
        BY <4>1, <4>2
    <3>2. (CHOOSE c \in here : TRUE) = one
      BY <3>1
    <3>3. here # {}
      BY <3>1
    <3>4. Patched(before, changes)[relation][key]
            = IF one.kind = "DELETE" THEN NoRow ELSE one.value
      BY <3>2, <3>3 DEF Patched
    <3>5. one.kind = "DELETE" => after[relation][key] = NoRow
      BY DEF Change
    <3> QED
      BY <3>4, <3>5 DEF Change
  <2> QED
    BY <2>1, <2>2
<1>3. Patched(before, changes) = after
  <2> DEFINE patched == Patched(before, changes)
  <2>1. /\ patched = [relation \in Relations |-> patched[relation]]
        /\ \A relation \in Relations :
              patched[relation] = [key \in Keys |-> patched[relation][key]]
    BY DEF Patched
  <2>2. /\ after = [relation \in Relations |-> after[relation]]
        /\ \A relation \in Relations :
              after[relation] = [key \in Keys |-> after[relation][key]]
    BY DEF Stores, Tables
  <2>3. \A relation \in Relations, key \in Keys :
            patched[relation][key] = after[relation][key]
    BY <1>2
  <2> HIDE DEF patched
  <2>4. \A relation \in Relations : patched[relation] = after[relation]
    BY <2>1, <2>2, <2>3
  <2>5. patched = after
    BY <2>1, <2>2, <2>4
  <2> QED
    BY <2>5 DEF patched
<1> QED
  BY <1>1, <1>3

\* The diff from a snapshot always leads to the present state.
THEOREM DiffCorrect == Spec => []DiffLeadsToState
<1>1. TypeOK => DiffLeadsToState
  <2> SUFFICES ASSUME TypeOK, NEW snapshot \in Range(snapshots)
               PROVE  /\ \A change \in Diff(snapshot.state, state) :
                             Applies(change, snapshot.state)
                      /\ Patched(snapshot.state, Diff(snapshot.state, state)) = state
    BY DEF DiffLeadsToState
  <2>1. snapshot \in Snapshot
    BY DEF Range, TypeOK
  <2>2. snapshot.state \in Stores /\ state \in Stores
    BY <2>1 DEF Snapshot, TypeOK
  <2> QED
    BY <2>2, DiffRoundTrip
<1> QED
  BY <1>1, TypeCorrect, PTL

\* Beginning a mutation opens exactly it (begin_held_mutation).
LEMMA BeginAccepts ==
    ASSUME IInv, NEW label \in Labels, NEW relation \in Relations,
           NEW table \in Tables, Begin(label, relation, table)
    PROVE  Promise!StoreNext
<1> DEFINE n == Len(pending) + 1
           m == [id |-> n, relation |-> relation, table |-> table]
<1>1. Begun(relation, table) \in Mutation /\ ~Begun(relation, table).settled
  BY DEF Begun, Mutation
<1>2. pending' = Append(pending, Begun(relation, table))
  BY DEF Begin
<1>3. /\ n \notin DOMAIN pending
      /\ \A i \in DOMAIN pending : pending'[i] = pending[i]
      /\ pending'[n] = Begun(relation, table)
      /\ Unsettled' = Unsettled \cup {n}
  BY <1>1, <1>2, AppendedUnsettled DEF IInv
<1>4. n \in Nat
  BY DEF IInv, TypeOK
<1> HIDE DEF n
<1>5. OpenMutations' = OpenMutations \cup {m}
  <2>1. OpenMutations' =
          {[id |-> i, relation |-> pending'[i].relation,
            table |-> pending'[i].replacement] : i \in Unsettled \cup {n}}
    BY <1>3 DEF OpenMutations
  <2>2. /\ pending'[n].relation = relation
        /\ pending'[n].replacement = table
        /\ \A i \in Unsettled : pending'[i] = pending[i]
    BY <1>3 DEF Begun, Unsettled
  <2> QED
    BY <2>1, <2>2 DEF OpenMutations
<1>6. m \notin OpenMutations
  BY <1>3 DEF OpenMutations, Unsettled
<1>7. m \in Promise!Accepted
  BY <1>4 DEF Promise!Accepted
<1>8. UNCHANGED <<state, ~quiescing, Captured, final>>
  BY DEF Begin, Captured
<1>9. ~quiescing
  BY DEF Begin, Admits
<1>10. Promise!Accept(m)
  BY <1>5, <1>7, <1>8, <1>9 DEF Promise!Accept
<1>11. m \in OpenMutations' \ OpenMutations
  BY <1>5, <1>6
<1> QED
  BY <1>10, <1>11 DEF Promise!StoreNext

\* Settling commits or rolls back what was accepted (settle_held_mutation).
LEMMA SettleResolves ==
    ASSUME IInv, NEW label \in Labels, NEW commit \in BOOLEAN,
           Settle(label, commit)
    PROVE  Promise!StoreNext
<1> DEFINE n == held[label]
           m == [id |-> n, relation |-> pending[n].relation,
                 table |-> pending[n].replacement]
<1>1. n \in Unsettled /\ n \in DOMAIN pending /\ Settled(n, commit)
  BY DEF Settle, IInv, HeldAreUnsettled, Unsettled
<1>2. /\ \A j \in DOMAIN pending : j # n => pending'[j] = pending[j]
      /\ Unsettled' = Unsettled \ {n}
  BY <1>1, SettledPending DEF IInv
<1>3. state' = IF commit THEN [state EXCEPT ![m.relation] = m.table] ELSE state
  BY <1>1 DEF Settled
<1>4. OpenMutations' = OpenMutations \ {m}
  <2>1. OpenMutations' =
          {[id |-> i, relation |-> pending'[i].relation,
            table |-> pending'[i].replacement] : i \in Unsettled \ {n}}
    BY <1>2 DEF OpenMutations
  <2>2. \A i \in Unsettled \ {n} : pending'[i] = pending[i]
    BY <1>2 DEF Unsettled
  <2> QED
    BY <2>1, <2>2 DEF OpenMutations
<1>5. m \in OpenMutations
  BY <1>1 DEF OpenMutations
<1>6. UNCHANGED <<~quiescing, Captured, final>>
  BY DEF Settle, Captured
<1> HIDE DEF m
<1>7. CASE commit
  BY <1>3, <1>4, <1>5, <1>6, <1>7 DEF Promise!Commit, Promise!StoreNext
<1>8. CASE ~commit
  BY <1>3, <1>4, <1>5, <1>6, <1>8 DEF Promise!RollBack, Promise!StoreNext
<1> QED
  BY <1>7, <1>8

\* Refinement: every operation of the in-memory resource is a step of the
\* store it promises, or is invisible there (drift, release, a lost label).
THEOREM StoreImplemented == Spec => ImplementsStore
<1>1. Init => Promise!StoreInit
  BY BaselineAssumption
     DEF Init, Promise!StoreInit, Promise!Stores, Stores, Tables,
         OpenMutations, Unsettled, Captured, Range
<1>2. IInv /\ [Next]_vars => [Promise!StoreNext]_(Promise!storeVars)
  <2> SUFFICES ASSUME IInv, [Next]_vars
               PROVE  [Promise!StoreNext]_(Promise!storeVars)
    OBVIOUS
  <2>a. ASSUME UNCHANGED <<pending>>
        PROVE  OpenMutations' = OpenMutations
    BY <2>a DEF OpenMutations, Unsettled
  <2>b. ASSUME UNCHANGED <<snapshots>>
        PROVE  Captured' = Captured
    BY <2>b DEF Captured
  <2>1. ASSUME NEW label \in Labels, NEW relation \in Relations,
               NEW table \in Tables, Begin(label, relation, table)
        PROVE  Promise!StoreNext
    BY <2>1, BeginAccepts
  <2>2. ASSUME NEW label \in Labels, NEW commit \in BOOLEAN,
               Settle(label, commit)
        PROVE  Promise!StoreNext
    BY <2>2, SettleResolves
  <2>3. ASSUME NEW label \in Labels, SettleRefused(label)
        PROVE  UNCHANGED Promise!storeVars
    BY <2>3, <2>a, <2>b DEF SettleRefused, Promise!storeVars
  <2>4. ASSUME NEW relation \in Relations, NEW table \in Tables,
               ReplaceRelation(relation, table)
        PROVE  Promise!StoreNext
    <3> DEFINE m == [Begun(relation, table) EXCEPT !.settled = TRUE,
                                                   !.committed = TRUE]
    <3>1. m \in Mutation /\ m.settled
      BY DEF Begun, Mutation
    <3>2. pending' = Append(pending, m)
      BY <2>4 DEF ReplaceRelation
    <3> HIDE DEF m
    <3>3. /\ \A i \in DOMAIN pending : pending'[i] = pending[i]
          /\ Unsettled' = Unsettled
      BY <3>1, <3>2, AppendedUnsettled DEF IInv
    <3>4. OpenMutations' = OpenMutations
      BY <3>3 DEF OpenMutations, Unsettled
    <3>5. state' \in Promise!Stores
      BY <2>4 DEF ReplaceRelation, IInv, TypeOK, Stores, Promise!Stores
    <3>6. ~quiescing /\ UNCHANGED <<~quiescing, Captured, final>>
      BY <2>4, <2>b DEF ReplaceRelation, Admits
    <3> QED
      BY <3>4, <3>5, <3>6 DEF Promise!Write, Promise!StoreNext
  <2>5. ASSUME NEW s \in Stores, ReplaceAtomically(s)
        PROVE  Promise!StoreNext
    BY <2>5, <2>a, <2>b
       DEF ReplaceAtomically, Admits, Promise!Write, Promise!StoreNext,
           Promise!Stores, Stores
  <2>6. CASE EnterQuiescing
    BY <2>6, <2>a, <2>b DEF EnterQuiescing, Promise!Close, Promise!StoreNext
  <2>7. CASE FinalProjection
    <3>1. OpenMutations = {}
      BY <2>7 DEF FinalProjection, OpenMutations
    <3> QED
      BY <2>7, <2>a, <2>b, <3>1
         DEF FinalProjection, Promise!Observe, Promise!StoreNext
  <2>8. CASE TakeSnapshot
    <3> DEFINE taken == [own |-> TRUE, state |-> state]
    <3>1. taken \in Snapshot /\ snapshots \in Seq(Snapshot)
      BY DEF IInv, TypeOK, Snapshot
    <3>2. Range(snapshots') = Range(snapshots) \cup {taken}
      <4>1. snapshots' = Append(snapshots, taken)
        BY <2>8 DEF TakeSnapshot
      <4> HIDE DEF taken
      <4>2. /\ DOMAIN snapshots' = DOMAIN snapshots \cup {Len(snapshots) + 1}
            /\ snapshots'[Len(snapshots) + 1] = taken
            /\ \A i \in DOMAIN snapshots : snapshots'[i] = snapshots[i]
        BY <3>1, <4>1
      <4> QED
        BY <4>2 DEF Range
    <3>3. Captured' = Captured \cup {state}
      <4>1. taken.state = state
        OBVIOUS
      <4> HIDE DEF taken
      <4> QED
        BY <3>2, <4>1 DEF Captured
    <3> QED
      BY <2>8, <2>a, <3>3 DEF TakeSnapshot, Promise!Capture, Promise!StoreNext
  <2>9. CASE Reset
    <3>1. state' \in Captured
      BY <2>9 DEF Reset, Captured
    <3> QED
      BY <2>9, <2>a, <2>b, <3>1 DEF Reset, Promise!Reestablish, Promise!StoreNext
  <2>10. ASSUME NEW snapshot \in Presented, Restore(snapshot)
         PROVE  Promise!StoreNext
    <3>1. state' \in Captured
      BY <2>10 DEF Restore, Presented, Captured
    <3> QED
      BY <2>10, <2>a, <2>b, <3>1
         DEF Restore, Promise!Reestablish, Promise!StoreNext
  <2>11. ASSUME NEW valid \in BOOLEAN, SetBindingValid(valid)
         PROVE  UNCHANGED Promise!storeVars
    BY <2>11, <2>a, <2>b DEF SetBindingValid, Promise!storeVars
  <2>12. ASSUME NEW same \in BOOLEAN, SetExecutionInput(same)
         PROVE  UNCHANGED Promise!storeVars
    BY <2>12, <2>a, <2>b DEF SetExecutionInput, Promise!storeVars
  <2>13. CASE Release
    BY <2>13, <2>a, <2>b DEF Release, Promise!storeVars
  <2>14. CASE UNCHANGED vars
    BY <2>14, <2>a, <2>b DEF vars, Promise!storeVars
  <2> QED
    BY <2>1, <2>2, <2>3, <2>4, <2>5, <2>6, <2>7, <2>8, <2>9, <2>10, <2>11,
       <2>12, <2>13, <2>14 DEF Next
<1> QED
  BY <1>1, <1>2, InitInv, NextInv, PTL
     DEF Spec, ImplementsStore, Promise!StoreSpec

-----------------------------------------------------------------------------

(***************************************************************************)
(* PostgreSQLResource: what a step does to the transactions.               *)
(***************************************************************************)

\* A transaction holds what its statements under way and done can hold.
TransactionShape ==
    \A x \in Transactions :
        /\ ~txs[x].active => txs[x] = Closed
        /\ \A row \in txs[x].seen : row \in rows /\ row.relation \in txs[x].on
        /\ \A row \in txs[x].deleted :
              row \in rows /\ row.relation \in txs[x].on \cup txs[x].done

\* A row lock has one owner.
LocksApart ==
    \A x, y \in Transactions :
        x # y => txs[x].deleted \cap txs[y].deleted = {}

Physical == DatabaseTypeOK /\ TransactionShape /\ LocksApart

\* A closed connection is a transaction record like any other.
LEMMA ClosedType == Closed \in Transaction
  BY BaselineAssumption DEF Closed, Transaction

\* A step that writes one transaction keeps the shape of all, if it keeps that
\* one's.
LEMMA ShapeOfOthers ==
    ASSUME Physical, NEW x \in Transactions, rows' = rows,
           \A y \in Transactions \ {x} : txs'[y] = txs[y],
           ~txs'[x].active => txs'[x] = Closed,
           \A row \in txs'[x].seen : row \in rows /\ row.relation \in txs'[x].on,
           \A row \in txs'[x].deleted :
              row \in rows /\ row.relation \in txs'[x].on \cup txs'[x].done
    PROVE  TransactionShape'
<1> SUFFICES ASSUME NEW y \in Transactions
             PROVE  /\ ~txs'[y].active => txs'[y] = Closed
                    /\ \A row \in txs'[y].seen :
                          row \in rows' /\ row.relation \in txs'[y].on
                    /\ \A row \in txs'[y].deleted :
                          /\ row \in rows'
                          /\ row.relation \in txs'[y].on \cup txs'[y].done
  BY DEF TransactionShape
<1>1. CASE y = x
  BY <1>1
<1>2. CASE y # x
  <2>1. txs'[y] = txs[y]
    BY <1>2
  <2> QED
    BY <2>1 DEF Physical, TransactionShape
<1> QED
  BY <1>1, <1>2

\* A rollback closes one transaction and touches neither the rows nor another
\* transaction (connection.rollback).
LEMMA RolledBackTx ==
    ASSUME Physical, NEW x \in Transactions, RolledBack(x)
    PROVE  /\ rows' = rows
           /\ txs' \in [Transactions -> Transaction]
           /\ txs'[x] = Closed
           /\ \A y \in Transactions \ {x} : txs'[y] = txs[y]
           /\ TransactionShape' /\ LocksApart'
<1>1. txs \in [Transactions -> Transaction]
  BY DEF Physical, DatabaseTypeOK
<1>2. /\ rows' = rows
      /\ txs' \in [Transactions -> Transaction]
      /\ txs'[x] = Closed
      /\ \A y \in Transactions \ {x} : txs'[y] = txs[y]
  BY <1>1, ClosedType DEF RolledBack
<1>3. Closed.seen = {} /\ Closed.deleted = {}
  BY DEF Closed
<1>4. TransactionShape'
  BY <1>2, <1>3, ShapeOfOthers
<1>5. LocksApart'
  BY <1>2, <1>3 DEF Physical, LocksApart
<1> QED
  BY <1>2, <1>4, <1>5

\* Opening a transaction touches no other (psycopg.connect in begin_held_mutation,
\* _replace_relations and the writer thread).
LEMMA OpenedTx ==
    ASSUME Physical, NEW x \in Transactions, NEW over \in SUBSET Relations,
           NEW image \in Stores, UNCHANGED rows,
           txs' = [txs EXCEPT ![x] = Opened(over, image)]
    PROVE  /\ txs' \in [Transactions -> Transaction]
           /\ txs'[x] = Opened(over, image)
           /\ \A y \in Transactions \ {x} : txs'[y] = txs[y]
           /\ TransactionShape' /\ LocksApart'
<1>1. txs \in [Transactions -> Transaction]
  BY DEF Physical, DatabaseTypeOK
<1> DEFINE t == Opened(over, image)
<1>2. t \in Transaction /\ t.active /\ t.seen = {} /\ t.deleted = {}
  <2>1. t.active /\ t.seen = {} /\ t.deleted = {}
    BY DEF Opened, Closed
  <2> QED
    BY <2>1, BaselineAssumption DEF Opened, Closed, Transaction
<1>3. /\ txs' \in [Transactions -> Transaction]
      /\ txs'[x] = t
      /\ \A y \in Transactions \ {x} : txs'[y] = txs[y]
  BY <1>1, <1>2
<1> HIDE DEF t
<1>4. TransactionShape'
  <2>1. /\ txs'[x].active
        /\ \A row \in txs'[x].seen : row \in rows /\ row.relation \in txs'[x].on
        /\ \A row \in txs'[x].deleted :
              row \in rows /\ row.relation \in txs'[x].on \cup txs'[x].done
    BY <1>2, <1>3
  <2>2. rows' = rows
    OBVIOUS
  <2> QED
    BY <1>3, <2>1, <2>2, ShapeOfOthers
<1>5. LocksApart'
  BY <1>2, <1>3 DEF Physical, LocksApart
<1> QED
  BY <1>3, <1>4, <1>5 DEF t

\* A commit closes its transaction; the others keep what they have deleted, and
\* lose from what they wait for the rows that are gone (connection.commit).
LEMMA CommittedTx ==
    ASSUME Physical, NEW x \in Transactions, Committed(x)
    PROVE  /\ rows' \subseteq Row
           /\ txs' \in [Transactions -> Transaction]
           /\ txs'[x] = Closed
           /\ \A y \in Transactions \ {x} :
                 /\ txs'[y].active = txs[y].active
                 /\ txs'[y].image = txs[y].image
                 /\ txs'[y].left = txs[y].left
                 /\ txs'[y].on = txs[y].on
                 /\ txs'[y].done = txs[y].done
                 /\ txs'[y].seen = txs[y].seen \ txs[x].deleted
                 /\ txs'[y].deleted = txs[y].deleted
           /\ TransactionShape' /\ LocksApart'
<1>1. txs \in [Transactions -> Transaction]
  BY DEF Physical, DatabaseTypeOK
<1>2. rows' \subseteq Row
  BY DEF Committed, Physical, DatabaseTypeOK, RowsOf
<1>3. txs' \in [Transactions -> Transaction] /\ txs'[x] = Closed
  BY <1>1, ClosedType DEF Committed, Transaction
<1>4. ASSUME NEW y \in Transactions \ {x}
      PROVE  /\ txs'[y].active = txs[y].active
             /\ txs'[y].image = txs[y].image
             /\ txs'[y].left = txs[y].left
             /\ txs'[y].on = txs[y].on
             /\ txs'[y].done = txs[y].done
             /\ txs'[y].seen = txs[y].seen \ txs[x].deleted
             /\ txs'[y].deleted = txs[y].deleted
             /\ ~txs[y].active => txs'[y] = Closed
  <2>1. txs[y] \in Transaction
    BY <1>1
  <2>2. txs'[y] = [txs[y] EXCEPT !.seen = @ \ txs[x].deleted]
    BY DEF Committed
  <2>3. ~txs[y].active => txs[y] = Closed
    BY DEF Physical, TransactionShape
  <2>4. Closed.seen \ txs[x].deleted = Closed.seen
    BY DEF Closed
  <2>5. txs[y] = Closed => txs'[y] = Closed
    BY <2>1, <2>2, <2>4 DEF Transaction
  <2> QED
    BY <2>1, <2>2, <2>3, <2>5 DEF Transaction
<1>5. Closed.seen = {} /\ Closed.deleted = {}
  BY DEF Closed
<1>6. \A row \in rows : row \notin txs[x].deleted => row \in rows'
  BY DEF Committed
<1>7. TransactionShape'
  <2> SUFFICES ASSUME NEW y \in Transactions
               PROVE  /\ ~txs'[y].active => txs'[y] = Closed
                      /\ \A row \in txs'[y].seen :
                            row \in rows' /\ row.relation \in txs'[y].on
                      /\ \A row \in txs'[y].deleted :
                            /\ row \in rows'
                            /\ row.relation \in txs'[y].on \cup txs'[y].done
    BY DEF TransactionShape
  <2>1. CASE y = x
    BY <1>3, <1>5, <2>1
  <2>2. CASE y # x
    BY <1>4, <1>6, <2>2 DEF Physical, TransactionShape, LocksApart
  <2> QED
    BY <2>1, <2>2
<1>8. LocksApart'
  BY <1>3, <1>4, <1>5 DEF Physical, LocksApart
<1> QED
  BY <1>2, <1>3, <1>4, <1>7, <1>8

\* The snapshot of a DELETE is every committed row of its relation.
LEMMA DeleteBeginsTx ==
    ASSUME Physical, NEW x \in Transactions, NEW relation \in Relations,
           DeleteBegins(x, relation)
    PROVE  /\ txs' \in [Transactions -> Transaction]
           /\ \A y \in Transactions \ {x} : txs'[y] = txs[y]
           /\ txs'[x].active = txs[x].active
           /\ txs'[x].image = txs[x].image
           /\ txs'[x].left = txs[x].left \ {relation}
           /\ txs'[x].on = {relation}
           /\ txs'[x].done = txs[x].done
           /\ txs'[x].seen = {row \in rows : row.relation = relation}
           /\ txs'[x].deleted = txs[x].deleted
           /\ TransactionShape' /\ LocksApart'
<1>1. txs \in [Transactions -> Transaction] /\ txs[x] \in Transaction
  BY DEF Physical, DatabaseTypeOK
<1> DEFINE t == [txs[x] EXCEPT !.left = @ \ {relation}, !.on = {relation},
                         !.seen = {row \in rows : row.relation = relation}]
<1>2. txs' = [txs EXCEPT ![x] = t]
  BY <1>1 DEF DeleteBegins
<1>3. /\ t \in Transaction
      /\ t.active = txs[x].active
      /\ t.image = txs[x].image
      /\ t.left = txs[x].left \ {relation}
      /\ t.on = {relation}
      /\ t.done = txs[x].done
      /\ t.seen = {row \in rows : row.relation = relation}
      /\ t.deleted = txs[x].deleted
  BY <1>1 DEF Transaction, Physical, DatabaseTypeOK
<1> HIDE DEF t
<1>4. /\ txs' \in [Transactions -> Transaction]
      /\ txs'[x] = t
      /\ \A y \in Transactions \ {x} : txs'[y] = txs[y]
  BY <1>1, <1>2, <1>3
<1>5. txs[x].active /\ rows' = rows /\ txs[x].on = {}
  BY DEF DeleteBegins
<1>6. TransactionShape'
  <2>1. \A row \in t.seen : row \in rows /\ row.relation \in t.on
    BY <1>3
  <2>2. \A row \in txs[x].deleted : row \in rows /\ row.relation \in txs[x].done
    BY <1>5 DEF Physical, TransactionShape
  <2>3. \A row \in t.deleted : row \in rows /\ row.relation \in t.on \cup t.done
    BY <1>3, <2>2
  <2>4. t.active
    BY <1>3, <1>5
  <2> QED
    BY <1>4, <1>5, <2>1, <2>3, <2>4, ShapeOfOthers
<1>7. LocksApart'
  BY <1>3, <1>4 DEF LocksApart, Physical
<1> QED
  BY <1>3, <1>4, <1>6, <1>7

\* Deleting a row takes its lock, which nobody else holds.
LEMMA DeleteRowTx ==
    ASSUME Physical, NEW x \in Transactions, NEW row \in txs[x].seen,
           DeleteRow(x, row)
    PROVE  /\ txs' \in [Transactions -> Transaction]
           /\ \A y \in Transactions \ {x} : txs'[y] = txs[y]
           /\ txs'[x].active = txs[x].active
           /\ txs'[x].image = txs[x].image
           /\ txs'[x].left = txs[x].left
           /\ txs'[x].on = txs[x].on
           /\ txs'[x].done = txs[x].done
           /\ txs'[x].seen = txs[x].seen \ {row}
           /\ txs'[x].deleted = txs[x].deleted \cup {row}
           /\ TransactionShape' /\ LocksApart'
<1>1. txs \in [Transactions -> Transaction] /\ txs[x] \in Transaction
  BY DEF Physical, DatabaseTypeOK
<1> DEFINE t == [txs[x] EXCEPT !.seen = @ \ {row}, !.deleted = @ \cup {row}]
<1>2. txs' = [txs EXCEPT ![x] = t]
  BY <1>1 DEF DeleteRow
<1>3. /\ t \in Transaction
      /\ t.active = txs[x].active
      /\ t.image = txs[x].image
      /\ t.left = txs[x].left
      /\ t.on = txs[x].on
      /\ t.done = txs[x].done
      /\ t.seen = txs[x].seen \ {row}
      /\ t.deleted = txs[x].deleted \cup {row}
  BY <1>1 DEF Transaction
<1> HIDE DEF t
<1>4. /\ txs' \in [Transactions -> Transaction]
      /\ txs'[x] = t
      /\ \A y \in Transactions \ {x} : txs'[y] = txs[y]
  BY <1>1, <1>2, <1>3
<1>5. rows' = rows /\ \A y \in Transactions \ {x} : row \notin txs[y].deleted
  BY DEF DeleteRow
<1>6. txs[x].active
  <2>1. Closed.seen = {}
    BY DEF Closed
  <2> QED
    BY <2>1 DEF TransactionShape, Physical
<1>7. row \in rows /\ row.relation \in txs[x].on
  BY DEF TransactionShape, Physical
<1>8. TransactionShape'
  <2>1. /\ \A r \in txs[x].seen : r \in rows /\ r.relation \in txs[x].on
        /\ \A r \in txs[x].deleted :
              r \in rows /\ r.relation \in txs[x].on \cup txs[x].done
    BY DEF Physical, TransactionShape
  <2>2. /\ t.active
        /\ \A r \in t.seen : r \in rows /\ r.relation \in t.on
        /\ \A r \in t.deleted : r \in rows /\ r.relation \in t.on \cup t.done
    BY <1>3, <1>6, <1>7, <2>1
  <2> QED
    BY <1>4, <1>5, <2>2, ShapeOfOthers
<1>9. LocksApart'
  BY <1>3, <1>4, <1>5 DEF LocksApart, Physical
<1> QED
  BY <1>3, <1>4, <1>8, <1>9

\* An INSERT follows when no row is left to delete.
LEMMA InsertRowsTx ==
    ASSUME Physical, NEW x \in Transactions, InsertRows(x)
    PROVE  /\ txs' \in [Transactions -> Transaction]
           /\ \A y \in Transactions \ {x} : txs'[y] = txs[y]
           /\ txs'[x].active = txs[x].active
           /\ txs'[x].image = txs[x].image
           /\ txs'[x].left = txs[x].left
           /\ txs'[x].on = {}
           /\ txs'[x].done = txs[x].done \cup txs[x].on
           /\ txs'[x].seen = txs[x].seen
           /\ txs'[x].deleted = txs[x].deleted
           /\ TransactionShape' /\ LocksApart'
<1>1. txs \in [Transactions -> Transaction] /\ txs[x] \in Transaction
  BY DEF Physical, DatabaseTypeOK
<1> DEFINE t == [txs[x] EXCEPT !.on = {}, !.done = @ \cup txs[x].on]
<1>2. txs' = [txs EXCEPT ![x] = t]
  BY <1>1 DEF InsertRows
<1>3. /\ t \in Transaction
      /\ t.active = txs[x].active
      /\ t.image = txs[x].image
      /\ t.left = txs[x].left
      /\ t.on = {}
      /\ t.done = txs[x].done \cup txs[x].on
      /\ t.seen = txs[x].seen
      /\ t.deleted = txs[x].deleted
  BY <1>1 DEF Transaction
<1> HIDE DEF t
<1>4. /\ txs' \in [Transactions -> Transaction]
      /\ txs'[x] = t
      /\ \A y \in Transactions \ {x} : txs'[y] = txs[y]
  BY <1>1, <1>2, <1>3
<1>5. rows' = rows /\ txs[x].seen = {} /\ txs[x].on # {}
  BY DEF InsertRows
<1>6. txs[x].active
  <2>1. Closed.on = {}
    BY DEF Closed
  <2> QED
    BY <1>5, <2>1 DEF TransactionShape, Physical
<1>7. TransactionShape'
  <2>1. \A row \in txs[x].deleted :
           row \in rows /\ row.relation \in txs[x].on \cup txs[x].done
    BY DEF Physical, TransactionShape
  <2>2. /\ t.active
        /\ t.seen = {}
        /\ \A row \in t.deleted : row \in rows /\ row.relation \in t.on \cup t.done
    BY <1>3, <1>5, <1>6, <2>1
  <2> QED
    BY <1>4, <1>5, <2>2, ShapeOfOthers
<1>8. LocksApart'
  BY <1>3, <1>4, <1>5 DEF LocksApart, Physical
<1> QED
  BY <1>3, <1>4, <1>7, <1>8

\* The transaction has deleted every row there is in the relations it has
\* come to, or still has it to lock.
Whole(x) ==
    \A row \in rows :
        row.relation \in txs[x].on \cup txs[x].done
            => row \in txs[x].seen \cup txs[x].deleted

\* The committed rows of one key.
Here(relation, key) ==
    {row \in rows : row.relation = relation /\ row.key = key}

\* What is read from the tables is a state of the Manifest (_read_full_state).
LEMMA LogicalType == DatabaseTypeOK => Logical \in Stores
<1> SUFFICES ASSUME DatabaseTypeOK, NEW relation \in Relations, NEW key \in Keys
             PROVE  Logical[relation][key] \in Values \cup {NoRow}
  BY DEF Logical, Stores, Tables
<1>1. CASE Here(relation, key) = {}
  BY <1>1 DEF Logical, Here
<1>2. CASE Here(relation, key) # {}
  <2>1. (CHOOSE row \in Here(relation, key) : TRUE) \in Here(relation, key)
    BY <1>2
  <2>2. (CHOOSE row \in Here(relation, key) : TRUE).value \in Values
    BY <2>1 DEF Here, DatabaseTypeOK, Row
  <2> QED
    BY <1>2, <2>2 DEF Logical, Here
<1> QED
  BY <1>1, <1>2

\* The commit of a transaction that has deleted every row of its relations
\* replaces exactly these relations by its candidate, and leaves no key twice.
LEMMA CommitReplaces ==
    ASSUME Physical, NEW x \in Transactions, Written(x), Whole(x), Committed(x)
    PROVE  /\ \A relation \in Relations :
                 Logical'[relation] = IF relation \in txs[x].done
                                      THEN txs[x].image[relation]
                                      ELSE Logical[relation]
           /\ Legible => Legible'
<1> DEFINE done == txs[x].done
           image == txs[x].image
<1>1. image \in Stores /\ done \subseteq Relations /\ rows \subseteq Row
  BY DEF Physical, DatabaseTypeOK, Transaction
<1>2. txs[x].on = {} /\ txs[x].seen = {}
  BY DEF Written, Physical, TransactionShape
<1>3. \A row \in rows : row.relation \in done <=> row \in txs[x].deleted
  BY <1>2 DEF Whole, Physical, TransactionShape
<1>4. rows' = {row \in rows : row.relation \notin done} \cup RowsOf(image, done, x)
  BY <1>3 DEF Committed
<1> HIDE DEF done, image
<1>5. ASSUME NEW relation \in Relations, NEW key \in Keys
      PROVE  /\ relation \notin done => Here(relation, key)' = Here(relation, key)
             /\ (relation \in done /\ image[relation][key] = NoRow)
                   => Here(relation, key)' = {}
             /\ (relation \in done /\ image[relation][key] # NoRow)
                   => Here(relation, key)' =
                        {[relation |-> relation, key |-> key,
                          value |-> image[relation][key], by |-> x]}
  <2>1. Here(relation, key)' =
          {row \in Here(relation, key) : relation \notin done} \cup
          {row \in RowsOf(image, done, x) : row.relation = relation /\ row.key = key}
    BY <1>4 DEF Here
  <2>2. {row \in RowsOf(image, done, x) : row.relation = relation /\ row.key = key}
          = {row \in Row : /\ row.by = x /\ relation \in done
                           /\ row.relation = relation /\ row.key = key
                           /\ image[relation][key] = row.value}
    BY DEF RowsOf
  <2>3. image[relation][key] \in Values \cup {NoRow}
    BY <1>1 DEF Stores, Tables
  <2>4. CASE relation \notin done
    BY <2>1, <2>2, <2>4
  <2>5. CASE relation \in done /\ image[relation][key] = NoRow
    <3>1. \A row \in Row : row.value # NoRow
      BY NoRowAssumption DEF Row
    <3> QED
      BY <2>1, <2>2, <2>5, <3>1
  <2>6. CASE relation \in done /\ image[relation][key] # NoRow
    <3> DEFINE one == [relation |-> relation, key |-> key,
                       value |-> image[relation][key], by |-> x]
    <3>1. one \in Row
      BY <2>3, <2>6 DEF Row
    <3>2. \A row \in Row : (/\ row.by = x /\ row.relation = relation
                             /\ row.key = key
                             /\ image[relation][key] = row.value) <=> row = one
      BY DEF Row
    <3>3. Here(relation, key)' = {row \in Row : row = one}
      BY <2>1, <2>2, <2>6, <3>2
    <3> QED
      BY <2>6, <3>1, <3>3
  <2> QED
    BY <2>4, <2>5, <2>6
<1>6. ASSUME NEW relation \in Relations
      PROVE  Logical'[relation] = IF relation \in done THEN image[relation]
                                  ELSE Logical[relation]
  <2>1. Logical[relation] = [key \in Keys |->
           IF Here(relation, key) = {} THEN NoRow
           ELSE (CHOOSE row \in Here(relation, key) : TRUE).value]
    BY DEF Logical, Here
  <2>2. Logical'[relation] = [key \in Keys |->
           IF Here(relation, key)' = {} THEN NoRow
           ELSE (CHOOSE row \in Here(relation, key)' : TRUE).value]
    BY DEF Logical, Here
  <2>3. CASE relation \notin done
    BY <1>5, <2>1, <2>2, <2>3
  <2>4. CASE relation \in done
    <3>1. ASSUME NEW key \in Keys
          PROVE  Logical'[relation][key] = image[relation][key]
      <4>1. CASE image[relation][key] = NoRow
        BY <1>5, <2>2, <2>4, <4>1
      <4>2. CASE image[relation][key] # NoRow
        <5> DEFINE one == [relation |-> relation, key |-> key,
                           value |-> image[relation][key], by |-> x]
        <5>1. Here(relation, key)' = {one}
          BY <1>5, <2>4, <4>2
        <5>2. (CHOOSE row \in {one} : TRUE) = one
          OBVIOUS
        <5>3. one.value = image[relation][key]
          OBVIOUS
        <5> HIDE DEF one
        <5> QED
          BY <2>2, <5>1, <5>2, <5>3
      <4> QED
        BY <4>1, <4>2
    <3>2. image[relation] = [key \in Keys |-> image[relation][key]]
      BY <1>1 DEF Stores, Tables
    <3>3. Logical'[relation] = [key \in Keys |-> Logical'[relation][key]]
      BY <2>2
    <3> QED
      BY <2>4, <3>1, <3>2, <3>3
  <2> QED
    BY <2>3, <2>4
<1>7. Legible => Legible'
  <2> SUFFICES ASSUME Legible, NEW p \in rows', NEW q \in rows',
                      p.relation = q.relation, p.key = q.key
               PROVE  p = q
    BY DEF Legible
  <2>1. p \in Row /\ q \in Row
    BY <1>1, <1>4 DEF RowsOf
  <2>2. CASE p.relation \notin done
    BY <1>4, <2>2 DEF Legible, RowsOf
  <2>3. CASE p.relation \in done
    <3>1. p \in RowsOf(image, done, x) /\ q \in RowsOf(image, done, x)
      BY <1>4, <2>3
    <3>2. p.by = q.by /\ p.value = q.value
      BY <3>1 DEF RowsOf
    <3> QED
      BY <2>1, <3>2 DEF Row
  <2> QED
    BY <2>2, <2>3
<1> QED
  BY <1>6, <1>7 DEF done, image

\* A writer thread has outlived its call; a held mutation has deleted nothing.
Overdue == "overdue" \in slips
Bare == "bare" \in slips

\* A held mutation writes one relation, and once its label is out it has
\* written it, and holds a row lock.
HeldShape ==
    /\ \A label \in Labels :
          txs[label].active =>
              \E relation \in Relations :
                 txs[label].left \cup txs[label].on \cup txs[label].done = {relation}
    /\ \A label \in labels :
          txs[label].active => /\ Written(label)
                               /\ ~Bare => txs[label].deleted # {}

\* Apart from what labels hold, one transaction is under way: the one the
\* controlling thread is in, or is waiting for.
OneAtATime ==
    /\ \A label \in Labels :
          txs[label].active /\ label \notin labels => control = Calling("writing", label)
    /\ txs[Control].active => control = Calling("writing", Control)
    /\ ~Overdue => \A w \in Writers :
          txs[w].active => control \in {Calling("awaiting", w), Calling("joining", w)}
    /\ control.at = "writing" => control.tx \in (Labels \ labels) \cup {Control}
    /\ control.at \in {"awaiting", "joining"} => control.tx \in Writers

\* What is under way behind the barrier goes back to a captured state.
Admitted ==
    /\ (control.at \in {"writing", "awaiting", "joining"} /\ quiesced)
          => /\ control.tx = Control
             /\ txs[Control].active =>
                  /\ txs[Control].image \in CapturedImages
                  /\ txs[Control].left \cup txs[Control].on \cup txs[Control].done
                       = Relations
    /\ shown # Unobserved => quiesced /\ labels = {}

\* While no writer is overdue, nobody adds a row to a relation that another
\* transaction is writing.
WholeWrites ==
    ~Overdue => \A x \in Transactions : (x \in Labels => ~Bare) => Whole(x)

\* The inductive invariant.
DatabaseIInv ==
    /\ DatabaseTypeOK
    /\ TransactionShape
    /\ LocksApart
    /\ HeldShape
    /\ OneAtATime
    /\ Admitted
    /\ WholeWrites
    /\ RowsAreKeyed

\* The baseline has one row per key and nothing is under way (provision_database).
LEMMA DatabaseInit == Provisioned => DatabaseIInv
<1> SUFFICES ASSUME Provisioned
             PROVE  DatabaseIInv
  OBVIOUS
<1>1. /\ Closed.seen = {} /\ Closed.deleted = {} /\ ~Closed.active
      /\ Closed.on = {} /\ Closed.done = {}
  BY DEF Closed
<1>2. \A x \in Transactions : txs[x] = Closed
  BY DEF Provisioned
<1>3. DatabaseTypeOK
  BY ClosedType DEF Provisioned, DatabaseTypeOK, RowsOf, Free, Call, Transactions
<1>4. TransactionShape /\ LocksApart
  BY <1>1, <1>2 DEF TransactionShape, LocksApart
<1>5. HeldShape /\ OneAtATime
  BY <1>1, <1>2 DEF HeldShape, OneAtATime, Provisioned, Free, Transactions
<1>6. Admitted
  BY DEF Admitted, Provisioned
<1>7. WholeWrites
  BY <1>1, <1>2 DEF WholeWrites, Whole
<1>8. Legible
  BY DEF Legible, Provisioned, RowsOf, Row
<1> QED
  BY <1>3, <1>4, <1>5, <1>6, <1>7, <1>8 DEF DatabaseIInv, RowsAreKeyed

\* A statement of a transaction that is under way (_replace_relations_on_connection).
LEMMA StatementInv ==
    ASSUME DatabaseIInv, NEW x \in Transactions, x \notin labels,
           txs' \in [Transactions -> Transaction],
           \A y \in Transactions \ {x} : txs'[y] = txs[y],
           txs'[x].active = txs[x].active,
           txs'[x].image = txs[x].image,
           txs'[x].left \cup txs'[x].on \cup txs'[x].done
              = txs[x].left \cup txs[x].on \cup txs[x].done,
           \A row \in rows : row.relation \in txs'[x].on \cup txs'[x].done =>
               \/ row \in txs'[x].seen \cup txs'[x].deleted
               \/ /\ row \notin txs[x].seen \cup txs[x].deleted
                  /\ row.relation \in txs[x].on \cup txs[x].done,
           TransactionShape', LocksApart',
           UNCHANGED <<rows, labels, control, allowed, quiesced, drifted, dropped,
                       images, shown, slips>>
    PROVE  DatabaseIInv'
<1>1. DatabaseTypeOK'
  BY DEF DatabaseIInv, DatabaseTypeOK
<1>2. HeldShape'
  BY DEF DatabaseIInv, HeldShape, Written, Bare, Transactions, DatabaseTypeOK
<1>3. OneAtATime'
  BY DEF DatabaseIInv, OneAtATime, Overdue, Transactions
<1>4. Admitted'
  BY DEF DatabaseIInv, Admitted, CapturedImages, Transactions
<1>5. WholeWrites'
  BY DEF DatabaseIInv, WholeWrites, Whole, Overdue, Bare
<1>6. RowsAreKeyed'
  BY DEF DatabaseIInv, RowsAreKeyed, Legible
<1> QED
  BY <1>1, <1>2, <1>3, <1>4, <1>5, <1>6 DEF DatabaseIInv

\* A held transaction has no statement left to run.
LEMMA HeldAtRest ==
    ASSUME DatabaseIInv, NEW x \in labels
    PROVE  txs[x].left = {} /\ txs[x].on = {} /\ txs[x].seen = {}
<1>1. x \in Transactions
  BY DEF DatabaseIInv, DatabaseTypeOK, Transactions
<1>2. CASE txs[x].active
  BY <1>1, <1>2 DEF DatabaseIInv, HeldShape, Written, TransactionShape
<1>3. CASE ~txs[x].active
  BY <1>1, <1>3 DEF DatabaseIInv, TransactionShape, Closed
<1> QED
  BY <1>2, <1>3

\* Each of the three statements keeps the invariant.
LEMMA StatementsInv ==
    ASSUME DatabaseIInv, NEW x \in Transactions,
           \/ \E relation \in Relations : DeleteBegins(x, relation)
           \/ \E row \in txs[x].seen : DeleteRow(x, row)
           \/ InsertRows(x)
    PROVE  DatabaseIInv' /\ x \notin labels
<1>p. Physical
  BY DEF DatabaseIInv, Physical
<1>1. ASSUME NEW relation \in Relations, DeleteBegins(x, relation)
      PROVE  DatabaseIInv' /\ x \notin labels
  <2>1. x \notin labels
    BY <1>1, HeldAtRest DEF DeleteBegins
  <2>2. UNCHANGED <<rows, labels, control, allowed, quiesced, drifted, dropped,
                    images, shown, slips>>
    BY <1>1 DEF DeleteBegins
  <2>3. /\ relation \in txs[x].left
        /\ txs[x].on = {}
        /\ txs[x].seen = {}
    BY <1>1 DEF DeleteBegins, DatabaseIInv, TransactionShape
  <2>4. /\ txs' \in [Transactions -> Transaction]
        /\ \A y \in Transactions \ {x} : txs'[y] = txs[y]
        /\ txs'[x].active = txs[x].active
        /\ txs'[x].image = txs[x].image
        /\ txs'[x].left = txs[x].left \ {relation}
        /\ txs'[x].on = {relation}
        /\ txs'[x].done = txs[x].done
        /\ txs'[x].seen = {row \in rows : row.relation = relation}
        /\ txs'[x].deleted = txs[x].deleted
        /\ TransactionShape' /\ LocksApart'
    BY <1>p, <1>1, DeleteBeginsTx
  <2>5. txs'[x].left \cup txs'[x].on \cup txs'[x].done
              = txs[x].left \cup txs[x].on \cup txs[x].done
    BY <2>3, <2>4
  <2>6. \A row \in rows : row.relation \in txs'[x].on \cup txs'[x].done =>
               \/ row \in txs'[x].seen \cup txs'[x].deleted
               \/ /\ row \notin txs[x].seen \cup txs[x].deleted
                  /\ row.relation \in txs[x].on \cup txs[x].done
    BY <2>3, <2>4
  <2> QED
    BY <2>1, <2>2, <2>4, <2>5, <2>6, StatementInv
<1>2. ASSUME NEW row \in txs[x].seen, DeleteRow(x, row)
      PROVE  DatabaseIInv' /\ x \notin labels
  <2>1. x \notin labels
    BY <1>2, HeldAtRest
  <2>2. UNCHANGED <<rows, labels, control, allowed, quiesced, drifted, dropped,
                    images, shown, slips>>
    BY <1>2 DEF DeleteRow
  <2> QED
    BY <1>p, <1>2, <2>1, <2>2, DeleteRowTx, StatementInv
<1>3. ASSUME InsertRows(x)
      PROVE  DatabaseIInv' /\ x \notin labels
  <2>1. x \notin labels
    BY <1>3, HeldAtRest DEF InsertRows
  <2>2. UNCHANGED <<rows, labels, control, allowed, quiesced, drifted, dropped,
                    images, shown, slips>>
    BY <1>3 DEF InsertRows
  <2> QED
    BY <1>p, <1>3, <2>1, <2>2, InsertRowsTx, StatementInv
<1> QED
  BY <1>1, <1>2, <1>3

\* A transaction that is not under way is a closed connection.
LEMMA InactiveIsClosed ==
    ASSUME DatabaseIInv, NEW x \in Transactions, ~txs[x].active
    PROVE  /\ txs[x] = Closed
           /\ Closed.on = {} /\ Closed.left = {} /\ Closed.done = {}
           /\ Closed.seen = {} /\ Closed.deleted = {} /\ ~Closed.active
  BY DEF DatabaseIInv, TransactionShape, Closed

\* A call begins: its transaction was closed and is now opened.
LEMMA BeginsInv ==
    ASSUME DatabaseIInv, NEW at \in {"writing", "awaiting"},
           NEW x \in Transactions,
           NEW over \in SUBSET Relations, NEW image \in Stores,
           Begins(at, x, over, image), ~txs[x].active, x \notin labels,
           at = "writing" => x \in Labels \cup {Control},
           at = "awaiting" => x \in Writers,
           x \in Labels => \E relation \in Relations : over = {relation},
           quiesced => x = Control /\ image \in CapturedImages /\ over = Relations,
           allowed' \subseteq Writers,
           UNCHANGED <<rows, labels, quiesced, drifted, dropped, images, shown, slips>>
    PROVE  DatabaseIInv'
<1> DEFINE t == Opened(over, image)
<1>p. Physical
  BY DEF DatabaseIInv, Physical
<1>1. /\ t \in Transaction
      /\ t.active
      /\ t.image = image
      /\ t.left = over
      /\ t.on = {}
      /\ t.done = {}
      /\ t.seen = {}
      /\ t.deleted = {}
  <2>1. /\ t.active
        /\ t.image = image
        /\ t.left = over
        /\ t.on = {}
        /\ t.done = {}
        /\ t.seen = {}
        /\ t.deleted = {}
    BY DEF Opened, Closed
  <2> QED
    BY <2>1, BaselineAssumption DEF Opened, Closed, Transaction
<1>2. /\ txs' \in [Transactions -> Transaction]
      /\ txs'[x] = t
      /\ \A y \in Transactions \ {x} : txs'[y] = txs[y]
      /\ TransactionShape' /\ LocksApart'
  BY <1>p, OpenedTx DEF Begins
<1>3. control = Free /\ control' = Calling(at, x)
  BY DEF Begins
<1> HIDE DEF t
<1>4. DatabaseTypeOK'
  BY <1>2, <1>3 DEF DatabaseIInv, DatabaseTypeOK, Call, Calling
<1>5. HeldShape'
  BY <1>1, <1>2 DEF DatabaseIInv, HeldShape, Written, Bare, Transactions,
                    DatabaseTypeOK
<1>6. OneAtATime'
  BY <1>1, <1>2, <1>3, TransactionsAssumption
     DEF DatabaseIInv, OneAtATime, Overdue, Transactions, Calling, Free
<1>7. Admitted'
  BY <1>1, <1>2, <1>3
     DEF DatabaseIInv, Admitted, CapturedImages, Transactions, Calling
<1>8. WholeWrites'
  BY <1>1, <1>2 DEF DatabaseIInv, WholeWrites, Whole, Overdue, Bare
<1>9. RowsAreKeyed'
  BY DEF DatabaseIInv, RowsAreKeyed, Legible
<1> QED
  BY <1>2, <1>4, <1>5, <1>6, <1>7, <1>8, <1>9 DEF DatabaseIInv

\* A transaction that is under way or held is rolled back, and the call it
\* belongs to goes on or returns.
LEMMA RolledBackInv ==
    ASSUME DatabaseIInv, NEW x \in Transactions, RolledBack(x),
           control' \in {control, Free}, labels' \in {labels, labels \ {x}},
           control' = Free /\ control # Free
              => \A y \in Transactions \ {x} :
                    txs[y].active => y \in labels \/ (Overdue /\ y \in Writers),
           UNCHANGED <<allowed, quiesced, drifted, dropped, images, shown, slips>>
    PROVE  DatabaseIInv'
<1>p. Physical
  BY DEF DatabaseIInv, Physical
<1>1. /\ rows' = rows
      /\ txs' \in [Transactions -> Transaction]
      /\ txs'[x] = Closed
      /\ \A y \in Transactions \ {x} : txs'[y] = txs[y]
      /\ TransactionShape' /\ LocksApart'
  BY <1>p, RolledBackTx
<1>2. Closed.on = {} /\ Closed.done = {} /\ ~Closed.active
  BY DEF Closed
<1>3. Free \in Call
  BY DEF Free, Call, Transactions
<1>4. DatabaseTypeOK'
  BY <1>1, <1>3 DEF DatabaseIInv, DatabaseTypeOK
<1>5. HeldShape'
  BY <1>1, <1>2 DEF DatabaseIInv, HeldShape, Written, Bare, Transactions,
                    DatabaseTypeOK
<1>6. OneAtATime'
  <2>1. \A y \in Transactions : txs'[y].active => y # x /\ txs[y].active
    BY <1>1, <1>2
  <2>2. Labels \subseteq Transactions /\ Writers \subseteq Transactions
        /\ Control \in Transactions /\ Control \notin labels
        /\ \A w \in Writers : w \notin labels
    BY TransactionsAssumption DEF Transactions, DatabaseIInv, DatabaseTypeOK
  <2>3. OneAtATime /\ Overdue' = Overdue
    BY DEF DatabaseIInv, Overdue
  <2>4. CASE control' = control
    BY <2>1, <2>2, <2>3, <2>4 DEF OneAtATime
  <2>5. CASE control' = Free /\ control # Free
    <3>1. control'.at = "free"
      BY <2>5 DEF Free
    <3>2. \A y \in Transactions : txs'[y].active
             => y \in labels' \/ (Overdue /\ y \in Writers)
      BY <2>1, <2>5
    <3> QED
      BY <2>2, <2>3, <3>1, <3>2, TransactionsAssumption DEF OneAtATime
  <2> QED
    BY <2>4, <2>5
<1>7. Admitted'
  BY <1>1, <1>2
     DEF DatabaseIInv, Admitted, CapturedImages, Transactions, Free
<1>8. WholeWrites'
  BY <1>1, <1>2 DEF DatabaseIInv, WholeWrites, Whole, Overdue, Bare
<1>9. RowsAreKeyed'
  BY <1>1 DEF DatabaseIInv, RowsAreKeyed, Legible
<1> QED
  BY <1>1, <1>4, <1>5, <1>6, <1>7, <1>8, <1>9 DEF DatabaseIInv

\* A held transaction holds a row lock in the relation it has written, and so
\* has whoever else has written that relation.
LEMMA WritersApart ==
    ASSUME DatabaseIInv, ~Overdue, ~Bare, NEW x \in Transactions, Written(x),
           NEW y \in labels, y # x, txs[y].active
    PROVE  txs[x].done \cap txs[y].done = {}
<1> SUFFICES ASSUME NEW relation \in txs[x].done, relation \in txs[y].done
             PROVE  FALSE
  OBVIOUS
<1>1. y \in Labels /\ y \in Transactions
  BY DEF DatabaseIInv, DatabaseTypeOK, Transactions
<1>2. Written(y) /\ txs[y].deleted # {}
  BY DEF DatabaseIInv, HeldShape
<1>3. txs[x].seen = {} /\ txs[y].seen = {}
  BY <1>1, <1>2 DEF DatabaseIInv, TransactionShape, Written
<1>4. txs[y].done = {relation}
  BY <1>1, <1>2 DEF DatabaseIInv, HeldShape, Written
<1>5. PICK row \in txs[y].deleted : TRUE
  BY <1>2
<1>6. row \in rows /\ row.relation = relation
  BY <1>1, <1>2, <1>4, <1>5 DEF DatabaseIInv, TransactionShape, Written
<1>7. Whole(x)
  BY DEF DatabaseIInv, WholeWrites
<1>8. row \in txs[x].deleted
  BY <1>3, <1>6, <1>7 DEF Whole
<1> QED
  BY <1>1, <1>5, <1>8 DEF DatabaseIInv, LocksApart

\* A transaction that has written everything commits.
LEMMA CommittedInv ==
    ASSUME DatabaseIInv, NEW x \in Transactions, Written(x), Committed(x),
           control' \in {control, Free}, labels' \in {labels, labels \ {x}},
           \A y \in Transactions \ {x} : txs[y].active => y \in labels \/ Overdue,
           control' = Free /\ control # Free
              => \A y \in Transactions \ {x} :
                    txs[y].active => y \in labels \/ (Overdue /\ y \in Writers),
           UNCHANGED <<allowed, quiesced, drifted, dropped, images, shown, slips>>
    PROVE  DatabaseIInv'
<1>p. Physical
  BY DEF DatabaseIInv, Physical
<1>1. /\ rows' \subseteq Row
      /\ txs' \in [Transactions -> Transaction]
      /\ txs'[x] = Closed
      /\ \A y \in Transactions \ {x} :
            /\ txs'[y].active = txs[y].active
            /\ txs'[y].image = txs[y].image
            /\ txs'[y].left = txs[y].left
            /\ txs'[y].on = txs[y].on
            /\ txs'[y].done = txs[y].done
            /\ txs'[y].seen = txs[y].seen \ txs[x].deleted
            /\ txs'[y].deleted = txs[y].deleted
      /\ TransactionShape' /\ LocksApart'
  BY <1>p, CommittedTx
<1>2. Closed.on = {} /\ Closed.done = {} /\ ~Closed.active
  BY DEF Closed
<1>3. Free \in Call
  BY DEF Free, Call, Transactions
<1>4. DatabaseTypeOK'
  BY <1>1, <1>3 DEF DatabaseIInv, DatabaseTypeOK
<1>5. HeldShape'
  BY <1>1, <1>2 DEF DatabaseIInv, HeldShape, Written, Bare, Transactions,
                    DatabaseTypeOK
<1>6. OneAtATime'
  <2>1. \A y \in Transactions : txs'[y].active => y # x /\ txs[y].active
    BY <1>1, <1>2
  <2>2. Labels \subseteq Transactions /\ Writers \subseteq Transactions
        /\ Control \in Transactions /\ Control \notin labels
        /\ \A w \in Writers : w \notin labels
    BY TransactionsAssumption DEF Transactions, DatabaseIInv, DatabaseTypeOK
  <2>3. OneAtATime /\ Overdue' = Overdue
    BY DEF DatabaseIInv, Overdue
  <2>4. CASE control' = control
    BY <2>1, <2>2, <2>3, <2>4 DEF OneAtATime
  <2>5. CASE control' = Free /\ control # Free
    <3>1. control'.at = "free"
      BY <2>5 DEF Free
    <3>2. \A y \in Transactions : txs'[y].active
             => y \in labels' \/ (Overdue /\ y \in Writers)
      BY <2>1, <2>5
    <3> QED
      BY <2>2, <2>3, <3>1, <3>2, TransactionsAssumption DEF OneAtATime
  <2> QED
    BY <2>4, <2>5
<1>7. Admitted'
  BY <1>1, <1>2
     DEF DatabaseIInv, Admitted, CapturedImages, Transactions, Free
<1>8. WholeWrites'
  <2> SUFFICES ASSUME ~Overdue, NEW y \in Transactions, y \in Labels => ~Bare,
                      NEW row \in rows',
                      row.relation \in txs'[y].on \cup txs'[y].done
               PROVE  row \in txs'[y].seen \cup txs'[y].deleted
    BY DEF WholeWrites, Whole, Overdue, Bare
  <2>1. y # x
    BY <1>1, <1>2
  <2>2. txs[y].active
    BY <1>1, <1>2, <2>1 DEF DatabaseIInv, TransactionShape
  <2>3. y \in labels /\ ~Bare
    BY <2>1, <2>2 DEF DatabaseIInv, DatabaseTypeOK
  <2>4. txs[x].done \cap txs[y].done = {} /\ txs[y].on = {}
    BY <2>1, <2>2, <2>3, WritersApart, HeldAtRest
  <2>5. row \in rows \ txs[x].deleted
    BY <1>1, <2>1, <2>4 DEF Committed, RowsOf
  <2>6. Whole(y)
    BY <2>3 DEF DatabaseIInv, WholeWrites
  <2> QED
    BY <1>1, <2>1, <2>5, <2>6 DEF Whole
<1>9. RowsAreKeyed'
  <2> SUFFICES ASSUME slips = {}
               PROVE  Legible'
    BY DEF RowsAreKeyed
  <2>1. ~Overdue /\ ~Bare /\ Legible
    BY DEF Overdue, Bare, DatabaseIInv, RowsAreKeyed
  <2>2. Whole(x)
    BY <2>1 DEF DatabaseIInv, WholeWrites
  <2> QED
    BY <1>p, <2>1, <2>2, CommitReplaces
<1> QED
  BY <1>1, <1>4, <1>5, <1>6, <1>7, <1>8, <1>9 DEF DatabaseIInv

\* A step that no table takes part in.
LEMMA ControlInv ==
    ASSUME DatabaseIInv, UNCHANGED <<rows, txs>>, DatabaseTypeOK', HeldShape',
           OneAtATime', Admitted',
           slips \subseteq slips'
    PROVE  DatabaseIInv'
<1>1. TransactionShape' /\ LocksApart'
  BY DEF DatabaseIInv, TransactionShape, LocksApart
<1>2. WholeWrites' /\ RowsAreKeyed'
  BY DEF DatabaseIInv, WholeWrites, Whole, RowsAreKeyed, Legible, Overdue, Bare
<1> QED
  BY <1>1, <1>2 DEF DatabaseIInv

\* What is under way beside the transaction of the present call.
LEMMA OthersAreHeld ==
    ASSUME DatabaseIInv, NEW x \in Transactions,
           \/ control = Calling("writing", x)
           \/ control \in {Calling("awaiting", x), Calling("joining", x)}
           \/ control = Free
           \/ x \in Writers /\ (~Overdue => txs[x].active)
    PROVE  /\ \A y \in Transactions \ {x} : txs[y].active => y \in labels \/ Overdue
           /\ control = Calling("writing", x)
                => \A y \in Transactions \ {x} :
                      txs[y].active => y \in labels \/ (Overdue /\ y \in Writers)
<1>1. OneAtATime
  BY DEF DatabaseIInv
<1>2. Labels \cap Writers = {} /\ Control \notin Labels \cup Writers
  BY TransactionsAssumption
<1>3. ASSUME NEW y \in Transactions \ {x}, txs[y].active, y \notin labels
      PROVE  /\ Overdue
             /\ control = Calling("writing", x) => y \in Writers
  <2>1. CASE y \in Labels
    BY <1>1, <1>2, <1>3, <2>1 DEF OneAtATime, Calling, Free
  <2>2. CASE y = Control
    BY <1>1, <1>2, <1>3, <2>2 DEF OneAtATime, Calling, Free
  <2>3. CASE y \in Writers
    BY <1>1, <1>2, <1>3, <2>3 DEF OneAtATime, Calling, Free
  <2> QED
    BY <2>1, <2>2, <2>3 DEF Transactions
<1>4. \A y \in Transactions \ {x} : txs[y].active => y \in labels \/ Overdue
  BY <1>3
<1>5. ASSUME control = Calling("writing", x), NEW y \in Transactions \ {x},
             txs[y].active
      PROVE  y \in labels \/ (Overdue /\ y \in Writers)
  BY <1>3, <1>5
<1> QED
  BY <1>4, <1>5

\* Every call, statement, server event and writer step keeps the invariant.
LEMMA DatabaseNextInv == DatabaseIInv /\ [DatabaseNext]_databaseVars => DatabaseIInv'
<1> SUFFICES ASSUME DatabaseIInv, [DatabaseNext]_databaseVars
             PROVE  DatabaseIInv'
  OBVIOUS
<1>f. Free \in Call
  BY DEF Free, Call, Transactions
<1>1. ASSUME NEW x \in Transactions,
             \/ \E relation \in Relations : DeleteBegins(x, relation)
             \/ \E row \in txs[x].seen : DeleteRow(x, row)
             \/ InsertRows(x)
      PROVE  DatabaseIInv'
  BY <1>1, StatementsInv
<1>2. ASSUME NEW label \in Labels, NEW relation \in Relations, NEW image \in Stores,
             BeginHeldMutation(label, relation, image)
      PROVE  DatabaseIInv'
  <2>1. label \in Transactions /\ {relation} \in SUBSET Relations
    BY DEF Transactions
  <2>2. /\ Begins("writing", label, {relation}, image)
        /\ label \notin labels
        /\ ~quiesced
        /\ control = Free
        /\ allowed' \subseteq Writers
        /\ UNCHANGED <<rows, labels, quiesced, drifted, dropped, images, shown, slips>>
    BY <1>2 DEF BeginHeldMutation, AdmitsMutation, Begins, DatabaseIInv, DatabaseTypeOK
  <2>3. ~txs[label].active
    BY <2>2 DEF DatabaseIInv, OneAtATime, Free, Calling
  <2>4. label \notin Writers
    BY TransactionsAssumption
  <2> QED
    BY <2>1, <2>2, <2>3, <2>4, BeginsInv
<1>3. CASE HeldMutationBegun
  <2> DEFINE label == control.tx
  <2>1. /\ label \in Labels
        /\ Written(label)
        /\ control = Calling("writing", label)
        /\ label \in Transactions
    BY <1>3 DEF HeldMutationBegun, DatabaseIInv, DatabaseTypeOK, Call, Calling, Transactions
  <2>2. \A y \in Transactions \ {label} :
            txs[y].active => y \in labels \/ (Overdue /\ y \in Writers)
    BY <2>1, OthersAreHeld
  <2>3. /\ UNCHANGED <<rows, txs, allowed, quiesced, drifted, dropped, images, shown>>
        /\ labels' = labels \cup {label}
        /\ control' = Free
        /\ slips' = IF txs[label].deleted = {} THEN slips \cup {"bare"} ELSE slips
    BY <1>3 DEF HeldMutationBegun
  <2> HIDE DEF label
  <2>4. DatabaseTypeOK'
    BY <1>f, <2>1, <2>3 DEF DatabaseIInv, DatabaseTypeOK
  <2>5. HeldShape'
    BY <2>1, <2>3 DEF DatabaseIInv, HeldShape, Written, Bare
  <2>6. OneAtATime'
    <3>1. Control \notin Labels \cup Writers /\ Labels \cap Writers = {}
      BY TransactionsAssumption
    <3>2. labels \subseteq Labels
      BY DEF DatabaseIInv, DatabaseTypeOK
    <3>3. Overdue' = Overdue /\ control'.at = "free"
      BY <2>3 DEF Overdue, Free
    <3>4. Labels \cup Writers \cup {Control} = Transactions
      BY DEF Transactions
    <3>5. \A l \in Labels : txs'[l].active => l \in labels'
      BY <2>2, <2>3, <3>1, <3>4
    <3>6. ~txs'[Control].active
      BY <2>1, <2>2, <2>3, <3>1, <3>2, <3>4
    <3>7. ~Overdue' => \A w \in Writers : ~txs'[w].active
      BY <2>1, <2>2, <2>3, <3>1, <3>2, <3>3, <3>4
    <3> QED
      BY <3>3, <3>5, <3>6, <3>7 DEF OneAtATime
  <2>7. Admitted'
    <3>1. label # Control
      BY <2>1, TransactionsAssumption
    <3>2. ~quiesced
      BY <2>1, <3>1 DEF DatabaseIInv, Admitted, Calling
    <3> QED
      BY <2>3, <3>2 DEF DatabaseIInv, Admitted, Free
  <2> QED
    BY <2>3, <2>4, <2>5, <2>6, <2>7, ControlInv
<1>4. ASSUME NEW over \in SUBSET Relations, NEW image \in Stores,
             ReplaceRelations(over, image)
      PROVE  DatabaseIInv'
  <2>1. /\ Begins("writing", Control, over, image)
        /\ control = Free
        /\ ~quiesced
        /\ allowed' \subseteq Writers
        /\ UNCHANGED <<rows, labels, quiesced, drifted, dropped, images, shown, slips>>
    BY <1>4 DEF ReplaceRelations, AdmitsMutation, Begins, DatabaseIInv, DatabaseTypeOK
  <2>2. /\ ~txs[Control].active /\ Control \notin labels /\ Control \in Transactions
        /\ Control \notin Labels /\ Control \notin Writers
    BY <2>1, TransactionsAssumption
       DEF DatabaseIInv, OneAtATime, Free, Calling, DatabaseTypeOK, Transactions
  <2> QED
    BY <2>1, <2>2, BeginsInv
<1>5. ASSUME NEW image \in CapturedImages, Reestablish(image)
      PROVE  DatabaseIInv'
  <2>1. /\ Begins("writing", Control, Relations, image)
        /\ control = Free
        /\ allowed' \subseteq Writers
        /\ UNCHANGED <<rows, labels, quiesced, drifted, dropped, images, shown, slips>>
    BY <1>5 DEF Reestablish, Begins, DatabaseIInv, DatabaseTypeOK
  <2>2. /\ ~txs[Control].active /\ Control \notin labels /\ Control \in Transactions
        /\ Control \notin Labels /\ Control \notin Writers
    BY <2>1, TransactionsAssumption
       DEF DatabaseIInv, OneAtATime, Free, Calling, DatabaseTypeOK, Transactions
  <2>3. image \in Stores /\ Relations \in SUBSET Relations
    BY BaselineAssumption DEF CapturedImages, DatabaseIInv, DatabaseTypeOK
  <2> QED
    BY <2>1, <2>2, <2>3, BeginsInv
<1>6. CASE ControlCommits
  <2>1. /\ control = Calling("writing", Control)
        /\ Control \in Transactions
        /\ Written(Control) /\ Committed(Control)
        /\ control' = Free /\ labels' = labels
        /\ UNCHANGED <<allowed, quiesced, drifted, dropped, images, shown, slips>>
    BY <1>6 DEF ControlCommits, DatabaseIInv, DatabaseTypeOK, Call, Calling, Transactions
  <2> QED
    BY <2>1, OthersAreHeld, CommittedInv
<1>7. CASE WritingFails
  <2>1. /\ control = Calling("writing", control.tx)
        /\ control.tx \in Transactions
        /\ RolledBack(control.tx)
        /\ control' = Free /\ labels' = labels
        /\ UNCHANGED <<allowed, quiesced, drifted, dropped, images, shown, slips>>
    BY <1>7 DEF WritingFails, DatabaseIInv, DatabaseTypeOK, Call, Calling
  <2> DEFINE x == control.tx
  <2>2. x \in Transactions /\ control = Calling("writing", x) /\ RolledBack(x)
    BY <2>1
  <2> HIDE DEF x
  <2> QED
    BY <2>1, <2>2, OthersAreHeld, RolledBackInv
<1>8. ASSUME NEW label \in Labels, NEW committed \in BOOLEAN,
             SettleHeldMutation(label, committed)
      PROVE  DatabaseIInv'
  <2>1. /\ control = Free /\ control' = control /\ label \in Transactions
        /\ label \in labels
        /\ labels' = labels \ {label}
        /\ UNCHANGED <<allowed, quiesced, drifted, dropped, images, shown, slips>>
    BY <1>8 DEF SettleHeldMutation, Transactions
  <2>2. CASE committed
    <3>1. Committed(label) /\ Written(label)
      BY <1>8, <2>2 DEF SettleHeldMutation, DatabaseIInv, HeldShape
    <3> QED
      BY <2>1, <3>1, OthersAreHeld, CommittedInv
  <2>3. CASE ~committed
    BY <1>8, <2>1, <2>3, RolledBackInv DEF SettleHeldMutation
  <2> QED
    BY <2>2, <2>3
<1>9. ASSUME NEW label \in Labels, ConnectionLost(label) \/ RollBackHeld(label)
      PROVE  DatabaseIInv'
  <2>1. /\ control' = control /\ label \in Transactions /\ labels' = labels
        /\ RolledBack(label)
        /\ UNCHANGED <<allowed, quiesced, drifted, dropped, images, shown, slips>>
    BY <1>9 DEF ConnectionLost, RollBackHeld, Transactions
  <2> QED
    BY <2>1, RolledBackInv
<1>10. CASE EnterQuiescingBoundary
  BY <1>10, ControlInv
     DEF EnterQuiescingBoundary, DatabaseIInv, DatabaseTypeOK, HeldShape, OneAtATime,
         Admitted, Written, Bare, Overdue, CapturedImages, Free
<1>11. CASE ProjectFinally
  <2>1. Logical \in Stores
    BY LogicalType DEF DatabaseIInv
  <2> QED
    BY <1>11, <2>1, ControlInv
       DEF ProjectFinally, DatabaseIInv, DatabaseTypeOK, HeldShape, OneAtATime,
           Admitted, Written, Bare, Overdue, CapturedImages
<1>12. CASE CaptureImage
  <2>1. Logical \in Stores
    BY LogicalType DEF DatabaseIInv
  <2> QED
    BY <1>12, <2>1, ControlInv
       DEF CaptureImage, DatabaseIInv, DatabaseTypeOK, HeldShape, OneAtATime,
           Admitted, Written, Bare, Overdue, CapturedImages
<1>13. ASSUME NEW changed \in SUBSET {"binding", "inputs"}, SetDrift(changed)
       PROVE  DatabaseIInv'
  BY <1>13, ControlInv
     DEF SetDrift, DatabaseIInv, DatabaseTypeOK, HeldShape, OneAtATime,
         Admitted, Written, Bare, Overdue, CapturedImages
<1>14. ASSUME NEW w \in Writers, NEW over \in SUBSET Relations, NEW image \in Stores,
              ProjectDuringAtomicCommit(w, over, image)
       PROVE  DatabaseIInv'
  <2>1. /\ Begins("awaiting", w, over, image)
        /\ ~txs[w].active
        /\ ~quiesced
        /\ allowed' \subseteq Writers
        /\ UNCHANGED <<rows, labels, quiesced, drifted, dropped, images, shown, slips>>
    BY <1>14 DEF ProjectDuringAtomicCommit, AdmitsMutation, DatabaseIInv, DatabaseTypeOK
  <2>2. w \in Transactions /\ w \notin Labels /\ w \notin labels
    BY TransactionsAssumption DEF Transactions, DatabaseIInv, DatabaseTypeOK
  <2> QED
    BY <2>1, <2>2, BeginsInv
<1>15. CASE AllowCommit
  <2>1. /\ control = Calling("awaiting", control.tx)
        /\ control' = Calling("joining", control.tx)
        /\ control.tx \in Writers
        /\ control.tx \in Transactions
        /\ allowed' = allowed \cup {control.tx}
        /\ UNCHANGED <<rows, txs, labels, quiesced, drifted, dropped, images, shown,
                       slips>>
    BY <1>15 DEF AllowCommit, DatabaseIInv, DatabaseTypeOK, OneAtATime, Call, Calling
  <2>2. DatabaseTypeOK'
    BY <2>1 DEF DatabaseIInv, DatabaseTypeOK, Call, Calling
  <2>3. HeldShape'
    BY <2>1 DEF DatabaseIInv, HeldShape, Written, Bare
  <2>4. OneAtATime'
    BY <2>1 DEF DatabaseIInv, OneAtATime, Calling, Overdue
  <2>5. Admitted'
    BY <2>1 DEF DatabaseIInv, Admitted, Calling, CapturedImages
  <2> QED
    BY <2>1, <2>2, <2>3, <2>4, <2>5, ControlInv
<1>16. CASE WriterJoined
  <2>1. /\ control \in {Calling("joining", control.tx)}
        /\ control' = Free
        /\ control.tx \in Writers
        /\ slips' = IF txs[control.tx].active THEN slips \cup {"overdue"} ELSE slips
        /\ UNCHANGED <<rows, txs, labels, allowed, quiesced, drifted, dropped, images,
                       shown>>
    BY <1>16 DEF WriterJoined, DatabaseIInv, DatabaseTypeOK, OneAtATime, Call, Calling
  <2>2. DatabaseTypeOK'
    BY <1>f, <2>1 DEF DatabaseIInv, DatabaseTypeOK
  <2>3. HeldShape'
    BY <2>1 DEF DatabaseIInv, HeldShape, Written, Bare
  <2>4. OneAtATime'
    BY <2>1 DEF DatabaseIInv, OneAtATime, Calling, Overdue, Free
  <2>5. Admitted'
    BY <2>1 DEF DatabaseIInv, Admitted, Free, CapturedImages
  <2> QED
    BY <2>1, <2>2, <2>3, <2>4, <2>5, ControlInv
<1>17. ASSUME NEW w \in Writers, WriterCommits(w)
       PROVE  DatabaseIInv'
  <2>1. /\ control' = control /\ w \in Transactions /\ labels' = labels
        /\ Written(w) /\ Committed(w) /\ txs[w].active
        /\ UNCHANGED <<allowed, quiesced, drifted, dropped, images, shown, slips>>
    BY <1>17 DEF WriterCommits, Written, Transactions
  <2>2. \A y \in Transactions \ {w} : txs[y].active => y \in labels \/ Overdue
    BY <2>1, OthersAreHeld
  <2> QED
    BY <2>1, <2>2, CommittedInv
<1>18. ASSUME NEW w \in Writers, WriterFails(w)
       PROVE  DatabaseIInv'
  <2>1. /\ control' = control /\ w \in Transactions /\ labels' = labels
        /\ RolledBack(w)
        /\ UNCHANGED <<allowed, quiesced, drifted, dropped, images, shown, slips>>
    BY <1>18 DEF WriterFails, Transactions
  <2> QED
    BY <2>1, RolledBackInv
<1>19. CASE ReleaseBegins
  <2>1. Control \in Transactions
    BY DEF Transactions
  <2> QED
    BY <1>19, <2>1, ControlInv
       DEF ReleaseBegins, DatabaseIInv, DatabaseTypeOK, HeldShape, OneAtATime, Call,
           Calling, Free, Admitted, Written, Bare, Overdue, CapturedImages
<1>20. CASE RollbackRaises
  <2>1. /\ control.at \in {"releasing", "raising"} /\ control' = Free
        /\ UNCHANGED <<rows, txs, labels, allowed, quiesced, drifted, dropped, images,
                       shown, slips>>
    BY <1>20 DEF RollbackRaises
  <2>2. DatabaseTypeOK' /\ HeldShape'
    BY <1>f, <2>1 DEF DatabaseIInv, DatabaseTypeOK, HeldShape, Written, Bare
  <2>3. OneAtATime' /\ Admitted'
    BY <2>1 DEF DatabaseIInv, OneAtATime, Admitted, Overdue, Free, Calling,
                CapturedImages
  <2> QED
    BY <2>1, <2>2, <2>3, ControlInv
<1>21. ASSUME NEW done \in BOOLEAN, DropSchema(done)
       PROVE  DatabaseIInv'
  <2>1. /\ control.at = "releasing" /\ control' = Free
        /\ \A label \in labels : ~txs[label].active
        /\ labels' = {}
        /\ dropped' \in BOOLEAN
        /\ UNCHANGED <<rows, txs, allowed, quiesced, drifted, images, shown, slips>>
    BY <1>21 DEF DropSchema
  <2>2. DatabaseTypeOK' /\ HeldShape'
    BY <1>f, <2>1 DEF DatabaseIInv, DatabaseTypeOK, HeldShape, Written, Bare
  <2>3. OneAtATime' /\ Admitted'
    BY <2>1 DEF DatabaseIInv, OneAtATime, Admitted, Overdue, Free, Calling,
                CapturedImages
  <2> QED
    BY <2>1, <2>2, <2>3, ControlInv
<1>22. CASE UNCHANGED databaseVars
  BY <1>22, ControlInv
     DEF databaseVars, DatabaseIInv, DatabaseTypeOK, HeldShape, OneAtATime,
         Admitted, Written, Bare, Overdue, CapturedImages
<1> QED
  BY <1>1, <1>2, <1>3, <1>4, <1>5, <1>6, <1>7, <1>8, <1>9, <1>10, <1>11, <1>12,
     <1>13, <1>14, <1>15, <1>16, <1>17, <1>18, <1>19, <1>20, <1>21, <1>22
     DEF DatabaseNext

\* Typing: every transaction has a label, a writer or the control behind it.
THEOREM DatabaseTypeCorrect == DatabaseSpec => []DatabaseTypeOK
<1>1. DatabaseIInv => DatabaseTypeOK
  BY DEF DatabaseIInv
<1> QED
  BY DatabaseInit, DatabaseNextInv, <1>1, PTL DEF DatabaseSpec

\* No key is committed twice: every writer of a relation has deleted all its rows,
\* so any other one that had written it would hold the lock of one of them.
THEOREM KeysCorrect == DatabaseSpec => []RowsAreKeyed
<1>1. DatabaseIInv => RowsAreKeyed
  BY DEF DatabaseIInv
<1> QED
  BY DatabaseInit, DatabaseNextInv, <1>1, PTL DEF DatabaseSpec

\* The steps that commit nothing leave the committed rows alone.
LEMMA OnlyCommitsWrite ==
    ASSUME [DatabaseNext]_databaseVars
    PROVE  \/ UNCHANGED rows
           \/ ControlCommits
           \/ \E label \in Labels :
                 SettleHeldMutation(label, TRUE) /\ Committed(label)
           \/ \E w \in Writers : WriterCommits(w)
<1>1. CASE DatabaseNext
  <2>1. ASSUME NEW label \in Labels, NEW committed \in BOOLEAN,
               SettleHeldMutation(label, committed)
        PROVE  \/ UNCHANGED rows
               \/ SettleHeldMutation(label, TRUE) /\ Committed(label)
    <3>1. CASE committed
      <4>1. committed = TRUE
        BY <3>1
      <4> QED
        BY <2>1, <4>1 DEF SettleHeldMutation
    <3>2. CASE ~committed
      BY <2>1, <3>2 DEF SettleHeldMutation, RolledBack
    <3> QED
      BY <3>1, <3>2
  <2>2. ASSUME NEW x \in Transactions,
               \/ \E relation \in Relations : DeleteBegins(x, relation)
               \/ \E row \in txs[x].seen : DeleteRow(x, row)
               \/ InsertRows(x)
        PROVE  UNCHANGED rows
    BY <2>2 DEF DeleteBegins, DeleteRow, InsertRows
  <2> QED
    BY <1>1, <2>1, <2>2
       DEF DatabaseNext, BeginHeldMutation, HeldMutationBegun, ReplaceRelations,
           Reestablish, WritingFails, RolledBack, ConnectionLost,
           EnterQuiescingBoundary, ProjectFinally, CaptureImage, SetDrift,
           ProjectDuringAtomicCommit, AllowCommit, WriterJoined, WriterFails,
           ReleaseBegins, RollBackHeld, RollbackRaises, DropSchema
<1>2. CASE UNCHANGED databaseVars
  BY <1>2 DEF databaseVars
<1> QED
  BY <1>1, <1>2

\* What is read depends on the committed rows alone.
LEMMA SameRows == UNCHANGED rows => Logical' = Logical
  BY DEF Logical

\* Behind a final projection only a reset or a restore commits.
THEOREM ProjectionCorrect == DatabaseSpec => ProjectionStands
<1>1. DatabaseIInv /\ [DatabaseNext]_databaseVars
        => [(shown # Unobserved /\ "overdue" \notin slips')
               => Logical' \in {Logical} \cup CapturedImages]_databaseVars
  <2> SUFFICES ASSUME DatabaseIInv, DatabaseNext, shown # Unobserved,
                      "overdue" \notin slips'
               PROVE  Logical' \in {Logical} \cup CapturedImages
    OBVIOUS
  <2>1. quiesced /\ labels = {}
    BY DEF DatabaseIInv, Admitted
  <2>2. CASE UNCHANGED rows
    BY <2>2, SameRows
  <2>3. CASE ControlCommits
    <3>1. /\ control.at = "writing" /\ control.tx = Control
          /\ Written(Control) /\ Committed(Control) /\ slips' = slips
          /\ txs[Control].active
          /\ Control \in Transactions /\ Control \notin Labels
      BY <2>3, TransactionsAssumption DEF ControlCommits, Written, Transactions
    <3>2. /\ txs[Control].image \in CapturedImages
          /\ txs[Control].left \cup txs[Control].on \cup txs[Control].done
                 = Relations
      BY <2>1, <3>1 DEF DatabaseIInv, Admitted
    <3>3. txs[Control].done = Relations
      BY <3>1, <3>2 DEF Written
    <3>4. Whole(Control) /\ Physical
      BY <3>1 DEF DatabaseIInv, WholeWrites, Overdue, Physical
    <3>5. \A relation \in Relations :
             Logical'[relation] = txs[Control].image[relation]
      BY <3>1, <3>3, <3>4, CommitReplaces
    <3>6. txs[Control].image \in Stores
      BY <3>1 DEF DatabaseIInv, DatabaseTypeOK, Transaction
    <3>7. Logical' = txs[Control].image
      <4> DEFINE image == txs[Control].image
      <4>1. Logical' = [relation \in Relations |-> Logical'[relation]]
        BY DEF Logical
      <4>2. image = [relation \in Relations |-> image[relation]]
        BY <3>6 DEF Stores
      <4> QED
        BY <3>5, <4>1, <4>2
    <3> QED
      BY <3>2, <3>7
  <2>4. ASSUME NEW label \in Labels, SettleHeldMutation(label, TRUE)
        PROVE  FALSE
    BY <2>1, <2>4 DEF SettleHeldMutation
  <2>5. ASSUME NEW w \in Writers, WriterCommits(w)
        PROVE  FALSE
    <3>1. txs[w].active /\ slips' = slips
      BY <2>5 DEF WriterCommits, Written
    <3>2. control \in {Calling("awaiting", w), Calling("joining", w)}
      BY <3>1 DEF DatabaseIInv, OneAtATime, Overdue
    <3>3. w = Control
      BY <2>1, <3>2 DEF DatabaseIInv, Admitted, Calling
    <3> QED
      BY <3>3, TransactionsAssumption
  <2> QED
    BY <2>2, <2>3, <2>4, <2>5, OnlyCommitsWrite
<1> QED
  BY <1>1, DatabaseInit, DatabaseNextInv, PTL DEF DatabaseSpec, ProjectionStands

\* After provisioning the baseline is what is read (provision_database).
LEMMA BaselineShown == Provisioned => Logical = Baseline
<1> SUFFICES ASSUME Provisioned, NEW relation \in Relations, NEW key \in Keys
             PROVE  Logical[relation][key] = Baseline[relation][key]
  <2>1. /\ Logical = [relation \in Relations |-> Logical[relation]]
        /\ \A relation \in Relations :
              Logical[relation] = [key \in Keys |-> Logical[relation][key]]
    BY DEF Logical
  <2>2. /\ Baseline = [relation \in Relations |-> Baseline[relation]]
        /\ \A relation \in Relations :
              Baseline[relation] = [key \in Keys |-> Baseline[relation][key]]
    BY BaselineAssumption DEF Stores, Tables
  <2> QED
    BY <2>1, <2>2
<1> DEFINE one == [relation |-> relation, key |-> key,
                   value |-> Baseline[relation][key], by |-> Control]
<1>1. Baseline[relation][key] \in Values \cup {NoRow}
  BY BaselineAssumption DEF Stores, Tables
<1>2. Here(relation, key) =
        {row \in Row : /\ row.by = Control /\ row.relation = relation
                       /\ row.key = key
                       /\ Baseline[relation][key] = row.value}
  BY DEF Here, Provisioned, RowsOf
<1>3. CASE Baseline[relation][key] = NoRow
  <2>1. Here(relation, key) = {}
    BY <1>2, <1>3, NoRowAssumption DEF Row
  <2> QED
    BY <1>3, <2>1 DEF Logical, Here
<1>4. CASE Baseline[relation][key] # NoRow
  <2>1. one \in Row
    BY <1>1, <1>4 DEF Row, Transactions
  <2>2. Here(relation, key) = {one}
    BY <1>2, <2>1 DEF Row
  <2>3. (CHOOSE row \in {one} : TRUE) = one
    OBVIOUS
  <2>4. one.value = Baseline[relation][key]
    OBVIOUS
  <2>5. Logical[relation][key] =
          IF Here(relation, key) = {} THEN NoRow
          ELSE (CHOOSE row \in Here(relation, key) : TRUE).value
    BY DEF Logical, Here
  <2> HIDE DEF one
  <2> QED
    BY <2>2, <2>3, <2>4, <2>5
<1> QED
  BY <1>3, <1>4

\* The open mutations depend on what the labels' transactions have written.
LEMMA SameOpen ==
    ASSUME labels' = labels,
           \A label \in labels : /\ txs'[label].done = txs[label].done
                                 /\ txs'[label].image = txs[label].image
    PROVE  OpenTransactions' = OpenTransactions
  BY DEF OpenTransactions

\* The one mutation a label stands for.
Held(label, relation) ==
    [id |-> label, relation |-> relation, table |-> txs[label].image[relation]]

\* A label whose transaction has written a relation is an open mutation of it.
LEMMA OpenOfLabel ==
    ASSUME NEW label \in labels, NEW relation \in Relations,
           txs[label].done = {relation}
    PROVE  Held(label, relation) \in OpenTransactions
<1>1. <<label, relation>> \in {q \in labels \X Relations : q[2] \in txs[q[1]].done}
  OBVIOUS
<1> QED
  BY <1>1 DEF OpenTransactions, Held

\* A held mutation that is committed, rolled back or lost is open no more.
LEMMA LabelCloses ==
    ASSUME DatabaseIInv, NEW label \in labels, NEW relation \in Relations,
           txs[label].done = {relation}, txs'[label] = Closed,
           labels' \in {labels, labels \ {label}},
           \A y \in Transactions \ {label} : /\ txs'[y].done = txs[y].done
                                            /\ txs'[y].image = txs[y].image
    PROVE  OpenTransactions' = OpenTransactions \ {Held(label, relation)}
<1>1. \A q \in labels' \X Relations :
         (q[2] \in txs'[q[1]].done) <=>
         (q \in labels \X Relations /\ q[2] \in txs[q[1]].done /\ q[1] # label)
  BY DEF Closed, DatabaseIInv, DatabaseTypeOK, Transactions
<1>2. ASSUME NEW m
      PROVE  m \in OpenTransactions' <=> m \in OpenTransactions \ {Held(label, relation)}
  <2>1. ASSUME m \in OpenTransactions'
        PROVE  m \in OpenTransactions \ {Held(label, relation)}
    <3>1. PICK q \in labels' \X Relations :
             /\ q[2] \in txs'[q[1]].done
             /\ m = [id |-> q[1], relation |-> q[2], table |-> txs'[q[1]].image[q[2]]]
      BY <2>1 DEF OpenTransactions
    <3>2. q \in labels \X Relations /\ q[2] \in txs[q[1]].done /\ q[1] # label
      BY <1>1, <3>1
    <3>3. txs'[q[1]].image = txs[q[1]].image
      BY <3>2 DEF DatabaseIInv, DatabaseTypeOK, Transactions
    <3>4. m \in OpenTransactions
      BY <3>1, <3>2, <3>3 DEF OpenTransactions
    <3> QED
      BY <3>1, <3>2, <3>4 DEF Held
  <2>2. ASSUME m \in OpenTransactions, m # Held(label, relation)
        PROVE  m \in OpenTransactions'
    <3>1. PICK q \in labels \X Relations :
             /\ q[2] \in txs[q[1]].done
             /\ m = [id |-> q[1], relation |-> q[2], table |-> txs[q[1]].image[q[2]]]
      BY <2>2 DEF OpenTransactions
    <3>2. q[1] # label
      BY <2>2, <3>1 DEF Held
    <3>3. q \in labels' \X Relations /\ txs'[q[1]].image = txs[q[1]].image
      BY <3>1, <3>2 DEF DatabaseIInv, DatabaseTypeOK, Transactions
    <3>4. q[2] \in txs'[q[1]].done
      BY <1>1, <3>1, <3>2, <3>3
    <3> QED
      BY <3>1, <3>3, <3>4 DEF OpenTransactions
  <2> QED
    BY <2>1, <2>2
<1> QED
  BY <1>2

\* What a step that closes a held mutation does to the store it promises.
LEMMA LabelSettles ==
    ASSUME DatabaseIInv, NEW label \in labels,
           txs'[label] = Closed, labels' \in {labels, labels \ {label}},
           \A y \in Transactions \ {label} : /\ txs'[y].done = txs[y].done
                                            /\ txs'[y].image = txs[y].image,
           UNCHANGED <<quiesced, images, shown>>,
           \/ UNCHANGED rows
           \/ txs[label].active /\ Committed(label) /\ slips = {}
    PROVE  Backend!StoreNext \/ UNCHANGED Backend!storeVars
<1>1. label \in Labels /\ label \in Transactions
  BY DEF DatabaseIInv, DatabaseTypeOK, Transactions
<1>2. CapturedImages' = CapturedImages /\ UNCHANGED <<~quiesced, shown>>
  BY DEF CapturedImages
<1>3. CASE ~txs[label].active
  <2>1. txs[label] = Closed
    BY <1>1, <1>3, InactiveIsClosed
  <2>2. /\ OpenTransactions' \subseteq OpenTransactions
        /\ OpenTransactions \subseteq OpenTransactions'
    <3>1. \A q \in labels \X Relations : q[2] \in txs[q[1]].done =>
             /\ q \in labels' \X Relations
             /\ txs'[q[1]].done = txs[q[1]].done
             /\ txs'[q[1]].image = txs[q[1]].image
      BY <2>1 DEF Closed, DatabaseIInv, DatabaseTypeOK, Transactions
    <3>2. \A q \in labels' \X Relations : q[2] \in txs'[q[1]].done =>
             /\ q \in labels \X Relations
             /\ txs'[q[1]].done = txs[q[1]].done
             /\ txs'[q[1]].image = txs[q[1]].image
      BY DEF Closed, DatabaseIInv, DatabaseTypeOK, Transactions
    <3> QED
      BY <3>1, <3>2 DEF OpenTransactions
  <2>3. UNCHANGED rows
    BY <1>3
  <2> QED
    BY <1>2, <2>2, <2>3, SameRows DEF Backend!storeVars
<1>4. CASE txs[label].active
  <2>1. Written(label)
    BY <1>4 DEF DatabaseIInv, HeldShape
  <2>2. PICK relation \in Relations : txs[label].done = {relation}
    BY <1>1, <1>4, <2>1 DEF DatabaseIInv, HeldShape, Written
  <2> DEFINE m == Held(label, relation)
  <2>3. m \in OpenTransactions /\ OpenTransactions' = OpenTransactions \ {m}
    BY <2>2, OpenOfLabel, LabelCloses
  <2>4. CASE UNCHANGED rows
    <3>1. Logical' = Logical
      BY <2>4, SameRows
    <3> HIDE DEF m
    <3>2. Backend!RollBack(m)
      BY <1>2, <2>3, <3>1 DEF Backend!RollBack
    <3> QED
      BY <2>3, <3>2 DEF Backend!StoreNext
  <2>5. CASE Committed(label) /\ slips = {}
    <3>1. Physical /\ Whole(label)
      BY <1>1, <2>5 DEF DatabaseIInv, Physical, WholeWrites, Overdue, Bare
    <3>2. \A r \in Relations :
             Logical'[r] = IF r \in {relation} THEN txs[label].image[r] ELSE Logical[r]
      BY <1>1, <2>1, <2>2, <2>5, <3>1, CommitReplaces
    <3>3. Logical' = [Logical EXCEPT ![relation] = txs[label].image[relation]]
      <4>1. /\ Logical' = [r \in Relations |-> Logical'[r]]
            /\ Logical = [r \in Relations |-> Logical[r]]
        BY DEF Logical
      <4> QED
        BY <3>2, <4>1
    <3>4. m.relation = relation /\ m.table = txs[label].image[relation]
      BY DEF Held
    <3> HIDE DEF m
    <3>5. Backend!Commit(m)
      BY <1>2, <2>3, <3>3, <3>4 DEF Backend!Commit
    <3> QED
      BY <2>3, <3>5 DEF Backend!StoreNext
  <2> QED
    BY <2>4, <2>5
<1> QED
  BY <1>3, <1>4

\* What the commit of a whole call is to the store.
LEMMA CallCommits ==
    ASSUME DatabaseIInv, NEW x \in Transactions, x \notin Labels, slips = {},
           Written(x), Committed(x),
           \/ ~quiesced
           \/ /\ txs[x].image \in CapturedImages
              /\ txs[x].done = Relations,
           UNCHANGED <<labels, quiesced, images, shown>>
    PROVE  Backend!StoreNext
<1>1. Physical /\ Whole(x)
  BY DEF DatabaseIInv, Physical, WholeWrites, Overdue
<1>2. \A y \in Transactions \ {x} : /\ txs'[y].done = txs[y].done
                                   /\ txs'[y].image = txs[y].image
  BY <1>1, CommittedTx
<1>3. OpenTransactions' = OpenTransactions
  BY <1>2, SameOpen DEF DatabaseIInv, DatabaseTypeOK, Transactions
<1>4. CapturedImages' = CapturedImages /\ UNCHANGED <<~quiesced, shown>>
  BY DEF CapturedImages
<1>5. \A relation \in Relations :
         Logical'[relation] = IF relation \in txs[x].done THEN txs[x].image[relation]
                              ELSE Logical[relation]
  BY <1>1, CommitReplaces
<1>6. Logical' = [relation \in Relations |-> Logical'[relation]]
  BY DEF Logical
<1>7. txs[x].image \in Stores /\ Logical \in Stores
  BY LogicalType DEF DatabaseIInv, DatabaseTypeOK, Transaction
<1>8. CASE ~quiesced
  <2>1. Logical' \in Backend!Stores
    BY <1>5, <1>6, <1>7 DEF Stores, Backend!Stores
  <2> QED
    BY <1>3, <1>4, <1>8, <2>1 DEF Backend!Write, Backend!StoreNext
<1>9. CASE txs[x].image \in CapturedImages /\ txs[x].done = Relations
  <2> DEFINE image == txs[x].image
  <2>1. image = [relation \in Relations |-> image[relation]]
    BY <1>7 DEF Stores
  <2>2. Logical' = image
    BY <1>5, <1>6, <1>9, <2>1
  <2> QED
    BY <1>3, <1>4, <1>9, <2>2 DEF Backend!Reestablish, Backend!StoreNext
<1> QED
  BY <1>8, <1>9

\* A step that moves neither rows nor what the labels stand for.
LEMMA StoreStutters ==
    ASSUME DatabaseIInv, UNCHANGED <<rows, labels, quiesced, images, shown>>,
           \A label \in labels : /\ txs'[label].done = txs[label].done
                                 /\ txs'[label].image = txs[label].image
    PROVE  UNCHANGED Backend!storeVars
  BY SameRows, SameOpen DEF Backend!storeVars, CapturedImages

\* A held mutation is accepted when begin_held_mutation returns.
LEMMA HeldIsAccepted ==
    ASSUME DatabaseIInv, HeldMutationBegun
    PROVE  Backend!StoreNext
<1> DEFINE label == control.tx
<1>1. /\ label \in Labels /\ label \in Transactions /\ label \notin labels
      /\ label # Control
      /\ Written(label)
      /\ labels' = labels \cup {label}
      /\ UNCHANGED <<rows, txs, quiesced, images, shown>>
  BY TransactionsAssumption
     DEF HeldMutationBegun, Transactions, DatabaseIInv, OneAtATime
<1>2. ~quiesced
  BY <1>1 DEF HeldMutationBegun, DatabaseIInv, Admitted
<1> HIDE DEF label
<1>3. PICK relation \in Relations : txs[label].done = {relation}
  BY <1>1 DEF DatabaseIInv, HeldShape, Written
<1> DEFINE m == Held(label, relation)
<1>4. OpenTransactions' = OpenTransactions \cup {m}
  <2>1. \A q \in labels' \X Relations :
           (q[2] \in txs'[q[1]].done) <=>
           \/ q \in labels \X Relations /\ q[2] \in txs[q[1]].done
           \/ q = <<label, relation>>
    BY <1>1, <1>3
  <2>2. <<label, relation>> \in labels' \X Relations
    BY <1>1
  <2>3. labels \X Relations \subseteq labels' \X Relations
    BY <1>1
  <2>4. {q \in labels' \X Relations : q[2] \in txs'[q[1]].done}
          = {q \in labels \X Relations : q[2] \in txs[q[1]].done}
               \cup {<<label, relation>>}
    BY <2>1, <2>2, <2>3
  <2> DEFINE S == {q \in labels \X Relations : q[2] \in txs[q[1]].done}
             M(p) == [id |-> p[1], relation |-> p[2],
                      table |-> txs[p[1]].image[p[2]]]
  <2>5. OpenTransactions' = {M(p) : p \in S \cup {<<label, relation>>}}
    BY <1>1, <2>4 DEF OpenTransactions
  <2>6. OpenTransactions = {M(p) : p \in S}
    BY DEF OpenTransactions
  <2>7. M(<<label, relation>>) = m
    BY DEF Held
  <2> HIDE DEF S, M, m
  <2> QED
    BY <2>5, <2>6, <2>7
<1>5. m \notin OpenTransactions
  BY <1>1 DEF OpenTransactions, Held
<1>6. m \in Backend!Accepted
  <2>1. txs[label].image \in Stores
    BY <1>1 DEF DatabaseIInv, DatabaseTypeOK, Transaction
  <2> QED
    BY <1>1, <2>1 DEF Backend!Accepted, Held, Stores
<1>7. /\ Logical' = Logical /\ CapturedImages' = CapturedImages
      /\ UNCHANGED <<~quiesced, shown>>
  BY <1>1, SameRows DEF CapturedImages
<1> HIDE DEF m
<1>8. Backend!Accept(m)
  BY <1>2, <1>4, <1>6, <1>7 DEF Backend!Accept
<1> QED
  BY <1>4, <1>5, <1>8 DEF Backend!StoreNext

\* Refinement, while no writer has outlived its call and no held mutation has
\* begun on an empty relation: the transactions of the database are the steps of
\* the store that the in-memory resource implements too.
THEOREM DatabaseImplemented == DatabaseSpec => ImplementsBackend
<1>1. Provisioned => Backend!StoreInit
  <2> SUFFICES ASSUME Provisioned
               PROVE  Backend!StoreInit
    OBVIOUS
  <2>1. Logical = Baseline /\ Baseline \in Backend!Stores
    BY BaselineShown, BaselineAssumption DEF Stores, Backend!Stores
  <2>2. OpenTransactions = {} /\ CapturedImages = {Baseline}
    BY DEF Provisioned, OpenTransactions, CapturedImages
  <2> QED
    BY <2>1, <2>2 DEF Provisioned, Backend!StoreInit
<1>2. DatabaseIInv /\ [DatabaseNext]_databaseVars
        => [slips' = {} => \/ Backend!StoreNext
                           \/ UNCHANGED Backend!storeVars]_databaseVars
  <2> SUFFICES ASSUME DatabaseIInv, DatabaseNext, slips' = {}
               PROVE  Backend!StoreNext \/ UNCHANGED Backend!storeVars
    OBVIOUS
  <2>p. Physical /\ labels \subseteq Labels /\ Labels \subseteq Transactions
    BY DEF DatabaseIInv, Physical, DatabaseTypeOK, Transactions
  <2>1. ASSUME NEW x \in Transactions,
               \/ \E relation \in Relations : DeleteBegins(x, relation)
               \/ \E row \in txs[x].seen : DeleteRow(x, row)
               \/ InsertRows(x)
        PROVE  UNCHANGED Backend!storeVars
    <3>1. x \notin labels
      BY <2>1, StatementsInv
    <3>2. \A y \in Transactions \ {x} : txs'[y] = txs[y]
      BY <2>p, <2>1, DeleteBeginsTx, DeleteRowTx, InsertRowsTx
    <3>3. UNCHANGED <<rows, labels, quiesced, images, shown>>
      BY <2>1 DEF DeleteBegins, DeleteRow, InsertRows
    <3> QED
      BY <2>p, <3>1, <3>2, <3>3, StoreStutters
  <2>2. ASSUME NEW label \in Labels, NEW relation \in Relations,
               NEW image \in Stores, BeginHeldMutation(label, relation, image)
        PROVE  UNCHANGED Backend!storeVars
    BY <2>p, <2>2, StoreStutters
       DEF BeginHeldMutation, Begins, DatabaseIInv, DatabaseTypeOK
  <2>3. CASE HeldMutationBegun
    BY <2>3, HeldIsAccepted
  <2>4. ASSUME NEW over, NEW image,
               ReplaceRelations(over, image) \/ Reestablish(image)
        PROVE  UNCHANGED Backend!storeVars
    <3>1. Control \notin labels
      BY <2>p, TransactionsAssumption
    <3> QED
      BY <2>p, <2>4, <3>1, StoreStutters
         DEF ReplaceRelations, Reestablish, Begins, DatabaseIInv, DatabaseTypeOK
  <2>5. CASE ControlCommits
    <3>1. /\ control.at = "writing" /\ control.tx = Control
          /\ Written(Control) /\ Committed(Control) /\ slips = {}
          /\ txs[Control].active
          /\ Control \in Transactions /\ Control \notin Labels
          /\ UNCHANGED <<labels, quiesced, images, shown>>
      BY <2>5, TransactionsAssumption DEF ControlCommits, Written, Transactions
    <3>2. \/ ~quiesced
          \/ /\ txs[Control].image \in CapturedImages
             /\ txs[Control].done = Relations
      BY <3>1 DEF DatabaseIInv, Admitted, Written
    <3> QED
      BY <3>1, <3>2, CallCommits
  <2>6. CASE WritingFails
    <3> DEFINE x == control.tx
    <3>1. /\ x \in Transactions /\ x \notin labels /\ RolledBack(x)
          /\ UNCHANGED <<labels, quiesced, images, shown>>
      BY <2>6, <2>p, TransactionsAssumption
         DEF WritingFails, DatabaseIInv, DatabaseTypeOK, OneAtATime, Call
    <3> HIDE DEF x
    <3>2. rows' = rows /\ \A y \in Transactions \ {x} : txs'[y] = txs[y]
      BY <2>p, <3>1, RolledBackTx
    <3> QED
      BY <2>p, <3>1, <3>2, StoreStutters
  <2>7. ASSUME NEW label \in Labels, NEW committed \in BOOLEAN,
               SettleHeldMutation(label, committed)
        PROVE  Backend!StoreNext \/ UNCHANGED Backend!storeVars
    <3>1. /\ label \in labels /\ labels' = labels \ {label}
          /\ slips = {}
          /\ UNCHANGED <<quiesced, images, shown>>
      BY <2>7 DEF SettleHeldMutation
    <3>2. CASE committed
      <4>1. txs[label].active /\ Committed(label)
        BY <2>7, <3>2 DEF SettleHeldMutation
      <4>2. /\ txs'[label] = Closed
            /\ \A y \in Transactions \ {label} : /\ txs'[y].done = txs[y].done
                                                 /\ txs'[y].image = txs[y].image
        BY <2>p, <4>1, CommittedTx
      <4> QED
        BY <3>1, <4>1, <4>2, LabelSettles
    <3>3. CASE ~committed
      <4>1. RolledBack(label)
        BY <2>7, <3>3 DEF SettleHeldMutation
      <4>2. /\ rows' = rows
            /\ txs'[label] = Closed
            /\ \A y \in Transactions \ {label} : txs'[y] = txs[y]
        BY <2>p, <4>1, RolledBackTx
      <4> QED
        BY <3>1, <4>2, LabelSettles
    <3> QED
      BY <3>2, <3>3
  <2>8. ASSUME NEW label \in Labels, ConnectionLost(label) \/ RollBackHeld(label)
        PROVE  Backend!StoreNext \/ UNCHANGED Backend!storeVars
    <3>1. /\ label \in labels /\ labels' = labels /\ RolledBack(label)
          /\ UNCHANGED <<quiesced, images, shown>>
      BY <2>8 DEF ConnectionLost, RollBackHeld
    <3>2. /\ rows' = rows
          /\ txs'[label] = Closed
          /\ \A y \in Transactions \ {label} : txs'[y] = txs[y]
      BY <2>p, <3>1, RolledBackTx
    <3> QED
      BY <3>1, <3>2, LabelSettles
  <2>9. CASE EnterQuiescingBoundary
    <3>1. /\ Logical' = Logical /\ OpenTransactions' = OpenTransactions
          /\ CapturedImages' = CapturedImages /\ (~quiesced)' = FALSE
          /\ shown' = shown
      BY <2>9, SameRows, SameOpen DEF EnterQuiescingBoundary, CapturedImages
    <3> QED
      BY <3>1 DEF Backend!Close, Backend!StoreNext
  <2>10. CASE ProjectFinally
    <3>1. /\ Logical' = Logical /\ OpenTransactions' = OpenTransactions
          /\ CapturedImages' = CapturedImages /\ (~quiesced)' = ~quiesced
          /\ quiesced /\ shown' = Logical
      BY <2>10, SameRows, SameOpen DEF ProjectFinally, CapturedImages
    <3>2. OpenTransactions = {}
      BY <2>10 DEF ProjectFinally, OpenTransactions
    <3> QED
      BY <3>1, <3>2 DEF Backend!Observe, Backend!StoreNext
  <2>11. CASE CaptureImage
    <3>1. /\ Logical' = Logical /\ OpenTransactions' = OpenTransactions
          /\ CapturedImages' = CapturedImages \cup {Logical}
          /\ (~quiesced)' = ~quiesced
          /\ shown' = shown
      BY <2>11, SameRows, SameOpen DEF CaptureImage, CapturedImages
    <3> QED
      BY <3>1 DEF Backend!Capture, Backend!StoreNext
  <2>12. ASSUME NEW w \in Writers, NEW over \in SUBSET Relations,
                NEW image \in Stores, ProjectDuringAtomicCommit(w, over, image)
         PROVE  UNCHANGED Backend!storeVars
    <3>1. w \notin labels
      BY <2>p, TransactionsAssumption
    <3> QED
      BY <2>p, <2>12, <3>1, StoreStutters
         DEF ProjectDuringAtomicCommit, Begins, DatabaseIInv, DatabaseTypeOK
  <2>13. ASSUME NEW w \in Writers, WriterCommits(w)
         PROVE  Backend!StoreNext
    <3>1. /\ w \in Transactions /\ w \notin Labels /\ w # Control
          /\ Written(w) /\ Committed(w) /\ slips = {} /\ txs[w].active
          /\ UNCHANGED <<labels, quiesced, images, shown>>
      BY <2>13, TransactionsAssumption DEF WriterCommits, Written, Transactions
    <3>2. control \in {Calling("awaiting", w), Calling("joining", w)}
      BY <3>1 DEF DatabaseIInv, OneAtATime, Overdue
    <3>3. ~quiesced
      BY <3>1, <3>2 DEF DatabaseIInv, Admitted, Calling
    <3> QED
      BY <3>1, <3>3, CallCommits
  <2>14. ASSUME NEW w \in Writers, WriterFails(w)
         PROVE  UNCHANGED Backend!storeVars
    <3>1. /\ w \in Transactions /\ w \notin labels /\ RolledBack(w)
          /\ UNCHANGED <<labels, quiesced, images, shown>>
      BY <2>14, <2>p, TransactionsAssumption DEF WriterFails, Transactions
    <3>2. rows' = rows /\ \A y \in Transactions \ {w} : txs'[y] = txs[y]
      BY <2>p, <3>1, RolledBackTx
    <3> QED
      BY <2>p, <3>1, <3>2, StoreStutters
  <2>15. ASSUME NEW done \in BOOLEAN, DropSchema(done)
         PROVE  UNCHANGED Backend!storeVars
    <3>1. OpenTransactions = {} /\ OpenTransactions' = {}
      <4>1. \A label \in labels : txs[label].done = {}
        BY <2>p, <2>15, InactiveIsClosed DEF DropSchema
      <4> QED
        BY <2>15, <4>1 DEF DropSchema, OpenTransactions
    <3> QED
      BY <2>15, <3>1, SameRows DEF DropSchema, Backend!storeVars, CapturedImages
  <2>16. ASSUME \/ AllowCommit
                \/ WriterJoined
                \/ ReleaseBegins
                \/ RollbackRaises
                \/ \E changed \in SUBSET {"binding", "inputs"} : SetDrift(changed)
         PROVE  UNCHANGED Backend!storeVars
    <3>1. UNCHANGED <<rows, txs, labels, quiesced, images, shown>>
      BY <2>16 DEF AllowCommit, WriterJoined, ReleaseBegins, RollbackRaises, SetDrift
    <3> QED
      BY <3>1, StoreStutters
  <2> QED
    BY <2>1, <2>2, <2>3, <2>4, <2>5, <2>6, <2>7, <2>8, <2>9, <2>10, <2>11, <2>12,
       <2>13, <2>14, <2>15, <2>16 DEF DatabaseNext
<1> QED
  BY <1>1, <1>2, DatabaseInit, DatabaseNextInv, PTL DEF DatabaseSpec, ImplementsBackend

=============================================================================
