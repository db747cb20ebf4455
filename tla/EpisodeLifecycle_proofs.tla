------------------------ MODULE EpisodeLifecycle_proofs ------------------------
(***************************************************************************)
(* Proofs about EpisodeLifecycle for all values of its constants and       *)
(* histories of any length: what TLC checks up to MaxRecords.              *)
(***************************************************************************)
EXTENDS EpisodeLifecycle, TLAPS

\* Typing: whatever is frozen or bound, an Episode stays an Episode.
THEOREM TypeCorrect == Spec => []TypeOK
<1>1. Init => TypeOK
  BY DEF Init, TypeOK, States, Record
<1>2. TypeOK /\ [Next]_lifecycleVars => TypeOK'
  <2> SUFFICES ASSUME TypeOK, [Next]_lifecycleVars
               PROVE  TypeOK'
    OBVIOUS
  <2>1. ASSUME NEW source \in Sources, BindReplaySource(source)
        PROVE  TypeOK'
    BY <2>1 DEF BindReplaySource, TypeOK
  <2>2. ASSUME NEW target \in States, Transition(target)
        PROVE  TypeOK'
    <3>1. RecordOf(records, state, target) \in Record
      BY DEF RecordOf, Record, TypeOK
    <3>2. records' \in Seq(Record)
      BY <2>2, <3>1 DEF Transition, TypeOK
    <3>3. evaluation' \in Evaluations \cup {NoEvaluation}
      BY <2>2 DEF Transition, Freeze, TypeOK
    <3> QED
      BY <2>2, <3>2, <3>3 DEF Transition, TypeOK
  <2>3. CASE UNCHANGED lifecycleVars
    BY <2>3 DEF lifecycleVars, TypeOK
  <2> QED
    BY <2>1, <2>2, <2>3 DEF Next
<1> QED
  BY <1>1, <1>2, PTL DEF Spec

\* The history of an Episode is one legal walk that ends where the Episode is.
THEOREM WalkCorrect == Spec => []HistoryIsWalk
<1>1. Init => HistoryIsWalk
  BY DEF Init, HistoryIsWalk
<1>2. TypeOK /\ HistoryIsWalk /\ [Next]_lifecycleVars => HistoryIsWalk'
  <2> SUFFICES ASSUME TypeOK, HistoryIsWalk, [Next]_lifecycleVars
               PROVE  HistoryIsWalk'
    OBVIOUS
  <2>1. ASSUME NEW target \in States, Transition(target)
        PROVE  HistoryIsWalk'
    <3> DEFINE new == RecordOf(records, state, target)
    <3>1. /\ records \in Seq(Record)
          /\ new \in Record
          /\ records' = Append(records, new)
      BY <2>1 DEF TypeOK, Transition, RecordOf, Record
    <3>2. /\ Len(records') = Len(records) + 1
          /\ records'[Len(records')] = new
          /\ \A i \in 1..Len(records) : records'[i] = records[i]
      BY <3>1
    <3>3. /\ new.sequence = Len(records')
          /\ new.previous = state
          /\ new.resulting = target
          /\ target \in Transitions[state]
          /\ state' = target
      BY <2>1, <3>2 DEF RecordOf, Transition
    <3>4. state = IF Len(records) = 0 THEN "CREATED"
                  ELSE records[Len(records)].resulting
      BY <3>1 DEF HistoryIsWalk
    <3>5. ASSUME NEW i \in 1..Len(records')
          PROVE  /\ records'[i].sequence = i
                 /\ records'[i].resulting \in Transitions[records'[i].previous]
                 /\ records'[i].previous =
                      IF i = 1 THEN "CREATED" ELSE records'[i - 1].resulting
      <4>1. CASE i \in 1..Len(records)
        BY <3>1, <3>2, <4>1 DEF HistoryIsWalk
      <4>2. CASE i = Len(records')
        BY <3>1, <3>2, <3>3, <3>4, <4>2
      <4> QED
        BY <3>1, <3>2, <4>1, <4>2
    <3> QED
      BY <3>1, <3>2, <3>3, <3>5 DEF HistoryIsWalk
  <2>2. CASE UNCHANGED <<state, records>>
    BY <2>2 DEF HistoryIsWalk
  <2> QED
    BY <2>1, <2>2 DEF Next, BindReplaySource, lifecycleVars
<1> QED
  BY <1>1, <1>2, TypeCorrect, PTL DEF Spec

\* Where each state of the normal path can be entered from.
LEMMA EnteredFrom ==
    ASSUME NEW s \in States, NEW t \in DOMAIN Before, t \in Transitions[s]
    PROVE  s = Before[t] \/ (t = "RUNNING" /\ s = "PAUSED")
BY DEF States, Before, Transitions, Forward, Terminal, Failed

\* No phase is skipped.  A record that enters RUNNING from PAUSED finds its
\* READY two steps further back: PAUSED was entered after RUNNING, and RUNNING
\* after READY.
THEOREM PhasesCorrect == Spec => []NoPhaseSkipped
<1>1. Init => NoPhaseSkipped
  BY DEF Init, NoPhaseSkipped
<1>2. TypeOK /\ HistoryIsWalk /\ NoPhaseSkipped /\ [Next]_lifecycleVars
        => NoPhaseSkipped'
  <2> SUFFICES ASSUME TypeOK, HistoryIsWalk, NoPhaseSkipped,
                      [Next]_lifecycleVars
               PROVE  NoPhaseSkipped'
    OBVIOUS
  <2>1. ASSUME NEW target \in States, Transition(target)
        PROVE  NoPhaseSkipped'
    <3> DEFINE n == Len(records)
               new == RecordOf(records, state, target)
    <3>1. /\ records \in Seq(Record)
          /\ new \in Record
          /\ records' = Append(records, new)
          /\ new.resulting = target
      BY <2>1 DEF TypeOK, Transition, RecordOf, Record
    <3>2. /\ n \in Nat
          /\ Len(records') = n + 1
          /\ records'[n + 1] = new
          /\ \A i \in 1..n : records'[i] = records[i]
      BY <3>1
    <3>3. state \in States /\ target \in Transitions[state]
      BY <2>1 DEF Transition, TypeOK
    <3>4. ASSUME target \in DOMAIN Before
          PROVE  \E j \in 1..n : records[j].resulting = Before[target]
      <4>1. state = Before[target] \/ (target = "RUNNING" /\ state = "PAUSED")
        BY <3>3, <3>4, EnteredFrom
      <4>2. state # "CREATED"
        BY <4>1, <3>4 DEF Before
      <4>3. n > 0 /\ records[n].resulting = state
        BY <3>1, <3>2, <4>2 DEF HistoryIsWalk
      <4>4. CASE state = Before[target]
        BY <3>2, <4>3, <4>4
      <4>5. CASE target = "RUNNING" /\ state = "PAUSED"
        <5>1. "PAUSED" \in DOMAIN Before /\ Before["PAUSED"] = "RUNNING"
          BY DEF Before
        <5>2. "RUNNING" \in DOMAIN Before /\ Before["RUNNING"] = "READY"
          BY DEF Before
        <5>3. PICK j \in 1..(n - 1) : records[j].resulting = "RUNNING"
          BY <3>2, <4>3, <4>5, <5>1 DEF NoPhaseSkipped
        <5>4. PICK k \in 1..(j - 1) : records[k].resulting = "READY"
          BY <3>2, <5>2, <5>3 DEF NoPhaseSkipped
        <5> QED
          BY <3>2, <4>5, <5>2, <5>3, <5>4
      <4> QED
        BY <4>1, <4>4, <4>5
    <3>5. ASSUME NEW i \in 1..(n + 1), records'[i].resulting \in DOMAIN Before
          PROVE  \E j \in 1..(i - 1) :
                    records'[j].resulting = Before[records'[i].resulting]
      <4>1. CASE i \in 1..n
        <5>1. records'[i] = records[i]
          BY <3>2, <4>1
        <5>2. PICK j \in 1..(i - 1) :
                 records[j].resulting = Before[records[i].resulting]
          BY <3>5, <4>1, <5>1 DEF NoPhaseSkipped
        <5>3. records'[j] = records[j]
          BY <3>2, <4>1, <5>2
        <5> QED
          BY <5>1, <5>2, <5>3
      <4>2. CASE i = n + 1
        <5>1. records'[i].resulting = target
          BY <3>1, <3>2, <4>2
        <5>2. PICK j \in 1..n : records[j].resulting = Before[target]
          BY <3>4, <3>5, <5>1
        <5>3. records'[j] = records[j]
          BY <3>2, <5>2
        <5> QED
          BY <3>2, <4>2, <5>1, <5>2, <5>3
      <4> QED
        BY <3>2, <4>1, <4>2
    <3> QED
      BY <3>2, <3>5 DEF NoPhaseSkipped
  <2>2. CASE UNCHANGED records
    BY <2>2 DEF NoPhaseSkipped
  <2> QED
    BY <2>1, <2>2 DEF Next, BindReplaySource, lifecycleVars
<1> QED
  BY <1>1, <1>2, TypeCorrect, WalkCorrect, PTL DEF Spec

\* AVP-CORE-005: nothing moves once a terminal state is reached.
THEOREM TerminalCorrect == Spec => TerminalIsFinal
<1>1. TypeOK /\ [Next]_lifecycleVars => [state \notin Terminal]_lifecycleVars
  BY DEF TypeOK, Next, BindReplaySource, Transition, Transitions, Terminal
<1> QED
  BY <1>1, TypeCorrect, PTL DEF Spec, TerminalIsFinal

\* The history grows at its end only; source and record are written once.
THEOREM AppendCorrect == Spec => HistoryAppendOnly
<1> DEFINE Grows == /\ Len(records') >= Len(records)
                    /\ SubSeq(records', 1, Len(records)) = records
                    /\ replaySource # NoSource => replaySource' = replaySource
                    /\ evaluation # NoEvaluation => evaluation' = evaluation
<1>1. TypeOK /\ [Next]_lifecycleVars => [Grows]_lifecycleVars
  <2> SUFFICES ASSUME TypeOK, Next
               PROVE  Grows
    OBVIOUS
  <2>1. ASSUME NEW source \in Sources, BindReplaySource(source)
        PROVE  Grows
    BY <2>1 DEF BindReplaySource, TypeOK
  <2>2. ASSUME NEW target \in States, Transition(target)
        PROVE  Grows
    <3>1. /\ records \in Seq(Record)
          /\ RecordOf(records, state, target) \in Record
          /\ records' = Append(records, RecordOf(records, state, target))
      BY <2>2 DEF TypeOK, Transition, RecordOf, Record
    <3>2. Len(records') >= Len(records) /\ SubSeq(records', 1, Len(records)) = records
      BY <3>1
    <3>3. evaluation # NoEvaluation => evaluation' = evaluation
      BY <2>2 DEF Transition, Freeze
    <3> QED
      BY <2>2, <3>2, <3>3 DEF Transition
  <2> QED
    BY <2>1, <2>2 DEF Next
<1> QED
  BY <1>1, TypeCorrect, PTL DEF Spec, HistoryAppendOnly

=============================================================================
