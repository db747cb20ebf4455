--------------------------- MODULE HostBinding_proofs ---------------------------
(***************************************************************************)
(* Proofs about the host binding for a pool of any size and any client.    *)
(* The engine takes no lock; what keeps the handlers apart is that each    *)
(* operation only moves the Episode from states of its own.  Two requests  *)
(* for one operation meet in the same states: from then on its handlers,   *)
(* and those of the operations after it, may go on from a state that has   *)
(* changed, while those before it are still right.                         *)
(***************************************************************************)
EXTENDS HostBinding, FiniteSetTheorems, TLAPS

Setup == {"provisioning", "opening", "resetting"}
Transit == {"asserting", "freezing", "numbering", "assigning", "appending"}

\* What the thread of each operation can be doing.
Shape(t) ==
    /\ pc[t] = "testing" => operation[t] \in {"run", "verify"}
    /\ pc[t] \in Setup => operation[t] = "provision"
    /\ pc[t] = "invoking" => operation[t] = "run"
    /\ pc[t] = "evaluating" => operation[t] = "verify"
    /\ pc[t] \in Transit =>
        \/ operation[t] = "provision" /\ target[t] \in {"PROVISIONING", "READY", "INFRA_FAILED"}
        \/ operation[t] = "run" /\ target[t] \in {"RUNNING", "QUIESCING", "INFRA_FAILED"}
        \/ operation[t] = "verify" /\ target[t] \in {"VERIFYING", "COMPLETED", "INVALID"}
    /\ pc[t] = "freezing" => operation[t] = "verify" /\ target[t] \in {"COMPLETED", "INVALID"}
    /\ pc[t] \in Transit \ {"asserting"} => previous[t] \in Lifecycle!States
    /\ pc[t] \in {"assigning", "appending"} => sequence[t] # 0

\* The state an operation makes a transition from.
From(op, s) ==
    IF s = "PROVISIONING" THEN "CREATED"
    ELSE IF s = "READY" \/ (s = "INFRA_FAILED" /\ op = "provision") THEN "PROVISIONING"
    ELSE IF s = "RUNNING" THEN "READY"
    ELSE IF s \in {"QUIESCING", "INFRA_FAILED"} THEN "RUNNING"
    ELSE IF s = "VERIFYING" THEN "QUIESCING" ELSE "VERIFYING"

Moving(t) ==
    \/ pc[t] \in {"freezing", "numbering", "assigning"}
    \/ pc[t] = "asserting" /\ target[t] # "PROVISIONING"

\* The thread goes on as if the state were s.
RestsOn(t, s) ==
    \/ pc[t] \in Setup /\ s = "PROVISIONING"
    \/ pc[t] = "invoking" /\ s = "RUNNING"
    \/ pc[t] = "evaluating" /\ s = "VERIFYING"
    \/ Moving(t) /\ s = From(operation[t], target[t])
    \/ /\ pc[t] = "appending" /\ s = target[t]
       /\ target[t] \in {"PROVISIONING", "RUNNING", "VERIFYING"}

\* Where the states of the operations lie: an operation moves from its turn.
Stage(s) ==
    IF s \in {"CREATED", "PROVISIONING"} THEN 1
    ELSE IF s \in {"READY", "RUNNING", "PAUSED"} THEN 2
    ELSE IF s \in {"QUIESCING", "VERIFYING"} THEN 3 ELSE 4

\* The thread has passed the test of the state, if it makes one.
Active(t) == pc[t] \in Transit \union Setup \union {"invoking", "evaluating"}

CalmFor(t) == Calm(operation[t])

\* An operation nobody has repeated has one thread.
Alone ==
    \A t, u \in Threads :
        operation[t] = operation[u] /\ operation[t] \in Operations \ repeated => t = u

\* What a thread rests on is true, if its operation is calm.
Resting ==
    \A t \in Threads, s \in Lifecycle!States : RestsOn(t, s) /\ CalmFor(t) => state = s

\* The Episode is past every calm operation before the one a thread is in.
Begun ==
    \A t \in Threads, op \in Operations :
        Active(t) /\ Turn(op) < Turn(operation[t]) /\ Calm(op) => Turn(op) < Stage(state)

\* The invariant: there is one thread for each operation that was not repeated,
\* and none is disturbed by those after it.
IInv ==
    /\ TypeOK
    /\ \A t \in Threads : Shape(t)
    /\ Alone
    /\ Resting
    /\ Begun

\* An operation rests on the states of its turn.
LEMMA RestsOnOwn ==
    ASSUME NEW t \in Threads, NEW s, Shape(t), RestsOn(t, s)
    PROVE  /\ operation[t] \in Operations
           /\ s \in Lifecycle!States
           /\ Stage(s) = Turn(operation[t])
           /\ Active(t)
<1>1. CASE pc[t] \in Setup \union {"invoking", "evaluating"}
  BY <1>1 DEF Shape, RestsOn, Moving, Setup, Operations, Lifecycle!States, Active, Stage,
              Turn
<1>2. CASE pc[t] = "appending"
  BY <1>2 DEF Shape, RestsOn, Moving, Setup, Operations, Lifecycle!States, Active, Stage,
              Turn, Transit
<1>3. CASE Moving(t) /\ s = From(operation[t], target[t])
  <2>1. pc[t] \in Transit
    BY <1>3 DEF Moving, Transit
  <2> QED
    BY <1>3, <2>1 DEF Shape, Moving, From, Operations, Lifecycle!States, Active, Stage,
                      Turn, Transit
<1> QED
  BY <1>1, <1>2, <1>3 DEF RestsOn

\* The turns and stages.
LEMMA Turns ==
    /\ \A op \in Operations : Turn(op) \in 1..3
    /\ \A s : Stage(s) \in 1..4
    /\ \A op, other \in Operations : Turn(op) = Turn(other) => op = other
BY DEF Turn, Stage, Operations

\* What is calm was not repeated, and what comes before it is calm too.
LEMMA CalmBefore ==
    ASSUME TypeOK, NEW op \in Operations, Calm(op)
    PROVE  /\ op \notin repeated
           /\ \A other \in Operations : Turn(other) <= Turn(op) => Calm(other)
BY Turns DEF TypeOK, Calm

\* A calm thread that rests on a state is at the turn the Episode is at.
LEMMA AtTurn ==
    ASSUME IInv, NEW t \in Threads, NEW s, RestsOn(t, s), CalmFor(t)
    PROVE  state = s /\ Stage(state) = Turn(operation[t])
BY RestsOnOwn DEF IInv, Resting

\* So no two threads rest on anything at a time, if one of them is calm and the
\* other's turn is not before.
LEMMA OneRests ==
    ASSUME IInv, NEW t \in Threads, NEW u \in Threads, NEW s,
           RestsOn(t, s), CalmFor(t), Active(u), operation[u] \in Operations,
           Turn(operation[t]) <= Turn(operation[u])
    PROVE  t = u
<1>1. operation[t] \in Operations /\ Turn(operation[t]) = Stage(state)
  BY AtTurn, RestsOnOwn DEF IInv
<1>2. ~(Turn(operation[t]) < Turn(operation[u]))
  BY <1>1, Turns DEF IInv, Begun, CalmFor
<1>3. operation[t] = operation[u]
  BY <1>1, <1>2, Turns
<1>4. operation[t] \notin repeated
  BY <1>1, CalmBefore DEF IInv, CalmFor
<1> QED
  BY <1>1, <1>3, <1>4 DEF IInv, Alone

SameElsewhere(t) ==
    \A u \in Threads \ {t} :
        /\ pc'[u] = pc[u] /\ operation'[u] = operation[u] /\ target'[u] = target[u]
        /\ previous'[u] = previous[u] /\ sequence'[u] = sequence[u]

\* Another thread's step leaves its Shape, what it rests on and its activity.
LEMMA Elsewhere ==
    ASSUME NEW t \in Threads, SameElsewhere(t), NEW u \in Threads \ {t}
    PROVE  /\ Shape(u) => Shape(u)'
           /\ Active(u)' <=> Active(u)
           /\ operation'[u] = operation[u]
           /\ \A s : RestsOn(u, s)' <=> RestsOn(u, s)
<1>1. /\ pc'[u] = pc[u] /\ operation'[u] = operation[u] /\ target'[u] = target[u]
      /\ previous'[u] = previous[u] /\ sequence'[u] = sequence[u]
  BY DEF SameElsewhere
<1>2. (Shape(u) => Shape(u)') /\ (Active(u)' <=> Active(u))
  BY <1>1 DEF Shape, Active, Setup, Transit
<1>3. \A s : RestsOn(u, s)' <=> RestsOn(u, s)
  BY <1>1 DEF RestsOn, Moving
<1> QED
  BY <1>1, <1>2, <1>3

\* A step of one thread that leaves the state alone has to be right for that
\* thread only.
LEMMA OneThreadMoves ==
    ASSUME IInv, NEW t \in Threads, TypeOK', state' = state, repeated' = repeated,
           SameElsewhere(t), operation'[t] \in {operation[t], None}, Shape(t)',
           \A s \in Lifecycle!States : RestsOn(t, s)' => state = s \/ RestsOn(t, s),
           Active(t)' => Active(t) \/ Stage(state) >= Turn(operation[t])
    PROVE  IInv'
<1>1. \A u \in Threads : Shape(u)'
  BY Elsewhere DEF IInv
<1>2. \A op : Calm(op)' <=> Calm(op)
  BY DEF Calm
<1>3. \A u \in Threads : operation'[u] \in Operations => operation'[u] = operation[u]
  BY HostAssumption DEF SameElsewhere
<1>4. Alone'
  BY <1>3 DEF IInv, Alone
<1>5. Resting'
  <2> SUFFICES ASSUME NEW u \in Threads, NEW s \in Lifecycle!States,
                      RestsOn(u, s)', CalmFor(u)'
               PROVE  state = s
    BY DEF Resting
  <2>1. operation'[u] \in Operations
    <3>1. Shape(u)'
      BY <1>1
    <3> QED
      BY <3>1 DEF Shape, RestsOn, Moving, Setup, Transit, Operations
  <2>2. CalmFor(u)
    BY <1>2, <1>3, <2>1 DEF CalmFor
  <2>3. state = s \/ RestsOn(u, s)
    BY Elsewhere
  <2> QED
    BY <2>2, <2>3 DEF IInv, Resting
<1>6. Begun'
  <2> SUFFICES ASSUME NEW u \in Threads, NEW op \in Operations, Active(u)',
                      Turn(op) < Turn(operation'[u]), Calm(op)'
               PROVE  Turn(op) < Stage(state)
    BY DEF Begun
  <2>1. operation'[u] \in Operations
    <3>1. Shape(u)'
      BY <1>1
    <3> QED
      BY <3>1 DEF Shape, Active, Setup, Transit, Operations
  <2>2. operation'[u] = operation[u] /\ Calm(op)
    BY <1>2, <1>3, <2>1
  <2>3. Active(u) \/ Stage(state) >= Turn(operation[u])
    BY Elsewhere
  <2> QED
    BY <2>1, <2>2, <2>3, Turns DEF IInv, Begun
<1> QED
  BY <1>1, <1>4, <1>5, <1>6 DEF IInv

LEMMA InitHolds == Init => IInv
<1> SUFFICES ASSUME Init PROVE IInv
  OBVIOUS
<1>1. TypeOK
  BY HostAssumption
     DEF Init, TypeOK, ThreadTypeOK, Lifecycle!States, Lifecycle!Record, Places
<1>2. Alone /\ \A t \in Threads : Shape(t)
  BY HostAssumption DEF Init, Alone, Shape, Setup, Transit, Operations
<1>3. \A t \in Threads : ~Active(t) /\ \A s : ~RestsOn(t, s)
  BY DEF Init, RestsOn, Moving, Setup, Active, Transit
<1> QED
  BY <1>1, <1>2, <1>3 DEF IInv, Resting, Begun

\* What the Core relation allows is what the operations make.
LEMMA RelationAllows ==
    ASSUME NEW s \in Lifecycle!States
    PROVE  /\ "PROVISIONING" \in Lifecycle!Transitions[s] => s = "CREATED"
           /\ s = "CREATED" => "PROVISIONING" \in Lifecycle!Transitions[s]
           /\ s = "PROVISIONING" => {"READY", "INFRA_FAILED"} \subseteq Lifecycle!Transitions[s]
           /\ s = "READY" => "RUNNING" \in Lifecycle!Transitions[s]
           /\ s = "RUNNING" => {"QUIESCING", "INFRA_FAILED"} \subseteq Lifecycle!Transitions[s]
           /\ s = "QUIESCING" => "VERIFYING" \in Lifecycle!Transitions[s]
           /\ s = "VERIFYING" => {"COMPLETED", "INVALID"} \subseteq Lifecycle!Transitions[s]
BY DEF Lifecycle!States, Lifecycle!Transitions, Lifecycle!Forward, Lifecycle!Failed,
       Lifecycle!Terminal

\* The three ways a handler goes on keep the threads' types.
LEMMA GotoTypes ==
    ASSUME ThreadTypeOK, NEW t \in Threads, NEW place \in Places \ {"idle"},
           operation[t] # None, Goto(t, place), operation' = operation,
           target' = target,
           previous' \in [Threads -> Lifecycle!States \union {None}],
           sequence' \in [Threads -> Nat]
    PROVE  ThreadTypeOK'
BY DEF ThreadTypeOK, Goto

LEMMA CallTypes ==
    ASSUME ThreadTypeOK, NEW t \in Threads, NEW s \in Lifecycle!States,
           operation[t] # None, CallTransition(t, s)
    PROVE  ThreadTypeOK'
BY DEF ThreadTypeOK, CallTransition, Goto, Places

LEMMA AnswerTypes ==
    ASSUME ThreadTypeOK, NEW t \in Threads, Answer(t)
    PROVE  ThreadTypeOK'
BY DEF ThreadTypeOK, Answer, Goto, Places

\* A request that repeats another one takes its operation out of the calm ones.
LEMMA ReceiveKeeps ==
    ASSUME IInv, NEW t \in Threads, NEW op \in Operations, Receive(t, op)
    PROVE  IInv'
<1>0. TypeOK /\ ThreadTypeOK /\ pc[t] = "idle"
  BY DEF IInv, TypeOK, Receive
<1>1. /\ UNCHANGED <<episodeVars, runtimeVars, transitionVars>>
      /\ pc' = [pc EXCEPT ![t] = "called"]
      /\ operation' = [operation EXCEPT ![t] = op]
      /\ repeated \subseteq repeated' /\ repeated' \subseteq Operations
      /\ op \notin repeated' => \A u \in Threads : operation[u] # op
  BY <1>0 DEF Receive, Goto, TypeOK
<1>2. SameElsewhere(t) /\ state' = state
  BY <1>0, <1>1 DEF ThreadTypeOK, SameElsewhere, episodeVars, transitionVars
<1>3. pc'[t] = "called" /\ operation'[t] = op
  BY <1>0, <1>1 DEF ThreadTypeOK
<1>4. TypeOK'
  <2>1. ThreadTypeOK'
    BY <1>0, <1>1, HostAssumption DEF ThreadTypeOK, transitionVars, Places
  <2> QED
    BY <1>0, <1>1, <2>1 DEF TypeOK, episodeVars, runtimeVars
<1>5. Shape(t)' /\ ~Active(t)' /\ \A s : ~RestsOn(t, s)'
  BY <1>3 DEF Shape, Active, RestsOn, Moving, Setup, Transit
<1>6. \A u \in Threads : Shape(u)'
  BY <1>2, <1>5, Elsewhere DEF IInv
<1>7. \A o : Calm(o)' => Calm(o)
  BY <1>1 DEF Calm
<1>8. \A u \in Threads \ {t} : CalmFor(u)' => CalmFor(u)
  BY <1>2, <1>7 DEF CalmFor, SameElsewhere
<1>9. Alone'
  BY <1>1, <1>2, <1>3 DEF IInv, Alone, SameElsewhere
<1>10. Resting'
  BY <1>2, <1>5, <1>8, Elsewhere DEF IInv, Resting
<1>11. Begun'
  BY <1>2, <1>5, <1>7, Elsewhere DEF IInv, Begun
<1> QED
  BY <1>4, <1>6, <1>9, <1>10, <1>11 DEF IInv

LEMMA EnterKeeps ==
    ASSUME IInv, NEW t \in Threads, Enter(t) PROVE IInv'
<1>1. TypeOK'
  <2>0. ThreadTypeOK /\ operation[t] # None
    BY DEF IInv, TypeOK, ThreadTypeOK, Enter
  <2>1. CASE CallTransition(t, "PROVISIONING")
    BY <2>0, <2>1, CallTypes
       DEF IInv, TypeOK, ThreadTypeOK, Enter, episodeVars, runtimeVars,
           Lifecycle!States
  <2>2. CASE Answer(t)
    BY <2>0, <2>2, AnswerTypes
       DEF IInv, TypeOK, ThreadTypeOK, Enter, episodeVars, runtimeVars
  <2>3. CASE Goto(t, "testing") /\ UNCHANGED <<operation, transitionVars>>
    BY <2>0, <2>3, GotoTypes
       DEF IInv, TypeOK, ThreadTypeOK, Enter, episodeVars, runtimeVars,
           transitionVars, Places
  <2> QED
    BY <2>1, <2>2, <2>3 DEF Enter
<1>2. SameElsewhere(t) /\ state' = state /\ repeated' = repeated
  BY DEF IInv, TypeOK, ThreadTypeOK, SameElsewhere, Enter, Goto, Answer,
         CallTransition, episodeVars, runtimeVars, transitionVars
<1>3. operation'[t] \in {operation[t], None}
  BY DEF IInv, TypeOK, ThreadTypeOK, Enter, Goto, Answer, CallTransition,
         episodeVars, runtimeVars, transitionVars
<1>4. Shape(t)'
  BY DEF IInv, TypeOK, ThreadTypeOK, Shape, Enter, Goto, Answer, CallTransition,
         episodeVars, runtimeVars, transitionVars, Setup, Transit, Operations,
         Lifecycle!States
<1>5. \A s \in Lifecycle!States : RestsOn(t, s)' => state = s \/ RestsOn(t, s)
  BY DEF IInv, TypeOK, ThreadTypeOK, Shape, RestsOn, Moving, From, Enter, Goto,
         Answer, CallTransition, episodeVars, runtimeVars, transitionVars, Setup,
         Transit, Operations, Lifecycle!States
<1>6. Active(t)' => Active(t) \/ Stage(state) >= Turn(operation[t])
  BY DEF IInv, TypeOK, ThreadTypeOK, Shape, Active, Stage, Turn, Enter, Goto, Answer,
         CallTransition, episodeVars, runtimeVars, transitionVars, Setup, Transit,
         Operations, Lifecycle!States
<1> QED
  BY <1>1, <1>2, <1>3, <1>4, <1>5, <1>6, OneThreadMoves

LEMMA TestStateKeeps ==
    ASSUME IInv, NEW t \in Threads, TestState(t) PROVE IInv'
<1>1. TypeOK'
  <2>0. ThreadTypeOK /\ operation[t] # None
    BY DEF IInv, TypeOK, ThreadTypeOK, TestState
  <2>1. CASE CallTransition(t, Started(operation[t]))
    BY <2>0, <2>1, CallTypes
       DEF IInv, TypeOK, ThreadTypeOK, TestState, Started, episodeVars, runtimeVars,
           Lifecycle!States
  <2>2. CASE Answer(t)
    BY <2>0, <2>2, AnswerTypes
       DEF IInv, TypeOK, ThreadTypeOK, TestState, episodeVars, runtimeVars
  <2> QED
    BY <2>1, <2>2 DEF TestState
<1>2. SameElsewhere(t) /\ state' = state /\ repeated' = repeated
  BY DEF IInv, TypeOK, ThreadTypeOK, SameElsewhere, TestState, Required, Started,
         Goto, Answer, CallTransition, episodeVars, runtimeVars, transitionVars
<1>3. operation'[t] \in {operation[t], None}
  BY DEF IInv, TypeOK, ThreadTypeOK, TestState, Required, Started, Goto, Answer,
         CallTransition, episodeVars, runtimeVars, transitionVars
<1>4. Shape(t)'
  BY DEF IInv, TypeOK, ThreadTypeOK, Shape, TestState, Required, Started, Goto,
         Answer, CallTransition, episodeVars, runtimeVars, transitionVars, Setup,
         Transit, Operations, Lifecycle!States
<1>5. \A s \in Lifecycle!States : RestsOn(t, s)' => state = s \/ RestsOn(t, s)
  BY DEF IInv, TypeOK, ThreadTypeOK, Shape, RestsOn, Moving, From, TestState,
         Required, Started, Goto, Answer, CallTransition, episodeVars, runtimeVars,
         transitionVars, Setup, Transit, Operations, Lifecycle!States
<1>6. Active(t)' => Active(t) \/ Stage(state) >= Turn(operation[t])
  BY DEF IInv, TypeOK, ThreadTypeOK, Shape, Active, Stage, Turn, TestState, Required,
         Started, Goto, Answer, CallTransition, episodeVars, runtimeVars,
         transitionVars, Setup, Transit, Operations, Lifecycle!States
<1> QED
  BY <1>1, <1>2, <1>3, <1>4, <1>5, <1>6, OneThreadMoves

LEMMA AssertTransitionKeeps ==
    ASSUME IInv, NEW t \in Threads, AssertTransition(t) PROVE IInv'
<1>1. TypeOK'
  <2>0. ThreadTypeOK /\ operation[t] # None
    BY DEF IInv, TypeOK, ThreadTypeOK, AssertTransition
  <2>1. CASE Answer(t)
    BY <2>0, <2>1, AnswerTypes
       DEF IInv, TypeOK, ThreadTypeOK, AssertTransition, episodeVars, runtimeVars
  <2>2. CASE ~Answer(t)
    <3>1. previous' \in [Threads -> Lifecycle!States \union {None}]
      BY <2>2 DEF IInv, TypeOK, ThreadTypeOK, AssertTransition
    <3> QED
      BY <2>0, <2>2, <3>1, GotoTypes
         DEF IInv, TypeOK, ThreadTypeOK, AssertTransition, episodeVars, runtimeVars,
             Places
  <2> QED
    BY <2>1, <2>2
<1>2. SameElsewhere(t) /\ state' = state /\ repeated' = repeated
  BY DEF IInv, TypeOK, ThreadTypeOK, SameElsewhere, AssertTransition, Goto, Answer,
         episodeVars, runtimeVars, transitionVars
<1>3. operation'[t] \in {operation[t], None}
  BY DEF IInv, TypeOK, ThreadTypeOK, AssertTransition, Goto, Answer, episodeVars,
         runtimeVars, transitionVars
<1>4. Shape(t)'
  BY DEF IInv, TypeOK, ThreadTypeOK, Shape, AssertTransition, Goto, Answer,
         episodeVars, runtimeVars, transitionVars, Setup, Transit, Operations,
         Lifecycle!States
<1>5. \A s \in Lifecycle!States : RestsOn(t, s)' => state = s \/ RestsOn(t, s)
  BY RelationAllows
     DEF IInv, TypeOK, ThreadTypeOK, Shape, RestsOn, Moving, From, AssertTransition,
         Goto, Answer, episodeVars, runtimeVars, transitionVars, Setup, Transit,
         Operations, Lifecycle!States
<1>6. Active(t)' => Active(t) \/ Stage(state) >= Turn(operation[t])
  BY DEF IInv, TypeOK, ThreadTypeOK, Shape, Active, Stage, Turn, AssertTransition,
         Goto, Answer, episodeVars, runtimeVars, transitionVars, Setup, Transit,
         Operations, Lifecycle!States
<1> QED
  BY <1>1, <1>2, <1>3, <1>4, <1>5, <1>6, OneThreadMoves

LEMMA FreezeKeeps ==
    ASSUME IInv, NEW t \in Threads, Freeze(t) PROVE IInv'
<1>1. TypeOK'
  BY HostAssumption
     DEF IInv, TypeOK, ThreadTypeOK, Shape, Freeze, Goto, episodeVars, runtimeVars,
         transitionVars, Places, Operations, Lifecycle!States
<1>2. SameElsewhere(t) /\ state' = state /\ repeated' = repeated
  BY DEF IInv, TypeOK, ThreadTypeOK, SameElsewhere, Freeze, Goto, episodeVars,
         runtimeVars, transitionVars
<1>3. operation'[t] \in {operation[t], None}
  BY DEF IInv, TypeOK, ThreadTypeOK, Freeze, Goto, episodeVars, runtimeVars,
         transitionVars
<1>4. Shape(t)'
  BY DEF IInv, TypeOK, ThreadTypeOK, Shape, Freeze, Goto, episodeVars, runtimeVars,
         transitionVars, Setup, Transit, Operations, Lifecycle!States
<1>5. \A s \in Lifecycle!States : RestsOn(t, s)' => state = s \/ RestsOn(t, s)
  BY DEF IInv, TypeOK, ThreadTypeOK, Shape, RestsOn, Moving, From, Freeze, Goto,
         episodeVars, runtimeVars, transitionVars, Setup, Transit, Operations,
         Lifecycle!States
<1>6. Active(t)' => Active(t) \/ Stage(state) >= Turn(operation[t])
  BY DEF IInv, TypeOK, ThreadTypeOK, Shape, Active, Stage, Turn, Freeze, Goto,
         episodeVars, runtimeVars, transitionVars, Setup, Transit, Operations,
         Lifecycle!States
<1> QED
  BY <1>1, <1>2, <1>3, <1>4, <1>5, <1>6, OneThreadMoves

LEMMA FreezeRaisesKeeps ==
    ASSUME IInv, NEW t \in Threads, FreezeRaises(t) PROVE IInv'
<1>1. TypeOK'
  BY HostAssumption
     DEF IInv, TypeOK, ThreadTypeOK, Shape, FreezeRaises, Goto, Answer, episodeVars,
         runtimeVars, transitionVars, Places, Operations, Lifecycle!States
<1>2. SameElsewhere(t) /\ state' = state /\ repeated' = repeated
  BY DEF IInv, TypeOK, ThreadTypeOK, SameElsewhere, FreezeRaises, Goto, Answer,
         episodeVars, runtimeVars, transitionVars
<1>3. operation'[t] \in {operation[t], None}
  BY DEF IInv, TypeOK, ThreadTypeOK, FreezeRaises, Goto, Answer, episodeVars,
         runtimeVars, transitionVars
<1>4. Shape(t)'
  BY DEF IInv, TypeOK, ThreadTypeOK, Shape, FreezeRaises, Goto, Answer, episodeVars,
         runtimeVars, transitionVars, Setup, Transit, Operations, Lifecycle!States
<1>5. \A s \in Lifecycle!States : RestsOn(t, s)' => state = s \/ RestsOn(t, s)
  BY DEF IInv, TypeOK, ThreadTypeOK, Shape, RestsOn, Moving, From, FreezeRaises,
         Goto, Answer, episodeVars, runtimeVars, transitionVars, Setup, Transit,
         Operations, Lifecycle!States
<1>6. Active(t)' => Active(t) \/ Stage(state) >= Turn(operation[t])
  BY DEF IInv, TypeOK, ThreadTypeOK, Shape, Active, Stage, Turn, FreezeRaises, Goto,
         Answer, episodeVars, runtimeVars, transitionVars, Setup, Transit, Operations,
         Lifecycle!States
<1> QED
  BY <1>1, <1>2, <1>3, <1>4, <1>5, <1>6, OneThreadMoves

LEMMA NumberRecordKeeps ==
    ASSUME IInv, NEW t \in Threads, NumberRecord(t) PROVE IInv'
<1>1. TypeOK'
  BY HostAssumption
     DEF IInv, TypeOK, ThreadTypeOK, Shape, NumberRecord, Goto, episodeVars,
         runtimeVars, transitionVars, Places, Operations, Lifecycle!States
<1>2. SameElsewhere(t) /\ state' = state /\ repeated' = repeated
  BY DEF IInv, TypeOK, ThreadTypeOK, SameElsewhere, NumberRecord, Goto, episodeVars,
         runtimeVars, transitionVars
<1>3. operation'[t] \in {operation[t], None}
  BY DEF IInv, TypeOK, ThreadTypeOK, NumberRecord, Goto, episodeVars, runtimeVars,
         transitionVars
<1>4. Shape(t)'
  BY DEF IInv, TypeOK, ThreadTypeOK, Shape, NumberRecord, Goto, episodeVars,
         runtimeVars, transitionVars, Setup, Transit, Operations, Lifecycle!States
<1>5. \A s \in Lifecycle!States : RestsOn(t, s)' => state = s \/ RestsOn(t, s)
  BY DEF IInv, TypeOK, ThreadTypeOK, Shape, RestsOn, Moving, From, NumberRecord,
         Goto, episodeVars, runtimeVars, transitionVars, Setup, Transit, Operations,
         Lifecycle!States
<1>6. Active(t)' => Active(t) \/ Stage(state) >= Turn(operation[t])
  BY DEF IInv, TypeOK, ThreadTypeOK, Shape, Active, Stage, Turn, NumberRecord, Goto,
         episodeVars, runtimeVars, transitionVars, Setup, Transit, Operations,
         Lifecycle!States
<1> QED
  BY <1>1, <1>2, <1>3, <1>4, <1>5, <1>6, OneThreadMoves

LEMMA AppendRecordKeeps ==
    ASSUME IInv, NEW t \in Threads, AppendRecord(t) PROVE IInv'
<1>1. TypeOK'
  <2>0. ThreadTypeOK /\ operation[t] # None
    BY DEF IInv, TypeOK, ThreadTypeOK, AppendRecord
  <2>1. BuiltRecord(t) \in Lifecycle!Record
    BY DEF IInv, TypeOK, ThreadTypeOK, Shape, AppendRecord, BuiltRecord,
           Lifecycle!Record, Transit, Lifecycle!States
  <2>2. records' \in Seq(Lifecycle!Record)
    BY <2>1 DEF IInv, TypeOK, ThreadTypeOK, AppendRecord
  <2>3. CASE Answer(t)
    BY <2>0, <2>2, <2>3, AnswerTypes
       DEF IInv, TypeOK, ThreadTypeOK, AppendRecord, runtimeVars
  <2>4. CASE ~Answer(t)
    BY <2>0, <2>2, <2>4, GotoTypes
       DEF IInv, TypeOK, ThreadTypeOK, AppendRecord, After, transitionVars,
           runtimeVars, Places
  <2> QED
    BY <2>3, <2>4
<1>2. SameElsewhere(t) /\ state' = state /\ repeated' = repeated
  BY DEF IInv, TypeOK, ThreadTypeOK, SameElsewhere, AppendRecord, BuiltRecord, After,
         Goto, Answer, episodeVars, runtimeVars, transitionVars
<1>3. operation'[t] \in {operation[t], None}
  BY DEF IInv, TypeOK, ThreadTypeOK, AppendRecord, BuiltRecord, After, Goto, Answer,
         episodeVars, runtimeVars, transitionVars
<1>4. Shape(t)'
  <2>0. /\ pc[t] = "appending" /\ DOMAIN pc = Threads /\ Shape(t)
        /\ operation[t] # None
    BY DEF IInv, TypeOK, ThreadTypeOK, AppendRecord
  <2>1. CASE After(target[t]) = "idle"
    <3>1. pc'[t] = "idle"
      BY <2>0, <2>1 DEF AppendRecord, Answer, Goto
    <3> QED
      BY <3>1 DEF Shape, Setup, Transit
  <2>2. CASE After(target[t]) # "idle"
    <3>1. pc'[t] = After(target[t]) /\ operation'[t] = operation[t]
      BY <2>0, <2>2 DEF AppendRecord, Goto
    <3>2. \/ After(target[t]) = "provisioning" /\ operation[t] = "provision"
          \/ After(target[t]) = "invoking" /\ operation[t] = "run"
          \/ After(target[t]) = "evaluating" /\ operation[t] = "verify"
      BY <2>0, <2>2 DEF Shape, Transit, After
    <3> QED
      BY <3>1, <3>2 DEF Shape, Setup, Transit
  <2> QED
    BY <2>1, <2>2
<1>5. \A s \in Lifecycle!States : RestsOn(t, s)' => state = s \/ RestsOn(t, s)
  BY DEF IInv, TypeOK, ThreadTypeOK, Shape, RestsOn, Moving, From, AppendRecord,
         BuiltRecord, After, Goto, Answer, episodeVars, runtimeVars, transitionVars,
         Setup, Transit, Operations, Lifecycle!States
<1>6. Active(t)' => Active(t) \/ Stage(state) >= Turn(operation[t])
  BY DEF IInv, TypeOK, ThreadTypeOK, Shape, Active, Stage, Turn, AppendRecord,
         BuiltRecord, After, Goto, Answer, episodeVars, runtimeVars, transitionVars,
         Setup, Transit, Operations, Lifecycle!States
<1> QED
  BY <1>1, <1>2, <1>3, <1>4, <1>5, <1>6, OneThreadMoves

LEMMA ProvisionEnvironmentKeeps ==
    ASSUME IInv, NEW t \in Threads, ProvisionEnvironment(t) PROVE IInv'
<1>1. TypeOK'
  <2>0. ThreadTypeOK /\ operation[t] # None
    BY DEF IInv, TypeOK, ThreadTypeOK, ProvisionEnvironment
  <2>1. CASE CallTransition(t, "INFRA_FAILED")
    BY <2>0, <2>1, CallTypes
       DEF IInv, TypeOK, ThreadTypeOK, ProvisionEnvironment, episodeVars,
           Lifecycle!States
  <2>2. CASE ~CallTransition(t, "INFRA_FAILED")
    BY <2>0, <2>2, GotoTypes
       DEF IInv, TypeOK, ThreadTypeOK, ProvisionEnvironment, episodeVars,
           transitionVars, Places
  <2> QED
    BY <2>1, <2>2 DEF ProvisionEnvironment
<1>2. SameElsewhere(t) /\ state' = state /\ repeated' = repeated
  BY DEF IInv, TypeOK, ThreadTypeOK, SameElsewhere, ProvisionEnvironment, Goto,
         CallTransition, episodeVars, runtimeVars, transitionVars
<1>3. operation'[t] \in {operation[t], None}
  BY DEF IInv, TypeOK, ThreadTypeOK, ProvisionEnvironment, Goto, CallTransition,
         episodeVars, runtimeVars, transitionVars
<1>4. Shape(t)'
  BY DEF IInv, TypeOK, ThreadTypeOK, Shape, ProvisionEnvironment, Goto,
         CallTransition, episodeVars, runtimeVars, transitionVars, Setup, Transit,
         Operations, Lifecycle!States
<1>5. \A s \in Lifecycle!States : RestsOn(t, s)' => state = s \/ RestsOn(t, s)
  BY DEF IInv, TypeOK, ThreadTypeOK, Shape, RestsOn, Moving, From,
         ProvisionEnvironment, Goto, CallTransition, episodeVars, runtimeVars,
         transitionVars, Setup, Transit, Operations, Lifecycle!States
<1>6. Active(t)' => Active(t) \/ Stage(state) >= Turn(operation[t])
  BY DEF IInv, TypeOK, ThreadTypeOK, Shape, Active, Stage, Turn, ProvisionEnvironment,
         Goto, CallTransition, episodeVars, runtimeVars, transitionVars, Setup,
         Transit, Operations, Lifecycle!States
<1> QED
  BY <1>1, <1>2, <1>3, <1>4, <1>5, <1>6, OneThreadMoves

LEMMA OpenSubjectKeeps ==
    ASSUME IInv, NEW t \in Threads, OpenSubject(t) PROVE IInv'
<1>1. TypeOK'
  <2>0. ThreadTypeOK /\ operation[t] # None
    BY DEF IInv, TypeOK, ThreadTypeOK, OpenSubject
  <2>1. CASE CallTransition(t, "INFRA_FAILED")
    BY <2>0, <2>1, CallTypes
       DEF IInv, TypeOK, ThreadTypeOK, OpenSubject, episodeVars, Lifecycle!States
  <2>2. CASE ~CallTransition(t, "INFRA_FAILED")
    BY <2>0, <2>2, GotoTypes
       DEF IInv, TypeOK, ThreadTypeOK, OpenSubject, episodeVars, transitionVars, Places
  <2> QED
    BY <2>1, <2>2 DEF OpenSubject
<1>2. SameElsewhere(t) /\ state' = state /\ repeated' = repeated
  BY DEF IInv, TypeOK, ThreadTypeOK, SameElsewhere, OpenSubject, Goto,
         CallTransition, episodeVars, runtimeVars, transitionVars
<1>3. operation'[t] \in {operation[t], None}
  BY DEF IInv, TypeOK, ThreadTypeOK, OpenSubject, Goto, CallTransition, episodeVars,
         runtimeVars, transitionVars
<1>4. Shape(t)'
  BY DEF IInv, TypeOK, ThreadTypeOK, Shape, OpenSubject, Goto, CallTransition,
         episodeVars, runtimeVars, transitionVars, Setup, Transit, Operations,
         Lifecycle!States
<1>5. \A s \in Lifecycle!States : RestsOn(t, s)' => state = s \/ RestsOn(t, s)
  BY DEF IInv, TypeOK, ThreadTypeOK, Shape, RestsOn, Moving, From, OpenSubject, Goto,
         CallTransition, episodeVars, runtimeVars, transitionVars, Setup, Transit,
         Operations, Lifecycle!States
<1>6. Active(t)' => Active(t) \/ Stage(state) >= Turn(operation[t])
  BY DEF IInv, TypeOK, ThreadTypeOK, Shape, Active, Stage, Turn, OpenSubject, Goto,
         CallTransition, episodeVars, runtimeVars, transitionVars, Setup, Transit,
         Operations, Lifecycle!States
<1> QED
  BY <1>1, <1>2, <1>3, <1>4, <1>5, <1>6, OneThreadMoves

LEMMA ResetEnvironmentKeeps ==
    ASSUME IInv, NEW t \in Threads, ResetEnvironment(t) PROVE IInv'
<1>1. TypeOK'
  <2>0. ThreadTypeOK /\ operation[t] # None
    BY DEF IInv, TypeOK, ThreadTypeOK, ResetEnvironment
  <2> QED
    BY <2>0, CallTypes
       DEF IInv, TypeOK, ThreadTypeOK, ResetEnvironment, episodeVars, runtimeVars,
           Lifecycle!States
<1>2. SameElsewhere(t) /\ state' = state /\ repeated' = repeated
  BY DEF IInv, TypeOK, ThreadTypeOK, SameElsewhere, ResetEnvironment, Goto,
         CallTransition, episodeVars, runtimeVars, transitionVars
<1>3. operation'[t] \in {operation[t], None}
  BY DEF IInv, TypeOK, ThreadTypeOK, ResetEnvironment, Goto, CallTransition,
         episodeVars, runtimeVars, transitionVars
<1>4. Shape(t)'
  BY DEF IInv, TypeOK, ThreadTypeOK, Shape, ResetEnvironment, Goto, CallTransition,
         episodeVars, runtimeVars, transitionVars, Setup, Transit, Operations,
         Lifecycle!States
<1>5. \A s \in Lifecycle!States : RestsOn(t, s)' => state = s \/ RestsOn(t, s)
  BY DEF IInv, TypeOK, ThreadTypeOK, Shape, RestsOn, Moving, From, ResetEnvironment,
         Goto, CallTransition, episodeVars, runtimeVars, transitionVars, Setup,
         Transit, Operations, Lifecycle!States
<1>6. Active(t)' => Active(t) \/ Stage(state) >= Turn(operation[t])
  BY DEF IInv, TypeOK, ThreadTypeOK, Shape, Active, Stage, Turn, ResetEnvironment,
         Goto, CallTransition, episodeVars, runtimeVars, transitionVars, Setup,
         Transit, Operations, Lifecycle!States
<1> QED
  BY <1>1, <1>2, <1>3, <1>4, <1>5, <1>6, OneThreadMoves

LEMMA InvokeSubjectKeeps ==
    ASSUME IInv, NEW t \in Threads, InvokeSubject(t) PROVE IInv'
<1>1. TypeOK'
  <2>0. ThreadTypeOK /\ operation[t] # None
    BY DEF IInv, TypeOK, ThreadTypeOK, InvokeSubject
  <2> QED
    BY <2>0, CallTypes, AnswerTypes
       DEF IInv, TypeOK, ThreadTypeOK, InvokeSubject, episodeVars, runtimeVars,
           Lifecycle!States
<1>2. SameElsewhere(t) /\ state' = state /\ repeated' = repeated
  BY DEF IInv, TypeOK, ThreadTypeOK, SameElsewhere, InvokeSubject, Goto, Answer,
         CallTransition, episodeVars, runtimeVars, transitionVars
<1>3. operation'[t] \in {operation[t], None}
  BY DEF IInv, TypeOK, ThreadTypeOK, InvokeSubject, Goto, Answer, CallTransition,
         episodeVars, runtimeVars, transitionVars
<1>4. Shape(t)'
  BY DEF IInv, TypeOK, ThreadTypeOK, Shape, InvokeSubject, Goto, Answer,
         CallTransition, episodeVars, runtimeVars, transitionVars, Setup, Transit,
         Operations, Lifecycle!States
<1>5. \A s \in Lifecycle!States : RestsOn(t, s)' => state = s \/ RestsOn(t, s)
  BY DEF IInv, TypeOK, ThreadTypeOK, Shape, RestsOn, Moving, From, InvokeSubject,
         Goto, Answer, CallTransition, episodeVars, runtimeVars, transitionVars,
         Setup, Transit, Operations, Lifecycle!States
<1>6. Active(t)' => Active(t) \/ Stage(state) >= Turn(operation[t])
  BY DEF IInv, TypeOK, ThreadTypeOK, Shape, Active, Stage, Turn, InvokeSubject, Goto,
         Answer, CallTransition, episodeVars, runtimeVars, transitionVars, Setup,
         Transit, Operations, Lifecycle!States
<1> QED
  BY <1>1, <1>2, <1>3, <1>4, <1>5, <1>6, OneThreadMoves

LEMMA EvaluateOracleKeeps ==
    ASSUME IInv, NEW t \in Threads, EvaluateOracle(t) PROVE IInv'
<1>1. TypeOK'
  <2>0. ThreadTypeOK /\ operation[t] # None
    BY DEF IInv, TypeOK, ThreadTypeOK, EvaluateOracle
  <2> QED
    BY <2>0, CallTypes, AnswerTypes
       DEF IInv, TypeOK, ThreadTypeOK, EvaluateOracle, runtimeVars, Lifecycle!States
<1>2. SameElsewhere(t) /\ state' = state /\ repeated' = repeated
  BY DEF IInv, TypeOK, ThreadTypeOK, SameElsewhere, EvaluateOracle, Goto, Answer,
         CallTransition, episodeVars, runtimeVars, transitionVars
<1>3. operation'[t] \in {operation[t], None}
  BY DEF IInv, TypeOK, ThreadTypeOK, EvaluateOracle, Goto, Answer, CallTransition,
         episodeVars, runtimeVars, transitionVars
<1>4. Shape(t)'
  BY DEF IInv, TypeOK, ThreadTypeOK, Shape, EvaluateOracle, Goto, Answer,
         CallTransition, episodeVars, runtimeVars, transitionVars, Setup, Transit,
         Operations, Lifecycle!States
<1>5. \A s \in Lifecycle!States : RestsOn(t, s)' => state = s \/ RestsOn(t, s)
  BY DEF IInv, TypeOK, ThreadTypeOK, Shape, RestsOn, Moving, From, EvaluateOracle,
         Goto, Answer, CallTransition, episodeVars, runtimeVars, transitionVars,
         Setup, Transit, Operations, Lifecycle!States
<1>6. Active(t)' => Active(t) \/ Stage(state) >= Turn(operation[t])
  BY DEF IInv, TypeOK, ThreadTypeOK, Shape, Active, Stage, Turn, EvaluateOracle, Goto,
         Answer, CallTransition, episodeVars, runtimeVars, transitionVars, Setup,
         Transit, Operations, Lifecycle!States
<1> QED
  BY <1>1, <1>2, <1>3, <1>4, <1>5, <1>6, OneThreadMoves

\* What a transition assigns is a state of its operation's turn or later.
LEMMA TargetStage ==
    ASSUME IInv, NEW t \in Threads, pc[t] = "assigning"
    PROVE  /\ target[t] \in Lifecycle!States
           /\ operation[t] \in Operations
           /\ Turn(operation[t]) <= Stage(target[t])
           /\ Active(t)
           /\ RestsOn(t, From(operation[t], target[t]))
BY DEF IInv, Shape, Transit, Turn, Stage, Operations, Lifecycle!States, Active, RestsOn,
       Moving

\* The state is assigned by a thread that rests on it, if its operation is calm;
\* if it is not, no calm thread of its turn or before has begun.
LEMMA AssignStateKeeps ==
    ASSUME IInv, NEW t \in Threads, AssignState(t)
    PROVE  IInv' /\ (CalmFor(t) => state' \in Lifecycle!Transitions[state])
<1>0. TypeOK /\ ThreadTypeOK /\ pc[t] = "assigning" /\ state' = target[t]
  BY DEF IInv, TypeOK, AssignState
<1>1. /\ target[t] \in Lifecycle!States
      /\ operation[t] \in Operations
      /\ Turn(operation[t]) <= Stage(target[t])
      /\ Active(t)
      /\ RestsOn(t, From(operation[t], target[t]))
  BY <1>0, TargetStage
<1>2. UNCHANGED <<repeated, records, shown, evaluation, sessions, handle, operation,
                  target, previous, sequence>>
  BY DEF AssignState, runtimeVars, transitionVars
<1>3. SameElsewhere(t) /\ pc'[t] = "appending"
  BY <1>0, <1>2 DEF ThreadTypeOK, AssignState, Goto, SameElsewhere
<1>4. CalmFor(t) => state' \in Lifecycle!Transitions[state]
  <2> SUFFICES ASSUME CalmFor(t) PROVE target[t] \in Lifecycle!Transitions[state]
    BY <1>0
  <2>1. state = From(operation[t], target[t])
    BY <1>1, AtTurn
  <2> QED
    BY <1>0, <2>1, RelationAllows DEF IInv, TypeOK, Shape, From, Transit
<1>5. TypeOK'
  <2>1. operation[t] # None
    BY <1>0 DEF ThreadTypeOK
  <2>2. ThreadTypeOK'
    BY <1>0, <1>2, <2>1, GotoTypes DEF ThreadTypeOK, AssignState, Places
  <2> QED
    BY <1>0, <1>1, <1>2, <2>2 DEF TypeOK
<1>6. \A u \in Threads : Shape(u)'
  <2>1. Shape(t)'
    BY <1>0, <1>2, <1>3 DEF IInv, Shape, Setup, Transit
  <2> QED
    BY <1>3, <2>1, Elsewhere DEF IInv
<1>7. /\ Alone'
      /\ \A op : Calm(op)' <=> Calm(op)
      /\ \A u \in Threads : CalmFor(u)' <=> CalmFor(u)
  BY <1>2 DEF IInv, Alone, Calm, CalmFor
<1>8. ASSUME NEW u \in Threads \ {t}, NEW op \in Operations, Active(u), Calm(op),
             Turn(op) < Turn(operation[u])
      PROVE  Turn(op) < Stage(target[t])
  <2>0. operation[u] \in Operations
    BY <1>8 DEF IInv, Shape, Active, Setup, Transit, Operations
  <2>1. CASE Turn(op) < Turn(operation[t])
    BY <1>1, <2>1, Turns
  <2>2. CASE Turn(operation[t]) <= Turn(op)
    <3>1. CalmFor(t)
      BY <1>0, <1>1, <1>8, <2>2, CalmBefore DEF CalmFor
    <3>2. Turn(operation[t]) <= Turn(operation[u])
      BY <1>1, <1>8, <2>0, <2>2, Turns
    <3> QED
      BY <1>1, <1>8, <2>0, <3>1, <3>2, OneRests
  <2> QED
    BY <1>1, <2>1, <2>2, Turns
<1>9. Begun'
  <2> SUFFICES ASSUME NEW u \in Threads, NEW op \in Operations, Active(u)',
                      Turn(op) < Turn(operation[u]), Calm(op)
               PROVE  Turn(op) < Stage(target[t])
    BY <1>0, <1>2, <1>7 DEF Begun
  <2>1. CASE u = t
    BY <1>1, <2>1, Turns
  <2>2. CASE u # t
    BY <1>3, <1>8, <2>2, Elsewhere
  <2> QED
    BY <2>1, <2>2
<1>10. ASSUME NEW u \in Threads \ {t}, NEW s \in Lifecycle!States, RestsOn(u, s),
              CalmFor(u)
       PROVE  FALSE
  <2>1. operation[u] \in Operations /\ Active(u) /\ Turn(operation[u]) = Stage(state)
    BY <1>10, AtTurn, RestsOnOwn DEF IInv
  <2>2. CASE Turn(operation[u]) <= Turn(operation[t])
    BY <1>1, <1>10, <2>1, <2>2, OneRests
  <2>3. CASE Turn(operation[t]) <= Turn(operation[u])
    <3>1. CalmFor(t)
      BY <1>0, <1>1, <1>10, <2>1, <2>3, CalmBefore DEF CalmFor
    <3> QED
      BY <1>1, <2>1, <2>3, <3>1, OneRests
  <2> QED
    BY <1>1, <2>1, <2>2, <2>3, Turns
<1>11. Resting'
  <2>1. \A s \in Lifecycle!States : RestsOn(t, s)' => state' = s
    BY <1>0, <1>2, <1>3 DEF RestsOn, Moving, Setup
  <2>2. \A u \in Threads \ {t}, s \in Lifecycle!States : ~(RestsOn(u, s)' /\ CalmFor(u)')
    BY <1>3, <1>7, <1>10, Elsewhere
  <2> QED
    BY <2>1, <2>2 DEF Resting
<1> QED
  BY <1>4, <1>5, <1>6, <1>7, <1>9, <1>11 DEF IInv

LEMMA NextKeeps == ASSUME IInv, [Next]_vars PROVE IInv'
<1>1. CASE UNCHANGED vars
  <2>1. UNCHANGED <<repeated, state, records, shown, evaluation, sessions, handle,
                    operation, pc, target, previous, sequence>>
    BY <1>1 DEF vars, episodeVars, runtimeVars, transitionVars
  <2>2. TypeOK'
    BY <2>1 DEF IInv, TypeOK, ThreadTypeOK
  <2>3. (\A t \in Threads : Shape(t)') /\ Alone'
    BY <2>1 DEF IInv, Shape, Alone
  <2>4. Resting'
    BY <2>1 DEF IInv, Resting, RestsOn, Moving, CalmFor, Calm
  <2>5. Begun'
    BY <2>1 DEF IInv, Begun, Active, Calm
  <2> QED
    BY <2>2, <2>3, <2>4, <2>5 DEF IInv
<1>2. ASSUME NEW t \in Threads, NEW op \in Operations, Receive(t, op) PROVE IInv'
  BY <1>2, ReceiveKeeps
<1>3. ASSUME NEW t \in Threads, Handle(t) PROVE IInv'
  BY <1>3, EnterKeeps, TestStateKeeps, AssertTransitionKeeps, FreezeKeeps,
     FreezeRaisesKeeps, NumberRecordKeeps, AssignStateKeeps, AppendRecordKeeps,
     ProvisionEnvironmentKeeps, OpenSubjectKeeps, ResetEnvironmentKeeps,
     InvokeSubjectKeeps, EvaluateOracleKeeps
     DEF Handle
<1> QED
  BY <1>1, <1>2, <1>3 DEF Next

LEMMA Invariance == Spec => []IInv
<1>1. IInv /\ [Next]_vars => IInv'
  BY NextKeeps
<1> QED
  BY <1>1, InitHolds, PTL DEF Spec

\* The types, for a pool of any size and any requests (http_server.py).
THEOREM TypeCorrect == Spec => []TypeOK
<1>1. IInv => TypeOK
  BY DEF IInv
<1> QED
  BY <1>1, Invariance, PTL

\* Handlers that wait for no lock still work on the Episode one at a time, until
\* an operation not after theirs is asked for a second time before its answer.
THEOREM WorkCorrect == Spec => []WorkIsExclusive
<1>1. IInv => WorkIsExclusive
  <2> SUFFICES ASSUME IInv PROVE WorkIsExclusive
    OBVIOUS
  <2>1. ASSUME NEW t \in Working
        PROVE  /\ t \in Threads /\ Active(t) /\ operation[t] \in Operations
               /\ \E s : RestsOn(t, s)
    <3>1. t \in Threads /\ Active(t) /\ \E s : RestsOn(t, s)
      BY <2>1 DEF Working, RestsOn, Setup, Active
    <3> QED
      BY <3>1, RestsOnOwn DEF IInv
  <2>2. ASSUME NEW t \in Working, NEW u \in Working, CalmFor(t),
               Turn(operation[t]) <= Turn(operation[u])
        PROVE  t = u
    BY <2>1, <2>2, OneRests
  <2>3. ASSUME NEW t \in Working, NEW u \in Working, CalmFor(t) PROVE t = u
    <3>1. CASE Turn(operation[t]) <= Turn(operation[u])
      BY <2>2, <2>3, <3>1
    <3>2. CASE Turn(operation[u]) <= Turn(operation[t])
      <4>1. CalmFor(u)
        BY <2>1, <2>3, <3>2, CalmBefore DEF CalmFor, IInv
      <4> QED
        BY <2>2, <3>2, <4>1
    <3> QED
      BY <2>1, <3>1, <3>2, Turns
  <2> QED
    BY <2>3 DEF WorkIsExclusive, CalmFor
<1> QED
  BY <1>1, Invariance, PTL

\* And a thread moves the state along the Core relation, although it has read,
\* asserted and assigned it in separate steps, if nothing up to its operation was
\* asked for again.
THEOREM WalkCorrect == Spec => StateWalks
<1>1. IInv /\ [Next]_vars => [\A t \in Threads : WalksOn(t)]_vars
  <2> SUFFICES ASSUME IInv, Next, NEW t \in Threads, pc[t] = "assigning",
                      pc'[t] = "appending", Calm(operation[t])
               PROVE  state' \in Lifecycle!Transitions[state]
    BY DEF vars, WalksOn
  <2>0. ThreadTypeOK
    BY DEF IInv, TypeOK
  <2>1. PICK u \in Threads : (\E op \in Operations : Receive(u, op)) \/ Handle(u)
    BY DEF Next
  <2>2. u = t
    BY <2>0, <2>1
       DEF ThreadTypeOK, Receive, Handle, Enter, TestState, AssertTransition, Freeze,
           FreezeRaises, NumberRecord, AssignState, AppendRecord, ProvisionEnvironment,
           OpenSubject, ResetEnvironment, InvokeSubject, EvaluateOracle, Goto, Answer,
           CallTransition
  <2>3. AssignState(t)
    BY <2>1, <2>2
       DEF Receive, Handle, Enter, TestState, AssertTransition, Freeze, FreezeRaises,
           NumberRecord, AppendRecord, ProvisionEnvironment, OpenSubject,
           ResetEnvironment, InvokeSubject, EvaluateOracle
  <2> QED
    BY <2>3, AssignStateKeeps DEF CalmFor
<1> QED
  BY <1>1, Invariance, PTL DEF Spec, StateWalks

-----------------------------------------------------------------------------
\* While a provision is on its way to its session there is none, and no handle.
NoneBefore ==
    /\ state = "CREATED" => handle = None /\ sessions = {}
    /\ \A t \in Threads :
        /\ pc[t] = "provisioning" => handle = None /\ sessions = {}
        /\ pc[t] = "appending" /\ target[t] = "PROVISIONING"
             => handle = None /\ sessions = {}
        /\ pc[t] = "opening" => handle = None /\ sessions \subseteq {t}

\* A provision is about to fail.
Failing(t) ==
    /\ operation[t] = "provision" /\ target[t] = "INFRA_FAILED"
    /\ pc[t] \in {"asserting", "numbering", "assigning"}

\* The Episode has failed, and no run or verification is left to move it on.
Doomed ==
    /\ state = "INFRA_FAILED"
    /\ \A t \in Threads : Active(t) => operation[t] = "provision"

NoneLost ==
    \A t \in sessions : handle = t \/ pc[t] = "opening" \/ Failing(t) \/ Doomed

Kept == "provision" \notin repeated => NoneBefore /\ NoneLost

\* A provision that is not repeated is undisturbed.
LEMMA ProvisionCalm ==
    ASSUME TypeOK, "provision" \notin repeated
    PROVE  Calm("provision")
BY DEF TypeOK, Calm, Turn, Operations

\* A step that neither opens a session nor assigns the state keeps it.
LEMMA OthersKeep ==
    ASSUME Kept, IInv, NEW t \in Threads, SameElsewhere(t), repeated \subseteq repeated',
           state' = state, UNCHANGED runtimeVars,
           pc'[t] \notin {"provisioning", "opening", "appending"}, pc[t] # "opening",
           "provision" \notin repeated /\ Failing(t) => Failing(t)',
           Active(t)' => \/ Active(t) /\ operation'[t] = operation[t]
                         \/ operation'[t] = "provision"
                         \/ state # "INFRA_FAILED"
    PROVE  Kept'
<1> SUFFICES ASSUME "provision" \notin repeated PROVE NoneBefore' /\ NoneLost'
  BY DEF Kept
<1>1. NoneBefore'
  BY DEF Kept, NoneBefore, SameElsewhere, runtimeVars
<1>2. \A u \in Threads : Failing(u) => Failing(u)'
  BY DEF Failing, SameElsewhere
<1>3. Doomed => Doomed'
  BY Elsewhere DEF Doomed
<1>4. \A u \in Threads : pc[u] = "opening" => pc'[u] = "opening"
  BY DEF SameElsewhere
<1>5. sessions \subseteq Threads /\ UNCHANGED <<sessions, handle>>
  BY DEF IInv, TypeOK, runtimeVars
<1>6. NoneLost'
  BY <1>2, <1>3, <1>4, <1>5 DEF Kept, NoneLost
<1> QED
  BY <1>1, <1>6

LEMMA KeptInit == Init => Kept
BY HostAssumption DEF Init, Kept, NoneBefore, NoneLost

\* The assertion of a failure holds: who makes it rests on the state.
LEMMA FailureAsserted ==
    ASSUME IInv, "provision" \notin repeated, NEW t \in Threads, Failing(t),
           AssertTransition(t)
    PROVE  Failing(t)'
<1>1. state = "PROVISIONING"
  <2>1. RestsOn(t, "PROVISIONING")
    BY DEF AssertTransition, Failing, From, RestsOn, Moving
  <2> QED
    BY <2>1, AtTurn, ProvisionCalm DEF IInv, CalmFor, Failing
<1>2. "INFRA_FAILED" \in Lifecycle!Transitions[state]
  BY <1>1, RelationAllows DEF Lifecycle!States
<1>3. /\ UNCHANGED <<operation, target>> /\ pc' = [pc EXCEPT ![t] = "numbering"]
      /\ DOMAIN pc = Threads
  BY <1>2 DEF AssertTransition, Goto, Failing, IInv, TypeOK, ThreadTypeOK
<1> QED
  BY <1>3 DEF Failing

\* While a calm provision is on its way nothing else is.
LEMMA OnlyProvision ==
    ASSUME IInv, "provision" \notin repeated, NEW t \in Threads, NEW s, RestsOn(t, s),
           operation[t] = "provision"
    PROVE  state = s /\ \A u \in Threads : Active(u) => u = t
<1>1. CalmFor(t)
  BY ProvisionCalm DEF CalmFor, IInv
<1>2. state = s
  BY <1>1, AtTurn
<1>3. ASSUME NEW u \in Threads, Active(u) PROVE u = t
  <2>1. operation[u] \in Operations
    BY <1>3 DEF IInv, Shape, Active, Setup, Transit, Operations
  <2>2. Turn(operation[t]) <= Turn(operation[u])
    BY <2>1 DEF Turn, Operations
  <2> QED
    BY <1>1, <1>3, <2>1, <2>2, OneRests
<1> QED
  BY <1>2, <1>3

LEMMA HandleKeeps ==
    ASSUME Kept, IInv, NEW t \in Threads, Handle(t)
    PROVE  Kept'
<1> DEFINE Quiet == \/ Enter(t) \/ TestState(t) \/ AssertTransition(t) \/ Freeze(t)
                    \/ FreezeRaises(t) \/ NumberRecord(t) \/ ResetEnvironment(t)
                    \/ InvokeSubject(t) \/ EvaluateOracle(t)
<1>0. TypeOK /\ ThreadTypeOK /\ sessions \subseteq Threads
  BY DEF IInv, TypeOK
<1>1. CASE Quiet
  <2>1. /\ SameElsewhere(t) /\ state' = state /\ UNCHANGED runtimeVars
        /\ repeated' = repeated
    BY <1>0, <1>1
       DEF ThreadTypeOK, SameElsewhere, Enter, TestState, AssertTransition, Freeze,
           FreezeRaises, NumberRecord, ResetEnvironment, InvokeSubject, EvaluateOracle,
           Goto, Answer, CallTransition, episodeVars, runtimeVars, transitionVars
  <2>2. pc'[t] \notin {"provisioning", "opening", "appending"} /\ pc[t] # "opening"
    BY <1>0, <1>1
       DEF ThreadTypeOK, Enter, TestState, AssertTransition, Freeze, FreezeRaises,
           NumberRecord, ResetEnvironment, InvokeSubject, EvaluateOracle, Goto, Answer,
           CallTransition
  <2>3. "provision" \notin repeated /\ Failing(t) => Failing(t)'
    <3> SUFFICES ASSUME "provision" \notin repeated, Failing(t) PROVE Failing(t)'
      OBVIOUS
    <3>1. CASE AssertTransition(t)
      BY <3>1, FailureAsserted
    <3>2. CASE NumberRecord(t)
      BY <1>0, <3>2 DEF NumberRecord, Failing, Goto, ThreadTypeOK
    <3> QED
      BY <1>1, <3>1, <3>2
         DEF Failing, Enter, TestState, Freeze, FreezeRaises, ResetEnvironment,
             InvokeSubject, EvaluateOracle
  <2>4. Active(t)' => \/ Active(t) /\ operation'[t] = operation[t]
                      \/ operation'[t] = "provision"
                      \/ state # "INFRA_FAILED"
    <3> USE DEF ThreadTypeOK, Active, Setup, Transit, Goto, Answer, CallTransition,
                transitionVars
    <3>1. CASE Enter(t) \/ TestState(t)
      BY <1>0, <3>1 DEF Enter, TestState, Required
    <3>2. CASE AssertTransition(t) \/ Freeze(t) \/ FreezeRaises(t) \/ NumberRecord(t)
      BY <1>0, <3>2 DEF AssertTransition, Freeze, FreezeRaises, NumberRecord
    <3>3. CASE ResetEnvironment(t) \/ InvokeSubject(t) \/ EvaluateOracle(t)
      BY <1>0, <3>3 DEF ResetEnvironment, InvokeSubject, EvaluateOracle
    <3> QED
      BY <1>1, <3>1, <3>2, <3>3
  <2> QED
    BY <2>1, <2>2, <2>3, <2>4, OthersKeep
<1>2. CASE AssignState(t)
  <2> SUFFICES ASSUME "provision" \notin repeated PROVE NoneBefore' /\ NoneLost'
    BY <1>2 DEF Kept, AssignState
  <2>1. /\ UNCHANGED <<sessions, handle, operation, target>>
        /\ pc' = [pc EXCEPT ![t] = "appending"] /\ pc[t] = "assigning"
        /\ state' = target[t]
    BY <1>2 DEF AssignState, Goto, runtimeVars, transitionVars
  <2>2. Active(t) /\ RestsOn(t, From(operation[t], target[t]))
    BY <2>1, TargetStage
  <2>3. \/ operation[t] = "provision" /\ target[t] \in {"PROVISIONING", "READY", "INFRA_FAILED"}
        \/ operation[t] \in {"run", "verify"} /\ target[t] \notin {"PROVISIONING", "CREATED"}
    BY <2>1 DEF IInv, Shape, Transit
  <2>4. CASE operation[t] = "provision"
    <3>1. /\ state = From(operation[t], target[t])
          /\ \A u \in Threads : Active(u) => u = t
      BY <2>2, <2>4, OnlyProvision
    <3>2. NoneBefore'
      BY <1>0, <2>1, <2>3, <2>4, <3>1
         DEF Kept, NoneBefore, ThreadTypeOK, From, Active, Setup, Transit
    <3>3. \A u \in Threads : Failing(u) \/ pc[u] = "opening" => u = t
      BY <3>1 DEF Failing, Active, Setup, Transit
    <3>4. ~Doomed
      BY <2>3, <2>4, <3>1 DEF Doomed, From
    <3>5. Failing(t) => Doomed'
      BY <1>0, <2>1, <2>4, <3>1 DEF Failing, Doomed, Active, ThreadTypeOK, Setup, Transit
    <3>6. NoneLost'
      BY <1>0, <2>1, <3>3, <3>4, <3>5 DEF Kept, NoneLost
    <3> QED
      BY <3>2, <3>6
  <2>5. CASE operation[t] \in {"run", "verify"}
    <3>1. ASSUME NEW u \in Threads, NEW s, RestsOn(u, s), operation[u] = "provision"
          PROVE  FALSE
      BY <2>2, <2>5, <3>1, OnlyProvision
    <3>2. ASSUME NEW u \in Threads PROVE pc[u] # "opening" /\ ~Failing(u)
      <4>1. pc[u] = "opening" => operation[u] = "provision"
        BY DEF IInv, Shape, Setup
      <4> QED
        BY <3>1, <4>1 DEF Failing, RestsOn, Moving, Setup
    <3>3. ~Doomed
      BY <2>2, <2>5 DEF Doomed
    <3>4. NoneLost'
      BY <1>0, <2>1, <3>2, <3>3 DEF Kept, NoneLost
    <3>5. NoneBefore'
      BY <1>0, <2>1, <2>3, <2>5 DEF Kept, NoneBefore, ThreadTypeOK
    <3> QED
      BY <3>4, <3>5
  <2> QED
    BY <2>3, <2>4, <2>5
<1>3. CASE AppendRecord(t)
  <2> SUFFICES ASSUME "provision" \notin repeated PROVE NoneBefore' /\ NoneLost'
    BY <1>3 DEF Kept, AppendRecord
  <2>1. /\ UNCHANGED <<state, sessions, handle>> /\ pc[t] = "appending"
        /\ SameElsewhere(t)
        /\ \/ pc'[t] = "idle"
           \/ pc'[t] = After(target[t]) /\ operation' = operation
    BY <1>0, <1>3 DEF AppendRecord, Answer, Goto, ThreadTypeOK, SameElsewhere,
                      runtimeVars, transitionVars
  <2>2. After(target[t]) \in {"idle", "provisioning", "invoking", "evaluating"}
        /\ (After(target[t]) = "provisioning" => target[t] = "PROVISIONING")
    BY DEF After
  <2>3. NoneBefore'
    BY <2>1, <2>2 DEF Kept, NoneBefore, SameElsewhere
  <2>4. Doomed => Doomed'
    BY <2>1, Elsewhere DEF Doomed, Active, Transit, Setup
  <2>5. \A u \in Threads : (Failing(u) => Failing(u)')
                           /\ (pc[u] = "opening" => pc'[u] = "opening")
    BY <2>1 DEF Failing, SameElsewhere
  <2>6. NoneLost'
    BY <1>0, <2>1, <2>4, <2>5 DEF Kept, NoneLost
  <2> QED
    BY <2>3, <2>6
<1>4. CASE ProvisionEnvironment(t) \/ OpenSubject(t)
  <2> SUFFICES ASSUME "provision" \notin repeated PROVE NoneBefore' /\ NoneLost'
    BY <1>4 DEF Kept, ProvisionEnvironment, OpenSubject
  <2>1. pc[t] \in {"provisioning", "opening"} /\ SameElsewhere(t) /\ state' = state
    BY <1>0, <1>4
       DEF ProvisionEnvironment, OpenSubject, CallTransition, Goto, episodeVars,
           transitionVars, ThreadTypeOK, SameElsewhere
  <2>2. operation[t] = "provision" /\ RestsOn(t, "PROVISIONING")
    BY <2>1 DEF IInv, Shape, Setup, RestsOn
  <2>3. state = "PROVISIONING" /\ \A u \in Threads : Active(u) => u = t
    BY <2>2, OnlyProvision
  <2>4. \A u \in Threads \ {t} : pc'[u] \notin {"provisioning", "opening", "appending"}
    BY <2>1, <2>3 DEF SameElsewhere, Active, Setup, Transit
  <2>5. handle = None /\ sessions \subseteq {t} /\ (pc[t] = "provisioning" => sessions = {})
    BY <2>1 DEF Kept, NoneBefore
  <2>6. \/ pc'[t] = "opening" /\ handle' = None /\ sessions' = {t}
        \/ pc'[t] = "resetting" /\ handle' = t /\ sessions' = sessions
        \/ /\ pc'[t] = "asserting" /\ target'[t] = "INFRA_FAILED"
           /\ operation'[t] = "provision" /\ handle' = None /\ sessions' = sessions
    BY <1>0, <1>4, <2>1, <2>2, <2>5
       DEF ProvisionEnvironment, OpenSubject, CallTransition, Goto, ThreadTypeOK
  <2>7. NoneBefore'
    BY <2>1, <2>3, <2>4, <2>6 DEF NoneBefore
  <2>8. NoneLost'
    BY <2>5, <2>6 DEF NoneLost, Failing
  <2> QED
    BY <2>7, <2>8
<1> QED
  BY <1>1, <1>2, <1>3, <1>4 DEF Handle

LEMMA NextKeepsHandles == ASSUME Kept, IInv, [Next]_vars PROVE Kept'
<1>1. CASE UNCHANGED vars
  BY <1>1 DEF Kept, NoneBefore, NoneLost, Failing, Doomed, Active, vars, episodeVars,
              runtimeVars, transitionVars
<1>2. ASSUME NEW t \in Threads, NEW op \in Operations, Receive(t, op) PROVE Kept'
  <2>1. /\ SameElsewhere(t) /\ state' = state /\ UNCHANGED runtimeVars
        /\ repeated \subseteq repeated'
    BY <1>2 DEF IInv, TypeOK, ThreadTypeOK, SameElsewhere, Receive, Goto, episodeVars,
                runtimeVars, transitionVars
  <2>2. pc[t] = "idle" /\ pc'[t] = "called"
    BY <1>2 DEF IInv, TypeOK, ThreadTypeOK, Receive, Goto
  <2>3. ~Failing(t) /\ ~Active(t)'
    BY <2>2 DEF Failing, Active, Setup, Transit
  <2> QED
    BY <2>1, <2>2, <2>3, OthersKeep
<1>3. ASSUME NEW t \in Threads, Handle(t) PROVE Kept'
  BY <1>3, HandleKeeps
<1> QED
  BY <1>1, <1>2, <1>3 DEF Next

\* The engine loses an environment session only by the failure of the provision
\* that has opened it, as long as there is one provision at a time: no run and no
\* verification loses another one, however many of them overlap.
THEOREM SessionsCorrect == Spec => []LostOnlyByFailure
<1>1. Kept /\ IInv /\ [Next]_vars => Kept'
  BY NextKeepsHandles
<1>2. Kept => LostOnlyByFailure
  BY DEF Kept, NoneLost, Failing, Doomed, LostOnlyByFailure
<1> QED
  BY <1>1, <1>2, KeptInit, Invariance, PTL DEF Spec

-----------------------------------------------------------------------------
\* Where a state is on the way from CREATED: every transition goes on.
Rank(s) ==
    IF s = "CREATED" THEN 0
    ELSE IF s = "PROVISIONING" THEN 1
    ELSE IF s = "READY" THEN 2
    ELSE IF s \in {"RUNNING", "PAUSED"} THEN 3
    ELSE IF s = "QUIESCING" THEN 4
    ELSE IF s = "VERIFYING" THEN 5 ELSE 6

\* The threads that have moved the state and not yet recorded it.
Appending == {t \in Threads : pc[t] = "appending"}

\* The states the records say were entered, and those entered and left when the
\* records still to come are counted.
Resulting == {records[i].resulting : i \in DOMAIN records}
Entered == Resulting \union {target[t] : t \in Appending}
Left == {records[i].previous : i \in DOMAIN records} \union {previous[t] : t \in Appending}

\* What transition has read of the state is true until it assigns it.
PreviousIsState ==
    \A t \in Threads :
        pc[t] \in {"freezing", "numbering", "assigning"} => previous[t] = state

\* No state has two records, there or to come.
RecordedOnce ==
    /\ IsFiniteSet(Resulting)
    /\ Cardinality(Resulting) = Len(records)
    /\ \A t \in Appending : target[t] \notin Resulting
    /\ \A t, u \in Appending : target[t] = target[u] => t = u

\* The records, there and to come, lead from CREATED to the present state.
Walked ==
    /\ Left \union {state} = Entered \union {"CREATED"}
    /\ \A s \in Left : Rank(s) < Rank(state)

\* Whatever is asked for again, what a transition leaves has been entered.
Traced ==
    /\ \A t \in Threads :
        pc[t] \in {"freezing", "numbering", "assigning"}
            => previous[t] \in Entered \union {"CREATED"}
    /\ Left \union {state} \subseteq Entered \union {"CREATED"}

Complete ==
    /\ Traced
    /\ repeated = {} => PreviousIsState /\ RecordedOnce /\ Walked

LEMMA CompleteInit == Init => Complete
<1> SUFFICES ASSUME Init PROVE Complete
  OBVIOUS
<1>1. Appending = {} /\ Resulting = {} /\ Len(records) = 0 /\ state = "CREATED"
  BY DEF Init, Appending, Resulting
<1>2. Entered = {} /\ Left = {}
  BY <1>1 DEF Init, Entered, Left
<1>3. RecordedOnce
  BY <1>1, FS_EmptySet DEF RecordedOnce
<1>4. PreviousIsState
  BY DEF Init, PreviousIsState
<1>5. Traced
  BY <1>1, <1>2 DEF Init, Traced
<1> QED
  BY <1>1, <1>2, <1>3, <1>4, <1>5 DEF Complete, Walked

\* A step that neither assigns the state nor appends keeps it, if what it has
\* read is the state.
LEMMA OthersWalk ==
    ASSUME Complete, NEW t \in Threads, SameElsewhere(t), UNCHANGED <<state, records>>,
           repeated \subseteq repeated', pc[t] # "appending", pc'[t] # "appending",
           pc'[t] \in {"freezing", "numbering", "assigning"} =>
               \/ previous'[t] = state
               \/ /\ pc[t] \in {"freezing", "numbering", "assigning"}
                  /\ previous'[t] = previous[t]
    PROVE  Complete'
<1>1. /\ Appending' = Appending
      /\ \A u \in Appending : target'[u] = target[u] /\ previous'[u] = previous[u]
  BY DEF Appending, SameElsewhere
<1>2. Resulting' = Resulting /\ Entered' = Entered /\ Left' = Left
  BY <1>1 DEF Resulting, Entered, Left
<1>3. PreviousIsState => PreviousIsState'
  BY DEF PreviousIsState, SameElsewhere
<1>4. Traced'
  BY <1>2 DEF Complete, Traced, SameElsewhere
<1>5. repeated' = {} => RecordedOnce' /\ Walked' /\ PreviousIsState'
  BY <1>1, <1>2, <1>3 DEF Complete, RecordedOnce, Walked
<1> QED
  BY <1>4, <1>5 DEF Complete

\* A transition goes on from a state that has not been left to one that has not
\* been entered.
LEMMA TransitionGoesOn ==
    ASSUME IInv, Complete, repeated = {}, NEW t \in Threads, AssignState(t)
    PROVE  /\ state = previous[t]
           /\ target[t] \in Lifecycle!States
           /\ Rank(state) < Rank(target[t])
           /\ target[t] \notin Entered \union {"CREATED"}
<1>1. state = previous[t]
  BY DEF AssignState, Complete, PreviousIsState
<1>2. state = From(operation[t], target[t])
  <2>1. RestsOn(t, From(operation[t], target[t]))
    BY DEF AssignState, RestsOn, Moving
  <2> QED
    BY <2>1, AtTurn DEF CalmFor, Calm
<1>3. target[t] \in {"PROVISIONING", "READY", "INFRA_FAILED", "RUNNING", "QUIESCING",
                     "VERIFYING", "COMPLETED", "INVALID"}
  BY DEF AssignState, IInv, Shape, Transit
<1>4. Rank(state) < Rank(target[t])
  BY <1>2, <1>3 DEF From, Rank
<1>5. Rank(target[t]) > 0 /\ Rank("CREATED") = 0
  BY <1>3 DEF Rank
<1>6. \A s \in Entered : Rank(s) <= Rank(state)
  BY DEF Complete, Walked, Rank
<1> QED
  BY <1>1, <1>3, <1>4, <1>5, <1>6 DEF Rank, Lifecycle!States

LEMMA AssignStateWalks ==
    ASSUME IInv, Complete, NEW t \in Threads, AssignState(t)
    PROVE  Complete'
<1>0. ThreadTypeOK
  BY DEF IInv, TypeOK
<1>1. /\ SameElsewhere(t) /\ pc'[t] = "appending" /\ state' = target[t]
      /\ UNCHANGED <<records, target, previous>>
  BY <1>0 DEF AssignState, SameElsewhere, Goto, ThreadTypeOK, transitionVars
<1>2. Appending' = Appending \union {t} /\ t \notin Appending
  BY <1>1 DEF Appending, SameElsewhere, AssignState
<1>3. /\ Resulting' = Resulting
      /\ Entered' = Entered \union {target[t]}
      /\ Left' = Left \union {previous[t]}
  BY <1>1, <1>2 DEF Resulting, Entered, Left
<1>4. Traced'
  <2>1. \A u \in Threads : pc'[u] \in {"freezing", "numbering", "assigning"}
            => previous'[u] = previous[u] /\ pc[u] = pc'[u]
    BY <1>1 DEF SameElsewhere
  <2>2. previous[t] \in Entered \union {"CREATED"}
    BY DEF AssignState, Complete, Traced
  <2> QED
    BY <1>1, <1>3, <2>1, <2>2 DEF Complete, Traced
<1> SUFFICES ASSUME repeated' = {} PROVE PreviousIsState' /\ RecordedOnce' /\ Walked'
  BY <1>4 DEF Complete
<1>5. repeated = {} /\ PreviousIsState /\ RecordedOnce /\ Walked
  BY DEF AssignState, Complete
<1>6. PreviousIsState'
  <2> SUFFICES ASSUME NEW u \in Threads \ {t},
                      pc[u] \in {"freezing", "numbering", "assigning"}
               PROVE  FALSE
    BY <1>1 DEF PreviousIsState, SameElsewhere
  <2>1. /\ RestsOn(u, From(operation[u], target[u])) /\ CalmFor(u)
        /\ RestsOn(t, From(operation[t], target[t])) /\ CalmFor(t)
    BY <1>5 DEF RestsOn, Moving, AssignState, CalmFor, Calm
  <2>2. /\ Active(u) /\ operation[u] \in Operations /\ Turn(operation[u]) = Stage(state)
        /\ Turn(operation[t]) = Stage(state)
    BY <2>1, AtTurn, RestsOnOwn DEF IInv
  <2> QED
    BY <2>1, <2>2, OneRests, Turns
<1>7. RecordedOnce'
  <2>1. target[t] \notin Resulting /\ \A u \in Appending : target[u] # target[t]
    BY <1>5, TransitionGoesOn DEF Entered
  <2> QED
    BY <1>1, <1>2, <1>3, <1>5, <2>1 DEF RecordedOnce
<1>8. Walked'
  <2>1. \A s \in Left : Rank(s) < Rank(target[t])
    BY <1>5, TransitionGoesOn DEF Walked, Rank
  <2> QED
    BY <1>1, <1>3, <1>5, <2>1, TransitionGoesOn DEF Walked
<1> QED
  BY <1>6, <1>7, <1>8

LEMMA AppendRecordWalks ==
    ASSUME IInv, Complete, NEW t \in Threads, AppendRecord(t)
    PROVE  Complete'
<1>0. ThreadTypeOK /\ records \in Seq(Lifecycle!Record)
  BY DEF IInv, TypeOK
<1>1. SameElsewhere(t) /\ state' = state /\ pc[t] = "appending"
  BY <1>0 DEF AppendRecord, SameElsewhere, Answer, Goto, After, ThreadTypeOK, transitionVars
<1>2. pc'[t] \in {"idle", "provisioning", "invoking", "evaluating"}
  BY <1>0 DEF AppendRecord, Answer, Goto, After, ThreadTypeOK
<1>3. Appending' = Appending \ {t} /\ t \in Appending
  BY <1>1, <1>2 DEF Appending, SameElsewhere
<1>4. records' = Append(records, BuiltRecord(t))
  BY DEF AppendRecord
<1>5. /\ Len(records') = Len(records) + 1
      /\ DOMAIN records' = DOMAIN records \union {Len(records) + 1}
      /\ \A i \in DOMAIN records : records'[i] = records[i]
      /\ records'[Len(records) + 1] = BuiltRecord(t)
  BY <1>0, <1>4
<1>6. BuiltRecord(t).resulting = target[t] /\ BuiltRecord(t).previous = previous[t]
  BY DEF BuiltRecord
<1>7. Resulting' = Resulting \union {target[t]}
  BY <1>5, <1>6 DEF Resulting
<1>8. Entered' = Entered
  <2>1. {target'[u] : u \in Appending'} \union {target[t]} = {target[u] : u \in Appending}
    <3>1. \A u \in Appending' : target'[u] = target[u] /\ u \in Appending
      BY <1>1, <1>3 DEF SameElsewhere, Appending
    <3>2. \A u \in Appending : u = t \/ u \in Appending'
      BY <1>3
    <3> QED
      BY <1>3, <3>1, <3>2
  <2> QED
    BY <1>7, <2>1 DEF Entered
<1>9. Left' = Left
  <2>1. {records'[i].previous : i \in DOMAIN records'}
          = {records[i].previous : i \in DOMAIN records} \union {previous[t]}
    BY <1>5, <1>6
  <2>2. {previous'[u] : u \in Appending'} \union {previous[t]}
          = {previous[u] : u \in Appending}
    <3>1. \A u \in Appending' : previous'[u] = previous[u] /\ u \in Appending
      BY <1>1, <1>3 DEF SameElsewhere, Appending
    <3>2. \A u \in Appending : u = t \/ u \in Appending'
      BY <1>3
    <3> QED
      BY <1>3, <3>1, <3>2
  <2> QED
    BY <2>1, <2>2 DEF Left
<1>10. Traced'
  <2>1. \A u \in Threads : pc'[u] \in {"freezing", "numbering", "assigning"}
            => previous'[u] = previous[u] /\ pc[u] = pc'[u]
    BY <1>1, <1>2 DEF SameElsewhere
  <2> QED
    BY <1>1, <1>8, <1>9, <2>1 DEF Complete, Traced
<1> SUFFICES ASSUME repeated' = {} PROVE PreviousIsState' /\ RecordedOnce' /\ Walked'
  BY <1>10 DEF Complete
<1>11. PreviousIsState /\ RecordedOnce /\ Walked
  BY DEF AppendRecord, Complete
<1>12. RecordedOnce'
  <2>1. target[t] \notin Resulting
    BY <1>3, <1>11 DEF RecordedOnce
  <2>2. IsFiniteSet(Resulting') /\ Cardinality(Resulting') = Cardinality(Resulting) + 1
    BY <1>7, <1>11, <2>1, FS_AddElement DEF RecordedOnce
  <2>3. \A u \in Appending' : target'[u] \notin Resulting'
    BY <1>1, <1>3, <1>7, <1>11 DEF RecordedOnce, SameElsewhere, Appending
  <2>4. \A u, v \in Appending' : target'[u] = target'[v] => u = v
    BY <1>1, <1>3, <1>11 DEF RecordedOnce, SameElsewhere, Appending
  <2> QED
    BY <1>5, <1>11, <2>2, <2>3, <2>4 DEF RecordedOnce
<1>13. PreviousIsState'
  BY <1>1, <1>2, <1>11 DEF PreviousIsState, SameElsewhere
<1> QED
  BY <1>1, <1>8, <1>9, <1>11, <1>12, <1>13 DEF Walked

LEMMA HandleWalks ==
    ASSUME IInv, Complete, NEW t \in Threads, Handle(t)
    PROVE  Complete'
<1>0. ThreadTypeOK
  BY DEF IInv, TypeOK
<1>1. CASE AssignState(t)
  BY <1>1, AssignStateWalks
<1>2. CASE AppendRecord(t)
  BY <1>2, AppendRecordWalks
<1>3. CASE AssertTransition(t) \/ Freeze(t) \/ NumberRecord(t)
  <2>1. /\ SameElsewhere(t) /\ UNCHANGED <<state, records>>
        /\ pc[t] # "appending" /\ pc'[t] # "appending" /\ repeated' = repeated
    BY <1>0, <1>3
       DEF AssertTransition, Freeze, NumberRecord, SameElsewhere, Answer, Goto,
           ThreadTypeOK, episodeVars, transitionVars
  <2>2. pc'[t] \in {"freezing", "numbering", "assigning"} =>
            \/ previous'[t] = state
            \/ /\ pc[t] \in {"freezing", "numbering", "assigning"}
               /\ previous'[t] = previous[t]
    BY <1>0, <1>3
       DEF AssertTransition, Freeze, NumberRecord, Answer, Goto, ThreadTypeOK,
           transitionVars
  <2> QED
    BY <2>1, <2>2, OthersWalk
<1>4. CASE Enter(t) \/ TestState(t) \/ FreezeRaises(t) \/ ProvisionEnvironment(t)
             \/ OpenSubject(t) \/ ResetEnvironment(t) \/ InvokeSubject(t)
             \/ EvaluateOracle(t)
  <2>1. /\ SameElsewhere(t) /\ UNCHANGED <<state, records>>
        /\ pc[t] # "appending" /\ repeated' = repeated
        /\ pc'[t] \notin {"freezing", "numbering", "assigning", "appending"}
    BY <1>0, <1>4
       DEF Enter, TestState, FreezeRaises, ProvisionEnvironment, OpenSubject,
           ResetEnvironment, InvokeSubject, EvaluateOracle, SameElsewhere, Answer,
           CallTransition, Goto, ThreadTypeOK, episodeVars, transitionVars
  <2> QED
    BY <2>1, OthersWalk
<1> QED
  BY <1>1, <1>2, <1>3, <1>4 DEF Handle

LEMMA NextWalks == ASSUME IInv, Complete, [Next]_vars PROVE Complete'
<1>1. CASE UNCHANGED vars
  <2>1. UNCHANGED <<repeated, state, records, pc, target, previous>>
    BY <1>1 DEF vars, episodeVars, transitionVars
  <2>2. Appending' = Appending /\ Resulting' = Resulting
    BY <2>1 DEF Appending, Resulting
  <2>3. Entered' = Entered /\ Left' = Left
    BY <2>1, <2>2 DEF Entered, Left
  <2> QED
    BY <2>1, <2>2, <2>3 DEF Complete, Traced, PreviousIsState, RecordedOnce,
                                 Walked
<1>2. ASSUME NEW t \in Threads, NEW op \in Operations, Receive(t, op) PROVE Complete'
  <2>1. /\ SameElsewhere(t) /\ UNCHANGED <<state, records>>
        /\ pc[t] = "idle" /\ pc'[t] = "called" /\ repeated \subseteq repeated'
    BY <1>2 DEF IInv, TypeOK, ThreadTypeOK, SameElsewhere, Receive, Goto, episodeVars,
                transitionVars
  <2> QED
    BY <2>1, OthersWalk
<1>3. ASSUME NEW t \in Threads, Handle(t) PROVE Complete'
  BY <1>3, HandleWalks
<1> QED
  BY <1>1, <1>2, <1>3 DEF Next

\* Whenever no transition is half-way, the records enter every state the Episode
\* is in or has left, and if nothing was asked for again they are the steps of one
\* walk: none is lost, none is there twice (runtime/episode.py:125).
THEOREM HistoryCorrect == Spec => []HistoryIsComplete
<1>1. Complete => HistoryIsComplete
  <2> SUFFICES ASSUME Complete, Appending = {} PROVE HistoryIsComplete
    BY DEF HistoryIsComplete, Appending
  <2>1. /\ \A move \in Moves : \E i \in DOMAIN records :
               move[1] = records[i].previous /\ move[2] = records[i].resulting
        /\ \A i \in DOMAIN records : \E move \in Moves :
               move[1] = records[i].previous /\ move[2] = records[i].resulting
    <3>1. ASSUME NEW i \in DOMAIN records
          PROVE  \E move \in Moves :
                     move[1] = records[i].previous /\ move[2] = records[i].resulting
      <4>1. <<records[i].previous, records[i].resulting>> \in Moves
        BY DEF Moves
      <4> QED
        BY <4>1
    <3> QED
      BY <3>1 DEF Moves
  <2>2. StatesLeft = Left
    <3>1. Left = {records[i].previous : i \in DOMAIN records}
      BY DEF Left
    <3>2. \A s : s \in StatesLeft <=> \E i \in DOMAIN records : s = records[i].previous
      BY <2>1 DEF StatesLeft
    <3> QED
      BY <3>1, <3>2
  <2>3. StatesEntered = Entered /\ Entered = Resulting
    <3>1. Entered = Resulting
      BY DEF Entered
    <3>2. \A s : s \in StatesEntered
                <=> \E i \in DOMAIN records : s = records[i].resulting
      BY <2>1 DEF StatesEntered
    <3> QED
      BY <3>1, <3>2 DEF Resulting
  <2>4. StatesLeft \union {state} \subseteq StatesEntered \union {"CREATED"}
    BY <2>2, <2>3 DEF Complete, Traced
  <2>5. ASSUME repeated = {}
        PROVE  /\ Cardinality(StatesEntered) = Len(records)
               /\ StatesEntered \subseteq StatesLeft \union {state}
               /\ state \notin StatesLeft
    BY <2>2, <2>3, <2>5 DEF Complete, RecordedOnce, Walked, Rank
  <2> QED
    BY <2>4, <2>5 DEF HistoryIsComplete
<1>2. IInv /\ Complete /\ [Next]_vars => Complete'
  BY NextWalks
<1> QED
  BY <1>1, <1>2, CompleteInit, Invariance, PTL DEF Spec

=============================================================================
