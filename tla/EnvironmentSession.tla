--------------------------- MODULE EnvironmentSession ---------------------------
(***************************************************************************)
(* InMemoryCommerceAdapter (environment/in_memory.py) over CommerceWorld   *)
(* (world.py): sessions by handle, each with a world, snapshots and fault  *)
(* rules that count the calls of their tool.                               *)
(*                                                                         *)
(* What a tool does to the world is left open.  A call that is refused     *)
(* (stale handle, tool not allowed, unknown fault target) changes nothing  *)
(* and is no step.  A handle's identifier is new, so handles are not used  *)
(* a second time.                                                          *)
(***************************************************************************)
EXTENDS Integers, Sequences

CONSTANTS
    Handles,        \* EnvironmentHandles
    Tools,          \* tools the Scenario provisions
    Contents,       \* what CommerceWorld._state can be
    InitialContent,
    Occurrences,    \* FaultSpec.occurrence
    None

ASSUME EnvironmentAssumption ==
    /\ InitialContent \in Contents
    /\ Occurrences \subseteq Nat \ {0}

VARIABLES
    status,         \* whether a handle is new, has a session, or is released
    world,          \* _Session.world: its state and its logical time
    snapshots,      \* _Session.snapshots, in the order of their numbers
    faults,         \* _Session.faults, in the order of the dictionary
    refs,           \* SnapshotRefs that were handed out
    fired,          \* history: the rule that the last step has activated
    written         \* history: what the session's own calls made of its world

vars == <<status, world, snapshots, faults, refs, fired, written>>

World == [content : Contents, time : Nat]
InitialWorld == [content |-> InitialContent, time |-> 0]

\* SnapshotRef: the state digest stands for the state.
Ref == [handle : Handles, number : Nat \ {0}, world : World]

\* _FaultRule; since and overtaken are history: the calls of the tool since the
\* rule is there, and how many of them another rule has answered.
Rule == [target : Tools, occurrence : Occurrences, seen : Nat,
         since : Nat, overtaken : Nat]

SessionInit ==
    /\ status = [h \in Handles |-> "new"]
    /\ world = [h \in Handles |-> InitialWorld]
    /\ snapshots = [h \in Handles |-> <<>>]
    /\ faults = [h \in Handles |-> <<>>]
    /\ refs = {}
    /\ fired = None
    /\ written = [h \in Handles |-> {InitialContent}]

Live(h) == status[h] = "live"

-----------------------------------------------------------------------------
Provision(h) ==
    /\ status[h] = "new"
    /\ status' = [status EXCEPT ![h] = "live"]
    /\ fired' = None
    /\ UNCHANGED <<world, snapshots, faults, refs, written>>

Release(h) ==
    /\ Live(h)
    /\ status' = [status EXCEPT ![h] = "released"]
    /\ world' = [world EXCEPT ![h] = InitialWorld]
    /\ snapshots' = [snapshots EXCEPT ![h] = <<>>]
    /\ faults' = [faults EXCEPT ![h] = <<>>]
    /\ fired' = None
    /\ UNCHANGED <<refs, written>>

\* Mutant: reset starts a session from the beginning.
ResetSession(h) ==
    /\ Live(h)
    /\ world' = [world EXCEPT ![h] = InitialWorld]
    /\ faults' = [faults EXCEPT ![h] = <<>>]
    /\ snapshots' = [snapshots EXCEPT ![h] = <<>>]
    /\ fired' = None
    /\ UNCHANGED <<status, refs, written>>

\* Faults are cleared, snapshots are kept.
Reset(h) ==
    /\ Live(h)
    /\ world' = [world EXCEPT ![h] = InitialWorld]
    /\ faults' = [faults EXCEPT ![h] = <<>>]
    /\ fired' = None
    /\ UNCHANGED <<status, snapshots, refs, written>>

TakeSnapshot(h) ==
    /\ Live(h)
    /\ snapshots' = [snapshots EXCEPT ![h] = Append(@, world[h])]
    /\ refs' = refs \union
           {[handle |-> h, number |-> Len(snapshots[h]) + 1, world |-> world[h]]}
    /\ fired' = None
    /\ UNCHANGED <<status, world, faults, written>>

\* _snapshot: the reference is this handle's and equals the stored one.
Presented(h, ref) ==
    /\ ref.handle = h
    /\ ref.number \in DOMAIN snapshots[h]
    /\ snapshots[h][ref.number] = ref.world

\* Mutant: the state is taken from the reference, whoever's it is.
RestoreReference(h, ref) ==
    /\ Live(h)
    /\ ref.number \in DOMAIN snapshots[h]
    /\ world' = [world EXCEPT ![h] = ref.world]
    /\ fired' = None
    /\ UNCHANGED <<status, snapshots, faults, refs, written>>

\* Fault rules and what they have counted stay as they are.
Restore(h, ref) ==
    /\ Live(h)
    /\ Presented(h, ref)
    /\ world' = [world EXCEPT ![h] = snapshots[h][ref.number]]
    /\ fired' = None
    /\ UNCHANGED <<status, snapshots, faults, refs, written>>

-----------------------------------------------------------------------------
InjectFault(h, target, occurrence) ==
    /\ Live(h)
    /\ faults' = [faults EXCEPT ![h] = Append(@,
           [target |-> target, occurrence |-> occurrence, seen |-> 0,
            since |-> 0, overtaken |-> 0])]
    /\ fired' = None
    /\ UNCHANGED <<status, world, snapshots, refs, written>>

Without(rules, i) == SubSeq(rules, 1, i - 1) \o SubSeq(rules, i + 1, Len(rules))

ClearFault(h, i) ==
    /\ Live(h)
    /\ i \in DOMAIN faults[h]
    /\ faults' = [faults EXCEPT ![h] = Without(@, i)]
    /\ fired' = None
    /\ UNCHANGED <<status, world, snapshots, refs, written>>

\* Mutant: a rule counts the calls of every tool.
DueByAnyCall(rules, tool) ==
    {i \in DOMAIN rules : rules[i].seen + 1 = rules[i].occurrence}

\* The rules that the next call of a tool makes due.
Due(rules, tool) ==
    {i \in DOMAIN rules :
        rules[i].target = tool /\ rules[i].seen + 1 = rules[i].occurrence}

\* _apply_fault_if_due goes through the rules in order; what raises ends it.
Counted(rules, tool, before, overtaken) ==
    [i \in DOMAIN rules |->
        IF rules[i].target # tool THEN rules[i]
        ELSE [rules[i] EXCEPT !.seen = IF i < before THEN @ + 1 ELSE @,
                              !.since = @ + 1,
                              !.overtaken = @ + overtaken]]

\* execute meets a rule that is due: the first of them is activated and cleared.
ExecuteFaulted(h, tool) ==
    /\ Live(h)
    /\ \E i \in Due(faults[h], tool) :
        /\ \A j \in Due(faults[h], tool) : i <= j
        /\ fired' = Counted(faults[h], tool, i + 1, 0)[i]
        /\ faults' = [faults EXCEPT ![h] = Without(Counted(@, tool, i, 1), i)]
    /\ UNCHANGED <<status, world, snapshots, refs, written>>

\* The call gets through to the world, whose clock moves even if it raises.
Execute(h, tool) ==
    /\ Live(h)
    /\ Due(faults[h], tool) = {}
    /\ faults' = [faults EXCEPT ![h] = Counted(@, tool, Len(@) + 1, 0)]
    /\ \E content \in Contents :
        /\ world' = [world EXCEPT ![h] = [content |-> content, time |-> @.time + 1]]
        /\ written' = [written EXCEPT ![h] = @ \union {content}]
    /\ fired' = None
    /\ UNCHANGED <<status, snapshots, refs>>

SessionNext ==
    \E h \in Handles :
        \/ Provision(h) \/ Release(h) \/ Reset(h) \/ TakeSnapshot(h)
        \/ \E ref \in refs : Restore(h, ref)
        \/ \E tool \in Tools :
            \/ Execute(h, tool) \/ ExecuteFaulted(h, tool)
            \/ \E occurrence \in Occurrences : InjectFault(h, tool, occurrence)
        \/ \E i \in DOMAIN faults[h] : ClearFault(h, i)

SessionSpec == SessionInit /\ [][SessionNext]_vars

-----------------------------------------------------------------------------
\* The variables' types; a handle that is new or released has no session.
SessionTypeOK ==
    /\ status \in [Handles -> {"new", "live", "released"}]
    /\ world \in [Handles -> World]
    /\ snapshots \in [Handles -> Seq(World)]
    /\ faults \in [Handles -> Seq(Rule)]
    /\ refs \subseteq Ref
    /\ fired \in Rule \union {None}
    /\ written \in [Handles -> SUBSET Contents]
    /\ \A h \in Handles : ~Live(h) =>
           world[h] = InitialWorld /\ snapshots[h] = <<>> /\ faults[h] = <<>>

\* A fault is not activated before its occurrence (AVP-ENVIRONMENT-010), and
\* late at most by the calls that another rule of its tool has answered
\* (environment/in_memory.py:270): with one rule for a tool it is on time.
FiredInTime ==
    fired # None =>
        /\ fired.occurrence <= fired.since
        /\ fired.since <= fired.occurrence + fired.overtaken

\* A SnapshotRef of a live session leads to the state it was taken of, through
\* every reset and restore in between (environment/in_memory.py:203).
RefsStayTrue ==
    \A ref \in refs : Live(ref.handle) =>
        /\ ref.number \in DOMAIN snapshots[ref.handle]
        /\ snapshots[ref.handle][ref.number] = ref.world

\* A session never shows what another one's calls have made: snapshots are
\* numbered from one in every session, and references of all are around
\* (environment/in_memory.py:190).
WorldIsOwn == \A h \in Handles : world[h].content \in written[h]

=============================================================================
