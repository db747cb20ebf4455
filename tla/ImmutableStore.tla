----------------------------- MODULE ImmutableStore -----------------------------
(***************************************************************************)
(* What an ArtifactStore promises, whatever keeps the bytes (artifacts):   *)
(* content, once published, stays; a reference is handed out only for      *)
(* content that is there, and to its publisher only when it is filed on    *)
(* its shelf.  An outage takes content that is not filed, and shelves that *)
(* are not fixed; what is filed on a fixed shelf it cannot take.           *)
(***************************************************************************)
CONSTANTS Contents, Shelves, ShelfOf

VARIABLES
    store,          \* published content
    filed,          \* content whose place on its shelf is secured
    fixed,          \* shelves that an outage does not take
    handed          \* references handed out, and whether to the publisher

storeVars == <<store, filed, fixed, handed>>

References == [content : Contents, linked : BOOLEAN]

StoreInit == store = {} /\ filed = {} /\ fixed \subseteq Shelves /\ handed = {}

Publish(c) ==
    /\ c \notin store
    /\ store' = store \cup {c}
    /\ UNCHANGED <<filed, fixed, handed>>

File(c) ==
    /\ c \in store
    /\ filed' = filed \cup {c}
    /\ UNCHANGED <<store, fixed, handed>>

Fix(s) ==
    /\ fixed' = fixed \cup {s}
    /\ UNCHANGED <<store, filed, handed>>

HandOut(ref) ==
    /\ ref.content \in store
    /\ ref.linked => ref.content \in filed
    /\ handed' = handed \cup {ref}
    /\ UNCHANGED <<store, filed, fixed>>

\* What is left is filed, on shelves that are fixed from then on.
Outage ==
    /\ fixed' \in SUBSET Shelves /\ fixed \subseteq fixed'
    /\ store' \in SUBSET {c \in store : ShelfOf[c] \in fixed'}
    /\ {c \in filed : ShelfOf[c] \in fixed'} \subseteq store'
    /\ filed' = store'
    /\ UNCHANGED handed

StoreNext ==
    \/ \E c \in Contents : Publish(c) \/ File(c)
    \/ \E s \in Shelves : Fix(s)
    \/ \E ref \in References : HandOut(ref)
    \/ Outage

StoreSpec == StoreInit /\ [][StoreNext]_storeVars

=============================================================================
