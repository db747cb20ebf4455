------------------------ MODULE BrowserResource_proofs ------------------------
(***************************************************************************)
(* Proofs about the Browser resource and its verifier, for every set of    *)
(* cookies, origins and mutation labels: what the verifier accepts stands, *)
(* the types, and that accepted cookies are exact.                         *)
(*                                                                         *)
(* Two facts carry the first.  A timer that can still fire belongs to a    *)
(* mutation that the ledger has as unresolved, so a settled ledger means a *)
(* quiet browser; and an accepted projection is dropped by whatever        *)
(* unsettles the ledger or touches the browser.                            *)
(***************************************************************************)
EXTENDS BrowserResource, TLAPS

\* The types that updates of single labels rely on.
LabelsTyped ==
    /\ sessions \in [Labels -> Session \cup {None}]
    /\ mutations \in [Labels -> {"unknown", "unresolved", "terminal"}]

\* A page whose timer has not fired belongs to an unresolved mutation.
PendingIsUnresolved ==
    \A l \in Labels :
        sessions[l] # None /\ ~sessions[l].fired => mutations[l] = "unresolved"

\* The projection shows the browser's storage, and its cookies by key and value.
Shows(image) ==
    /\ image.storage = storage
    /\ \A c \in Cookies : cookies[c] # None =>
           \E d \in Cookies : d[1] = c[1] /\ image.cookies[d] = cookies[c]
    /\ \A c \in Cookies : image.cookies[c] # None =>
           \E d \in Cookies : d[1] = c[1] /\ cookies[d] = image.cookies[c]

\* An accepted projection was made of a settled browser and shows it still.
AcceptedIsSettled == accepted # None => Settled /\ Shows(accepted)

\* Nothing is accepted of a browser that is not there yet.
NewIsUnaccepted == phase = "new" => accepted = None

\* The inductive invariant.
IInv == LabelsTyped /\ PendingIsUnresolved /\ AcceptedIsSettled /\ NewIsUnaccepted

\* A settled ledger has no timer that can still fire.
LEMMA SettledIsQuiet ==
    ASSUME PendingIsUnresolved, Settled, NEW l \in Labels
    PROVE  ~(sessions[l] # None /\ ~sessions[l].fired)
  BY DEF PendingIsUnresolved, Settled

\* A new resource and a new ledger.
LEMMA InitHolds == Init => IInv
  BY DEF Init, NewLedger, IInv, LabelsTyped, PendingIsUnresolved, AcceptedIsSettled, NewIsUnaccepted

\* What touches neither the browser nor the labels, and drops what was accepted.
LEMMA DroppedHolds ==
    ASSUME IInv, UNCHANGED <<sessions, mutations>>, accepted' = None
    PROVE  IInv'
  BY DEF IInv, LabelsTyped, PendingIsUnresolved, AcceptedIsSettled, NewIsUnaccepted

\* What touches nothing that the invariant is about.
LEMMA UntouchedHolds ==
    ASSUME IInv, UNCHANGED <<phase, sessions, admission, mutations, accepted,
                             cookies, storage>>
    PROVE  IInv'
<1>1. Settled' <=> Settled
  BY DEF Settled
<1>2. accepted # None => (Shows(accepted)' <=> Shows(accepted))
  BY DEF Shows
<1> QED
  BY <1>1, <1>2 DEF IInv, LabelsTyped, PendingIsUnresolved, AcceptedIsSettled, NewIsUnaccepted

\* A projection that _project_cookies accepts shows the cookies both ways.
LEMMA ProjectableShows ==
    ASSUME NEW jar, NEW records, Projectable(jar, records)
    PROVE  /\ \A c \in Cookies : jar[c] # None =>
                  \E d \in Cookies : d[1] = c[1] /\ records[d] = jar[c]
           /\ \A c \in Cookies : records[c] # None =>
                  \E d \in Cookies : d[1] = c[1] /\ jar[d] = records[c]
<1>1. ASSUME NEW c \in Cookies, jar[c] # None
      PROVE  \E d \in Cookies : d[1] = c[1] /\ records[d] = jar[c]
  <2>1. PICK d \in Cookies : d[1] = c[1] /\ records[d] # None
    BY <1>1 DEF Projectable
  <2>2. PICK e \in Cookies : Matches(jar, d[1]) = {e} /\ jar[e] = records[d]
    BY <2>1 DEF Projectable
  <2>3. c \in Matches(jar, d[1])
    BY <1>1, <2>1 DEF Matches
  <2> QED
    BY <2>1, <2>2, <2>3
<1>2. ASSUME NEW c \in Cookies, records[c] # None
      PROVE  \E d \in Cookies : d[1] = c[1] /\ jar[d] = records[c]
  <2>1. PICK d \in Cookies : Matches(jar, c[1]) = {d} /\ jar[d] = records[c]
    BY <1>2 DEF Projectable
  <2>2. d[1] = c[1]
    BY <2>1 DEF Matches
  <2> QED
    BY <2>1, <2>2
<1> QED
  BY <1>1, <1>2

\* Provisioning a new resource, of which nothing was accepted.
LEMMA ProvisionHolds == ASSUME IInv, Provision PROVE IInv'
<1>1. accepted = None /\ accepted' = None /\ UNCHANGED <<sessions, mutations>>
  BY DEF Provision, IInv, NewIsUnaccepted, ledger
<1> QED
  BY <1>1, DroppedHolds

\* Releasing the resource closes its pages.
LEMMA ReleaseHolds == ASSUME IInv, Release PROVE IInv'
<1>1. accepted # None => (Settled' <=> Settled) /\ (Shows(accepted)' <=> Shows(accepted))
  BY DEF Release, Settled, Shows, browser, ledger
<1> QED
  BY <1>1 DEF Release, IInv, LabelsTyped, PendingIsUnresolved, AcceptedIsSettled,
              NewIsUnaccepted, ledger

\* An accepted mutation of a label makes the ledger unsettled, and drops what
\* was accepted.
LEMMA AcceptHolds == ASSUME IInv, NEW l \in Labels, Accept(l) PROVE IInv'
  BY DEF Accept, IInv, LabelsTyped, PendingIsUnresolved, AcceptedIsSettled,
         NewIsUnaccepted

\* A timer is started for an unresolved label only: nothing is accepted then.
LEMMA StartDelayedHolds ==
    ASSUME IInv, NEW l \in Labels, NEW origin \in Origins, NEW item \in Items,
           StartDelayed(l, origin, item)
    PROVE  IInv'
<1>1. accepted = None /\ accepted' = None /\ UNCHANGED mutations
  BY DEF StartDelayed, IInv, AcceptedIsSettled, Settled, ledger
<1>2. sessions' \in [Labels -> Session \cup {None}]
  BY DEF StartDelayed, IInv, LabelsTyped, Session
<1>3. PendingIsUnresolved'
  BY <1>1 DEF StartDelayed, IInv, LabelsTyped, PendingIsUnresolved
<1> QED
  BY <1>1, <1>2, <1>3 DEF IInv, LabelsTyped, AcceptedIsSettled, NewIsUnaccepted

\* A timer that fires belongs to an unresolved label: nothing is accepted then.
LEMMA FireHolds == ASSUME IInv, NEW l \in Labels, Fire(l) PROVE IInv'
<1>1. accepted = None /\ accepted' = None /\ UNCHANGED mutations
  BY DEF Fire, IInv, PendingIsUnresolved, AcceptedIsSettled, Settled, ledger
<1>2. sessions' \in [Labels -> Session \cup {None}]
  BY DEF Fire, IInv, LabelsTyped, Session
<1>3. PendingIsUnresolved'
  BY <1>1 DEF Fire, IInv, LabelsTyped, PendingIsUnresolved
<1> QED
  BY <1>1, <1>2, <1>3 DEF IInv, LabelsTyped, AcceptedIsSettled, NewIsUnaccepted

\* A label is made terminal when its timer has fired.
LEMMA MarkTerminalHolds == ASSUME IInv, NEW l \in Labels, MarkTerminal(l) PROVE IInv'
<1>1. accepted = None /\ accepted' = None /\ UNCHANGED sessions
  BY DEF MarkTerminal, IInv, AcceptedIsSettled, Settled
<1>2. LabelsTyped' /\ PendingIsUnresolved'
  BY <1>1 DEF MarkTerminal, IInv, LabelsTyped, PendingIsUnresolved
<1> QED
  BY <1>1, <1>2 DEF IInv, AcceptedIsSettled, NewIsUnaccepted

\* A closed page has no timer.
LEMMA ReleaseMutationHolds ==
    ASSUME IInv, NEW l \in Labels, ReleaseMutation(l)
    PROVE  IInv'
<1>1. LabelsTyped' /\ PendingIsUnresolved'
  BY DEF ReleaseMutation, IInv, LabelsTyped, PendingIsUnresolved, ledger
<1>2. accepted # None => (Settled' <=> Settled) /\ (Shows(accepted)' <=> Shows(accepted))
  BY DEF ReleaseMutation, Settled, Shows, browser, ledger
<1> QED
  BY <1>1, <1>2 DEF ReleaseMutation, IInv, AcceptedIsSettled, NewIsUnaccepted

\* While side effects are admitted nothing is accepted.
LEMMA CloseAdmissionHolds == ASSUME IInv, CloseAdmission PROVE IInv'
<1>1. accepted' = None /\ UNCHANGED <<sessions, mutations>>
  BY DEF CloseAdmission, IInv, AcceptedIsSettled, Settled
<1> QED
  BY <1>1, DroppedHolds

\* A new ledger forgets the labels only when none can still fire.
LEMMA NextBoundaryHolds == ASSUME IInv, NextBoundary PROVE IInv'
<1>1. \A l \in Labels : ~(sessions[l] # None /\ ~sessions[l].fired)
  BY SettledIsQuiet DEF NextBoundary, IInv
<1> QED
  BY <1>1 DEF NextBoundary, IInv, LabelsTyped, PendingIsUnresolved,
              AcceptedIsSettled, NewIsUnaccepted

\* A projection is accepted of a settled browser, and shows it.
LEMMA ProjectHolds == ASSUME IInv, Project \/ VerifiedSnapshot PROVE IInv'
<1>1. /\ Settled /\ Projectable(cookies, provenance) /\ accepted' = Projected /\ live
      /\ UNCHANGED <<phase, sessions, admission, mutations, cookies, storage>>
  BY DEF Project, VerifiedSnapshot, Observable, browser, ledger
<1>2. Shows(Projected)
  BY <1>1, ProjectableShows DEF Shows, Projected
<1>3. Settled' /\ Shows(accepted)'
  BY <1>1, <1>2 DEF Settled, Shows
<1> QED
  BY <1>1, <1>3 DEF IInv, LabelsTyped, PendingIsUnresolved, AcceptedIsSettled,
                    NewIsUnaccepted, live

\* A replacement is accepted when the browser after it projects to its target.
LEMMA VerifiedReplaceHolds ==
    ASSUME IInv, NEW image, NEW resettled \in BOOLEAN,
           VerifiedReplace(image, resettled)
    PROVE  IInv'
<1>1. /\ Settled /\ live
      /\ UNCHANGED <<phase, sessions, admission, mutations>>
  BY DEF VerifiedReplace, Observable, ledger
<1>2. CASE accepted' = None
  BY <1>1, <1>2, DroppedHolds
<1>3. CASE accepted' # None
  <2>1. PICK after \in Replacements(image) :
            /\ Replaced(after)
            /\ accepted' = IF /\ after.outcome = "replaced" /\ resettled
                              /\ Projectable(after.cookies, after.provenance)
                              /\ [cookies |-> after.provenance,
                                  storage |-> after.storage] = image
                           THEN image ELSE None
    BY DEF VerifiedReplace
  <2>2. /\ accepted' = image
        /\ Projectable(after.cookies, after.provenance)
        /\ [cookies |-> after.provenance, storage |-> after.storage] = image
    BY <1>3, <2>1
  <2>3. /\ accepted'.cookies = after.provenance /\ accepted'.storage = storage'
        /\ cookies' = after.cookies
    BY <2>1, <2>2 DEF Replaced
  <2>4. Shows(accepted)'
    BY <2>2, <2>3, ProjectableShows DEF Shows
  <2>5. Settled'
    BY <1>1 DEF Settled
  <2> QED
    BY <1>1, <2>4, <2>5 DEF IInv, LabelsTyped, PendingIsUnresolved,
                            AcceptedIsSettled, NewIsUnaccepted, live
<1> QED
  BY <1>2, <1>3

\* The other steps drop what was accepted and leave the labels alone.
LEMMA DroppingHolds ==
    ASSUME IInv,
           \/ \E c \in Cookies, value \in (Values \ Lossy) \cup {None} :
                  SubjectCookie(c, value)
           \/ \E origin \in Origins, item \in Items \cup {None} :
                  SubjectStorage(origin, item) \/ SeedStorage(origin, item)
           \/ \E c \in Cookies, value \in Values : SeedCookie(c, value)
           \/ \E set \in SUBSET Conditions : SetConditions(set)
           \/ ProveInterference
           \/ \E image : Replace(image)
    PROVE  IInv'
<1>1. accepted' = None /\ UNCHANGED <<sessions, mutations>>
  BY DEF SubjectCookie, SubjectStorage, SeedStorage, SeedCookie, SetConditions,
         ProveInterference, Replace, ledger
<1> QED
  BY <1>1, DroppedHolds

\* Every step preserves the invariant.
LEMMA StepHolds == IInv /\ [Next]_vars => IInv'
<1> SUFFICES ASSUME IInv, [Next]_vars PROVE IInv'
  OBVIOUS
<1>1. CASE Provision
  BY <1>1, ProvisionHolds
<1>2. CASE Release
  BY <1>2, ReleaseHolds
<1>3. ASSUME NEW l \in Labels,
             \/ Accept(l)
             \/ \E origin \in Origins, item \in Items : StartDelayed(l, origin, item)
             \/ Fire(l)
             \/ MarkTerminal(l)
             \/ ReleaseMutation(l)
      PROVE  IInv'
  BY <1>3, AcceptHolds, StartDelayedHolds, FireHolds, MarkTerminalHolds,
     ReleaseMutationHolds
<1>4. CASE CloseAdmission
  BY <1>4, CloseAdmissionHolds
<1>5. CASE NextBoundary
  BY <1>5, NextBoundaryHolds
<1>6. CASE \/ \E key \in Keys : SeedPartitioned(key)
           \/ Snapshot
           \/ UNCHANGED vars
  <2>1. UNCHANGED <<phase, sessions, admission, mutations, accepted, cookies, storage>>
    BY <1>6 DEF SeedPartitioned, Snapshot, vars, browser, ledger
  <2> QED
    BY <2>1, UntouchedHolds
<1>7. CASE Project \/ VerifiedSnapshot
  BY <1>7, ProjectHolds
<1>8. CASE VerifiedReset \/ \E n \in DOMAIN snapshots : VerifiedRestore(n)
  BY <1>8, VerifiedReplaceHolds DEF VerifiedReset, VerifiedRestore
<1>9. CASE Reset \/ \E n \in DOMAIN snapshots : Restore(n)
  <2>1. \E image : Replace(image)
    BY <1>9 DEF Reset, Restore
  <2> QED
    BY <2>1, DroppingHolds
<1>10. CASE \/ \E c \in Cookies, value \in (Values \ Lossy) \cup {None} :
                   SubjectCookie(c, value)
            \/ \E origin \in Origins, item \in Items \cup {None} :
                   SubjectStorage(origin, item)
            \/ \E origin \in Origins, item \in Items \cup {None} :
                   SeedStorage(origin, item)
            \/ \E c \in Cookies, value \in Values : SeedCookie(c, value)
            \/ \E set \in SUBSET Conditions : SetConditions(set)
            \/ ProveInterference
  BY <1>10, DroppingHolds
<1> QED
  BY <1>1, <1>2, <1>3, <1>4, <1>5, <1>6, <1>7, <1>8, <1>9, <1>10 DEF Next

\* What the verifier has accepted stands: no delayed mutation fires into an
\* accepted projection and no half replacement is taken for the target
\* (authoritative_projection, verified_reset, verified_restore).
THEOREM AcceptedCorrect == Spec => []AcceptedStands
<1>1. IInv => AcceptedStands
  BY DEF IInv, AcceptedIsSettled, Shows, AcceptedStands
<1> QED
  BY InitHolds, StepHolds, <1>1, PTL DEF Spec

-----------------------------------------------------------------------------
(***************************************************************************)
(* Types.  A replacement leaves a jar, records and a storage of the image  *)
(* or of before.                                                           *)
(***************************************************************************)
Jars == [Cookies -> (Values \ Lossy) \cup {None}]
Storages == [Origins -> Items \cup {None}]

\* The steps of a replacement: clearing and filling, or seeding.
Clears(after, image) ==
    \E popped, cleared \in SUBSET Recorded :
        /\ after.cookies = Without(cookies, KeysOf(cleared))
        /\ after.partitioned = partitioned \ KeysOf(cleared)
        /\ after.provenance = [c \in Cookies |-> IF c \in popped THEN None ELSE provenance[c]]
        /\ after.strayed = (strayed \cup KeysOf(cleared)) \cap KeysOf(Recorded \ popped)
        /\ after.storage = [o \in Origins |-> after.storage[o]]
        /\ \A o \in Origins : after.storage[o] \in {None, storage[o], image.storage[o]}
        /\ after.outcome = "raised"

Seeds(after, image, set) ==
    /\ after.partitioned \subseteq partitioned
    /\ after.provenance = [c \in Cookies |-> IF c \in set THEN image.cookies[c] ELSE None]
    /\ after.storage = image.storage
    /\ \/ \E keys \in SUBSET Keys :
              /\ after.cookies = Without(Seeded(image, set), keys)
              /\ after.strayed = keys \cap KeysOf(set)
              /\ after.outcome = "raised"
       \/ /\ after.cookies = Seeded(image, set)
          /\ after.strayed = {}
          /\ after.outcome \in {"raised", "replaced"}
       \/ \E c \in Wanted(image) \ set : \E kept \in Kept(image.cookies[c]) :
              /\ after.cookies = [Seeded(image, set) EXCEPT ![c] = kept]
              /\ after.strayed = {}
              /\ after.outcome = "raised"

\* Nothing else comes of a replacement.
LEMMA ReplacementIsEither ==
    ASSUME NEW image, NEW after \in Replacements(image)
    PROVE  Clears(after, image) \/ \E set \in Seedable(image) : Seeds(after, image, set)
<1>1. ASSUME NEW popped \in SUBSET Recorded, NEW cleared \in SUBSET Recorded,
             NEW origins \in SUBSET Origins, after = Cleared(popped, cleared, origins)
      PROVE  Clears(after, image)
  BY <1>1 DEF Cleared, Clears
<1>2. {} \in SUBSET Origins /\ Recorded \in SUBSET Recorded
  OBVIOUS
<1>3. ASSUME NEW origins \in SUBSET Origins, after = Filled(image, origins)
      PROVE  Clears(after, image)
  BY <1>3 DEF Cleared, Filled, Clears
<1>4. ASSUME NEW set, NEW outcome \in {"raised", "replaced"},
             after = After(image, set, {}, outcome)
      PROVE  Seeds(after, image, set)
  <2>1. Without(Seeded(image, set), {}) = Seeded(image, set)
    BY DEF Without, Seeded
  <2> QED
    BY <1>4, <2>1 DEF After, Seeds
<1>5. ASSUME NEW set, after \in Refusals(image, set)
      PROVE  Seeds(after, image, set)
  <2>1. PICK c \in Wanted(image) : after = After(image, set, {c[1]}, "raised")
    BY <1>5 DEF Refusals
  <2>2. {c[1]} \in SUBSET Keys
    BY DEF Wanted, Cookies
  <2> QED
    BY <2>1, <2>2 DEF After, Seeds
<1>6. ASSUME NEW set, after \in Unrecorded(image, set)
      PROVE  Seeds(after, image, set)
  <2>1. PICK c \in Wanted(image) \ set : \E kept \in Kept(image.cookies[c]) :
            after = [After(image, set, {}, "raised") EXCEPT !.cookies[c] = kept]
    BY <1>6 DEF Unrecorded
  <2>2. Without(Seeded(image, set), {}) = Seeded(image, set)
    BY DEF Without, Seeded
  <2>3. PICK kept \in Kept(image.cookies[c]) :
            after = [After(image, set, {}, "raised") EXCEPT !.cookies[c] = kept]
    BY <2>1
  <2>4. /\ after.cookies = [Seeded(image, set) EXCEPT ![c] = kept]
        /\ after.partitioned = (partitioned \ KeysOf(Recorded)) \ {}
        /\ after.provenance = [d \in Cookies |-> IF d \in set THEN image.cookies[d] ELSE None]
        /\ after.strayed = {} \cap KeysOf(set)
        /\ after.storage = image.storage
        /\ after.outcome = "raised"
    BY <2>2, <2>3 DEF After
  <2> QED
    BY <2>4 DEF Seeds
<1>7. \/ after \in Clearings
      \/ \E origins \in SUBSET Origins : after = Cleared(Recorded, Recorded, origins)
      \/ \E origins \in SUBSET Origins : after = Filled(image, origins)
      \/ \E set \in Seedable(image) :
             \/ after = After(image, set, {}, "raised")
             \/ after \in Refusals(image, set)
             \/ after \in Unrecorded(image, set)
             \/ after = After(image, set, {}, "replaced")
  <2>1. \/ after \in Clearings
        \/ after \in {Cleared(Recorded, Recorded, origins) : origins \in SUBSET Origins}
        \/ after \in {Filled(image, origins) : origins \in SUBSET Origins}
        \/ after \in {After(image, set, {}, "replaced") :
                          set \in Seedable(image) \cap {Wanted(image)}}
        \/ \E set \in Seedable(image) :
               after \in {After(image, set, {}, "raised")} \cup Refusals(image, set)
                            \cup Unrecorded(image, set)
    BY Zenon DEF Replacements
  <2> QED
    BY <2>1
<1>8. ASSUME after \in Clearings
      PROVE  Clears(after, image)
  <2>1. PICK popped \in SUBSET Recorded, next \in {{}} \cup {{c} : c \in Recorded} :
            after = Cleared(popped, popped \cup next, {})
    BY <1>8 DEF Clearings
  <2>2. popped \cup next \in SUBSET Recorded
    BY <2>1
  <2> QED
    BY <1>1, <1>2, <2>1, <2>2
<1> QED
  BY <1>1, <1>2, <1>3, <1>4, <1>5, <1>6, <1>7, <1>8

\* Clearing leaves a jar, and the provider keeps values that it keeps exactly.
LEMMA WithoutTyped ==
    ASSUME NEW jar \in Jars, NEW keys
    PROVE  Without(jar, keys) \in Jars
  BY DEF Without, Jars

LEMMA KeptTyped ==
    ASSUME NEW value \in Values
    PROVE  Kept(value) \subseteq Values \ Lossy
  BY DEF Kept

\* Whatever a replacement comes to has types.
LEMMA ReplacementTyped ==
    ASSUME cookies \in Jars, partitioned \subseteq Keys, storage \in Storages,
           provenance \in Jars, NEW image \in Image, NEW after \in Replacements(image)
    PROVE  /\ after.cookies \in Jars
           /\ after.partitioned \subseteq Keys
           /\ after.storage \in Storages
           /\ after.provenance \in Jars
           /\ after.strayed \subseteq Keys
<1>1. /\ image.cookies \in [Cookies -> Values \cup {None}]
      /\ image.storage \in Storages
  BY DEF Image, Storages
<1>2. CASE Clears(after, image)
  <2>1. after.cookies \in Jars
    BY <1>2, WithoutTyped DEF Clears
  <2>2. after.storage \in Storages
    BY <1>1, <1>2 DEF Clears, Storages
  <2>3. after.provenance \in Jars
    BY <1>2 DEF Clears, Jars
  <2>4. after.strayed \subseteq Keys
    <3>1. KeysOf(Recorded) \subseteq Keys
      BY DEF Recorded, KeysOf, Cookies
    <3> QED
      BY <1>2, <3>1 DEF Clears, KeysOf
  <2> QED
    BY <1>2, <2>1, <2>2, <2>3, <2>4 DEF Clears
<1>3. ASSUME NEW set \in Seedable(image), Seeds(after, image, set)
      PROVE  after.cookies \in Jars /\ after.provenance \in Jars
  <2>1. \A c \in set : c \in Cookies /\ image.cookies[c] \in Values \ Lossy
    BY <1>1 DEF Seedable, Wanted
  <2>2. Seeded(image, set) \in Jars
    <3>1. Without(cookies, KeysOf(Recorded)) \in Jars
      BY WithoutTyped
    <3> QED
      BY <2>1, <3>1 DEF Seeded, Jars
  <2>3. after.provenance \in Jars
    BY <1>3, <2>1 DEF Seeds, Jars
  <2>4. ASSUME NEW c \in Wanted(image), NEW kept \in Kept(image.cookies[c])
        PROVE  [Seeded(image, set) EXCEPT ![c] = kept] \in Jars
    <3>1. image.cookies[c] \in Values /\ c \in Cookies
      BY <1>1 DEF Wanted
    <3>2. kept \in Values \ Lossy
      BY <3>1, KeptTyped
    <3> QED
      BY <2>2, <3>2 DEF Jars
  <2>5. ASSUME NEW keys PROVE Without(Seeded(image, set), keys) \in Jars
    BY <2>2, WithoutTyped
  <2>6. after.cookies \in Jars
    <3>1. \/ \E keys : after.cookies = Without(Seeded(image, set), keys)
          \/ after.cookies = Seeded(image, set)
          \/ \E c \in Wanted(image) : \E kept \in Kept(image.cookies[c]) :
                 after.cookies = [Seeded(image, set) EXCEPT ![c] = kept]
      BY <1>3, Zenon DEF Seeds
    <3> QED
      BY <2>2, <2>4, <2>5, <3>1
  <2> QED
    BY <2>3, <2>6
<1>4. ASSUME NEW set \in Seedable(image), Seeds(after, image, set)
      PROVE  /\ after.partitioned \subseteq Keys /\ after.storage \in Storages
             /\ after.strayed \subseteq Keys
  BY <1>1, <1>4 DEF Seeds
<1> QED
  BY <1>2, <1>3, <1>4, ReplacementIsEither

\* What the resource projects is a state image.
LEMMA ProjectedTyped == ASSUME TypeOK PROVE Projected \in Image
  BY DEF TypeOK, Projected, Image

\* Every step keeps the types.
LEMMA TypeHolds == ASSUME TypeOK, [Next]_vars PROVE TypeOK'
<1> USE DEF live
<1>0. cookies \in Jars /\ provenance \in Jars /\ storage \in Storages
  BY DEF TypeOK, Jars, Storages
<1>1. ASSUME NEW image \in Image, NEW after \in Replacements(image), Replaced(after)
      PROVE  /\ cookies' \in [Cookies -> (Values \ Lossy) \cup {None}]
             /\ partitioned' \subseteq Keys
             /\ storage' \in [Origins -> Items \cup {None}]
             /\ provenance' \in [Cookies -> (Values \ Lossy) \cup {None}]
             /\ strayed' \subseteq Keys
  <2>1. partitioned \subseteq Keys
    BY DEF TypeOK
  <2> QED
    BY <1>0, <1>1, <2>1, ReplacementTyped DEF Replaced, Jars, Storages
<1>2. Baseline \in Image /\ Projected \in Image
  BY BaselineAssumption, ProjectedTyped DEF Baseline, Image
<1>3. /\ snapshots \in Seq(Taken)
      /\ \A n \in DOMAIN snapshots : snapshots[n].image \in Image
  <2>1. snapshots \in Seq(Taken)
    BY DEF TypeOK
  <2>2. \A n \in DOMAIN snapshots : snapshots[n] \in Taken
    BY <2>1
  <2> QED
    BY <2>1, <2>2 DEF Taken
<1>4. CASE Provision
  BY <1>1, <1>2, <1>4 DEF TypeOK, Provision, ledger
<1>5. CASE Release \/ CloseAdmission \/ NextBoundary \/ ProveInterference
  BY <1>5 DEF TypeOK, Release, CloseAdmission, NextBoundary, ProveInterference,
              browser, ledger, Conditions
<1>6. ASSUME NEW c \in Cookies, NEW value \in (Values \ Lossy) \cup {None},
             SubjectCookie(c, value)
      PROVE  TypeOK'
  BY <1>6 DEF TypeOK, SubjectCookie, ledger, Cookies
<1>7. ASSUME NEW origin \in Origins, NEW item \in Items \cup {None},
             SubjectStorage(origin, item) \/ SeedStorage(origin, item)
      PROVE  TypeOK'
  BY <1>7 DEF TypeOK, SubjectStorage, SeedStorage, ledger
<1>8. ASSUME NEW l \in Labels, Accept(l) \/ MarkTerminal(l)
      PROVE  TypeOK'
  BY <1>8 DEF TypeOK, Accept, MarkTerminal, browser
<1>9. ASSUME NEW l \in Labels, ReleaseMutation(l)
      PROVE  TypeOK'
  BY <1>9 DEF TypeOK, ReleaseMutation, browser, ledger
<1>10. ASSUME NEW l \in Labels, NEW origin \in Origins, NEW item \in Items,
              StartDelayed(l, origin, item)
       PROVE  TypeOK'
  BY <1>10 DEF TypeOK, StartDelayed, Session, browser, ledger
<1>11. ASSUME NEW l \in Labels, Fire(l)
       PROVE  TypeOK'
  <2>1. sessions[l] \in Session
    BY <1>11 DEF Fire, TypeOK
  <2> QED
    BY <1>11, <2>1 DEF TypeOK, Fire, Session, ledger
<1>12. ASSUME NEW c \in Cookies, NEW value \in Values, SeedCookie(c, value)
       PROVE  TypeOK'
  <2>1. cookies' \in [Cookies -> (Values \ Lossy) \cup {None}]
    BY <1>0, <1>12, WithoutTyped, KeptTyped DEF SeedCookie, Jars
  <2>2. /\ provenance' \in [Cookies -> (Values \ Lossy) \cup {None}]
        /\ partitioned' \subseteq Keys
        /\ strayed' \subseteq Keys
    BY <1>12 DEF SeedCookie, TypeOK, Cookies
  <2> QED
    BY <1>12, <2>1, <2>2 DEF TypeOK, SeedCookie, ledger
<1>13. CASE \/ \E key \in Keys : SeedPartitioned(key)
            \/ \E set \in SUBSET Conditions : SetConditions(set)
  BY <1>13 DEF TypeOK, SeedPartitioned, SetConditions, browser, ledger
<1>14. CASE Project \/ Snapshot \/ VerifiedSnapshot
  <2>1. snapshots' \in Seq(Taken)
    <3>1. \A verified \in BOOLEAN :
              [image |-> Projected, verified |-> verified, strayed |-> strayed] \in Taken
      BY <1>2 DEF Taken, TypeOK
    <3>2. \/ UNCHANGED snapshots
          \/ \E entry \in Taken : snapshots' = Append(snapshots, entry)
      BY <1>14, <3>1 DEF Project, Snapshot, VerifiedSnapshot
    <3> QED
      BY <1>3, <3>2
  <2> QED
    BY <1>2, <1>14, <2>1 DEF TypeOK, Project, Snapshot, VerifiedSnapshot, browser, ledger
<1>15. ASSUME NEW image \in Image, Replace(image)
       PROVE  TypeOK'
  BY <1>1, <1>15 DEF TypeOK, Replace, ledger
<1>16. ASSUME NEW image \in Image, NEW resettled \in BOOLEAN,
              VerifiedReplace(image, resettled)
       PROVE  TypeOK'
  <2>1. accepted' \in Image \cup {None}
    BY <1>16 DEF VerifiedReplace
  <2> QED
    BY <1>1, <1>16, <2>1 DEF TypeOK, VerifiedReplace, ledger
<1>17. CASE Reset \/ VerifiedReset
  BY <1>2, <1>15, <1>16, <1>17 DEF Reset, VerifiedReset
<1>18. ASSUME NEW n \in DOMAIN snapshots, Restore(n) \/ VerifiedRestore(n)
       PROVE  TypeOK'
  BY <1>3, <1>15, <1>16, <1>18 DEF Restore, VerifiedRestore
<1>19. CASE UNCHANGED vars
  BY <1>19 DEF TypeOK, vars
<1> QED
  BY <1>4, <1>5, <1>6, <1>7, <1>8, <1>9, <1>10, <1>11, <1>12, <1>13, <1>14, <1>17,
     <1>18, <1>19 DEF Next

\* The resource, its controls and the ledger keep their types; what is left in the
\* browser by a replacement that raised is a jar and a storage, too.
THEOREM TypeCorrect == Spec => []TypeOK
<1>1. Init => TypeOK
  <2>1. <<>> \in Seq(Taken)
    OBVIOUS
  <2> QED
    BY <2>1 DEF Init, NewLedger, TypeOK
<1>2. TypeOK /\ [Next]_vars => TypeOK'
  BY TypeHolds
<1> QED
  BY <1>1, <1>2, PTL DEF Spec

-----------------------------------------------------------------------------
(***************************************************************************)
(* Exact cookies.  A cookie can lie in the browser without a record, when  *)
(* a call raised after it was added, or with another value than the one on *)
(* record, and a record without its cookie.  What stays true is that under *)
(* the keys that have not strayed a record's cookie is there and no other  *)
(* record; a jar that can be projected then is the records, there.         *)
(***************************************************************************)

\* No two cookies of a jar share a key, but for some keys.
Distinct(jar, keys) ==
    \A c, d \in Cookies :
        c[1] \notin keys /\ jar[c] # None /\ jar[d] # None /\ c[1] = d[1] => c = d

\* Every cookie with a record is there, but for some keys.
HasRecorded(jar, records, keys) ==
    \A c \in Cookies : c[1] \notin keys /\ records[c] # None => jar[c] # None

\* The records agree with the jar, but for some keys.
Exact(records, jar, keys) ==
    \A c \in Cookies : c[1] \notin keys => records[c] = jar[c]

Sound(taken) == \A n \in DOMAIN taken : Distinct(taken[n].image.cookies, taken[n].strayed)

Traceable ==
    /\ HasRecorded(cookies, provenance, strayed) /\ Distinct(provenance, strayed)
    /\ Sound(snapshots)
    /\ accepted # None => Exact(accepted.cookies, cookies, strayed)

\* If every record's cookie is there, a jar that is projectable is the records.
LEMMA ProjectableIsExact ==
    ASSUME NEW jar, NEW records, NEW keys,
           HasRecorded(jar, records, keys), Projectable(jar, records)
    PROVE  Exact(records, jar, keys)
<1>1. ASSUME NEW c \in Cookies, c[1] \notin keys, records[c] # None
      PROVE  Matches(jar, c[1]) = {c} /\ jar[c] = records[c]
  <2>1. PICK d \in Cookies : Matches(jar, c[1]) = {d} /\ jar[d] = records[c]
    BY <1>1 DEF Projectable
  <2>2. c \in Matches(jar, c[1])
    BY <1>1 DEF Matches, HasRecorded
  <2> QED
    BY <2>1, <2>2
<1>2. ASSUME NEW c \in Cookies, c[1] \notin keys, jar[c] # None
      PROVE  records[c] # None
  <2>1. PICK d \in Cookies : d[1] = c[1] /\ records[d] # None
    BY <1>2 DEF Projectable
  <2>2. c \in Matches(jar, d[1])
    BY <1>2, <2>1 DEF Matches
  <2>3. Matches(jar, d[1]) = {d}
    BY <1>1, <1>2, <2>1
  <2> QED
    BY <2>1, <2>2, <2>3
<1> QED
  BY <1>1, <1>2 DEF Exact

\* Wherever a replacement stops, the cookies with a record are there, and one
\* record of a key, but for what has strayed.
LEMMA ReplacementKeeps ==
    ASSUME cookies \in Jars, provenance \in Jars, Distinct(provenance, strayed),
           HasRecorded(cookies, provenance, strayed),
           NEW image \in Image, NEW after \in Replacements(image)
    PROVE  /\ HasRecorded(after.cookies, after.provenance, after.strayed)
           /\ Distinct(after.provenance, after.strayed)
<1>1. CASE Clears(after, image)
  <2>1. PICK popped, cleared \in SUBSET Recorded :
            /\ after.cookies = Without(cookies, KeysOf(cleared))
            /\ after.provenance = [c \in Cookies |-> IF c \in popped THEN None
                                                    ELSE provenance[c]]
            /\ after.strayed = (strayed \cup KeysOf(cleared)) \cap KeysOf(Recorded \ popped)
    BY <1>1 DEF Clears
  <2>2. ASSUME NEW c \in Cookies, after.provenance[c] # None, c[1] \notin after.strayed
        PROVE  /\ provenance[c] # None
               /\ c[1] \notin strayed /\ c[1] \notin KeysOf(cleared)
    <3>1. provenance[c] # None /\ c \notin popped
      BY <2>1, <2>2
    <3>2. c[1] \in KeysOf(Recorded \ popped)
      BY <3>1 DEF KeysOf, Recorded
    <3> QED
      BY <2>1, <2>2, <3>1, <3>2
  <2>3. HasRecorded(after.cookies, after.provenance, after.strayed)
    <3> SUFFICES ASSUME NEW c \in Cookies, c[1] \notin after.strayed,
                        after.provenance[c] # None
                 PROVE  after.cookies[c] # None
      BY DEF HasRecorded
    <3>1. cookies[c] # None /\ c[1] \notin KeysOf(cleared)
      BY <2>2 DEF HasRecorded
    <3> QED
      BY <2>1, <3>1 DEF Without
  <2>4. Distinct(after.provenance, after.strayed)
    <3> SUFFICES ASSUME NEW c \in Cookies, NEW d \in Cookies, c[1] \notin after.strayed,
                        after.provenance[c] # None, after.provenance[d] # None, c[1] = d[1]
                 PROVE  c = d
      BY DEF Distinct
    <3>1. provenance[c] # None /\ provenance[d] # None /\ c[1] \notin strayed
      BY <2>2
    <3> QED
      BY <3>1 DEF Distinct
  <2> QED
    BY <2>3, <2>4
<1>2. ASSUME NEW set \in Seedable(image), Seeds(after, image, set)
      PROVE  /\ HasRecorded(after.cookies, after.provenance, after.strayed)
             /\ Distinct(after.provenance, after.strayed)
  <2>1. /\ set \in SUBSET Cookies
        /\ \A c \in set : image.cookies[c] # None /\ image.cookies[c] \notin Lossy
        /\ \A c \in set : ~Clashes(Seeded(image, set), c)
    BY DEF Seedable, Wanted
  <2>2. \A c \in Cookies : after.provenance[c] # None => c \in set
    BY <1>2 DEF Seeds
  <2>3. \A c \in set : Seeded(image, set)[c] # None
    BY <2>1 DEF Seeded
  <2>4. Distinct(after.provenance, after.strayed)
    <3> SUFFICES ASSUME NEW c \in set, NEW d \in set, c[1] = d[1]
                 PROVE  c = d
      BY <2>2 DEF Distinct
    <3>1. d \in Matches(Seeded(image, set), c[1])
      BY <2>1, <2>3 DEF Matches
    <3> QED
      BY <2>1, <3>1 DEF Clashes
  <2>5. HasRecorded(after.cookies, after.provenance, after.strayed)
    <3>1. CASE after.cookies = Seeded(image, set)
      BY <2>2, <2>3, <3>1 DEF HasRecorded
    <3>2. ASSUME NEW c \in Wanted(image) \ set, NEW kept \in Kept(image.cookies[c]),
                 after.cookies = [Seeded(image, set) EXCEPT ![c] = kept]
          PROVE  HasRecorded(after.cookies, after.provenance, after.strayed)
      <4>1. DOMAIN Seeded(image, set) = Cookies
        BY DEF Seeded
      <4>2. \A d \in set : after.cookies[d] = Seeded(image, set)[d]
        BY <2>1, <3>2, <4>1
      <4> QED
        BY <2>2, <2>3, <4>2 DEF HasRecorded
    <3>3. ASSUME NEW keys, after.cookies = Without(Seeded(image, set), keys),
                 after.strayed = keys \cap KeysOf(set)
          PROVE  HasRecorded(after.cookies, after.provenance, after.strayed)
      <4> SUFFICES ASSUME NEW c \in set, c[1] \notin after.strayed
                   PROVE  after.cookies[c] # None
        BY <2>2 DEF HasRecorded
      <4>1. c[1] \in KeysOf(set) /\ c \in Cookies
        BY <2>1 DEF KeysOf
      <4> QED
        BY <2>3, <3>3, <4>1 DEF Without
    <3> QED
      BY <1>2, <3>1, <3>2, <3>3 DEF Seeds
  <2> QED
    BY <2>4, <2>5
<1> QED
  BY <1>1, <1>2, ReplacementIsEither

\* A step that keeps what Traceable is about.
LEMMA UntraceableHolds ==
    ASSUME Traceable, UNCHANGED <<cookies, provenance, snapshots, strayed>>,
           UNCHANGED accepted \/ accepted' = None
    PROVE  Traceable'
  BY DEF Traceable, Sound, HasRecorded, Distinct, Exact

\* A replacement, after which nothing is accepted or the jar that was seeded.
LEMMA ReplacedHolds ==
    ASSUME TypeOK, Traceable, NEW image \in Image, NEW after \in Replacements(image),
           Replaced(after), UNCHANGED snapshots,
           \/ accepted' = None
           \/ /\ accepted' = image /\ image.cookies = after.provenance
              /\ Projectable(after.cookies, after.provenance)
    PROVE  Traceable'
<1>1. cookies \in Jars /\ provenance \in Jars
  BY DEF TypeOK, Jars
<1>2. /\ HasRecorded(after.cookies, after.provenance, after.strayed)
      /\ Distinct(after.provenance, after.strayed)
  BY <1>1, ReplacementKeeps DEF Traceable
<1>3. HasRecorded(cookies, provenance, strayed)' /\ Distinct(provenance, strayed)'
  BY <1>2 DEF Replaced, HasRecorded, Distinct
<1>4. Sound(snapshots)'
  BY DEF Traceable, Sound, Distinct
<1>5. ASSUME accepted' # None PROVE Exact(accepted.cookies, cookies, strayed)'
  <2>1. Exact(after.provenance, after.cookies, after.strayed)
    BY <1>2, <1>5, ProjectableIsExact
  <2> QED
    BY <1>5, <2>1 DEF Replaced, Exact
<1> QED
  BY <1>3, <1>4, <1>5 DEF Traceable

\* The Subject removes a cookie, whose key has strayed if there is a record, or
\* has one there.
LEMMA SubjectCookieHolds ==
    ASSUME TypeOK, Traceable, NEW c \in Cookies, NEW value \in (Values \ Lossy) \cup {None},
           SubjectCookie(c, value)
    PROVE  Traceable'
<1>1. /\ cookies \in Jars /\ cookies' = [cookies EXCEPT ![c] = value]
      /\ UNCHANGED <<provenance, snapshots>> /\ accepted' = None
      /\ strayed' = strayed \cup {k \in {c[1]} : value = None /\ c \in Recorded}
  BY DEF SubjectCookie, TypeOK, Jars
<1>2. HasRecorded(cookies, provenance, strayed)'
  BY <1>1 DEF Traceable, HasRecorded, Recorded, Jars
<1>3. Distinct(provenance, strayed)'
  BY <1>1 DEF Traceable, Distinct
<1>4. Sound(snapshots)'
  BY <1>1 DEF Traceable, Sound, Distinct
<1> QED
  BY <1>1, <1>2, <1>3, <1>4 DEF Traceable

\* seed_cookie records a cookie whose key is not taken, or adds it only, or has
\* cleared its key.
LEMMA SeedCookieHolds ==
    ASSUME TypeOK, Traceable, NEW c \in Cookies, NEW value \in Values,
           SeedCookie(c, value)
    PROVE  Traceable'
<1>1. /\ cookies \in Jars /\ provenance \in Jars /\ value # None
      /\ \A kept \in Kept(value) : kept # None
  BY NoneAssumption, KeptTyped DEF TypeOK, Jars
<1>2. accepted' = None /\ UNCHANGED snapshots
  BY DEF SeedCookie
<1>3. HasRecorded(cookies, provenance, strayed) /\ Distinct(provenance, strayed)
  BY DEF Traceable
<1>4. Sound(snapshots)'
  BY <1>2 DEF Traceable, Sound, Distinct
<1>5. CASE /\ ~Clashes(cookies, c)
           /\ cookies' = [cookies EXCEPT ![c] = value]
           /\ provenance' = [provenance EXCEPT ![c] = value]
           /\ UNCHANGED strayed
  <2>1. HasRecorded(cookies, provenance, strayed)'
    BY <1>1, <1>3, <1>5 DEF HasRecorded, Jars
  <2>2. ASSUME NEW d \in Cookies, d # c, provenance[d] # None, d[1] \notin strayed
        PROVE  d[1] # c[1]
    BY <1>3, <1>5, <2>2 DEF Clashes, Matches, HasRecorded
  <2>3. Distinct(provenance, strayed)'
    BY <1>1, <1>3, <1>5, <2>2 DEF Distinct, Jars
  <2> QED
    BY <1>2, <1>4, <2>1, <2>3 DEF Traceable
<1>6. CASE /\ \E kept \in Kept(value) : cookies' = [cookies EXCEPT ![c] = kept]
           /\ UNCHANGED <<provenance, strayed>>
  <2>1. HasRecorded(cookies, provenance, strayed)'
    BY <1>1, <1>3, <1>6 DEF HasRecorded, Jars
  <2>2. Distinct(provenance, strayed)'
    BY <1>3, <1>6 DEF Distinct
  <2> QED
    BY <1>2, <1>4, <2>1, <2>2 DEF Traceable
<1>7. CASE /\ cookies' = Without(cookies, {c[1]})
           /\ strayed' = strayed \cup ({c[1]} \cap KeysOf(Recorded))
           /\ UNCHANGED provenance
  <2>1. \A d \in Cookies : provenance[d] # None => d[1] \in KeysOf(Recorded)
    BY DEF KeysOf, Recorded
  <2>2. HasRecorded(cookies, provenance, strayed)'
    BY <1>3, <1>7, <2>1 DEF HasRecorded, Without
  <2>3. Distinct(provenance, strayed)'
    BY <1>3, <1>7 DEF Distinct
  <2> QED
    BY <1>2, <1>4, <2>2, <2>3 DEF Traceable
<1> QED
  BY <1>5, <1>6, <1>7 DEF SeedCookie

\* What is projected is exact, and can be seeded.
LEMMA ProjectionHolds ==
    ASSUME TypeOK, Traceable, Project \/ Snapshot \/ VerifiedSnapshot
    PROVE  Traceable'
<1>1. /\ Projectable(cookies, provenance)
      /\ UNCHANGED <<cookies, provenance, strayed>>
  BY DEF Project, Snapshot, VerifiedSnapshot, Observable, browser
<1>2. /\ HasRecorded(cookies, provenance, strayed) /\ Distinct(provenance, strayed)
      /\ Sound(snapshots)
      /\ accepted # None => Exact(accepted.cookies, cookies, strayed)
  BY DEF Traceable
<1>3. Exact(provenance, cookies, strayed)
  BY <1>1, <1>2, ProjectableIsExact
<1>4. (accepted # None => Exact(accepted.cookies, cookies, strayed))'
  <2>1. UNCHANGED accepted \/ accepted'.cookies = provenance
    BY DEF Project, Snapshot, VerifiedSnapshot, Projected
  <2> QED
    BY <1>1, <1>2, <1>3, <2>1 DEF Exact
<1>5. Sound(snapshots)'
  <2>1. CASE UNCHANGED snapshots
    BY <1>2, <2>1 DEF Sound, Distinct
  <2>2. ASSUME NEW verified \in BOOLEAN,
               snapshots' = Append(snapshots, [image |-> Projected, verified |-> verified,
                                               strayed |-> strayed])
        PROVE  Sound(snapshots)'
    <3> DEFINE entry == [image |-> Projected, verified |-> verified, strayed |-> strayed]
    <3>1. entry \in Taken
      BY ProjectedTyped DEF Taken, TypeOK
    <3>2. snapshots \in Seq(Taken)
      BY DEF TypeOK
    <3>3. Distinct(entry.image.cookies, entry.strayed)
      BY <1>2 DEF Projected
    <3>4. snapshots' = Append(snapshots, entry)
      BY <2>2
    <3> HIDE DEF entry
    <3>5. \A n \in DOMAIN snapshots' :
              \/ snapshots'[n] = entry
              \/ n \in DOMAIN snapshots /\ snapshots'[n] = snapshots[n]
      BY <3>1, <3>2, <3>4
    <3> QED
      BY <1>2, <3>3, <3>5 DEF Sound, Distinct
  <2> QED
    BY <2>1, <2>2 DEF Project, Snapshot, VerifiedSnapshot
<1>6. HasRecorded(cookies, provenance, strayed)' /\ Distinct(provenance, strayed)'
  BY <1>1, <1>2 DEF HasRecorded, Distinct
<1> QED
  BY <1>4, <1>5, <1>6 DEF Traceable

\* Replacing alone, and between two projections.
LEMMA ReplaceHolds ==
    ASSUME TypeOK, Traceable, NEW image \in Image,
           Replace(image) \/ \E resettled \in BOOLEAN : VerifiedReplace(image, resettled)
    PROVE  Traceable'
<1>1. CASE Replace(image)
  BY <1>1, ReplacedHolds DEF Replace
<1>2. ASSUME NEW resettled \in BOOLEAN, VerifiedReplace(image, resettled)
      PROVE  Traceable'
  <2>1. PICK after \in Replacements(image) :
            /\ Replaced(after)
            /\ accepted' = IF /\ after.outcome = "replaced" /\ resettled
                              /\ Projectable(after.cookies, after.provenance)
                              /\ [cookies |-> after.provenance,
                                  storage |-> after.storage] = image
                           THEN image ELSE None
    BY <1>2 DEF VerifiedReplace
  <2>2. UNCHANGED snapshots
    BY <1>2 DEF VerifiedReplace
  <2>3. CASE accepted' = None
    BY <2>1, <2>2, <2>3, ReplacedHolds
  <2>4. CASE accepted' # None
    <3>1. /\ accepted' = image
          /\ Projectable(after.cookies, after.provenance)
          /\ [cookies |-> after.provenance, storage |-> after.storage] = image
      BY <2>1, <2>4
    <3>2. image.cookies = after.provenance
      BY <3>1
    <3> QED
      BY <2>1, <2>2, <3>1, <3>2, ReplacedHolds
  <2> QED
    BY <2>3, <2>4
<1> QED
  BY <1>1, <1>2

\* Every step preserves the second invariant.
LEMMA TraceableHolds == ASSUME IInv, TypeOK, Traceable, [Next]_vars PROVE Traceable'
<1>1. Baseline \in Image /\ \A n \in DOMAIN snapshots : snapshots[n].image \in Image
  <2>1. snapshots \in Seq(Taken)
    BY DEF TypeOK
  <2>2. \A n \in DOMAIN snapshots : snapshots[n] \in Taken
    BY <2>1
  <2>3. Baseline \in Image
    BY BaselineAssumption DEF Baseline, Image
  <2> QED
    BY <2>2, <2>3 DEF Taken
<1>2. CASE Provision
  <2>1. accepted = None /\ accepted' = None /\ UNCHANGED snapshots
    BY <1>2 DEF Provision, IInv, NewIsUnaccepted
  <2> QED
    BY <1>1, <1>2, <2>1, ReplacedHolds DEF Provision
<1>3. CASE Reset \/ VerifiedReset \/ \E n \in DOMAIN snapshots : Restore(n) \/ VerifiedRestore(n)
  BY <1>1, <1>3, ReplaceHolds DEF Reset, VerifiedReset, Restore, VerifiedRestore
<1>4. CASE \E c \in Cookies, value \in Values : SeedCookie(c, value)
  BY <1>4, SeedCookieHolds
<1>5. CASE Project \/ Snapshot \/ VerifiedSnapshot
  BY <1>5, ProjectionHolds
<1>6. ASSUME NEW c \in Cookies, NEW value \in (Values \ Lossy) \cup {None},
             SubjectCookie(c, value)
      PROVE  Traceable'
  BY <1>6, SubjectCookieHolds
<1>7. ASSUME NEW l \in Labels,
             \/ Accept(l)
             \/ \E origin \in Origins, item \in Items : StartDelayed(l, origin, item)
             \/ Fire(l)
             \/ MarkTerminal(l)
             \/ ReleaseMutation(l)
      PROVE  Traceable'
  <2>1. /\ UNCHANGED <<cookies, provenance, snapshots, strayed>>
        /\ UNCHANGED accepted \/ accepted' = None
    BY <1>7 DEF Accept, StartDelayed, Fire, MarkTerminal, ReleaseMutation, browser
  <2> QED
    BY <2>1, UntraceableHolds
<1>8. CASE \/ Release \/ CloseAdmission \/ NextBoundary \/ ProveInterference
           \/ \E origin \in Origins, item \in Items \cup {None} :
                  SubjectStorage(origin, item) \/ SeedStorage(origin, item)
           \/ \E key \in Keys : SeedPartitioned(key)
           \/ \E set \in SUBSET Conditions : SetConditions(set)
           \/ UNCHANGED vars
  <2>1. /\ UNCHANGED <<cookies, provenance, snapshots, strayed>>
        /\ UNCHANGED accepted \/ accepted' = None
    BY <1>8 DEF Release, CloseAdmission, NextBoundary, ProveInterference, SubjectStorage,
                SeedStorage, SeedPartitioned, SetConditions, vars, browser
  <2> QED
    BY <2>1, UntraceableHolds
<1> QED
  BY <1>2, <1>3, <1>4, <1>5, <1>6, <1>7, <1>8 DEF Next

LEMMA TraceableAlways == Spec => []Traceable
<1>1. Init => IInv /\ Traceable
  <2>1. Init => Traceable
    BY DEF Init, Traceable, Sound, HasRecorded, Distinct
  <2> QED
    BY <2>1, InitHolds
<1>2. IInv /\ TypeOK /\ Traceable /\ [Next]_vars => IInv' /\ Traceable'
  BY StepHolds, TraceableHolds
<1> QED
  BY <1>1, <1>2, TypeCorrect, PTL DEF Spec

\* Under every key but those where a cookie was removed and its record left, what
\* the verifier accepts has exactly the browser's cookies, whatever was refused
\* and whatever calls raised (_project_cookies, _seed_cookie,
\* _replace_selected_state).
THEOREM CookiesCorrect == Spec => []CookiesAreExact
<1>1. Traceable => CookiesAreExact
  BY DEF Traceable, Exact, CookiesAreExact
<1> QED
  BY <1>1, TraceableAlways, PTL

\* With the same exception every snapshot can be restored: _seed_cookie finds no
\* other of its cookies under the key of one (restore).
THEOREM SnapshotsCorrect == Spec => []SnapshotsAreSeedable
<1>1. Traceable => SnapshotsAreSeedable
  BY DEF Traceable, Sound, Distinct, SnapshotsAreSeedable
<1> QED
  BY <1>1, TraceableAlways, PTL

=============================================================================
