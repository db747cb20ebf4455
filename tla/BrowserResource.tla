---------------------------- MODULE BrowserResource ----------------------------
(***************************************************************************)
(* PlaywrightBrowserResource with its fixture, mutation and excluded-state *)
(* controls (tck_adapter/playwright_browser) under the verifier of         *)
(* tck_adapter/browser_harness.py, BrowserConformanceHarness.              *)
(*                                                                         *)
(* The provider does not show everything the portable state has, so the    *)
(* evaluator keeps the provenance of each cookie it seeds and projects     *)
(* what provenance and browser agree on.  A cookie is identified by its    *)
(* visible key (name, domain, path) and by being host-only; the provider's *)
(* listing shows the key alone, and its filter for clearing knows no more. *)
(* All domains and origins here are selected by the Manifest.              *)
(*                                                                         *)
(* The browser is asynchronous: a delayed mutation fires whenever it wants *)
(* to.  Every call into the provider can raise, before it took effect or   *)
(* after; replacing the selected state makes many and keeps what it did    *)
(* before the one that did.  No cookie reaches its expiry meanwhile.       *)
(***************************************************************************)
EXTENDS Naturals, Sequences

CONSTANTS
    Keys,           \* (name, domain, path) of the cookies
    Values,         \* value, flags and expiry of a cookie
    Lossy,          \* those whose expiry the provider does not keep exactly
    Origins,        \* localStorageOrigins of the Manifest
    Items,          \* contents of a localStorage
    Labels,         \* mutation labels
    BaselineCookies, BaselineStorage,
    None

ASSUME NoneAssumption == None \notin Values \cup Items
ASSUME LossyAssumption == Lossy \subseteq Values

\* CookieProvenance.identity: TRUE is host-only.
Cookies == Keys \X BOOLEAN

ASSUME BaselineAssumption ==
    /\ BaselineCookies \in [Cookies -> Values \cup {None}]
    /\ BaselineStorage \in [Origins -> Items \cup {None}]

VARIABLES
    phase,          \* of the resource: new, live or released
    cookies,        \* the browser's unpartitioned cookies
    partitioned,    \* the keys under which it has a partitioned one
    storage,        \* its localStorage
    sessions,       \* PlaywrightBrowserMutationControl._sessions
    provenance,     \* PlaywrightBrowserResource._provenance
    snapshots,      \* _snapshots, whether _snapshot_targets has them, and what
                    \* was strayed when they were taken
    conditions,     \* what keeps the observer from accepting the resource
    admission,      \* BrowserSettlementLedger._admission_open
    mutations,      \* BrowserSettlementLedger._mutations
    accepted,       \* the last accepted projection, while nothing was done since
    strayed         \* history: the keys under which a cookie was removed and
                    \* its record left, until no record of them is left

browser == <<cookies, partitioned, storage>>
ledger == <<admission, mutations>>
vars == <<phase, cookies, partitioned, storage, sessions, provenance, snapshots,
          conditions, admission, mutations, accepted, strayed>>

live == phase = "live"

Image == [cookies : [Cookies -> Values \cup {None}],
          storage : [Origins -> Items \cup {None}]]

Baseline == [cookies |-> BaselineCookies, storage |-> BaselineStorage]

\* A snapshot.
Taken == [image : Image, verified : BOOLEAN, strayed : SUBSET Keys]

Session == [origin : Origins, item : Items, fired : BOOLEAN]

ASSUME SessionAssumption == None \notin Session

Conditions == {"drift", "interfering", "ineligible"}

\* A new BrowserSettlementLedger.
NewLedger == admission = TRUE /\ mutations = [l \in Labels |-> "unknown"]

Init ==
    /\ phase = "new"
    /\ cookies = [c \in Cookies |-> None]
    /\ partitioned = {}
    /\ storage = [o \in Origins |-> None]
    /\ sessions = [l \in Labels |-> None]
    /\ provenance = [c \in Cookies |-> None]
    /\ snapshots = <<>>
    /\ conditions = {}
    /\ NewLedger
    /\ accepted = None
    /\ strayed = {}

-----------------------------------------------------------------------------
\* Projecting the selected state.

\* The cookies of a jar that the provider lists under a key.
Matches(jar, key) == {c \in Cookies : c[1] = key /\ jar[c] # None}

\* _project_cookies raises unless each record has exactly one cookie of its
\* key with its value, and each cookie some record of its key.
Projectable(jar, records) ==
    /\ \A c \in Cookies : records[c] # None =>
           \E d \in Cookies : Matches(jar, c[1]) = {d} /\ jar[d] = records[c]
    /\ \A c \in Cookies : jar[c] # None =>
           \E d \in Cookies : d[1] = c[1] /\ records[d] # None

\* _project_selected_state: the cookies come from the provenance.
Projected == [cookies |-> provenance, storage |-> storage]

\* BrowserSettlementLedger.require_positive_witness.
Settled == ~admission /\ \A l \in Labels : mutations[l] # "unresolved"

\* PlaywrightBrowserObserver.verify_execution_conditions.
Trusted == {"drift", "interfering"} \cap conditions = {}

\* authoritative_projection succeeds.
Observable == Settled /\ Trusted /\ Projectable(cookies, provenance)

-----------------------------------------------------------------------------
\* Replacing the selected state.

\* _clear_cookie_record takes every cookie of the key, partitioned ones too.
Without(jar, keys) == [c \in Cookies |-> IF c[1] \in keys THEN None ELSE jar[c]]

\* The cookies with provenance, those an image has, and the keys of a set.
Recorded == {c \in Cookies : provenance[c] # None}
Wanted(image) == {c \in Cookies : image.cookies[c] # None}
KeysOf(set) == {c[1] : c \in set}

\* _clear_selected_state has cleared some cookies with provenance and popped
\* the records of some, or all of them and some origins.
Cleared(popped, cleared, origins) ==
    [cookies |-> Without(cookies, KeysOf(cleared)),
     partitioned |-> partitioned \ KeysOf(cleared),
     storage |-> [o \in Origins |-> IF o \in origins THEN None ELSE storage[o]],
     provenance |-> [c \in Cookies |-> IF c \in popped THEN None ELSE provenance[c]],
     strayed |-> (strayed \cup KeysOf(cleared)) \cap KeysOf(Recorded \ popped),
     outcome |-> "raised"]

\* The call for the next record can have cleared it and then raised, and the
\* record is popped after the call.
Clearings ==
    UNION {{Cleared(popped, popped \cup next, {}) : popped \in SUBSET Recorded}
           : next \in {{}} \cup {{c} : c \in Recorded}}

\* _set_local_storage has filled some origins.
Filled(image, origins) ==
    [Cleared(Recorded, Recorded, Origins) EXCEPT !.storage =
        [o \in Origins |-> IF o \in origins THEN image.storage[o] ELSE None]]

\* The jar with some cookies of the image, after those with provenance.
Seeded(image, set) ==
    [c \in Cookies |-> IF c \in set THEN image.cookies[c]
                       ELSE Without(cookies, KeysOf(Recorded))[c]]

\* The key of a cookie is taken by another one.
Clashes(jar, c) == \E d \in Matches(jar, c[1]) : d # c

\* _seed_cookie takes these cookies of the image.
Seedable(image) ==
    {set \in SUBSET Wanted(image) : \A c \in set :
        ~Clashes(Seeded(image, set), c) /\ image.cookies[c] \notin Lossy}

After(image, set, keys, outcome) ==
    [cookies |-> Without(Seeded(image, set), keys),
     partitioned |-> (partitioned \ KeysOf(Recorded)) \ keys,
     storage |-> image.storage,
     provenance |-> [c \in Cookies |-> IF c \in set THEN image.cookies[c] ELSE None],
     strayed |-> keys \cap KeysOf(set),
     outcome |-> outcome]

\* It refuses the next one, for a key that is taken or an expiry that is not
\* kept, and clears the key.
Refusals(image, set) ==
    {After(image, set, {c[1]}, "raised") : c \in
        {d \in Wanted(image) \ set : \/ Clashes(Seeded(image, set), d)
                                     \/ image.cookies[d] \in Lossy}}

\* What the provider keeps of a value.
Kept(value) == IF value \in Lossy THEN Values \ Lossy ELSE {value}

\* The provider has the next one when a call raises, and there is no record.
Unrecorded(image, set) ==
    UNION {{[After(image, set, {}, "raised") EXCEPT !.cookies[c] = kept]
            : kept \in Kept(image.cookies[c])} : c \in Wanted(image) \ set}

\* What _replace_selected_state can come to: it clears the cookies that have
\* provenance, clears the origins, fills them, and seeds the cookies.  A
\* provider call raises at any point.
Replacements(image) ==
    Clearings
    \cup {Cleared(Recorded, Recorded, origins) : origins \in SUBSET Origins}
    \cup {Filled(image, origins) : origins \in SUBSET Origins}
    \cup {After(image, set, {}, "replaced") : set \in Seedable(image) \cap {Wanted(image)}}
    \cup UNION {{After(image, set, {}, "raised")} \cup Refusals(image, set)
                \cup Unrecorded(image, set) : set \in Seedable(image)}

\* The browser and the provenance after one of these.
Replaced(after) ==
    /\ cookies' = after.cookies
    /\ partitioned' = after.partitioned
    /\ storage' = after.storage
    /\ provenance' = after.provenance
    /\ strayed' = after.strayed

-----------------------------------------------------------------------------
\* The life of the resource.

\* PlaywrightBrowserBackendHarness.provision: a new context is seeded with the
\* baseline, and closed again if that raises.
Provision ==
    /\ phase = "new"
    /\ \E after \in Replacements(Baseline) :
           /\ Replaced(after)
           /\ phase' = IF after.outcome = "replaced" THEN "live" ELSE "released"
    /\ UNCHANGED <<sessions, snapshots, conditions, ledger, accepted>>

\* release closes the context and with it every page.
Release ==
    /\ live
    /\ phase' = "released"
    /\ sessions' = [l \in Labels |-> None]
    /\ UNCHANGED <<browser, provenance, snapshots, conditions, ledger, accepted,
                   strayed>>

-----------------------------------------------------------------------------
\* The Subject in the browser, while side effects are admitted.

\* A page or a response sets, replaces or deletes a cookie.
SubjectCookie(c, value) ==
    /\ live /\ admission
    /\ cookies' = [cookies EXCEPT ![c] = value]
    /\ strayed' = strayed \cup {k \in {c[1]} : value = None /\ c \in Recorded}
    /\ accepted' = None
    /\ UNCHANGED <<phase, partitioned, storage, sessions, provenance, snapshots,
                   conditions, ledger>>

\* A page writes to the localStorage of its origin.
SubjectStorage(origin, item) ==
    /\ live /\ admission
    /\ storage' = [storage EXCEPT ![origin] = item]
    /\ accepted' = None
    /\ UNCHANGED <<phase, cookies, partitioned, sessions, provenance, snapshots,
                   conditions, ledger, strayed>>

-----------------------------------------------------------------------------
\* Delayed mutations and the ledger, as the evaluator uses them: a mutation is
\* accepted before it is started, and terminal when the page has seen it end.

\* BrowserSettlementLedger.accept_relevant_mutation.
Accept(l) ==
    /\ admission /\ mutations[l] = "unknown"
    /\ mutations' = [mutations EXCEPT ![l] = "unresolved"]
    /\ accepted' = None
    /\ UNCHANGED <<phase, browser, sessions, provenance, snapshots, conditions,
                   admission, strayed>>

\* start_delayed_local_storage_mutation, of an accepted label; one that raises
\* leaves the label unresolved and no page.
StartDelayed(l, origin, item) ==
    /\ live /\ mutations[l] = "unresolved" /\ sessions[l] = None
    /\ sessions' = [sessions EXCEPT ![l] =
           [origin |-> origin, item |-> item, fired |-> FALSE]]
    /\ UNCHANGED <<phase, browser, provenance, snapshots, conditions, ledger,
                   accepted, strayed>>

\* The page's timer fires.
Fire(l) ==
    /\ sessions[l] # None /\ ~sessions[l].fired
    /\ sessions' = [sessions EXCEPT ![l].fired = TRUE]
    /\ storage' = [storage EXCEPT ![sessions[l].origin] = sessions[l].item]
    /\ UNCHANGED <<phase, cookies, partitioned, provenance, snapshots, conditions,
                   ledger, accepted, strayed>>

\* Mutant: a mutation is terminal when its page is there, as after networkidle.
MarkTerminalWhenIdle(l) ==
    /\ live /\ mutations[l] = "unresolved"
    /\ sessions[l] # None
    /\ mutations' = [mutations EXCEPT ![l] = "terminal"]
    /\ UNCHANGED <<phase, browser, sessions, provenance, snapshots, conditions,
                   admission, accepted, strayed>>

\* wait_for_terminal, then BrowserSettlementLedger.mark_terminal.
MarkTerminal(l) ==
    /\ live /\ mutations[l] = "unresolved"
    /\ sessions[l] # None /\ sessions[l].fired
    /\ mutations' = [mutations EXCEPT ![l] = "terminal"]
    /\ UNCHANGED <<phase, browser, sessions, provenance, snapshots, conditions,
                   admission, accepted, strayed>>

\* release_mutation closes the page, whether its timer fired or not.
ReleaseMutation(l) ==
    /\ live /\ sessions[l] # None
    /\ sessions' = [sessions EXCEPT ![l] = None]
    /\ UNCHANGED <<phase, browser, provenance, snapshots, conditions, ledger,
                   accepted, strayed>>

\* BrowserSettlementLedger.close_subject_admission.
CloseAdmission ==
    /\ admission
    /\ admission' = FALSE
    /\ UNCHANGED <<phase, browser, sessions, provenance, snapshots, conditions,
                   mutations, accepted, strayed>>

\* The evaluator takes a new ledger for the next boundary.
NextBoundary ==
    /\ Settled
    /\ admission' = TRUE
    /\ mutations' = [l \in Labels |-> "unknown"]
    /\ accepted' = None
    /\ UNCHANGED <<phase, browser, sessions, provenance, snapshots, conditions,
                   strayed>>

-----------------------------------------------------------------------------
\* PlaywrightBrowserFixtureControl and the controls of excluded state.

\* Mutant: a cookie replaces the one with its key, whose record stays.
SeedCookieReplacing(c, value) ==
    /\ live
    /\ value \notin Lossy
    /\ cookies' = [Without(cookies, {c[1]}) EXCEPT ![c] = value]
    /\ provenance' = [provenance EXCEPT ![c] = value]
    /\ accepted' = None
    /\ UNCHANGED <<phase, partitioned, storage, sessions, snapshots, conditions,
                   ledger, strayed>>

\* seed_cookie.  A refused cookie is cleared, with whatever shares its key; the
\* records of that key stay.  When a call raises in between, the provider has
\* the cookie and the resource no record of it.
SeedCookie(c, value) ==
    /\ live
    /\ LET refuse == Clashes(cookies, c) \/ value \in Lossy
       IN  \/ /\ ~refuse
              /\ cookies' = [cookies EXCEPT ![c] = value]
              /\ provenance' = [provenance EXCEPT ![c] = value]
              /\ UNCHANGED <<partitioned, strayed>>
           \/ /\ refuse
              /\ cookies' = Without(cookies, {c[1]})
              /\ partitioned' = partitioned \ {c[1]}
              /\ strayed' = strayed \cup ({c[1]} \cap KeysOf(Recorded))
              /\ UNCHANGED provenance
           \/ /\ \E kept \in Kept(value) : cookies' = [cookies EXCEPT ![c] = kept]
              /\ UNCHANGED <<partitioned, provenance, strayed>>
    /\ accepted' = None
    /\ UNCHANGED <<phase, storage, sessions, snapshots, conditions, ledger>>

\* seed_local_storage clears the origin and fills it, or raises in between.
SeedStorage(origin, item) ==
    /\ live
    /\ storage' = [storage EXCEPT ![origin] = item]
    /\ accepted' = None
    /\ UNCHANGED <<phase, cookies, partitioned, sessions, provenance, snapshots,
                   conditions, ledger, strayed>>

\* seed_partitioned_cookie.
SeedPartitioned(key) ==
    /\ live
    /\ partitioned' = partitioned \cup {key}
    /\ UNCHANGED <<phase, cookies, storage, sessions, provenance, snapshots,
                   conditions, ledger, accepted, strayed>>

\* set_execution_binding, set_excluded_state_interference and
\* set_restore_temporal_eligibility, either way.
SetConditions(set) ==
    /\ live
    /\ conditions' = set
    /\ accepted' = None
    /\ UNCHANGED <<phase, browser, sessions, provenance, snapshots, ledger,
                   strayed>>

\* prove_interference and prove_service_worker_cache_interference: the selected
\* state is projected before and after, and the resource is marked.
ProveInterference ==
    /\ live /\ Projectable(cookies, provenance)
    /\ conditions' = conditions \cup {"interfering"}
    /\ accepted' = None
    /\ UNCHANGED <<phase, browser, sessions, provenance, snapshots, ledger,
                   strayed>>

-----------------------------------------------------------------------------
\* Projection, snapshot, reset and restore.

\* authoritative_projection.
Project ==
    /\ live /\ Observable
    /\ accepted' = Projected
    /\ UNCHANGED <<phase, browser, sessions, provenance, snapshots, conditions,
                   ledger, strayed>>

\* PlaywrightBrowserResource.snapshot, alone.
Snapshot ==
    /\ live /\ Projectable(cookies, provenance)
    /\ snapshots' = Append(snapshots, [image |-> Projected, verified |-> FALSE,
                                      strayed |-> strayed])
    /\ UNCHANGED <<phase, browser, sessions, provenance, conditions, ledger,
                   accepted, strayed>>

\* verified_snapshot: the snapshot has the digest of the projection before it.
VerifiedSnapshot ==
    /\ live /\ Observable
    /\ snapshots' = Append(snapshots, [image |-> Projected, verified |-> TRUE,
                                      strayed |-> strayed])
    /\ accepted' = Projected
    /\ UNCHANGED <<phase, browser, sessions, provenance, conditions, ledger,
                   strayed>>

\* PlaywrightBrowserResource.reset and restore, alone.
Replace(image) ==
    /\ live
    /\ \E after \in Replacements(image) : Replaced(after)
    /\ accepted' = None
    /\ UNCHANGED <<phase, sessions, snapshots, conditions, ledger>>

\* verified_reset and verified_restore: project, replace, and project again,
\* with a ledger of its own (resettled), which has to give the target.
VerifiedReplace(image, resettled) ==
    /\ live /\ Observable
    /\ \E after \in Replacements(image) :
           /\ Replaced(after)
           /\ accepted' = IF /\ after.outcome = "replaced" /\ resettled
                             /\ Projectable(after.cookies, after.provenance)
                             /\ [cookies |-> after.provenance,
                                 storage |-> after.storage] = image
                          THEN image ELSE None
    /\ UNCHANGED <<phase, sessions, snapshots, conditions, ledger>>

\* reset.
Reset == Replace(Baseline)

VerifiedReset == \E resettled \in BOOLEAN : VerifiedReplace(Baseline, resettled)

\* restore of a snapshot that the resource has.
Restore(n) == Replace(snapshots[n].image)

\* verified_restore of a snapshot that it has recorded, where cookie times do
\* not stand in the way.
VerifiedRestore(n) ==
    /\ snapshots[n].verified
    /\ "ineligible" \notin conditions
    /\ \E resettled \in BOOLEAN : VerifiedReplace(snapshots[n].image, resettled)

Next ==
    \/ Provision
    \/ Release
    \/ \E c \in Cookies, value \in (Values \ Lossy) \cup {None} : SubjectCookie(c, value)
    \/ \E origin \in Origins, item \in Items \cup {None} : SubjectStorage(origin, item)
    \/ \E l \in Labels :
        \/ Accept(l)
        \/ \E origin \in Origins, item \in Items : StartDelayed(l, origin, item)
        \/ Fire(l)
        \/ MarkTerminal(l)
        \/ ReleaseMutation(l)
    \/ CloseAdmission
    \/ NextBoundary
    \/ \E c \in Cookies, value \in Values : SeedCookie(c, value)
    \/ \E origin \in Origins, item \in Items \cup {None} : SeedStorage(origin, item)
    \/ \E key \in Keys : SeedPartitioned(key)
    \/ \E set \in SUBSET Conditions : SetConditions(set)
    \/ ProveInterference
    \/ Project
    \/ Snapshot
    \/ VerifiedSnapshot
    \/ Reset
    \/ VerifiedReset
    \/ \E n \in DOMAIN snapshots : Restore(n) \/ VerifiedRestore(n)

Spec == Init /\ [][Next]_vars

-----------------------------------------------------------------------------
\* The type invariant (the fields of the resource, its controls and the ledger).
TypeOK ==
    /\ phase \in {"new", "live", "released"}
    /\ cookies \in [Cookies -> (Values \ Lossy) \cup {None}]
    /\ partitioned \subseteq Keys
    /\ storage \in [Origins -> Items \cup {None}]
    /\ sessions \in [Labels -> Session \cup {None}]
    /\ provenance \in [Cookies -> (Values \ Lossy) \cup {None}]
    /\ snapshots \in Seq(Taken)
    /\ conditions \subseteq Conditions
    /\ admission \in BOOLEAN
    /\ mutations \in [Labels -> {"unknown", "unresolved", "terminal"}]
    /\ accepted \in Image \cup {None}
    /\ strayed \subseteq Keys

\* What a verified projection, reset or restore has reported stays true of the
\* browser until somebody acts on it again: no timer fires late, no half of a
\* replacement is taken for the whole (authoritative_projection,
\* verified_reset, verified_restore).
AcceptedStands ==
    accepted # None =>
        /\ accepted.storage = storage
        /\ \A c \in Cookies : cookies[c] # None =>
               \E d \in Cookies : d[1] = c[1] /\ accepted.cookies[d] = cookies[c]
        /\ \A c \in Cookies : accepted.cookies[c] # None =>
               \E d \in Cookies : d[1] = c[1] /\ cookies[d] = accepted.cookies[c]

\* An accepted projection has exactly the browser's cookies, host-only or not,
\* whatever was refused and wherever calls raised.  Only under a key where a
\* cookie was removed and its record left, which a refused seed, a clearing that
\* raised after its effect and the Subject can do, may it show the wrong one
\* (_project_cookies): until the next replacement gets through its clearing.
CookiesAreExact ==
    accepted # None =>
        \A c \in Cookies : c[1] \notin strayed => accepted.cookies[c] = cookies[c]

\* Every snapshot can be restored: no two of its cookies share the key that
\* _seed_cookie asks to be unique, but for the keys that had such a record when
\* it was taken.
SnapshotsAreSeedable ==
    \A n \in DOMAIN snapshots : \A c, d \in Cookies :
        /\ c[1] \notin snapshots[n].strayed
        /\ snapshots[n].image.cookies[c] # None
        /\ snapshots[n].image.cookies[d] # None
        /\ c[1] = d[1]
        => c = d

=============================================================================
