------------------------------ MODULE ArtifactStore ------------------------------
(***************************************************************************)
(* LocalFilesystemArtifactStore (artifacts/filesystem.py) and the          *)
(* publishers that put content into it at the same time, from one process. *)
(*                                                                         *)
(* A file system call can raise; what was done before it stays done.  The  *)
(* directories between the root and an object are one here, the object's   *)
(* home: put_stream makes it and syncs what is in it, but the home's own   *)
(* entry reaches the disk when the system writes it.  The temporary file   *)
(* is not a variable: nothing reads it but its publisher, and one that a   *)
(* crash leaves behind is never looked at again.                           *)
(***************************************************************************)
CONSTANTS
    Publishers,     \* threads that can call put_stream
    Contents,       \* contents, one for each digest
    Homes,          \* directories, sha256/xx/yy
    HomeOf,         \* the directory of a content's object
    None

ASSUME NoContentAssumption == None \notin Contents
ASSUME HomeAssumption == HomeOf \in [Contents -> Homes]

VARIABLES
    objects,        \* what is at the path of a content's digest
    durable,        \* objects whose entry in their home is on the disk
    homes,          \* the directories: "made" until their own entries are, too
    step,           \* where a publisher's put_stream is
    content,        \* what it puts
    linked,         \* its local "published"
    refs,           \* ArtifactRefs returned, and by which way
    outage,         \* the machine has lost power
    vanished        \* directories an outage took

putVars == <<step, content, linked>>
powerVars == <<outage, vanished>>
artifactVars == <<objects, durable, homes, step, content, linked, refs, outage, vanished>>

Inactive == {"idle", "returned", "failed", "escaped"}

ArtifactInit ==
    /\ objects = [c \in Contents |-> "absent"]
    /\ durable = {}
    /\ homes \in [Homes -> {"absent", "settled"}]
    /\ step = [p \in Publishers |-> "idle"]
    /\ content = [p \in Publishers |-> None]
    /\ linked = [p \in Publishers |-> FALSE]
    /\ refs = {}
    /\ outage = FALSE
    /\ vanished = {}

\* put_stream goes on to another place, or ends.
PutGoesTo(p, place) ==
    /\ step' = [step EXCEPT ![p] = place]
    /\ UNCHANGED <<content, linked>>

PutEnds(p, place) ==
    /\ step' = [step EXCEPT ![p] = place]
    /\ content' = [content EXCEPT ![p] = None]
    /\ linked' = [linked EXCEPT ![p] = FALSE]

-----------------------------------------------------------------------------
\* put_stream makes its temporary file, before it converts any error.
BeginPut(p, c) ==
    /\ step[p] \in Inactive
    /\ \/ /\ step' = [step EXCEPT ![p] = "writing"]
          /\ content' = [content EXCEPT ![p] = c]
          /\ UNCHANGED linked
       \/ PutEnds(p, "escaped")
    /\ UNCHANGED <<objects, durable, homes, refs, powerVars>>

\* The stream is copied, synced and compared with the declared digest.
WriteTemp(p) ==
    /\ step[p] = "writing"
    /\ PutGoesTo(p, "linking") \/ PutEnds(p, "failed")
    /\ UNCHANGED <<objects, durable, homes, refs, powerVars>>

\* Mutant: the directory is not synced.
CreateUnsynced(p) ==
    /\ objects[content[p]] = "absent"
    /\ objects' = [objects EXCEPT ![content[p]] = "intact"]
    /\ step' = [step EXCEPT ![p] = "verifying"]
    /\ linked' = [linked EXCEPT ![p] = TRUE]
    /\ UNCHANGED content

\* os.link creates the object where there is none.
Create(p) ==
    /\ objects[content[p]] = "absent"
    /\ objects' = [objects EXCEPT ![content[p]] = "intact"]
    /\ step' = [step EXCEPT ![p] = "syncing"]
    /\ linked' = [linked EXCEPT ![p] = TRUE]
    /\ UNCHANGED content

\* FileExistsError: the object that is there has to have the content.
Find(p) ==
    /\ objects[content[p]] = "intact"
    /\ PutGoesTo(p, "verifying")
    /\ UNCHANGED objects

\* mkdir of an object's directory and those above it.
MakeHome(c) ==
    homes' = [homes EXCEPT ![HomeOf[c]] = IF @ = "absent" THEN "made" ELSE @]

\* mkdir and os.link; either of them raises, or what is found is damaged.
Link(p) ==
    /\ step[p] = "linking"
    /\ \/ MakeHome(content[p]) /\ (Create(p) \/ Find(p))
       \/ /\ MakeHome(content[p]) \/ UNCHANGED homes
          /\ PutEnds(p, "failed") /\ UNCHANGED objects
    /\ UNCHANGED <<durable, refs, powerVars>>

\* Mutant: an error of the directory's sync is ignored.
SyncIfPossible(p) ==
    /\ step[p] = "syncing"
    /\ PutGoesTo(p, "verifying")
    /\ durable' \in {durable, durable \cup {content[p]}}
    /\ UNCHANGED <<objects, homes, refs, powerVars>>

\* _fsync_directory of the home alone; an error leaves the object published.
SyncDirectory(p) ==
    /\ step[p] = "syncing"
    /\ \/ durable' = durable \cup {content[p]} /\ PutGoesTo(p, "verifying")
       \/ PutEnds(p, "failed") /\ UNCHANGED durable
    /\ UNCHANGED <<objects, homes, refs, powerVars>>

\* The object is verified, the temporary file removed and the reference
\* returned.
Return(p) ==
    /\ step[p] = "verifying"
    /\ objects[content[p]] = "intact"
    /\ PutEnds(p, "returned")
    /\ refs' = refs \cup {[content |-> content[p], linked |-> linked[p]]}
    /\ UNCHANGED <<objects, durable, homes, powerVars>>

\* Verification raises; or only the removal, which counts for the publisher
\* that created the object.
FailAtEnd(p) ==
    /\ step[p] = "verifying"
    /\ PutEnds(p, "failed")
    /\ UNCHANGED <<objects, durable, homes, refs, powerVars>>

PutStep(p) ==
    WriteTemp(p) \/ Link(p) \/ SyncDirectory(p) \/ Return(p) \/ FailAtEnd(p)

-----------------------------------------------------------------------------
\* The storage and the process.

\* An object's bytes change.
Damage(c) ==
    /\ objects[c] = "intact"
    /\ objects' = [objects EXCEPT ![c] = "damaged"]
    /\ UNCHANGED <<durable, homes, putVars, refs, powerVars>>

\* The calls of a process that is gone.
PutsAreLost ==
    /\ step' = [p \in Publishers |-> "idle"]
    /\ content' = [p \in Publishers |-> None]
    /\ linked' = [p \in Publishers |-> FALSE]

\* The publishers' process is killed, and started again.
LoseProcess ==
    /\ PutsAreLost
    /\ UNCHANGED <<objects, durable, homes, refs, powerVars>>

\* The system writes a directory's own entry to the disk, and those above it.
WriteBack(h) ==
    /\ homes[h] = "made"
    /\ homes' = [homes EXCEPT ![h] = "settled"]
    /\ UNCHANGED <<objects, durable, putVars, refs, powerVars>>

\* The machine loses power.  Directories whose own entry was not written can be
\* gone, with all that is in them, and objects whose entry was not synced; what
\* is there afterwards is on the disk.
LosePower ==
    /\ PutsAreLost
    /\ \E gone \in SUBSET {h \in Homes : homes[h] = "made"} :
       \E kept \in SUBSET {c \in Contents : objects[c] # "absent" /\ HomeOf[c] \notin gone} :
           /\ {c \in durable : HomeOf[c] \notin gone} \subseteq kept
           /\ objects' = [c \in Contents |-> IF c \in kept THEN objects[c] ELSE "absent"]
           /\ durable' = kept
           /\ homes' = [h \in Homes |-> IF h \in gone \/ homes[h] = "absent"
                                        THEN "absent" ELSE "settled"]
           /\ vanished' = vanished \cup gone
    /\ outage' = TRUE
    /\ UNCHANGED refs

ArtifactNext ==
    \/ \E p \in Publishers : (\E c \in Contents : BeginPut(p, c)) \/ PutStep(p)
    \/ \E c \in Contents : Damage(c)
    \/ \E h \in Homes : WriteBack(h)
    \/ LoseProcess
    \/ LosePower

ArtifactSpec == ArtifactInit /\ [][ArtifactNext]_artifactVars

-----------------------------------------------------------------------------
\* The type invariant (the tree under the store's root and the locals of
\* put_stream).
ArtifactTypeOK ==
    /\ objects \in [Contents -> {"absent", "intact", "damaged"}]
    /\ durable \subseteq Contents
    /\ homes \in [Homes -> {"absent", "made", "settled"}]
    /\ step \in [Publishers -> Inactive \cup {"writing", "linking", "syncing", "verifying"}]
    /\ content \in [Publishers -> Contents \cup {None}]
    /\ linked \in [Publishers -> BOOLEAN]
    /\ refs \subseteq [content : Contents, linked : BOOLEAN]
    /\ outage \in BOOLEAN
    /\ vanished \subseteq Homes

\* A reference that put_stream has returned leads to an object for ever.  Only an
\* outage takes it: one that it created, with a directory that was new and whose
\* entry nobody had synced; one that it had only found, also when the publisher
\* that created it has not synced the directory yet.
ReferencesLead ==
    \A ref \in refs : objects[ref.content] = "absent" =>
        outage /\ (ref.linked => HomeOf[ref.content] \in vanished)

\* Every put, failure, crash and outage is a step of a store that hands out only
\* what it has, to its publisher only what is filed, and loses what is filed
\* with its whole shelf or not at all (ImmutableStore).
Promise == INSTANCE ImmutableStore WITH
    Shelves <- Homes,
    ShelfOf <- HomeOf,
    store <- {c \in Contents : objects[c] # "absent"},
    filed <- durable,
    fixed <- {h \in Homes : homes[h] = "settled"},
    handed <- refs

ImplementsImmutable == Promise!StoreSpec

=============================================================================
