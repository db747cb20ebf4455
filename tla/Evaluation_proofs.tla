--------------------------- MODULE Evaluation_proofs ---------------------------
(***************************************************************************)
(* Proofs about Evaluation for every number of verifications, publishers   *)
(* and contents.                                                           *)
(*                                                                         *)
(* The store and the runner are proved apart, each with an invariant of    *)
(* its own: every step of the composition is a step of the store or leaves *)
(* it alone, and a step of the runner or leaves it alone.                  *)
(***************************************************************************)
EXTENDS Evaluation, TLAPS

-----------------------------------------------------------------------------
\* The store.

Working == {"writing", "linking", "syncing", "verifying"}

\* A put that is under way has a content.
PutsHaveContent == \A p \in Publishers : step[p] \in Working => content[p] \in Contents

\* From the link on there is an object; one that was created is durable when
\* it is verified.
ObjectsAreThere ==
    \A p \in Publishers :
        /\ step[p] \in {"syncing", "verifying"} => objects[content[p]] # "absent"
        /\ step[p] = "verifying" /\ linked[p] => content[p] \in durable
        /\ linked[p] => step[p] \in {"syncing", "verifying"}

\* What was synced is there, and an object is in its directory; what references
\* lead to; directories vanish in an outage.
StoredInv ==
    /\ \A c \in durable : objects[c] # "absent"
    /\ \A c \in Contents : objects[c] # "absent" => homes[HomeOf[c]] # "absent"
    /\ \A ref \in refs :
           IF ref.linked THEN ref.content \in durable \/ HomeOf[ref.content] \in vanished
           ELSE objects[ref.content] # "absent" \/ outage
    /\ vanished # {} => outage

\* The store's inductive invariant.
StoreInv == ArtifactTypeOK /\ PutsHaveContent /\ ObjectsAreThere /\ StoredInv

\* The first state.
LEMMA StoreInitHolds == ArtifactInit => StoreInv
<1> SUFFICES ASSUME ArtifactInit PROVE StoreInv
  OBVIOUS
<1>1. homes \in [Homes -> {"absent", "made", "settled"}]
  BY DEF ArtifactInit
<1>2. ArtifactTypeOK
  BY <1>1 DEF ArtifactInit, ArtifactTypeOK, Inactive
<1>3. PutsHaveContent /\ ObjectsAreThere /\ StoredInv
  BY DEF ArtifactInit, PutsHaveContent, Working, ObjectsAreThere, StoredInv
<1> QED
  BY <1>2, <1>3 DEF StoreInv

\* A put begins, or cannot make its temporary file.
LEMMA BeginPutHolds ==
    ASSUME StoreInv, NEW p \in Publishers, NEW c \in Contents, BeginPut(p, c)
    PROVE  StoreInv'
<1> USE DEF StoreInv, BeginPut, PutEnds, Inactive, powerVars
<1>1. ArtifactTypeOK'
  BY DEF ArtifactTypeOK
<1>2. PutsHaveContent'
  BY DEF PutsHaveContent, ArtifactTypeOK, Working
<1>3. ObjectsAreThere'
  BY DEF ObjectsAreThere, ArtifactTypeOK
<1>4. StoredInv'
  BY DEF StoredInv
<1> QED
  BY <1>1, <1>2, <1>3, <1>4

\* The temporary file is written.
LEMMA WriteTempHolds == ASSUME StoreInv, NEW p \in Publishers, WriteTemp(p) PROVE StoreInv'
<1> USE DEF StoreInv, WriteTemp, PutGoesTo, PutEnds, Inactive, powerVars
<1>1. ArtifactTypeOK'
  BY DEF ArtifactTypeOK
<1>2. PutsHaveContent'
  BY DEF PutsHaveContent, ArtifactTypeOK, Working
<1>3. ObjectsAreThere'
  BY DEF ObjectsAreThere, ArtifactTypeOK
<1>4. StoredInv'
  BY DEF StoredInv
<1> QED
  BY <1>1, <1>2, <1>3, <1>4

\* Making a directory takes none away.
LEMMA MakeHomeHolds ==
    ASSUME ArtifactTypeOK, NEW c \in Contents, MakeHome(c)
    PROVE  /\ homes' \in [Homes -> {"absent", "made", "settled"}]
           /\ homes'[HomeOf[c]] # "absent"
           /\ \A h \in Homes : homes[h] # "absent" => homes'[h] # "absent"
           /\ \A h \in Homes : homes'[h] = "settled" <=> homes[h] = "settled"
  BY HomeAssumption DEF ArtifactTypeOK, MakeHome

\* Creating an object takes none away; finding one leaves it.
LEMMA LinkHolds == ASSUME StoreInv, NEW p \in Publishers, Link(p) PROVE StoreInv'
<1> USE DEF StoreInv, Inactive
<1>1. step[p] = "linking" /\ content[p] \in Contents /\ ~linked[p]
  BY DEF Link, PutsHaveContent, Working, ObjectsAreThere, ArtifactTypeOK
<1>2. UNCHANGED <<durable, refs, outage, vanished>>
  BY DEF Link, powerVars
<1>3. /\ homes' \in [Homes -> {"absent", "made", "settled"}]
      /\ \A h \in Homes : homes[h] # "absent" => homes'[h] # "absent"
  BY <1>1, MakeHomeHolds DEF Link, ArtifactTypeOK
<1>4. CASE MakeHome(content[p]) /\ Create(p)
  <2>1. /\ objects' = [objects EXCEPT ![content[p]] = "intact"]
        /\ step' = [step EXCEPT ![p] = "syncing"]
        /\ linked' = [linked EXCEPT ![p] = TRUE]
        /\ UNCHANGED content
    BY <1>4 DEF Create
  <2>2. ArtifactTypeOK'
    BY <1>1, <1>2, <1>3, <2>1 DEF ArtifactTypeOK
  <2>3. PutsHaveContent'
    BY <1>1, <2>1 DEF PutsHaveContent, ArtifactTypeOK, Working
  <2>4. \A c \in Contents : objects[c] # "absent" => objects'[c] # "absent"
    BY <1>1, <2>1 DEF ArtifactTypeOK
  <2>5. ObjectsAreThere'
    BY <1>1, <1>2, <2>1, <2>4 DEF ObjectsAreThere, ArtifactTypeOK, PutsHaveContent, Working
  <2>6. \A c \in Contents : objects'[c] # "absent" => homes'[HomeOf[c]] # "absent"
    BY <1>1, <1>3, <1>4, <2>1, MakeHomeHolds, HomeAssumption DEF StoredInv, ArtifactTypeOK
  <2>7. StoredInv'
    BY <1>2, <2>4, <2>6 DEF StoredInv, ArtifactTypeOK
  <2> QED
    BY <2>2, <2>3, <2>5, <2>7
<1>5. CASE UNCHANGED objects /\ (Find(p) \/ PutEnds(p, "failed"))
  <2>1. ArtifactTypeOK'
    BY <1>2, <1>3, <1>5 DEF Find, PutGoesTo, PutEnds, ArtifactTypeOK
  <2>2. PutsHaveContent'
    BY <1>1, <1>5 DEF Find, PutGoesTo, PutEnds, PutsHaveContent, ArtifactTypeOK, Working
  <2>3. ObjectsAreThere'
    BY <1>1, <1>2, <1>5 DEF Find, PutGoesTo, PutEnds, ObjectsAreThere, ArtifactTypeOK
  <2>4. StoredInv'
    BY <1>2, <1>3, <1>5, HomeAssumption DEF StoredInv, ArtifactTypeOK
  <2> QED
    BY <2>1, <2>2, <2>3, <2>4
<1> QED
  BY <1>4, <1>5 DEF Link, Find

\* The directory is synced, of an object that is there.
LEMMA SyncDirectoryHolds ==
    ASSUME StoreInv, NEW p \in Publishers, SyncDirectory(p)
    PROVE  StoreInv'
<1> USE DEF StoreInv, SyncDirectory, PutGoesTo, PutEnds, Inactive, powerVars
<1>1. content[p] \in Contents /\ objects[content[p]] # "absent"
  BY DEF PutsHaveContent, Working, ObjectsAreThere
<1>2. ArtifactTypeOK'
  BY <1>1 DEF ArtifactTypeOK
<1>3. PutsHaveContent'
  BY DEF PutsHaveContent, ArtifactTypeOK, Working
<1>4. ObjectsAreThere'
  BY DEF ObjectsAreThere, ArtifactTypeOK
<1>5. StoredInv'
  BY <1>1 DEF StoredInv
<1> QED
  BY <1>2, <1>3, <1>4, <1>5

\* A reference is returned to an object that is there, durable when it was
\* created by this publisher.
LEMMA ReturnHolds == ASSUME StoreInv, NEW p \in Publishers, Return(p) PROVE StoreInv'
<1> USE DEF StoreInv, Return, PutEnds, Inactive, powerVars
<1>1. content[p] \in Contents /\ objects[content[p]] # "absent" /\ linked[p] \in BOOLEAN
  BY DEF PutsHaveContent, Working, ObjectsAreThere, ArtifactTypeOK
<1>2. ArtifactTypeOK'
  BY <1>1 DEF ArtifactTypeOK
<1>3. PutsHaveContent'
  BY DEF PutsHaveContent, ArtifactTypeOK, Working
<1>4. ObjectsAreThere'
  BY DEF ObjectsAreThere, ArtifactTypeOK
<1>5. linked[p] => content[p] \in durable
  BY DEF ObjectsAreThere
<1>6. StoredInv'
  BY <1>1, <1>5 DEF StoredInv
<1> QED
  BY <1>2, <1>3, <1>4, <1>6

\* A put fails at its end.
LEMMA FailAtEndHolds == ASSUME StoreInv, NEW p \in Publishers, FailAtEnd(p) PROVE StoreInv'
<1> USE DEF StoreInv, FailAtEnd, PutEnds, Inactive, powerVars
<1>1. ArtifactTypeOK'
  BY DEF ArtifactTypeOK
<1>2. PutsHaveContent'
  BY DEF PutsHaveContent, ArtifactTypeOK, Working
<1>3. ObjectsAreThere'
  BY DEF ObjectsAreThere, ArtifactTypeOK
<1>4. StoredInv'
  BY DEF StoredInv
<1> QED
  BY <1>1, <1>2, <1>3, <1>4

\* A damaged object is still there.
LEMMA DamageHolds == ASSUME StoreInv, NEW c \in Contents, Damage(c) PROVE StoreInv'
<1> USE DEF StoreInv, Damage, putVars, Inactive, powerVars
<1>1. ArtifactTypeOK' /\ PutsHaveContent'
  BY DEF ArtifactTypeOK, PutsHaveContent, Working
<1>2. \A d \in Contents : objects[d] # "absent" => objects'[d] # "absent"
  BY DEF ArtifactTypeOK
<1>3. ObjectsAreThere'
  BY <1>2 DEF ObjectsAreThere, PutsHaveContent, Working
<1>4. StoredInv'
  BY <1>2 DEF StoredInv, ArtifactTypeOK
<1> QED
  BY <1>1, <1>3, <1>4

\* A killed process has no put under way.
LEMMA LoseProcessHolds == ASSUME StoreInv, LoseProcess PROVE StoreInv'
  BY DEF StoreInv, LoseProcess, powerVars, PutsAreLost, ArtifactTypeOK, Inactive, PutsHaveContent,
         Working, ObjectsAreThere, StoredInv

\* A directory's entry is written.
LEMMA WriteBackHolds == ASSUME StoreInv, NEW h \in Homes, WriteBack(h) PROVE StoreInv'
<1> USE DEF StoreInv, WriteBack, putVars, powerVars, Inactive
<1>1. homes' \in [Homes -> {"absent", "made", "settled"}]
  BY DEF ArtifactTypeOK
<1>2. ArtifactTypeOK' /\ PutsHaveContent' /\ ObjectsAreThere'
  BY <1>1 DEF ArtifactTypeOK, PutsHaveContent, ObjectsAreThere, Working
<1>3. StoredInv'
  BY HomeAssumption DEF StoredInv, ArtifactTypeOK
<1> QED
  BY <1>2, <1>3

\* What an outage leaves: all that is durable in a directory that is not gone.
LEMMA LosePowerLeaves ==
    ASSUME StoreInv, LosePower
    PROVE  \E gone \in SUBSET Homes :
               /\ durable' \subseteq Contents
               /\ \A c \in Contents : objects'[c] = IF c \in durable' THEN objects[c]
                                                    ELSE "absent"
               /\ objects' \in [Contents -> {"absent", "intact", "damaged"}]
               /\ \A c \in durable' : objects[c] # "absent" /\ HomeOf[c] \notin gone
               /\ \A c \in durable : HomeOf[c] \notin gone => c \in durable'
               /\ homes' = [h \in Homes |-> IF h \in gone \/ homes[h] = "absent"
                                            THEN "absent" ELSE "settled"]
               /\ \A h \in gone : homes[h] = "made"
               /\ vanished' = vanished \cup gone
               /\ outage' = TRUE
               /\ refs' = refs
<1>1. PICK gone \in SUBSET {h \in Homes : homes[h] = "made"} :
           \E kept \in SUBSET {c \in Contents : objects[c] # "absent"
                                              /\ HomeOf[c] \notin gone} :
               /\ {c \in durable : HomeOf[c] \notin gone} \subseteq kept
               /\ objects' = [c \in Contents |-> IF c \in kept THEN objects[c] ELSE "absent"]
               /\ durable' = kept
               /\ homes' = [h \in Homes |-> IF h \in gone \/ homes[h] = "absent"
                                            THEN "absent" ELSE "settled"]
               /\ vanished' = vanished \cup gone
  BY DEF LosePower
<1>2. objects' \in [Contents -> {"absent", "intact", "damaged"}]
  BY <1>1 DEF StoreInv, ArtifactTypeOK
<1>3. outage' = TRUE /\ refs' = refs
  BY DEF LosePower
<1> QED
  BY <1>1, <1>2, <1>3

\* An outage takes only what was not durable, and directories.
LEMMA LosePowerHolds == ASSUME StoreInv, LosePower PROVE StoreInv'
<1>1. PICK gone \in SUBSET Homes :
          /\ durable' \subseteq Contents
          /\ \A c \in Contents : objects'[c] = IF c \in durable' THEN objects[c]
                                               ELSE "absent"
          /\ objects' \in [Contents -> {"absent", "intact", "damaged"}]
          /\ \A c \in durable' : objects[c] # "absent" /\ HomeOf[c] \notin gone
          /\ \A c \in durable : HomeOf[c] \notin gone => c \in durable'
          /\ homes' = [h \in Homes |-> IF h \in gone \/ homes[h] = "absent"
                                       THEN "absent" ELSE "settled"]
          /\ \A h \in gone : homes[h] = "made"
          /\ vanished' = vanished \cup gone
          /\ outage' = TRUE
          /\ refs' = refs
  BY LosePowerLeaves
<1>2. ArtifactTypeOK' /\ PutsHaveContent' /\ ObjectsAreThere'
  <2>1. homes' \in [Homes -> {"absent", "made", "settled"}] /\ vanished' \subseteq Homes
    BY <1>1 DEF StoreInv, ArtifactTypeOK
  <2>2. \A p \in Publishers : step'[p] = "idle" /\ ~linked'[p]
    BY DEF LosePower, PutsAreLost
  <2>3. /\ step' \in [Publishers -> {"idle"}]
        /\ content' \in [Publishers -> {None}]
        /\ linked' \in [Publishers -> {FALSE}]
    BY DEF LosePower, PutsAreLost
  <2>4. /\ step' \in [Publishers -> Inactive]
        /\ content' \in [Publishers -> Contents \cup {None}]
        /\ linked' \in [Publishers -> BOOLEAN]
    BY <2>3 DEF Inactive
  <2>5. refs' \subseteq [content : Contents, linked : BOOLEAN]
    BY <1>1 DEF StoreInv, ArtifactTypeOK
  <2>6. ArtifactTypeOK'
    <3>1. step' \in [Publishers ->
                        Inactive \cup {"writing", "linking", "syncing", "verifying"}]
      BY <2>4
    <3> QED
      BY <1>1, <2>1, <2>4, <2>5, <3>1 DEF ArtifactTypeOK
  <2> QED
    BY <2>2, <2>6 DEF PutsHaveContent, ObjectsAreThere, Working
<1>3. \A c \in durable' : objects'[c] # "absent"
  BY <1>1
<1>4. \A c \in Contents : objects'[c] # "absent" => homes'[HomeOf[c]] # "absent"
  BY <1>1, HomeAssumption DEF StoreInv, StoredInv
<1>5. \A ref \in refs' :
          IF ref.linked THEN ref.content \in durable' \/ HomeOf[ref.content] \in vanished'
          ELSE objects'[ref.content] # "absent" \/ outage'
  BY <1>1 DEF StoreInv, StoredInv, ArtifactTypeOK
<1> QED
  BY <1>1, <1>2, <1>3, <1>4, <1>5 DEF StoreInv, StoredInv

\* Every step of the store preserves its invariant.
LEMMA StoreStepHolds == ASSUME StoreInv, [ArtifactNext]_artifactVars PROVE StoreInv'
<1>1. CASE UNCHANGED artifactVars
  BY <1>1 DEF artifactVars, StoreInv, ArtifactTypeOK, PutsHaveContent, ObjectsAreThere,
              StoredInv
<1>2. CASE ArtifactNext
  BY <1>2, BeginPutHolds, WriteTempHolds, LinkHolds, SyncDirectoryHolds, ReturnHolds,
     FailAtEndHolds, DamageHolds, WriteBackHolds, LoseProcessHolds, LosePowerHolds
     DEF ArtifactNext, PutStep
<1> QED
  BY <1>1, <1>2

\* Where the references lead.
LEMMA StoreInvLeads == StoreInv => ReferencesLead
  BY DEF StoreInv, StoredInv, ReferencesLead

-----------------------------------------------------------------------------
\* The store implements its promise.

\* The shelves that are fixed are the same.
LEMMA MakeHomePromised ==
    ASSUME StoreInv, NEW c \in Contents, MakeHome(c) \/ UNCHANGED homes
    PROVE  {h \in Homes : homes'[h] = "settled"} = {h \in Homes : homes[h] = "settled"}
  BY MakeHomeHolds DEF StoreInv

\* Creating an object publishes it; finding one, or failing, is a stutter.
LEMMA LinkPromised ==
    ASSUME StoreInv, NEW p \in Publishers, Link(p)
    PROVE  [Promise!StoreNext]_(Promise!storeVars)
<1>1. content[p] \in Contents
  BY DEF Link, StoreInv, PutsHaveContent, Working
<1>2. {h \in Homes : homes'[h] = "settled"} = {h \in Homes : homes[h] = "settled"}
  BY <1>1, MakeHomePromised DEF Link
<1>3. CASE Create(p)
  <2> DEFINE there == {c \in Contents : objects[c] # "absent"}
  <2>1. there' = there \cup {content[p]} /\ content[p] \notin there
    BY <1>1, <1>3 DEF Create, StoreInv, ArtifactTypeOK
  <2>2. UNCHANGED <<durable, refs>>
    BY DEF Link
  <2> QED
    BY <1>1, <1>2, <2>1, <2>2 DEF Promise!Publish, Promise!StoreNext
<1>4. CASE UNCHANGED objects
  BY <1>2, <1>4 DEF Link, Promise!storeVars
<1> QED
  BY <1>3, <1>4 DEF Link, Find

\* A synced directory files an object that is there.
LEMMA SyncDirectoryPromised ==
    ASSUME StoreInv, NEW p \in Publishers, SyncDirectory(p)
    PROVE  [Promise!StoreNext]_(Promise!storeVars)
<1>1. content[p] \in Contents /\ objects[content[p]] # "absent"
  BY DEF SyncDirectory, StoreInv, PutsHaveContent, Working, ObjectsAreThere
<1>2. CASE durable' = durable \cup {content[p]}
  BY <1>1, <1>2 DEF SyncDirectory, Promise!File, Promise!StoreNext
<1>3. CASE UNCHANGED durable
  BY <1>3 DEF SyncDirectory, Promise!storeVars
<1> QED
  BY <1>2, <1>3 DEF SyncDirectory

\* A returned reference is handed out for what is there.
LEMMA ReturnPromised ==
    ASSUME StoreInv, NEW p \in Publishers, Return(p)
    PROVE  [Promise!StoreNext]_(Promise!storeVars)
<1> DEFINE ref == [content |-> content[p], linked |-> linked[p]]
<1>1. /\ content[p] \in Contents /\ objects[content[p]] # "absent"
      /\ linked[p] => content[p] \in durable
      /\ ref \in Promise!References
  BY DEF Return, StoreInv, PutsHaveContent, Working, ObjectsAreThere, ArtifactTypeOK,
         Promise!References
<1>2. Promise!HandOut(ref)
  BY <1>1 DEF Return, Promise!HandOut
<1> QED
  BY <1>1, <1>2 DEF Promise!StoreNext

\* An outage keeps what is filed on the shelves it leaves.
LEMMA LosePowerPromised ==
    ASSUME StoreInv, LosePower
    PROVE  [Promise!StoreNext]_(Promise!storeVars)
<1> DEFINE there == {c \in Contents : objects[c] # "absent"}
           settled == {h \in Homes : homes[h] = "settled"}
<1>1. PICK gone \in SUBSET Homes :
          /\ durable' \subseteq Contents
          /\ \A c \in Contents : objects'[c] = IF c \in durable' THEN objects[c]
                                               ELSE "absent"
          /\ \A c \in durable' : objects[c] # "absent" /\ HomeOf[c] \notin gone
          /\ \A c \in durable : HomeOf[c] \notin gone => c \in durable'
          /\ homes' = [h \in Homes |-> IF h \in gone \/ homes[h] = "absent"
                                       THEN "absent" ELSE "settled"]
          /\ \A h \in gone : homes[h] = "made"
          /\ refs' = refs
  BY LosePowerLeaves
<1>2. there' = durable'
  BY <1>1
<1>3. settled \subseteq settled' /\ settled' \in SUBSET Homes
  BY <1>1
<1>4. there' \in SUBSET {c \in there : HomeOf[c] \in settled'}
  BY <1>1, <1>2, HomeAssumption DEF StoreInv, StoredInv
<1>5. {c \in durable : HomeOf[c] \in settled'} \subseteq there'
  BY <1>1, <1>2
<1>6. Promise!Outage
  BY <1>1, <1>2, <1>3, <1>4, <1>5 DEF Promise!Outage
<1> QED
  BY <1>6 DEF Promise!StoreNext

\* A directory that is written back is fixed.
LEMMA WriteBackPromised ==
    ASSUME StoreInv, NEW h \in Homes, WriteBack(h)
    PROVE  [Promise!StoreNext]_(Promise!storeVars)
<1>1. {k \in Homes : homes'[k] = "settled"} = {k \in Homes : homes[k] = "settled"} \cup {h}
  BY DEF WriteBack, StoreInv, ArtifactTypeOK
<1>2. Promise!Fix(h)
  BY <1>1 DEF WriteBack, Promise!Fix
<1> QED
  BY <1>2 DEF Promise!StoreNext

\* Damage takes no object away.
LEMMA DamagePromised ==
    ASSUME StoreInv, NEW c \in Contents, Damage(c)
    PROVE  [Promise!StoreNext]_(Promise!storeVars)
<1>1. \A d \in Contents : objects[d] # "absent" <=> objects'[d] # "absent"
  BY DEF Damage, StoreInv, ArtifactTypeOK
<1> QED
  BY <1>1 DEF Damage, Promise!storeVars

\* Every step of the store is one of the promise, or a stutter.
LEMMA StorePromised ==
    ASSUME StoreInv, [ArtifactNext]_artifactVars
    PROVE  [Promise!StoreNext]_(Promise!storeVars)
<1>1. CASE UNCHANGED artifactVars
  BY <1>1 DEF artifactVars, Promise!storeVars
<1>2. CASE ArtifactNext
  <2>1. CASE \E p \in Publishers :
                 \/ \E c \in Contents : BeginPut(p, c)
                 \/ WriteTemp(p)
                 \/ FailAtEnd(p)
    BY <2>1 DEF BeginPut, WriteTemp, FailAtEnd, Promise!storeVars
  <2>2. CASE LoseProcess
    BY <2>2 DEF LoseProcess, Promise!storeVars
  <2> QED
    BY <1>2, <2>1, <2>2, LinkPromised, SyncDirectoryPromised, ReturnPromised,
       LosePowerPromised, WriteBackPromised, DamagePromised DEF ArtifactNext, PutStep
<1> QED
  BY <1>1, <1>2

-----------------------------------------------------------------------------
\* The runner.

\* A worker that is told to run, or has answered, had its whole request.
RunningHasRequest ==
    \A e \in Evaluations :
        /\ worker[e] = "running" \/ answered[e] => sent[e]
        /\ answered[e] => worker[e] \in {"running", "exited"}
        /\ stdout[e] = "frame" => answered[e]

\* An exit code is set when the worker exits, and a killed one leaves nothing in
\* its group.
ExitIsFinal ==
    \A e \in Evaluations :
        /\ worker[e] = "exited" <=> exit[e] # "none"
        /\ runner[e] \in {"collecting", "returned"} => worker[e] = "exited"
        /\ "grouped" \in child[e] => exit[e] # "killed"
        /\ runner[e] = "idle" => worker[e] = "none"

\* The runner's inductive invariant.
RunnerInv == RunnerTypeOK /\ RunningHasRequest /\ ExitIsFinal /\ SuccessIsAnswered

\* A step of the runner, its worker or its process.
RunnerNext ==
    \/ \E e \in Evaluations :
           Refuse(e) \/ Start(e) \/ RunnerStep(e) \/ Deadline(e) \/ WorkerStep(e)
    \/ VerificationsAreLost /\ UNCHANGED workerVars
    \/ PowerFails

\* A new evaluation.
LEMMA RunnerInitHolds == RunnerInit => RunnerInv
  BY DEF RunnerInit, RunnerInv, RunnerTypeOK, RunningHasRequest, ExitIsFinal,
         SuccessIsAnswered

\* evaluate starts, or refuses to.
LEMMA StartHolds ==
    ASSUME RunnerInv, NEW e \in Evaluations, Refuse(e) \/ Start(e)
    PROVE  RunnerInv'
<1> USE DEF RunnerInv, Refuse, Start, GoesTo, workerVars
<1>1. RunnerTypeOK'
  BY DEF RunnerTypeOK
<1>2. RunningHasRequest'
  BY DEF RunningHasRequest, RunnerTypeOK, ExitIsFinal
<1>3. ExitIsFinal'
  BY DEF ExitIsFinal, RunnerTypeOK
<1>4. SuccessIsAnswered'
  BY DEF SuccessIsAnswered, RunnerTypeOK, ExitIsFinal
<1> QED
  BY <1>1, <1>2, <1>3, <1>4

\* The request is sent, or there is nobody to send it to.
LEMMA SendHolds ==
    ASSUME RunnerInv, NEW e \in Evaluations, Send(e) \/ SendToNone(e)
    PROVE  RunnerInv'
<1> USE DEF RunnerInv, Send, SendToNone, GoesTo, workerVars
<1>1. RunnerTypeOK'
  <2>1. CASE Send(e)
    BY <2>1 DEF RunnerTypeOK
  <2>2. CASE SendToNone(e)
    <3>1. UNCHANGED <<termination, status, late, long, sent, worker, exit, answered,
                      stdout, stderrExcess, child>>
      BY <2>2
    <3>2. PICK place \in {"raised", "polling"} : runner' = [runner EXCEPT ![e] = place]
      BY <2>2
    <3>3. runner[e] = "sending" /\ RunnerTypeOK
      BY <2>2
    <3> QED
      BY <3>1, <3>2, <3>3 DEF RunnerTypeOK
  <2> QED
    BY <2>1, <2>2
<1>2. RunningHasRequest'
  BY DEF RunningHasRequest, RunnerTypeOK
<1>3. ExitIsFinal'
  BY DEF ExitIsFinal, RunnerTypeOK
<1>4. SuccessIsAnswered'
  BY DEF SuccessIsAnswered, RunnerTypeOK
<1> QED
  BY <1>1, <1>2, <1>3, <1>4

\* The runner looks at the process, the files and the clock.
LEMMA LookHolds ==
    ASSUME RunnerInv, NEW e \in Evaluations,
           Poll(e) \/ Measure(e) \/ CheckDeadline(e) \/ Deadline(e)
    PROVE  RunnerInv'
<1> USE DEF RunnerInv, Poll, Measure, CheckDeadline, Deadline, GoesTo, workerVars
<1>1. RunnerTypeOK'
  <2>1. CASE Poll(e)
    BY <2>1 DEF RunnerTypeOK
  <2>2. CASE Measure(e)
    BY <2>2 DEF RunnerTypeOK
  <2>3. CASE CheckDeadline(e)
    BY <2>3 DEF RunnerTypeOK
  <2>4. CASE Deadline(e)
    BY <2>4 DEF RunnerTypeOK
  <2> QED
    BY <2>1, <2>2, <2>3, <2>4
<1>2. RunningHasRequest'
  BY DEF RunningHasRequest
<1>3. ExitIsFinal'
  BY DEF ExitIsFinal, RunnerTypeOK
<1>4. SuccessIsAnswered'
  BY DEF SuccessIsAnswered
<1> QED
  BY <1>1, <1>2, <1>3, <1>4

\* The process group is killed, if the worker has not exited.
LEMMA KillHolds == ASSUME RunnerInv, NEW e \in Evaluations, Kill(e) PROVE RunnerInv'
<1> USE DEF RunnerInv, Kill, GoesTo, ExitCodes
<1>1. RunnerTypeOK'
  <2>1. CASE worker[e] = "exited"
    BY <2>1 DEF RunnerTypeOK
  <2>2. CASE worker[e] # "exited"
    <3>1. /\ runner' = [runner EXCEPT ![e] = "collecting"]
          /\ worker' = [worker EXCEPT ![e] = "exited"]
          /\ exit' = [exit EXCEPT ![e] = "killed"]
          /\ child' = [child EXCEPT ![e] = @ \ {"grouped"}]
          /\ UNCHANGED <<termination, status, late, long, sent, answered, stdout,
                         stderrExcess>>
      BY <2>2
    <3>2. RunnerTypeOK /\ runner[e] = "killing"
      BY <2>2
    <3> HIDE DEF RunnerInv, Kill
    <3> QED
      BY <3>1, <3>2 DEF RunnerTypeOK
  <2> QED
    BY <2>1, <2>2
<1>2. RunningHasRequest'
  BY DEF RunningHasRequest, RunnerTypeOK
<1>3. ExitIsFinal'
  BY DEF ExitIsFinal, RunnerTypeOK
<1>4. SuccessIsAnswered'
  BY DEF SuccessIsAnswered, RunnerTypeOK
<1> QED
  BY <1>1, <1>2, <1>3, <1>4

\* The status is success only after the worker's own frame and exit.
LEMMA CollectHolds == ASSUME RunnerInv, NEW e \in Evaluations, Collect(e) PROVE RunnerInv'
<1>1. StatusOf(e) \in Statuses
  BY DEF StatusOf, Statuses
<1>2. StatusOf(e) = "SUCCESS" => exit[e] = "zero" /\ stdout[e] = "frame"
  BY DEF StatusOf
<1>3. RunnerTypeOK'
  BY <1>1 DEF Collect, GoesTo, RunnerInv, RunnerTypeOK, Statuses
<1>4. RunningHasRequest'
  BY DEF Collect, GoesTo, RunnerInv, RunningHasRequest, RunnerTypeOK
<1>5. ExitIsFinal'
  BY DEF Collect, GoesTo, RunnerInv, ExitIsFinal, RunnerTypeOK
<1>6. SuccessIsAnswered'
  BY <1>2 DEF Collect, GoesTo, RunnerInv, SuccessIsAnswered, RunnerTypeOK,
              RunningHasRequest, ExitIsFinal
<1> QED
  BY <1>3, <1>4, <1>5, <1>6 DEF RunnerInv

\* The worker boots, reads its request or ends.
LEMMA WorkerMovesHolds ==
    ASSUME RunnerInv, NEW e \in Evaluations, Boot(e) \/ Receive(e) \/ End(e)
    PROVE  RunnerInv'
<1>1. PICK w \in {"reading", "running", "exited"}, code \in ExitCodes \cup {"none"} :
          /\ worker[e] \in {"starting", "reading", "running"}
          /\ w = "running" => sent[e]
          /\ w = "reading" => worker[e] = "starting"
          /\ w = "running" => worker[e] = "reading"
          /\ w = "exited" <=> code # "none"
          /\ code # "killed"
          /\ worker' = [worker EXCEPT ![e] = w]
          /\ w = "exited" => exit' = [exit EXCEPT ![e] = code]
          /\ w # "exited" => exit' = exit
          /\ UNCHANGED <<runner, termination, status, late, long, sent, answered, stdout,
                         stderrExcess, child>>
  <2>1. CASE Boot(e)
    <3>1. CASE WorkerGoesTo(e, "reading")
      BY <2>1, <3>1 DEF Boot, WorkerGoesTo
    <3>2. CASE \E code \in {"crash", "security"} : WorkerExits(e, code)
      BY <2>1, <3>2 DEF Boot, WorkerExits, ExitCodes
    <3> QED
      BY <2>1, <3>1, <3>2 DEF Boot
  <2>2. CASE Receive(e)
    <3>1. CASE WorkerGoesTo(e, "running")
      BY <2>2, <3>1 DEF Receive, WorkerGoesTo
    <3>2. CASE \E code \in {"protocol", "crash", "security"} : WorkerExits(e, code)
      BY <2>2, <3>2 DEF Receive, WorkerExits, ExitCodes
    <3> QED
      BY <2>2, <3>1, <3>2 DEF Receive
  <2>3. CASE End(e)
    BY <2>3 DEF End, WorkerExits, ExitCodes
  <2> QED
    BY <2>1, <2>2, <2>3
<1>2. RunnerTypeOK'
  BY <1>1 DEF RunnerInv, RunnerTypeOK
<1>3. RunningHasRequest'
  BY <1>1 DEF RunnerInv, RunningHasRequest, RunnerTypeOK
<1>4. exit[e] = "none"
  BY <1>1 DEF RunnerInv, ExitIsFinal
<1>5. ExitIsFinal'
  BY <1>1, <1>4 DEF RunnerInv, ExitIsFinal, RunnerTypeOK
<1>6. SuccessIsAnswered'
  BY <1>1 DEF RunnerInv, SuccessIsAnswered, RunnerTypeOK
<1> QED
  BY <1>2, <1>3, <1>5, <1>6 DEF RunnerInv

\* Oracle code and what it started print, start and end.
LEMMA OracleActsHolds ==
    ASSUME RunnerInv, NEW e \in Evaluations,
           Prints(e) \/ Fork(e) \/ LeaveGroup(e) \/ ChildEnds(e) \/ Answer(e)
    PROVE  RunnerInv'
<1>1. CASE Prints(e)
  <2>1. /\ More(stdout[e]) \subseteq {"noise", "mixed", "excess"}
        /\ UNCHANGED <<runner, termination, status, late, long, sent, worker, exit,
                       answered, child>>
    BY <1>1 DEF Prints, More
  <2>2. /\ stdout' \in [Evaluations -> {"empty", "noise", "frame", "mixed", "excess"}]
        /\ stderrExcess' \in [Evaluations -> BOOLEAN]
    <3>1. CASE /\ \E text \in More(stdout[e]) : stdout' = [stdout EXCEPT ![e] = text]
               /\ UNCHANGED stderrExcess
      BY <2>1, <3>1 DEF RunnerInv, RunnerTypeOK
    <3>2. CASE stderrExcess' = [stderrExcess EXCEPT ![e] = TRUE] /\ UNCHANGED stdout
      BY <3>2 DEF RunnerInv, RunnerTypeOK
    <3> QED
      BY <1>1, <3>1, <3>2 DEF Prints
  <2>4. RunnerTypeOK'
    BY <2>1, <2>2 DEF RunnerInv, RunnerTypeOK
  <2>3. RunningHasRequest'
    BY <1>1, <2>1 DEF Prints, RunnerInv, RunningHasRequest, RunnerTypeOK
  <2> QED
    BY <2>1, <2>3, <2>4 DEF RunnerInv, ExitIsFinal, SuccessIsAnswered
<1>2. CASE Fork(e) \/ LeaveGroup(e) \/ ChildEnds(e)
  <2>1. PICK kinds \in SUBSET Children : child' = [child EXCEPT ![e] = kinds]
    BY <1>2 DEF Fork, LeaveGroup, ChildEnds, Children, RunnerInv, RunnerTypeOK
  <2>2. "grouped" \in kinds => "grouped" \in child[e] \/ worker[e] = "running"
    <3>1. child'[e] = kinds
      BY <2>1 DEF RunnerInv, RunnerTypeOK
    <3>2. CASE Fork(e)
      BY <3>2 DEF Fork
    <3>3. CASE LeaveGroup(e)
      BY <3>3 DEF LeaveGroup
    <3>4. CASE ChildEnds(e)
      <4>1. child'[e] \subseteq child[e]
        BY <3>4 DEF ChildEnds, RunnerInv, RunnerTypeOK
      <4> QED
        BY <3>1, <4>1
    <3> QED
      BY <1>2, <3>2, <3>3, <3>4
  <2>3. child' \in [Evaluations -> SUBSET Children]
    BY <2>1 DEF RunnerInv, RunnerTypeOK
  <2>4. UNCHANGED <<runner, termination, status, late, long, sent, worker, exit,
                    answered, stdout, stderrExcess>>
    BY <1>2 DEF Fork, LeaveGroup, ChildEnds
  <2>5. RunnerTypeOK'
    BY <2>3, <2>4 DEF RunnerInv, RunnerTypeOK
  <2>6. ExitIsFinal'
    BY <2>1, <2>2, <2>4 DEF RunnerInv, ExitIsFinal, RunnerTypeOK
  <2> QED
    BY <2>4, <2>5, <2>6 DEF RunnerInv, RunningHasRequest, SuccessIsAnswered
<1>3. CASE Answer(e)
  <2>1. PICK text \in {"frame", "mixed", "excess"} : stdout' = [stdout EXCEPT ![e] = text]
    BY <1>3 DEF Answer
  <2>2. RunnerTypeOK'
    BY <1>3, <2>1 DEF Answer, RunnerInv, RunnerTypeOK
  <2>3. RunningHasRequest'
    BY <1>3, <2>1 DEF Answer, RunnerInv, RunningHasRequest, RunnerTypeOK
  <2>4. ExitIsFinal' /\ SuccessIsAnswered'
    BY <1>3 DEF Answer, RunnerInv, ExitIsFinal, SuccessIsAnswered, RunnerTypeOK
  <2> QED
    BY <2>2, <2>3, <2>4 DEF RunnerInv
<1> QED
  BY <1>1, <1>2, <1>3

\* The process or the machine stops.
LEMMA StopHolds ==
    ASSUME RunnerInv, VerificationsAreLost,
           UNCHANGED workerVars \/ PowerFails
    PROVE  RunnerInv'
<1>1. /\ \A e \in Evaluations : runner'[e] = runner[e] \/ runner'[e] = "lost"
      /\ \A e \in Evaluations : runner[e] = "returned" <=> runner'[e] = "returned"
      /\ \A e \in Evaluations : runner'[e] # "collecting"
      /\ runner' \in [Evaluations -> {"idle", "returned", "raised", "lost"}]
      /\ UNCHANGED <<termination, status, late, long, sent>>
  BY DEF VerificationsAreLost, RunnerInv, RunnerTypeOK
<1>2. CASE UNCHANGED workerVars
  BY <1>1, <1>2 DEF workerVars, RunnerInv, RunnerTypeOK, RunningHasRequest, ExitIsFinal,
                    SuccessIsAnswered
<1>3. CASE PowerFails
  <2>1. RunnerTypeOK'
    BY <1>1, <1>3 DEF PowerFails, RunnerInv, RunnerTypeOK, ExitCodes
  <2>2. RunningHasRequest'
    BY <1>1, <1>3 DEF PowerFails, RunnerInv, RunnerTypeOK, RunningHasRequest
  <2>3. ExitIsFinal'
    BY <1>1, <1>3 DEF PowerFails, RunnerInv, RunnerTypeOK, ExitIsFinal
  <2>4. SuccessIsAnswered'
    BY <1>1, <1>3 DEF PowerFails, RunnerInv, RunnerTypeOK, SuccessIsAnswered
  <2> QED
    BY <2>1, <2>2, <2>3, <2>4 DEF RunnerInv
<1> QED
  BY <1>2, <1>3

\* Every step of the runner, its worker and its process preserves its invariant.
LEMMA RunnerStepHolds == ASSUME RunnerInv, [RunnerNext]_runnerVars PROVE RunnerInv'
<1>1. CASE UNCHANGED runnerVars
  BY <1>1 DEF runnerVars, RunnerInv, RunnerTypeOK, RunningHasRequest, ExitIsFinal,
              SuccessIsAnswered
<1>2. CASE RunnerNext
  BY <1>2, StartHolds, SendHolds, LookHolds, KillHolds, CollectHolds, WorkerMovesHolds,
     OracleActsHolds, StopHolds DEF RunnerNext, RunnerStep, WorkerStep, PowerFails
<1> QED
  BY <1>1, <1>2

-----------------------------------------------------------------------------
\* The composition.

\* A reference to a content has been returned.
Handed(c) == \E ref \in refs : ref.content = c

\* What each place of verify has behind it.
VerdictInv ==
    /\ verdict \in [Evaluations -> Decided \cup
           {"evaluating", "recording", "publishing", "escaped", "lost"}]
    /\ \A e \in Evaluations :
        /\ verdict[e] \in {"recording", "publishing", "valid"} => runner[e] = "returned"
        /\ verdict[e] = "recording" =>
               /\ step[e] \in Working => content[e] = RecordOf[e]
               /\ step[e] = "returned" => Handed(RecordOf[e])
        /\ verdict[e] = "publishing" =>
               /\ status[e] = "SUCCESS"
               /\ Handed(RecordOf[e])
               /\ step[e] \in Working => content[e] = EvidenceOf[e]
               /\ step[e] = "returned" => Handed(EvidenceOf[e])
        /\ verdict[e] = "valid" =>
               status[e] = "SUCCESS" /\ Handed(RecordOf[e]) /\ Handed(EvidenceOf[e])

\* The inductive invariant.
IInv == StoreInv /\ RunnerInv /\ VerdictInv

\* A step of the composition is one of the store or leaves it alone, and one of
\* the runner or leaves it alone.
LEMMA NextSplits ==
    ASSUME Next
    PROVE  [ArtifactNext]_artifactVars /\ [RunnerNext]_runnerVars
<1>1. CASE \E e \in Evaluations : Evaluate(e) \/ Work(e)
  BY <1>1 DEF Evaluate, Work, RunnerNext
<1>2. CASE \E e \in Evaluations : VerifyStep(e)
  <2>1. PICK e \in Evaluations : VerifyStep(e)
    BY <1>2
  <2>2. UNCHANGED runnerVars
    BY <2>1 DEF VerifyStep, RunnerRaised, PublishRecord, PublishEvidence, Complete, PutRaised
  <2>3. UNCHANGED artifactVars \/ \E c \in Contents : BeginPut(e, c)
    BY <2>1, EvaluationAssumption
       DEF VerifyStep, RunnerRaised, PublishRecord, PublishEvidence, Complete, PutRaised
  <2> QED
    BY <2>2, <2>3, EvaluationAssumption DEF ArtifactNext
<1>3. CASE \E p \in Publishers : Put(p)
  BY <1>3 DEF Put, ArtifactNext
<1>4. CASE \/ \E c \in Contents : DamageObject(c)
           \/ \E h \in Homes : WriteBackHome(h)
  BY <1>4 DEF DamageObject, WriteBackHome, ArtifactNext
<1>5. CASE KillProcess
  BY <1>5 DEF KillProcess, ArtifactNext, RunnerNext
<1>6. CASE PowerFails
  BY <1>6 DEF PowerFails, ArtifactNext, RunnerNext
<1> QED
  BY <1>1, <1>2, <1>3, <1>4, <1>5, <1>6 DEF Next

\* References are never taken back.
LEMMA RefsStay == ASSUME [ArtifactNext]_artifactVars PROVE refs \subseteq refs'
  BY DEF ArtifactNext, artifactVars, BeginPut, PutStep, WriteTemp, Link, SyncDirectory,
         Return, FailAtEnd, Damage, WriteBack, LoseProcess, LosePower

\* Nothing that verify rests on changes once it is past the runner.
LEMMA VerdictRests ==
    ASSUME VerdictInv, UNCHANGED verdict, refs \subseteq refs',
           \A e \in Evaluations : verdict[e] # "evaluating" =>
               UNCHANGED <<runner[e], status[e], step[e], content[e]>>
    PROVE  VerdictInv'
  BY DEF VerdictInv, Handed

\* The runner's steps and the worker's are before that.
LEMMA EvaluateRests ==
    ASSUME IInv, NEW e \in Evaluations, Evaluate(e) \/ Work(e)
    PROVE  VerdictInv'
<1>1. UNCHANGED <<verdict, refs, step, content>>
  BY DEF Evaluate, Work, artifactVars
<1>2. CASE Evaluate(e)
  <2>1. \A f \in Evaluations : f # e => runner'[f] = runner[f] /\ status'[f] = status[f]
    BY <1>2 DEF Evaluate, Refuse, Start, RunnerStep, Deadline, Send, SendToNone, Poll,
                Measure, CheckDeadline, Kill, Collect, GoesTo, IInv, RunnerInv,
                RunnerTypeOK
  <2>2. verdict[e] = "evaluating"
    BY <1>2 DEF Evaluate
  <2> QED
    BY <1>1, <2>1, <2>2, VerdictRests DEF IInv
<1>3. CASE Work(e)
  <2>1. UNCHANGED <<runner, status>>
    BY <1>3 DEF Work, WorkerStep, Boot, Receive, Prints, Fork, LeaveGroup, ChildEnds, Answer, End,
                WorkerGoesTo, WorkerExits
  <2> QED
    BY <1>1, <2>1, VerdictRests DEF IInv
<1> QED
  BY <1>2, <1>3

\* verify goes on when its call has ended.
LEMMA VerifyStepHolds ==
    ASSUME IInv, NEW e \in Evaluations, VerifyStep(e)
    PROVE  VerdictInv'
<1>1. UNCHANGED <<runner, status, refs>>
  BY DEF VerifyStep, RunnerRaised, PublishRecord, PublishEvidence, Complete, PutRaised,
         BeginPut, artifactVars, runnerVars
<1>2. \A c : Handed(c)' <=> Handed(c)
  BY <1>1 DEF Handed
<1>3. PICK v \in {"recording", "publishing", "valid", "oracle_failure", "infra_confound",
                  "escaped"} :
          verdict' = [verdict EXCEPT ![e] = v]
  BY DEF VerifyStep, RunnerRaised, PublishRecord, PublishEvidence, Complete, PutRaised,
         Verdict
<1>4. CASE RunnerRaised(e) \/ Complete(e) \/ PutRaised(e)
  <2>1. UNCHANGED <<step, content>>
    BY <1>4 DEF RunnerRaised, Complete, PutRaised, artifactVars
  <2>2. /\ v \notin {"recording", "publishing"}
        /\ v = "valid" => verdict[e] = "publishing" /\ step[e] = "returned"
    BY <1>3, <1>4 DEF RunnerRaised, Complete, PutRaised, Verdict, IInv, VerdictInv
  <2> QED
    BY <1>1, <1>2, <1>3, <2>1, <2>2 DEF IInv, VerdictInv, Decided
<1>5. CASE PublishRecord(e)
  <2>1. /\ v = "recording" /\ runner[e] = "returned"
        /\ \A f \in Evaluations : f # e => UNCHANGED <<step[f], content[f]>>
        /\ step'[e] = "writing" => content'[e] = RecordOf[e]
        /\ step'[e] # "returned"
        /\ step'[e] \in Working => step'[e] = "writing"
    BY <1>3, <1>5, EvaluationAssumption
       DEF PublishRecord, BeginPut, PutEnds, Verdict, IInv, VerdictInv, StoreInv,
           ArtifactTypeOK, Working
  <2> QED
    BY <1>1, <1>2, <1>3, <2>1 DEF IInv, VerdictInv
<1>6. CASE PublishEvidence(e)
  <2>1. CASE status[e] = "SUCCESS"
    <3>1. /\ v = "publishing" /\ verdict[e] = "recording" /\ step[e] = "returned"
          /\ \A f \in Evaluations : f # e => UNCHANGED <<step[f], content[f]>>
          /\ step'[e] = "writing" => content'[e] = EvidenceOf[e]
          /\ step'[e] # "returned"
          /\ step'[e] \in Working => step'[e] = "writing"
      BY <1>3, <1>6, <2>1, EvaluationAssumption
         DEF PublishEvidence, BeginPut, PutEnds, Verdict, IInv, VerdictInv, StoreInv,
             ArtifactTypeOK, Working
    <3> QED
      BY <1>1, <1>2, <1>3, <2>1, <3>1 DEF IInv, VerdictInv
  <2>2. CASE status[e] # "SUCCESS"
    <3>1. v = "oracle_failure" /\ UNCHANGED <<step, content>>
      BY <1>3, <1>6, <2>2 DEF PublishEvidence, Verdict, IInv, VerdictInv, artifactVars
    <3> QED
      BY <1>1, <1>2, <1>3, <3>1 DEF IInv, VerdictInv, Decided
  <2> QED
    BY <2>1, <2>2
<1> QED
  BY <1>4, <1>5, <1>6 DEF VerifyStep

\* A put is at another place, with its content while it works.
Moved(p, place, c) ==
    /\ step' = [step EXCEPT ![p] = place]
    /\ content' = [content EXCEPT ![p] = c]
    /\ place \in Working => c = content[p]
    /\ place = "returned" => \E ref \in refs' : ref.content = content[p]

\* A put goes on with its content, or ends, by a returned reference or without.
LEMMA PutMoves ==
    ASSUME IInv, NEW p \in Publishers, PutStep(p)
    PROVE  step[p] \in Working /\ \E place, c : Moved(p, place, c)
<1>1. step[p] \in Working
  BY DEF PutStep, WriteTemp, Link, SyncDirectory, Return, FailAtEnd, Working
<1>2. content = [content EXCEPT ![p] = content[p]]
  BY DEF IInv, StoreInv, ArtifactTypeOK
<1>3. ASSUME NEW place \in {"failed", "escaped"}, PutEnds(p, place)
      PROVE  Moved(p, place, None)
  BY <1>3 DEF PutEnds, Moved, Working
<1>4. ASSUME NEW place \in Working, PutGoesTo(p, place)
      PROVE  Moved(p, place, content[p])
  BY <1>2, <1>4 DEF PutGoesTo, Moved, Working
<1>5. CASE Return(p)
  <2>1. [content |-> content[p], linked |-> linked[p]] \in refs'
    BY <1>5 DEF Return
  <2>2. \E ref \in refs' : ref.content = content[p]
    BY <2>1
  <2>3. Moved(p, "returned", None)
    BY <1>5, <2>2 DEF Return, PutEnds, Moved, Working
  <2> QED
    BY <1>1, <2>3
<1>6. CASE Link(p) /\ Create(p)
  <2>1. Moved(p, "syncing", content[p])
    BY <1>2, <1>6 DEF Create, Moved, Working
  <2> QED
    BY <1>1, <2>1
<1>7. CASE \/ PutEnds(p, "failed")
           \/ \E place \in Working : PutGoesTo(p, place)
  BY <1>1, <1>3, <1>4, <1>7
<1> QED
  BY <1>5, <1>6, <1>7 DEF PutStep, WriteTemp, Link, Find, SyncDirectory, FailAtEnd, Working

\* What verify rests on goes on with its put, whoever else puts.
LEMMA PutHolds == ASSUME IInv, NEW p \in Publishers, Put(p) PROVE VerdictInv'
<1>1. UNCHANGED <<runner, status, verdict>>
  BY DEF Put, runnerVars
<1>2. refs \subseteq refs'
  BY RefsStay DEF Put, ArtifactNext
<1>3. CASE PutStep(p)
  <2>1. PICK place, c : Moved(p, place, c)
    BY <1>3, PutMoves
  <2>2. step[p] \in Working
    BY <1>3, PutMoves
  <2>3. DOMAIN step = Publishers /\ DOMAIN content = Publishers
    BY DEF IInv, StoreInv, ArtifactTypeOK
  <2>4. \A e \in Evaluations : e # p => UNCHANGED <<step[e], content[e]>>
    BY <2>1, <2>3, EvaluationAssumption DEF Moved
  <2>5. /\ step'[p] = place /\ content'[p] = c
        /\ place \in Working => c = content[p]
        /\ place = "returned" => \E ref \in refs' : ref.content = content[p]
    BY <2>1, <2>3 DEF Moved
  <2>6. \A x : Handed(x) => (\E ref \in refs' : ref.content = x)
    BY <1>2 DEF Handed
  <2>7. /\ \A x : Handed(x) => Handed(x)'
        /\ \A x : place = "returned" /\ x = content[p] => Handed(x)'
    BY <2>5, <2>6 DEF Handed
  <2> SUFFICES ASSUME NEW e \in Evaluations
               PROVE  /\ verdict[e] = "recording" =>
                            /\ step'[e] \in Working => content'[e] = RecordOf[e]
                            /\ step'[e] = "returned" => Handed(RecordOf[e])'
                      /\ verdict[e] = "publishing" =>
                            /\ Handed(RecordOf[e])'
                            /\ step'[e] \in Working => content'[e] = EvidenceOf[e]
                            /\ step'[e] = "returned" => Handed(EvidenceOf[e])'
                      /\ verdict[e] = "valid" =>
                            Handed(RecordOf[e])' /\ Handed(EvidenceOf[e])'
    BY <1>1 DEF IInv, VerdictInv
  <2>8. /\ verdict[e] = "recording" =>
              /\ step[e] \in Working => content[e] = RecordOf[e]
              /\ step[e] = "returned" => Handed(RecordOf[e])
        /\ verdict[e] = "publishing" =>
              /\ Handed(RecordOf[e])
              /\ step[e] \in Working => content[e] = EvidenceOf[e]
              /\ step[e] = "returned" => Handed(EvidenceOf[e])
        /\ verdict[e] = "valid" => Handed(RecordOf[e]) /\ Handed(EvidenceOf[e])
    BY DEF IInv, VerdictInv
  <2>9. CASE e = p
    BY <2>2, <2>5, <2>7, <2>8, <2>9
  <2>10. CASE e # p
    BY <2>4, <2>7, <2>8, <2>10
  <2> QED
    BY <2>9, <2>10
<1>4. CASE p \notin Evaluations /\ \E c \in Contents : BeginPut(p, c)
  <2>1. \A e \in Evaluations : UNCHANGED <<step[e], content[e]>>
    BY <1>4, EvaluationAssumption DEF BeginPut, PutEnds, IInv, StoreInv, ArtifactTypeOK
  <2> QED
    BY <1>1, <1>2, <2>1, VerdictRests DEF IInv
<1> QED
  BY <1>3, <1>4 DEF Put

\* What is lost rests on nothing.
LEMMA LostHolds == ASSUME IInv, KillProcess \/ PowerFails PROVE VerdictInv'
<1>1. /\ \A e \in Evaluations :
             \/ verdict'[e] = "lost"
             \/ verdict'[e] = verdict[e] /\ verdict[e] \in Decided \cup {"evaluating"}
             \/ verdict'[e] = verdict[e] /\ runner[e] = "idle"
      /\ verdict' \in [Evaluations -> Decided \cup
             {"evaluating", "recording", "publishing", "escaped", "lost"}]
      /\ \A e \in Evaluations : runner[e] = "returned" => runner'[e] = "returned"
      /\ UNCHANGED <<status, refs>>
  BY DEF KillProcess, PowerFails, VerificationsAreLost, LoseProcess, LosePower, IInv,
         VerdictInv
<1>2. \A c : Handed(c)' <=> Handed(c)
  BY <1>1 DEF Handed
<1> QED
  BY <1>1, <1>2 DEF IInv, VerdictInv, Decided

\* Every step preserves the invariant.
LEMMA StepHolds == IInv /\ [Next]_vars => IInv'
<1> SUFFICES ASSUME IInv, [Next]_vars PROVE IInv'
  OBVIOUS
<1>1. [ArtifactNext]_artifactVars /\ [RunnerNext]_runnerVars
  BY NextSplits DEF vars
<1>2. StoreInv' /\ RunnerInv'
  BY <1>1, StoreStepHolds, RunnerStepHolds DEF IInv
<1>3. VerdictInv'
  <2>1. CASE UNCHANGED vars
    <3>1. UNCHANGED <<verdict, refs, runner, status, step, content>>
      BY <2>1 DEF vars, runnerVars, artifactVars
    <3> QED
      BY <3>1, VerdictRests DEF IInv
  <2>2. CASE \/ \E c \in Contents : DamageObject(c)
             \/ \E h \in Homes : WriteBackHome(h)
    <3>1. UNCHANGED <<verdict, refs, runner, status, step, content>>
      BY <2>2 DEF DamageObject, WriteBackHome, Damage, WriteBack, runnerVars, putVars
    <3> QED
      BY <3>1, VerdictRests DEF IInv
  <2>3. CASE \E e \in Evaluations : Evaluate(e) \/ Work(e) \/ VerifyStep(e)
    BY <2>3, EvaluateRests, VerifyStepHolds
  <2>4. CASE \E p \in Publishers : Put(p)
    BY <2>4, PutHolds
  <2>5. CASE KillProcess \/ PowerFails
    BY <2>5, LostHolds
  <2> QED
    BY <2>1, <2>2, <2>3, <2>4, <2>5 DEF Next
<1> QED
  BY <1>2, <1>3 DEF IInv

\* The first state.
LEMMA InitHolds == Init => IInv
  BY StoreInitHolds, RunnerInitHolds DEF Init, RunnerInit, IInv, VerdictInv

\* Every state of the program satisfies the invariant.
LEMMA InvHolds == Spec => []IInv
  BY InitHolds, StepHolds, PTL DEF Spec

\* The fields of runner, store and verify keep their types.
THEOREM TypeCorrect == Spec => []TypeOK
<1>1. IInv => TypeOK
  BY DEF IInv, StoreInv, RunnerInv, VerdictInv, TypeOK
<1> QED
  BY InvHolds, <1>1, PTL

\* A success is only reported of a worker that had its request, answered it and
\* ended by itself (evaluate, _wait_bounded).
THEOREM SuccessCorrect == Spec => []SuccessIsAnswered
<1>1. IInv => SuccessIsAnswered
  BY DEF IInv, RunnerInv
<1> QED
  BY InvHolds, <1>1, PTL

\* evaluate leaves no worker, and nothing in the process group of one it killed
\* (_kill_process_group).
THEOREM CleanupCorrect == Spec => []NothingIsLeftInGroup
<1>1. IInv => NothingIsLeftInGroup
  BY DEF IInv, RunnerInv, ExitIsFinal, NothingIsLeftInGroup
<1> QED
  BY InvHolds, <1>1, PTL

\* A reference leads to an object through any failure, crash and outage, unless
\* the outage takes a new directory or its put had only found the object
\* (put_stream).
THEOREM ReferencesCorrect == Spec => []ReferencesLead
<1>1. IInv => ReferencesLead
  BY StoreInvLeads DEF IInv
<1> QED
  BY InvHolds, <1>1, PTL

\* A valid Episode rests on an answered execution and on stored Evidence
\* (verify).
THEOREM ValidCorrect == Spec => []ValidIsFounded
<1>1. IInv => ValidIsFounded
  BY StoreInvLeads DEF IInv, VerdictInv, Handed, ReferencesLead, ValidIsFounded
<1> QED
  BY InvHolds, <1>1, PTL

\* The file system store implements the immutable one, with verifications,
\* other publishers, crashes and outages around it (LocalFilesystemArtifactStore).
THEOREM StoreImplemented == Spec => ImplementsImmutable
<1>1. Init => Promise!StoreInit
  BY DEF Init, ArtifactInit, Promise!StoreInit
<1>2. IInv /\ [Next]_vars => [Promise!StoreNext]_(Promise!storeVars)
  <2> SUFFICES ASSUME IInv, [Next]_vars
               PROVE  [Promise!StoreNext]_(Promise!storeVars)
    OBVIOUS
  <2>1. [ArtifactNext]_artifactVars
    BY NextSplits DEF vars
  <2> QED
    BY <2>1, StorePromised DEF IInv
<1> QED
  BY InvHolds, <1>1, <1>2, PTL DEF Spec, ImplementsImmutable, Promise!StoreSpec

=============================================================================
