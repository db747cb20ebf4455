------------------------------- MODULE Evaluation -------------------------------
(***************************************************************************)
(* ReferenceRuntime.verify (runtime/engine.py) with the Oracle runner and  *)
(* the Artifact store it uses: each Episode's thread evaluates, puts       *)
(* the execution record, and after a success the Oracle's Evidence.  Other *)
(* publishers use the store meanwhile, and the process can be killed.      *)
(* EpisodeRuntime has the lifecycle, the events and the verdicts around    *)
(* these calls; here they take their steps one by one.                     *)
(***************************************************************************)
EXTENDS OracleRunner, ArtifactStore

CONSTANTS RecordOf, EvidenceOf     \* an evaluation's contents

ASSUME EvaluationAssumption ==
    /\ Evaluations \subseteq Publishers
    /\ RecordOf \in [Evaluations -> Contents]
    /\ EvidenceOf \in [Evaluations -> Contents]

VARIABLES verdict       \* where verify is, or how it ended

vars == <<runnerVars, artifactVars, verdict>>

Decided == {"valid", "oracle_failure", "infra_confound"}

Init ==
    /\ RunnerInit
    /\ ArtifactInit
    /\ verdict = [e \in Evaluations |-> "evaluating"]

Verdict(e, v) == verdict' = [verdict EXCEPT ![e] = v]

-----------------------------------------------------------------------------
\* The runner's part.
Evaluate(e) ==
    /\ verdict[e] = "evaluating"
    /\ Refuse(e) \/ Start(e) \/ RunnerStep(e) \/ Deadline(e)
    /\ UNCHANGED <<artifactVars, verdict>>

\* The worker lives without its runner, too.
Work(e) == WorkerStep(e) /\ UNCHANGED <<artifactVars, verdict>>

\* verify catches whatever evaluate raises.
RunnerRaised(e) ==
    /\ verdict[e] = "evaluating" /\ runner[e] = "raised"
    /\ Verdict(e, "oracle_failure")
    /\ UNCHANGED <<runnerVars, artifactVars>>

\* _publish_oracle_execution_evidence.
PublishRecord(e) ==
    /\ verdict[e] = "evaluating" /\ runner[e] = "returned"
    /\ BeginPut(e, RecordOf[e])
    /\ Verdict(e, "recording")
    /\ UNCHANGED runnerVars

\* Mutant: the Oracle's Evidence is published before the status is looked at.
PublishAnyEvidence(e) ==
    /\ verdict[e] = "recording" /\ step[e] = "returned"
    /\ IF answered[e]
         THEN BeginPut(e, EvidenceOf[e]) /\ Verdict(e, "publishing")
         ELSE UNCHANGED artifactVars /\ Verdict(e, "oracle_failure")
    /\ UNCHANGED runnerVars

\* _publish_oracle_evidence, of an execution that succeeded.
PublishEvidence(e) ==
    /\ verdict[e] = "recording" /\ step[e] = "returned"
    /\ IF status[e] = "SUCCESS"
         THEN BeginPut(e, EvidenceOf[e]) /\ Verdict(e, "publishing")
         ELSE UNCHANGED artifactVars /\ Verdict(e, "oracle_failure")
    /\ UNCHANGED runnerVars

\* The Episode is completed.
Complete(e) ==
    /\ verdict[e] = "publishing" /\ step[e] = "returned"
    /\ Verdict(e, "valid")
    /\ UNCHANGED <<runnerVars, artifactVars>>

\* A put raised: ArtifactStoreError makes the Episode INFRA_CONFOUND, an OSError
\* of the temporary file leaves verify.
PutRaised(e) ==
    /\ verdict[e] \in {"recording", "publishing"}
    /\ \/ step[e] = "failed" /\ Verdict(e, "infra_confound")
       \/ step[e] = "escaped" /\ Verdict(e, "escaped")
    /\ UNCHANGED <<runnerVars, artifactVars>>

\* put_stream, called by verify or by somebody else.
Put(p) ==
    /\ PutStep(p) \/ (p \notin Evaluations /\ \E c \in Contents : BeginPut(p, c))
    /\ UNCHANGED <<runnerVars, verdict>>

\* The storage, under a running process.
DamageObject(c) == Damage(c) /\ UNCHANGED <<runnerVars, verdict>>
WriteBackHome(h) == WriteBack(h) /\ UNCHANGED <<runnerVars, verdict>>

\* What is under way in the process is lost.
VerificationsAreLost ==
    /\ verdict' = [e \in Evaluations |->
           IF runner[e] = "idle" \/ verdict[e] \in Decided THEN verdict[e] ELSE "lost"]
    /\ runner' = [e \in Evaluations |->
           IF runner[e] \in {"idle", "returned", "raised"} THEN runner[e] ELSE "lost"]
    /\ UNCHANGED <<termination, status, late, long, sent>>

\* Its process is killed: the worker is not.
KillProcess ==
    /\ VerificationsAreLost
    /\ LoseProcess
    /\ UNCHANGED workerVars

\* The machine loses power, and nothing goes on.
PowerFails ==
    /\ VerificationsAreLost
    /\ LosePower
    /\ worker' = [e \in Evaluations |-> IF worker[e] = "none" THEN "none" ELSE "exited"]
    /\ exit' = [e \in Evaluations |->
           IF worker[e] \in {"none", "exited"} THEN exit[e] ELSE "killed"]
    /\ child' = [e \in Evaluations |-> {}]
    /\ UNCHANGED <<answered, stdout, stderrExcess>>

VerifyStep(e) ==
    RunnerRaised(e) \/ PublishRecord(e) \/ PublishEvidence(e) \/ Complete(e) \/ PutRaised(e)

Next ==
    \/ \E e \in Evaluations : Evaluate(e) \/ Work(e) \/ VerifyStep(e)
    \/ \E p \in Publishers : Put(p)
    \/ \E c \in Contents : DamageObject(c)
    \/ \E h \in Homes : WriteBackHome(h)
    \/ KillProcess
    \/ PowerFails

\* A thread of the process goes on and its file system calls return, time
\* passes, and the worker's own code reads its frame; of Oracle code nothing is
\* assumed.
Fairness ==
    /\ RunnerFairness
    /\ \A e \in Evaluations : WF_vars(VerifyStep(e)) /\ WF_artifactVars(PutStep(e))

Spec == Init /\ [][Next]_vars /\ Fairness

-----------------------------------------------------------------------------
\* The type invariant (the runner, the store, and verify's progress).
TypeOK ==
    /\ RunnerTypeOK
    /\ ArtifactTypeOK
    /\ verdict \in [Evaluations -> Decided \cup
           {"evaluating", "recording", "publishing", "escaped", "lost"}]

\* A valid Episode rests on a worker's answer that the runner reported as a
\* success, and its record and Evidence can be found in the store as long as
\* the machine does not fail (verify).
ValidIsFounded ==
    \A e \in Evaluations : verdict[e] = "valid" =>
        /\ status[e] = "SUCCESS"
        /\ \A c \in {RecordOf[e], EvidenceOf[e]} :
               /\ \E ref \in refs : ref.content = c
               /\ objects[c] # "absent" \/ outage

\* Every verification that starts comes to an end, whatever Oracle code does:
\* its deadline and the store let it through (verify, evaluate, put_stream).
VerificationEnds ==
    \A e \in Evaluations :
        runner[e] = "sending" ~> verdict[e] \in Decided \cup {"escaped", "lost"}

=============================================================================
