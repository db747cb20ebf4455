------------------------------ MODULE OracleRunner ------------------------------
(***************************************************************************)
(* SubprocessOracleRunner.evaluate (oracle_runner/subprocess.py) and its   *)
(* worker process (oracle_worker.py).                                      *)
(*                                                                         *)
(* The two processes share a pipe, two files and a deadline.  The runner   *)
(* polls: it looks at the process, at the files and at the clock one after *)
(* the other, and the worker goes on in between.  Oracle code may print,   *)
(* loop, leave a process of its own behind, and end in any way; only the   *)
(* worker's main writes a response frame.                                  *)
(***************************************************************************)
EXTENDS Naturals

CONSTANTS Evaluations    \* calls of evaluate

\* Exit codes 0, _PROTOCOL_EXIT, _ORACLE_CRASH_EXIT (and any other), and
\* _SECURITY_EXIT; the signals of a resource limit; SIGKILL.
ExitCodes == {"zero", "protocol", "crash", "security", "limit", "killed"}

\* OracleExecutionStatus.
Statuses == {"SUCCESS", "TIMEOUT", "SECURITY_VIOLATION", "PROTOCOL_ERROR", "CRASHED"}

\* Where a process that Oracle code started can be.
Children == {"grouped", "apart"}

VARIABLES
    runner,         \* where evaluate is
    termination,    \* what _wait_bounded returns
    status,         \* the execution's status
    late,           \* the deadline of _wait_bounded has passed
    long,           \* the request is longer than the pipe
    sent,           \* the request is in the pipe, and stdin is closed
    worker,         \* where the worker process is
    exit,           \* its return code
    answered,       \* main wrote the response frame
    stdout,         \* what the stdout file holds, "excess" over its limit
    stderrExcess,   \* the stderr file is over its limit
    child           \* what Oracle code started and is alive: processes that stayed
                    \* in the worker's process group, and ones that left it

workerVars == <<worker, exit, answered, stdout, stderrExcess, child>>
runnerVars == <<runner, termination, status, late, long, sent, worker, exit,
                answered, stdout, stderrExcess, child>>

RunnerInit ==
    /\ runner = [e \in Evaluations |-> "idle"]
    /\ termination = [e \in Evaluations |-> "none"]
    /\ status = [e \in Evaluations |-> "none"]
    /\ late = [e \in Evaluations |-> FALSE]
    /\ long = [e \in Evaluations |-> FALSE]
    /\ sent = [e \in Evaluations |-> FALSE]
    /\ worker = [e \in Evaluations |-> "none"]
    /\ exit = [e \in Evaluations |-> "none"]
    /\ answered = [e \in Evaluations |-> FALSE]
    /\ stdout = [e \in Evaluations |-> "empty"]
    /\ stderrExcess = [e \in Evaluations |-> FALSE]
    /\ child = [e \in Evaluations |-> {}]

\* evaluate goes on to another place.
GoesTo(e, place) == runner' = [runner EXCEPT ![e] = place]

-----------------------------------------------------------------------------
\* The runner.

\* evaluate raises for its allowlist or its frame limit, or cannot start a
\* process.
Refuse(e) ==
    /\ runner[e] = "idle"
    /\ GoesTo(e, "raised")
    /\ UNCHANGED <<termination, status, late, long, sent, workerVars>>

\* Popen.
Start(e) ==
    /\ runner[e] = "idle"
    /\ GoesTo(e, "sending")
    /\ \E l \in BOOLEAN : long' = [long EXCEPT ![e] = l]
    /\ worker' = [worker EXCEPT ![e] = "starting"]
    /\ UNCHANGED <<termination, status, late, sent, exit, answered, stdout,
                   stderrExcess, child>>

\* _send_request, before there is a deadline: a frame that the pipe does not
\* hold waits for the worker to read.
Send(e) ==
    /\ runner[e] = "sending"
    /\ worker[e] # "exited" /\ (long[e] => worker[e] = "reading")
    /\ sent' = [sent EXCEPT ![e] = TRUE]
    /\ GoesTo(e, "polling")
    /\ UNCHANGED <<termination, status, late, long, workerVars>>

\* The worker has exited.  The write's BrokenPipeError is ignored, but close
\* raises it again when a part of the frame is left in the buffer.
SendToNone(e) ==
    /\ runner[e] = "sending" /\ worker[e] = "exited"
    /\ GoesTo(e, "raised") \/ (long[e] /\ GoesTo(e, "polling"))
    /\ UNCHANGED <<termination, status, late, long, sent, workerVars>>

\* process.poll() at the head of _wait_bounded's loop.
Poll(e) ==
    /\ runner[e] = "polling"
    /\ IF worker[e] = "exited"
         THEN /\ GoesTo(e, "collecting")
              /\ termination' = [termination EXCEPT ![e] = "completed"]
         ELSE GoesTo(e, "measuring") /\ UNCHANGED termination
    /\ UNCHANGED <<status, late, long, sent, workerVars>>

\* The sizes of both files against their limits.
Measure(e) ==
    /\ runner[e] = "measuring"
    /\ IF stdout[e] = "excess" \/ stderrExcess[e]
         THEN /\ GoesTo(e, "killing")
              /\ termination' = [termination EXCEPT ![e] = "output_limit"]
         ELSE GoesTo(e, "timing") /\ UNCHANGED termination
    /\ UNCHANGED <<status, late, long, sent, workerVars>>

\* Mutant: the deadline is for a worker that has not written anything.
CheckSilence(e) ==
    /\ runner[e] = "timing"
    /\ IF late[e] /\ stdout[e] = "empty"
         THEN /\ GoesTo(e, "killing")
              /\ termination' = [termination EXCEPT ![e] = "timeout"]
         ELSE GoesTo(e, "polling") /\ UNCHANGED termination
    /\ UNCHANGED <<status, late, long, sent, workerVars>>

\* The deadline, and the sleep.
CheckDeadline(e) ==
    /\ runner[e] = "timing"
    /\ IF late[e]
         THEN /\ GoesTo(e, "killing")
              /\ termination' = [termination EXCEPT ![e] = "timeout"]
         ELSE GoesTo(e, "polling") /\ UNCHANGED termination
    /\ UNCHANGED <<status, late, long, sent, workerVars>>

\* Mutant: only the worker is killed, not its process group.
KillWorker(e) ==
    /\ runner[e] = "killing"
    /\ worker' = [worker EXCEPT ![e] = "exited"]
    /\ exit' = [exit EXCEPT ![e] = IF worker[e] = "exited" THEN @ ELSE "killed"]
    /\ GoesTo(e, "collecting")
    /\ UNCHANGED <<termination, status, late, long, sent, answered, stdout,
                   stderrExcess, child>>

\* _kill_process_group and wait: nothing is killed when the worker has exited,
\* and killpg does not reach what has left the worker's group.
Kill(e) ==
    /\ runner[e] = "killing"
    /\ IF worker[e] = "exited"
         THEN UNCHANGED <<worker, exit, child>>
         ELSE /\ worker' = [worker EXCEPT ![e] = "exited"]
              /\ exit' = [exit EXCEPT ![e] = "killed"]
              /\ child' = [child EXCEPT ![e] = @ \ {"grouped"}]
    /\ GoesTo(e, "collecting")
    /\ UNCHANGED <<termination, status, late, long, sent, answered, stdout,
                   stderrExcess>>

\* Mutant: a good frame is a success, whatever the return code.
StatusByFrame(e) ==
    CASE termination[e] = "timeout" -> "TIMEOUT"
      [] stdout[e] = "frame" -> "SUCCESS"
      [] termination[e] = "output_limit" \/ stdout[e] = "excess" \/ stderrExcess[e]
           -> "SECURITY_VIOLATION"
      [] OTHER -> "CRASHED"

\* How evaluate reads the end of the process.
StatusOf(e) ==
    CASE termination[e] = "timeout" -> "TIMEOUT"
      [] termination[e] # "timeout" /\
         \/ termination[e] = "output_limit" \/ stdout[e] = "excess" \/ stderrExcess[e]
         \/ exit[e] \in {"limit", "security"} -> "SECURITY_VIOLATION"
      [] OTHER -> IF exit[e] = "zero" /\ stdout[e] = "frame" THEN "SUCCESS"
                  ELSE IF exit[e] \in {"zero", "protocol"} THEN "PROTOCOL_ERROR"
                  ELSE "CRASHED"

\* The files are read, they and the temporary directory are removed, and
\* evaluate returns; or one of these calls raises, as the removal does of a
\* directory in which a child still writes.
Collect(e) ==
    /\ runner[e] = "collecting"
    /\ \/ status' = [status EXCEPT ![e] = StatusOf(e)] /\ GoesTo(e, "returned")
       \/ GoesTo(e, "raised") /\ UNCHANGED status
    /\ termination' = [termination EXCEPT ![e] = "none"]
    /\ late' = [late EXCEPT ![e] = FALSE]
    /\ long' = [long EXCEPT ![e] = FALSE]
    /\ stdout' = [stdout EXCEPT ![e] = "empty"]
    /\ stderrExcess' = [stderrExcess EXCEPT ![e] = FALSE]
    /\ UNCHANGED <<sent, worker, exit, answered, child>>

RunnerStep(e) ==
    \/ Send(e) \/ SendToNone(e) \/ Poll(e) \/ Measure(e)
    \/ CheckDeadline(e) \/ Kill(e) \/ Collect(e)

\* The clock.
Deadline(e) ==
    /\ runner[e] \in {"polling", "measuring", "timing"} /\ ~late[e]
    /\ late' = [late EXCEPT ![e] = TRUE]
    /\ UNCHANGED <<runner, termination, status, long, sent, workerVars>>

-----------------------------------------------------------------------------
\* The worker.

WorkerExits(e, code) ==
    /\ worker' = [worker EXCEPT ![e] = "exited"]
    /\ exit' = [exit EXCEPT ![e] = code]
    /\ UNCHANGED <<runner, termination, status, late, long, sent, answered, stdout,
                   stderrExcess, child>>

WorkerGoesTo(e, place) ==
    /\ worker' = [worker EXCEPT ![e] = place]
    /\ UNCHANGED <<runner, termination, status, late, long, sent, exit, answered,
                   stdout, stderrExcess, child>>

\* main applies the limits and waits for its frame; or it fails to.
Boot(e) ==
    /\ worker[e] = "starting"
    /\ \/ WorkerGoesTo(e, "reading")
       \/ \E code \in {"crash", "security"} : WorkerExits(e, code)

\* The frame and the end of the input are there; it is decoded and checked.
Receive(e) ==
    /\ worker[e] = "reading" /\ sent[e]
    /\ \/ WorkerGoesTo(e, "running")
       \/ \E code \in {"protocol", "crash", "security"} : WorkerExits(e, code)

\* Writing more to the stdout file.
More(content) == CASE content = "empty" -> {"noise", "excess"}
                   [] content \in {"noise", "excess"} -> {content, "excess"}
                   [] OTHER -> {"mixed", "excess"}

\* Oracle code, or a process it started, prints, to files that are read.
Prints(e) ==
    /\ worker[e] = "running" \/ child[e] # {}
    /\ runner[e] \notin {"returned", "raised", "lost"}
    /\ \/ /\ \E content \in More(stdout[e]) : stdout' = [stdout EXCEPT ![e] = content]
          /\ UNCHANGED stderrExcess
       \/ stderrExcess' = [stderrExcess EXCEPT ![e] = TRUE] /\ UNCHANGED stdout
    /\ UNCHANGED <<runner, termination, status, late, long, sent, worker, exit,
                   answered, child>>

\* Oracle code starts a process of its own.
Fork(e) ==
    /\ worker[e] = "running"
    /\ child' = [child EXCEPT ![e] = @ \cup {"grouped"}]
    /\ UNCHANGED <<runner, termination, status, late, long, sent, worker, exit,
                   answered, stdout, stderrExcess>>

\* That process makes a session or a process group of its own; others may stay.
LeaveGroup(e) ==
    /\ "grouped" \in child[e]
    /\ child' = [child EXCEPT ![e] = {"apart"}] \/ child' = [child EXCEPT ![e] = Children]
    /\ UNCHANGED <<runner, termination, status, late, long, sent, worker, exit,
                   answered, stdout, stderrExcess>>

\* The last of these processes ends.
ChildEnds(e) ==
    /\ \E kind \in child[e] : child' = [child EXCEPT ![e] = @ \ {kind}]
    /\ UNCHANGED <<runner, termination, status, late, long, sent, worker, exit,
                   answered, stdout, stderrExcess>>

\* The Oracle has returned its output and main writes the frame.
Answer(e) ==
    /\ worker[e] = "running" /\ ~answered[e]
    /\ answered' = [answered EXCEPT ![e] = TRUE]
    /\ \E content \in CASE stdout[e] = "empty" -> {"frame"}
                        [] stdout[e] = "excess" -> {"excess"}
                        [] OTHER -> {"mixed", "excess"} :
           stdout' = [stdout EXCEPT ![e] = content]
    /\ UNCHANGED <<runner, termination, status, late, long, sent, worker, exit,
                   stderrExcess, child>>

\* The worker ends, before its answer or after it.
End(e) ==
    /\ worker[e] = "running"
    /\ \E code \in ExitCodes \ {"killed"} : WorkerExits(e, code)

WorkerStep(e) ==
    \/ Boot(e) \/ Receive(e) \/ Answer(e) \/ End(e)
    \/ Prints(e) \/ Fork(e) \/ LeaveGroup(e) \/ ChildEnds(e)

-----------------------------------------------------------------------------
\* A runner goes on, time passes, and the worker's own code reads its frame;
\* nothing is assumed of Oracle code.
RunnerFairness ==
    \A e \in Evaluations :
        /\ WF_runnerVars(RunnerStep(e))
        /\ WF_runnerVars(Deadline(e))
        /\ WF_runnerVars(Boot(e))

\* The type invariant (the locals of evaluate, and the worker process).
RunnerTypeOK ==
    /\ runner \in [Evaluations -> {"idle", "sending", "polling", "measuring", "timing",
                                   "killing", "collecting", "returned", "raised", "lost"}]
    /\ termination \in [Evaluations -> {"none", "completed", "output_limit", "timeout"}]
    /\ status \in [Evaluations -> Statuses \cup {"none"}]
    /\ \A e \in Evaluations : runner[e] = "returned" <=> status[e] # "none"
    /\ late \in [Evaluations -> BOOLEAN]
    /\ long \in [Evaluations -> BOOLEAN]
    /\ sent \in [Evaluations -> BOOLEAN]
    /\ worker \in [Evaluations -> {"none", "starting", "reading", "running", "exited"}]
    /\ exit \in [Evaluations -> ExitCodes \cup {"none"}]
    /\ answered \in [Evaluations -> BOOLEAN]
    /\ stdout \in [Evaluations -> {"empty", "noise", "frame", "mixed", "excess"}]
    /\ stderrExcess \in [Evaluations -> BOOLEAN]
    /\ child \in [Evaluations -> SUBSET Children]

\* A success is reported only of a worker that had the whole request, answered
\* it and ended by itself without an error, whatever happened between the
\* runner's looks at process, files and clock (evaluate).
SuccessIsAnswered ==
    \A e \in Evaluations : status[e] = "SUCCESS" =>
        sent[e] /\ answered[e] /\ worker[e] = "exited" /\ exit[e] = "zero"

\* When evaluate returns the worker is gone; and if the runner had to end it, so
\* is every process of Oracle code that had not left the worker's process group
\* (_kill_process_group).
NothingIsLeftInGroup ==
    \A e \in Evaluations : runner[e] = "returned" =>
        worker[e] = "exited" /\ (exit[e] = "killed" => "grouped" \notin child[e])

=============================================================================
