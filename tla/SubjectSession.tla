---------------------------- MODULE SubjectSession ----------------------------
(***************************************************************************)
(* Episodes with an HTTP Subject (subject/http.py) whose tools are those   *)
(* of one MCP gateway: provision opens the gateway, run_subject asks the   *)
(* Subject for one frame after the other, and a frame that calls a tool    *)
(* goes through ReferenceRuntime._subject_call_tool into the gateway.      *)
(* Observations, tool.call and tool.error events are left out.             *)
(*                                                                         *)
(* The timeout of a request, to the server or to the Subject, is one of    *)
(* urlopen: it ends the wait for the next byte and not the request, so a   *)
(* response that trickles keeps a thread as long as it likes.              *)
(***************************************************************************)
EXTENDS McpGateway

CONSTANT MaxSteps       \* each Episode's budgets.max_steps

ASSUME SessionAssumption == MaxSteps \in [Episodes -> Nat \ {0}]

VARIABLES
    state,          \* Episode.state
    step,           \* the frames asked for
    results,        \* each Episode's tool.result events
    trickling       \* the Episodes whose request has a response that trickles

vars == <<mcpVars, state, step, results, trickling>>

Init ==
    /\ GatewayInit
    /\ state = [e \in Episodes |-> "CREATED"]
    /\ step = [e \in Episodes |-> 0]
    /\ results = [e \in Episodes |-> {}]
    /\ trickling = {}

\* The thread leaves the runtime; the Episode is left in state s.
Ends(e, s) ==
    /\ Goto(e, "over")
    /\ state' = [state EXCEPT ![e] = s]

Outside == UNCHANGED <<serverVars, gatewayVars, callVars, opened, alone>>

-----------------------------------------------------------------------------
Provision(e) ==
    /\ pc[e] = "new"
    /\ OpenGateway(e)
    /\ state' = [state EXCEPT ![e] = "PROVISIONING"]
    /\ UNCHANGED <<step, results>>

\* mcp.gateway.opened, and the reset of the environment, which may fail.
Provisioned(e) ==
    /\ pc[e] = "described"
    /\ \/ Goto(e, "ready") /\ state' = [state EXCEPT ![e] = "READY"]
       \/ Ends(e, "INFRA_FAILED")
    /\ UNCHANGED <<step, results>> /\ Outside

ProvisionFails(e) ==
    /\ pc[e] \in {"refused", "raised"} /\ state[e] = "PROVISIONING"
    /\ Ends(e, "INFRA_FAILED")
    /\ listing' = [listing EXCEPT ![e] = NoListing]
    /\ UNCHANGED <<serverVars, gatewayVars, call, sent, live, opened, alone, step, results>>

RunSubject(e) ==
    /\ pc[e] = "ready"
    /\ Goto(e, "invoking")
    /\ state' = [state EXCEPT ![e] = "RUNNING"]
    /\ UNCHANGED <<step, results>> /\ Outside

\* The head of invoke's loop: the budget, then the deadline, then the next request.
AskSubject(e) ==
    /\ pc[e] = "invoking"
    /\ \/ /\ step[e] < MaxSteps[e]
          /\ Goto(e, "asked")
          /\ step' = [step EXCEPT ![e] = @ + 1]
          /\ UNCHANGED state
       \/ Ends(e, "INFRA_FAILED") /\ UNCHANGED step
    /\ UNCHANGED results /\ Outside

SubjectCompletes(e) ==
    /\ pc[e] = "asked"
    /\ Ends(e, "QUIESCING")
    /\ UNCHANGED <<step, results>> /\ Outside

\* A failed frame, a frame or an answer that is none, or no byte for as long as
\* was left before the deadline; a connection closed before the answer leaves the Episode RUNNING.
SubjectFails(e) ==
    /\ pc[e] = "asked"
    /\ \E s \in {"INFRA_FAILED", "RUNNING"} : Ends(e, s)
    /\ UNCHANGED <<step, results>> /\ Outside

SubjectCallsTool(e) ==
    /\ pc[e] = "asked"
    /\ \E t \in Allowed : CallTool(e, t, step[e])
    /\ UNCHANGED <<state, step, results>>

\* A tool the gateway does not own: the environment executes it, or it fails.
SubjectCallsEnvironment(e) ==
    /\ pc[e] = "asked"
    /\ \/ Goto(e, "invoking") /\ UNCHANGED state
       \/ Ends(e, "RUNNING")
    /\ UNCHANGED <<step, results>> /\ Outside

\* Mutant: the event is made of the gateway's first record.
FirstRecord(all) == all[1]

\* gateway.call_records[-1].
RecordToReport(all) == all[Len(all)]

\* tool.result, after which the loop goes on.
ReportResult(e) ==
    /\ pc[e] = "recorded"
    /\ LET r == RecordToReport(records)
       IN  results' = [results EXCEPT ![e] = @ \union
               {[number |-> call[e].number, tool |-> call[e].tool,
                 of |-> <<r.episode, r.number>>, schema |-> r.schema,
                 catalog |-> r.catalog, alone |-> alone[e]]}]
    /\ call' = [call EXCEPT ![e] = NoCall]
    /\ live' = [live EXCEPT ![e] = {}]
    /\ Goto(e, "invoking")
    /\ UNCHANGED <<serverVars, gatewayVars, listing, sent, opened, alone, state, step>>

\* A call that was refused or raised leaves invoke and run_subject as it is.
CallEscapes(e) ==
    /\ pc[e] \in {"refused", "raised"} /\ state[e] = "RUNNING"
    /\ Ends(e, "RUNNING")
    /\ listing' = [listing EXCEPT ![e] = NoListing]
    /\ call' = [call EXCEPT ![e] = NoCall]
    /\ live' = [live EXCEPT ![e] = {}]
    /\ UNCHANGED <<serverVars, gatewayVars, sent, opened, alone, step, results>>

InGateway(e) == GatewayStep(e) /\ UNCHANGED <<state, step, results>>

Server ==
    /\ (\E r \in sent : Execute(r)) \/ (\E c \in Contracts : Drift(c))
    /\ UNCHANGED <<state, step, results>>

-----------------------------------------------------------------------------
\* A request is out.
Waits(e) == pc[e] \in {"discovering", "listing", "awaiting", "asked"}

\* Its response comes byte by byte, each before the socket's timeout.
Trickle(e) ==
    /\ Waits(e) /\ e \notin trickling
    /\ trickling' = trickling \union {e}
    /\ UNCHANGED <<mcpVars, state, step, results>>

\* It comes to a halt.
Stall(e) ==
    /\ e \in trickling
    /\ trickling' = trickling \ {e}
    /\ UNCHANGED <<mcpVars, state, step, results>>

\* A response belongs to one request: of discovery, a page, a call or a frame.
Requests ==
    trickling' = {e \in trickling : pc'[e] = pc[e] /\ listing'[e] = listing[e]}

\* What a thread does without anybody's answer; a request that gets no further
\* byte ends by its timeout.
Own(e) ==
    /\ e \notin trickling
    /\ \/ Provisioned(e) \/ ProvisionFails(e) \/ AskSubject(e) \/ SubjectFails(e)
       \/ ReportResult(e) \/ CallEscapes(e)
       \/ /\ \/ RequestFails(e) \/ Install(e) \/ Describe(e) \/ Compare(e)
             \/ RefuseArguments(e) \/ Send(e) \/ Accept(e)
          /\ UNCHANGED <<state, step, results>>
    /\ Requests

Host(e) ==
    \/ Provision(e) \/ Provisioned(e) \/ ProvisionFails(e) \/ RunSubject(e)
    \/ AskSubject(e) \/ SubjectCompletes(e) \/ SubjectFails(e) \/ SubjectCallsTool(e)
    \/ SubjectCallsEnvironment(e) \/ ReportResult(e) \/ CallEscapes(e)

Next ==
    \/ (Server \/ \E e \in Episodes : Host(e) \/ InGateway(e)) /\ Requests
    \/ \E e \in Episodes : Trickle(e) \/ Stall(e)

\* A thread that can go on does.  Neither the server nor the Subject nor the host
\* must do anything, and a request ends only if its response does not trickle.
Fairness == \A e \in Episodes : WF_vars(Own(e))

Spec == Init /\ [][Next]_vars /\ Fairness

-----------------------------------------------------------------------------
Records ==
    [episode : Episodes, number : Nat, tool : Tools, schema : Schemas,
     catalog : Catalogs, outcome : Outcomes]

Positions ==
    {"new", "discovering", "listing", "listed", "installed", "described", "ready",
     "invoking", "asked", "checked", "awaiting", "answered", "recorded", "refused",
     "raised", "over"}

Calls == [tool : Tools \union {None}, number : Nat,
          schema : Schemas \union {None}, reply : Replies \union {None}]

Listings == [tools : Seq(Tools \X Schemas), cursor : Nat, seen : SUBSET Nat]

\* Types; of tools _list_tools never keeps more than max_tools.
TypeOK ==
    /\ contract \in Contracts
    /\ executed \subseteq sent /\ sent \subseteq Episodes \X Nat
    /\ catalog \in Catalogs \union {None}
    /\ records \in Seq(Records)
    /\ pc \in [Episodes -> Positions]
    /\ state \in [Episodes -> {"CREATED", "PROVISIONING", "READY", "RUNNING",
                               "QUIESCING", "INFRA_FAILED"}]
    /\ step \in [Episodes -> Nat]
    /\ call \in [Episodes -> Calls]
    /\ listing \in [Episodes -> Listings]
    /\ opened \in [Episodes -> Catalogs \union {None}]
    /\ live \in [Episodes -> SUBSET (Schemas \union {None})]
    /\ alone \in [Episodes -> BOOLEAN]
    /\ DOMAIN results = Episodes
    /\ trickling \subseteq Episodes
    /\ \A e \in Episodes :
        /\ step[e] <= MaxSteps[e]
        /\ pc[e] \in {"listing", "listed"} => Len(listing[e].tools) <= MaxTools

\* AVP-MCP-004: while a tools/call request is out, the tool's schema it was
\* checked against has been in force at the server at some moment since the call
\* began, however the server drifted and whoever replaced the baseline meanwhile.
SentUnderBaseline ==
    \A e \in Episodes : pc[e] = "awaiting" => call[e].schema \in live[e]

\* AVP-MCP-007 and -008: what is recorded as a result was executed by the server
\* for that very request, and a call is recorded once at most.
RecordsAreExecuted ==
    /\ \A i \in DOMAIN records :
        LET id == <<records[i].episode, records[i].number>>
        IN  id \in sent /\ (records[i].outcome # "upstream_error" => id \in executed)
    /\ \A i, j \in DOMAIN records :
        records[i].episode = records[j].episode /\ records[i].number = records[j].number
            => i = j

\* AVP-MCP-005: if no other thread opened the gateway since the Episode did or
\* recorded between its record and its event, the event names the Episode's own
\* call, the catalog its mcp.gateway.opened event named, and the schema in it.
ResultsAreBound ==
    \A e \in Episodes : \A r \in results[e] : r.alone =>
        /\ r.of = <<e, r.number>>
        /\ r.catalog = opened[e]
        /\ r.schema = opened[e][r.tool]

\* provision and run_subject come to an end whatever server and Subject do, unless
\* the response to a request goes on trickling (urlopen's timeout).
HostCallsEnd ==
    \A e \in Episodes :
        pc[e] \notin {"new", "ready", "over"} ~>
            pc[e] \in {"ready", "over"} \/ e \in trickling

=============================================================================
