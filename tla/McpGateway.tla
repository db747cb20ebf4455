------------------------------ MODULE McpGateway ------------------------------
(***************************************************************************)
(* MCPVerificationGateway (mcp/gateway.py), the transport under it         *)
(* (mcp/transport.py) and the MCP server behind them.  One gateway serves  *)
(* the Episodes it was given to, each on a host thread of its own, so that *)
(* two reads of the baseline catalog by one thread need not agree.  The    *)
(* server pages its tools and may change them between any two requests.   *)
(*                                                                         *)
(* A digest is the thing it is the digest of.  Descriptors, headers, cache *)
(* metadata and the server's identity are left out: what is wrong with an  *)
(* answer in itself shows only as a request that fails.                    *)
(***************************************************************************)
EXTENDS Naturals, Sequences, FiniteSets

CONSTANTS Episodes, Tools, Schemas,
          Allowed,          \* the policy's allowed_tools
          Contracts,        \* what the server may come to list: sequences of pages
          MaxPages, MaxTools,
          None

\* A page lists tools with their schemas, and the page its cursor leads to, or 0.
Page == [tools : Seq(Tools \X Schemas), next : Nat]

ASSUME GatewayAssumption ==
    /\ Allowed \subseteq Tools
    /\ None \notin Tools \union Schemas
    /\ MaxPages \in Nat \ {0} /\ MaxTools \in Nat \ {0}
    /\ Contracts # {}
    /\ \A c \in Contracts : c # <<>> /\ c \in Seq(Page)

VARIABLES
    contract,       \* the server: its pages now
    executed,       \* the server: the calls it has executed
    catalog,        \* the gateway's baseline, None before the first open
    records,        \* the gateway's call records
    pc,             \* where each Episode's thread is
    listing,        \* _list_tools: the tools read so far, the cursor, those seen
    call,           \* call_tool: tool, number, baseline schema and reply
    sent,           \* the calls a tools/call request was sent for
    opened,         \* the catalog each Episode's mcp.gateway.opened event names
    live,           \* history: the called tool's schemas in force since the call began
    alone           \* history: no other thread came between an Episode and its gateway

serverVars == <<contract, executed>>
gatewayVars == <<catalog, records>>
callVars == <<listing, call, sent, live>>
mcpVars == <<serverVars, gatewayVars, pc, callVars, opened, alone>>

Outcomes == {"success", "tool_error", "upstream_error"}
Replies == {"complete", "tool_error", "input_required", "nonconforming"}
NoCall == [tool |-> None, number |-> 0, schema |-> None, reply |-> None]
NoListing == [tools |-> <<>>, cursor |-> 1, seen |-> {}]

Pairs(tools) == {tools[i] : i \in DOMAIN tools}
Names(tools) == {p[1] : p \in Pairs(tools)}
Catalogs == UNION {[names -> Schemas] : names \in SUBSET Tools}

\* MCPToolCatalog; a name that is listed twice makes it raise a ValueError.
Unambiguous(tools) == Cardinality(Names(tools)) = Len(tools)
CatalogOf(tools) ==
    [t \in Names(tools) |-> CHOOSE s \in Schemas : <<t, s>> \in Pairs(tools)]

\* The schemas the server has for a tool now, and None if it has none.
InForce(c, t) ==
    LET all == UNION {Pairs(c[i].tools) : i \in DOMAIN c}
    IN  IF \E p \in all : p[1] = t THEN {p[2] : p \in {q \in all : q[1] = t}} ELSE {None}

GatewayInit ==
    /\ contract \in Contracts
    /\ executed = {}
    /\ catalog = None
    /\ records = <<>>
    /\ pc = [e \in Episodes |-> "new"]
    /\ listing = [e \in Episodes |-> NoListing]
    /\ call = [e \in Episodes |-> NoCall]
    /\ sent = {}
    /\ opened = [e \in Episodes |-> None]
    /\ live = [e \in Episodes |-> {}]
    /\ alone = [e \in Episodes |-> FALSE]

Goto(e, to) == pc' = [pc EXCEPT ![e] = to]
Opening(e) == call[e].tool = None

-----------------------------------------------------------------------------
\* open: server/discover, whose answer is judged at once.
OpenGateway(e) ==
    /\ Goto(e, "discovering")
    /\ UNCHANGED <<serverVars, gatewayVars, callVars, opened, alone>>

Discovered(e) ==
    /\ pc[e] = "discovering"
    /\ Goto(e, "listing")
    /\ listing' = [listing EXCEPT ![e] = NoListing]
    /\ UNCHANGED <<serverVars, gatewayVars, call, sent, opened, live, alone>>

\* Mutant: only discovery and listing are sent with a timeout.
RequestFailsWithoutTimeout(e) ==
    /\ pc[e] \in {"discovering", "listing"}
    /\ \E how \in {"refused", "raised"} : Goto(e, how)
    /\ UNCHANGED <<serverVars, gatewayVars, callVars, opened, alone>>

\* A request is lost, times out, or is answered with what transport or gateway
\* reject as MCPTransportError, MCPProtocolError or (while listing) MCPUpstreamError.
\* A connection closed before the answer raises past urlopen's URLError, untranslated.
RequestFails(e) ==
    /\ pc[e] \in {"discovering", "listing", "awaiting"}
    /\ \E how \in {"refused", "raised"} : Goto(e, how)
    /\ UNCHANGED <<serverVars, gatewayVars, callVars, opened, alone>>

\* One page of _list_tools: read at the server, then judged in the code's order.
ReadPage(e) ==
    /\ pc[e] = "listing" /\ listing[e].cursor \in DOMAIN contract
    /\ LET l == listing[e]
           page == contract[l.cursor]
           tools == l.tools \o page.tools
           last == page.next = 0
       IN  /\ listing' = [listing EXCEPT ![e] =
                  [tools |-> tools, cursor |-> page.next, seen |-> l.seen \union {page.next}]]
           /\ Goto(e, CASE Len(tools) > MaxTools -> "refused"
                        [] Len(tools) <= MaxTools /\ last /\ Unambiguous(tools) -> "listed"
                        [] Len(tools) <= MaxTools /\ last /\ ~Unambiguous(tools) -> "raised"
                        [] OTHER -> IF page.next \in l.seen \/ Cardinality(l.seen) + 1 = MaxPages
                                      THEN "refused" ELSE "listing")
    /\ UNCHANGED <<serverVars, gatewayVars, call, sent, opened, live, alone>>

\* The rest of open: every allowed tool is listed, and the baseline is replaced.
Install(e) ==
    /\ pc[e] = "listed" /\ Opening(e)
    /\ IF Allowed \subseteq Names(listing[e].tools)
         THEN /\ catalog' = CatalogOf(listing[e].tools)
              /\ alone' = [x \in Episodes |-> x = e]
              /\ Goto(e, "installed")
         ELSE Goto(e, "refused") /\ UNCHANGED <<catalog, alone>>
    /\ listing' = [listing EXCEPT ![e] = NoListing]
    /\ UNCHANGED <<serverVars, records, call, sent, opened, live>>

\* describe, which reads the baseline again.
Describe(e) ==
    /\ pc[e] = "installed"
    /\ opened' = [opened EXCEPT ![e] = catalog]
    /\ Goto(e, "described")
    /\ UNCHANGED <<serverVars, gatewayVars, callVars, alone>>

-----------------------------------------------------------------------------
\* call_tool of an allowed tool: its baseline is read, and the catalog listed again.
CallTool(e, t, n) ==
    /\ t \in Allowed /\ catalog # None /\ t \in DOMAIN catalog
    /\ call' = [call EXCEPT ![e] =
           [tool |-> t, number |-> n, schema |-> catalog[t], reply |-> None]]
    /\ live' = [live EXCEPT ![e] = InForce(contract, t)]
    /\ listing' = [listing EXCEPT ![e] = NoListing]
    /\ Goto(e, "listing")
    /\ UNCHANGED <<serverVars, gatewayVars, sent, opened, alone>>

\* Mutant: only the names of the tools are compared.
SameNames(e) ==
    LET tools == listing[e].tools
    IN  call[e].tool \in Names(tools) /\ Names(tools) = DOMAIN catalog

\* The tool is as in the baseline read before, the catalog as in the baseline of now.
Undrifted(e) ==
    LET tools == listing[e].tools
    IN  /\ call[e].tool \in Names(tools)
        /\ CatalogOf(tools)[call[e].tool] = call[e].schema
        /\ CatalogOf(tools) = catalog

Compare(e) ==
    /\ pc[e] = "listed" /\ ~Opening(e)
    /\ Goto(e, IF Undrifted(e) THEN "checked" ELSE "refused")
    /\ listing' = [listing EXCEPT ![e] = NoListing]
    /\ UNCHANGED <<serverVars, gatewayVars, call, sent, opened, live, alone>>

\* The arguments do not fit the baseline schema, or a header cannot be made of them.
RefuseArguments(e) ==
    /\ pc[e] = "checked"
    /\ Goto(e, "refused")
    /\ UNCHANGED <<serverVars, gatewayVars, callVars, opened, alone>>

Send(e) ==
    /\ pc[e] = "checked"
    /\ sent' = sent \union {<<e, call[e].number>>}
    /\ Goto(e, "awaiting")
    /\ UNCHANGED <<serverVars, gatewayVars, listing, call, opened, live, alone>>

\* The server's result; one that asks for input comes instead of an execution.
Answer(e, r) ==
    /\ pc[e] = "awaiting"
    /\ r # "input_required" => <<e, call[e].number>> \in executed
    /\ call' = [call EXCEPT ![e].reply = r]
    /\ Goto(e, "answered")
    /\ UNCHANGED <<serverVars, gatewayVars, listing, sent, opened, live, alone>>

RecordOf(e, outcome) ==
    [episode |-> e, number |-> call[e].number, tool |-> call[e].tool,
     schema |-> call[e].schema, catalog |-> catalog, outcome |-> outcome]

\* A record of this thread comes between another's record and its look at the last one.
AppendRecord(e, outcome) ==
    /\ records' = Append(records, RecordOf(e, outcome))
    /\ alone' = [x \in Episodes |-> alone[x] /\ (x # e => pc[x] # "recorded")]

\* A JSON-RPC error; the server may have executed the call or not.
UpstreamError(e) ==
    /\ pc[e] = "awaiting"
    /\ AppendRecord(e, "upstream_error")
    /\ Goto(e, "refused")
    /\ UNCHANGED <<serverVars, catalog, callVars, opened>>

\* Mutant: only isError is looked at.
OutcomeByFlag(reply) == IF reply = "tool_error" THEN "tool_error" ELSE "success"

\* _normalize_call_result and the output schema, which only a success must satisfy.
OutcomeOf(reply) ==
    CASE reply = "complete" -> "success"
      [] reply = "tool_error" -> "tool_error"
      [] OTHER -> None

Accept(e) ==
    /\ pc[e] = "answered"
    /\ LET outcome == OutcomeOf(call[e].reply)
       IN  IF outcome = None
             THEN Goto(e, "refused") /\ UNCHANGED <<records, alone>>
             ELSE AppendRecord(e, outcome) /\ Goto(e, "recorded")
    /\ UNCHANGED <<serverVars, catalog, callVars, opened>>

-----------------------------------------------------------------------------
\* The server executes a call it was sent, perhaps long after the gateway gave it up.
Execute(r) ==
    /\ r \in sent \ executed
    /\ executed' = executed \union {r}
    /\ UNCHANGED <<contract, gatewayVars, pc, callVars, opened, alone>>

\* The server's tools change.
Drift(c) ==
    /\ c # contract
    /\ contract' = c
    /\ live' = [e \in Episodes |->
           IF Opening(e) THEN {} ELSE live[e] \union InForce(c, call[e].tool)]
    /\ UNCHANGED <<executed, gatewayVars, pc, listing, call, sent, opened, alone>>

\* What the gateway's own thread does in it, whatever the server does.
GatewayStep(e) ==
    \/ Discovered(e) \/ ReadPage(e) \/ RequestFails(e) \/ Install(e) \/ Describe(e)
    \/ Compare(e) \/ RefuseArguments(e) \/ Send(e) \/ UpstreamError(e) \/ Accept(e)
    \/ \E r \in Replies : Answer(e, r)

=============================================================================
