------------------------- MODULE SubjectSession_proofs -------------------------
(***************************************************************************)
(* Proofs about the gateway and the Subjects that use it: for any number   *)
(* of Episodes and steps, every policy, and a server that may come to list *)
(* any sequence of pages whatever.                                         *)
(***************************************************************************)
EXTENDS SubjectSession, TLAPS

\* Where a thread is in call_tool, between the reading of the baseline and its end.
Unrecorded == {"listing", "listed", "checked", "awaiting", "answered"}

\* Where it is in one of the operations of the gateway, its phases and its step.
Phases ==
    \A e \in Episodes :
        /\ pc[e] = "new" => state[e] = "CREATED" /\ Opening(e)
        /\ pc[e] \in {"discovering", "installed", "described"} =>
              state[e] = "PROVISIONING" /\ Opening(e)
        /\ pc[e] \in {"listing", "listed", "refused", "raised"} =>
              IF Opening(e) THEN state[e] = "PROVISIONING" ELSE state[e] = "RUNNING"
        /\ pc[e] \in {"ready", "invoking", "asked", "over"} => Opening(e)
        /\ pc[e] \in {"checked", "awaiting", "answered", "recorded"} =>
              state[e] = "RUNNING" /\ ~Opening(e)
        /\ pc[e] \in {"invoking", "asked"} => state[e] = "RUNNING"
        /\ pc[e] = "ready" => state[e] = "READY"
        /\ ~Opening(e) =>
              /\ call[e].tool \in Allowed /\ call[e].schema \in Schemas
              /\ call[e].number = step[e] /\ catalog \in Catalogs

\* What has been read of the tool belongs to what has been in force since.
ReadWhileLive ==
    \A e \in Episodes : ~Opening(e) =>
        /\ InForce(contract, call[e].tool) \subseteq live[e]
        /\ pc[e] \in {"listing", "listed"} =>
              \A p \in Pairs(listing[e].tools) : p[1] = call[e].tool => p[2] \in live[e]
        /\ pc[e] \in {"checked", "awaiting"} => call[e].schema \in live[e]

\* An Episode's records are of earlier calls until its call is recorded.
RecordedOnce ==
    /\ \A e \in Episodes, i \in DOMAIN records : records[i].episode = e =>
        /\ state[e] \notin {"CREATED", "PROVISIONING"}
        /\ records[i].number <= step[e]
        /\ pc[e] = "asked" \/ (~Opening(e) /\ pc[e] \in Unrecorded) =>
              records[i].number < step[e]
    /\ \A e \in Episodes :
        /\ pc[e] \in {"awaiting", "answered"} => <<e, step[e]>> \in sent
        /\ pc[e] = "answered" /\ call[e].reply # "input_required" =>
              <<e, step[e]>> \in executed

\* While no other thread comes between, the Episode meets its own baseline.
OwnBaseline ==
    \A e \in Episodes :
        /\ state[e] \in {"CREATED", "PROVISIONING"} => results[e] = {}
        /\ alone[e] /\ pc[e] # "installed" => opened[e] = catalog
        /\ alone[e] /\ ~Opening(e) => call[e].schema = opened[e][call[e].tool]
        /\ alone[e] /\ pc[e] = "recorded" =>
              /\ records # <<>>
              /\ LET r == records[Len(records)] IN
                  /\ r.episode = e /\ r.number = call[e].number
                  /\ r.schema = call[e].schema /\ r.catalog = opened[e]

Inv == TypeOK /\ Phases /\ ReadWhileLive /\ RecordsAreExecuted /\ RecordedOnce
       /\ OwnBaseline /\ ResultsAreBound

-----------------------------------------------------------------------------
\* Catalogs are what CatalogOf makes of typed tools: the pairs that were listed.
LEMMA CatalogsAreMade ==
    ASSUME NEW tools \in Seq(Tools \X Schemas)
    PROVE  /\ Pairs(tools) \subseteq Tools \X Schemas
           /\ Names(tools) \subseteq Tools
           /\ CatalogOf(tools) \in Catalogs
           /\ \A t \in Names(tools) : <<t, CatalogOf(tools)[t]>> \in Pairs(tools)
<1>1. Pairs(tools) \subseteq Tools \X Schemas
  BY DEF Pairs
<1>2. Names(tools) \subseteq Tools
  BY <1>1 DEF Names
<1>3. ASSUME NEW t \in Names(tools)
      PROVE  \E s \in Schemas : <<t, s>> \in Pairs(tools)
  <2>1. PICK p \in Pairs(tools) : p[1] = t
    BY DEF Names
  <2>2. p = <<t, p[2]>> /\ p[2] \in Schemas
    BY <1>1, <2>1
  <2> QED
    BY <2>1, <2>2
<1>4. ASSUME NEW t \in Names(tools)
      PROVE  CatalogOf(tools)[t] \in Schemas /\ <<t, CatalogOf(tools)[t]>> \in Pairs(tools)
  BY <1>3 DEF CatalogOf
<1>5. CatalogOf(tools) \in [Names(tools) -> Schemas]
  BY <1>4 DEF CatalogOf
<1> QED
  BY <1>1, <1>2, <1>4, <1>5 DEF Catalogs

LEMMA CatalogIsFunction ==
    ASSUME NEW c \in Catalogs
    PROVE  DOMAIN c \subseteq Tools /\ \A t \in DOMAIN c : c[t] \in Schemas
BY DEF Catalogs

\* A page that is read adds its pairs to those read before.
LEMMA PairsOfBoth ==
    ASSUME NEW a \in Seq(Tools \X Schemas), NEW b \in Seq(Tools \X Schemas)
    PROVE  /\ a \o b \in Seq(Tools \X Schemas)
           /\ Pairs(a \o b) = Pairs(a) \union Pairs(b)
<1>1. ASSUME NEW i \in DOMAIN (a \o b)
      PROVE  (a \o b)[i] \in Pairs(a) \union Pairs(b)
  <2>1. CASE i <= Len(a)
    BY <2>1 DEF Pairs
  <2>2. CASE i > Len(a)
    <3>1. i - Len(a) \in DOMAIN b /\ (a \o b)[i] = b[i - Len(a)]
      BY <2>2
    <3> QED
      BY <3>1 DEF Pairs
  <2> QED
    BY <2>1, <2>2
<1>2. ASSUME NEW i \in DOMAIN a
      PROVE  i \in DOMAIN (a \o b) /\ (a \o b)[i] = a[i]
  OBVIOUS
<1>3. ASSUME NEW i \in DOMAIN b
      PROVE  Len(a) + i \in DOMAIN (a \o b) /\ (a \o b)[Len(a) + i] = b[i]
  OBVIOUS
<1>4. Pairs(a \o b) \subseteq Pairs(a) \union Pairs(b)
  BY <1>1 DEF Pairs
<1>5. Pairs(a) \subseteq Pairs(a \o b)
  BY <1>2 DEF Pairs
<1>6. Pairs(b) \subseteq Pairs(a \o b)
  BY <1>3 DEF Pairs
<1> QED
  BY <1>4, <1>5, <1>6

LEMMA PagesAreTyped ==
    ASSUME NEW c \in Contracts, NEW i \in DOMAIN c
    PROVE  c[i].tools \in Seq(Tools \X Schemas) /\ c[i].next \in Nat
<1>1. c \in Seq(Page)
  BY GatewayAssumption
<1>2. c[i] \in Page
  BY <1>1
<1> QED
  BY <1>2 DEF Page

\* What is in force are schemas, or None; what a page lists of a tool is in force.
LEMMA InForceTyped ==
    ASSUME NEW c \in Contracts, NEW t
    PROVE  InForce(c, t) \subseteq Schemas \union {None}
<1>1. UNION {Pairs(c[i].tools) : i \in DOMAIN c} \subseteq Tools \X Schemas
  BY PagesAreTyped, CatalogsAreMade
<1> QED
  BY <1>1 DEF InForce

LEMMA ListedIsInForce ==
    ASSUME NEW c \in Contracts, NEW i \in DOMAIN c, NEW p \in Pairs(c[i].tools)
    PROVE  p[2] \in InForce(c, p[1])
<1> DEFINE all == UNION {Pairs(c[j].tools) : j \in DOMAIN c}
<1>1. p \in all
  OBVIOUS
<1>2. p \in {q \in all : q[1] = p[1]}
  BY <1>1
<1> HIDE DEF all
<1>3. InForce(c, p[1]) = {q[2] : q \in {r \in all : r[1] = p[1]}}
  BY <1>1 DEF InForce, all
<1> QED
  BY <1>2, <1>3

-----------------------------------------------------------------------------
LEMMA Conventions ==
    /\ Allowed \subseteq Tools
    /\ None \notin Tools /\ None \notin Schemas
    /\ MaxPages \in Nat /\ MaxTools \in Nat
    /\ NoCall \in Calls /\ NoListing \in Listings
    /\ \A e \in Episodes : MaxSteps[e] \in Nat
BY GatewayAssumption, SessionAssumption DEF NoCall, NoListing, Calls, Listings

\* What a record is made of.
LEMMA RecordsAreTyped ==
    ASSUME TypeOK, NEW e \in Episodes, NEW outcome \in Outcomes,
           call[e].tool \in Tools, call[e].schema \in Schemas, catalog \in Catalogs
    PROVE  RecordOf(e, outcome) \in Records
BY DEF TypeOK, RecordOf, Records, Calls

\* A move of one thread keeps the types of what it writes of its own.
LEMMA TypeInit == Init => TypeOK
<1> SUFFICES ASSUME Init PROVE TypeOK
  OBVIOUS
<1> QED
  BY Conventions DEF Init, GatewayInit, TypeOK, Positions, NoListing, NoCall

LEMMA HostKeepsTypes ==
    ASSUME TypeOK, Phases, NEW e \in Episodes, Host(e), trickling' \subseteq Episodes
    PROVE  TypeOK'
<1> USE Conventions DEF TypeOK, Positions, Goto, Ends, Outside, serverVars, gatewayVars, callVars
<1>1. CASE Provision(e)
  BY <1>1 DEF Provision, OpenGateway
<1>2. CASE Provisioned(e)
  BY <1>2 DEF Provisioned, Ends, Outside
<1>3. CASE ProvisionFails(e)
  BY <1>3 DEF ProvisionFails, Ends, NoListing
<1>4. CASE RunSubject(e)
  BY <1>4 DEF RunSubject, Outside
<1>5. CASE AskSubject(e)
  <2>1. CASE UNCHANGED step
    BY <1>5, <2>1 DEF AskSubject
  <2>2. CASE step[e] < MaxSteps[e] /\ step' = [step EXCEPT ![e] = @ + 1]
    <3>1. step' \in [Episodes -> Nat] /\ \A x \in Episodes : step'[x] <= MaxSteps[x]
      BY <2>2
    <3> QED
      BY <1>5, <3>1 DEF AskSubject
  <2> QED
    BY <1>5, <2>1, <2>2 DEF AskSubject
<1>6. CASE SubjectCompletes(e)
  BY <1>6 DEF SubjectCompletes, Ends, Outside
<1>7. CASE SubjectFails(e)
  BY <1>7 DEF SubjectFails, Ends, Outside
<1>8. CASE SubjectCallsTool(e)
  <2>1. PICK t \in Allowed : CallTool(e, t, step[e])
    BY <1>8 DEF SubjectCallsTool
  <2>2. t \in Tools /\ catalog[t] \in Schemas
    BY <2>1, CatalogIsFunction DEF CallTool
  <2>3. call' \in [Episodes -> Calls]
    BY <2>1, <2>2 DEF CallTool, Calls
  <2>4. live' \in [Episodes -> SUBSET (Schemas \union {None})]
    BY <2>1, InForceTyped DEF CallTool
  <2>5. /\ listing' \in [Episodes -> Listings]
        /\ pc' \in [Episodes -> Positions]
        /\ \A x \in Episodes :
              pc'[x] \in {"listing", "listed"} => Len(listing'[x].tools) <= MaxTools
    BY <2>1 DEF CallTool, NoListing
  <2> QED
    BY <1>8, <2>1, <2>3, <2>4, <2>5 DEF SubjectCallsTool, CallTool
<1>9. CASE SubjectCallsEnvironment(e)
  BY <1>9 DEF SubjectCallsEnvironment, Ends, Outside
<1>10. CASE ReportResult(e)
  BY <1>10 DEF ReportResult, NoCall
<1>11. CASE CallEscapes(e)
  BY <1>11 DEF CallEscapes, Ends, NoCall, NoListing
<1> QED
  BY <1>1, <1>2, <1>3, <1>4, <1>5, <1>6, <1>7, <1>8, <1>9, <1>10, <1>11 DEF Host

LEMMA GatewayKeepsTypes ==
    ASSUME TypeOK, Phases, NEW e \in Episodes, InGateway(e), trickling' \subseteq Episodes
    PROVE  TypeOK'
<1> USE Conventions DEF TypeOK, Positions, Goto, serverVars, gatewayVars, callVars, InGateway
<1>1. CASE Discovered(e)
  BY <1>1 DEF Discovered, NoListing
<1>2. CASE ReadPage(e)
  <2> DEFINE page == contract[listing[e].cursor]
             tools == listing[e].tools \o page.tools
             read == [tools |-> tools, cursor |-> page.next,
                      seen |-> listing[e].seen \union {page.next}]
  <2>1. page.tools \in Seq(Tools \X Schemas) /\ page.next \in Nat
    BY <1>2, PagesAreTyped DEF ReadPage
  <2>2. tools \in Seq(Tools \X Schemas) /\ read \in Listings
    BY <2>1, PairsOfBoth DEF Listings
  <2> HIDE DEF page
  <2>3. PICK to \in Positions :
          /\ pc' = [pc EXCEPT ![e] = to]
          /\ to \in {"listing", "listed"} => Len(tools) <= MaxTools
    <3> DEFINE last == page.next = 0
               rejected == page.next \in listing[e].seen
                             \/ Cardinality(listing[e].seen) + 1 = MaxPages
               verdict == CASE Len(tools) > MaxTools -> "refused"
                            [] Len(tools) <= MaxTools /\ last /\ Unambiguous(tools) -> "listed"
                            [] Len(tools) <= MaxTools /\ last /\ ~Unambiguous(tools) -> "raised"
                            [] OTHER -> IF rejected THEN "refused" ELSE "listing"
    <3>1. pc' = [pc EXCEPT ![e] = verdict]
      BY <1>2 DEF ReadPage, page
    <3> HIDE DEF tools, last, rejected
    <3>2. Len(tools) \in Nat
      BY <2>2
    <3>3. CASE Len(tools) > MaxTools
      <4>1. verdict = "refused"
        BY <3>2, <3>3
      <4> HIDE DEF verdict
      <4> QED
        BY <3>1, <4>1
    <3>4. CASE Len(tools) <= MaxTools
      <4>1. verdict \in {"listed", "raised", "refused", "listing"}
        BY <3>2, <3>4
      <4> HIDE DEF verdict
      <4> QED
        BY <3>1, <3>4, <4>1
    <3> QED
      BY <3>2, <3>3, <3>4
  <2> HIDE DEF tools
  <2>4. listing' = [listing EXCEPT ![e] = read]
    BY <1>2 DEF ReadPage, tools, page
  <2>5. listing' \in [Episodes -> Listings] /\ pc' \in [Episodes -> Positions]
    BY <2>2, <2>3, <2>4
  <2>6. \A x \in Episodes :
          pc'[x] \in {"listing", "listed"} => Len(listing'[x].tools) <= MaxTools
    BY <2>3, <2>4
  <2> QED
    BY <1>2, <2>5, <2>6 DEF ReadPage
<1>3. CASE RequestFails(e)
  BY <1>3 DEF RequestFails
<1>4. CASE Install(e)
  <2>1. CatalogOf(listing[e].tools) \in Catalogs
    BY CatalogsAreMade DEF Listings
  <2>a. /\ catalog' \in Catalogs \union {None}
        /\ alone' = [x \in Episodes |-> x = e] \/ alone' = alone
    BY <1>4, <2>1 DEF Install
  <2>b. [x \in Episodes |-> x = e] \in [Episodes -> BOOLEAN]
    OBVIOUS
  <2>2. catalog' \in Catalogs \union {None} /\ alone' \in [Episodes -> BOOLEAN]
    BY <2>a, <2>b
  <2>3. \E to \in {"installed", "refused"} : Goto(e, to)
    BY <1>4 DEF Install
  <2>4. listing' \in [Episodes -> Listings]
    BY <1>4 DEF Install
  <2> QED
    BY <1>4, <2>2, <2>3, <2>4 DEF Install
<1>5. CASE Describe(e)
  BY <1>5 DEF Describe
<1>6. CASE Compare(e)
  BY <1>6 DEF Compare
<1>7. CASE RefuseArguments(e)
  BY <1>7 DEF RefuseArguments
<1>8. CASE Send(e)
  <2>1. sent' \subseteq Episodes \X Nat
    BY <1>8 DEF Send, Calls
  <2> QED
    BY <1>8, <2>1 DEF Send
<1>9. CASE UpstreamError(e)
  <2>1. call[e].tool \in Tools /\ call[e].schema \in Schemas /\ catalog \in Catalogs
    BY <1>9 DEF UpstreamError, Phases
  <2>2. records' \in Seq(Records)
    BY <1>9, <2>1, RecordsAreTyped DEF UpstreamError, AppendRecord, Outcomes
  <2> QED
    BY <1>9, <2>2 DEF UpstreamError, AppendRecord
<1>10. CASE Accept(e)
  <2>1. call[e].tool \in Tools /\ call[e].schema \in Schemas /\ catalog \in Catalogs
    BY <1>10 DEF Accept, Phases
  <2>2. CASE OutcomeOf(call[e].reply) = None
    BY <1>10, <2>2 DEF Accept
  <2>3. CASE OutcomeOf(call[e].reply) # None
    <3>1. OutcomeOf(call[e].reply) \in Outcomes
      BY <2>3 DEF OutcomeOf, Outcomes
    <3>2. RecordOf(e, OutcomeOf(call[e].reply)) \in Records
      BY <2>1, <3>1, RecordsAreTyped
    <3>3. AppendRecord(e, OutcomeOf(call[e].reply)) /\ Goto(e, "recorded")
      BY <1>10, <2>3 DEF Accept
    <3>4. records' \in Seq(Records) /\ alone' \in [Episodes -> BOOLEAN]
      BY <3>2, <3>3 DEF AppendRecord
    <3> QED
      BY <1>10, <3>3, <3>4 DEF Accept
  <2> QED
    BY <2>2, <2>3
<1>11. ASSUME NEW r \in Replies, Answer(e, r)
      PROVE  TypeOK'
  BY <1>11 DEF Answer, Calls
<1> QED
  BY <1>1, <1>2, <1>3, <1>4, <1>5, <1>6, <1>7, <1>8, <1>9, <1>10, <1>11 DEF GatewayStep

LEMMA ServerKeepsTypes ==
    ASSUME TypeOK, Server, trickling' \subseteq Episodes
    PROVE  TypeOK'
<1> USE DEF TypeOK, gatewayVars, callVars
<1>1. ASSUME NEW r \in sent, Execute(r)
      PROVE  TypeOK'
  BY <1>1 DEF Execute, Server
<1>2. ASSUME NEW c \in Contracts, Drift(c)
      PROVE  TypeOK'
  BY <1>2, InForceTyped DEF Drift, Server
<1> QED
  BY <1>1, <1>2 DEF Server

-----------------------------------------------------------------------------

\* A thread is where its Episode's state and its call say it is.
LEMMA HostKeepsPhases ==
    ASSUME TypeOK, Phases, NEW e \in Episodes, Host(e)
    PROVE  Phases'
<1> USE Conventions DEF TypeOK, Calls, Phases, Opening, Goto, Ends, Outside, serverVars, gatewayVars, callVars
<1>1. CASE Provision(e)
  BY <1>1 DEF Provision, OpenGateway
<1>2. CASE Provisioned(e)
  BY <1>2 DEF Provisioned
<1>3. CASE ProvisionFails(e)
  BY <1>3 DEF ProvisionFails
<1>4. CASE RunSubject(e)
  BY <1>4 DEF RunSubject
<1>5. CASE AskSubject(e)
  BY <1>5 DEF AskSubject
<1>6. CASE SubjectCompletes(e)
  BY <1>6 DEF SubjectCompletes
<1>7. CASE SubjectFails(e)
  BY <1>7 DEF SubjectFails
<1>8. CASE SubjectCallsTool(e)
  <2>1. PICK t \in Allowed : CallTool(e, t, step[e])
    BY <1>8 DEF SubjectCallsTool
  <2>2. t # None /\ catalog \in Catalogs /\ catalog[t] \in Schemas
    BY <2>1, CatalogIsFunction DEF CallTool
  <2> QED
    BY <1>8, <2>1, <2>2 DEF SubjectCallsTool, CallTool
<1>9. CASE SubjectCallsEnvironment(e)
  BY <1>9 DEF SubjectCallsEnvironment
<1>10. CASE ReportResult(e)
  BY <1>10 DEF ReportResult, NoCall
<1>11. CASE CallEscapes(e)
  BY <1>11 DEF CallEscapes, NoCall
<1> QED
  BY <1>1, <1>2, <1>3, <1>4, <1>5, <1>6, <1>7, <1>8, <1>9, <1>10, <1>11 DEF Host

\* A page leads to the next one, to the end of the listing, or out of it.
LEMMA ReadPageGoesOn ==
    ASSUME NEW e \in Episodes, ReadPage(e)
    PROVE  \E to \in {"listing", "listed", "refused", "raised"} :
             pc' = [pc EXCEPT ![e] = to]
<1> DEFINE l == listing[e]
           page == contract[l.cursor]
           tools == l.tools \o page.tools
           last == page.next = 0
           rejected == page.next \in l.seen \/ Cardinality(l.seen) + 1 = MaxPages
           few == Len(tools) <= MaxTools
           verdict == CASE Len(tools) > MaxTools -> "refused"
                        [] few /\ last /\ Unambiguous(tools) -> "listed"
                        [] few /\ last /\ ~Unambiguous(tools) -> "raised"
                        [] OTHER -> IF rejected THEN "refused" ELSE "listing"
<1>1. pc' = [pc EXCEPT ![e] = verdict]
  BY DEF ReadPage, Goto
<1> HIDE DEF tools, last, rejected, few
<1>2. verdict \in {"listing", "listed", "refused", "raised"}
  OBVIOUS
<1> HIDE DEF verdict
<1> QED
  BY <1>1, <1>2

LEMMA GatewayKeepsPhases ==
    ASSUME TypeOK, Phases, NEW e \in Episodes, InGateway(e)
    PROVE  Phases'
<1> USE Conventions DEF TypeOK, Calls, Phases, Opening, Goto, Ends, Outside, serverVars, gatewayVars, callVars, InGateway
<1>1. CASE Discovered(e)
  BY <1>1 DEF Discovered
<1>2. CASE ReadPage(e)
  <2>1. /\ UNCHANGED <<call, state, step, catalog>> /\ pc[e] = "listing"
        /\ pc'[e] \in {"listing", "listed", "refused", "raised"}
        /\ \A x \in Episodes \ {e} : pc'[x] = pc[x]
    BY <1>2, ReadPageGoesOn DEF ReadPage
  <2> QED
    BY <2>1
<1>3. CASE RequestFails(e)
  BY <1>3 DEF RequestFails
<1>4. CASE Install(e)
  <2>1. CatalogOf(listing[e].tools) \in Catalogs
    BY CatalogsAreMade DEF Listings
  <2> QED
    BY <1>4, <2>1 DEF Install
<1>5. CASE Describe(e)
  BY <1>5 DEF Describe
<1>6. CASE Compare(e)
  BY <1>6 DEF Compare
<1>7. CASE RefuseArguments(e)
  BY <1>7 DEF RefuseArguments
<1>8. CASE Send(e)
  BY <1>8 DEF Send
<1>9. CASE UpstreamError(e)
  BY <1>9 DEF UpstreamError, AppendRecord
<1>10. CASE Accept(e)
  BY <1>10 DEF Accept, AppendRecord
<1>11. ASSUME NEW r \in Replies, Answer(e, r)
      PROVE  Phases'
  BY <1>11 DEF Answer
<1> QED
  BY <1>1, <1>2, <1>3, <1>4, <1>5, <1>6, <1>7, <1>8, <1>9, <1>10, <1>11 DEF GatewayStep

LEMMA ServerKeepsPhases ==
    TypeOK /\ Phases /\ Server => Phases'
BY DEF TypeOK, Phases, Opening, Server, Execute, Drift, gatewayVars, callVars

-----------------------------------------------------------------------------

LEMMA AppendRecordAdds ==
    ASSUME TypeOK, NEW e \in Episodes, NEW outcome, AppendRecord(e, outcome)
    PROVE  /\ Len(records) \in Nat /\ Len(records') = Len(records) + 1
           /\ DOMAIN records = 1..Len(records) /\ DOMAIN records' = 1..Len(records')
           /\ \A i \in DOMAIN records : records'[i] = records[i]
           /\ records'[Len(records')] = RecordOf(e, outcome)
<1>1. records \in Seq(Records) /\ records' = Append(records, RecordOf(e, outcome))
  BY DEF TypeOK, AppendRecord
<1> QED
  BY <1>1

LEMMA RecordIsTyped ==
    ASSUME TypeOK, NEW i \in DOMAIN records
    PROVE  records[i].number \in Nat /\ records[i].episode \in Episodes
<1>1. records[i] \in Records
  BY DEF TypeOK
<1> QED
  BY <1>1 DEF Records

\* What is read of a tool while it is in force has been in force.
LEMMA HostReadsWhileLive ==
    ASSUME TypeOK, Phases, ReadWhileLive, NEW e \in Episodes, Host(e)
    PROVE  ReadWhileLive'
<1> USE Conventions DEF TypeOK, Calls, Opening, Goto, Ends, Outside, serverVars, gatewayVars, callVars, Phases, ReadWhileLive
<1>1. CASE Provision(e)
  BY <1>1 DEF Provision, OpenGateway
<1>2. CASE Provisioned(e)
  BY <1>2 DEF Provisioned
<1>3. CASE ProvisionFails(e)
  BY <1>3 DEF ProvisionFails
<1>4. CASE RunSubject(e)
  BY <1>4 DEF RunSubject
<1>5. CASE AskSubject(e)
  BY <1>5 DEF AskSubject
<1>6. CASE SubjectCompletes(e)
  BY <1>6 DEF SubjectCompletes
<1>7. CASE SubjectFails(e)
  BY <1>7 DEF SubjectFails
<1>8. CASE SubjectCallsTool(e)
  <2>1. PICK t \in Allowed : CallTool(e, t, step[e])
    BY <1>8 DEF SubjectCallsTool
  <2>2. Pairs(<<>>) = {}
    BY DEF Pairs
  <2> QED
    BY <2>1, <2>2 DEF CallTool, NoListing
<1>9. CASE SubjectCallsEnvironment(e)
  BY <1>9 DEF SubjectCallsEnvironment
<1>10. CASE ReportResult(e)
  BY <1>10 DEF ReportResult, NoCall
<1>11. CASE CallEscapes(e)
  BY <1>11 DEF CallEscapes, NoCall
<1> QED
  BY <1>1, <1>2, <1>3, <1>4, <1>5, <1>6, <1>7, <1>8, <1>9, <1>10, <1>11 DEF Host

LEMMA GatewayReadsWhileLive ==
    ASSUME TypeOK, Phases, ReadWhileLive, NEW e \in Episodes, InGateway(e)
    PROVE  ReadWhileLive'
<1> USE Conventions DEF TypeOK, Calls, Opening, Goto, Ends, Outside, serverVars, gatewayVars, callVars, Phases, ReadWhileLive, InGateway
<1>1. CASE Discovered(e)
  BY <1>1 DEF Discovered
<1>2. CASE ReadPage(e)
  <2> DEFINE page == contract[listing[e].cursor]
  <2>1. page.tools \in Seq(Tools \X Schemas) /\ listing[e].tools \in Seq(Tools \X Schemas)
    BY <1>2, PagesAreTyped DEF ReadPage, Listings
  <2>2. \A p \in Pairs(page.tools) : p[2] \in InForce(contract, p[1])
    BY <1>2, ListedIsInForce DEF ReadPage
  <2>3. Pairs(listing'[e].tools) = Pairs(listing[e].tools) \union Pairs(page.tools)
    <3>1. listing'[e].tools = listing[e].tools \o page.tools
      BY <1>2 DEF ReadPage
    <3> HIDE DEF page
    <3>2. Pairs(listing[e].tools \o page.tools)
            = Pairs(listing[e].tools) \union Pairs(page.tools)
      BY <2>1, PairsOfBoth
    <3> QED
      BY <3>1, <3>2
  <2>4. /\ UNCHANGED <<contract, call, live>> /\ pc[e] = "listing"
        /\ \A x \in Episodes \ {e} : listing'[x] = listing[x] /\ pc'[x] = pc[x]
        /\ pc'[e] \notin {"checked", "awaiting"}
    BY <1>2, ReadPageGoesOn DEF ReadPage
  <2> HIDE DEF page
  <2> SUFFICES ASSUME NEW x \in Episodes, ~Opening(x)
               PROVE  /\ InForce(contract, call[x].tool) \subseteq live[x]
                      /\ pc'[x] \in {"listing", "listed"} =>
                            \A p \in Pairs(listing'[x].tools) :
                               p[1] = call[x].tool => p[2] \in live[x]
                      /\ pc'[x] \in {"checked", "awaiting"} => call[x].schema \in live[x]
    BY <2>4
  <2>5. CASE x = e
    BY <2>2, <2>3, <2>4, <2>5
  <2>6. CASE x # e
    BY <2>4, <2>6
  <2> QED
    BY <2>5, <2>6
<1>3. CASE RequestFails(e)
  BY <1>3 DEF RequestFails
<1>4. CASE Install(e)
  BY <1>4 DEF Install
<1>5. CASE Describe(e)
  BY <1>5 DEF Describe
<1>6. CASE Compare(e)
  <2>1. listing[e].tools \in Seq(Tools \X Schemas)
    BY DEF Listings
  <2>2. Undrifted(e) => <<call[e].tool, call[e].schema>> \in Pairs(listing[e].tools)
    BY <2>1, CatalogsAreMade DEF Undrifted
  <2>3. Undrifted(e) => call[e].schema \in live[e]
    BY <1>6, <2>2 DEF Compare
  <2> QED
    BY <1>6, <2>3 DEF Compare
<1>7. CASE RefuseArguments(e)
  BY <1>7 DEF RefuseArguments
<1>8. CASE Send(e)
  BY <1>8 DEF Send
<1>9. CASE UpstreamError(e)
  BY <1>9 DEF UpstreamError, AppendRecord
<1>10. CASE Accept(e)
  BY <1>10 DEF Accept, AppendRecord
<1>11. ASSUME NEW r \in Replies, Answer(e, r)
      PROVE  ReadWhileLive'
  BY <1>11 DEF Answer
<1> QED
  BY <1>1, <1>2, <1>3, <1>4, <1>5, <1>6, <1>7, <1>8, <1>9, <1>10, <1>11 DEF GatewayStep

LEMMA ServerKeepsLive ==
    ASSUME TypeOK, ReadWhileLive, Server
    PROVE  ReadWhileLive'
<1> USE DEF TypeOK, ReadWhileLive, Opening, gatewayVars, callVars
<1>1. ASSUME NEW r \in sent, Execute(r)
      PROVE  ReadWhileLive'
  BY <1>1 DEF Execute, Server
<1>2. ASSUME NEW c \in Contracts, Drift(c)
      PROVE  ReadWhileLive'
  BY <1>2 DEF Drift, Server
<1> QED
  BY <1>1, <1>2 DEF Server

\* A thread records its call once, after the server's answer to it.
LEMMA HostRecordsOnce ==
    ASSUME TypeOK, Phases, RecordsAreExecuted, RecordedOnce, NEW e \in Episodes, Host(e)
    PROVE  RecordsAreExecuted' /\ RecordedOnce'
<1> USE Conventions DEF TypeOK, Calls, Opening, Goto, Ends, Outside, serverVars, gatewayVars, callVars, Phases, RecordsAreExecuted, RecordedOnce, Unrecorded
<1>1. CASE Provision(e)
  BY <1>1 DEF Provision, OpenGateway
<1>2. CASE Provisioned(e)
  BY <1>2 DEF Provisioned
<1>3. CASE ProvisionFails(e)
  BY <1>3 DEF ProvisionFails
<1>4. CASE RunSubject(e)
  BY <1>4 DEF RunSubject
<1>5. CASE AskSubject(e)
  <2>1. /\ UNCHANGED <<records, sent, executed, call>> /\ state[e] = "RUNNING"
        /\ \A x \in Episodes \ {e} : pc'[x] = pc[x] /\ state'[x] = state[x] /\ step'[x] = step[x]
        /\ \/ pc'[e] = "over" /\ step'[e] = step[e] /\ state'[e] = "INFRA_FAILED"
           \/ pc'[e] = "asked" /\ step'[e] = step[e] + 1 /\ state'[e] = "RUNNING"
    BY <1>5 DEF AskSubject
  <2>2. \A i \in DOMAIN records : records[i].number \in Nat
    BY RecordIsTyped
  <2>3. RecordsAreExecuted'
    BY <2>1
  <2>4. RecordedOnce'
    <3> SUFFICES ASSUME NEW x \in Episodes, NEW i \in DOMAIN records,
                        records[i].episode = x
                 PROVE  /\ state'[x] \notin {"CREATED", "PROVISIONING"}
                        /\ records[i].number <= step'[x]
                        /\ pc'[x] = "asked" \/ (~Opening(x) /\ pc'[x] \in Unrecorded) =>
                              records[i].number < step'[x]
      <4>1. ASSUME NEW x \in Episodes
            PROVE  /\ pc'[x] \in {"awaiting", "answered"} => <<x, step'[x]>> \in sent
                   /\ pc'[x] = "answered" /\ call[x].reply # "input_required" =>
                         <<x, step'[x]>> \in executed
        BY <2>1
      <4> QED
        BY <2>1, <4>1
    <3>1. records[i].number <= step[x] /\ records[i].number \in Nat /\ step[x] \in Nat
      BY <2>2
    <3>2. CASE x = e /\ pc'[e] = "over"
      BY <2>1, <3>1, <3>2
    <3>3. CASE x = e /\ pc'[e] = "asked"
      BY <2>1, <3>1, <3>3
    <3>4. CASE x # e
      BY <2>1, <3>4
    <3> QED
      BY <2>1, <3>2, <3>3, <3>4
  <2> QED
    BY <2>3, <2>4
<1>6. CASE SubjectCompletes(e)
  BY <1>6 DEF SubjectCompletes
<1>7. CASE SubjectFails(e)
  BY <1>7 DEF SubjectFails
<1>8. CASE SubjectCallsTool(e)
  BY <1>8 DEF SubjectCallsTool, CallTool
<1>9. CASE SubjectCallsEnvironment(e)
  BY <1>9 DEF SubjectCallsEnvironment
<1>10. CASE ReportResult(e)
  BY <1>10 DEF ReportResult, NoCall
<1>11. CASE CallEscapes(e)
  BY <1>11 DEF CallEscapes, NoCall
<1> QED
  BY <1>1, <1>2, <1>3, <1>4, <1>5, <1>6, <1>7, <1>8, <1>9, <1>10, <1>11 DEF Host

LEMMA GatewayRecordsOnce ==
    ASSUME TypeOK, Phases, RecordsAreExecuted, RecordedOnce, NEW e \in Episodes, InGateway(e)
    PROVE  RecordsAreExecuted' /\ RecordedOnce'
<1> USE Conventions DEF TypeOK, Calls, Opening, Goto, Ends, Outside, serverVars, gatewayVars, callVars, Phases, RecordsAreExecuted, RecordedOnce, Unrecorded, InGateway
<1>1. CASE Discovered(e)
  BY <1>1 DEF Discovered
<1>2. CASE ReadPage(e)
  <2>1. /\ UNCHANGED <<records, sent, executed, call, state, step>>
        /\ pc[e] = "listing" /\ pc'[e] \in {"listing", "listed", "refused", "raised"}
        /\ \A x \in Episodes \ {e} : pc'[x] = pc[x]
    BY <1>2, ReadPageGoesOn DEF ReadPage
  <2> QED
    BY <2>1
<1>3. CASE RequestFails(e)
  BY <1>3 DEF RequestFails
<1>4. CASE Install(e)
  BY <1>4 DEF Install
<1>5. CASE Describe(e)
  BY <1>5 DEF Describe
<1>6. CASE Compare(e)
  BY <1>6 DEF Compare
<1>7. CASE RefuseArguments(e)
  BY <1>7 DEF RefuseArguments
<1>8. CASE Send(e)
  BY <1>8 DEF Send
<1>9. CASE UpstreamError(e)
  <2>1. /\ UNCHANGED <<executed, sent, call, state, step>>
        /\ pc[e] \in {"awaiting", "answered"} /\ pc' = [pc EXCEPT ![e] = "refused"]
    BY <1>9 DEF UpstreamError
  <2>2. PICK outcome \in Outcomes :
          /\ AppendRecord(e, outcome)
          /\ outcome # "upstream_error" => <<e, step[e]>> \in executed
    BY <1>9 DEF UpstreamError, Outcomes
  <2> DEFINE n == Len(records)
  <2>3. /\ n \in Nat /\ Len(records') = n + 1
        /\ DOMAIN records = 1..n /\ DOMAIN records' = 1..(n + 1)
        /\ \A i \in 1..n : records'[i] = records[i]
        /\ records'[n + 1] = RecordOf(e, outcome)
    BY <2>2, AppendRecordAdds
  <2>4. /\ records'[n + 1].episode = e /\ records'[n + 1].number = step[e]
        /\ records'[n + 1].outcome = outcome
    BY <2>1, <2>3 DEF RecordOf
  <2>5. \A i \in 1..n : records[i].episode = e => records[i].number < step[e]
    BY <2>1, <2>3
  <2>6. /\ state[e] = "RUNNING" /\ <<e, step[e]>> \in sent
        /\ \A i \in 1..n : records[i].number \in Nat /\ records[i].episode \in Episodes
    BY <2>1, <2>3, RecordIsTyped
  <2> HIDE DEF n
  <2>7. RecordsAreExecuted'
    <3>1. ASSUME NEW i \in 1..(n + 1)
          PROVE  LET id == <<records'[i].episode, records'[i].number>>
                 IN  id \in sent /\ (records'[i].outcome # "upstream_error" => id \in executed)
      <4>1. CASE i \in 1..n
        BY <2>3, <4>1
      <4>2. CASE i = n + 1
        BY <2>2, <2>4, <2>6, <4>2
      <4> QED
        BY <2>3, <4>1, <4>2
    <3>2. ASSUME NEW i \in 1..(n + 1), NEW j \in 1..(n + 1),
                 records'[i].episode = records'[j].episode,
                 records'[i].number = records'[j].number
          PROVE  i = j
      <4>1. CASE i \in 1..n /\ j \in 1..n
        <5>1. /\ i \in DOMAIN records /\ records[i].episode = records[j].episode
              /\ j \in DOMAIN records /\ records[i].number = records[j].number
          BY <2>3, <3>2, <4>1
        <5> QED
          BY <5>1
      <4>2. CASE i = n + 1 /\ j \in 1..n
        <5>1. records[j].episode = e /\ records[j].number = step[e]
          BY <2>3, <2>4, <3>2, <4>2
        <5> QED
          BY <2>5, <4>2, <5>1
      <4>3. CASE j = n + 1 /\ i \in 1..n
        <5>1. records[i].episode = e /\ records[i].number = step[e]
          BY <2>3, <2>4, <3>2, <4>3
        <5> QED
          BY <2>5, <4>3, <5>1
      <4> QED
        BY <2>3, <4>1, <4>2, <4>3
    <3> QED
      BY <2>1, <2>3, <3>1, <3>2
  <2>8. RecordedOnce'
    <3>1. ASSUME NEW x \in Episodes, NEW i \in 1..(n + 1), records'[i].episode = x
          PROVE  /\ state'[x] \notin {"CREATED", "PROVISIONING"}
                 /\ records'[i].number <= step'[x]
                 /\ pc'[x] = "asked" \/ (call'[x].tool # None /\ pc'[x] \in Unrecorded) =>
                       records'[i].number < step'[x]
      <4>1. CASE i \in 1..n
        <5>1. i \in DOMAIN records /\ records[i].episode = x /\ records'[i] = records[i]
          BY <3>1, <2>3, <4>1
        <5>2. CASE x = e
          BY <2>1, <2>6, <4>1, <5>1, <5>2
        <5>3. CASE x # e
          BY <2>1, <5>1, <5>3
        <5> QED
          BY <5>2, <5>3
      <4>2. CASE i = n + 1
        BY <3>1, <2>1, <2>4, <2>6, <4>2
      <4> QED
        BY <2>3, <4>1, <4>2
    <3>2. ASSUME NEW x \in Episodes
          PROVE  /\ pc'[x] \in {"awaiting", "answered"} => <<x, step[x]>> \in sent
                 /\ pc'[x] = "answered" /\ call[x].reply # "input_required" =>
                       <<x, step[x]>> \in executed
      BY <2>1
    <3> QED
      BY <2>1, <2>3, <3>1, <3>2
  <2> QED
    BY <2>7, <2>8
<1>10. CASE Accept(e)
  <2>0. CASE OutcomeOf(call[e].reply) # None
    <3>1. /\ UNCHANGED <<executed, sent, call, state, step>>
          /\ pc[e] \in {"awaiting", "answered"} /\ pc' = [pc EXCEPT ![e] = "recorded"]
      BY <1>10, <2>0 DEF Accept
    <3>2. PICK outcome \in Outcomes :
            /\ AppendRecord(e, outcome)
            /\ outcome # "upstream_error" => <<e, step[e]>> \in executed
      BY <1>10, <2>0 DEF Accept, OutcomeOf, Outcomes
    <3> DEFINE n == Len(records)
    <3>3. /\ n \in Nat /\ Len(records') = n + 1
          /\ DOMAIN records = 1..n /\ DOMAIN records' = 1..(n + 1)
          /\ \A i \in 1..n : records'[i] = records[i]
          /\ records'[n + 1] = RecordOf(e, outcome)
      BY <3>2, AppendRecordAdds
    <3>4. /\ records'[n + 1].episode = e /\ records'[n + 1].number = step[e]
          /\ records'[n + 1].outcome = outcome
      BY <3>1, <3>3 DEF RecordOf
    <3>5. \A i \in 1..n : records[i].episode = e => records[i].number < step[e]
      BY <3>1, <3>3
    <3>6. /\ state[e] = "RUNNING" /\ <<e, step[e]>> \in sent
          /\ \A i \in 1..n : records[i].number \in Nat /\ records[i].episode \in Episodes
      BY <3>1, <3>3, RecordIsTyped
    <3> HIDE DEF n
    <3>7. RecordsAreExecuted'
      <4>1. ASSUME NEW i \in 1..(n + 1)
            PROVE  LET id == <<records'[i].episode, records'[i].number>>
                   IN  id \in sent /\ (records'[i].outcome # "upstream_error" => id \in executed)
        <5>1. CASE i \in 1..n
          BY <3>3, <5>1
        <5>2. CASE i = n + 1
          BY <3>2, <3>4, <3>6, <5>2
        <5> QED
          BY <3>3, <5>1, <5>2
      <4>2. ASSUME NEW i \in 1..(n + 1), NEW j \in 1..(n + 1),
                   records'[i].episode = records'[j].episode,
                   records'[i].number = records'[j].number
            PROVE  i = j
        <5>1. CASE i \in 1..n /\ j \in 1..n
          <6>1. /\ i \in DOMAIN records /\ records[i].episode = records[j].episode
                /\ j \in DOMAIN records /\ records[i].number = records[j].number
            BY <3>3, <4>2, <5>1
          <6> QED
            BY <6>1
        <5>2. CASE i = n + 1 /\ j \in 1..n
          <6>1. records[j].episode = e /\ records[j].number = step[e]
            BY <3>3, <3>4, <4>2, <5>2
          <6> QED
            BY <3>5, <5>2, <6>1
        <5>3. CASE j = n + 1 /\ i \in 1..n
          <6>1. records[i].episode = e /\ records[i].number = step[e]
            BY <3>3, <3>4, <4>2, <5>3
          <6> QED
            BY <3>5, <5>3, <6>1
        <5> QED
          BY <3>3, <5>1, <5>2, <5>3
      <4> QED
        BY <3>1, <3>3, <4>1, <4>2
    <3>8. RecordedOnce'
      <4>1. ASSUME NEW x \in Episodes, NEW i \in 1..(n + 1), records'[i].episode = x
            PROVE  /\ state'[x] \notin {"CREATED", "PROVISIONING"}
                   /\ records'[i].number <= step'[x]
                   /\ pc'[x] = "asked" \/ (call'[x].tool # None /\ pc'[x] \in Unrecorded) =>
                         records'[i].number < step'[x]
        <5>1. CASE i \in 1..n
          <6>1. i \in DOMAIN records /\ records[i].episode = x /\ records'[i] = records[i]
            BY <4>1, <3>3, <5>1
          <6>2. CASE x = e
            BY <3>1, <3>6, <5>1, <6>1, <6>2
          <6>3. CASE x # e
            BY <3>1, <6>1, <6>3
          <6> QED
            BY <6>2, <6>3
        <5>2. CASE i = n + 1
          BY <4>1, <3>1, <3>4, <3>6, <5>2
        <5> QED
          BY <3>3, <5>1, <5>2
      <4>2. ASSUME NEW x \in Episodes
            PROVE  /\ pc'[x] \in {"awaiting", "answered"} => <<x, step[x]>> \in sent
                   /\ pc'[x] = "answered" /\ call[x].reply # "input_required" =>
                         <<x, step[x]>> \in executed
        BY <3>1
      <4> QED
        BY <3>1, <3>3, <4>1, <4>2
    <3> QED
      BY <3>7, <3>8
  <2>1. CASE OutcomeOf(call[e].reply) = None
    BY <1>10, <2>1 DEF Accept
  <2> QED
    BY <2>0, <2>1
<1>11. ASSUME NEW r \in Replies, Answer(e, r)
      PROVE  RecordsAreExecuted' /\ RecordedOnce'
  <2>a. /\ UNCHANGED <<executed, sent, records, state, step>>
        /\ pc[e] = "awaiting" /\ pc' = [pc EXCEPT ![e] = "answered"]
        /\ r # "input_required" => <<e, call[e].number>> \in executed
        /\ call'[e].reply = r /\ call'[e].tool = call[e].tool
        /\ \A x \in Episodes \ {e} : call'[x] = call[x]
    BY <1>11 DEF Answer
  <2>b. call[e].number = step[e]
    BY <2>a
  <2>1. /\ UNCHANGED <<executed, sent, records, state, step>>
        /\ pc[e] = "awaiting" /\ pc' = [pc EXCEPT ![e] = "answered"]
        /\ r # "input_required" => <<e, step[e]>> \in executed
        /\ call'[e].reply = r /\ call'[e].tool = call[e].tool
        /\ \A x \in Episodes \ {e} : call'[x] = call[x]
    BY <2>a, <2>b
  <2>2. RecordsAreExecuted'
    BY <2>1
  <2>3. RecordedOnce'
    <3>1. \A x \in Episodes : call'[x].tool = call[x].tool
      BY <2>1
    <3>2. \A x \in Episodes, i \in DOMAIN records :
            /\ records[i].episode = x
            /\ pc'[x] = "asked" \/ (call'[x].tool # None /\ pc'[x] \in Unrecorded)
            => records[i].number < step[x]
      BY <2>1, <3>1
    <3>3. ASSUME NEW x \in Episodes
          PROVE  /\ pc'[x] \in {"awaiting", "answered"} => <<x, step[x]>> \in sent
                 /\ pc'[x] = "answered" /\ call'[x].reply # "input_required" =>
                       <<x, step[x]>> \in executed
      <4>1. CASE x = e
        BY <2>1, <4>1
      <4>2. CASE x # e
        BY <2>1, <4>2
      <4> QED
        BY <4>1, <4>2
    <3> QED
      BY <2>1, <3>2, <3>3
  <2> QED
    BY <2>2, <2>3
<1> QED
  BY <1>1, <1>2, <1>3, <1>4, <1>5, <1>6, <1>7, <1>8, <1>9, <1>10, <1>11 DEF GatewayStep

LEMMA ServerKeepsRecords ==
    ASSUME TypeOK, RecordsAreExecuted, RecordedOnce, Server
    PROVE  RecordsAreExecuted' /\ RecordedOnce'
<1> USE DEF TypeOK, RecordsAreExecuted, RecordedOnce, Unrecorded, Opening, gatewayVars, callVars
<1>1. ASSUME NEW r \in sent, Execute(r)
      PROVE  RecordsAreExecuted' /\ RecordedOnce'
  BY <1>1 DEF Execute, Server
<1>2. ASSUME NEW c \in Contracts, Drift(c)
      PROVE  RecordsAreExecuted' /\ RecordedOnce'
  BY <1>2 DEF Drift, Server
<1> QED
  BY <1>1, <1>2 DEF Server

\* A thread that nobody came between finds its own baseline, and its own record last.
LEMMA HostKeepsBaseline ==
    ASSUME TypeOK, Phases, OwnBaseline, ResultsAreBound, NEW e \in Episodes, Host(e)
    PROVE  OwnBaseline' /\ ResultsAreBound'
<1> USE Conventions DEF TypeOK, Calls, Opening, Goto, Ends, Outside, serverVars, gatewayVars, callVars, Phases, OwnBaseline, ResultsAreBound
<1>1. CASE Provision(e)
  BY <1>1 DEF Provision, OpenGateway
<1>2. CASE Provisioned(e)
  <2>1. /\ UNCHANGED <<catalog, records, call, opened, alone, results>>
        /\ pc[e] = "described" /\ pc'[e] \in {"ready", "over"}
        /\ \A x \in Episodes \ {e} : pc'[x] = pc[x] /\ state'[x] = state[x]
        /\ state[e] = "PROVISIONING"
    BY <1>2 DEF Provisioned
  <2>2. ResultsAreBound'
    BY <2>1
  <2>3. OwnBaseline'
    BY <2>1
  <2> QED
    BY <2>2, <2>3
<1>3. CASE ProvisionFails(e)
  BY <1>3 DEF ProvisionFails
<1>4. CASE RunSubject(e)
  BY <1>4 DEF RunSubject
<1>5. CASE AskSubject(e)
  <2>1. /\ UNCHANGED <<catalog, records, call, opened, alone, results>>
        /\ pc[e] = "invoking" /\ pc'[e] \in {"asked", "over"}
        /\ \A x \in Episodes \ {e} : pc'[x] = pc[x] /\ state'[x] = state[x]
        /\ state[e] = "RUNNING" /\ state'[e] \in {"RUNNING", "INFRA_FAILED"}
    BY <1>5 DEF AskSubject
  <2> QED
    BY <2>1
<1>6. CASE SubjectCompletes(e)
  BY <1>6 DEF SubjectCompletes
<1>7. CASE SubjectFails(e)
  BY <1>7 DEF SubjectFails
<1>8. CASE SubjectCallsTool(e)
  BY <1>8 DEF SubjectCallsTool, CallTool
<1>9. CASE SubjectCallsEnvironment(e)
  BY <1>9 DEF SubjectCallsEnvironment
<1>10. CASE ReportResult(e)
  <2> DEFINE r == records[Len(records)]
             result == [number |-> call[e].number, tool |-> call[e].tool,
                        of |-> <<r.episode, r.number>>, schema |-> r.schema,
                        catalog |-> r.catalog, alone |-> alone[e]]
  <2>1. results' = [results EXCEPT ![e] = @ \union {result}]
    BY <1>10 DEF ReportResult, RecordToReport
  <2>2. /\ UNCHANGED <<catalog, records, opened, alone, state>>
        /\ pc[e] = "recorded" /\ pc'[e] = "invoking" /\ call'[e] = NoCall
        /\ \A x \in Episodes \ {e} : pc'[x] = pc[x] /\ call'[x] = call[x]
    BY <1>10 DEF ReportResult
  <2>3. alone[e] => /\ result.of = <<e, result.number>>
                    /\ result.catalog = opened[e]
                    /\ result.schema = opened[e][result.tool]
    BY <2>2
  <2>4. result.alone = alone[e]
    OBVIOUS
  <2> HIDE DEF result
  <2>5. ResultsAreBound'
    <3> SUFFICES ASSUME NEW x \in Episodes, NEW q \in results'[x], q.alone
                 PROVE  q.of = <<x, q.number>> /\ q.catalog = opened[x]
                        /\ q.schema = opened[x][q.tool]
      BY <2>2
    <3>1. CASE q \in results[x]
      BY <3>1
    <3>2. CASE q \notin results[x]
      <4>1. x = e /\ q = result
        BY <2>1, <3>2
      <4> QED
        BY <2>3, <2>4, <4>1
    <3> QED
      BY <3>1, <3>2
  <2>6. OwnBaseline'
    <3>1. \A x \in Episodes : state[x] \in {"CREATED", "PROVISIONING"} => results'[x] = {}
      BY <2>1, <2>2
    <3> QED
      BY <2>2, <3>1 DEF NoCall
  <2> QED
    BY <2>5, <2>6
<1>11. CASE CallEscapes(e)
  BY <1>11 DEF CallEscapes, NoCall
<1> QED
  BY <1>1, <1>2, <1>3, <1>4, <1>5, <1>6, <1>7, <1>8, <1>9, <1>10, <1>11 DEF Host

LEMMA GatewayKeepsBaseline ==
    ASSUME TypeOK, Phases, OwnBaseline, ResultsAreBound, NEW e \in Episodes, InGateway(e)
    PROVE  OwnBaseline' /\ ResultsAreBound'
<1> USE Conventions DEF TypeOK, Calls, Opening, Goto, Ends, Outside, serverVars, gatewayVars, callVars, Phases, OwnBaseline, ResultsAreBound, InGateway
<1>1. CASE Discovered(e)
  BY <1>1 DEF Discovered
<1>2. CASE ReadPage(e)
  <2>1. /\ UNCHANGED <<records, call, opened, results, state, alone, catalog>>
        /\ pc[e] = "listing" /\ pc'[e] \in {"listing", "listed", "refused", "raised"}
        /\ \A x \in Episodes \ {e} : pc'[x] = pc[x]
    BY <1>2, ReadPageGoesOn DEF ReadPage
  <2> QED
    BY <2>1
<1>3. CASE RequestFails(e)
  BY <1>3 DEF RequestFails
<1>4. CASE Install(e)
  <2>1. /\ UNCHANGED <<records, call, opened, results, state>> /\ pc[e] = "listed" /\ Opening(e)
        /\ \A x \in Episodes \ {e} : pc'[x] = pc[x]
    BY <1>4 DEF Install
  <2>2. CASE pc'[e] = "installed" /\ \A x \in Episodes : alone'[x] <=> x = e
    BY <2>1, <2>2
  <2>3. CASE pc'[e] = "refused" /\ UNCHANGED <<catalog, alone>>
    BY <2>1, <2>3
  <2>4. \/ alone' = [x \in Episodes |-> x = e] /\ pc' = [pc EXCEPT ![e] = "installed"]
        \/ pc' = [pc EXCEPT ![e] = "refused"] /\ UNCHANGED <<catalog, alone>>
    BY <1>4 DEF Install
  <2>5. ASSUME alone' = [x \in Episodes |-> x = e] PROVE \A x \in Episodes : alone'[x] <=> x = e
    BY <2>5, Zenon
  <2> QED
    BY <2>2, <2>3, <2>4, <2>5
<1>5. CASE Describe(e)
  BY <1>5 DEF Describe
<1>6. CASE Compare(e)
  BY <1>6 DEF Compare
<1>7. CASE RefuseArguments(e)
  BY <1>7 DEF RefuseArguments
<1>8. CASE Send(e)
  BY <1>8 DEF Send
<1>9. CASE UpstreamError(e)
  <2>1. /\ UNCHANGED <<catalog, call, opened, results, state>>
        /\ pc[e] \in {"awaiting", "answered"} /\ pc' = [pc EXCEPT ![e] = "refused"]
    BY <1>9 DEF UpstreamError
  <2>2. PICK outcome \in Outcomes : AppendRecord(e, outcome)
    BY <1>9 DEF UpstreamError, Outcomes
  <2>3. /\ Len(records') \in Nat \ {0}
        /\ records'[Len(records')] = RecordOf(e, outcome)
    BY <2>2, AppendRecordAdds
  <2>4. \A x \in Episodes :
          alone'[x] => alone[x] /\ (x # e => pc[x] # "recorded")
    BY <2>2 DEF AppendRecord
  <2>5. records' # <<>>
    BY <2>3
  <2>6. ResultsAreBound'
    BY <2>1
  <2>7. OwnBaseline'
    BY <2>1, <2>3, <2>4, <2>5 DEF RecordOf
  <2> QED
    BY <2>6, <2>7
<1>10. CASE Accept(e)
  <2>0. CASE OutcomeOf(call[e].reply) # None
    <3>1. /\ UNCHANGED <<catalog, call, opened, results, state>>
          /\ pc[e] \in {"awaiting", "answered"} /\ pc' = [pc EXCEPT ![e] = "recorded"]
      BY <1>10, <2>0 DEF Accept
    <3>2. PICK outcome \in Outcomes : AppendRecord(e, outcome)
      BY <1>10, <2>0 DEF Accept, OutcomeOf, Outcomes
    <3>3. /\ Len(records') \in Nat \ {0}
          /\ records'[Len(records')] = RecordOf(e, outcome)
      BY <3>2, AppendRecordAdds
    <3>4. \A x \in Episodes :
            alone'[x] => alone[x] /\ (x # e => pc[x] # "recorded")
      BY <3>2 DEF AppendRecord
    <3>5. records' # <<>>
      BY <3>3
    <3>6. ResultsAreBound'
      BY <3>1
    <3>7. OwnBaseline'
      BY <3>1, <3>3, <3>4, <3>5 DEF RecordOf
    <3> QED
      BY <3>6, <3>7
  <2>1. CASE OutcomeOf(call[e].reply) = None
    BY <1>10, <2>1 DEF Accept
  <2> QED
    BY <2>0, <2>1
<1>11. ASSUME NEW r \in Replies, Answer(e, r)
      PROVE  OwnBaseline' /\ ResultsAreBound'
  BY <1>11 DEF Answer
<1> QED
  BY <1>1, <1>2, <1>3, <1>4, <1>5, <1>6, <1>7, <1>8, <1>9, <1>10, <1>11 DEF GatewayStep

LEMMA ServerKeepsBaseline ==
    ASSUME TypeOK, OwnBaseline, ResultsAreBound, Server
    PROVE  OwnBaseline' /\ ResultsAreBound'
BY DEF TypeOK, OwnBaseline, ResultsAreBound, Opening, Server, Execute, Drift, gatewayVars, callVars

-----------------------------------------------------------------------------
LEMMA InvInit == Init => Inv
<1> SUFFICES ASSUME Init PROVE Inv
  OBVIOUS
<1>1. Phases /\ ReadWhileLive /\ ResultsAreBound
  BY DEF Init, GatewayInit, Phases, ReadWhileLive, ResultsAreBound, Opening, NoCall
<1>2. RecordsAreExecuted /\ RecordedOnce
  BY DEF Init, GatewayInit, RecordsAreExecuted, RecordedOnce, Opening, NoCall
<1>3. OwnBaseline
  BY DEF Init, GatewayInit, OwnBaseline, Opening, NoCall
<1> QED
  BY <1>1, <1>2, <1>3, TypeInit DEF Inv

LEMMA InvNext == Inv /\ [Next]_vars => Inv'
<1> SUFFICES ASSUME Inv, [Next]_vars PROVE Inv'
  OBVIOUS
<1> USE DEF Inv
<1>0. Requests => trickling' \subseteq Episodes
  BY DEF Requests, TypeOK
<1>1. ASSUME NEW e \in Episodes, Host(e), Requests PROVE Inv'
  BY <1>0, <1>1, HostKeepsTypes, HostKeepsPhases, HostReadsWhileLive, HostRecordsOnce,
     HostKeepsBaseline
<1>2. ASSUME NEW e \in Episodes, InGateway(e), Requests PROVE Inv'
  BY <1>0, <1>2, GatewayKeepsTypes, GatewayKeepsPhases, GatewayReadsWhileLive,
     GatewayRecordsOnce, GatewayKeepsBaseline
<1>3. CASE Server /\ Requests
  BY <1>0, <1>3, ServerKeepsTypes, ServerKeepsPhases, ServerKeepsLive,
     ServerKeepsRecords, ServerKeepsBaseline
<1>4. ASSUME UNCHANGED <<mcpVars, state, step, results>>, trickling' \subseteq Episodes
      PROVE  Inv'
  <2> USE <1>4 DEF mcpVars, serverVars, gatewayVars, callVars
  <2>1. TypeOK'
    BY DEF TypeOK
  <2>2. Phases' /\ ReadWhileLive'
    BY DEF Phases, ReadWhileLive, Opening
  <2>3. RecordsAreExecuted' /\ RecordedOnce'
    BY DEF RecordsAreExecuted, RecordedOnce, Opening
  <2>4. OwnBaseline' /\ ResultsAreBound'
    BY DEF OwnBaseline, ResultsAreBound, Opening
  <2> QED
    BY <2>1, <2>2, <2>3, <2>4
<1>5. ASSUME NEW e \in Episodes, Trickle(e) \/ Stall(e) PROVE Inv'
  BY <1>4, <1>5 DEF Trickle, Stall, TypeOK
<1>6. CASE UNCHANGED vars
  BY <1>4, <1>6 DEF vars, TypeOK
<1> QED
  BY <1>1, <1>2, <1>3, <1>5, <1>6 DEF Next

LEMMA InvAlways == Spec => []Inv
BY InvInit, InvNext, PTL DEF Spec

\* The gateway and its Episodes keep their types, and _list_tools never keeps
\* more than max_tools tools, whatever pages the server lists.
THEOREM TypeCorrect == Spec => []TypeOK
<1>1. Inv => TypeOK
  BY DEF Inv
<1> QED
  BY <1>1, InvAlways, PTL

\* call_tool sends no call under a schema that was not in force at the server at
\* some moment since the call began (AVP-MCP-004).
THEOREM CallsAreUnderBaseline == Spec => []SentUnderBaseline
<1>1. Inv => SentUnderBaseline
  BY DEF Inv, Phases, ReadWhileLive, SentUnderBaseline
<1> QED
  BY <1>1, InvAlways, PTL

\* A result among the call records was executed by the server for the request it
\* names, and no request is recorded twice (AVP-MCP-007 and -008).
THEOREM RecordsAreOfCalls == Spec => []RecordsAreExecuted
<1>1. Inv => RecordsAreExecuted
  BY DEF Inv
<1> QED
  BY <1>1, InvAlways, PTL

\* A tool.result event whose thread nobody came between names its own call, the
\* catalog of mcp.gateway.opened and the schema in it (AVP-MCP-005).
THEOREM ResultsNameTheirCall == Spec => []ResultsAreBound
<1>1. Inv => ResultsAreBound
  BY DEF Inv
<1> QED
  BY <1>1, InvAlways, PTL

=============================================================================
