--------------------------- MODULE MCEpisodeRuntime ---------------------------
(***************************************************************************)
(* Values for checking EpisodeRuntime with TLC.  "ev1" and "ev2" are the   *)
(* identifiers an Oracle makes up for its own Evidence; the results are a  *)
(* pass and a critical failure that cite them.                             *)
(***************************************************************************)
EXTENDS EpisodeRuntime

Result(fails, valid, cites) ==
    [fails |-> fails, valid |-> valid, cites |-> cites]

MCResults == {Result(FALSE, TRUE, {"ev1"}), Result(TRUE, TRUE, {})}

\* One of them comes with its own validity, which the protocol lets through.
MixedResults == {Result(FALSE, TRUE, {}), Result(TRUE, FALSE, {})}

AllResults == MCResults \cup {Result(TRUE, FALSE, {})}

\* An Oracle may reuse an identifier the runtime has taken.
MCOracleIds == {"ev1", ExecutionId}

Policy(kind, required, sampled) ==
    [kind |-> kind, required |-> required, sampled |-> sampled]

MCPolicies == {Policy("none", FALSE, FALSE),
               Policy("noop", TRUE, FALSE),
               Policy("otel", FALSE, TRUE),
               Policy("otel", TRUE, TRUE),
               Policy("otel", TRUE, FALSE)}

RequiredPolicy == {Policy("otel", TRUE, TRUE)}

NoTelemetry == {Policy("none", FALSE, FALSE)}

=============================================================================
