----------------------------- MODULE MCPipeline -----------------------------
(* A finite instance of Pipeline: a transaction of three programs, of which   *)
(* an invocation may ask for two; A's IDL also matches B's instruction.  The  *)
(* command lines cover each mode, each source of a schema, with and without   *)
(* an endpoint, and the three severities of the gate.                         *)
EXTENDS Pipeline

MCPrograms == {"A", "B", "C"}
MCDeclares == {<<"A", "A">>, <<"A", "B">>, <<"B", "B">>, <<"C", "C">>, <<"file", "A">>,
               <<"native", "B">>}

Plain == [mode |-> "audit", signature |-> FALSE, rpc |-> TRUE, no_network |-> FALSE,
          given |-> "none", idl_auto |-> "off", disassemble |-> "off", patterns |-> FALSE,
          artifacts |-> <<>>, fail_on |-> "Info"]

Gated == {[Plain EXCEPT !.fail_on = s, !.mode = m] : s \in Severity, m \in {"audit", "poc", "batch"}}

Auto == {[Plain EXCEPT !.idl_auto = "all", !.signature = s, !.no_network = ~s] : s \in BOOLEAN}
        \cup {[Plain EXCEPT !.idl_auto = "C", !.given = "file"]}

Others == {[Plain EXCEPT !.disassemble = "all", !.idl_auto = "all"],
           [Plain EXCEPT !.given = "native", !.patterns = TRUE],
           [Plain EXCEPT !.given = "both"],
           [Plain EXCEPT !.given = "file", !.signature = TRUE],
           [Plain EXCEPT !.signature = TRUE, !.rpc = FALSE],
           [Plain EXCEPT !.rpc = FALSE],
           [Plain EXCEPT !.rpc = FALSE, !.mode = "poc"],
           [Plain EXCEPT !.no_network = TRUE, !.artifacts = <<"html", "sarif">>],
           [Plain EXCEPT !.artifacts = <<"tx-report", "poc-template">>]}

MCOptions == Gated \cup Auto \cup Others

\* Whether the two targets are A and B, or A and C, whose IDLs are disjoint.
MCTransactions ==
  {[programs |-> IF m = "bare" THEN <<"A", "C", "B">> ELSE <<"A", "B", "C">>, cpi |-> {"B"}, meta |-> m,
    unchecked |-> TRUE, lines |-> 2] : m \in {"none", "bare", "logs"}}
  \cup {[programs |-> <<>>, cpi |-> {}, meta |-> "none", unchecked |-> FALSE, lines |-> 1]}
=============================================================================
