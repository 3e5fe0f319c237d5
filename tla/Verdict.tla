------------------------------- MODULE Verdict -------------------------------
(***************************************************************************)
(* What a gate in a CI pipeline relies on when it runs rts: findings are   *)
(* collected, the reports published show the findings the run ended with,  *)
(* and the exit code is the worst of all of them.  A finding goes away     *)
(* only when it was an estimate.                                           *)
(***************************************************************************)
EXTENDS RiskFlags

CONSTANT Stages     \* where a finding can come from

VARIABLES
  fail_on,     \* the least severity that counts
  findings,    \* what the run has found, over all of its transactions
  broken,      \* some transaction of a batch could not be decoded
  published,   \* the finding sets of the reports written out
  verdict      \* <<"pending">>, <<"error">> or <<"code", 0..2>>

vars == <<fail_on, findings, broken, published, verdict>>

TypeOK == /\ fail_on \in Severity
          /\ findings \subseteq RiskFlag(Stages)
          /\ broken \in BOOLEAN
          /\ published \subseteq SUBSET RiskFlag(Stages)
          /\ verdict \in {<<"pending">>, <<"error">>} \cup {<<"code", c>> : c \in 0..2}

ExitCode ==
  LET worst == worst_severity_exit_code(findings, fail_on)
  IN  IF broken /\ worst = 0 THEN 1 ELSE worst

Init == /\ fail_on \in Severity
        /\ findings = {}
        /\ broken = FALSE
        /\ published = {}
        /\ verdict = <<"pending">>

Pending == verdict = <<"pending">>

\* More is found; evidence may refute estimates, and nothing else.
Find == /\ Pending /\ published = {}
        /\ \A f \in findings \ findings' : f.what = "high_cu"
        /\ findings' \subseteq RiskFlag(Stages)
        /\ UNCHANGED <<fail_on, broken, published, verdict>>

\* A batch goes on after a line it cannot decode.
Break == /\ Pending /\ published = {}
         /\ broken' = TRUE
         /\ UNCHANGED <<fail_on, findings, published, verdict>>

Publish == /\ Pending
           /\ published' = published \cup {findings}
           /\ UNCHANGED <<fail_on, findings, broken, verdict>>

Fail == /\ Pending
        /\ verdict' = <<"error">>
        /\ UNCHANGED <<fail_on, findings, broken, published>>

Conclude == /\ Pending
            /\ verdict' = <<"code", ExitCode>>
            /\ UNCHANGED <<fail_on, findings, broken, published>>

Next == Find \/ Break \/ Publish \/ Fail \/ Conclude

Spec == Init /\ [][Next]_vars
=============================================================================
