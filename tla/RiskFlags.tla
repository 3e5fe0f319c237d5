------------------------------ MODULE RiskFlags ------------------------------
(***************************************************************************)
(* Risk flags and what the exit code makes of them: types::RiskFlag,       *)
(* types::dedup_risk_flags and main::worst_severity_exit_code.             *)
(*                                                                         *)
(* A flag is named by the stage that raised it, by what it is about and by *)
(* its severity.  dedup_risk_flags compares category, instruction index    *)
(* and message; no two places of the code give one message to flags of     *)
(* different severities, so two flags are duplicates when they are equal.  *)
(***************************************************************************)
EXTENDS Retain

Severity == {"Info", "Warning", "Critical"}

severity_rank == [Critical |-> 2, Warning |-> 1, Info |-> 0]

RiskFlag(stages) == [stage : stages, what : {"high_cu", "other"}, severity : Severity]

\* The flags of at least the severity --fail-on names.
Counted(flags, min) == {f \in flags : severity_rank[f.severity] >= severity_rank[min]}

worst_severity_exit_code(flags, min) ==
  LET counted == Counted(flags, min)
  IN  CASE \E f \in counted : f.severity = "Critical" -> 2
        [] counted # {} /\ \A f \in counted : f.severity # "Critical" -> 1
        [] counted = {} -> 0

\* The first of equal flags stays, in its place.
dedup_risk_flags(flags) ==
  FoldLeft(LAMBDA kept, f : IF f \in Range(kept) THEN kept ELSE Append(kept, f),
           <<>>, flags)
=============================================================================
