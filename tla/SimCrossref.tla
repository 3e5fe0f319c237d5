----------------------------- MODULE SimCrossref -----------------------------
(***************************************************************************)
(* sim_crossref: the compute units of each top-level instruction are read  *)
(* from the simulation's log (parse_instruction_cu), and the simulation is *)
(* then compared with the local decode (cross_reference), which replaces   *)
(* the estimate-based high-CU flags and adds mismatch flags.               *)
(*                                                                         *)
(* parse_instruction_cu is composed with the runtime line by line; it      *)
(* recognises a program's own messages ("Program log: ...") and skips      *)
(* them.  cross_reference runs once, when the simulation has answered.     *)
(***************************************************************************)
EXTENDS RuntimeLog

CONSTANTS
  ComputeBudget,   \* COMPUTE_BUDGET_PROGRAM_ID
  IndexCap,        \* instruction indexes are reported as u8: 255 in the code
  Threshold,       \* high_cu_threshold of the transaction's limit
  Estimates        \* what estimate_cu_cost may say of an instruction

ASSUME IndexCapAssumption == IndexCap \in Nat
ASSUME ThresholdAssumption == Threshold \in Nat /\ Estimates \subseteq Nat

VARIABLES
  stack,        \* parse_instruction_cu: depths of the open invocations
  completed_top_levels,
  current_top_level,
  has_top_level,
  out,          \* the InstructionCu entries, in log order
  invocations,  \* log lines that start "Program " and contain "invoke ["
  decoded,      \* report.instructions.len()
  estimate,     \* estimate_cu_cost of each decoded instruction
  high,         \* instructions the report's HighComputeUnitUsage flags name
  mismatches,   \* the SimulationMismatch flags
  simulation,   \* "running", "answered", "crossed"
  truth         \* history: for each entry of out, what really consumed the units

parserVars == <<stack, completed_top_levels, current_top_level, has_top_level, out>>
reportVars == <<decoded, estimate, high, mismatches, simulation>>
vars == <<rtVars, parserVars, invocations, reportVars, truth>>

CuEntry == [instruction_index : 0..IndexCap, program_id : Programs, units_consumed : Nat]

TypeOK ==
  /\ RuntimeTypeOK
  /\ stack \in Seq(Nat)
  /\ completed_top_levels \in Nat
  /\ current_top_level \in Nat
  /\ has_top_level \in BOOLEAN
  /\ out \in Seq(CuEntry)
  /\ invocations \in Nat
  /\ decoded \in Nat
  /\ estimate \in [0..(decoded - 1) -> Estimates]
  /\ high \subseteq Nat
  /\ \A m \in mismatches :
       /\ m.what \in {"invocation_count", "first_failure", "estimate", "over_limit"}
       /\ m.index \in Nat
  /\ simulation \in {"running", "answered", "crossed"}
  /\ truth \in Seq([top : Nat, depth : Nat])

-----------------------------------------------------------------------------
(* parse_instruction_cu *)

ReportedIndex(top) == IF top < IndexCap THEN top ELSE IndexCap

\* is_success, is_failed: program_id_ok refuses the id "log:" of a message.
IsEnd(l) == l.kind \in {"success", "failed"}

OnInvoke(depth) ==
  /\ current_top_level' = IF depth = 1 THEN completed_top_levels ELSE current_top_level
  /\ has_top_level' = (has_top_level \/ depth = 1)
  /\ stack' = Append(stack, depth)
  /\ UNCHANGED <<completed_top_levels, out, truth>>

\* Mutant: every end completes a top-level instruction.
OnEnd_AnyDepth ==
  /\ IF stack = <<>>
       THEN UNCHANGED <<stack, completed_top_levels>>
       ELSE /\ stack' = Front(stack)
            /\ completed_top_levels' = completed_top_levels + 1
  /\ UNCHANGED <<current_top_level, has_top_level, out, truth>>

\* Mutant: the depth is looked at after the pop.
OnEnd_AfterPop ==
  /\ IF stack = <<>>
       THEN UNCHANGED <<stack, completed_top_levels>>
       ELSE /\ stack' = Front(stack)
            /\ completed_top_levels' = completed_top_levels
                 + (IF stack' # <<>> /\ Last(stack') = 1 THEN 1 ELSE 0)
  /\ UNCHANGED <<current_top_level, has_top_level, out, truth>>

\* Only the end of a depth-1 invocation completes an instruction; an end with
\* nothing open is ignored.
OnEnd ==
  /\ IF stack = <<>>
       THEN UNCHANGED <<stack, completed_top_levels>>
       ELSE /\ stack' = Front(stack)
            /\ completed_top_levels' =
                 completed_top_levels + (IF Last(stack) = 1 THEN 1 ELSE 0)
  /\ UNCHANGED <<current_top_level, has_top_level, out, truth>>

OnConsumed(l) ==
  /\ IF has_top_level
       THEN /\ out' = Append(out,
                        [instruction_index |-> ReportedIndex(current_top_level),
                         program_id |-> l.id, units_consumed |-> l.units])
            /\ truth' = Append(truth, [top |-> Last(frames).top, depth |-> Len(frames)])
       ELSE UNCHANGED <<out, truth>>
  /\ UNCHANGED <<stack, completed_top_levels, current_top_level, has_top_level>>

\* One iteration of parse_instruction_cu over the line just logged, and of the
\* count of invocations in cross_reference, which takes a message for a call
\* when it contains "invoke [".
ReadLine ==
  LET l == line'
  IN  /\ CASE l.kind = "invoke" /\ l.depth > 0 -> OnInvoke(l.depth)
           [] IsEnd(l) -> OnEnd
           [] l.kind = "consumed" -> OnConsumed(l)
           [] OTHER -> UNCHANGED <<parserVars, truth>>
      /\ invocations' = invocations +
           IF l.kind = "invoke" \/ (l.kind = "text" /\ l.shape = "invoke") THEN 1 ELSE 0
      /\ UNCHANGED reportVars

-----------------------------------------------------------------------------
(* The simulation, and cross_reference on its answer *)

\* simulateTransaction runs the transaction's instructions in order.
Execute == /\ simulation = "running"
           /\ RuntimeNext
           /\ tops' <= decoded
           /\ ReadLine

\* The node answers when the transaction has run, or without running it: the
\* transaction is rejected, or the node returns an RPC error, which
\* simulate_transaction turns into a failed simulation with no logs.
Answer ==
  /\ simulation = "running"
  /\ ~Running
  /\ aborted \/ tops = decoded \/ tops = 0
  /\ simulation' = "answered"
  /\ UNCHANGED <<rtVars, parserVars, invocations, decoded, estimate, high,
                 mismatches, truth>>

\* collect() into a HashMap keyed by instruction: the last entry wins.
Actuals ==
  LET indexes == {out[k].instruction_index : k \in 1..Len(out)}
  IN  [i \in indexes |->
         out[Max({k \in 1..Len(out) : out[k].instruction_index = i})]]

\* risk_flags.retain: an estimate the simulation refutes is dropped.
Retained == {i \in high : ~ /\ i \in DOMAIN Actuals
                            /\ Actuals[i].units_consumed < Threshold}

\* Mutant: strictly above the threshold, so the flag is not kept at it.
NewlyHigh_Above ==
  {out[k].instruction_index : k \in
     {k \in 1..Len(out) : /\ out[k].program_id # ComputeBudget
                          /\ out[k].units_consumed > Threshold
                          /\ out[k].instruction_index < decoded
                          /\ out[k].instruction_index \notin Retained}}

NewlyHigh ==
  {out[k].instruction_index : k \in
     {k \in 1..Len(out) : /\ out[k].program_id # ComputeBudget
                          /\ out[k].units_consumed >= Threshold
                          /\ out[k].instruction_index < decoded
                          /\ out[k].instruction_index \notin Retained}}

Deviates(guess, actual) == guess # 0 /\ (2 * guess > 3 * actual \/ actual > 3 * guess)

EstimateFlags ==
  {[what |-> "estimate", index |-> out[k].instruction_index] : k \in
     {k \in 1..Len(out) :
        /\ out[k].instruction_index < decoded
        /\ Deviates(estimate[out[k].instruction_index], out[k].units_consumed)}}

InvocationFlags ==
  IF invocations # decoded THEN {[what |-> "invocation_count", index |-> 0]} ELSE {}

\* Mutant: the instruction before the failing one.
FailureFlags_Previous ==
  IF aborted THEN {[what |-> "first_failure", index |-> tops - 2]} ELSE {}

\* The failing instruction is the last one that was started.
FailureFlags ==
  IF aborted THEN {[what |-> "first_failure", index |-> tops - 1]} ELSE {}

\* The node reports the transaction's total itself, so that total may exceed
\* the limit of the transaction's budget whatever the log says.
OverLimitFlags(over) == IF over THEN {[what |-> "over_limit", index |-> 0]} ELSE {}

CrossReference ==
  /\ simulation = "answered"
  /\ simulation' = "crossed"
  /\ high' = Retained \cup NewlyHigh
  /\ \E over \in BOOLEAN :
       mismatches' = OverLimitFlags(over) \cup InvocationFlags \cup FailureFlags
                       \cup EstimateFlags
  /\ UNCHANGED <<rtVars, parserVars, invocations, decoded, estimate, truth>>

Init ==
  /\ RuntimeInit
  /\ stack = <<>>
  /\ completed_top_levels = 0
  /\ current_top_level = 0
  /\ has_top_level = FALSE
  /\ out = <<>>
  /\ invocations = 0
  /\ decoded \in 1..MaxTop
  /\ estimate \in [0..(decoded - 1) -> Estimates]
  \* validator::validate flags the estimates when the transaction has a budget.
  /\ high \in {{}, {i \in 0..(decoded - 1) : estimate[i] >= Threshold}}
  /\ mismatches = {}
  /\ simulation = "running"
  /\ truth = <<>>

Next == Execute \/ Answer \/ CrossReference

Spec == Init /\ [][Next]_vars

-----------------------------------------------------------------------------
(* Properties *)

WholeLog == drops \cap {"invoke", "success", "failed", "consumed"} = {}

\* A consumption line is filed under the instruction whose invocation tree it
\* belongs to, however deep it was logged (CHANGELOG.md:38-40).
CuIndexIsRunningTop ==
  WholeLog => \A k \in 1..Len(out) :
                out[k].instruction_index = Min({truth[k].top, IndexCap})

\* Whatever lines a truncated log lost, consumption is never filed under an
\* instruction that starts later than the one that consumed it.
NeverLaterInstruction ==
  \A k \in 1..Len(out) : out[k].instruction_index <= truth[k].top

\* The units the instruction of index i consumed, those of its callees included.
SimulatedUnits(i) ==
  {out[k].units_consumed : k \in
     {k \in 1..Len(out) : truth[k].top = i /\ truth[k].depth = 1}}

\* After the cross-reference an instruction whose consumption was logged is
\* flagged for high compute exactly when it consumed the threshold or more:
\* refuted estimates are gone, and no callee's line brings them back
\* (README.md:33).
HighCuIffSimulated ==
  WholeLog /\ simulation = "crossed" =>
    \A i \in 0..(decoded - 1) : \A units \in SimulatedUnits(i) :
      i \in high <=> units >= Threshold

\* The invocation-count mismatch is raised only when the simulation ran another
\* number of instructions than the decoder saw (sim_crossref.rs:154, "disagree
\* on how many instructions executed").
InvocationFlagMeansDisagreement ==
  \A m \in mismatches : m.what = "invocation_count" => tops # decoded
=============================================================================
