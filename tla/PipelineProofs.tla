--------------------------- MODULE PipelineProofs ---------------------------
(***************************************************************************)
(* Proofs about Pipeline: for every command line, every transaction and    *)
(* every bound, one inductive invariant, the run's safety properties from  *)
(* it, and that main implements the contract of Verdict.                   *)
(***************************************************************************)
EXTENDS Pipeline, ProofLemmas

-----------------------------------------------------------------------------
\* The fold of dedup_risk_flags, prefix after prefix.
LEMMA DedupUnfolds ==
  ASSUME NEW S, NEW s \in Seq(S)
  PROVE  \E c \in [0..Len(s) -> Seq(S)] :
           /\ c[0] = <<>>
           /\ \A k \in 1..Len(s) :
                c[k] = IF s[k] \in Range(c[k - 1]) THEN c[k - 1] ELSE Append(c[k - 1], s[k])
           /\ dedup_risk_flags(s) = c[Len(s)]
<1> DEFINE n == Len(s)
           X == Seq(S)
           base == <<>>
           Fits(it) == it = [t \in SUBSET (DOMAIN s) |->
                               IF t = {} THEN <<>>
                               ELSE IF s[Max(t)] \in Range(it[t \ {Max(t)}])
                                 THEN it[t \ {Max(t)}]
                                 ELSE Append(it[t \ {Max(t)}], s[Max(t)])]
           iter == CHOOSE it : Fits(it)
           next == [k \in 1..n |-> [kept \in X |->
                      IF s[k] \in Range(kept) THEN kept ELSE Append(kept, s[k])]]
<1>1. dedup_risk_flags(s) = iter[DOMAIN s]
  BY Zenon DEF dedup_risk_flags, FoldLeft, MapThenFoldSet
<1>2. n \in Nat /\ DOMAIN s = 1..n /\ \A k \in 1..n : s[k] \in S
  BY LenProperties, ElementOfSeq
<1>3. \A k \in 1..n : \A kept \in X :
        (IF s[k] \in Range(kept) THEN kept ELSE Append(kept, s[k])) \in X
  BY <1>2, AppendProperties
<1>4. next \in [1..n -> [X -> X]] /\ base \in X
  BY <1>3, EmptySeq
<1>5. PICK g \in [SUBSET (1..n) -> X] : Folds(g, base, next, n)
  <2> HIDE DEF next, n, X, base
  <2> QED BY <1>2, <1>4, FoldDefined
<1>6. Fits(g)
  <2>1. ASSUME NEW t \in SUBSET (1..n), t # {}
        PROVE  g[t] = IF s[Max(t)] \in Range(g[t \ {Max(t)}]) THEN g[t \ {Max(t)}]
                      ELSE Append(g[t \ {Max(t)}], s[Max(t)])
    <3>1. Max(t) \in 1..n /\ t \ {Max(t)} \in SUBSET (1..n)
      <4> HIDE DEF n
      <4> QED BY <2>1, <1>2, MaxProperties
    <3> QED BY <2>1, <3>1, <1>5 DEF Folds
  <2> QED BY <1>2, <1>5, <2>1 DEF Folds
<1>7. Fits(iter)
  <2> HIDE DEF Fits
  <2> QED BY <1>6
<1>8. iter[{}] = base
  BY <1>7
<1>9. ASSUME NEW k \in 1..n, iter[1..(k - 1)] \in X
      PROVE  iter[1..k] = next[k][iter[1..(k - 1)]]
  <2>1. Max(1..k) = k /\ (1..k) \ {Max(1..k)} = 1..(k - 1)
    BY <1>2, MaxOfPrefix
  <2>2. 1..k \in SUBSET (DOMAIN s) /\ 1..k # {}
    BY <1>2
  <2>3. iter[1..k] = IF s[k] \in Range(iter[1..(k - 1)]) THEN iter[1..(k - 1)]
                     ELSE Append(iter[1..(k - 1)], s[k])
    BY <1>7, <2>1, <2>2
  <2> HIDE DEF iter
  <2> QED BY <1>9, <2>3
<1>10. PICK c \in [0..n -> X] : Unrolls(c, base, next, n) /\ c[n] = iter[1..n]
  <2> HIDE DEF iter, next, n, X, base
  <2>1. OnPrefixes(iter, base, next, n, X)
    BY <1>8, <1>9 DEF OnPrefixes
  <2> QED BY <2>1, <1>2, <1>4, FoldPrefixes
<1>11. \A k \in 1..n : c[k - 1] \in X
  BY <1>2
<1> QED BY <1>1, <1>2, <1>10, <1>11 DEF Unrolls

\* dedup_risk_flags drops no flag, and leaves each one once.
LEMMA DedupProperties ==
  ASSUME NEW S, NEW s \in Seq(S)
  PROVE  /\ dedup_risk_flags(s) \in Seq(S)
         /\ Range(dedup_risk_flags(s)) = Range(s)
         /\ Distinct(dedup_risk_flags(s))
<1> DEFINE n == Len(s)
<1>1. PICK c \in [0..n -> Seq(S)] :
        /\ c[0] = <<>>
        /\ \A k \in 1..n : c[k] = IF s[k] \in Range(c[k - 1]) THEN c[k - 1]
                                  ELSE Append(c[k - 1], s[k])
        /\ dedup_risk_flags(s) = c[n]
  BY DedupUnfolds
<1>2. n \in Nat /\ Range(s) = {s[i] : i \in 1..n} /\ \A k \in 1..n : s[k] \in S
  BY LenProperties, ElementOfSeq DEF Range
<1> DEFINE Good(k) == Range(c[k]) = {s[i] : i \in 1..k} /\ Distinct(c[k])
           Bad == {k \in 0..n : ~Good(k)}
<1> HIDE DEF n
<1>3. SUFFICES ASSUME Bad # {} PROVE FALSE
  <2>1. n \in 0..n
    BY <1>2
  <2>2. Good(n) /\ c[n] \in Seq(S)
    BY <1>3, <2>1
  <2> QED BY <1>1, <1>2, <2>2
<1>4. PICK k \in Bad : \A m \in Bad : k <= m
  <2>1. Bad \in SUBSET Nat
    OBVIOUS
  <2> HIDE DEF Bad
  <2> QED BY <1>3, <2>1, Smallest
<1>5. Good(0)
  <2>1. Range(<<>>) = {} /\ Distinct(<<>>)
    BY DEF Range, Distinct
  <2>2. {s[i] : i \in 1..0} = {}
    OBVIOUS
  <2> QED BY <1>1, <2>1, <2>2
<1>6. k \in 1..n /\ k - 1 \in 0..n /\ ~(k <= k - 1)
  <2>1. k \in 0..n /\ k # 0
    BY <1>5
  <2> HIDE DEF Bad
  <2> QED BY <2>1, <1>2
<1>7. Good(k - 1) /\ c[k - 1] \in Seq(S)
  <2> HIDE DEF Good
  <2> QED BY <1>4, <1>6
<1>8. {s[i] : i \in 1..k} = {s[i] : i \in 1..(k - 1)} \cup {s[k]}
  <2>1. \A i \in 1..k : i \in 1..(k - 1) \/ i = k
    BY <1>6
  <2>2. k \in 1..k /\ \A i \in 1..(k - 1) : i \in 1..k
    BY <1>6
  <2> QED BY <2>1, <2>2
<1>9. Good(k)
  <2>1. CASE s[k] \in Range(c[k - 1])
    <3>1. c[k] = c[k - 1]
      BY <1>1, <1>6, <2>1
    <3> QED BY <3>1, <2>1, <1>7, <1>8
  <2>2. CASE s[k] \notin Range(c[k - 1])
    <3>1. c[k] = Append(c[k - 1], s[k])
      BY <1>1, <1>6, <2>2
    <3>2. s[k] \in S /\ c[k - 1] \in Seq(S) /\ Distinct(c[k - 1])
      BY <1>2, <1>6, <1>7
    <3>3. Range(c[k]) = Range(c[k - 1]) \cup {s[k]} /\ Distinct(c[k])
      <4> HIDE DEF Bad, Good
      <4> QED BY <3>1, <3>2, <2>2, AppendRange
    <3> QED BY <3>3, <1>7, <1>8
  <2> QED BY <2>1, <2>2
<1> QED BY <1>9

-----------------------------------------------------------------------------
(* The order of the stages *)

\* A stage is followed by the one behind it, since none occurs twice.
LEMMA Follows ==
  ASSUME NEW stages, NEW k \in 1..Len(stages), StagesOf(opts.mode) = stages,
         \A i \in 1..Len(stages) : stages[i] = stages[k] => i = k
  PROVE  After(stages[k]) = stages[1 + k]
<1>1. (CHOOSE i \in 1..Len(stages) : stages[i] = stages[k]) = k
  OBVIOUS
<1> QED BY <1>1 DEF After

\* The stages of an audit, one after another.
LEMMA AuditOrder ==
  ASSUME opts.mode = "audit"
  PROVE  /\ After("input") = "decode" /\ After("decode") = "lookup"
         /\ After("lookup") = "adopt" /\ After("adopt") = "targets"
         /\ After("targets") = "validate" /\ After("validate") = "meta"
         /\ After("meta") = "signatures" /\ After("signatures") = "patterns"
         /\ After("patterns") = "recheck" /\ After("recheck") = "simulate"
         /\ After("simulate") = "programs" /\ After("programs") = "tables"
         /\ After("tables") = "oracle" /\ After("oracle") = "blockhash"
         /\ After("blockhash") = "bytecode" /\ After("bytecode") = "crossref"
         /\ After("crossref") = "amounts" /\ After("amounts") = "events"
         /\ After("events") = "dedup" /\ After("dedup") = "artifacts"
         /\ After("artifacts") = "print" /\ After("print") = "exit"
<1>1. StagesOf(opts.mode) = AuditStages /\ Len(AuditStages) = 23
  BY DEF StagesOf, AuditStages
<1>2. \A i, j \in 1..Len(AuditStages) : AuditStages[i] = AuditStages[j] => i = j
  BY DEF AuditStages
<1>3. \A k \in 1..23 : After(AuditStages[k]) = AuditStages[1 + k]
  BY <1>1, <1>2, Follows, ZenonT(30)
<1>4. /\ After(AuditStages[1]) = AuditStages[2] /\ After(AuditStages[2]) = AuditStages[3]
      /\ After(AuditStages[3]) = AuditStages[4] /\ After(AuditStages[4]) = AuditStages[5]
      /\ After(AuditStages[5]) = AuditStages[6] /\ After(AuditStages[6]) = AuditStages[7]
      /\ After(AuditStages[7]) = AuditStages[8] /\ After(AuditStages[8]) = AuditStages[9]
      /\ After(AuditStages[9]) = AuditStages[10] /\ After(AuditStages[10]) = AuditStages[11]
      /\ After(AuditStages[11]) = AuditStages[12] /\ After(AuditStages[12]) = AuditStages[13]
      /\ After(AuditStages[13]) = AuditStages[14] /\ After(AuditStages[14]) = AuditStages[15]
      /\ After(AuditStages[15]) = AuditStages[16] /\ After(AuditStages[16]) = AuditStages[17]
      /\ After(AuditStages[17]) = AuditStages[18] /\ After(AuditStages[18]) = AuditStages[19]
      /\ After(AuditStages[19]) = AuditStages[20] /\ After(AuditStages[20]) = AuditStages[21]
      /\ After(AuditStages[21]) = AuditStages[22] /\ After(AuditStages[22]) = AuditStages[23]
  BY <1>3
<1> QED BY <1>4 DEF AuditStages

\* Those of a replay.
LEMMA PocOrder ==
  ASSUME opts.mode = "poc"
  PROVE  /\ After("decode") = "validate" /\ After("validate") = "patterns"
         /\ After("patterns") = "simulate" /\ After("simulate") = "crossref"
         /\ After("crossref") = "dedup" /\ After("dedup") = "print"
         /\ After("print") = "exit"
<1>1. StagesOf(opts.mode) = PocStages /\ Len(PocStages) = 8
  BY DEF StagesOf, PocStages
<1>2. \A i, j \in 1..Len(PocStages) : PocStages[i] = PocStages[j] => i = j
  BY DEF PocStages
<1>3. \A k \in 1..8 : After(PocStages[k]) = PocStages[1 + k]
  BY <1>1, <1>2, Follows
<1>4. /\ After(PocStages[1]) = PocStages[2] /\ After(PocStages[2]) = PocStages[3]
      /\ After(PocStages[3]) = PocStages[4] /\ After(PocStages[4]) = PocStages[5]
      /\ After(PocStages[5]) = PocStages[6] /\ After(PocStages[6]) = PocStages[7]
      /\ After(PocStages[7]) = PocStages[8]
  BY <1>3
<1> QED BY <1>4 DEF PocStages

\* Those of a batch's line.
LEMMA BatchOrder ==
  ASSUME opts.mode = "batch"
  PROVE  /\ After("decode") = "validate" /\ After("validate") = "patterns"
         /\ After("patterns") = "dedup" /\ After("dedup") = "tally"
         /\ After("tally") = "exit"
<1>1. StagesOf(opts.mode) = BatchStages /\ Len(BatchStages) = 6
  BY DEF StagesOf, BatchStages
<1>2. \A i, j \in 1..Len(BatchStages) : BatchStages[i] = BatchStages[j] => i = j
  BY DEF BatchStages
<1>3. \A k \in 1..6 : After(BatchStages[k]) = BatchStages[1 + k]
  BY <1>1, <1>2, Follows
<1>4. /\ After(BatchStages[1]) = BatchStages[2] /\ After(BatchStages[2]) = BatchStages[3]
      /\ After(BatchStages[3]) = BatchStages[4] /\ After(BatchStages[4]) = BatchStages[5]
      /\ After(BatchStages[5]) = BatchStages[6]
  BY <1>3
<1> QED BY <1>4 DEF BatchStages

-----------------------------------------------------------------------------
(* The inductive invariant *)

FlagSet == RiskFlag(Stages)

\* The stages of an audit up to the one named, itself included.
ToAdopt == {"input", "decode", "lookup", "adopt"}
ToTargets == ToAdopt \cup {"targets"}
ToValidate == ToTargets \cup {"validate"}
ToMeta == ToValidate \cup {"meta"}
ToBytecode == ToMeta \cup {"signatures", "patterns", "recheck", "simulate", "programs",
                           "tables", "oracle", "blockhash", "bytecode"}
ToEvents == ToBytecode \cup {"crossref", "amounts", "events"}
Ended == {"exit", "exited", "failed"}

AuditPcs == ToEvents \cup {"dedup", "artifacts", "print"} \cup Ended
PocPcs == {"decode", "validate", "patterns", "simulate", "crossref", "dedup", "print"} \cup Ended
BatchPcs == {"decode", "validate", "patterns", "dedup", "tally"} \cup Ended

\* An audit is past the stages up to some one, and did not fail.
Past(stages) == opts.mode = "audit" /\ pc \notin stages \cup {"failed"}
Within(stages) == opts.mode = "audit" /\ pc \in stages

InputsOK ==
  /\ opts \in Options /\ tx \in Transactions
  /\ tx.meta # "none" => opts.signature
  /\ opts.mode = "audit" => pc \in AuditPcs
  /\ opts.mode = "poc" => pc \in PocPcs
  /\ opts.mode = "batch" => pc \in BatchPcs

\* The flags: none before the validation, and until then nothing was written; a
\* batch counts a line's flags among the earlier ones when it is done.
FlagsOK ==
  /\ flags \in Seq(FlagSet) /\ earlier \in SUBSET FlagSet
  /\ broken \in BOOLEAN
  /\ pc \in ToValidate => flags = <<>>
  /\ opts.mode = "batch" /\ pc = "exit" => flags = <<>>
  /\ opts.mode # "batch" => earlier = {} /\ broken = FALSE

Shown == Artifacts \cup {"stdout"}

ShownOK ==
  /\ written \in Seq([to : Shown, flags : Seq(FlagSet)])
  /\ pc \notin {"artifacts", "print"} \cup Ended => written = <<>>
  /\ opts.mode = "batch" => written = <<>>
  /\ pc \in {"artifacts", "print"} => Distinct(flags)
  /\ \A i \in 1..Len(written) : Distinct(written[i].flags)

ExitCodeOf(found, failed_line) ==
  LET code == worst_severity_exit_code(found, opts.fail_on)
  IN  IF failed_line /\ code = 0 THEN 1 ELSE code

WorstOK == worst = ExitCodeOf(earlier, broken)

SchemaOK ==
  /\ fetched \in Seq(Programs) /\ looked_up \in Nat
  /\ Within({"input", "decode"}) => fetched = <<>>
  /\ Within(ToAdopt) => idl_source = "none" /\ (fetched # <<>> => opts.given = "none")
  /\ Within({"decode", "lookup", "adopt"}) => schema = opts.given /\ opts.given # "both"
  /\ Within({"lookup", "adopt"}) => decoded_with = schema
  /\ Past(ToAdopt) => /\ decoded_with = schema
                      /\ idl_source = "on-chain" <=> schema \in Programs
                      /\ idl_source = "file" <=> schema = "file"
  /\ Past(ToValidate) => validated_with = schema

LogsOK ==
  /\ opts.mode # "audit" \/ pc \in ToEvents => events = [from |-> "none", with |-> "none"]
  /\ Past(ToEvents) => events.with \in {"none", schema}
  /\ Within(ToMeta) => logs = "none"
  /\ tx.meta = "logs" => /\ Past(ToMeta) => logs = "meta"
                         /\ events.from # "simulation"

NamesOK ==
  Past(ToAdopt) => \A p \in Range(fetched) \cap DOMAIN names :
                     NamedBy(p, p) => names[p] \notin {"unnamed", "dispatch"}

FallbackOK ==
  /\ Past(ToTargets) => bytecode_targets = FallbackTargets
  /\ Within(ToBytecode) => analysed = {}
  /\ Past(ToBytecode) =>
       /\ analysed \subseteq Range(bytecode_targets)
       /\ UseNetwork => \A p \in Range(bytecode_targets) \ analysed : Undisassembled(p)

\* Whoever has been looked up was found, or has a warning; once the lookups are
\* over this is so of all the targets, as long as no report replaced the warnings.
LookupOK ==
  /\ Within({"input", "decode"}) => looked_up = 0
  /\ Within({"lookup"}) /\ AutoIdl =>
       \A i \in 1..looked_up : LET p == Targets(opts.idl_auto)[i]
                               IN  p \in Range(fetched) \/ Unfound(p)
  /\ Past({"input", "decode", "lookup"}) /\ AutoIdl /\ fetched = <<>> =>
       \A i \in 1..Len(Targets(opts.idl_auto)) : Unfound(Targets(opts.idl_auto)[i])

PipelineInv == /\ InputsOK /\ FlagsOK /\ ShownOK /\ WorstOK
               /\ SchemaOK /\ LogsOK /\ NamesOK /\ FallbackOK /\ LookupOK
-----------------------------------------------------------------------------
(* How the stages follow one another *)

\* What the command lines and the transactions are.
LEMMA Inputs ==
  ASSUME InputsOK
  PROVE  /\ opts.mode \in {"audit", "poc", "batch"} /\ opts.fail_on \in Severity
         /\ opts.given \in {"none", "file", "native", "both"}
         /\ opts.idl_auto \in Requests
         /\ tx.programs \in Seq(Programs)
<1>1. opts \in OptionRecord /\ tx \in TransactionRecord
  BY OptionsAssumption, TransactionsAssumption DEF InputsOK
<1> QED BY <1>1 DEF OptionRecord, TransactionRecord

\* A step stays at its stage, fails, or goes on to the next one; a batch goes
\* back to its next line.
LEMMA Moves ==
  ASSUME InputsOK, [Next]_vars
  PROVE  /\ UNCHANGED inputVars
         /\ \/ pc' \in {pc, "failed"}
            \/ pc \notin Ended /\ pc' = After(pc)
            \/ pc \in {"decode", "tally"} /\ opts.mode = "batch" /\ pc' \in {"decode", "exit"}
            \/ pc = "exit" /\ pc' = "exited"
<1>1. CASE Next
  <2> USE DEF At, Done, Failed, Ended
  <2>1. CASE Input BY <2>1 DEF Input
  <2>2. CASE Decode BY <2>2 DEF Decode
  <2>3. CASE Lookup BY <2>3 DEF Lookup
  <2>4. CASE LookupDone BY <2>4 DEF LookupDone
  <2>5. CASE Adopt BY <2>5 DEF Adopt
  <2>6. CASE ChooseTargets BY <2>6 DEF ChooseTargets
  <2>7. CASE Validate BY <2>7 DEF Validate
  <2>8. CASE Meta BY <2>8 DEF Meta
  <2>9. CASE Signatures BY <2>9 DEF Signatures
  <2>10. CASE Patterns BY <2>10 DEF Patterns
  <2>11. CASE Recheck BY <2>11 DEF Recheck
  <2>12. CASE Offline BY <2>12 DEF Offline, NetworkStages
  <2>13. CASE Simulate BY <2>13 DEF Simulate
  <2>14. CASE \E stage \in {"programs", "tables", "oracle", "blockhash"} : NetworkCheck(stage)
    BY <2>14 DEF NetworkCheck
  <2>15. CASE Bytecode BY <2>15 DEF Bytecode
  <2>16. CASE Crossref BY <2>16 DEF Crossref
  <2>17. CASE Amounts BY <2>17 DEF Amounts
  <2>18. CASE Events BY <2>18 DEF Events
  <2>19. CASE Dedup BY <2>19 DEF Dedup
  <2>20. CASE WriteArtifact BY <2>20 DEF WriteArtifact
  <2>21. CASE ArtifactsDone BY <2>21 DEF ArtifactsDone
  <2>22. CASE PrintReport BY <2>22 DEF PrintReport
  <2>23. CASE Tally
    <3>1. opts.mode = "batch"
      BY <2>23, Inputs DEF Tally, InputsOK, AuditPcs, PocPcs, ToEvents, ToBytecode, ToMeta,
                           ToValidate, ToTargets, ToAdopt
    <3> QED BY <2>23, <3>1 DEF Tally
  <2>24. CASE Exit BY <2>24 DEF Exit
  <2> QED BY <1>1, <2>1, <2>2, <2>3, <2>4, <2>5, <2>6, <2>7, <2>8, <2>9, <2>10, <2>11, <2>12,
             <2>13, <2>14, <2>15, <2>16, <2>17, <2>18, <2>19, <2>20, <2>21, <2>22, <2>23, <2>24
          DEF Next
<1>2. CASE UNCHANGED vars
  BY <1>2 DEF vars, inputVars
<1> QED BY <1>1, <1>2

\* Stages that only an audit has.
LEMMA AuditOnly ==
  ASSUME InputsOK, pc \in AuditPcs \ (PocPcs \cup BatchPcs)
  PROVE  opts.mode = "audit"
BY Inputs DEF InputsOK

\* In an audit, stage after stage.
LEMMA AuditMoves ==
  ASSUME InputsOK, [Next]_vars, opts.mode = "audit"
  PROVE  \/ pc' \in {pc, "failed"}
         \/ pc = "input" /\ pc' = "decode"
         \/ pc = "decode" /\ pc' = "lookup"
         \/ pc = "lookup" /\ pc' = "adopt"
         \/ pc = "adopt" /\ pc' = "targets"
         \/ pc = "targets" /\ pc' = "validate"
         \/ pc = "validate" /\ pc' = "meta"
         \/ pc = "meta" /\ pc' = "signatures"
         \/ pc \in ToBytecode \ ToMeta /\ pc' \in ToBytecode \ ToMeta
         \/ pc = "bytecode" /\ pc' = "crossref"
         \/ pc \in {"crossref", "amounts"} /\ pc' \in {"amounts", "events"}
         \/ pc = "events" /\ pc' = "dedup"
         \/ pc = "dedup" /\ pc' = "artifacts"
         \/ pc = "artifacts" /\ pc' = "print"
         \/ pc = "print" /\ pc' = "exit"
         \/ pc = "exit" /\ pc' = "exited"
<1> USE DEF ToBytecode, ToMeta, ToValidate, ToTargets, ToAdopt
<1>1. pc \in AuditPcs
  BY DEF InputsOK
<1>2. CASE pc' = After(pc) /\ pc \notin Ended
  BY <1>1, <1>2, AuditOrder DEF AuditPcs, ToEvents, Ended
<1> QED BY <1>2, Moves

\* A replay.
LEMMA PocMoves ==
  ASSUME InputsOK, [Next]_vars, opts.mode = "poc"
  PROVE  \/ pc' \in {pc, "failed"}
         \/ pc = "decode" /\ pc' = "validate"
         \/ pc = "validate" /\ pc' = "patterns"
         \/ pc = "patterns" /\ pc' = "simulate"
         \/ pc = "simulate" /\ pc' = "crossref"
         \/ pc = "crossref" /\ pc' = "dedup"
         \/ pc = "dedup" /\ pc' = "print"
         \/ pc = "print" /\ pc' = "exit"
         \/ pc = "exit" /\ pc' = "exited"
<1>1. pc \in PocPcs
  BY DEF InputsOK
<1>2. CASE pc' = After(pc) /\ pc \notin Ended
  BY <1>1, <1>2, PocOrder DEF PocPcs, Ended
<1> QED BY <1>2, Moves

\* A line of a batch.
LEMMA BatchMoves ==
  ASSUME InputsOK, [Next]_vars, opts.mode = "batch"
  PROVE  \/ pc' \in {pc, "failed"}
         \/ pc = "decode" /\ pc' = "validate"
         \/ pc = "validate" /\ pc' = "patterns"
         \/ pc = "patterns" /\ pc' = "dedup"
         \/ pc = "dedup" /\ pc' = "tally"
         \/ pc \in {"decode", "tally"} /\ pc' \in {"decode", "exit"}
         \/ pc = "exit" /\ pc' = "exited"
<1>1. pc \in BatchPcs
  BY DEF InputsOK
<1>2. CASE pc' = After(pc) /\ pc \notin Ended
  <2>1. CASE pc = "tally"
    BY <1>2, <2>1, BatchOrder
  <2> QED BY <1>1, <1>2, <2>1, BatchOrder DEF BatchPcs, Ended
<1> QED BY <1>2, Moves

\* The command line and the transaction stay, and the stage is one of the mode.
LEMMA InputsKept ==
  ASSUME InputsOK, [Next]_vars
  PROVE  InputsOK'
<1>1. opts' = opts /\ tx' = tx
  BY Moves DEF inputVars
<1>2. opts.mode = "audit" => pc' \in AuditPcs
  BY AuditMoves DEF InputsOK, AuditPcs, ToEvents, ToBytecode, ToMeta, ToValidate, ToTargets,
                    ToAdopt, Ended
<1>3. opts.mode = "poc" => pc' \in PocPcs
  BY PocMoves DEF InputsOK, PocPcs, Ended
<1>4. opts.mode = "batch" => pc' \in BatchPcs
  BY BatchMoves DEF InputsOK, BatchPcs, Ended
<1> QED BY <1>1, <1>2, <1>3, <1>4 DEF InputsOK

\* Once an audit is past a stage it stays past it, and it is past a stage only by
\* leaving it.
LEMMA Passing ==
  ASSUME InputsOK, [Next]_vars
  PROVE  /\ Past(ToAdopt)' => Past(ToAdopt) \/ pc = "adopt"
         /\ Past(ToTargets)' => Past(ToTargets) \/ pc = "targets"
         /\ Past(ToValidate)' => Past(ToValidate) \/ pc = "validate"
         /\ Past(ToMeta)' => Past(ToMeta) \/ pc = "meta"
         /\ Past(ToBytecode)' => Past(ToBytecode) \/ pc = "bytecode"
         /\ Past(ToEvents)' => Past(ToEvents) \/ pc = "events"
<1>1. opts' = opts
  BY Moves DEF inputVars
<1> QED BY <1>1, AuditMoves DEF Past, ToEvents, ToBytecode, ToMeta, ToValidate, ToTargets, ToAdopt

\* An audit that has not left a stretch of stages had not left it before.
LEMMA Remaining ==
  ASSUME InputsOK, [Next]_vars
  PROVE  /\ Within({"input", "decode"})' => Within({"input", "decode"})
         /\ Within({"decode", "lookup", "adopt"})' =>
              Within({"decode", "lookup", "adopt"}) \/ pc = "input"
         /\ Within({"lookup", "adopt"})' => Within({"lookup", "adopt"}) \/ pc = "decode"
         /\ Within(ToAdopt)' => Within(ToAdopt)
         /\ Within(ToMeta)' => Within(ToMeta)
         /\ Within(ToBytecode)' => Within(ToBytecode)
         /\ Within(ToEvents)' => Within(ToEvents)
<1>1. opts' = opts
  BY Moves DEF inputVars
<1> QED BY <1>1, AuditMoves DEF Within, ToEvents, ToBytecode, ToMeta, ToValidate, ToTargets, ToAdopt

-----------------------------------------------------------------------------
(* The schema *)

\* Which actions change what the schema facts speak of.
LEMMA SchemaFrame ==
  ASSUME [Next]_vars, ~Input, ~Decode, ~Lookup, ~Adopt, ~Validate
  PROVE  /\ UNCHANGED <<schema, decoded_with, validated_with, idl_source, fetched, looked_up>>
         /\ pc \in {"input", "decode", "adopt", "validate"} => pc' = pc
BY DEF Next, vars, inputVars, idlVars, nameVars, codeVars, runVars, gateVars, outVars, At, Asked,
       LookupDone, ChooseTargets, Meta, Signatures, Patterns, Recheck, Offline,
       NetworkStages, Simulate, NetworkCheck, Bytecode, Crossref, Amounts, Events, Dedup,
       WriteArtifact, ArtifactsDone, PrintReport, Tally, Exit

\* --idl-auto asks for programs the transaction calls, or for the one it names.
LEMMA TargetsArePrograms ==
  ASSUME InputsOK, opts.idl_auto # "off"
  PROVE  Targets(opts.idl_auto) \in Seq(Programs)
<1>1. tx.programs \in Seq(Programs) /\ opts.idl_auto \in Requests
  BY Inputs
<1>2. CASE opts.idl_auto = "all"
  <2> DEFINE n == Min({Len(tx.programs), MaxTargets})
  <2>1. Len(tx.programs) \in Nat /\ MaxTargets \in Nat
    BY <1>1, LenProperties, PipelineBoundsAssumption
  <2>2. n \in Nat /\ n <= Len(tx.programs)
    BY <2>1 DEF Min
  <2> HIDE DEF n
  <2>3. \A i \in 1..n : tx.programs[i] \in Programs
    BY <1>1, <2>1, <2>2, ElementOfSeq
  <2>4. SubSeq(tx.programs, 1, n) \in Seq(Programs)
    BY <1>1, <2>1, <2>2, <2>3, SubSeqProperties
  <2> QED BY <1>2, <2>4 DEF Targets, n
<1>3. CASE opts.idl_auto # "all"
  BY <1>1, <1>3 DEF Targets, Requests
<1> QED BY <1>2, <1>3

\* The schema is chosen once, before the validation, and everything is decoded with it.
LEMMA SchemaKept ==
  ASSUME InputsOK, SchemaOK, [Next]_vars
  PROVE  SchemaOK'
<1> USE DEF At
<1>1. opts' = opts /\ InputsOK'
  BY Moves, InputsKept DEF inputVars
<1>2. CASE Input
  BY <1>1, <1>2, AuditOrder
     DEF Input, SchemaOK, Within, Past, ToAdopt, ToTargets, ToValidate, Done, Failed, InputsOK,
         PocPcs, BatchPcs, Ended
<1>3. CASE Decode
  BY <1>1, <1>3, AuditOrder
     DEF Decode, SchemaOK, Within, Past, ToAdopt, ToTargets, ToValidate, Done, Failed
<1>4. CASE Lookup
  <2> DEFINE p == Targets(opts.idl_auto)[looked_up + 1]
  <2>1. fetched' \in {fetched, Append(fetched, p)} /\ AutoIdl /\ pc = "lookup"
        /\ UNCHANGED <<pc, schema, decoded_with, validated_with, idl_source>>
        /\ looked_up \in Nat /\ looked_up' = looked_up + 1
        /\ looked_up < Len(Targets(opts.idl_auto))
    BY <1>4 DEF Lookup, SchemaOK
  <2>2. fetched' \in Seq(Programs)
    <3>1. Targets(opts.idl_auto) \in Seq(Programs)
      BY <2>1, TargetsArePrograms DEF AutoIdl
    <3>2. p \in Programs
      <4>1. looked_up + 1 \in 1..Len(Targets(opts.idl_auto))
        BY <2>1, <3>1, LenProperties
      <4> QED BY <3>1, <4>1, ElementOfSeq
    <3> HIDE DEF p
    <3> QED BY <2>1, <3>2, AppendProperties DEF SchemaOK
  <2>3. opts.mode = "audit"
    BY <2>1, AuditOnly DEF AuditPcs, PocPcs, BatchPcs, Ended, ToEvents, ToBytecode, ToMeta,
                           ToValidate, ToTargets, ToAdopt
  <2>4. opts.given = "none"
    BY <2>1, <2>3 DEF SchemaOK, Within, AutoIdl
  <2> QED BY <1>1, <2>1, <2>2, <2>4 DEF SchemaOK, Within, Past, ToAdopt, ToTargets, ToValidate
<1>5. CASE Adopt
  <2>1. opts.mode = "audit" /\ pc = "adopt"
    BY <1>5, AuditOnly DEF Adopt, AuditPcs, PocPcs, BatchPcs, Ended, ToEvents, ToBytecode, ToMeta,
                           ToValidate, ToTargets, ToAdopt
  <2>2. pc' = "targets" /\ UNCHANGED <<validated_with, fetched, looked_up>>
    BY <1>5, <2>1, AuditOrder DEF Adopt, Done
  <2>3. decoded_with' = schema' /\ (idl_source' = "on-chain" <=> schema' \in Programs)
        /\ (idl_source' = "file" <=> schema' = "file")
    <3>1. schema = opts.given /\ decoded_with = schema /\ idl_source = "none"
      BY <2>1 DEF SchemaOK, Within, ToAdopt
    <3>2. CASE fetched # <<>>
      <4>1. Head(fetched) \in Programs
        BY <3>2, HeadTailProperties DEF SchemaOK
      <4>2. schema' = Head(fetched) /\ decoded_with' = Head(fetched) /\ idl_source' = "on-chain"
        BY <1>5, <3>2 DEF Adopt, Redecoded
      <4> QED BY <4>1, <4>2, TransactionsAssumption
    <3>3. CASE fetched = <<>>
      <4>1. UNCHANGED <<schema, decoded_with>>
            /\ idl_source' = IF opts.given = "file" THEN "file" ELSE idl_source
        BY <1>5, <3>3 DEF Adopt
      <4>2. schema \in {"none", "file", "native"}
        BY <3>1, <2>1, Inputs DEF SchemaOK, Within
      <4> QED BY <3>1, <4>1, <4>2, TransactionsAssumption
    <3> QED BY <3>2, <3>3
  <2> QED BY <1>1, <2>1, <2>2, <2>3 DEF SchemaOK, Within, Past, ToAdopt, ToTargets, ToValidate
<1>6. CASE Validate
  BY <1>1, <1>6, Passing, Remaining DEF Validate, SchemaOK, Within, Past, ToAdopt, ToTargets,
                                        ToValidate
<1>7. CASE ~Input /\ ~Decode /\ ~Lookup /\ ~Adopt /\ ~Validate
  <2>1. /\ UNCHANGED <<schema, decoded_with, validated_with, idl_source, fetched, looked_up>>
        /\ pc \in {"input", "decode", "adopt", "validate"} => pc' = pc
    BY <1>7, SchemaFrame
  <2> QED BY <1>1, <2>1, Passing, Remaining
             DEF SchemaOK, Past, Within, ToAdopt, ToValidate, ToTargets
<1> QED BY <1>2, <1>3, <1>4, <1>5, <1>6, <1>7

-----------------------------------------------------------------------------
(* The logs and the events *)

\* The steps that leave the logs and the events alone.
LEMMA LogsFrame ==
  ASSUME [Next]_vars, ~Input, ~Adopt, ~Meta, ~Simulate, ~Events
  PROVE  /\ UNCHANGED <<schema, logs, events>>
         /\ pc \in {"meta", "events"} => pc' = pc
BY DEF Next, vars, inputVars, idlVars, nameVars, codeVars, runVars, gateVars, outVars, At, Asked,
       Decode, Lookup, LookupDone, ChooseTargets, Validate, Signatures, Patterns, Recheck, Offline,
       NetworkStages, NetworkCheck, Bytecode, Crossref, Amounts, Dedup,
       WriteArtifact, ArtifactsDone, PrintReport, Tally, Exit

\* The logs of the metadata, once there, are not replaced by a simulation's.
LEMMA LogsKept ==
  ASSUME InputsOK, LogsOK, [Next]_vars
  PROVE  LogsOK'
<1> USE DEF At
<1>1. opts' = opts /\ tx' = tx
  BY Moves DEF inputVars
<1>2. opts.mode = "audit" => (Within(ToEvents)' => Within(ToEvents))
  BY Remaining
<1>3. CASE Input \/ Adopt
  BY <1>1, <1>3, Passing, Remaining
     DEF Input, Adopt, LogsOK, Within, Past, ToAdopt, ToTargets, ToValidate, ToMeta, ToBytecode,
         ToEvents, runVars
<1>4. CASE Meta
  <2>1. opts.mode = "audit" /\ pc = "meta"
    BY <1>4, AuditOnly DEF Meta, AuditPcs, PocPcs, BatchPcs, Ended, ToEvents, ToBytecode, ToMeta,
                           ToValidate, ToTargets, ToAdopt
  <2>2. pc' = "signatures"
    BY <1>4, <2>1, AuditOrder DEF Meta, Done
  <2>3. tx.meta = "logs" => logs' = "meta"
    BY <1>4 DEF Meta, InputsOK
  <2> QED BY <1>1, <1>4, <2>1, <2>2, <2>3
          DEF Meta, LogsOK, Within, Past, ToAdopt, ToTargets, ToValidate, ToMeta, ToBytecode, ToEvents
<1>5. CASE Simulate
  <2>1. pc = "simulate" /\ UNCHANGED <<schema, events>> /\ logs' \in {logs, LogsAfter}
    BY <1>5 DEF Simulate, idlVars
  <2>2. logs = "meta" => logs' = "meta"
    BY <2>1 DEF LogsAfter
  <2> QED BY <1>1, <2>1, <2>2, Passing, Remaining
          DEF LogsOK, Within, Past, ToAdopt, ToTargets, ToValidate, ToMeta, ToBytecode, ToEvents
<1>6. CASE Events
  <2>1. opts.mode = "audit" /\ pc = "events"
    BY <1>6, AuditOnly DEF Events, AuditPcs, PocPcs, BatchPcs, Ended, ToEvents, ToBytecode, ToMeta,
                           ToValidate, ToTargets, ToAdopt
  <2>2. pc' = "dedup" /\ UNCHANGED <<schema, logs>>
    BY <1>6, <2>1, AuditOrder DEF Events, Done, idlVars
  <2>3. events' \in {events, [from |-> logs, with |-> schema]}
    BY <1>6 DEF Events
  <2>4. tx.meta = "logs" => logs = "meta"
    BY <2>1 DEF LogsOK, Past, ToMeta, ToValidate, ToTargets, ToAdopt
  <2> QED BY <1>1, <2>1, <2>2, <2>3, <2>4
          DEF LogsOK, Within, Past, ToAdopt, ToTargets, ToValidate, ToMeta, ToBytecode, ToEvents
<1>7. CASE ~Input /\ ~Adopt /\ ~Meta /\ ~Simulate /\ ~Events
  <2>1. UNCHANGED <<schema, logs, events>> /\ (pc \in {"meta", "events"} => pc' = pc)
    BY <1>7, LogsFrame
  <2> QED BY <1>1, <2>1, Passing, Remaining
             DEF LogsOK, Past, Within, ToMeta, ToEvents, ToBytecode, ToValidate, ToTargets,
                 ToAdopt
<1> QED BY <1>3, <1>4, <1>5, <1>6, <1>7

-----------------------------------------------------------------------------
(* The names of the instructions, and the bytecode fallback *)

\* The steps that leave the names alone.
LEMMA NamesFrame ==
  ASSUME [Next]_vars, ~Decode, ~Lookup, ~Adopt, ~Bytecode
  PROVE  UNCHANGED <<names, fetched>> /\ (pc = "adopt" => pc' = pc)
BY DEF Next, vars, inputVars, idlVars, nameVars, codeVars, runVars, gateVars, outVars, At, Asked,
       Input, LookupDone, ChooseTargets, Validate, Meta, Signatures, Patterns, Recheck, Offline,
       NetworkStages, Simulate, NetworkCheck, Crossref, Amounts, Events, Dedup,
       WriteArtifact, ArtifactsDone, PrintReport, Tally, Exit

\* A program whose IDL was fetched keeps the name it gave, the disassembly's included.
LEMMA NamesKept ==
  ASSUME InputsOK, SchemaOK, NamesOK, [Next]_vars
  PROVE  NamesOK'
<1> USE DEF At
<1>1. opts' = opts /\ tx' = tx
  BY Moves DEF inputVars
<1>2. CASE Decode \/ Lookup
  BY <1>1, <1>2, Passing DEF Decode, Lookup, NamesOK, Past, ToAdopt
<1>3. CASE Adopt
  <2>1. SUFFICES ASSUME NEW p \in Range(fetched), p \in DOMAIN names', NamedBy(p, p)
                 PROVE  names'[p] \notin {"unnamed", "dispatch"}
    BY <1>3 DEF NamesOK, Adopt, NamedBy
  <2>2. fetched \in Seq(Programs) /\ fetched # <<>> /\ p \in Programs
    <3>1. fetched \in Seq(Programs)
      BY DEF SchemaOK
    <3> QED BY <2>1, <3>1, LenProperties, ElementOfSeq, EmptySeq DEF Range
  <2> DEFINE primary == Head(fetched)
  <2>3. primary \in Programs /\ p \in {primary} \cup Range(Tail(fetched))
    <3>1. /\ Len(fetched) \in Nat /\ Len(fetched) >= 1 /\ DOMAIN fetched = 1..Len(fetched)
          /\ Head(fetched) = fetched[1] /\ Head(fetched) \in Programs
          /\ Tail(fetched) \in Seq(Programs) /\ Len(Tail(fetched)) = Len(fetched) - 1
          /\ \A i \in 1..(Len(fetched) - 1) : Tail(fetched)[i] = fetched[i + 1]
      BY <2>2, HeadTailProperties, LenProperties, EmptySeq
    <3>2. PICK i \in 1..Len(fetched) : p = fetched[i]
      BY <2>1, <3>1 DEF Range
    <3>3. CASE i = 1
      BY <3>1, <3>2, <3>3
    <3>4. CASE i # 1
      <4>1. i - 1 \in 1..(Len(fetched) - 1) /\ (i - 1) + 1 = i
        BY <3>1, <3>2, <3>4
      <4>2. Tail(fetched)[i - 1] = p
        BY <3>1, <3>2, <4>1
      <4>3. DOMAIN Tail(fetched) = 1..(Len(fetched) - 1)
        BY <3>1, LenProperties
      <4> QED BY <3>1, <4>1, <4>2, <4>3 DEF Range
    <3> QED BY <3>1, <3>3, <3>4
  <2>4. names' = SecondaryNames(primary)
    BY <1>3, <2>2 DEF Adopt
  <2>5. p \in Range(tx.programs)
    BY <2>1, <2>4 DEF SecondaryNames
  <2>6. names'[p] \in {p, primary}
    <3> HIDE DEF primary
    <3> QED BY <2>1, <2>3, <2>4, <2>5 DEF SecondaryNames, TopNames
  <2> QED BY <2>2, <2>3, <2>6, TransactionsAssumption
<1>4. CASE Bytecode
  <2>1. UNCHANGED fetched /\ pc = "bytecode"
    BY <1>4 DEF Bytecode, idlVars
  <2>2. Past(ToAdopt)' => Past(ToAdopt)
    BY <2>1, Passing
  <2>3. CASE UNCHANGED names
    BY <1>1, <2>1, <2>2, <2>3 DEF NamesOK, NamedBy
  <2>4. ASSUME NEW dispatched \in SUBSET {p \in DOMAIN names : names[p] = "unnamed"},
               names' = [p \in DOMAIN names |-> IF p \in dispatched THEN "dispatch" ELSE names[p]]
        PROVE  NamesOK'
    BY <1>1, <2>1, <2>2, <2>4 DEF NamesOK, NamedBy
  <2> QED BY <1>4, <2>3, <2>4 DEF Bytecode
<1>5. CASE ~Decode /\ ~Lookup /\ ~Adopt /\ ~Bytecode
  BY <1>1, <1>5, NamesFrame, Passing DEF NamesOK, Past, ToAdopt, NamedBy
<1> QED BY <1>2, <1>3, <1>4, <1>5

\* The steps that leave the fallback alone, and those that drop warnings.
LEMMA FallbackFrame ==
  ASSUME [Next]_vars, ~Lookup, ~ChooseTargets, ~Bytecode
  PROVE  /\ UNCHANGED <<bytecode_targets, analysed, fetched>>
         /\ warnings \subseteq warnings' \/ pc = "adopt"
         /\ pc = "targets" => pc' = pc
         /\ pc = "bytecode" => pc' = pc \/ ~UseNetwork
BY DEF Next, vars, inputVars, idlVars, nameVars, codeVars, runVars, gateVars, outVars, At, Asked,
       Input, Decode, LookupDone, Adopt, Validate, Meta, Signatures, Patterns, Recheck, Offline,
       NetworkStages, Simulate, NetworkCheck, Crossref, Amounts, Events, Dedup,
       WriteArtifact, ArtifactsDone, PrintReport, Tally, Exit

\* The fallback works on the targets chosen when the lookups were over.
LEMMA FallbackKept ==
  ASSUME InputsOK, FallbackOK, [Next]_vars
  PROVE  FallbackOK'
<1> USE DEF At
<1>1. opts' = opts /\ tx' = tx /\ UseNetwork' = UseNetwork
  BY Moves DEF inputVars, UseNetwork
<1>2. fetched' = fetched => FallbackTargets' = FallbackTargets
  BY <1>1 DEF FallbackTargets, Targets
<1>3. CASE Lookup
  BY <1>1, <1>3 DEF Lookup, FallbackOK, Past, Within, ToAdopt, ToTargets, ToValidate, ToMeta,
                    ToBytecode, codeVars
<1>4. CASE ChooseTargets
  <2>1. fetched' = fetched /\ bytecode_targets' = FallbackTargets /\ analysed' = analysed
    BY <1>4 DEF ChooseTargets, idlVars
  <2>2. pc = "targets" /\ opts.mode = "audit"
    BY <1>4, AuditOnly
       DEF ChooseTargets, AuditPcs, PocPcs, BatchPcs, Ended, ToEvents, ToBytecode, ToMeta,
                           ToValidate, ToTargets, ToAdopt
  <2>3. pc' = "validate"
    BY <1>4, <2>2, AuditOrder DEF ChooseTargets, Done
  <2> QED BY <1>1, <1>2, <2>1, <2>2, <2>3
          DEF FallbackOK, Past, Within, ToAdopt, ToTargets, ToValidate, ToMeta, ToBytecode
<1>5. CASE Bytecode
  <2>1. fetched' = fetched /\ bytecode_targets' = bytecode_targets /\ pc = "bytecode"
        /\ opts.mode = "audit"
    BY <1>5, AuditOnly DEF Bytecode, idlVars, AuditPcs, PocPcs, BatchPcs, Ended, ToEvents,
                           ToBytecode, ToMeta, ToValidate, ToTargets, ToAdopt
  <2>2. pc' = "crossref"
    BY <1>5, <2>1, AuditOrder DEF Bytecode, Done
  <2>3. /\ analysed' \subseteq Range(bytecode_targets)
        /\ \A p \in Range(bytecode_targets) \ analysed' : Undisassembled(p)'
    <3>1. CASE bytecode_targets = <<>>
      <4>1. Range(bytecode_targets) = {}
        BY <3>1 DEF Range
      <4>2. analysed' = {}
        BY <1>5, <2>1, <3>1 DEF Bytecode, FallbackOK, Within, ToBytecode
      <4> QED BY <4>1, <4>2
    <3>2. CASE bytecode_targets # <<>>
      <4>1. CASE /\ warnings' = warnings \cup {<<"bytecode", "not installed">>}
                 /\ analysed' = analysed
        <5>1. analysed' = {}
          BY <2>1, <4>1 DEF FallbackOK, Within, ToBytecode
        <5> QED BY <4>1, <5>1 DEF Undisassembled
      <4>2. CASE \E done \in SUBSET Range(bytecode_targets) :
                   /\ analysed' = done
                   /\ warnings' = warnings \cup {<<"bytecode", p>> : p \in Range(bytecode_targets) \ done}
        BY <4>2 DEF Undisassembled
      <4> QED BY <1>5, <3>2, <4>1, <4>2 DEF Bytecode
    <3> QED BY <3>1, <3>2
  <2> QED BY <1>1, <1>2, <2>1, <2>2, <2>3
          DEF FallbackOK, Past, Within, ToAdopt, ToTargets, ToValidate, ToMeta, ToBytecode
<1>6. CASE ~Lookup /\ ~ChooseTargets /\ ~Bytecode
  <2>1. /\ UNCHANGED <<bytecode_targets, analysed, fetched>>
        /\ warnings \subseteq warnings' \/ pc = "adopt"
        /\ pc = "targets" => pc' = pc
        /\ pc = "bytecode" => pc' = pc \/ ~UseNetwork
    BY <1>6, FallbackFrame
  <2>2. Past(ToTargets)' => Past(ToTargets)
    BY <1>1, <2>1, Passing DEF Past, ToTargets
  <2>3. Within(ToBytecode)' => Within(ToBytecode)
    BY Remaining
  <2>4. Past(ToBytecode)' => Past(ToBytecode) \/ (Within(ToBytecode) /\ ~UseNetwork)
    BY <1>1, <2>1, Passing DEF Past, Within, ToBytecode
  <2>5. Past(ToBytecode) => pc # "adopt"
    BY DEF Past, ToBytecode, ToMeta, ToValidate, ToTargets, ToAdopt
  <2>6. Past(ToBytecode) => \A p : Undisassembled(p) => Undisassembled(p)'
    BY <2>1, <2>5 DEF Undisassembled
  <2> QED BY <1>1, <1>2, <2>1, <2>2, <2>3, <2>4, <2>6 DEF FallbackOK
<1> QED BY <1>3, <1>4, <1>5, <1>6

\* The steps other than a lookup keep what is known of the lookups, or come before them.
LEMMA LookupFrame ==
  ASSUME [Next]_vars, ~Lookup
  PROVE  /\ UNCHANGED <<fetched, looked_up>>
         /\ schema' = schema \/ pc \in {"input", "adopt"}
         /\ fetched = <<>> /\ pc # "input" => schema' = schema
         /\ warnings \subseteq warnings' \/ (pc = "adopt" /\ fetched # <<>>)
         /\ pc = "lookup" /\ pc' # pc => ~AutoIdl \/ looked_up = Len(Targets(opts.idl_auto))
BY DEF Next, vars, inputVars, idlVars, nameVars, codeVars, runVars, gateVars, outVars, At, Asked,
       Input, Decode, LookupDone, Adopt, ChooseTargets, Validate, Meta, Signatures, Patterns,
       Recheck, Offline, NetworkStages, Simulate, NetworkCheck, Bytecode, Crossref, Amounts,
       Events, Dedup, WriteArtifact, ArtifactsDone, PrintReport, Tally, Exit

\* A lookup accounts for one more target, and the warnings stay until a report with
\* an IDL replaces this one.
LEMMA LookupKept ==
  ASSUME InputsOK, SchemaOK, LookupOK, [Next]_vars
  PROVE  LookupOK'
<1> USE DEF At
<1>1. opts' = opts /\ tx' = tx /\ \A r : Targets(r)' = Targets(r)
  BY Moves DEF inputVars, Targets
<1>2. fetched \in Seq(Programs) /\ looked_up \in Nat
  BY DEF SchemaOK
<1>3. PICK all : all = Targets(opts.idl_auto) /\ all = Targets(opts.idl_auto)'
  BY <1>1
<1>4. SUFFICES /\ Within({"input", "decode"})' => looked_up' = 0
               /\ Within({"lookup"})' /\ AutoIdl' =>
                    \A i \in 1..looked_up' : all[i] \in Range(fetched') \/ Unfound(all[i])'
               /\ Past({"input", "decode", "lookup"})' /\ AutoIdl' /\ fetched' = <<>> =>
                    \A i \in 1..Len(all) : Unfound(all[i])'
  BY <1>3 DEF LookupOK
<1>5. /\ Within({"input", "decode"}) => looked_up = 0
      /\ Within({"lookup"}) /\ AutoIdl =>
           \A i \in 1..looked_up : all[i] \in Range(fetched) \/ Unfound(all[i])
      /\ Past({"input", "decode", "lookup"}) /\ AutoIdl /\ fetched = <<>> =>
           \A i \in 1..Len(all) : Unfound(all[i])
  BY <1>3 DEF LookupOK
<1>6. CASE Lookup
  <2>1. /\ AutoIdl /\ pc = "lookup" /\ pc' = pc /\ schema' = schema
        /\ looked_up < Len(all) /\ looked_up' = looked_up + 1
    BY <1>3, <1>6 DEF Lookup
  <2>2. /\ \/ fetched' = Append(fetched, all[looked_up + 1]) /\ warnings' = warnings
           \/ \E what \in {"no IDL", "lookup failed"} :
                /\ warnings' = warnings \cup {<<what, all[looked_up + 1]>>}
                /\ fetched' = fetched
    BY <1>3, <1>6 DEF Lookup
  <2>3. PICK p \in Programs : p = all[looked_up + 1]
    <3>1. all \in Seq(Programs)
      BY <1>3, <2>1, TargetsArePrograms DEF AutoIdl
    <3>2. looked_up + 1 \in 1..Len(all)
      BY <1>2, <2>1, <3>1, LenProperties
    <3> QED BY <3>1, <3>2, ElementOfSeq
  <2>4. Range(fetched) \subseteq Range(fetched') /\ (p \in Range(fetched') \/ Unfound(p)')
    <3>1. CASE fetched' = Append(fetched, p)
      <4>1. Range(fetched') = Range(fetched) \cup {p}
        BY <1>2, <2>3, <3>1, AppendRange
      <4> QED BY <4>1
    <3>2. CASE fetched' # Append(fetched, p)
      BY <2>2, <2>3, <3>2 DEF Unfound
    <3> QED BY <3>1, <3>2
  <2>5. \A q : Unfound(q) => Unfound(q)'
    BY <2>2 DEF Unfound
  <2>6. ASSUME Within({"lookup"})', NEW i \in 1..looked_up'
        PROVE  all[i] \in Range(fetched') \/ Unfound(all[i])'
    <3>1. CASE i \in 1..looked_up
      <4>1. Within({"lookup"})
        BY <1>1, <2>1, <2>6 DEF Within
      <4> QED BY <1>5, <2>1, <2>4, <2>5, <3>1, <4>1
    <3>2. CASE i = looked_up + 1
      BY <2>3, <2>4, <3>2
    <3> QED BY <1>2, <2>1, <2>6, <3>1, <3>2
  <2> QED BY <1>1, <2>1, <2>6 DEF Within, Past
<1>7. CASE ~Lookup
  <2>1. /\ fetched' = fetched /\ looked_up' = looked_up
        /\ schema' = schema \/ pc \in {"input", "adopt"}
        /\ fetched = <<>> /\ pc # "input" => schema' = schema
        /\ warnings \subseteq warnings' \/ (pc = "adopt" /\ fetched # <<>>)
        /\ pc = "lookup" /\ pc' # pc => ~AutoIdl \/ looked_up = Len(all)
    BY <1>3, <1>7, LookupFrame
  <2>2. Within({"input", "decode"})' => Within({"input", "decode"})
    BY Remaining
  <2>3. schema' = schema => AutoIdl' = AutoIdl
    BY <1>1 DEF AutoIdl
  <2>4. warnings \subseteq warnings' => \A q : Unfound(q) => Unfound(q)'
    BY DEF Unfound
  <2>5. ASSUME Within({"lookup"})', AutoIdl', NEW i \in 1..looked_up
        PROVE  all[i] \in Range(fetched) \/ Unfound(all[i])'
    <3>1. CASE Within({"lookup"})
      <4>1. schema' = schema /\ warnings \subseteq warnings'
        BY <2>1, <3>1 DEF Within
      <4> QED BY <1>5, <2>3, <2>4, <2>5, <3>1, <4>1
    <3>2. CASE ~Within({"lookup"})
      <4>1. Within({"input", "decode"})
        BY <1>1, <2>5, <3>2, AuditMoves
           DEF Within, ToBytecode, ToMeta, ToValidate, ToTargets, ToAdopt
      <4> QED BY <1>5, <2>5, <4>1
    <3> QED BY <3>1, <3>2
  <2>6. ASSUME Past({"input", "decode", "lookup"})', AutoIdl', fetched = <<>>,
               NEW i \in 1..Len(all)
        PROVE  Unfound(all[i])'
    <3>1. pc \notin {"input", "decode", "failed"} /\ opts.mode = "audit"
      BY <1>1, <2>6, AuditMoves
         DEF Past, ToBytecode, ToMeta, ToValidate, ToTargets, ToAdopt
    <3>2. schema' = schema /\ warnings \subseteq warnings' /\ AutoIdl
      BY <2>1, <2>3, <2>6, <3>1
    <3>3. Unfound(all[i])
      <4>1. CASE pc = "lookup"
        <5>1. pc' # pc
          BY <2>6, <4>1 DEF Past
        <5>2. looked_up = Len(all) /\ Within({"lookup"})
          BY <2>1, <3>1, <3>2, <4>1, <5>1 DEF Within
        <5>3. Range(fetched) = {}
          BY <2>6 DEF Range
        <5> QED BY <1>5, <2>6, <3>2, <5>2, <5>3
      <4>2. CASE pc # "lookup"
        BY <1>5, <2>6, <3>1, <3>2, <4>2 DEF Past
      <4> QED BY <4>1, <4>2
    <3> QED BY <2>4, <3>2, <3>3
  <2>7. Within({"input", "decode"})' => looked_up' = 0
    BY <1>5, <2>1, <2>2
  <2> QED BY <2>1, <2>5, <2>6, <2>7
<1> QED BY <1>6, <1>7

-----------------------------------------------------------------------------
(* The flags, and the exit code they earn *)

\* No flags, no findings.
LEMMA EmptyRange == Range(<<>>) = {}
BY DEF Range

\* What a stage raises are flags of the report.
LEMMA RaisedFlags ==
  ASSUME NEW stage \in Stages, NEW raised \in Raises(stage)
  PROVE  raised \in Seq(FlagSet)
<1>1. \A f \in FlagsOf(stage) : f \in FlagSet
  BY DEF FlagsOf, FlagSet, RiskFlag
<1>2. CASE raised = <<>>
  BY <1>2, EmptySeq
<1>3. ASSUME NEW f \in FlagsOf(stage), raised \in {<<f>>, <<f, f>>}
      PROVE  raised \in Seq(FlagSet)
  <2>1. f \in FlagSet
    BY <1>1
  <2>2. <<f>> \in Seq(FlagSet) /\ <<f, f>> \in Seq(FlagSet)
    BY <2>1
  <2> QED BY <1>3, <2>2
<1>4. raised = <<>> \/ \E f \in FlagsOf(stage) : raised \in {<<f>>, <<f, f>>}
  BY DEF Raises
<1> QED BY <1>2, <1>3, <1>4

\* The stages that raise flags.
LEMMA StageNames ==
  {"validate", "patterns", "signatures", "programs", "tables", "oracle", "blockhash",
   "crossref"} \subseteq Stages
<1>1. /\ AuditStages[6] = "validate" /\ AuditStages[8] = "signatures"
      /\ AuditStages[9] = "patterns" /\ AuditStages[12] = "programs" /\ AuditStages[13] = "tables"
      /\ AuditStages[14] = "oracle" /\ AuditStages[15] = "blockhash" /\ AuditStages[17] = "crossref"
      /\ DOMAIN AuditStages = 1..23
  BY DEF AuditStages
<1>2. {AuditStages[i] : i \in 1..23} \subseteq Stages
  BY <1>1 DEF Stages, Range
<1> QED BY <1>1, <1>2

\* A stage adds to the flags.
LEMMA Raising ==
  ASSUME flags \in Seq(FlagSet), NEW stage \in Stages, Raise(stage)
  PROVE  flags' \in Seq(FlagSet) /\ Range(flags) \subseteq Range(flags')
<1>1. PICK raised \in Raises(stage) : flags' = flags \o raised
  BY DEF Raise
<1>2. raised \in Seq(FlagSet)
  BY RaisedFlags
<1> QED BY <1>1, <1>2, ConcatProperties, RangeConcatenation

\* The exit code, without CASE.
LEMMA ExitCodes ==
  ASSUME NEW found \in SUBSET FlagSet, NEW min \in Severity
  PROVE  worst_severity_exit_code(found, min) =
           IF \E f \in Counted(found, min) : f.severity = "Critical" THEN 2
           ELSE IF Counted(found, min) # {} THEN 1 ELSE 0
<1> DEFINE counted == Counted(found, min)
           critical == \E f \in counted : f.severity = "Critical"
           code == worst_severity_exit_code(found, min)
<1>1. code = CASE critical -> 2
               [] counted # {} /\ ~critical -> 1
               [] counted = {} -> 0
  <2>1. (\A f \in counted : f.severity # "Critical") <=> ~critical
    OBVIOUS
  <2> QED BY <2>1 DEF worst_severity_exit_code
<1>2. critical => counted # {}
  OBVIOUS
<1> HIDE DEF counted, critical, code
<1>3. critical => code = 2
  BY <1>1, <1>2, Zenon
<1>4. ~critical /\ counted # {} => code = 1
  BY <1>1, <1>2, Zenon
<1>5. counted = {} => code = 0
  BY <1>1, <1>2, Zenon
<1>6. code = IF critical THEN 2 ELSE IF counted # {} THEN 1 ELSE 0
  BY <1>2, <1>3, <1>4, <1>5
<1> QED BY <1>6 DEF counted, critical, code

\* The greater of two numbers.
LEMMA MaxOfTwo ==
  ASSUME NEW a \in Nat, NEW b \in Nat
  PROVE  Max({a, b}) = IF a >= b THEN a ELSE b
<1> DEFINE m == IF a >= b THEN a ELSE b
<1>1. m \in {a, b} /\ \A x \in {a, b} : m >= x
  OBVIOUS
<1>2. \A y \in {a, b} : (\A x \in {a, b} : y >= x) => y = m
  OBVIOUS
<1> HIDE DEF m
<1> QED BY <1>1, <1>2 DEF Max, m

\* The worst of two sets of flags together is the worse of the two.
LEMMA WorseOfTwo ==
  ASSUME NEW A \in SUBSET FlagSet, NEW B \in SUBSET FlagSet, NEW min \in Severity
  PROVE  /\ worst_severity_exit_code(A, min) \in 0..2
         /\ worst_severity_exit_code(A \cup B, min) =
              Max({worst_severity_exit_code(A, min), worst_severity_exit_code(B, min)})
<1>1. Counted(A \cup B, min) = Counted(A, min) \cup Counted(B, min)
  BY DEF Counted
<1> DEFINE CodeOf(C) == IF \E f \in C : f.severity = "Critical" THEN 2
                        ELSE IF C # {} THEN 1 ELSE 0
           a == Counted(A, min)
           b == Counted(B, min)
<1>2. /\ worst_severity_exit_code(A, min) = CodeOf(a)
      /\ worst_severity_exit_code(B, min) = CodeOf(b)
      /\ worst_severity_exit_code(A \cup B, min) = CodeOf(a \cup b)
  BY <1>1, ExitCodes
<1> HIDE DEF a, b
<1>3. CodeOf(a) \in 0..2 /\ CodeOf(b) \in 0..2
  OBVIOUS
<1>4. CodeOf(a \cup b) = IF CodeOf(a) >= CodeOf(b) THEN CodeOf(a) ELSE CodeOf(b)
  OBVIOUS
<1>5. CodeOf(a) \in Nat /\ CodeOf(b) \in Nat
  BY <1>3
<1> HIDE DEF CodeOf
<1> QED BY <1>2, <1>3, <1>4, <1>5, MaxOfTwo

\* The steps that leave the flags and the verdict alone.
LEMMA FlagsFrame ==
  ASSUME [Next]_vars, ~Decode, ~Adopt, ~Validate, ~Signatures, ~Patterns,
         \A stage \in {"programs", "tables", "oracle", "blockhash"} : ~NetworkCheck(stage),
         ~Crossref, ~Dedup, ~Tally
  PROVE  UNCHANGED <<flags, earlier, broken, worst>> /\ (pc = "tally" => pc' = pc)
BY DEF Next, At, vars, inputVars, idlVars, nameVars, codeVars, runVars, gateVars, outVars,
       Input, Lookup, LookupDone, ChooseTargets, Meta, Recheck, Offline, NetworkStages, Simulate, Bytecode,
       Amounts, Events, WriteArtifact, ArtifactsDone, PrintReport, Exit

\* Back before the validation only from the end of a line.
LEMMA Early ==
  ASSUME InputsOK, [Next]_vars, pc' \in ToValidate
  PROVE  pc \in ToValidate \/ pc = "tally"
BY Inputs, AuditMoves, PocMoves, BatchMoves
   DEF ToBytecode, ToMeta, ToValidate, ToTargets, ToAdopt

\* A step changes the flags in one of these ways.
FlagsStay == UNCHANGED <<flags, earlier, broken, worst>> /\ (pc = "tally" => pc' = pc)
FlagsAdded == /\ pc \notin Ended \cup {"artifacts", "print"} /\ pc' = After(pc)
              /\ pc' \notin ToValidate \cup Ended
              /\ UNCHANGED <<earlier, broken, worst, written>>
              /\ \A f \in Range(flags) \ Range(flags') : f.what = "high_cu"
LineBroken == /\ opts.mode = "batch" /\ pc = "decode" /\ pc' \in {"decode", "exit"}
              /\ broken' = TRUE
              /\ worst' = Max({worst, 1}) /\ UNCHANGED <<flags, earlier, written>>
LineDone == /\ opts.mode = "batch" /\ pc = "tally" /\ pc' \in {"decode", "exit"}
            /\ flags' = <<>> /\ earlier' = earlier \cup Range(flags)
            /\ worst' = Max({worst, Code}) /\ UNCHANGED <<broken, written>>

\* There is no other way.
LEMMA FlagsMove ==
  ASSUME InputsOK, FlagsOK, [Next]_vars
  PROVE  /\ flags' \in Seq(FlagSet)
         /\ FlagsStay \/ FlagsAdded \/ LineBroken \/ LineDone
<1> USE DEF At, Ended, FlagsStay, FlagsAdded, LineBroken, LineDone
<1>1. flags \in Seq(FlagSet)
  BY DEF FlagsOK
<1>2. CASE Decode
  BY <1>1, <1>2 DEF Decode, FlagsOK, ToValidate, ToTargets, ToAdopt, Failed
<1>3. CASE Adopt
  BY <1>1, <1>3 DEF Adopt, FlagsOK, ToValidate, ToTargets, ToAdopt, gateVars
<1>4. CASE Validate
  <2>1. flags' \in Seq(FlagSet)
    BY <1>4, RaisedFlags, StageNames DEF Validate
  <2>2. flags = <<>> /\ UNCHANGED <<earlier, broken, worst, written>> /\ pc = "validate" /\ pc' = After(pc)
    BY <1>4 DEF Validate, FlagsOK, ToValidate, gateVars, outVars, Done
  <2>3. pc' \notin ToValidate \cup Ended
    BY <2>2, Inputs, AuditOrder, PocOrder, BatchOrder DEF ToValidate, ToTargets, ToAdopt
  <2> QED BY <2>1, <2>2, <2>3, EmptyRange
<1>5. ASSUME NEW stage \in Stages, Raise(stage), UNCHANGED gateVars, UNCHANGED written,
             pc \in {"signatures", "patterns", "programs", "tables", "oracle", "blockhash"},
             pc' = After(pc)
      PROVE  flags' \in Seq(FlagSet) /\ FlagsAdded
  <2>1. pc' \notin ToValidate \cup Ended
    BY <1>5, Inputs, AuditOrder, PocOrder, BatchOrder
       DEF InputsOK, PocPcs, BatchPcs, Ended, ToValidate, ToTargets, ToAdopt
  <2> QED BY <1>1, <1>5, <2>1, Raising DEF gateVars
<1>6. CASE Signatures
  BY <1>1, <1>5, <1>6, StageNames DEF Signatures, Done, gateVars, outVars
<1>7. CASE Patterns
  BY <1>1, <1>5, <1>7, StageNames DEF Patterns, Done, gateVars
<1>8. CASE \E stage \in {"programs", "tables", "oracle", "blockhash"} : NetworkCheck(stage)
  BY <1>5, <1>8, StageNames DEF NetworkCheck, Done, outVars
<1>9. CASE Crossref
  <2>1. CASE UNCHANGED flags
    BY <1>1, <1>9, <2>1 DEF Crossref, gateVars
  <2>2. ASSUME NEW refuted \in {{}, {"high_cu"}}, NEW raised \in Raises("crossref"),
               flags' = Without(flags, {f \in Range(flags) : f.what \in refuted}) \o raised
        PROVE  flags' \in Seq(FlagSet) /\ FlagsAdded
    <3> DEFINE gone == {f \in Range(flags) : f.what \in refuted}
               left == Without(flags, gone)
    <3>1. left \in Seq(FlagSet) /\ Range(left) = Range(flags) \ gone
      BY <1>1, WithoutProperties
    <3>2. raised \in Seq(FlagSet)
      BY RaisedFlags, StageNames
    <3>3. \A f \in gone : f.what = "high_cu"
      OBVIOUS
    <3> HIDE DEF gone, left
    <3>4. flags' = left \o raised
      BY <2>2 DEF gone, left
    <3>5. flags' \in Seq(FlagSet) /\ Range(flags') = Range(left) \cup Range(raised)
      BY <3>1, <3>2, <3>4, ConcatProperties, RangeConcatenation
    <3>6. pc = "crossref" /\ pc' = After(pc) /\ UNCHANGED <<earlier, broken, worst, written>>
      BY <1>9 DEF Crossref, Done, gateVars, outVars
    <3>7. pc' \notin ToValidate \cup Ended
      BY <3>6, Inputs, AuditOrder, PocOrder
         DEF InputsOK, BatchPcs, Ended, ToValidate, ToTargets, ToAdopt
    <3> QED BY <3>1, <3>3, <3>5, <3>6, <3>7
  <2> QED BY <1>9, <2>1, <2>2 DEF Crossref
<1>10. CASE Dedup
  <2>1. flags' \in Seq(FlagSet) /\ Range(flags') = Range(flags)
    BY <1>1, <1>10, DedupProperties DEF Dedup
  <2>2. pc = "dedup" /\ pc' = After(pc) /\ UNCHANGED <<earlier, broken, worst, written>>
    BY <1>10 DEF Dedup, Done, gateVars, outVars
  <2>3. pc' \notin ToValidate \cup Ended
    BY <2>2, Inputs, AuditOrder, PocOrder, BatchOrder DEF ToValidate, ToTargets, ToAdopt
  <2> QED BY <2>1, <2>2, <2>3
<1>11. CASE Tally
  <2>1. opts.mode = "batch"
    BY <1>11, Inputs DEF Tally, InputsOK, AuditPcs, PocPcs, Ended, ToEvents, ToBytecode, ToMeta,
                         ToValidate, ToTargets, ToAdopt
  <2> QED BY <1>11, <2>1, EmptySeq DEF Tally, outVars
<1>12. CASE /\ ~Decode /\ ~Adopt /\ ~Validate /\ ~Signatures /\ ~Patterns
            /\ \A stage \in {"programs", "tables", "oracle", "blockhash"} : ~NetworkCheck(stage)
            /\ ~Crossref /\ ~Dedup /\ ~Tally
  BY <1>1, <1>12, FlagsFrame
<1> QED BY <1>2, <1>3, <1>4, <1>6, <1>7, <1>8, <1>9, <1>10, <1>11, <1>12

\* The flags start from the validation in every audit and in every line.
LEMMA FlagsKept ==
  ASSUME InputsOK, FlagsOK, [Next]_vars
  PROVE  FlagsOK'
<1>1. opts' = opts
  BY Moves DEF inputVars
<1>2. flags' \in Seq(FlagSet) /\ (FlagsStay \/ FlagsAdded \/ LineBroken \/ LineDone)
  BY FlagsMove
<1>3. Range(flags) \subseteq FlagSet
  BY RangeOfSeq DEF FlagsOK
<1>4. CASE FlagsStay
  <2>1. pc' \in ToValidate => flags' = <<>>
    BY <1>4, Early DEF FlagsStay, FlagsOK, ToValidate, ToTargets, ToAdopt
  <2>2. opts.mode = "batch" /\ pc' = "exit" => flags' = <<>>
    BY <1>4, BatchMoves DEF FlagsStay, FlagsOK, ToValidate, ToTargets, ToAdopt
  <2> QED BY <1>1, <1>2, <1>4, <2>1, <2>2 DEF FlagsStay, FlagsOK
<1>5. CASE FlagsAdded
  BY <1>1, <1>2, <1>5 DEF FlagsAdded, FlagsOK, Ended
<1>6. CASE LineBroken
  BY <1>1, <1>2, <1>6 DEF LineBroken, FlagsOK, ToValidate, ToTargets, ToAdopt
<1>7. CASE LineDone
  BY <1>1, <1>2, <1>3, <1>7 DEF LineDone, FlagsOK
<1> QED BY <1>2, <1>4, <1>5, <1>6, <1>7

\* A batch's worst code is the exit code of everything its earlier lines had.
LEMMA WorstKept ==
  ASSUME InputsOK, FlagsOK, WorstOK, [Next]_vars
  PROVE  WorstOK'
<1>1. opts' = opts /\ opts.fail_on \in Severity
  BY Moves, Inputs DEF inputVars
<1>2. FlagsStay \/ FlagsAdded \/ LineBroken \/ LineDone
  BY FlagsMove
<1>3. Range(flags) \subseteq FlagSet /\ earlier \in SUBSET FlagSet /\ broken \in BOOLEAN
  BY RangeOfSeq DEF FlagsOK
<1> DEFINE e == worst_severity_exit_code(earlier, opts.fail_on)
           f == worst_severity_exit_code(Range(flags), opts.fail_on)
           both == worst_severity_exit_code(earlier \cup Range(flags), opts.fail_on)
<1>4. e \in 0..2 /\ f \in 0..2 /\ both = Max({e, f})
  BY <1>1, <1>3, WorseOfTwo, ZenonT(30)
<1>5. worst = IF broken /\ e = 0 THEN 1 ELSE e
  BY DEF WorstOK, ExitCodeOf
<1>6. Code = f
  BY DEF Code
<1>7. CASE FlagsStay \/ FlagsAdded
  BY <1>1, <1>5, <1>7 DEF FlagsStay, FlagsAdded, WorstOK, ExitCodeOf
<1>8. CASE LineBroken
  <2>1. worst' = Max({worst, 1}) /\ broken' = TRUE /\ earlier' = earlier
    BY <1>8 DEF LineBroken
  <2>2. ExitCodeOf(earlier, TRUE) = IF e = 0 THEN 1 ELSE e
    BY DEF ExitCodeOf
  <2> HIDE DEF e, f, both
  <2>3. Max({worst, 1}) = IF worst >= 1 THEN worst ELSE 1
    BY <1>4, <1>5, MaxOfTwo
  <2>4. worst' = IF e = 0 THEN 1 ELSE e
    BY <1>4, <1>5, <2>1, <2>3
  <2>5. ExitCodeOf(earlier, TRUE)' = ExitCodeOf(earlier, TRUE)
    BY <1>1, <2>1 DEF ExitCodeOf
  <2>6. WorstOK' <=> worst' = ExitCodeOf(earlier, TRUE)'
    BY <2>1 DEF WorstOK
  <2> QED BY <2>2, <2>4, <2>5, <2>6
<1>9. CASE LineDone
  <2>1. worst' = Max({worst, f}) /\ broken' = broken /\ earlier' = earlier \cup Range(flags)
    BY <1>6, <1>9 DEF LineDone
  <2>2. ExitCodeOf(earlier', broken) = IF broken /\ both = 0 THEN 1 ELSE both
    BY <2>1 DEF ExitCodeOf
  <2>3. WorstOK' <=> worst' = ExitCodeOf(earlier', broken)
    BY <1>1, <2>1 DEF WorstOK, ExitCodeOf
  <2> HIDE DEF e, f, both
  <2>4. /\ Max({worst, f}) = IF worst >= f THEN worst ELSE f
        /\ Max({e, f}) = IF e >= f THEN e ELSE f
    BY <1>4, <1>5, MaxOfTwo
  <2>5. worst' = IF broken /\ both = 0 THEN 1 ELSE both
    BY <1>3, <1>4, <1>5, <2>1, <2>4
  <2> QED BY <2>2, <2>3, <2>5
<1> QED BY <1>2, <1>7, <1>8, <1>9

-----------------------------------------------------------------------------
(* What is written *)

\* The steps that write no report.
LEMMA ShownFrame ==
  ASSUME [Next]_vars, ~WriteArtifact, ~PrintReport
  PROVE  UNCHANGED written
BY DEF Next, vars, outVars, Input, Decode, Lookup, LookupDone, Adopt, ChooseTargets, Validate,
       Meta, Signatures, Patterns, Recheck, Offline, Simulate, NetworkCheck, Bytecode, Crossref,
       Amounts, Events, Dedup, ArtifactsDone, Tally, Exit

\* A report that is about to be written shows no flag twice.
LEMMA CleanKept ==
  ASSUME InputsOK, FlagsOK, ShownOK, [Next]_vars, pc' \in {"artifacts", "print"}
  PROVE  Distinct(flags')
<1> USE DEF At
<1>1. CASE Dedup
  BY <1>1, DedupProperties DEF Dedup, FlagsOK
<1>2. CASE ~Dedup
  <2>1. pc \in {"artifacts", "print"} \/ pc = "dedup"
    BY Inputs, AuditMoves, PocMoves, BatchMoves
       DEF ToBytecode, ToMeta, ToValidate, ToTargets, ToAdopt
  <2>2. pc = "dedup" => pc' = pc
    BY <1>2 DEF Next, vars, Input, Decode, Lookup, LookupDone, Adopt, ChooseTargets, Validate,
       Meta, Signatures, Patterns, Recheck, Offline, NetworkStages, Simulate, NetworkCheck,
       Bytecode, Crossref, Amounts, Events, WriteArtifact, ArtifactsDone, PrintReport, Tally, Exit
  <2>3. pc \in {"artifacts", "print"} => flags' = flags
    BY <1>2 DEF Next, vars, Input, Decode, Lookup, LookupDone, Adopt, ChooseTargets, Validate,
       Meta, Signatures, Patterns, Recheck, Offline, NetworkStages, Simulate, NetworkCheck,
       Bytecode, Crossref, Amounts, Events, WriteArtifact, ArtifactsDone, PrintReport, Tally, Exit
  <2> QED BY <2>1, <2>2, <2>3 DEF ShownOK
<1> QED BY <1>1, <1>2

\* Adding a report to those written.
LEMMA ReportAdded ==
  ASSUME FlagsOK, ShownOK, NEW name \in Shown, Distinct(flags),
         written' = Append(written, Report(name))
  PROVE  /\ written' \in Seq([to : Shown, flags : Seq(FlagSet)])
         /\ \A i \in 1..Len(written') : Distinct(written'[i].flags)
         /\ Len(written') = Len(written) + 1 /\ Len(written) \in Nat
         /\ written'[Len(written) + 1].flags = flags
         /\ \A i \in 1..Len(written) : written'[i] = written[i]
<1> DEFINE R == [to : Shown, flags : Seq(FlagSet)]
           r == Report(name)
<1>1. r \in R /\ r.flags = flags
  BY DEF Report, FlagsOK
<1>2. written \in Seq(R)
  BY DEF ShownOK
<1> HIDE DEF R, r
<1>3. /\ Append(written, r) \in Seq(R) /\ Len(Append(written, r)) = Len(written) + 1
      /\ Len(written) \in Nat
      /\ \A i \in 1..Len(written) : Append(written, r)[i] = written[i]
      /\ Append(written, r)[Len(written) + 1] = r
  BY <1>1, <1>2, AppendProperties, LenProperties
<1>4. written' = Append(written, r)
  BY DEF r
<1>5. \A i \in 1..Len(written') : i \in 1..Len(written) \/ i = Len(written) + 1
  BY <1>3, <1>4
<1>6. \A i \in 1..Len(written') : Distinct(written'[i].flags)
  BY <1>1, <1>3, <1>4, <1>5 DEF ShownOK
<1> QED BY <1>1, <1>3, <1>4, <1>6 DEF R

\* The two steps that write.
LEMMA Writing ==
  ASSUME InputsOK, FlagsOK, ShownOK, [Next]_vars
  PROVE  \/ UNCHANGED written
         \/ /\ opts.mode # "batch" /\ pc \in {"artifacts", "print"}
            /\ UNCHANGED <<flags, earlier, broken, worst>>
            /\ pc' \in {"artifacts", "exit"}
            /\ \E name \in Shown : written' = Append(written, Report(name))
<1> USE DEF At
<1>1. CASE WriteArtifact
  <2>1. opts.artifacts \in Seq(Artifacts)
    BY OptionsAssumption DEF InputsOK, OptionRecord
  <2>2. pc = "artifacts" => opts.mode = "audit"
    BY AuditOnly DEF AuditPcs, PocPcs, BatchPcs, Ended
  <2>3. ASSUME written' = Append(written, Report(opts.artifacts[Len(written) + 1])),
               Len(written) < Len(opts.artifacts)
        PROVE  \E name \in Shown : written' = Append(written, Report(name))
    <3>1. Len(written) \in Nat /\ Len(opts.artifacts) \in Nat
      BY <2>1, LenProperties DEF ShownOK
    <3>2. opts.artifacts[Len(written) + 1] \in Artifacts
      BY <2>1, <2>3, <3>1, ElementOfSeq
    <3>3. \A a \in Artifacts : a \in Shown
      BY DEF Shown
    <3> QED BY <2>3, <3>2, <3>3
  <2>4. CASE UNCHANGED written
    BY <2>4
  <2>5. CASE /\ written' = Append(written, Report(opts.artifacts[Len(written) + 1]))
             /\ UNCHANGED <<pc, exit>>
    <3>1. \E name \in Shown : written' = Append(written, Report(name))
      BY <1>1, <2>3, <2>5 DEF WriteArtifact
    <3>2. /\ opts.mode = "audit" /\ pc = "artifacts" /\ pc' = pc
          /\ UNCHANGED <<flags, earlier, broken, worst>>
      BY <1>1, <2>2, <2>5 DEF WriteArtifact, gateVars
    <3> QED BY <3>1, <3>2
  <2> QED BY <1>1, <2>4, <2>5 DEF WriteArtifact
<1>2. CASE PrintReport
  <2>1. pc = "print" /\ pc' = After(pc) /\ UNCHANGED <<flags, earlier, broken, worst>>
    BY <1>2 DEF PrintReport, Done, gateVars
  <2>2. opts.mode # "batch"
    BY <2>1 DEF InputsOK, BatchPcs, Ended
  <2>3. pc' = "exit"
    BY <2>1, <2>2, Inputs, AuditOrder, PocOrder
  <2> QED BY <1>2, <2>1, <2>2, <2>3 DEF PrintReport, Shown
<1>3. CASE ~WriteArtifact /\ ~PrintReport
  BY <1>3, ShownFrame
<1> QED BY <1>1, <1>2, <1>3

\* The reports written are clean, and none is written before the duplicates are removed.
LEMMA ShownKept ==
  ASSUME InputsOK, FlagsOK, ShownOK, [Next]_vars
  PROVE  ShownOK'
<1>1. opts' = opts
  BY Moves DEF inputVars
<1>2. pc' \in {"artifacts", "print"} => Distinct(flags')
  BY CleanKept
<1>3. CASE UNCHANGED written
  <2>1. pc' \notin {"artifacts", "print"} \cup Ended /\ opts.mode # "batch" =>
          pc \notin {"artifacts", "print"} \cup Ended
    BY Inputs, AuditMoves, PocMoves
       DEF Ended, ToBytecode, ToMeta, ToValidate, ToTargets, ToAdopt
  <2> QED BY <1>1, <1>2, <1>3, <2>1 DEF ShownOK
<1>4. ASSUME opts.mode # "batch", pc \in {"artifacts", "print"}, pc' \in {"artifacts", "exit"},
             NEW name \in Shown, written' = Append(written, Report(name))
      PROVE  ShownOK'
  <2>1. Distinct(flags)
    BY <1>4 DEF ShownOK
  <2> QED BY <1>1, <1>2, <1>4, <2>1, ReportAdded DEF ShownOK, Ended
<1> QED BY <1>3, <1>4, Writing
-----------------------------------------------------------------------------
(* The theorems *)

\* The invariant holds at the start.
LEMMA PipelineInit == Init => PipelineInv
<1> SUFFICES ASSUME Init PROVE PipelineInv
  OBVIOUS
<1>1. opts \in OptionRecord /\ tx \in TransactionRecord
  BY OptionsAssumption, TransactionsAssumption DEF Init
<1>2. opts.mode \in {"audit", "poc", "batch"}
  BY <1>1 DEF OptionRecord
<1>3. /\ opts.mode = "audit" => pc = "input"
      /\ opts.mode # "audit" => pc = "decode"
  BY <1>2 DEF Init, StagesOf, AuditStages, PocStages, BatchStages
<1>4. InputsOK
  BY <1>1, <1>3 DEF Init, InputsOK, TransactionRecord, AuditPcs, PocPcs, BatchPcs, ToEvents,
                    ToBytecode, ToMeta, ToValidate, ToTargets, ToAdopt
<1>5. FlagsOK
  BY <1>3, EmptySeq DEF Init, FlagsOK
<1>6. ShownOK
  <2>1. written = <<>> /\ pc \notin {"artifacts", "print"}
    BY <1>3 DEF Init
  <2>2. Len(<<>>) = 0 /\ <<>> \in Seq([to : Shown, flags : Seq(FlagSet)])
    BY EmptySeq
  <2> QED BY <2>1, <2>2 DEF ShownOK
<1>7. WorstOK
  <2>1. opts.fail_on \in Severity
    BY <1>1 DEF OptionRecord
  <2>2. Counted({}, opts.fail_on) = {}
    BY DEF Counted
  <2>3. worst_severity_exit_code({}, opts.fail_on) = 0
    BY <2>1, <2>2, ExitCodes
  <2> QED BY <2>3 DEF Init, WorstOK, ExitCodeOf
<1>8. SchemaOK
  BY <1>3, EmptySeq DEF Init, SchemaOK, Within, Past, ToAdopt, ToTargets, ToValidate
<1>9. LogsOK
  BY <1>3 DEF Init, LogsOK, Within, Past, ToEvents, ToBytecode, ToMeta, ToValidate, ToTargets,
              ToAdopt
<1>10. NamesOK
  BY <1>3 DEF Init, NamesOK, Past, ToAdopt
<1>11. FallbackOK
  BY <1>3 DEF Init, FallbackOK, Within, Past, ToBytecode, ToMeta, ToValidate, ToTargets, ToAdopt
<1>12. LookupOK
  BY <1>3 DEF Init, LookupOK, Within, Past
<1> QED BY <1>4, <1>5, <1>6, <1>7, <1>8, <1>9, <1>10, <1>11, <1>12 DEF PipelineInv

\* Every step keeps it.
LEMMA PipelineStep == PipelineInv /\ [Next]_vars => PipelineInv'
BY InputsKept, FlagsKept, ShownKept, WorstKept, SchemaKept, LogsKept, NamesKept, FallbackKept,
   LookupKept
   DEF PipelineInv

\* The inductive invariant: whatever the command line, the transaction and the
\* failures of the endpoint, the stages keep the report, its flags, the names, the
\* fallback and the verdict consistent with one another.
THEOREM PipelineInvariant == Spec => []PipelineInv
BY PipelineInit, PipelineStep, PTL DEF Spec

\* However the IDL was found, the finished report was decoded and validated with
\* one schema, its events with that one or none, and idl_source says which.
THEOREM SchemaTheorem == Spec => []OneSchema
<1>1. PipelineInv => OneSchema
  BY DEF PipelineInv, SchemaOK, LogsOK, OneSchema, Analysed, Past, ToEvents, ToBytecode, ToMeta,
         ToValidate, ToTargets, ToAdopt
<1> QED BY <1>1, PipelineInvariant, PTL

\* No simulation replaces the logs the transaction really had, and no report written
\* shows one flag twice, whichever calls to the endpoint fail.
THEOREM ReportsTheorem == Spec => []ReportsSound
<1>1. PipelineInv => EventsFromOwnLogs
  BY DEF PipelineInv, LogsOK, EventsFromOwnLogs, Analysed, Past, ToMeta, ToValidate, ToTargets,
         ToAdopt
<1>2. PipelineInv => ReportsHaveNoDuplicates
  BY DEF PipelineInv, ShownOK, ReportsHaveNoDuplicates, Distinct
<1>3. PipelineInv => ReportsSound
  BY <1>1, <1>2 DEF PipelineInv, ReportsSound
<1> QED BY <1>3, PipelineInvariant, PTL

\* Whichever lookups fail, a program whose IDL was fetched keeps its name through the
\* fallback.  With the network, every other target of --idl-auto is analysed or has a
\* warning of the disassembly; and where no lookup found an IDL, each has the warning
\* of its own lookup.
THEOREM CoverageTheorem == Spec => []ProgramsCovered
<1>1. PipelineInv => FetchedIdlsName
  BY DEF PipelineInv, NamesOK, FetchedIdlsName, Analysed, Past, ToAdopt
<1>2. ASSUME PipelineInv PROVE FallbackFillsGaps
  <2> SUFFICES ASSUME Analysed, opts.idl_auto # "off", opts.disassemble = "off"
               PROVE  /\ analysed \cap Range(fetched) = {}
                      /\ \A p \in Range(Targets(opts.idl_auto)) \ Range(fetched) :
                           /\ UseNetwork => p \in analysed \/ Undisassembled(p)
                           /\ AutoIdl /\ fetched = <<>> => Unfound(p)
    BY DEF FallbackFillsGaps
  <2> DEFINE all == Targets(opts.idl_auto)
  <2>1. all \in Seq(Programs)
    BY <1>2, TargetsArePrograms DEF PipelineInv
  <2>2. Past(ToTargets) /\ Past(ToBytecode) /\ Past({"input", "decode", "lookup"})
    BY DEF Analysed, Past, ToBytecode, ToMeta, ToValidate, ToTargets, ToAdopt
  <2>3. bytecode_targets = Without(all, Range(fetched))
    BY <1>2, <2>2 DEF PipelineInv, FallbackOK, FallbackTargets
  <2>4. AutoIdl /\ fetched = <<>> => \A i \in 1..Len(all) : Unfound(all[i])
    BY <1>2, <2>2 DEF PipelineInv, LookupOK
  <2> HIDE DEF all
  <2>5. Range(bytecode_targets) = Range(all) \ Range(fetched)
    BY <2>1, <2>3, WithoutProperties
  <2>6. \A p \in Range(all) : \E i \in 1..Len(all) : p = all[i]
    BY <2>1, RangeEquality
  <2>7. /\ analysed \subseteq Range(bytecode_targets)
        /\ UseNetwork => \A p \in Range(bytecode_targets) \ analysed : Undisassembled(p)
    BY <1>2, <2>2 DEF PipelineInv, FallbackOK
  <2>8. \A p \in Range(all) \ Range(fetched) :
          /\ UseNetwork => p \in analysed \/ Undisassembled(p)
          /\ AutoIdl /\ fetched = <<>> => Unfound(p)
    BY <2>4, <2>5, <2>6, <2>7
  <2>9. analysed \cap Range(fetched) = {}
    BY <2>5, <2>7
  <2> QED BY <2>8, <2>9 DEF all
<1>3. PipelineInv => ProgramsCovered
  BY <1>1, <1>2 DEF ProgramsCovered
<1> QED BY <1>3, PipelineInvariant, PTL

-----------------------------------------------------------------------------
(* The pipeline implements the gate's contract *)

\* The gate's exit code and the pipeline's.
LEMMA GateCode ==
  Gate!ExitCode = ExitCodeOf(earlier \cup Range(flags), broken)
<1>1. \A found, min : Gate!Counted(found, min) = Counted(found, min)
  BY DEF Gate!Counted, Counted, Gate!severity_rank, severity_rank
<1>2. \A found, min : Gate!worst_severity_exit_code(found, min) = worst_severity_exit_code(found, min)
  BY <1>1, Zenon DEF Gate!worst_severity_exit_code, worst_severity_exit_code
<1> QED BY <1>2 DEF Gate!ExitCode, ExitCodeOf

\* No stage goes on to an end.
LEMMA AfterRuns ==
  ASSUME InputsOK, pc \notin Ended
  PROVE  After(pc) \notin {"failed", "exited"}
<1> USE DEF Ended, ToEvents, ToBytecode, ToMeta, ToValidate, ToTargets, ToAdopt
<1>1. CASE opts.mode = "audit"
  BY <1>1, AuditOrder DEF InputsOK, AuditPcs
<1>2. CASE opts.mode = "poc"
  BY <1>2, PocOrder DEF InputsOK, PocPcs
<1>3. CASE opts.mode = "batch"
  BY <1>3, BatchOrder DEF InputsOK, BatchPcs
<1> QED BY <1>1, <1>2, <1>3, Inputs

\* How a run ends, and that nothing happens afterwards.
LEMMA Ending ==
  ASSUME InputsOK, [Next]_vars
  PROVE  /\ pc \in {"exited", "failed"} => UNCHANGED vars
         /\ pc' = "failed" /\ pc # "failed" => UNCHANGED <<flags, earlier, broken, written>>
         /\ pc' = "exited" /\ pc # "exited" => Exit
<1> USE DEF At
<1>1. pc \notin Ended => After(pc) \notin {"failed", "exited"}
  BY AfterRuns
<1>2. pc \in {"exited", "failed"} => UNCHANGED vars
  BY DEF Next, Input, Decode, Lookup, LookupDone, Adopt, ChooseTargets, Validate,
     Meta, Signatures, Patterns, Recheck, Offline, NetworkStages, Simulate, NetworkCheck,
     Bytecode, Crossref, Amounts, Events, Dedup, WriteArtifact, ArtifactsDone, PrintReport,
     Tally, Exit
<1>3. pc' = "failed" /\ pc # "failed" => UNCHANGED <<flags, earlier, broken, written>>
  BY <1>1 DEF Next, vars, Done, Ended, gateVars, outVars,
     Input, Decode, Lookup, LookupDone, Adopt, ChooseTargets, Validate,
     Meta, Signatures, Patterns, Recheck, Offline, NetworkStages, Simulate, NetworkCheck,
     Bytecode, Crossref, Amounts, Events, Dedup, WriteArtifact, ArtifactsDone, PrintReport,
     Tally, Exit
<1>4. pc' = "exited" /\ pc # "exited" => Exit
  BY <1>1 DEF Next, vars, Done, Failed, Ended,
     Input, Decode, Lookup, LookupDone, Adopt, ChooseTargets, Validate,
     Meta, Signatures, Patterns, Recheck, Offline, NetworkStages, Simulate, NetworkCheck,
     Bytecode, Crossref, Amounts, Events, Dedup, WriteArtifact, ArtifactsDone, PrintReport,
     Tally
<1> QED BY <1>2, <1>3, <1>4

\* What the gate sees.
Findings == earlier \cup Range(flags)
Published == {Range(written[i].flags) : i \in 1..Len(written)}
Result == IF pc = "exited" THEN <<"code", exit>>
          ELSE IF pc = "failed" THEN <<"error">> ELSE <<"pending">>

\* The gate waits while the run goes on.
LEMMA Undecided == Result = <<"pending">> <=> pc \notin {"exited", "failed"}
BY DEF Result

\* A run begins where the gate does.
LEMMA GateInit == Init => Gate!Init
<1> SUFFICES ASSUME Init PROVE Gate!Init
  OBVIOUS
<1>1. opts \in OptionRecord
  BY OptionsAssumption DEF Init
<1>2. opts.mode \in {"audit", "poc", "batch"} /\ opts.fail_on \in Gate!Severity
  BY <1>1 DEF OptionRecord, Severity, Gate!Severity
<1>3. pc \notin {"exited", "failed"}
  BY <1>2 DEF Init, StagesOf, AuditStages, PocStages, BatchStages
<1>4. Published = {} /\ Findings = {}
  BY EmptyRange DEF Init, Published, Findings
<1> QED BY <1>2, <1>3, <1>4 DEF Init, Gate!Init, Published, Findings

\* Every step is one of the gate's, or none.
LEMMA GateStep ==
  ASSUME PipelineInv, [Next]_vars
  PROVE  [Gate!Next]_(Gate!vars)
<1>1. InputsOK /\ FlagsOK /\ ShownOK /\ WorstOK
  BY DEF PipelineInv
<1>2. opts' = opts
  BY <1>1, Moves DEF inputVars
<1>3. FlagsOK'
  BY <1>1, FlagsKept
<1> DEFINE Same == UNCHANGED <<opts.fail_on, Findings, broken, Published, Result>>
<1>4. Same => UNCHANGED Gate!vars
  BY DEF Gate!vars, Findings, Published, Result
<1>5. CASE pc \in {"exited", "failed"}
  <2>1. UNCHANGED vars
    BY <1>1, <1>5, Ending
  <2> QED BY <1>4, <2>1 DEF vars, inputVars, gateVars, outVars, Findings, Published, Result
<1>6. CASE pc \notin {"exited", "failed"} /\ pc' = "failed"
  <2>1. UNCHANGED <<flags, earlier, broken, written>>
    BY <1>1, <1>6, Ending
  <2>2. UNCHANGED <<opts.fail_on, Findings, broken, Published>> /\ Result' = <<"error">>
    BY <1>2, <1>6, <2>1 DEF Findings, Published, Result
  <2> QED BY <1>6, <2>2, Undecided
          DEF Gate!Next, Gate!Fail, Gate!Pending, Findings, Published, Result
<1>7. CASE pc \notin {"exited", "failed"} /\ pc' = "exited"
  <2>1. pc = "exit" /\ exit' = (IF opts.mode = "batch" THEN worst ELSE Code)
        /\ UNCHANGED <<flags, earlier, broken, written>>
    BY <1>1, <1>7, Ending DEF Exit, At, gateVars
  <2>2. exit' = Gate!ExitCode
    <3>1. CASE opts.mode = "batch"
      <4>1. earlier \cup Range(flags) = earlier
        BY <1>1, <2>1, <3>1, EmptyRange DEF FlagsOK
      <4> QED BY <1>1, <2>1, <3>1, <4>1, GateCode DEF WorstOK
    <3>2. CASE opts.mode # "batch"
      <4>1. earlier \cup Range(flags) = Range(flags) /\ broken = FALSE
        BY <1>1, <3>2 DEF FlagsOK
      <4> QED BY <2>1, <3>2, <4>1, GateCode DEF ExitCodeOf, Code
    <3> QED BY <3>1, <3>2
  <2>3. UNCHANGED <<opts.fail_on, Findings, broken, Published>> /\ Result' = <<"code", exit'>>
    BY <1>2, <1>7, <2>1 DEF Findings, Published, Result
  <2> QED BY <1>7, <2>2, <2>3, Undecided
          DEF Gate!Next, Gate!Conclude, Gate!Pending, Findings, Published, Result
<1>8. CASE {pc, pc'} \cap {"exited", "failed"} = {}
  <2>1. Result = <<"pending">> /\ Result' = <<"pending">>
    BY <1>8 DEF Result
  <2>2. CASE written' # written
    <3>1. PICK name \in Shown : written' = Append(written, Report(name))
      BY <1>1, <2>2, Writing
    <3>2. opts.mode # "batch" /\ pc \in {"artifacts", "print"}
          /\ UNCHANGED <<flags, earlier, broken>>
      BY <1>1, <2>2, Writing
    <3>3. Findings = Range(flags) /\ Findings' = Findings
      BY <1>1, <3>2 DEF FlagsOK, Findings
    <3>4. Distinct(flags)
      BY <1>1, <3>2 DEF ShownOK
    <3>5. Published' = Published \cup {Range(flags)}
      <4>1. /\ Len(written') = Len(written) + 1 /\ Len(written) \in Nat
            /\ written'[Len(written) + 1].flags = flags
            /\ \A i \in 1..Len(written) : written'[i] = written[i]
        BY <1>1, <3>1, <3>4, ReportAdded
      <4>2. \A i : i \in 1..Len(written') <=> i \in 1..Len(written) \/ i = Len(written) + 1
        BY <4>1
      <4> QED BY <4>1, <4>2 DEF Published
    <3>6. Gate!Publish
      BY <1>2, <2>1, <3>2, <3>3, <3>5 DEF Gate!Publish, Gate!Pending, Findings, Published, Result
    <3> QED BY <3>6 DEF Gate!Next
  <2>3. CASE written' = written
    <3>1. Published' = Published
      BY <2>3 DEF Published
    <3>2. CASE FlagsStay
      BY <1>2, <1>4, <2>1, <3>1, <3>2 DEF FlagsStay, Findings
    <3>3. CASE FlagsAdded
      <4>1. Published = {}
        <5>1. written = <<>> /\ Len(<<>>) = 0
          BY <1>1, <3>3, EmptySeq DEF FlagsAdded, ShownOK
        <5> QED BY <5>1 DEF Published
      <4>2. \A f \in Findings \ Findings' : f.what = "high_cu"
        BY <3>3 DEF FlagsAdded, Findings
      <4>3. Findings' \subseteq Gate!RiskFlag(Stages)
        BY <1>3, RangeOfSeq
           DEF FlagsOK, Findings, FlagSet, RiskFlag, Gate!RiskFlag, Severity, Gate!Severity
      <4>4. broken' = broken
        BY <3>3 DEF FlagsAdded
      <4>5. Gate!Find
        BY <1>2, <2>1, <3>1, <4>1, <4>2, <4>3, <4>4
           DEF Gate!Find, Gate!Pending, Findings, Published, Result
      <4> QED BY <4>5 DEF Gate!Next
    <3>4. CASE LineBroken
      <4>1. Published = {}
        <5>1. written = <<>> /\ Len(<<>>) = 0
          BY <1>1, <3>4, EmptySeq DEF LineBroken, ShownOK
        <5> QED BY <5>1 DEF Published
      <4>2. Findings' = Findings /\ broken' = TRUE
        BY <3>4 DEF LineBroken, Findings
      <4>3. Gate!Break
        BY <1>2, <2>1, <3>1, <4>1, <4>2 DEF Gate!Break, Gate!Pending, Findings, Published, Result
      <4> QED BY <4>3 DEF Gate!Next
    <3>5. CASE LineDone
      <4>1. Findings' = Findings /\ broken' = broken
        BY <3>5, EmptyRange DEF LineDone, Findings
      <4> QED BY <1>2, <1>4, <2>1, <3>1, <4>1
    <3> QED BY <1>1, <3>2, <3>3, <3>4, <3>5, FlagsMove
  <2> QED BY <2>2, <2>3
<1> QED BY <1>5, <1>6, <1>7, <1>8

\* main implements the gate's contract: the exit code, over every stage and every
\* line of a batch, is that of all the flags ever raised but refuted estimates, and
\* the reports show just those flags.
THEOREM VerdictTheorem == Spec => VerdictHolds
<1>1. PipelineInv /\ [Next]_vars => [Gate!Next]_(Gate!vars)
  BY GateStep
<1> QED BY <1>1, GateInit, PipelineInvariant, PTL DEF Spec, VerdictHolds, Gate!Spec
=============================================================================
