------------------------------ MODULE Pipeline ------------------------------
(***************************************************************************)
(* main.rs: what one invocation of rts does to its report, stage after     *)
(* stage, from the input to the exit code, in its three modes: the audit   *)
(* of a transaction, the replay of a PoC template (--poc-run), and a batch *)
(* (--batch).  What the stages compute is abstracted to the flags they     *)
(* raise, the logs and events the report holds, the schema that decodes    *)
(* it and the artifacts written; every RPC may answer or fail.             *)
(***************************************************************************)
EXTENDS RiskFlags

CONSTANTS
  Programs,     \* the non-builtin programs transactions call
  Declares,     \* <<s, p>>: schema s has an instruction that matches p's data
  Options,      \* the command lines considered
  Transactions, \* the transactions considered
  MaxTargets,   \* MAX_TARGETS: 8 in the code
  MaxFlags      \* bound: flags in the report before a stage that raises some

Schemas == {"none", "file", "native"} \cup Programs
Requests == {"off", "all"} \cup Programs
Artifacts == {"tx-report", "html", "sarif", "markdown", "poc-template"}

OptionRecord ==
  [mode : {"audit", "poc", "batch"}, signature : BOOLEAN, rpc : BOOLEAN,
   no_network : BOOLEAN, given : {"none", "file", "native", "both"},
   idl_auto : Requests, disassemble : Requests, patterns : BOOLEAN,
   artifacts : Seq(Artifacts), fail_on : Severity]

\* The distinct programs of the top-level instructions, those of the inner
\* instructions in the fetched metadata, what that metadata holds ("bare": no
\* logs), whether some transfer is unchecked, and the lines of a batch.
TransactionRecord ==
  [programs : Seq(Programs), cpi : SUBSET Programs, meta : {"none", "bare", "logs"},
   unchecked : BOOLEAN, lines : Nat]

ASSUME OptionsAssumption == Options \subseteq OptionRecord
ASSUME TransactionsAssumption ==
  /\ Transactions \subseteq TransactionRecord
  /\ Programs \cap {"none", "file", "native", "off", "all", "unnamed", "dispatch",
                   "not installed"} = {}
  /\ Declares \subseteq Schemas \X Programs
ASSUME PipelineBoundsAssumption == MaxTargets \in Nat /\ MaxFlags \in Nat

VARIABLES
  opts, tx,
  pc,              \* the stage about to run; "exited", or "failed" on an error
  line,            \* batch: lines decoded so far
  schema,          \* main's schema
  decoded_with,    \* the schema report.instructions were decoded with
  validated_with,  \* the schema of the last validator::validate
  idl_source,      \* report.idl_source
  looked_up,       \* --idl-auto: targets asked for so far
  fetched,         \* programs whose IDL was found on chain, in order
  names,           \* for each top-level program, whose schema named it
  inner,           \* report.inner_instructions, by program
  inner_named,     \* those that have an instruction name
  bytecode_targets, analysed,
  logs,            \* where report.logs come from
  simulation,      \* report.simulation: absent, without logs, or with
  events,          \* the logs and the schema report.events were decoded from
  flags,           \* report.risk_flags
  earlier,         \* history: the flags of the batch's earlier lines
  worst,           \* batch: the worst code so far
  broken,          \* history: some line of the batch could not be decoded
  warnings,        \* report.warnings, by what they say
  rpc_used,        \* history: the stages that have called the endpoint
  written,         \* the reports written, each with the flags it shows
  exit

inputVars == <<opts, tx>>
idlVars == <<schema, decoded_with, validated_with, idl_source, looked_up, fetched>>
nameVars == <<names, inner, inner_named>>
codeVars == <<bytecode_targets, analysed>>
runVars == <<logs, simulation, events>>
gateVars == <<earlier, worst, broken, line>>
outVars == <<written, exit>>
vars == <<inputVars, pc, idlVars, nameVars, codeVars, runVars, flags, gateVars,
          warnings, rpc_used, outVars>>

-----------------------------------------------------------------------------
(* The order of the stages, in main *)

\* Mutant: the report is validated after the signatures were checked.
AuditStages_LateValidate ==
  <<"input", "decode", "lookup", "adopt", "targets", "meta", "signatures",
    "validate", "patterns", "recheck", "simulate", "programs", "tables", "oracle",
    "blockhash", "bytecode", "crossref", "amounts", "events", "dedup", "artifacts",
    "print", "exit">>

\* Mutant: the artifacts are written before duplicates are removed.
AuditStages_LateDedup ==
  <<"input", "decode", "lookup", "adopt", "targets", "validate", "meta", "signatures",
    "patterns", "recheck", "simulate", "programs", "tables", "oracle", "blockhash",
    "bytecode", "crossref", "amounts", "events", "artifacts", "dedup", "print", "exit">>

AuditStages ==
  <<"input", "decode", "lookup", "adopt", "targets", "validate", "meta", "signatures",
    "patterns", "recheck", "simulate", "programs", "tables", "oracle", "blockhash",
    "bytecode", "crossref", "amounts", "events", "dedup", "artifacts", "print", "exit">>

PocStages ==
  <<"decode", "validate", "patterns", "simulate", "crossref", "dedup", "print", "exit">>

BatchStages == <<"decode", "validate", "patterns", "dedup", "tally", "exit">>

StagesOf(mode) == CASE mode = "audit" -> AuditStages
                    [] mode = "poc" -> PocStages
                    [] mode = "batch" -> BatchStages

Stages == Range(AuditStages) \cup Range(PocStages) \cup Range(BatchStages)

After(stage) ==
  LET stages == StagesOf(opts.mode)
  IN  stages[1 + CHOOSE i \in 1..Len(stages) : stages[i] = stage]

\* The stage that runs now, and the ones after it.
At(stage) == pc = stage
Done == pc' = After(pc)

Failed == /\ pc' = "failed"
          /\ exit' = 1

UseNetwork == ~opts.no_network /\ opts.rpc
Asked(stage) == rpc_used' = rpc_used \cup {stage}

-----------------------------------------------------------------------------
(* Flags *)

\* The severities the stages give their flags.
SeveritiesOf(stage) ==
  CASE stage \in {"validate", "patterns"} -> Severity
    [] stage = "signatures" -> {"Warning", "Critical"}
    [] stage = "oracle" -> {"Warning", "Critical"}
    [] stage \in {"programs", "tables", "blockhash", "crossref"} -> {"Info", "Warning"}
    [] OTHER -> {}

\* validate estimates high consumption, and the simulation measures it.
FlagsOf(stage) ==
  {f \in RiskFlag({stage}) :
     /\ f.severity \in SeveritiesOf(stage)
     /\ f.what = "high_cu" => stage \in {"validate", "crossref"} /\ f.severity = "Warning"}

\* A stage may raise nothing, a flag, or the same flag twice.
Raises(stage) ==
  {<<>>} \cup IF Len(flags) < MaxFlags
                THEN {<<f>> : f \in FlagsOf(stage)} \cup {<<f, f>> : f \in FlagsOf(stage)}
                ELSE {}

Raise(stage) == \E raised \in Raises(stage) : flags' = flags \o raised

-----------------------------------------------------------------------------
(* Input and decoding *)

\* main up to decode_input: the input is fetched by signature, which needs
\* --rpc, or read; schema and other files are parsed; --idl and --expectations
\* exclude each other.
Input ==
  /\ At("input")
  /\ IF opts.signature /\ opts.rpc THEN Asked("input") ELSE UNCHANGED rpc_used
  /\ \/ /\ opts.signature => opts.rpc
        /\ opts.given # "both"
        /\ schema' = opts.given
        /\ Done /\ UNCHANGED exit
     \/ Failed /\ UNCHANGED schema
  /\ UNCHANGED <<inputVars, decoded_with, validated_with, idl_source, looked_up, fetched,
                 nameVars, codeVars, runVars, flags, gateVars, warnings, written>>

NamedBy(s, p) == <<s, p>> \in Declares
TopNames(s) ==
  [p \in Range(tx.programs) |-> IF NamedBy(s, p) THEN s ELSE "unnamed"]

NextLine == line + 1

\* decode_input.  An undecodable line of a batch counts as 1 and the batch goes on.
Decode ==
  /\ At("decode")
  /\ \/ /\ decoded_with' = schema
        /\ names' = TopNames(schema)
        /\ flags' = <<>>
        /\ Done
        /\ UNCHANGED <<exit, worst, broken, line>>
     \/ /\ opts.mode # "batch"
        /\ Failed
        /\ UNCHANGED <<decoded_with, names, flags, worst, broken, line>>
     \/ /\ opts.mode = "batch"
        /\ worst' = Max({worst, 1})
        /\ broken' = TRUE
        /\ line' = NextLine
        /\ pc' = IF NextLine < tx.lines THEN "decode" ELSE "exit"
        /\ UNCHANGED <<decoded_with, names, flags, exit>>
  /\ UNCHANGED <<inputVars, schema, validated_with, idl_source, looked_up, fetched, inner,
                 inner_named, codeVars, runVars, earlier, warnings, rpc_used, written>>

-----------------------------------------------------------------------------
(* --idl-auto and the bytecode fallback *)

\* collect_auto_targets.
Targets(request) ==
  IF request = "all"
    THEN SubSeq(tx.programs, 1, Min({Len(tx.programs), MaxTargets}))
    ELSE <<request>>

AutoIdl == opts.idl_auto # "off" /\ schema = "none" /\ opts.rpc

\* fetch_idl for the next target.
Lookup ==
  /\ At("lookup")
  /\ AutoIdl /\ looked_up < Len(Targets(opts.idl_auto))
  /\ looked_up' = looked_up + 1
  /\ Asked("lookup")
  /\ LET p == Targets(opts.idl_auto)[looked_up + 1]
     IN  \/ fetched' = Append(fetched, p) /\ UNCHANGED warnings
        \/ \E what \in {"no IDL", "lookup failed"} :
             /\ warnings' = warnings \cup {<<what, p>>}
             /\ UNCHANGED fetched
  /\ UNCHANGED <<inputVars, pc, schema, decoded_with, validated_with, idl_source, nameVars,
                 codeVars, runVars, flags, gateVars, outVars>>

LookupDone ==
  /\ At("lookup")
  /\ ~AutoIdl \/ looked_up = Len(Targets(opts.idl_auto))
  /\ warnings' = IF AutoIdl /\ Targets(opts.idl_auto) = <<>>
                   THEN warnings \cup {<<"no target", "all">>} ELSE warnings
  /\ Done
  /\ UNCHANGED <<inputVars, idlVars, nameVars, codeVars, runVars, flags, gateVars,
                 rpc_used, outVars>>

\* Mutant: the IDLs after the first are not used.
SecondaryNames_None(primary) == TopNames(primary)

\* Instructions the primary IDL leaves unnamed get their own program's name.
SecondaryNames(primary) ==
  [p \in Range(tx.programs) |->
     IF ~NamedBy(primary, p) /\ p \in Range(Tail(fetched)) /\ NamedBy(p, p)
       THEN p ELSE TopNames(primary)[p]]

\* Mutant: main keeps the report it decoded without an IDL.
Redecoded_Stale(primary) == schema

\* decode_input again: it decodes what it decoded before, so it succeeds.
Redecoded(primary) == primary

\* The first IDL found becomes the schema, and the report is a fresh one.
Adopt ==
  /\ At("adopt")
  /\ IF fetched # <<>>
       THEN LET primary == Head(fetched)
                fresh == SecondaryNames(primary)
            IN  /\ schema' = primary
                /\ decoded_with' = Redecoded(primary)
                /\ names' = fresh
                /\ inner' = {}
                /\ inner_named' = {p \in inner' : p \in Range(Tail(fetched)) /\ NamedBy(p, p)}
                /\ flags' = <<>>
                /\ warnings' = {<<"named", p>> : p \in {q \in DOMAIN fresh :
                                   fresh[q] \notin {"unnamed", primary}}}
                /\ idl_source' = "on-chain"
       ELSE /\ UNCHANGED <<schema, decoded_with, nameVars, flags, warnings>>
            /\ idl_source' = IF opts.given = "file" THEN "file" ELSE idl_source
  /\ Done
  /\ UNCHANGED <<inputVars, validated_with, looked_up, fetched, codeVars, runVars, gateVars,
                 rpc_used, outVars>>

\* --disassemble wins; otherwise the targets of --idl-auto with no IDL found.
FallbackTargets ==
  IF opts.disassemble # "off" THEN Targets(opts.disassemble)
  ELSE IF opts.idl_auto # "off"
    THEN Without(Targets(opts.idl_auto), Range(fetched))
    ELSE <<>>

ChooseTargets ==
  /\ At("targets")
  /\ bytecode_targets' = FallbackTargets
  /\ Done
  /\ UNCHANGED <<inputVars, idlVars, nameVars, analysed, runVars, flags, gateVars, warnings,
                 rpc_used, outVars>>

-----------------------------------------------------------------------------
(* Offline analysis *)

\* validator::validate replaces the report's flags by its own.
Validate ==
  /\ At("validate")
  /\ \E raised \in Raises("validate") : flags' = raised
  /\ validated_with' = schema
  /\ Done
  /\ UNCHANGED <<inputVars, schema, decoded_with, idl_source, looked_up, fetched, nameVars,
                 codeVars, runVars, gateVars, warnings, rpc_used, outVars>>

\* The logs and inner instructions of the transaction's own execution.  No
\* schema reaches inner_instructions::annotate_report, which can therefore name
\* builtin programs' instructions only.
Meta ==
  /\ At("meta")
  /\ IF opts.signature /\ tx.meta # "none"
       THEN /\ logs' = IF tx.meta = "logs" THEN "meta" ELSE logs
            /\ inner' = inner \cup tx.cpi
            /\ warnings' \in {warnings, warnings \cup {<<"meta", "malformed">>}}
       ELSE UNCHANGED <<logs, inner, warnings>>
  /\ Done
  /\ UNCHANGED <<inputVars, idlVars, names, inner_named, codeVars, simulation, events, flags,
                 gateVars, rpc_used, outVars>>

\* signature_verify, unless the bytes do not deserialize.
Signatures ==
  /\ At("signatures")
  /\ \/ Raise("signatures") /\ UNCHANGED warnings
     \/ UNCHANGED flags /\ warnings' = warnings \cup {<<"signatures", "skipped">>}
  /\ Done
  /\ UNCHANGED <<inputVars, idlVars, nameVars, codeVars, runVars, gateVars, rpc_used, outVars>>

\* An unreadable --patterns file ends the audit.
Patterns ==
  /\ At("patterns")
  /\ \/ Raise("patterns") /\ Done /\ UNCHANGED exit
     \/ opts.mode = "audit" /\ opts.patterns /\ Failed /\ UNCHANGED flags
  /\ UNCHANGED <<inputVars, idlVars, nameVars, codeVars, runVars, gateVars, warnings, rpc_used,
                 written>>

\* --validate-decoding.
Recheck ==
  /\ At("recheck")
  /\ warnings' \in {warnings, warnings \cup {<<"decoding", "mismatch">>}}
  /\ Done
  /\ UNCHANGED <<inputVars, idlVars, nameVars, codeVars, runVars, flags, gateVars, rpc_used,
                 outVars>>

-----------------------------------------------------------------------------
(* The network checks *)

NetworkStages == {"simulate", "programs", "tables", "oracle", "blockhash", "bytecode"}

Offline ==
  /\ pc \in NetworkStages /\ ~UseNetwork
  /\ Done
  /\ UNCHANGED <<inputVars, idlVars, nameVars, codeVars, runVars, flags, gateVars, warnings,
                 rpc_used, outVars>>

\* The simulation's logs stand in when the report has none.
LogsAfter == IF logs = "none" THEN "simulation" ELSE logs

\* simulate_transaction: the node runs the transaction, or answers without
\* logs; a transport error leaves a warning.
Simulate ==
  /\ At("simulate") /\ UseNetwork
  /\ Asked("simulate")
  /\ \/ /\ simulation' = "with logs"
        /\ logs' = LogsAfter
        /\ UNCHANGED warnings
     \/ /\ simulation' = "no logs"
        /\ UNCHANGED <<logs, warnings>>
     \/ /\ warnings' = warnings \cup {<<"simulation", "failed">>}
        /\ UNCHANGED <<logs, simulation>>
  /\ Done
  /\ UNCHANGED <<inputVars, idlVars, nameVars, codeVars, events, flags, gateVars, outVars>>

\* verify_programs_with_registry, resolve_address_lookup_tables, oracle::run,
\* the blockhash check: an RPC failure in one of them raises a flag or nothing.
NetworkCheck(stage) ==
  /\ At(stage) /\ UseNetwork
  /\ Asked(stage)
  /\ Raise(stage)
  /\ Done
  /\ UNCHANGED <<inputVars, idlVars, nameVars, codeVars, runVars, gateVars, warnings, outVars>>

\* bytecode::analyze_programs: without sol-azy one warning stands for all the
\* targets; otherwise each is analysed or left with a warning, and an analysis may
\* name the target's instructions after their dispatch prefix.
Bytecode ==
  /\ At("bytecode") /\ UseNetwork
  /\ IF bytecode_targets = <<>>
       THEN UNCHANGED <<analysed, names, warnings, rpc_used>>
       ELSE \/ /\ warnings' = warnings \cup {<<"bytecode", "not installed">>}
               /\ UNCHANGED <<analysed, names, rpc_used>>
            \/ /\ Asked("bytecode")
               /\ \E done \in SUBSET Range(bytecode_targets) :
                    /\ analysed' = done
                    /\ warnings' = warnings \cup
                         {<<"bytecode", p>> : p \in Range(bytecode_targets) \ done}
                    /\ \E dispatched \in SUBSET {p \in done \cap DOMAIN names :
                                                    names[p] = "unnamed"} :
                         names' = [p \in DOMAIN names |->
                                     IF p \in dispatched THEN "dispatch" ELSE names[p]]
  /\ Done
  /\ UNCHANGED <<inputVars, idlVars, inner, inner_named, bytecode_targets, runVars, flags,
                 gateVars, outVars>>

-----------------------------------------------------------------------------
(* The end of the run *)

\* sim_crossref::cross_reference: measured consumption refutes estimates, and
\* the mismatches become flags; without a simulation it does nothing.
Crossref ==
  /\ At("crossref")
  /\ IF simulation = "none"
       THEN UNCHANGED flags
       ELSE \E refuted \in {{}} \cup IF simulation = "with logs" THEN {{"high_cu"}} ELSE {} :
            \E raised \in Raises("crossref") :
              flags' = Without(flags, {f \in Range(flags) : f.what \in refuted}) \o raised
  /\ Done
  /\ UNCHANGED <<inputVars, idlVars, nameVars, codeVars, runVars, gateVars, warnings, rpc_used,
                 outVars>>

\* resolve_token_amounts asks the endpoint for the decimals an unchecked
\* transfer leaves out, whenever there is an endpoint.
Amounts ==
  /\ At("amounts")
  /\ IF opts.rpc /\ tx.unchecked THEN Asked("amounts") ELSE UNCHANGED rpc_used
  /\ Done
  /\ UNCHANGED <<inputVars, idlVars, nameVars, codeVars, runVars, flags, gateVars, warnings,
                 outVars>>

\* decode_events, with an IDL only.
Events ==
  /\ At("events")
  /\ events' = IF schema \in {"none", "native"} \/ logs = "none"
                 THEN events ELSE [from |-> logs, with |-> schema]
  /\ Done
  /\ UNCHANGED <<inputVars, idlVars, nameVars, codeVars, logs, simulation, flags, gateVars,
                 warnings, rpc_used, outVars>>

Dedup ==
  /\ At("dedup")
  /\ flags' = dedup_risk_flags(flags)
  /\ warnings' = IF opts.mode = "poc"
                   THEN warnings \cup {<<"signatures", "placeholders">>} ELSE warnings
  /\ Done
  /\ UNCHANGED <<inputVars, idlVars, nameVars, codeVars, runVars, gateVars, rpc_used, outVars>>

Report(name) == [to |-> name, flags |-> flags]

\* The requested artifacts, one after another; the first failure ends the audit.
WriteArtifact ==
  /\ At("artifacts") /\ Len(written) < Len(opts.artifacts)
  /\ \/ /\ written' = Append(written, Report(opts.artifacts[Len(written) + 1]))
        /\ UNCHANGED <<pc, exit>>
     \/ Failed /\ UNCHANGED written
  /\ UNCHANGED <<inputVars, idlVars, nameVars, codeVars, runVars, flags, gateVars, warnings,
                 rpc_used>>

ArtifactsDone ==
  /\ At("artifacts") /\ Len(written) = Len(opts.artifacts)
  /\ Done
  /\ UNCHANGED <<inputVars, idlVars, nameVars, codeVars, runVars, flags, gateVars, warnings,
                 rpc_used, outVars>>

PrintReport ==
  /\ At("print")
  /\ written' = Append(written, Report("stdout"))
  /\ Done
  /\ UNCHANGED <<inputVars, idlVars, nameVars, codeVars, runVars, flags, gateVars, warnings,
                 rpc_used, exit>>

Code == worst_severity_exit_code(Range(flags), opts.fail_on)

\* A batch line is done: its code counts, and the next line starts afresh.
Tally ==
  /\ At("tally")
  /\ worst' = Max({worst, Code})
  /\ earlier' = earlier \cup Range(flags)
  /\ flags' = <<>>
  /\ line' = NextLine
  /\ pc' = IF NextLine < tx.lines THEN "decode" ELSE "exit"
  /\ UNCHANGED <<inputVars, idlVars, nameVars, codeVars, runVars, broken, warnings, rpc_used,
                 outVars>>

Exit ==
  /\ At("exit")
  /\ exit' = IF opts.mode = "batch" THEN worst ELSE Code
  /\ pc' = "exited"
  /\ UNCHANGED <<inputVars, idlVars, nameVars, codeVars, runVars, flags, gateVars, warnings,
                 rpc_used, written>>

Init ==
  /\ opts \in Options
  /\ tx \in Transactions
  /\ opts.mode = "batch" => tx.lines > 0
  /\ opts.signature \/ tx.meta = "none"
  /\ pc = Head(StagesOf(opts.mode))
  /\ schema = "none" /\ decoded_with = "none" /\ validated_with = "none"
  /\ idl_source = "none"
  /\ looked_up = 0 /\ fetched = <<>>
  /\ names = [p \in Range(tx.programs) |-> "unnamed"]
  /\ inner = {} /\ inner_named = {}
  /\ bytecode_targets = <<>> /\ analysed = {}
  /\ logs = "none" /\ simulation = "none"
  /\ events = [from |-> "none", with |-> "none"]
  /\ flags = <<>> /\ earlier = {}
  /\ worst = 0 /\ broken = FALSE /\ line = 0
  /\ warnings = {} /\ rpc_used = {}
  /\ written = <<>> /\ exit = 0

Next ==
  \/ Input \/ Decode \/ Lookup \/ LookupDone \/ Adopt \/ ChooseTargets
  \/ Validate \/ Meta \/ Signatures \/ Patterns \/ Recheck
  \/ Offline \/ Simulate
  \/ \E stage \in {"programs", "tables", "oracle", "blockhash"} : NetworkCheck(stage)
  \/ Bytecode \/ Crossref \/ Amounts \/ Events
  \/ Dedup \/ WriteArtifact \/ ArtifactsDone \/ PrintReport \/ Tally \/ Exit

Spec == Init /\ [][Next]_vars

-----------------------------------------------------------------------------
(* Properties *)

\* What a CI gate relies on: the exit code is the worst of every flag any stage
\* raised, over all lines of a batch, except estimates a simulation refuted, and
\* the reports written show just those flags (README.md:42, README.md:146-147).
Gate == INSTANCE Verdict WITH
  fail_on <- opts.fail_on,
  findings <- earlier \cup Range(flags),
  published <- {Range(written[i].flags) : i \in 1..Len(written)},
  verdict <- IF pc = "exited" THEN <<"code", exit>>
             ELSE IF pc = "failed" THEN <<"error">> ELSE <<"pending">>

VerdictHolds == Gate!Spec

\* The report is decoded and validated with one schema, its events are read
\* with that schema, and idl_source says where the schema came from.
Analysed == opts.mode = "audit" /\ pc \in {"dedup", "artifacts", "print", "exit", "exited"}

OneSchema ==
  Analysed =>
    /\ decoded_with = schema /\ validated_with = schema
    /\ events.with \in {"none", schema}
    /\ idl_source = "on-chain" <=> schema \in Programs
    /\ idl_source = "file" <=> schema = "file"

\* When the fetched metadata has logs, the events are those of the transaction
\* that really ran, although a simulation may have run it again (README.md:17).
EventsFromOwnLogs ==
  tx.meta = "logs" => events.from # "simulation" /\ (Analysed => logs = "meta")

\* Every program whose IDL was fetched has its top-level instructions named.
FetchedIdlsName ==
  Analysed => \A p \in Range(fetched) \cap DOMAIN names :
                NamedBy(p, p) => names[p] \notin {"unnamed", "dispatch"}

\* What the warnings say of a target: that its lookup found nothing, and that the
\* disassembly did not take place.
Unfound(p) == \E what \in {"no IDL", "lookup failed"} : <<what, p>> \in warnings
Undisassembled(p) == \E what \in {p, "not installed"} : <<"bytecode", what>> \in warnings

\* --idl-auto without --disassemble never disassembles a program it has an IDL
\* for.  With the network, every other target is analysed or a warning says why
\* not.  When no lookup found an IDL, each target's own lookup warning is left,
\* with the network or without.  What neither covers is --no-network with some
\* IDL found: main.rs:336 replaces the report that held the other targets'
\* warnings, and nothing is disassembled.
FallbackFillsGaps ==
  Analysed /\ opts.idl_auto # "off" /\ opts.disassemble = "off" =>
    /\ analysed \cap Range(fetched) = {}
    /\ \A p \in Range(Targets(opts.idl_auto)) \ Range(fetched) :
         /\ UseNetwork => p \in analysed \/ Undisassembled(p)
         /\ AutoIdl /\ fetched = <<>> => Unfound(p)

\* Wherever the IDLs end and the disassembly begins, and whichever lookups failed,
\* the report accounts for each program the run asked about, but for the case
\* FallbackFillsGaps names.
ProgramsCovered == FetchedIdlsName /\ FallbackFillsGaps

\* No report shows one flag twice.
ReportsHaveNoDuplicates ==
  \A i \in 1..Len(written) :
    LET shown == written[i].flags
    IN  \A j, k \in 1..Len(shown) : shown[j] = shown[k] => j = k

\* What is shown comes from the transaction's own execution, and once.
ReportsSound == EventsFromOwnLogs /\ ReportsHaveNoDuplicates

\* --no-network is to "Skip all RPC-dependent checks" (README.md:167, main.rs:58,
\* PRD.md:32): but for fetching the transaction itself the endpoint is left alone.
\* The lookups of --idl-auto (main.rs:312) and of the decimals of unchecked
\* transfers (main.rs:501) test only whether an endpoint was given.
NoNetworkHolds == opts.no_network => rpc_used \subseteq {"input"}

\* --idl-auto "names each one's instructions, top-level and CPI" (README.md:22).
FetchedIdlsNameCpi ==
  Analysed => \A p \in Range(fetched) \cap inner : NamedBy(p, p) => p \in inner_named
=============================================================================
