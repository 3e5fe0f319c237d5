# Verification of rust-security-toolkit (`rts`)

`rts` is a command-line tool that takes one Solana transaction (or a batch, or a
PoC template), decodes it, validates it against a schema, optionally asks an RPC
endpoint about it, and prints a report of risk flags whose worst severity is the
exit code. This directory holds TLA+ models of the parts where something can go
wrong that a unit test would hardly reach, the TLC runs that check them on small
instances, and TLAPS proofs for every instance.

Paths are relative to the repository root (`src/main.rs` is the crate's main).

## Inventory

| Component | Source | State it keeps | Operations | What makes it correct |
|---|---|---|---|---|
| Orchestration | `src/main.rs`, `src/batch.rs` | the report, the schema, the worst code of a batch | about twenty stages in a fixed order, each a write to the report; three modes | no finding is lost or counted twice; one schema throughout; a failing stage does not hide another one's result; it ends |
| Risk flags and gate | `src/types.rs`, `src/main.rs:576-612` | `risk_flags` | extend, retain, dedup, exit code | the exit code is the worst flag at or above `--fail-on` |
| Event decoder | `src/event_decoder.rs` | a stack of program ids rebuilt from the log | one step per log line | an event names the program that emitted it |
| Simulation cross-reference | `src/sim_crossref.rs` | a stack of depths, an instruction counter, the CU table | one step per log line, then one pass over the report | consumption belongs to the right instruction; flags agree with measurement |
| Address lookup tables | `src/simulator.rs:397-530`, `src/decoder.rs:117-155`, `src/inner_instructions.rs` | the resolved accounts, a cache by table | number, annotate, fetch, apply | one number means one key; one snapshot per table; nothing unresolved without a reason |
| Bytecode fallback | `src/bytecode.rs` | a child process, a pipe, a directory per program | fetch, run `sol-azy`, read its files, clean up | an analysis in time is not dropped; no other program's output is read |
| Replay | `src/replay_svm.rs`, `replay/src` | two processes, a pipe each way | request, execute, answer, time out | the answer is that of the request; the client ends |
| Patterns | `src/patterns.rs`, `src/account_roles.rs` | none (pure over the flattened instructions) | five rules | order and lineage agree with execution |
| Transaction decoding | `src/decoder.rs`, `src/encoding.rs`, `src/account_roles.rs` | none | text or bytes to a report: encodings, privileges, roles, compute budget | privileges and budget are those the client wrote; text is read in its own encoding |
| Instruction decoding | `src/instruction_decoder.rs`, `src/anchor_decoder.rs`, `src/expectations_decoder.rs` | none | a name and arguments for each instruction's data | the client's name and arguments; no panic on any data |
| Validation | `src/validator.rs` | `risk_flags` | PDA seeds, signers, writable accounts, compute budget, lookup tables | each rule accuses exactly what it names |
| Self-check | `src/internal_parser.rs`, `src/signature_verify.rs` | an offset into the bytes, warnings | a second parse, ed25519 per signature | warns iff the two parses differ; stays within the bytes; accepts what the runtime accepts |
| IDL fetch | `src/idl_fetch.rs` | none | three addresses in turn, two requests each | a failing request is not an absent IDL; the IDL is what stood there |
| RPC checks | `src/simulator.rs`, `src/oracle.rs` | a set of programs seen, decimals by key, feeds | ownership, verified build, upgrade authority, feeds, decimals, blockhash | failures are visible; what is reported was true at some moment |
| Meta | `src/inner_instructions.rs`, `src/balance_changes.rs` | inner instructions, deltas | annotate | keys and privileges of the runtime |
| PoC | `src/poc.rs` | a template | mutate, rebuild, diff | faithful round trip |
| Rendering | `src/ui.rs`, `src/html_report.rs`, `src/markdown_report.rs`, `src/sarif.rs`, `src/labels.rs`, `src/known_addresses.rs` | none | layout | out of scope |

How they interact: everything meets in the `TransactionReport`, which `main` hands
from stage to stage by mutable reference. There are no threads inside `rts`; what
interleaves with it is the outside: the chain, whose accounts change between two
requests; the endpoint, which may fail on any request; the programs whose logs it
reads; and the child processes it starts. The hard behaviours are therefore the
order of the writes to the report, partial failure of the network stages, logs
that are truncated or written by the analysed programs themselves, on-chain
state that is stale when it is used, child processes with pipes and deadlines, and,
inside the tool, two parsers of one byte format and rules that meet only in the
indexes of accounts and instructions. `PROJECT.json` lists them as hazards, each at its line.

## Modules

    RuntimeLog          the Solana runtime's program log (external), line by line
      EventDecoder        + event_decoder::decode_events     (MCReport)
      SimCrossref         + sim_crossref                     (MCSimCrossref)
    Retain              lists with elements taken out (RiskFlags, Patterns, TransactionDecoding)
    RiskFlags           flags, dedup, exit code (+ Retain)
      Verdict             abstract specification: what a CI gate is promised
      Pipeline            main.rs, implements Verdict        (MCPipeline)
    AddressTables       lookup tables against a changing chain (MCDecoding)
    Disassembly         bytecode.rs, its child process and directories (MCDisassembly)
    Replay              the replay client and the rts-replay service   (MCReplay)
    Patterns            patterns.rs against the token program (+ Retain)    (MCReport)
    WireFormat          the bytes of a transaction, and compact-u16 counts
      InstructionData     instruction_decoder, expectations: a name for data
        AnchorArgs          the arguments an IDL declares, and seeds made of them
        TransactionDecoding the report of a transaction, its signatures
          ByteParser          internal_parser, section by section
          Validation          validator (+ AnchorArgs)
            OfflineAudit        input to flags, without an endpoint    (MCDecoding, MCOfflineAudit)
    Endpoint            one request at a time, against accounts that change
      IdlFetch, ProgramChecks, OracleFeeds, TokenAmounts
        OnlineChecks        the network stages                         (MCOnlineChecks)
    ProofLemmas         numbers, sequences, folds
      RuntimeLogProofs    the runtime's frames
        ReportProofs      EventDecoder and Patterns
        SimulationProofs  SimCrossref and Replay
      PipelineProofs, DisassemblyProofs, OnlineChecksProofs
      TransactionProofs   ByteParser, AddressTables and OfflineAudit

### RuntimeLog (external)

The two parsers are folds over the log of a transaction, so the log has to be
right first. `RuntimeLog` produces it: `frames` is the runtime's invocation
stack; `InvokeTop` and `InvokeInner` open frames (a program may re-enter itself
directly and in no other way); `LogData` and `LogText` are what a program logs;
`Consume` prints the `consumed` line of a program that is not built in;
`EndSuccess` and `EndFailed` close frames, a failure taking the enclosing frames
and the rest of the transaction with it. `line` is the line just appended. The
runtime bounds a log's size, so `drops` are the kinds of lines that may be lost.
The runtime is not in the repository; the module is written from the lines
`event_decoder.rs` and `sim_crossref.rs` match and from their tests' fixtures.

### EventDecoder

`ReadLine` is one iteration of the loop of `decode_events`, composed with each
runtime step. `program_stack` is the code's vector; `CutTo` is its `rposition`
and `truncate` (or `pop`), `Attribution` its `last()` (or "unknown"), `EventName`
the first IDL event that matches. The decoder has no check of the id in
`Program <id> <tail>`, so a message `Program log: success` is an end line with
the id `log:`; `IdOf`, `ReadsAsInvoke` and `ReadsAsEnd` say so. `emitted` and
`imitated` are history variables: who really logged each event, and what the messages
logged so far read as, of those that read like a line of the runtime (`Imitates`).

### SimCrossref

`OnInvoke`, `OnEnd` and `OnConsumed` are the three branches of
`parse_instruction_cu`, in the code's order; this parser does check ids, so
messages are not ends. `Answer` is the simulation's outcome (a transaction that
failed in the middle, that ran, or that never ran), and `CrossReference` is
`cross_reference`: `Retained` and `NewlyHigh` are its treatment of high-CU flags,
`EstimateFlags`, `InvocationFlags`, `FailureFlags` and `OverLimitFlags` its
mismatches. `truth` is a history variable: which instruction and depth each entry
came from. Left out: `priority_fee_actual`, and the flag for a failing
instruction beyond the decoded ones, which cannot occur when the node simulates
the transaction that was decoded.

### RiskFlags, Verdict, Pipeline

`Pipeline` has one action for each stage of `main`, and `AuditStages`,
`PocStages` and `BatchStages` are the orders in which `main` runs them. An action
is the whole stage: what it writes into the report, what it asks of the endpoint
and how it can end the run. Data is abstracted to what the properties tell apart:
a flag is its stage, severity and whether it is a high-CU estimate; the logs are
where they come from; an instruction's name is the schema that gave it; `Declares`
says which schema matches which program's data. `opts` and `tx` are chosen in
`Init`, so one run covers every mode.

`Verdict` says what a gate in CI relies on: findings accumulate, only an estimate
may be withdrawn, a published report shows the findings of the end, and the exit
code is their worst. `Pipeline!Gate` instantiates it with `earlier \cup
Range(flags)` as the findings, and `VerdictHolds` is the refinement. It forbids,
for instance, raising flags before `validate` (which replaces them), publishing
before the last finding, and dropping a batch line's findings.

### AddressTables

`DecodedAlts` is `decode_versioned_tx`'s numbering (narrowed to `u8`:
`IndexRange`), `InnerAccount` is `annotate_report`'s use of the loaded keys, and
`UseCache`, `Fetched`, `NotFetched` are the ways one iteration of
`resolve_address_lookup_tables` can go. The chain moves: `Grow` and `Close` are
steps of their own and happen between any two of the tool's. A transaction that ran
passed the runtime, which loads keys within the tables only (`InBounds`) and locks
fewer accounts than a `u8` can number (`Numberable`); one that did not run may be
anything, and its numbers may wrap.

### Disassembly

`Probe` to `Return` are the steps of `analyze_programs` and `run_reverse` for each
run of `rts`: every step that can fail has a branch that fails, which leaves a
warning and goes on with the next target (`Warn`); only the removal of a directory may fail
without one, and then leaves any part of it (`Removed`, history variable `unremoved`). The polling loop is
`Reap`, `ReapFailed` and `StillRunning` for the answers of `try_wait`, then `Sleep`
or `Kill` once the clock has been read; the child may exit between the two.
Beside the tool run the child (`Load`, `WriteListing`, `Complain`, `ExitOk`,
`ExitFailed`), which blocks when its stderr pipe is full, the clock (`Tick`), and
other runs of `rts`. `files` is what they share: a directory per short key, under
the temporary directory or under `--output-disassembly`. A program's listing is
abstracted to the program it was made from. A child that exits with success has
written its listing; `try_wait` itself does not fail for a child that has not been
reaped, so its error branch is left out, and so are the parsers of the listing.

### Replay

`Collect` to `GiveUp` are the client (`replay_svm.rs`): what it asks for, the child,
the request written chunk by chunk into a bounded pipe, and `wait_with_output` under
a timeout, which drains the output while it waits. `Read` to `Exit` are the service
(`replay/src`): it reads its stdin to the end, loads programs, fetches accounts one
by one (`ChainMoves` may happen in between), executes and prints. `Fail` stands for
every error that ends it. `build_mutations`, `Outcome` (`execute`) and
`diff_outcomes` are operators; `Run` is LiteSVM (external), for which a transfer of
lamports or of tokens is enough: the first shows in `sol_deltas`, the second only as a
member of `data_changed`. A transaction that needs a lookup table fails in LiteSVM,
since `collect_accounts` asks for the accounts a table resolves to and not for the
table. `rts` itself does not call the client yet; the model calls its functions in
the order their arguments require. Left out: the rendering, and the availability
probe.

### Patterns

`Approvals` to `Payments` are the instructions the token and system programs accept
on a small ledger, with their real account layouts, and `TopLevel`, `Inner` and
`CallProgram` execute them (external). What an instruction really did is kept apart from
what the report shows of it: who authorised it, whom it paid, and in `spends` and
`takeovers` which approval or change of authority made it possible. `DetectPatterns` runs
`detect_patterns`: `all_instructions` is the list the rules read (inner instructions only if
the transaction was fetched with its meta), `role_account` with the role tables the way they
find an account, and each rule an operator of the source's name. The properties compare the
two sides. A rule's nested loops with a set of what was emitted become a set with the first
match. Left out: severity overrides, which only rename a flag's severity.

Two things the rules do not say are worth knowing. Instructions of different trees are not
compared, nor is a top-level instruction with an inner one of another tree (`OneTree` in the
properties; `tests/patterns_inner.rs` asks for it). And every top-level `TransferWithSeed` is
called a transfer whose authority does not sign, since the rule looks at the derived address
and not at `from_base`, which signs (`NonsignerExplained`; `tests/patterns.rs:259` asks for
it).

### WireFormat, InstructionData, AnchorArgs, TransactionDecoding, Validation

These are the pure algorithms between the input and the flags, as operators under the
source's names. `Serialize` is what a client's SDK writes (external); `read_compact_u16`
is the byte parser's own reader of counts. `InstructionData` has the layouts of the six
built-in programs: the tag, the length each arm tests for (`min`) and the slices it then
takes; an arm that slices past the end panics, which the result says (`panics`).
`AnchorArgs` is the recursive decoder of IDL types, with what a vec, an option or an
unknown type does to the offsets of what follows, and `encode_arg_seed`. A type is a
scalar under layers of vecs, options and arrays, so that the recursion is a function of
the layers left.
`decode_versioned_tx` (in `TransactionDecoding`) composes privileges, roles, names and
the compute budget; `verify_transaction` and `verify_report` judge the signatures.
`Validation!validate` is the union of the rules, each an operator: a flag is its
severity, category, instruction and the numbers that tell it from its like.

### ByteParser, OfflineAudit

`ByteParser` has one action per section of `validate_decoding`, with its ways out: a
warning, an error, or a loop that breaks silently. `OfflineAudit` runs `main`'s part
before the first request: `Decode`, `Validate`, `VerifySignatures`, `Compare`. Its inputs
say what a client *meant* (groups of accounts, names, argument values, seeds) beside the
bytes it handed over, so that the properties judge the report by the intent and not by
the code's own arithmetic. `InputsAssumption` says what an input is: a transaction whose
header follows from its client's groups of accounts (`Grouped`), and text made of the
characters its encoding has (`Spelled`); every length is a u16, and the first byte of a
message without a version is no version (`Compiled`). The parser is also a library function,
called on bytes and a report that need not belong together, so part of the inputs do that:
their bytes are those of another transaction, whose signatures may be counted with more
groups than needed (`Whole`), or such bytes cut short, or bytes that begin with no count
(`Damaged`). A name the client meant is the one of the instruction whose discriminator it
wrote (`CalledAs`), where the discriminators of one schema tell its instructions apart.

### Endpoint, IdlFetch, ProgramChecks, OracleFeeds, TokenAmounts, OnlineChecks

`Endpoint` is what all network stages share: each request is a step, answered with what
the account holds now or with a failure, and `Others` changes accounts between any two
requests. `job.lives` is an account's history, `chain` how far it has come, and `Past`
what it has been, which the properties quantify over: a report cannot promise what an
account is now, only what it was at some moment.

The stages are loops of such steps. `IdlFetch`: `FetchIdlData` keeps the data of an
account, `FetchIdlOwner` asks for the same account again and parses what was kept.
`ProgramChecks`: `CheckOwner`, `CheckRegistry`, `FetchPointer`, `FetchAuthority`, the last
with an address an earlier answer held. `OracleFeeds`: two requests per account, then
`check_feeds` on what could be read. `TokenAmounts`: a cache by key, which remembers
failures. `main` runs them one after the other, each with a client and caches of its own,
and hands on nothing but flags and results, so a behaviour of `OnlineChecks` is one stage
on one job. `JobsAssumption` says what a job is: the keys a stage asks for have a
history, an account's text is one IDL or none, and its instructions are lists.

## Runs

| Run | Distinct states | What it checks |
|---|---|---|
| `Report` | 2.2 million | `AttributedToEmitter`: if no invoke or end line was lost and no message has read like one, each event names its emitter. `LiveFramesKept`: if only end lines were lost and no message has read like an end, the frames that run are still on the stack, in order. `DelegationJudged`: what a delegate of this transaction spends is flagged where the rules compare, never for an approval that came later or empowers another key, never twice. `TakeoverFlagged`: the same of a mint authority. `NonsignerExplained`: which transfers are said to lack a signature. `FanInNamed`: an account paid several times is named with exactly the instructions that paid it |
| `SimCrossref` | 2.3 million | `CuIndexIsRunningTop`: in a whole log each entry has the index of the instruction whose tree it belongs to. `NeverLaterInstruction`: in any log, never a later one. `HighCuIffSimulated`: after the cross-reference an instruction is flagged exactly when it consumed the threshold |
| `Pipeline` | 973 thousand | `VerdictHolds` (refinement of `Verdict`). `OneSchema`: decoded, validated and read events with one schema, whose origin `idl_source` states. `ProgramsCovered`: a program whose IDL was fetched has its top-level instructions named (`FetchedIdlsName`); with `--idl-auto` and the network each other target has an analysis or a warning, and if no lookup found an IDL its lookup's warning, with the network or without (`FallbackFillsGaps`, which claims nothing for `--no-network` with some IDL found: see the divergences). `ReportsSound`: events come from the transaction's own logs, and no flag is shown twice (`EventsFromOwnLogs`, `ReportsHaveNoDuplicates`) |
| `Disassembly` | 712 thousand | `OwnListing`: an analysis is never made from what another program's failed analysis left in the directory they share, unless a second run shares it. `TargetsAccounted`: a child that finished is not dropped at the deadline; each target has an analysis or a warning, never both. `DirectoriesKept`: a temporary directory is left only where a removal or an analysis failed, and kept ones that no other target uses are whole. `Terminates`: even when a child hangs or blocks on its stderr |
| `Replay` | 349 thousand | `MutationsAnswered`: no mutation is the original, and an accepted report answers each of them on the accounts that were loaded, whatever ran before it. `SolEffectReported`: a mutation said to change nothing leaves all loaded lamports alike. `OrphansExplained`: only a timeout leaves the service running. `Terminates`: the client ends |
| `Decoding` | 99 thousand | `DifferencesWarned`: the second parser warns where the bytes are damaged or differ in a count it compares, and is silent, indexes out of range aside, where they differ in no count. `ParserTypeOK`: it never reads past the end. `PrivilegesAsMeant`, `BudgetJudged`, `SignaturesJudged`, `NamedAsMeant`, `DataAsWritten`, `PdaJudged`, `ReadAsGiven`: report and flags against what the client meant (of derived addresses, `PdaJudged` says when one with constant seeds is accused and when a wrong one is not). `ExpectedFlagged`: the accounts table and the flags tell one story of derived addresses. `AccountsNumbered`: no gaps (`IndexesTile`), and the runtime's numbers unless two lookups split the privileges (`AgreesUnlessSplit`). `PlaceholdersExplained`, `OneSnapshot`: an index without a key has its flag, the lookups of a table come from one answer |
| `OnlineChecks` | 46 thousand | `SearchIsHonest`: "no IDL" only if every address was without one at some moment, and an IDL returned is what stood there. `EveryProgramJudged`: once, at its first use; silence has a reason, a warning was true. `FeedsJudged`: too wide to the last unit although the code divides; a flag for exponents is about feeds that differ and that its instruction names, or that none does, and the first instruction to name each of two such feeds has one. `AmountsInMintDecimals`: in decimals the account has had, asked for once, none left out without a reason |

`Report` and `Decoding` each check two parts of the program that neither call one another
nor share a variable: a behaviour is one of the parts, and the other stays where it begins.

Runs that find what a document says violated by the code:

* `SimCrossrefInvocations` - every transaction with a CPI is flagged as a
  disagreement between simulation and decode (`src/sim_crossref.rs:100`).
* `PipelineCpiNames` - a fetched IDL never names an inner instruction
  (`src/main.rs:357` runs before `src/main.rs:406`).
* `PipelineNoNetwork` - `--no-network` stops neither the lookups of `--idl-auto`
  (`src/main.rs:312`) nor `resolve_token_amounts` (`src/main.rs:501`).
* `DynamicSeeds` - an address of which some seeds are dynamic is derived from the constant
  ones, and the right account is called Critical (`src/validator.rs:468`).
* `DecoderPanics` - `decode_system_instruction` slices past the end of short data
  with a seed (`src/instruction_decoder.rs:81`), although a property test says that
  the named decoders never panic.

### Bounds

`MaxTop`, `MaxDepth`, `MaxCalls`, `MaxEvents` bound the call tree. Two or three
top-level instructions, depth two or three and three or four calls contain a nested
call, a self-call, a sibling after a nested call and a failure that unwinds several
frames, which are all the ways the two stacks can come apart: each parser step looks
only at the top of its stack or at the last occurrence of one id. Two programs and a
built-in are enough because the parsers compare ids only for equality. `MaxImitations` = 2
messages that read like runtime lines, of each kind (`UserTexts`), contain one that opens a
frame and one that closes it. `IndexCap` =
2 stands for 255 and is the index of the last of three instructions in
`SimCrossref`; beyond it several instructions would share an index, but the runtime
runs at most 64 in a transaction. `IndexRange` = 7 stands for 256 and is exceeded.
`MaxFlags` = 1 lets a stage that finds the report free of flags raise one, twice or
not at all; flags of different stages meet in a batch and after `validate`;
`MaxTargets` = 2 for 8, so that the limit is met by the transaction of three
programs. `MCPipeline` lists the command lines: every mode, every source of a
schema, with and without an endpoint, the three severities. In `Disassembly` a pipe
of one chunk and a child that owes none or two contain the child that goes on and
the one that blocks; `Timeout` = 1 lets a child exit before, at and after its
deadline; of three programs two share a directory, which one run may use twice or
two runs at once. In `Replay` requests and reports are longer than a pipe; amounts
from 0 to `MaxAmount` = 3 contain saturation, the one whose half is zero and the one
that has no mutation. In `Patterns` three named instructions in two
trees contain each rule's pair with a third that interferes (a second approval or appointment, a
revocation, a second match); `Appointees` bounds who is made a delegate or authority.

In `OfflineAudit` a byte has four low bits instead of seven (`Radix` = 16) and `U16Max` =
1023, so that counts of one, two and three groups, and one above the largest, occur in
transactions of a few hundred bytes; keys, signatures and integers are two to four bytes,
and only their lengths matter. The numbers of instructions, accounts and signatures
are narrowed to a `u8` (`u8`, `% (2 * Radix)`); what `PrivilegesAsMeant`, `BudgetJudged`,
`PdaJudged` and `AccusedAreWrong` say of flags by number they say of transactions whose
numbers fit (`NumbersFit`; the runtime runs at most 64 instructions).
`FeedsAsked` bounds the instructions of a feeds job in the same way (`InstructionLimit`),
and both bounds are hypotheses of the theorems. Its inputs come in families, each exhaustive in what one
group of properties is about: every small header, every sequence of up to three of ten
compute-budget and other instructions, every prefix of a serialized transaction, every
signature list up to three, every combination of the signs `detect_encoding` looks at,
every pair of arguments of thirteen types and values, every list of up to two seeds. In
`OnlineChecks` accounts have up to three successive contents (absent, present, replaced,
closed), enough for a change between any two requests about one account; the answers that
make an account unusable are tried one at a time.

Deadlock is checked in `OnlineChecks`, whose final states loop; it is off in the other
passing runs, where an invocation, or one of two parts, simply ends.

### Fairness

`Pipeline` states safety only: its stages are a finite list, gone over once. `Disassembly` assumes that time passes
(`WF_vars(Tick)`) and that each run of `rts` keeps polling (`WF_vars(Parent(r))`), and
nothing about the child; only `sol-azy --help`, for which `is_available` waits
without a deadline, is taken to return. `Replay` assumes the same of its client
and clock, and of the service only that it reads its request (`WF_vars(Read)`): the
request is written outside the timeout, and `read_to_string` is the first thing
`replay/src/main.rs` does. The other modules state safety only.

## Proofs

`TLAPS` checks these for every value of the constants, under the modules' named
assumptions:

* `ReportProofs!TypeCorrect`, `SimulationProofs!TypeCorrect`.
* `ReportProofs!EventsAttributed`: `Spec => []AttributedToEmitter`. The property is about
  logs in which no message has read like an invocation or an end, and has to be: see the
  divergences.
  The inductive invariant is that, while no relevant line is lost, the decoder's
  stack is the list of the running frames' programs; the last occurrence of the
  ended program's id is then the last place.
* `ReportProofs!LiveFrames`: `Spec => []LiveFramesKept`. With end lines lost the stack no longer
  is that list, but contains it: each step carries a witness `f` that `Places` the frames
  on the stack. What rposition cuts off lies at or above the place of the last frame, and
  so above the places of all others.
* `SimulationProofs!CuIndexed`: the same kind of argument on depths; while no
  relevant line is lost, `stack` is `1..Len(frames)`, and the counter is the number
  of ended top-level frames.
* `SimulationProofs!HighCuSound`: if every index of a transaction can be reported
  (`IndexesFit`) and the compute-budget program prints no consumption
  (`BudgetIsBuiltin`), `Spec => []HighCuIffSimulated`. The report keeps an instruction's
  last entry and flags by any, so its own frame must report last and most: `TreeUnits`
  says that while an instruction runs some open frame has spent at least what each of its
  entries says, and that nothing is logged after the depth-1 entry.
* `SimulationProofs!NeverLater`: no correspondence of stacks survives lost lines,
  so the invariant is a count: the ends completed, plus the depth-1 entries still
  on the parser's stack, never exceed the top-level invocations started, and
  while an instruction runs the current index is below the number started.
* `TransactionProofs!CountsRoundTrip`: for every radix and every count up to the
  largest, `read_compact_u16` reads exactly what the wire format writes and goes on just
  behind it. By cases on the number of groups, from facts about division.
* `TransactionProofs!ParserInside`: for any bytes, `ParserSpec => []ParserTypeOK`; each
  section moves the offset only after it tested that the bytes are there, and a count
  that was read ends within them.
* `OnlineChecksProofs!AmountsAlways`, `FeedsAlways` and `ProgramsAlways`: `Spec => []P` for `AmountsInMintDecimals`,
  `FeedsJudged` and `EveryProgramJudged`, for any jobs that satisfy `JobsAssumption`, any
  number of instructions, any history of the accounts and any failures. `ChainOK` and
  `Past` are shared: what has been stays what has been (`ChainMoves`). On top of them
  each stage has an invariant that says of every result where it came from, and why the
  loop left nothing behind it: `AmountsInv` needs that what the cache holds was once
  answered (`Remembered`); `FeedsInv` that a key gave one feed only, so that a flag
  identifies it; `ProgramsInv` that the set of programs seen is exactly that of the
  instructions passed (`Seen`), which makes a check a first use, and that only the last
  request of a program raises a flag about its authority. `WideToTheUnit` shows that the
  integer division of the confidence test loses nothing.
* `OnlineChecksProofs!SearchAlways`: `Spec => []SearchIsHonest`. `IdlInv` keeps, for each
  address left behind, a moment without a readable IDL (`Unpublished`), and for the owner's
  request the account whose data were kept. The search goes on although something was kept
  only if that does not read (`ParsedIs`: what was published is read) or the second answer
  is of another owner: either way one of the two answers was no publication. What is read
  lists the accounts in the IDL's order (`NormalizeIs`; for an IDL without groups from
  `FlattenSingles`).
* `PipelineProofs`: `PipelineInvariant`, and from it `SchemaTheorem`, `ReportsTheorem`,
  `CoverageTheorem` (`OneSchema`, `ReportsSound`, `ProgramsCovered`) for any set of options
  and transactions and any bounds. The order of the stages is data (`AuditStages`,
  `PocStages`, `BatchStages`), so `After` is computed stage by stage first; `Past(stages)`
  and `Within(stages)` then say for each part of the report from which stage on it holds.
  `PipelineInv` says that there is no flag before `validate` has replaced the list, that
  nothing is published before the duplicates are gone, which schema decoded and
  validated, that a fetched program's instructions keep their names, and that the
  fallback's targets are those without an IDL.
* `PipelineProofs!VerdictTheorem`: `Spec => VerdictHolds`, the refinement. `WorstOK` makes
  the worst code of a batch that of the flags of its lines, so the exit code can be
  computed at the end from `earlier \cup Range(flags)`; every stage is shown to be a
  finding, a withdrawal of estimates, a publication, the end, or a stutter of `Verdict`.
* `DisassemblyProofs`: `DisassemblyInvariant`, and from it `ListingTheorem`,
  `TargetsTheorem`, `DirectoriesTheorem` (`OwnListing`, `TargetsAccounted`,
  `DirectoriesKept`), for any number of runs, programs, targets, directories, chunks and
  any timeout. `CountOK` (analyses, warnings and queue partition the targets, and their
  lengths add up) excludes a target reported twice; `FinishedOK` says where the target is
  whose child finished; `CurrentOK` says that from the write on a directory that is the
  run's own holds the current target's ELF, and that what the child loads and leaves is
  made of it. What holds of a run's own directory is lost as soon as another may write
  there, hence `Shared`.
* `TransactionProofs!AltsInvariant`: what `decode_versioned_tx` wrote of the tables' accounts
  stays (`Numbered`), a lookup gone over has the keys of the one answer in the cache or is
  unresolved (`LookupsResolved`), what a table answered is a prefix of what it ever holds, and
  the inner accounts are the runtime's (`RanOnce`, `InnerOK`); for any tables, contents and
  lookups. `PlaceholdersTheorem` and `SnapshotTheorem` (`PlaceholdersExplained`,
  `OneSnapshot`) follow.
* `TransactionProofs!NumberedTheorem`: `Spec => []AccountsNumbered`. The numbers are sums
  (`Before` is a fold, and so is the flattening of the runtime's lists), so both are first
  unfolded into running sums (`BeforeSums`, `FlattenPlaces`). Blocks laid one behind the
  other tile what they cover (`SumsTile`), which is `IndexesTile`. For `AgreesUnlessSplit`
  the decoder's sum is the writable plus the readonly one (`SumsAdd`); when no lookup
  with readonly indexes precedes one with writable ones, the readonly sum is still zero
  where a writable account stands and the writable sum is complete where a readonly one
  does (`SumsFlat`), so both orders put an account at the same place.
* `TransactionProofs!AuditInvariant`, and from it `ReadTheorem`, `PrivilegesTheorem`,
  `BudgetTheorem` and `SignaturesTheorem` (`ReadAsGiven`, `PrivilegesAsMeant`, `BudgetJudged`,
  `SignaturesJudged`), for any inputs that satisfy `InputsAssumption`. `AuditInv` keeps what
  each stage leaves to the next; the rest is about operators. A flag's category says which
  check raised it (`ValidateParts`), so a property about one check can be read off the union
  of all (`AuditedFlags`). The code finds a reordered ComputeBudget instruction by its
  place among them alone: in an increasing list an element is at its own place exactly when
  every smaller number is in the list (`AtItsPlace`), that is, when no other program's
  instruction precedes it. The limit is a fold over the instructions (`LastSetIs`) of numbers
  (`FieldType`). Of a flag about an account of an instruction the numbers determine the
  declaration (`PrivilegesLemma`), unless the instruction has the account twice.
* `TransactionProofs!NamesTheorem`: `AuditSpec => []NamedAsMeant`, for any schema that
  satisfies `Declares`. `match_expectation` is a fold that keeps the best declaration so
  far; unfolded (`MatchUnfolds`) it is shown to keep one of the longest discriminator of
  those that fit (`MatchLongest`). With `MatchesTheCall`, for an IDL the first that fits,
  the declaration found has the name of the client's call.
* `TransactionProofs!ExpectedTheorem`: `AuditSpec => []ExpectedFlagged`, for any number of
  derivations of an account. `TriedWhere`: what is derived is an account with a known key;
  `LastTried`: of the derivations that came to an address one is the last, by instruction
  and by the rank of the declared account, so an accused account shows an address.
* `TransactionProofs!WarningsTheorem`: `AuditSpec => []DifferencesWarned`, for any
  transactions of any size that satisfy `InputsAssumption`: nothing bounds the number of
  keys, instructions or lookups but the u16 of the format. The invariant `WarnInv` says what
  the parser has found when it stands before a section (`Following`): if the bytes from some
  place on are the message of the transaction, the offset is where the section begins
  (`Marked`, the lengths of what precedes it added up), what it counted is what the
  transaction has, and the warnings are exactly those for the counts that differ from the
  report's, the indexes no key stands behind, and nothing else. Instructions and lookups are
  one step each, so this is said of every iteration. Of bytes that end too early the same
  holds up to where they end; from there on a warning of a kind that whole bytes never raise
  (`CutKinds`) is there and stays (`Lost`). `RecountRead` and `NoCountRead` are the first
  count, written in one, two or three groups or not at all; the later ones are
  `CountsRoundTrip`. At the end the warnings are those of the counts and those of the
  indexes, of different kinds, so that they are the indexes' alone exactly when all compared counts
  agree (`EndJudged`, `CountsMatch`). Where `main` calls the parser the report is of the same
  transaction, so that no count differs.
* `SimulationProofs!ReplayInvariant`, and from it `OrphansTheorem`, `MutationsTheorem` and
  `SolEffectTheorem` (`OrphansExplained`, `MutationsAnswered`, `SolEffectReported`), for any
  transactions, chains, amounts and sizes of the pipes. `LoadedOK`: what LiteSVM holds is
  what the service loaded, so that no mutation runs on what another one left. `RequestOK`:
  the mutations are those of the transaction (`MutationsDiffer`: none of `Candidates` is the
  amount it replaces). `ReportOK`: up to the position reached, every mutation is answered
  as itself or warned of, in order, and what is printed reaches the end; `ResultOK` and
  `OrphansExplained` tie the client to it: it hands on the report of a service that
  exited, and leaves a running one only at the deadline. For `SolEffectReported` the run of
  a transaction, a fold, is shown to keep a balance for each account it began with
  (`RunType`), and a delta, absent or not, to be the difference of two balances
  (`DeltaMeans`); equal differences from one balance are equal balances.

* `ReportProofs!PatternsInductive`, and from it `DelegationTheorem`, `TakeoverTheorem`,
  `NonsignerTheorem` and `FanInTheorem` (`DelegationJudged`, `TakeoverFlagged`,
  `NonsignerExplained`, `FanInNamed`), for any accounts, owners, signers and multisigs and
  any number of instructions. `InOrder` and `NextComesAfter`: the ids of the steps grow, and
  `execution_key` grows with them (`KeysTellOrder`), so that comparing keys is comparing
  places in the execution. `DelegatesKnown` and `AppointmentsKnown`: whoever holds a power
  given in this transaction has it from a step that named them. `SpendsKnown` and
  `TakeoversKnown` follow each time a power is used: two steps, in order, the second
  authorised by the grantee of the first. `Judged`: the report lists steps that ran, each
  once, and the flags are those of that list. The role tables are read at one position for
  each name (`RoleRead`), so that what a rule sees of a step is what the step did. That
  `PatternsAssumption` keeps `None` apart from the addresses says only that an absent
  account is no account; that `Derived` is not among the signers, that no key signs for
  an address made of a base and a seed.

`ProofLemmas` holds facts about sequences (what `Front`, `Last`, `SubSeq` and
`Append` keep; what `Without`, Vec::retain, leaves, in order and once each), extreme elements, division, and folds: `FoldLeft` and `FlattenSeq` are
defined by a choice of a recursive function, and `FoldDefined` and `FlattenUnfolds` show
that there is one and what it is, by induction on a set of numbers. `RuntimeLogProofs`
holds the facts about the runtime's frames on which both parsers rely.

Model-checked only: all liveness; and of `OfflineAudit`, `DataAsWritten` and
`PdaJudged`. These two compare the report with names, values and seeds the client
meant, which only `MCOfflineAudit` ties to the bytes: a general statement for the
built-in programs would repeat the decoder's own tables, and both read arguments of any
nesting, an induction over the type.

## Divergences without a run

Behaviour met while modelling that a reader of the code, or of what is said of it, would
not expect. The models have it; a property that mentions it says so in its statement.

* A program that logs `success`, or the words of an invocation, moves the attribution of
  its next event to its caller, to "unknown" or to a program that is none: the event decoder
  does not check the id of the lines it builds the stack from
  (`src/event_decoder.rs:31-34`), as `SimCrossref`'s parser does. CHANGELOG.md:71-72 and
  README.md:17 promise the emitting program without this condition, which
  `AttributedToEmitter` states.
* The byte parser reads the header's counts, the numbers of accounts and bytes of an
  instruction and the two counts of a lookup, and compares none of them with the report
  (of a lookup it compares the sum); its doc says that "Every count the parser extracts is
  cross-checked" (`src/internal_parser.rs:38`). `DifferencesWarned` is about those that are.
* A feed is filed under the first instruction that names it (`src/oracle.rs:203`), or under
  none: an instruction that reads it again with one of another exponent is not flagged, and
  two feeds no instruction names are, against `src/oracle.rs:151-153`. `FeedsJudged` asks for
  a flag at the first instruction to name both only.
* Two runs that analyse one program share its temporary directory; the first to finish
  removes it, and the other may report the analysis of an empty listing without a warning
  (`src/bytecode.rs:288`, `:320`, `:117`). `OwnListing` and `DirectoriesKept` leave out
  directories that several targets share.
* Under `--rpc --no-network --idl-auto` the lookups' warnings are in the report that the
  re-decode replaces (`src/main.rs:328-336`), and nothing is disassembled: when some IDL was
  found, a program without one has neither an analysis nor a warning (`FallbackFillsGaps`).
* A directory that `remove_dir_all` fails to remove is left without a word
  (`src/bytecode.rs:320`, `LeftoversExplained`).
* `mint_authority_takeover` does not look at the order: a mint before its authority is
  set is reported too (`src/patterns.rs:322`).
* Account numbers differ from the runtime's when a lookup with readonly indexes precedes
  one with writable indexes (`src/decoder.rs:135`, `AgreesUnlessSplit`), and another
  amount of tokens is shown as "no effect change" (`replay/src/lib.rs:240`,
  `SolEffectReported`).
* Signed arguments are encoded as unsigned seeds, an empty vec is read as null, and text that is not UTF-8
  as hex. `find_program_address` panics on a seed longer than 32 bytes.
* Groups of accounts nested twice shift the accounts that follow, and an IDL of the old
  format with a group is unreadable (`src/idl_fetch.rs:218`).
* The byte parser accepts counts that are written longer than needed.
* An IDL, or expectations without a `program_id`, name an instruction of whichever
  program, if its data match. Of the expectations that match the longest discriminator
  wins, and the first of equal ones (`src/expectations_decoder.rs:22`).
* The blockhash check compares with the endpoint's latest blockhash only
  (`src/simulator.rs:228`). Without a limit, the priority fee is that of 200000 units for
  the whole transaction.
* Decimals are remembered by key: a key that was asked for as a mint and is a token
  account has none for the rest of the transaction (`src/simulator.rs:955`).

## Not modelled, and why

* Rendering and labels: layout. ed25519, zlib, gzip, JSON and base58 text: libraries,
  present by what they answer (valid or not, packed or not, of which alphabet).
* The parsers of a disassembler's listing and the texts of `parse_simulation_error`:
  text without state. The template generator of `src/poc.rs`, balance arithmetic, the
  priority fee, severity overrides and the blockhash check: single formulas.
* What an Anchor event's fields decode to: the decoder is `AnchorArgs`' and is checked
  there. The role tables of token instructions are abstracted to the position of a mint
  or source; what each field of a built-in instruction shows is left out.
* Text of another alphabet than the client's is assumed to be no transaction when it
  happens to decode.
* Two stages of `OnlineChecks` are never in one behaviour, since nothing is shared
  between them; their order and their flags' way into the report are `Pipeline`'s.

Components with status `not_modelled` or `partly` in `PROJECT.json` say what is
missing.

## Plan

Done: the log parsers, the pipeline and its gate, the lookup tables, the disassembler, the
replay, the patterns, the offline audit with its second parser, the network stages, and
the proofs above. What would come next:

1. Proofs: that arguments of one level of nesting are read as they were written
   (`DataAsWritten`), with the encoding of a value as an operator of the specification.
2. The template generator of `src/poc.rs` and its round trip; balance changes.
