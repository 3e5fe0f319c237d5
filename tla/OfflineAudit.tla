----------------------------- MODULE OfflineAudit -----------------------------
(***************************************************************************)
(* What main does with a transaction before it calls any endpoint: read    *)
(* the input, decode it, validate the report against the schema, verify    *)
(* the signatures and, byte by byte, compare the report with a second      *)
(* parse.  ByteParser is also a library entry of its own, called with any  *)
(* bytes and any report.                                                   *)
(*                                                                         *)
(* An input says what its client meant beside what it handed over, so that *)
(* the report can be judged by it.                                         *)
(***************************************************************************)
EXTENDS ByteParser, Validation

CONSTANTS Inputs

VARIABLES
  input,       \* see Inputs in the MC module
  phase,       \* "read", "validate", "verify", "compare"; "failed" or a panic at the end
  risk_flags,
  checks,      \* report.signature_verification
  expected     \* pda_info.expected_address, per account

auditVars == <<input, phase, risk_flags, checks, expected, raw, report, parserVars>>

\* The header says how many accounts are in each of the client's four groups: writable
\* signers, of which the fee payer is the first, readonly signers, writable, readonly.
Grouped(t, groups) ==
  /\ groups \in Seq(Nat) /\ Len(groups) = 4 /\ groups[1] >= 1
  /\ t.required = groups[1] + groups[2]
  /\ t.readonly_signed = groups[2] /\ t.readonly_unsigned = groups[4]
  /\ Len(t.keys) = groups[1] + groups[2] + groups[3] + groups[4]

\* What the characters of an encoding can look like: only Base64 has symbols and the
\* letters Base58 leaves out, hex digits are a part of every alphabet.
Spelled(given) ==
  /\ given.form \in {"base58", "base64", "hex", "bytes"}
  /\ {given.symbols, given.hex, given.beyond58, given.utf8} \subseteq BOOLEAN
  /\ given.form \in {"base58", "hex"} => ~given.symbols
  /\ given.form = "base58" => ~given.beyond58
  /\ given.form = "hex" => given.hex
  /\ given.hex => ~given.symbols

\* A transaction as a client compiles it. Every length is a u16, and the first byte of a
\* message without a version is no version.
Compiled(t) ==
  /\ t.signatures \in Seq({"valid", "invalid", "zeroed"})
  /\ t.keys \in Seq(Range(t.keys))
  /\ t.instructions \in Seq(Instruction) /\ t.lookups \in Seq(Lookup) /\ t.v0 \in BOOLEAN
  /\ {t.required, t.readonly_signed, t.readonly_unsigned} \subseteq Byte
  /\ ~t.v0 => t.required < Radix
  /\ {Len(t.signatures), Len(t.keys), Len(t.instructions), Len(t.lookups)} \subseteq 0..U16Max
  /\ \A i \in 1..Len(t.instructions) :
       {Len(t.instructions[i].accounts), Len(t.instructions[i].data)} \subseteq 0..U16Max
  /\ \A k \in 1..Len(t.lookups) :
       {Len(t.lookups[k].writable), Len(t.lookups[k].readonly)} \subseteq 0..U16Max

\* A count with one, two or three groups, though fewer would do.
Recounts(n) ==
  {ShortVec(n)}
  \cup (IF n < Radix THEN {<<n + Radix, 0>>, <<n + Radix, Radix, 0>>} ELSE {})
  \cup (IF n < Radix * Radix THEN {<<(n % Radix) + Radix, (n \div Radix) + Radix, 0>>} ELSE {})

\* Bytes that begin with no count: a fourth group, or more than a u16.
NoCount(bytes) ==
  /\ Len(bytes) >= 3 /\ More(bytes[1]) /\ More(bytes[2])
  /\ \/ More(bytes[3])
     \/ Low(bytes[1]) + Radix * Low(bytes[2]) + Radix * Radix * bytes[3] > U16Max

\* What the parser is given beside a report: the bytes of a transaction, its signatures
\* counted in any way, or damaged bytes, cut short or without that count.
Whole(bytes, t) == \E count \in Recounts(Len(t.signatures)) : bytes = count \o Body(t)
Damaged(bytes, t) ==
  \/ NoCount(bytes)
  \/ Len(bytes) < Len(Serialize(t)) /\ bytes = SubSeq(Serialize(t), 1, Len(bytes))

\* The discriminator a client of the schema's program begins its data with.
DiscriminatorOf(d, schema) == IF schema.kind = "idl" THEN Discriminator[d.name] ELSE d.discriminator

\* An IDL's are hashes cut to DiscLen bytes; expectations may have tags of one byte.
Declares(schema) ==
  /\ schema.kind \in {"none", "idl", "native"}
  /\ schema.instructions \in Seq(Range(schema.instructions))
  /\ schema.kind = "none" => schema.instructions = <<>>
  /\ \A d \in Range(schema.instructions) :
       /\ DiscriminatorOf(d, schema) \in Seq(Byte)
       /\ d.accounts \in Seq(Range(d.accounts))
       /\ Len(DiscriminatorOf(d, schema)) \in (IF schema.kind = "idl" THEN {DiscLen} ELSE {1, DiscLen})

\* What a client's call of a program is named: the instruction whose discriminator its
\* data begin with and, if they begin with those of several, the one of the longest.
CalledAs(name, program, data, schema) ==
  LET usable == {d \in Range(schema.instructions) :
                   /\ schema.kind = "native" => schema.program_id \in {NoKey, program}
                   /\ StartsWith(data, DiscriminatorOf(d, schema))}
      Length(d) == Len(DiscriminatorOf(d, schema))
  IN  \/ name = Unnamed /\ usable = {}
      \/ \E d \in usable : name = d.name /\ \A e \in usable : e.name = name \/ Length(e) < Length(d)

\* What a client says it meant with each instruction to a program that is not built in.
Meaning(in) ==
  \A i \in 1..Len(in.tx.instructions) : \A name \in in.meant[i].names :
    LET ix == in.tx.instructions[i]
    IN  ProgramOf(in.tx, ix) \in KnownPrograms \/ CalledAs(name, ProgramOf(in.tx, ix), ix.data, in.schema)

ASSUME InputsAssumption ==
  \A family \in DOMAIN Inputs : \A in \in Inputs[family] :
    /\ in.call \in {"main", "library"} /\ in.damaged \in BOOLEAN
    /\ Compiled(in.tx) /\ Compiled(in.other) /\ {in.trailing, in.bytes} \subseteq Seq(Byte)
    /\ in.call = "main" => Grouped(in.tx, in.groups) /\ Spelled(in.given)
    /\ Declares(in.schema) /\ Meaning(in)
    /\ in.call = "library" =>
         IF in.damaged THEN Damaged(in.bytes, in.other) ELSE Whole(in.bytes, in.other)

NoReport == [fee_payer |-> NoKey]
tx == input.tx

-----------------------------------------------------------------------------
(* Reading: text in one of three alphabets, or bytes. What detect_encoding   *)
(* looks at in a text is whether it has one of + / =, whether it is of hex   *)
(* digits only (in an even number), and whether it has one of 0 O I l.       *)

detect_encoding(text) ==
  CASE text.symbols -> "base64"
    [] ~text.symbols /\ text.hex -> "hex"
    [] ~text.symbols /\ ~text.hex /\ text.beyond58 -> "base64"
    [] OTHER -> "base58"

\* Mutant: all-hex text is read as hex only.
Readings_HexOnly(text) == {detect_encoding(text)}

\* The encodings a text is tried in: others only where the first one gave bytes
\* and no transaction. Text that is not of an alphabet is an error at once.
Readings(text) ==
  {detect_encoding(text)} \cup (IF text.hex /\ ~text.symbols THEN {"base58", "base64"} ELSE {})

\* Bytes of another alphabet than the client's are not a transaction. Bytes that
\* are no UTF-8 are taken as they are; others are read as text, and are none.
Readable(given) ==
  IF given.form = "bytes" THEN ~given.utf8 ELSE given.form \in Readings(given)

-----------------------------------------------------------------------------
AuditInit ==
  /\ \E family \in DOMAIN Inputs : input \in Inputs[family]
  /\ ParserInit
  /\ risk_flags = {} /\ checks = <<>> /\ expected = <<>>
  /\ \/ /\ input.call = "main" /\ phase = "read"
        /\ raw = <<>> /\ report = NoReport
     \/ /\ input.call = "library" /\ phase = "compare"
        /\ raw = input.bytes /\ report = decode_versioned_tx(input.tx, input.schema)

\* decoder::decode_input. Bytes after a transaction are ignored.
Decode ==
  /\ phase = "read"
  /\ IF ~Readable(input.given)
       THEN phase' = "failed" /\ UNCHANGED <<raw, report>>
       ELSE IF Panics(tx, input.schema)
       THEN phase' = "decoder panicked" /\ UNCHANGED <<raw, report>>
       ELSE /\ raw' = Serialize(tx) \o input.trailing
            /\ report' = decode_versioned_tx(tx, input.schema)
            /\ phase' = "validate"
  /\ UNCHANGED <<input, risk_flags, checks, expected, parserVars>>

Validate ==
  /\ phase = "validate"
  /\ IF ValidationPanics(report, input.schema)
       THEN phase' = "validator panicked" /\ UNCHANGED <<risk_flags, expected>>
       ELSE /\ risk_flags' = validate(report, input.schema)
            /\ expected' = [k \in 1..Len(report.accounts) |->
                              ExpectedAddress(report, input.schema, k - 1)]
            /\ phase' = "verify"
  /\ UNCHANGED <<input, raw, report, checks, parserVars>>

\* The bytes are deserialized once more, for signature_verify.
VerifySignatures ==
  /\ phase = "verify"
  /\ checks' = verify_transaction(tx)
  /\ risk_flags' = risk_flags \cup verify_report(verify_transaction(tx), report.fee_payer)
  /\ phase' = "compare"
  /\ UNCHANGED <<input, raw, report, expected, parserVars>>

Compare ==
  /\ phase = "compare"
  /\ ParserNext
  /\ UNCHANGED <<input, phase, risk_flags, checks, expected>>

Ended == phase \in {"failed", "decoder panicked", "validator panicked"} \/ section \in {"done", "error"}
Done == Ended /\ UNCHANGED auditVars

AuditNext == Decode \/ Validate \/ VerifySignatures \/ Compare \/ Done
AuditSpec == AuditInit /\ [][AuditNext]_auditVars

-----------------------------------------------------------------------------
Compared == phase = "compare"
Audited == input.call = "main" /\ Compared
Indexes == 1..Len(tx.instructions)

\* Bound: the numbers of the instructions and the accounts fit in the u8 that the
\* report and the flags keep of them, so that a flag's number names one of each.
NumbersFit == Len(tx.instructions) <= 2 * Radix /\ Len(tx.keys) <= 2 * Radix

\* decode_input reads a transaction however it was encoded, and refuses only what
\* carries no sign of its encoding: base64 without a character Base58 lacks, and
\* bytes that happen to be text.
ReadAsGiven ==
  phase \notin {"read"} /\ input.call = "main" =>
    (phase = "failed" <=>
       IF input.given.form = "bytes" THEN input.given.utf8
       ELSE /\ input.given.form = "base64" /\ ~input.given.symbols
            /\ ~input.given.hex /\ ~input.given.beyond58)

\* How many accounts lookups load.
LoadedBy(ls) == FoldLeft(LAMBDA n, l : n + Len(l.writable) + Len(l.readonly), 0, ls)

\* The byte parser and the decoder read the same transaction: where main runs
\* both on one input, the only warnings are the account and program indexes no
\* key stands behind, and never a failure of the parse.
IndexWarnings(t) ==
  LET Over(idx, bound) == \E j \in 1..Len(idx) : idx[j] >= bound
  IN  {Warn("program", i - 1) : i \in {j \in 1..Len(t.instructions) :
                                         t.instructions[j].program >= Len(t.keys)}}
      \cup {Warn("account", i - 1) : i \in {j \in 1..Len(t.instructions) :
              Over(t.instructions[j].accounts, Len(t.keys) + (IF t.v0 THEN LoadedBy(t.lookups) ELSE 0))}}

\* The counts of a transaction that the parser compares with the report.
CountsOf(t) ==
  [signatures |-> Len(t.signatures), v0 |-> t.v0, keys |-> Len(t.keys),
   instructions |-> Len(t.instructions),
   lookups |-> IF t.v0 THEN [k \in 1..Len(t.lookups) |->
                 Len(t.lookups[k].writable) + Len(t.lookups[k].readonly)] ELSE <<>>]

\* The others it reads on its way: the header's, each instruction's accounts and
\* bytes of data, and the two that make a lookup's sum.
InnerCounts(t) ==
  [header |-> <<t.required, t.readonly_signed, t.readonly_unsigned>>,
   instructions |-> [i \in 1..Len(t.instructions) |->
                       <<Len(t.instructions[i].accounts), Len(t.instructions[i].data)>>],
   lookups |-> IF t.v0 THEN [k \in 1..Len(t.lookups) |->
                 <<Len(t.lookups[k].writable), Len(t.lookups[k].readonly)>>] ELSE <<>>]

ParserAgrees ==
  Audited /\ section \in {"done", "error"} => section = "done" /\ warnings = IndexWarnings(tx)

\* Called with other bytes than the report was decoded from, the parser says so
\* where they are damaged or differ in a count it compares; where they differ in
\* no count at all it finds nothing but indexes out of range. Of bytes that differ in an
\* inner count only nothing is said: internal_parser.rs:38 claims a warning for them,
\* and there is none.
DisagreementWarned ==
  input.call = "library" /\ section \in {"done", "error"} =>
    /\ input.damaged \/ CountsOf(input.other) # CountsOf(tx) =>
         warnings # IndexWarnings(input.other)
    /\ /\ ~input.damaged
       /\ CountsOf(input.other) = CountsOf(tx) /\ InnerCounts(input.other) = InnerCounts(tx)
       => warnings = IndexWarnings(input.other)

\* The second parser warns where damage or a compared count calls for it, and is
\* silent, indexes out of range aside, where the two structures are the same.
DifferencesWarned == ParserAgrees /\ DisagreementWarned

\* Privileges are read off the header as the client put them in: an account signs
\* or is written in the report exactly when the client's list of accounts said
\* so, and with it the flags for schema roles, sysvars and programs.
Meant(k) == [is_signer |-> k <= input.groups[1] + input.groups[2],
             is_writable |-> \/ k <= input.groups[1]
                             \/ k \in (input.groups[1] + input.groups[2] + 1)
                                        ..(input.groups[1] + input.groups[2] + input.groups[3])]

PrivilegesAsMeant ==
  Audited =>
    /\ \A k \in 1..Len(tx.keys) :
         /\ report.accounts[k].is_signer = Meant(k).is_signer
         /\ report.accounts[k].is_writable = Meant(k).is_writable
         /\ NumbersFit =>
              (Flag("Critical", "InsecureWritable", -1, <<k - 1>>) \in risk_flags
                 <=> Meant(k).is_writable /\ tx.keys[k] \in Sysvars \cup KnownPrograms)
    /\ NumbersFit =>
         \A i \in Indexes : \A d \in Declared(report.instructions[i], input.schema) :
           LET ix == tx.instructions[i]
               k == ix.accounts[d.position] + 1
               alone == \A e \in Declared(report.instructions[i], input.schema) :
                          e.position \in 1..Len(ix.accounts) =>
                            e = d \/ ix.accounts[e.position] # ix.accounts[d.position]
           IN  d.position \in 1..Len(ix.accounts) /\ k <= Len(tx.keys) /\ alone =>
                 /\ Flag("Critical", "MissingSigner", i - 1, <<k - 1>>) \in risk_flags
                      <=> d.account.signer /\ ~Meant(k).is_signer
                 /\ input.schema.kind = "native" =>
                      (Flag("Warning", "WritableMismatch", i - 1, <<k - 1>>) \in risk_flags
                         <=> d.account.writable /\ ~Meant(k).is_writable)

\* Exactly the ComputeBudget instructions that come after another program's are
\* reported as reordered, and the missing limit exactly when none sets one.
BudgetJudged ==
  Audited =>
    /\ NumbersFit =>
         \A i \in Indexes :
           Flag("Warning", "ComputeBudgetReordering", i - 1, <<>>) \in risk_flags
             <=> IsBudget(tx, i) /\ \E j \in 1..(i - 1) : ~IsBudget(tx, j)
    /\ Flag("Warning", "MissingComputeUnitLimit", -1, <<>>) \in risk_flags
         <=> \A i \in Indexes : IsBudget(tx, i) => LimitOf(tx.instructions[i].data) = 0

\* The signatures are accepted without a flag exactly when the runtime would:
\* one valid signature per required signer and no other; without the fee payer's
\* the flag is Critical.
SignatureFlags == {f \in risk_flags : f.category = "SignatureMismatch"}
Accepted ==
  Len(tx.signatures) = tx.required /\ \A k \in 1..Len(tx.signatures) : tx.signatures[k] = "valid"

SignaturesJudged ==
  Audited =>
    /\ SignatureFlags = {} <=> Accepted
    /\ (tx.signatures = <<>> \/ tx.signatures[1] # "valid") =>
         \E f \in SignatureFlags : f.severity = "Critical"

IsBuiltIn(i) == ProgramOf(tx, tx.instructions[i]) \in KnownPrograms

\* Instructions of other programs are named by the declaration the client used, and no
\* other program's when the schema names one.
NamedAsMeant ==
  Audited => \A i \in Indexes :
    ~IsBuiltIn(i) /\ input.meant[i].names # {} => report.instructions[i].name \in input.meant[i].names

\* An instruction's data are read as the client wrote them: one of a built-in program by
\* name, and not at all when they are too short for the layout their tag selects; by an
\* IDL the arguments, up to the first one of a type the decoder does not know. A vec that
\* ends the data empty is read as null.
DataAsWritten ==
  Audited => \A i \in Indexes :
    LET args == ArgsOf(report.instructions[i], input.schema)
        meant == input.meant[i].values
    IN  /\ IsBuiltIn(i) /\ input.meant[i].names # {} =>
             report.instructions[i].name \in input.meant[i].names
        /\ Len(args) <= Len(meant)
        /\ \A k \in 1..Len(args) :
             \/ args[k].value = meant[k]
             \/ args[k].ty.kind = "other" /\ args[k].value = Null
             \/ args[k].value = Null /\ meant[k] = List(<<>>) /\ k = Len(args)
        /\ Len(args) < Len(meant) =>
             \E k \in 1..(Len(args) + 1) :
               \/ k <= Len(args) /\ args[k].ty.kind = "other"
               \/ meant[k] = List(<<>>)

\* A derived address whose seeds are all constant is accused only when it is wrong,
\* and any wrong one goes unaccused only from a lookup table, with a warning, or
\* where an argument among its seeds is one the decoder cannot turn back into a
\* seed.  Accusations of addresses with seeds of other kinds are AccusedAreWrong's.
PdaMismatch(severity, i, index) ==
  Flag(severity, "PdaSeedMismatch", u8(i - 1), <<index>>) \in risk_flags

Static(i, p) == tx.instructions[i].accounts[p.position] < Len(tx.keys)
RightAddress(i, p) ==
  /\ Static(i, p)
  /\ tx.keys[tx.instructions[i].accounts[p.position] + 1] =
       Pda(ProgramOf(tx, tx.instructions[i]), p.seeds)
Accused(i, p) == PdaMismatch("Critical", i, tx.instructions[i].accounts[p.position])

PdaJudged ==
  Audited /\ NumbersFit =>
    \A i \in Indexes : \A p \in input.meant[i].pda :
      /\ Accused(i, p) /\ ~p.dynamic => Static(i, p) /\ ~RightAddress(i, p)
      /\ Static(i, p) /\ ~RightAddress(i, p) /\ ~Accused(i, p) =>
           \/ PdaMismatch("Warning", i, tx.instructions[i].accounts[p.position])
           \/ p.opaque

\* types.rs:608-610 says that dynamic seeds "depend on runtime values and can only be
\* verified on-chain", and PRD.md:54 that a mismatch "indicates the PDA in the
\* transaction was not derived from the seeds declared": whatever the seeds, an
\* account that is accused has another address than the one they derive.
AccusedAreWrong ==
  Audited /\ NumbersFit =>
    \A i \in Indexes : \A p \in input.meant[i].pda :
      Accused(i, p) => Static(i, p) /\ ~RightAddress(i, p)

\* The accounts table and the flags tell one story: an expected address that is shown and
\* not met has its Critical flag, only an account whose key is known is flagged, and an
\* accused one shows the address that was expected of it.
ExpectedFlagged ==
  Audited =>
    /\ \A k \in 1..Len(expected) : \A a \in expected[k] :
         a # tx.keys[k] => \E i \in Indexes : PdaMismatch("Critical", i, k - 1)
    /\ \A f \in risk_flags : f.category = "PdaSeedMismatch" =>
         /\ f.subject[1] \in 0..(Len(tx.keys) - 1)
         /\ f.severity = "Critical" => expected[f.subject[1] + 1] # {}

\* tests/properties.rs: "Arbitrary instruction data must never panic the named decoders."
DecoderNeverPanics == phase # "decoder panicked"
=============================================================================
