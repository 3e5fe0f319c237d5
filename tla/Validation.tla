------------------------------ MODULE Validation ------------------------------
(***************************************************************************)
(* validator::validate: the flags a decoded report earns by itself and by  *)
(* the schema, an Anchor IDL or native expectations.  The flags are a set, *)
(* because main removes duplicates; a flag names the instruction (-1 for   *)
(* none) and the numbers that tell it from its like.                       *)
(***************************************************************************)
EXTENDS TransactionDecoding, AnchorArgs

CONSTANTS Sysvars      \* KNOWN_SYSVAR_IDS

MaxSeeds == 15         \* 16 with the bump

Flag(severity, category, instruction, subject) ==
  [severity |-> severity, category |-> category, instruction |-> instruction, subject |-> subject]

-----------------------------------------------------------------------------
(* Program derived addresses. *)

\* The address depends on the seeds one after the other, not on where one ends.
SeedBytes(bytes) == [i \in 1..Len(bytes) |-> <<"byte", bytes[i]>>]
SeedKey(key) == <<key>>
Pda(program, seeds) == <<"pda", program, FlattenSeq(seeds)>>

\* find_program_address panics on more or longer seeds. A key is as long as a seed may be.
SeedsPanic(seeds) == Len(seeds) > MaxSeeds \/ \E i \in 1..Len(seeds) : Len(seeds[i]) > KeyLen

\* resolve_account_path: the key of the account of this name in the instruction,
\* or else of the first with this role in the transaction.
resolve_account_path(path, report, ix) ==
  LET First(s, Is(_)) == {s[i] : i \in {j \in 1..Len(s) : Is(s[j]) /\ \A k \in 1..(j - 1) : ~Is(s[k])}}
      named == First(ix.accounts, LAMBDA a : a.name = path)
      roles == First(report.accounts, LAMBDA a : a.role \in {path, "signer+" \o path})
      keys == {a.pubkey : a \in IF named # {} THEN named ELSE roles}
  IN  keys \ {NoKey}

Resolved(seed) == [outcome |-> "resolved", seed |-> seed]
Unresolved(outcome) == [outcome |-> outcome, seed |-> <<>>]

\* One seed: its bytes, or how try_find_pda returns early.
ResolveSeed(seed, report, ix, args) ==
  CASE seed.kind = "const" ->
         IF seed.value = {} THEN Unresolved("warning")
         ELSE Resolved(SeedBytes(CHOOSE v \in seed.value : TRUE))
    [] seed.kind = "account" ->
         LET keys == IF seed.path = Unnamed THEN {} ELSE resolve_account_path(seed.path, report, ix)
         IN  IF keys = {} THEN Unresolved("warning") ELSE Resolved(SeedKey(CHOOSE k \in keys : TRUE))
    [] seed.kind = "arg" ->
         LET found == resolve_arg_seed(seed.path, args)
         IN  IF found = {} THEN Unresolved("unresolved")
             ELSE Resolved(SeedBytes(CHOOSE b \in found : TRUE))
    [] OTHER -> Unresolved("warning")

\* Mutant: a seed that cannot be resolved is left out of the derivation.
try_find_pda_Skipping(pda, report, ix, args) ==
  LET r == SelectSeq([k \in 1..Len(pda) |-> ResolveSeed(pda[k], report, ix, args)],
                     LAMBDA s : s.outcome = "resolved")
  IN  [outcome |-> "resolved", seeds |-> [k \in 1..Len(r) |-> r[k].seed]]

\* The first seed that has no bytes decides.
try_find_pda(pda, report, ix, args) ==
  LET r == [k \in 1..Len(pda) |-> ResolveSeed(pda[k], report, ix, args)]
      stuck == {k \in 1..Len(r) : r[k].outcome # "resolved"}
  IN  IF stuck = {} THEN [outcome |-> "resolved", seeds |-> [k \in 1..Len(r) |-> r[k].seed]]
      ELSE [outcome |-> r[CHOOSE k \in stuck : \A j \in stuck : k <= j].outcome, seeds |-> <<>>]

\* The arguments an instruction's data holds by the IDL that named it.
ArgsOf(ix, schema) ==
  LET match == SchemaMatches(ix.program_id, ix.data, schema)
  IN  IF ix.program_id \in KnownPrograms \/ match = {} THEN <<>>
      ELSE decode_anchor_args(SubSeq(ix.data, DiscLen + 1, Len(ix.data)),
                              schema.instructions[CHOOSE i \in match : TRUE].args)

\* The seeds of a declared account by either kind of schema.
Derivation(pda, report, ix, schema) ==
  IF schema.kind = "idl" THEN try_find_pda(pda, report, ix, ArgsOf(ix, schema))
  ELSE IF pda.seeds = <<>> THEN [outcome |-> "unresolved", seeds |-> <<>>]
  ELSE [outcome |-> "resolved", seeds |-> [k \in 1..Len(pda.seeds) |-> SeedBytes(pda.seeds[k])]]

\* Where the schema's declarations meet the transaction: a declared account that
\* the instruction has, with the account it has there.
Meetings(report, schema) ==
  UNION {LET ix == report.instructions[i]
         IN  {[instruction |-> i, declared |-> d, account |-> ix.accounts[d.position]] :
                d \in {e \in Declared(ix, schema) : e.position \in 1..Len(ix.accounts)}} :
         i \in 1..Len(report.instructions)}

\* Mutant: an account without a key is tried too.
Derivations_Keyless(report, schema) ==
  UNION {{[meeting |-> m, pda |-> p,
           found |-> Derivation(p, report, report.instructions[m.instruction], schema)] :
            p \in m.declared.account.pda} :
         m \in {n \in Meetings(report, schema) :
                  report.instructions[n.instruction].program_id # NoKey}}

\* The derivations that are tried: an account of a lookup table has no key yet.
Derivations(report, schema) ==
  UNION {{[meeting |-> m, pda |-> p,
           found |-> Derivation(p, report, report.instructions[m.instruction], schema)] :
            p \in m.declared.account.pda} :
         m \in {n \in Meetings(report, schema) :
                  /\ n.account.pubkey # NoKey
                  /\ report.instructions[n.instruction].program_id # NoKey}}

ValidationPanics(report, schema) ==
  \E d \in Derivations(report, schema) : d.found.outcome = "resolved" /\ SeedsPanic(d.found.seeds)

Expected(d, report) == Pda(report.instructions[d.meeting.instruction].program_id, d.found.seeds)

PdaFlags(report, schema) ==
  LET At(severity, d) == Flag(severity, "PdaSeedMismatch", u8(d.meeting.instruction - 1),
                              <<d.meeting.account.account_index>>)
      tried == Derivations(report, schema)
      dynamic == {d \in tried : schema.kind = "native" /\ d.pda.dynamic > 0}
  IN  {At("Critical", d) : d \in {e \in tried : /\ e.found.outcome = "resolved"
                                                /\ Expected(e, report) # e.meeting.account.pubkey}}
      \cup {At("Warning", d) : d \in {e \in tried : e.found.outcome = "warning"} \cup dynamic}

\* pda_info.expected_address: of the last derivation of an account.
ExpectedAddress(report, schema, index) ==
  LET mine == {d \in Derivations(report, schema) :
                 d.found.outcome = "resolved" /\ d.meeting.account.account_index = index}
      Later(d, e) == \/ d.meeting.instruction > e.meeting.instruction
                     \/ /\ d.meeting.instruction = e.meeting.instruction
                        /\ d.meeting.declared.rank >= e.meeting.declared.rank
  IN  {Expected(d, report) : d \in {e \in mine : \A o \in mine : Later(e, o)}}

-----------------------------------------------------------------------------
(* The declarations alone. *)

SeedFlaws(seed) ==
  CASE seed.kind = "const" -> IF seed.value \subseteq {<<>>} THEN {"Warning"} ELSE {}
    [] seed.kind = "account" -> IF seed.path = Unnamed THEN {"Warning"} ELSE {}
    [] seed.kind = "arg" -> IF seed.path = Unnamed THEN {"Info"} ELSE {}
    [] OTHER -> {"Info"}

WellFormedness(schema) ==
  LET Pdas(Of(_, _, _)) == UNION {UNION {UNION {Of(i, a, p) : p \in schema.instructions[i].accounts[a].pda} :
                                    a \in 1..Len(schema.instructions[i].accounts)} :
                             i \in 1..Len(schema.instructions)}
      flaw(severity, at) == Flag(severity, "PdaWellFormedness", -1, at)
      empty(p) == IF schema.kind = "idl" THEN p = <<>> ELSE p.seeds = <<>> /\ p.dynamic = 0
      Empty(i, a, p) == IF empty(p) THEN {flaw("Warning", <<i, a>>)} ELSE {}
      Seeds(i, a, p) == UNION {{flaw(s, <<i, a, k>>) : s \in SeedFlaws(p[k])} : k \in 1..Len(p)}
  IN  Pdas(Empty) \cup (IF schema.kind = "idl" THEN Pdas(Seeds) ELSE {})

-----------------------------------------------------------------------------
(* Privileges and counts against the schema. *)

MissingSigners(report, schema) ==
  {Flag("Critical", "MissingSigner", u8(m.instruction - 1), <<m.account.account_index>>) :
     m \in {n \in Meetings(report, schema) : n.declared.account.signer /\ ~n.account.is_signer}}

WritableRoles(report, schema) ==
  {Flag("Warning", "WritableMismatch", u8(m.instruction - 1), <<m.account.account_index>>) :
     m \in {n \in Meetings(report, schema) :
              schema.kind = "native" /\ n.declared.account.writable /\ ~n.account.is_writable}}

\* Anchor may append the program id as the last account.
Appended(ix) ==
  IF ix.accounts # <<>> /\ ix.accounts[Len(ix.accounts)].pubkey = ix.program_id THEN 1 ELSE 0

AccountCounts(report, schema) ==
  LET category == IF schema.kind = "idl" THEN "IdlAccountMismatch" ELSE "NativeAccountMismatch"
      TooMany(ix) == \E d \in Declaration(ix, schema) :
        Len(ix.accounts) > Len(d.accounts) + (IF schema.kind = "idl" THEN Appended(ix) ELSE 0)
  IN  {Flag("Warning", category, u8(i - 1), <<>>) :
         i \in {j \in 1..Len(report.instructions) : TooMany(report.instructions[j])}}

-----------------------------------------------------------------------------
(* The report alone. *)

WritableEntities(report) ==
  {Flag("Critical", "InsecureWritable", -1, <<u8(k - 1)>>) :
     k \in {j \in 1..Len(report.accounts) :
              /\ report.accounts[j].is_writable
              /\ report.accounts[j].pubkey \in Sysvars \cup KnownPrograms}}

ComputeBudgetFlags(report) ==
  LET cb == report.compute_budget
      missing == {Flag("Warning", "MissingComputeUnitLimit", -1, <<>>)}
      misplaced == {k \in 1..Len(cb.positions) : cb.positions[k] # k - 1}
  IN  IF ~cb.present THEN missing
      ELSE (IF cb.limit_set THEN {} ELSE missing)
           \cup {Flag("Warning", "ComputeBudgetReordering", u8(cb.positions[k]), <<>>) :
                   k \in IF cb.is_reordered THEN misplaced ELSE {}}
           \cup {Flag("Warning", "HighComputeUnitUsage", i, <<>>) : i \in cb.high_cu}

AltIntegrity(report) ==
  {Flag("Warning", "AltIntegrity", -1, <<k>>) :
     k \in {j \in 1..Len(report.lookups) : report.lookups[j] = 0}}

-----------------------------------------------------------------------------
validate(report, schema) ==
  (IF schema.kind = "none" THEN {}
   ELSE WellFormedness(schema) \cup PdaFlags(report, schema) \cup MissingSigners(report, schema)
        \cup WritableRoles(report, schema) \cup AccountCounts(report, schema))
  \cup WritableEntities(report) \cup ComputeBudgetFlags(report) \cup AltIntegrity(report)
=============================================================================
