------------------------------ MODULE ByteParser ------------------------------
(***************************************************************************)
(* internal_parser::validate_decoding: reads the bytes of a transaction    *)
(* section by section, beside the decoder, and warns where what it finds   *)
(* disagrees with the decoded report.  offset counts the bytes read; every *)
(* count comes from read_compact_u16, whose error ends the parse.          *)
(***************************************************************************)
EXTENDS TransactionDecoding

VARIABLES
  raw,         \* the bytes
  report,      \* the decoder's report they are compared with
  section,     \* what is read next; "done" and "error" at the end
  offset,
  num_accounts, num_ixs, num_alts,
  is_v0,
  at,          \* the instruction or lookup that is read
  total_accounts,
  deferred,    \* account indexes beyond the static keys: <<instruction, index>>
  warnings

counts == <<num_accounts, num_ixs, num_alts, is_v0>>
parserVars == <<section, offset, counts, at, total_accounts, deferred, warnings>>
buffer == <<raw, report>>

Warn(what, who) == [what |-> what, at |-> who]
WarnIf(cond, what) == IF cond THEN {Warn(what, 0)} ELSE {}
Has(n) == Len(raw) >= offset + n

Sections == {"idle", "signatures", "header", "accounts", "blockhash", "instructions", "tables",
             "lookups", "indexes", "done", "error"}

ParserInit ==
  /\ section = "idle" /\ offset = 0
  /\ num_accounts = 0 /\ num_ixs = 0 /\ num_alts = 0 /\ is_v0 = FALSE
  /\ at = 0 /\ total_accounts = 0 /\ deferred = {} /\ warnings = {}

Start ==
  /\ section = "idle"
  /\ section' = "signatures"
  /\ UNCHANGED <<buffer, offset, counts, at, total_accounts, deferred, warnings>>

\* An error returns instead of the warnings; main makes a warning of it.
Error ==
  /\ section' = "error" /\ warnings' = {Warn("parser_error", 0)}
  /\ UNCHANGED <<buffer, offset, counts, at, total_accounts, deferred>>

\* A count that cannot be read is an error of the parse.
Fail == read_compact_u16(raw, offset) = {} /\ Error

\* An early return with what was found so far.
GiveUp(found) ==
  /\ section' = "done" /\ warnings' = warnings \cup found
  /\ UNCHANGED <<buffer, offset, counts, at, total_accounts, deferred>>

Signatures ==
  /\ section = "signatures"
  /\ \/ Fail
     \/ \E c \in read_compact_u16(raw, offset) :
          LET end == c.next + c.value * SigLen
          IN  IF Len(raw) < end THEN GiveUp({Warn("signature_bytes", 0)})
              ELSE /\ offset' = end
                   /\ warnings' = warnings \cup WarnIf(c.value # report.signatures, "signatures")
                   /\ section' = "header"
                   /\ UNCHANGED <<buffer, counts, at, total_accounts, deferred>>

\* The version prefix, then the three bytes of the header.
Header ==
  /\ section = "header"
  /\ LET v0 == offset < Len(raw) /\ raw[offset + 1] = VersionPrefix
         start == IF v0 THEN offset + 1 ELSE offset
         found == WarnIf(v0 # report.v0, "version")
     IN  IF Len(raw) < start + 3 THEN GiveUp(found \cup {Warn("header_bytes", 0)})
         ELSE /\ is_v0' = v0 /\ offset' = start + 3
              /\ warnings' = warnings \cup found
              /\ section' = "accounts"
              /\ UNCHANGED <<buffer, num_accounts, num_ixs, num_alts, at, total_accounts, deferred>>

Keys ==
  /\ section = "accounts"
  /\ \/ Fail
     \/ \E c \in read_compact_u16(raw, offset) :
          LET end == c.next + c.value * KeyLen
              found == WarnIf(c.value # Len(report.accounts), "accounts")
          IN  IF Len(raw) < end THEN GiveUp({Warn("key_bytes", 0)})
              ELSE IF Len(raw) < end + KeyLen THEN GiveUp(found \cup {Warn("blockhash", 0)})
              ELSE /\ num_accounts' = c.value /\ total_accounts' = c.value
                   /\ offset' = end + KeyLen
                   /\ warnings' = warnings \cup found
                   /\ section' = "blockhash"
                   /\ UNCHANGED <<buffer, num_ixs, num_alts, is_v0, at, deferred>>

InstructionCount ==
  /\ section = "blockhash"
  /\ \/ Fail
     \/ \E c \in read_compact_u16(raw, offset) :
          /\ num_ixs' = c.value /\ offset' = c.next /\ at' = 0
          /\ section' = "instructions"
          /\ UNCHANGED <<buffer, num_accounts, num_alts, is_v0, total_accounts, deferred, warnings>>

\* After the last instruction, or where the buffer ended before one.
EndInstructions(found) ==
  /\ warnings' = warnings \cup found \cup WarnIf(num_ixs # Len(report.instructions), "instructions")
  /\ section' = IF is_v0 THEN "tables" ELSE "indexes"
  /\ UNCHANGED <<buffer, offset, counts, at, total_accounts, deferred>>

\* Mutant: indexes past the end of the buffer read as zero.
IndexesAt_Zeroed(next, n) == [k \in 1..n |-> IF next + k <= Len(raw) THEN raw[next + k] ELSE 0]

\* The indexes after a count, as many as the buffer has; reading stops at its end.
IndexesAt(next, n) == [k \in 1..(IF next + n <= Len(raw) THEN n ELSE Len(raw) - next) |-> raw[next + k]]

Exhausted(next, n, what, who) == IF next + n > Len(raw) THEN {Warn(what, who)} ELSE {}

\* Indexes that may be a lookup's, to be judged when the lookups are known.
Beyond(idx) == {<<at, idx[k]>> : k \in {j \in 1..Len(idx) : idx[j] >= num_accounts}}

ReadInstruction ==
  /\ section = "instructions" /\ at < num_ixs /\ Has(1)
  /\ LET program == raw[offset + 1]
         found == IF program >= num_accounts THEN {Warn("program", at)} ELSE {}
     IN  \E accts \in read_compact_u16(raw, offset + 1) :
           LET idx == IndexesAt(accts.next, accts.value)
               seen == warnings \cup found \cup Exhausted(accts.next, accts.value, "account_bytes", at)
           IN  \E data \in read_compact_u16(raw, accts.next + Len(idx)) :
                 /\ deferred' = deferred \cup Beyond(idx)
                 /\ IF Len(raw) < data.next + data.value
                      THEN /\ section' = "done"
                           /\ warnings' = seen \cup {Warn("data_bytes", at)}
                           /\ UNCHANGED <<offset, at>>
                      ELSE /\ warnings' = seen
                           /\ offset' = data.next + data.value /\ at' = at + 1
                           /\ UNCHANGED section
  /\ UNCHANGED <<buffer, counts, total_accounts>>

\* One of an instruction's counts cannot be read.
InstructionError ==
  /\ section = "instructions" /\ at < num_ixs /\ Has(1)
  /\ \A accts \in read_compact_u16(raw, offset + 1) :
       read_compact_u16(raw, accts.next + Len(IndexesAt(accts.next, accts.value))) = {}
  /\ Error

InstructionsEnd ==
  /\ section = "instructions"
  /\ \/ at = num_ixs /\ EndInstructions({})
     \/ at < num_ixs /\ ~Has(1) /\ EndInstructions({Warn("program_byte", at)})

TableCount ==
  /\ section = "tables"
  /\ \/ Fail
     \/ \E c \in read_compact_u16(raw, offset) :
          /\ num_alts' = c.value /\ offset' = c.next /\ at' = 0
          /\ section' = "lookups"
          /\ UNCHANGED <<buffer, num_accounts, num_ixs, is_v0, total_accounts, deferred, warnings>>

\* A lookup's indexes are read past the end of the buffer only in number: the
\* counts are what was announced.
ReadLookup ==
  /\ section = "lookups" /\ at < num_alts
  /\ IF ~Has(KeyLen) THEN GiveUp({Warn("table_key", at)})
     ELSE \/ \E w \in read_compact_u16(raw, offset + KeyLen) :
               LET writable == IndexesAt(w.next, w.value)
                   afterW == w.next + Len(writable)
               IN  \E r \in read_compact_u16(raw, afterW) :
                     LET readonly == IndexesAt(r.next, r.value)
                     IN  /\ offset' = r.next + Len(readonly)
                         /\ total_accounts' = total_accounts + w.value + r.value
                         /\ warnings' = warnings
                              \cup Exhausted(w.next, w.value, "lookup_bytes", at)
                              \cup Exhausted(r.next, r.value, "lookup_bytes", at)
                              \cup (IF /\ at < Len(report.lookups)
                                       /\ report.lookups[at + 1] # w.value + r.value
                                      THEN {Warn("lookup", at)} ELSE {})
                         /\ at' = at + 1
                         /\ UNCHANGED <<buffer, section, counts, deferred>>
          \/ /\ \A w \in read_compact_u16(raw, offset + KeyLen) :
                  read_compact_u16(raw, w.next + Len(IndexesAt(w.next, w.value))) = {}
             /\ Error

LookupsEnd ==
  /\ section = "lookups" /\ at = num_alts
  /\ warnings' = warnings \cup WarnIf(num_alts # Len(report.lookups), "lookups")
  /\ section' = "indexes"
  /\ UNCHANGED <<buffer, offset, counts, at, total_accounts, deferred>>

\* The account indexes that no static key and no lookup covers.
CheckIndexes ==
  /\ section = "indexes"
  /\ warnings' = warnings \cup {Warn("account", d[1]) : d \in {e \in deferred : e[2] >= total_accounts}}
  /\ section' = "done"
  /\ UNCHANGED <<buffer, offset, counts, at, total_accounts, deferred>>

ParserNext ==
  \/ Start \/ Signatures \/ Header \/ Keys \/ InstructionCount
  \/ ReadInstruction \/ InstructionError \/ InstructionsEnd
  \/ TableCount \/ ReadLookup \/ LookupsEnd \/ CheckIndexes

ParserSpec ==
  /\ ParserInit /\ raw \in Seq(Byte)
  /\ [][ParserNext]_<<buffer, parserVars>>

\* Whatever the bytes: the parser stays inside them and its counts are u16s.
ParserTypeOK ==
  /\ section \in Sections
  /\ offset \in 0..Len(raw)
  /\ {num_accounts, num_ixs, num_alts} \subseteq 0..U16Max
  /\ is_v0 \in BOOLEAN
  /\ at \in 0..U16Max
  /\ deferred \subseteq (0..U16Max) \X Byte
=============================================================================
