------------------------------ MODULE WireFormat ------------------------------
(***************************************************************************)
(* The bytes of a serialized transaction, on a scaled alphabet: a byte has *)
(* a continuation bit and Radix low values (128 in the code), keys and     *)
(* signatures have KeyLen and SigLen bytes (32 and 64).  Serialization is  *)
(* solana-sdk's and bincode's; the reader of counts is internal_parser's.  *)
(***************************************************************************)
EXTENDS Naturals, Sequences, SequencesExt, FiniteSets

CONSTANTS
  Radix,     \* values of a byte's low bits: 128
  U16Max,    \* 65535
  KeyLen,    \* 32
  SigLen     \* 64

ASSUME RadixAssumption == Radix \in Nat \ {0, 1}
ASSUME U16Assumption == U16Max \in Nat /\ U16Max < Radix * Radix * Radix
ASSUME LengthAssumption == KeyLen \in Nat \ {0} /\ SigLen \in Nat \ {0}

Byte == 0..(2 * Radix - 1)
Low(b) == IF b >= Radix THEN b - Radix ELSE b
More(b) == b >= Radix
VersionPrefix == Radix      \* 0x80: version 0

\* A compact-u16: groups of low bits, least significant first, all but the last
\* one with the continuation bit, and never more groups than needed.
ShortVec(n) ==
  CASE n < Radix -> <<n>>
    [] n >= Radix /\ n < Radix * Radix -> <<(n % Radix) + Radix, n \div Radix>>
    [] OTHER -> <<(n % Radix) + Radix, ((n \div Radix) % Radix) + Radix, (n \div Radix) \div Radix>>

\* Mutant: two bytes are read at most.
GroupCounts_Two(data, offset) ==
  {n \in 1..2 : /\ offset + n <= Len(data) /\ ~More(data[offset + n])
                /\ \A i \in 1..(n - 1) : More(data[offset + i])}

\* How many bytes the count at an offset has: up to the first one without the
\* continuation bit, three at most. Empty where the reader fails.
GroupCounts(data, offset) ==
  {n \in 1..3 : /\ offset + n <= Len(data) /\ ~More(data[offset + n])
                /\ \A i \in 1..(n - 1) : More(data[offset + i])}

GroupValue(data, offset, n) ==
  LET group(i) == Low(data[offset + i])
  IN  group(1) + (IF n > 1 THEN Radix * group(2) ELSE 0)
               + (IF n > 2 THEN Radix * Radix * group(3) ELSE 0)

\* The value and the offset after it, of the one count read_compact_u16 can
\* return; no count when it returns an error.
read_compact_u16(data, offset) ==
  {[value |-> GroupValue(data, offset, n), next |-> offset + n] :
     n \in {m \in GroupCounts(data, offset) : GroupValue(data, offset, m) <= U16Max}}

-----------------------------------------------------------------------------
(* What a client serializes. *)

Instruction == [program : Byte, accounts : Seq(Byte), data : Seq(Byte)]
Lookup == [writable : Seq(Byte), readonly : Seq(Byte)]

\* Key and signature bytes are never looked into; these read as a version prefix.
Opaque(n) == [i \in 1..n |-> VersionPrefix]
Opaques(count, n) == Opaque(count * n)
Counted(bytes) == ShortVec(Len(bytes)) \o bytes

InstructionBytes(ix) == <<ix.program>> \o Counted(ix.accounts) \o Counted(ix.data)
LookupBytes(l) == Opaque(KeyLen) \o Counted(l.writable) \o Counted(l.readonly)

\* The message of a transaction: everything but the signatures.
Message(tx) ==
  (IF tx.v0 THEN <<VersionPrefix>> ELSE <<>>)
  \o <<tx.required, tx.readonly_signed, tx.readonly_unsigned>>
  \o ShortVec(Len(tx.keys)) \o Opaques(Len(tx.keys), KeyLen) \o Opaque(KeyLen)
  \o ShortVec(Len(tx.instructions))
  \o FlattenSeq([i \in 1..Len(tx.instructions) |-> InstructionBytes(tx.instructions[i])])
  \o (IF tx.v0
        THEN ShortVec(Len(tx.lookups))
             \o FlattenSeq([i \in 1..Len(tx.lookups) |-> LookupBytes(tx.lookups[i])])
        ELSE <<>>)

\* What follows the number of signatures.
Body(tx) == Opaques(Len(tx.signatures), SigLen) \o Message(tx)
Serialize(tx) == ShortVec(Len(tx.signatures)) \o Body(tx)
=============================================================================
