-------------------------- MODULE TransactionProofs --------------------------
(***************************************************************************)
(* How a transaction is read.                                              *)
(*                                                                         *)
(* Whatever bytes it is given, the internal parser stays inside them, and  *)
(* its reader of counts returns what the writer of the wire format wrote.  *)
(* The accounts a message takes from lookup tables are numbered once each, *)
(* keep the number the decoder gave them, get their keys from one answer   *)
(* per table, and a placeholder that stays has a flag.  Before any endpoint*)
(* is called, the encoding, the privileges, the compute budget and the     *)
(* signatures of an input are judged as its client meant them, its         *)
(* instructions named by the declarations the client used, and expected    *)
(* addresses told as they are flagged; and the second parser warns exactly *)
(* when it and the decoder read two things.                                *)
(***************************************************************************)
EXTENDS OfflineAudit, AddressTables, ProofLemmas, FiniteSetTheorems

-----------------------------------------------------------------------------
(* The byte-level parser *)

\* A byte's low bits are a number.
LEMMA LowNat ==
  ASSUME NEW b \in Byte
  PROVE  Low(b) \in Nat
BY RadixAssumption DEF Byte, Low

LEMMA ProductNat ==
  ASSUME NEW m \in Nat, NEW n \in Nat
  PROVE  m * n \in Nat
OBVIOUS

\* A count that was read fits a u16, and its bytes were inside the data.
LEMMA CountInside ==
  ASSUME NEW data \in Seq(Byte), NEW from \in Nat, NEW c \in read_compact_u16(data, from)
  PROVE  /\ c.value \in 0..U16Max
         /\ c.next \in Nat /\ c.next > from /\ c.next <= Len(data)
<1>1. PICK n \in 1..3 : /\ from + n <= Len(data)
                        /\ GroupValue(data, from, n) <= U16Max
                        /\ c = [value |-> GroupValue(data, from, n), next |-> from + n]
  BY DEF read_compact_u16, GroupCounts
<1>2. \A i \in 1..n : from + i \in 1..Len(data)
  BY <1>1
<1>3. \A i \in 1..n : Low(data[from + i]) \in Nat
  BY <1>2, LowNat
<1>4. GroupValue(data, from, n) \in Nat
  <2>1. Radix \in Nat /\ Radix * Radix \in Nat
    BY RadixAssumption, ProductNat
  <2>2. (IF n > 1 THEN Radix * Low(data[from + 2]) ELSE 0) \in Nat
    <3>1. CASE n > 1
      BY <3>1, <1>3, <2>1, ProductNat
    <3>2. CASE ~(n > 1)
      BY <3>2
    <3> QED BY <3>1, <3>2
  <2>3. (IF n > 2 THEN Radix * Radix * Low(data[from + 3]) ELSE 0) \in Nat
    <3>1. CASE n > 2
      BY <3>1, <1>3, <2>1, ProductNat
    <3>2. CASE ~(n > 2)
      BY <3>2
    <3> QED BY <3>1, <3>2
  <2> QED BY <1>3, <2>2, <2>3 DEF GroupValue
<1> QED BY <1>1, <1>4, U16Assumption

\* The indexes after a count are bytes, and end inside the buffer.
LEMMA IndexesInside ==
  ASSUME raw \in Seq(Byte), NEW from \in 0..Len(raw), NEW n \in Nat
  PROVE  /\ IndexesAt(from, n) \in Seq(Byte)
         /\ Len(IndexesAt(from, n)) \in Nat
         /\ from + Len(IndexesAt(from, n)) <= Len(raw)
<1> DEFINE m == IF from + n <= Len(raw) THEN n ELSE Len(raw) - from
<1>1. m \in Nat /\ from + m <= Len(raw)
  OBVIOUS
<1>2. \A k \in 1..m : raw[from + k] \in Byte
  BY <1>1
<1>3. IndexesAt(from, n) = [k \in 1..m |-> raw[from + k]]
  BY DEF IndexesAt
<1> HIDE DEF m
<1>4. IndexesAt(from, n) \in Seq(Byte) /\ Len(IndexesAt(from, n)) = m
  BY <1>1, <1>2, <1>3
<1> QED BY <1>1, <1>4

-----------------------------------------------------------------------------
(* The inductive invariant: the buffer stays the bytes it was, too. *)

Inside == raw \in Seq(Byte) /\ ParserTypeOK

LEMMA InsideInit ==
  ASSUME ParserInit, raw \in Seq(Byte)
  PROVE  Inside
<1>1. section \in Sections /\ is_v0 \in BOOLEAN
  BY DEF ParserInit, Sections
<1>2. offset \in 0..Len(raw) /\ at \in 0..U16Max
  BY U16Assumption DEF ParserInit
<1>3. {num_accounts, num_ixs, num_alts} \subseteq 0..U16Max
  BY U16Assumption DEF ParserInit
<1>4. deferred \subseteq (0..U16Max) \X Byte
  BY DEF ParserInit
<1> QED BY <1>1, <1>2, <1>3, <1>4 DEF Inside, ParserTypeOK

\* An end of the parse keeps what was read.
LEMMA EndsInside ==
  ASSUME Inside, NEW found, Error \/ GiveUp(found)
  PROVE  Inside'
BY DEF Inside, ParserTypeOK, Error, GiveUp, Sections, buffer, counts

\* What is used of the invariant where its parts are needed one by one.
LEMMA Bounds ==
  ASSUME Inside
  PROVE  /\ Len(raw) \in Nat /\ offset \in Nat /\ offset <= Len(raw)
         /\ at \in Nat /\ num_ixs \in Nat /\ num_ixs <= U16Max
         /\ num_alts \in Nat /\ num_alts <= U16Max /\ U16Max \in Nat
<1>1. num_ixs \in 0..U16Max /\ num_alts \in 0..U16Max /\ at \in 0..U16Max
  BY DEF Inside, ParserTypeOK
<1>2. offset \in 0..Len(raw) /\ Len(raw) \in Nat
  BY DEF Inside, ParserTypeOK
<1> QED BY <1>1, <1>2, U16Assumption

LEMMA SectionsInside ==
  ASSUME Inside, Start \/ Signatures \/ Header \/ Keys \/ InstructionCount
  PROVE  Inside'
<1> USE DEF Inside
<1>1. CASE Start
  BY <1>1 DEF Start, ParserTypeOK, Sections, buffer, counts
<1>2. CASE Signatures
  <2>1. CASE Fail
    BY <2>1, EndsInside DEF Fail
  <2>2. ASSUME NEW c \in read_compact_u16(raw, offset),
               LET end == c.next + c.value * SigLen
               IN  IF Len(raw) < end THEN GiveUp({Warn("signature_bytes", 0)})
                   ELSE /\ offset' = end /\ section' = "header"
                        /\ UNCHANGED <<buffer, counts, at, deferred>>
        PROVE  Inside'
    <3> DEFINE end == c.next + c.value * SigLen
    <3>1. c.value \in Nat /\ c.next \in Nat
      BY CountInside, U16Assumption DEF ParserTypeOK
    <3>2. end \in Nat
      BY <3>1, ProductNat, LengthAssumption
    <3> HIDE DEF end
    <3>3. CASE Len(raw) < end
      BY <2>2, <3>3, EndsInside DEF end
    <3>4. CASE ~(Len(raw) < end)
      <4>1. /\ offset' = end /\ section' = "header"
            /\ UNCHANGED <<buffer, counts, at, deferred>>
        BY <2>2, <3>4 DEF end
      <4> QED BY <3>2, <3>4, <4>1 DEF ParserTypeOK, Sections, buffer, counts
    <3> QED BY <3>3, <3>4
  <2> QED BY <1>2, <2>1, <2>2 DEF Signatures
<1>3. CASE Header
  <2> DEFINE v0 == offset < Len(raw) /\ raw[offset + 1] = VersionPrefix
             start == IF v0 THEN offset + 1 ELSE offset
             found == WarnIf(v0 # report.v0, "version")
  <2>1. v0 \in BOOLEAN /\ start \in Nat
    BY DEF ParserTypeOK
  <2>2. CASE Len(raw) < start + 3
    <3>1. GiveUp(found \cup {Warn("header_bytes", 0)})
      BY <1>3, <2>2 DEF Header
    <3> QED BY <3>1, EndsInside
  <2>3. CASE ~(Len(raw) < start + 3)
    <3>1. /\ is_v0' = v0 /\ offset' = start + 3 /\ section' = "accounts"
          /\ UNCHANGED <<buffer, num_accounts, num_ixs, num_alts, at, deferred>>
      BY <1>3, <2>3 DEF Header
    <3> HIDE DEF v0, start, found
    <3> QED BY <2>1, <2>3, <3>1 DEF ParserTypeOK, Sections, buffer
  <2> QED BY <2>2, <2>3
<1>4. CASE Keys
  <2>1. CASE Fail
    BY <2>1, EndsInside DEF Fail
  <2>2. ASSUME NEW c \in read_compact_u16(raw, offset),
               LET end == c.next + c.value * KeyLen
                   found == WarnIf(c.value # Len(report.accounts), "accounts")
               IN  IF Len(raw) < end THEN GiveUp({Warn("key_bytes", 0)})
                   ELSE IF Len(raw) < end + KeyLen THEN GiveUp(found \cup {Warn("blockhash", 0)})
                   ELSE /\ num_accounts' = c.value /\ offset' = end + KeyLen
                        /\ section' = "blockhash"
                        /\ UNCHANGED <<buffer, num_ixs, num_alts, is_v0, at, deferred>>
        PROVE  Inside'
    <3> DEFINE end == c.next + c.value * KeyLen
               found == WarnIf(c.value # Len(report.accounts), "accounts")
    <3>1. c.value \in 0..U16Max /\ c.value \in Nat /\ c.next \in Nat
      BY CountInside, U16Assumption DEF ParserTypeOK
    <3>2. end \in Nat /\ end + KeyLen \in Nat
      BY <3>1, ProductNat, LengthAssumption
    <3> HIDE DEF end, found
    <3>3. CASE Len(raw) < end
      <4>1. GiveUp({Warn("key_bytes", 0)})
        BY <2>2, <3>3 DEF end
      <4> QED BY <4>1, EndsInside
    <3>4. CASE ~(Len(raw) < end) /\ Len(raw) < end + KeyLen
      <4>1. GiveUp(found \cup {Warn("blockhash", 0)})
        BY <2>2, <3>4 DEF end, found
      <4> QED BY <4>1, EndsInside
    <3>5. CASE ~(Len(raw) < end) /\ ~(Len(raw) < end + KeyLen)
      <4>1. /\ num_accounts' = c.value /\ offset' = end + KeyLen
            /\ section' = "blockhash"
            /\ UNCHANGED <<buffer, num_ixs, num_alts, is_v0, at, deferred>>
        BY <2>2, <3>5 DEF end
      <4> QED BY <3>1, <3>2, <3>5, <4>1 DEF ParserTypeOK, Sections, buffer
    <3> QED BY <3>3, <3>4, <3>5
  <2> QED BY <1>4, <2>1, <2>2 DEF Keys
<1>5. CASE InstructionCount
  <2>1. CASE Fail
    BY <2>1, EndsInside DEF Fail
  <2>2. ASSUME NEW c \in read_compact_u16(raw, offset),
               num_ixs' = c.value, offset' = c.next, at' = 0, section' = "instructions",
               UNCHANGED <<buffer, num_accounts, num_alts, is_v0, deferred>>
        PROVE  Inside'
    <3>1. c.value \in 0..U16Max /\ c.next \in 0..Len(raw)
      BY CountInside DEF ParserTypeOK
    <3> QED BY <2>2, <3>1, U16Assumption DEF ParserTypeOK, Sections, buffer
  <2> QED BY <1>5, <2>1, <2>2 DEF InstructionCount
<1> QED BY <1>1, <1>2, <1>3, <1>4, <1>5

\* The indexes kept for later are bytes, each with its instruction.
LEMMA BeyondType ==
  ASSUME at \in 0..U16Max, NEW idx \in Seq(Byte)
  PROVE  Beyond(idx) \subseteq (0..U16Max) \X Byte
BY DEF Beyond

LEMMA ReadInstructionInside ==
  ASSUME Inside, ReadInstruction
  PROVE  Inside'
<1> USE DEF Inside
<1>1. offset + 1 \in Nat /\ offset + 1 <= Len(raw) /\ at \in 0..U16Max /\ at < num_ixs
  <2>1. at < num_ixs /\ Len(raw) >= offset + 1
    BY DEF ReadInstruction, Has
  <2> QED BY <2>1, Bounds DEF ParserTypeOK
<1>2. PICK accts \in read_compact_u16(raw, offset + 1) :
        \E data \in read_compact_u16(raw, accts.next + Len(IndexesAt(accts.next, accts.value))) :
          /\ deferred' = deferred \cup Beyond(IndexesAt(accts.next, accts.value))
          /\ IF Len(raw) < data.next + data.value
               THEN section' = "done" /\ UNCHANGED <<offset, at>>
               ELSE /\ offset' = data.next + data.value /\ at' = at + 1
                    /\ UNCHANGED section
  BY DEF ReadInstruction
<1> DEFINE idx == IndexesAt(accts.next, accts.value)
<1>3. accts.next \in 0..Len(raw) /\ accts.value \in Nat
  BY <1>1, CountInside, U16Assumption
<1>4. idx \in Seq(Byte) /\ Len(idx) \in Nat /\ accts.next + Len(idx) <= Len(raw)
  BY <1>3, IndexesInside
<1>5. accts.next + Len(idx) \in Nat
  BY <1>3, <1>4
<1>6. PICK data \in read_compact_u16(raw, accts.next + Len(idx)) :
        /\ deferred' = deferred \cup Beyond(idx)
        /\ IF Len(raw) < data.next + data.value
             THEN section' = "done" /\ UNCHANGED <<offset, at>>
             ELSE /\ offset' = data.next + data.value /\ at' = at + 1
                  /\ UNCHANGED section
  BY <1>2
<1>7. data.next \in Nat /\ data.value \in Nat
  BY <1>5, CountInside, U16Assumption
<1>8. UNCHANGED <<raw, num_accounts, num_ixs, num_alts, is_v0>>
  BY DEF ReadInstruction, buffer, counts
<1>9. deferred' \subseteq (0..U16Max) \X Byte
  BY <1>1, <1>4, <1>6, BeyondType DEF ParserTypeOK
<1>10. /\ section' \in Sections /\ offset' \in 0..Len(raw) /\ at' \in 0..U16Max
  <2> HIDE DEF idx, Inside
  <2>1. CASE Len(raw) < data.next + data.value
    <3>1. section' = "done" /\ offset' = offset /\ at' = at
      BY <1>6, <2>1
    <3> QED BY <1>1, <3>1, Bounds DEF Sections
  <2>2. CASE ~(Len(raw) < data.next + data.value)
    <3>1. section' = section /\ offset' = data.next + data.value /\ at' = at + 1
      BY <1>6, <2>2
    <3>2. section \in Sections
      BY DEF Inside, ParserTypeOK
    <3>3. offset' \in 0..Len(raw)
      BY <1>7, <2>2, <3>1, Bounds, SMTT(30)
    <3> QED BY <1>1, <3>1, <3>2, <3>3, Bounds
  <2> QED BY <2>1, <2>2
<1> QED BY <1>8, <1>9, <1>10 DEF ParserTypeOK

LEMMA ReadLookupInside ==
  ASSUME Inside, ReadLookup
  PROVE  Inside'
<1> USE DEF Inside
<1>1. CASE ~Has(KeyLen)
  BY <1>1, EndsInside DEF ReadLookup
<1>2. CASE Error
  BY <1>2, EndsInside
<1>3. CASE Has(KeyLen) /\ ~Error
  <2>1. PICK w \in read_compact_u16(raw, offset + KeyLen) :
          \E r \in read_compact_u16(raw, w.next + Len(IndexesAt(w.next, w.value))) :
            /\ offset' = r.next + Len(IndexesAt(r.next, r.value)) /\ at' = at + 1
            /\ UNCHANGED <<buffer, section, counts, deferred>>
    BY <1>3 DEF ReadLookup
  <2>2. offset + KeyLen \in Nat
    BY LengthAssumption DEF ParserTypeOK
  <2>3. w.next \in 0..Len(raw) /\ w.value \in Nat
    BY <2>2, CountInside, U16Assumption
  <2>4. w.next + Len(IndexesAt(w.next, w.value)) \in Nat
    BY <2>3, IndexesInside
  <2>5. PICK r \in read_compact_u16(raw, w.next + Len(IndexesAt(w.next, w.value))) :
            /\ offset' = r.next + Len(IndexesAt(r.next, r.value)) /\ at' = at + 1
            /\ UNCHANGED <<buffer, section, counts, deferred>>
    BY <2>1
  <2>6. r.next \in 0..Len(raw) /\ r.value \in Nat
    BY <2>4, CountInside, U16Assumption
  <2>7. offset' \in 0..Len(raw)
    <3>1. /\ Len(IndexesAt(r.next, r.value)) \in Nat
          /\ r.next + Len(IndexesAt(r.next, r.value)) <= Len(raw)
      BY <2>6, IndexesInside
    <3>2. offset' = r.next + Len(IndexesAt(r.next, r.value))
      BY <2>5
    <3> QED BY <2>6, <3>1, <3>2
  <2>8. at' \in 0..U16Max
    <3>1. at < num_alts /\ at' = at + 1
      BY <2>5 DEF ReadLookup
    <3> HIDE DEF Inside
    <3> QED BY <3>1, Bounds
  <2> QED BY <2>5, <2>7, <2>8 DEF ParserTypeOK, buffer, counts
<1> QED BY <1>1, <1>2, <1>3

LEMMA RestInside ==
  ASSUME Inside, \/ InstructionError \/ InstructionsEnd \/ TableCount
                 \/ LookupsEnd \/ CheckIndexes
  PROVE  Inside'
<1> USE DEF Inside
<1>1. CASE InstructionError
  BY <1>1, EndsInside DEF InstructionError
<1>2. CASE InstructionsEnd
  <2>1. PICK found : EndInstructions(found)
    BY <1>2 DEF InstructionsEnd
  <2> QED BY <2>1 DEF EndInstructions, ParserTypeOK, Sections, buffer, counts
<1>3. CASE TableCount
  <2>1. CASE Fail
    BY <2>1, EndsInside DEF Fail
  <2>2. ASSUME NEW c \in read_compact_u16(raw, offset),
               num_alts' = c.value, offset' = c.next, at' = 0, section' = "lookups",
               UNCHANGED <<buffer, num_accounts, num_ixs, is_v0, deferred>>
        PROVE  Inside'
    <3>1. c.value \in 0..U16Max /\ c.next \in 0..Len(raw)
      BY CountInside DEF ParserTypeOK
    <3> QED BY <2>2, <3>1, U16Assumption DEF ParserTypeOK, Sections, buffer
  <2> QED BY <1>3, <2>1, <2>2 DEF TableCount
<1>4. CASE LookupsEnd \/ CheckIndexes
  BY <1>4 DEF LookupsEnd, CheckIndexes, ParserTypeOK, Sections, buffer, counts
<1> QED BY <1>1, <1>2, <1>3, <1>4

-----------------------------------------------------------------------------
\* Whatever the bytes, of whatever length, the parser's offset never leaves them,
\* no announced count exceeds a u16, and every index it defers is one of the
\* bytes: internal_parser::validate_decoding does not index past its buffer.
THEOREM ParserInside == ParserSpec => []ParserTypeOK
<1>1. ParserInit /\ raw \in Seq(Byte) => Inside
  BY InsideInit
<1>2. Inside /\ [ParserNext]_<<buffer, parserVars>> => Inside'
  <2>1. ASSUME Inside, ParserNext
        PROVE  Inside'
    BY <2>1, SectionsInside, ReadInstructionInside, ReadLookupInside, RestInside DEF ParserNext
  <2>2. ASSUME Inside, UNCHANGED <<buffer, parserVars>>
        PROVE  Inside'
    BY <2>2 DEF Inside, ParserTypeOK, buffer, parserVars, counts
  <2> QED BY <2>1, <2>2
<1>3. Inside => ParserTypeOK
  BY DEF Inside
<1> QED BY <1>1, <1>2, <1>3, PTL DEF ParserSpec

-----------------------------------------------------------------------------
(* The reader of counts against the writer *)

\* What the reader makes of a count that ends with its k-th byte.
LEMMA ReadsCount ==
  ASSUME NEW data \in Seq(Byte), NEW from \in Nat, NEW k \in 1..3, from + k <= Len(data),
         ~More(data[from + k]), \A i \in 1..(k - 1) : More(data[from + i]),
         GroupValue(data, from, k) <= U16Max
  PROVE  read_compact_u16(data, from) =
           {[value |-> GroupValue(data, from, k), next |-> from + k]}
<1>1. k \in GroupCounts(data, from)
  BY DEF GroupCounts
<1>2. ASSUME NEW m \in GroupCounts(data, from)
      PROVE  m = k
  <2>1. m \in 1..3 /\ ~More(data[from + m]) /\ \A i \in 1..(m - 1) : More(data[from + i])
    BY DEF GroupCounts
  <2>2. ~(m < k)
    BY <2>1
  <2>3. ~(k < m)
    BY <2>1
  <2> QED BY <2>1, <2>2, <2>3
<1> QED BY <1>1, <1>2 DEF read_compact_u16

\* A group with the continuation bit, and one without it.
LEMMA Groups ==
  ASSUME NEW g \in 0..(Radix - 1)
  PROVE  /\ More(g + Radix) /\ Low(g + Radix) = g
         /\ ~More(g) /\ Low(g) = g
BY RadixAssumption DEF More, Low

-----------------------------------------------------------------------------
\* Wherever a serialized count stands in the bytes, read_compact_u16 returns that
\* count and the offset after it, and nothing else: the parser's own reader agrees
\* with the short_vec encoding on every u16.
THEOREM CountsRoundTrip ==
  ASSUME NEW data \in Seq(Byte), NEW from \in Nat, NEW n \in 0..U16Max,
         from + Len(ShortVec(n)) <= Len(data),
         \A i \in 1..Len(ShortVec(n)) : data[from + i] = ShortVec(n)[i]
  PROVE  read_compact_u16(data, from) = {[value |-> n, next |-> from + Len(ShortVec(n))]}
<1>1. n \in Nat /\ Radix \in Nat \ {0} /\ Radix * Radix \in Nat /\ n <= U16Max
  BY RadixAssumption, U16Assumption
<1> DEFINE q == n \div Radix
           g == n % Radix
<1>2. q \in Nat /\ g \in 0..(Radix - 1) /\ n = Radix * q + g
  BY <1>1, DivMod
<1>3. CASE n < Radix
  <2>1. ShortVec(n) = <<n>>
    <3>1. ~(n >= Radix /\ n < Radix * Radix)
      BY <1>1, <1>3
    <3> QED BY <1>3, <3>1 DEF ShortVec
  <2>2. data[from + 1] = n /\ from + 1 <= Len(data) /\ Len(ShortVec(n)) = 1
    BY <2>1
  <2>3. n \in 0..(Radix - 1)
    BY <1>1, <1>3
  <2>4. GroupValue(data, from, 1) = n
    BY <1>1, <2>2, <2>3, Groups DEF GroupValue
  <2>5. ~More(data[from + 1]) /\ \A i \in 1..(1 - 1) : More(data[from + i])
    BY <2>2, <2>3, Groups
  <2> QED BY <1>1, <2>2, <2>4, <2>5, ReadsCount
<1>4. CASE n >= Radix /\ n < Radix * Radix
  <2>1. q \in 0..(Radix - 1)
    <3>1. q < Radix
      BY <1>1, <1>4, DivBelow
    <3> HIDE DEF q
    <3> QED BY <1>1, <1>2, <3>1
  <2>2. ShortVec(n) = <<g + Radix, q>>
    BY <1>1, <1>4 DEF ShortVec
  <2> HIDE DEF q, g
  <2>3. Len(ShortVec(n)) = 2 /\ data[from + 1] = g + Radix /\ data[from + 2] = q
    BY <2>2
  <2>4. GroupValue(data, from, 2) = n
    <3>1. Low(data[from + 1]) = g /\ Low(data[from + 2]) = q
      BY <1>2, <2>1, <2>3, Groups
    <3>2. GroupValue(data, from, 2) = g + Radix * q + 0
      BY <3>1 DEF GroupValue
    <3>3. Radix * q \in Nat /\ g \in Nat
      BY <1>1, <1>2
    <3> QED BY <1>2, <3>2, <3>3
  <2>5. from + 2 <= Len(data)
    BY <2>3
  <2>6. ~More(data[from + 2]) /\ \A i \in 1..(2 - 1) : More(data[from + i])
    BY <1>2, <2>1, <2>3, Groups
  <2> QED BY <1>1, <2>3, <2>4, <2>5, <2>6, ReadsCount
<1>5. CASE n >= Radix * Radix
  <2> DEFINE p == q \div Radix
             h == q % Radix
  <2>1. p \in Nat /\ h \in 0..(Radix - 1) /\ q = Radix * p + h
    <3> HIDE DEF q
    <3> QED BY <1>1, <1>2, DivMod
  <2>2. p \in 0..(Radix - 1)
    <3>1. n < Radix * (Radix * Radix)
      BY <1>1, U16Assumption
    <3>2. q < Radix * Radix
      BY <1>1, <3>1, DivBelow
    <3> HIDE DEF q
    <3>3. p < Radix
      BY <1>1, <1>2, <3>2, DivBelow
    <3> HIDE DEF p
    <3> QED BY <1>1, <2>1, <3>3
  <2>3. ~(n < Radix) /\ ~(n < Radix * Radix)
    <3>1. Radix * Radix >= Radix
      BY <1>1
    <3> QED BY <1>1, <1>5, <3>1
  <2>4. ShortVec(n) = <<g + Radix, h + Radix, p>>
    BY <2>3 DEF ShortVec
  <2> HIDE DEF p, h, q, g
  <2>5. /\ Len(ShortVec(n)) = 3
        /\ data[from + 1] = g + Radix /\ data[from + 2] = h + Radix /\ data[from + 3] = p
    BY <2>4
  <2>6. GroupValue(data, from, 3) = n
    <3>1. Low(data[from + 1]) = g /\ Low(data[from + 2]) = h /\ Low(data[from + 3]) = p
      BY <1>2, <2>1, <2>2, <2>5, Groups
    <3>2. GroupValue(data, from, 3) = g + Radix * h + Radix * Radix * p
      BY <3>1 DEF GroupValue
    <3>3. Radix * q = Radix * h + Radix * Radix * p
      BY <1>1, <2>1
    <3>4. Radix * h \in Nat /\ Radix * Radix * p \in Nat /\ g \in Nat
      BY <1>1, <1>2, <2>1
    <3> QED BY <1>2, <3>2, <3>3, <3>4
  <2>7. from + 3 <= Len(data)
    BY <2>5
  <2>8. ~More(data[from + 3]) /\ \A i \in 1..(3 - 1) : More(data[from + i])
    <3>1. ~More(p) /\ More(g + Radix) /\ More(h + Radix)
      BY <1>2, <2>1, <2>2, Groups
    <3> QED BY <2>5, <3>1
  <2> QED BY <1>1, <2>5, <2>6, <2>7, <2>8, ReadsCount
<1> QED BY <1>1, <1>3, <1>4, <1>5

-----------------------------------------------------------------------------
(* The accounts from lookup tables *)

\* How many accounts a lookup takes.
Size(l) == Len(l.writable) + Len(l.readonly)
Sizes(n) == [k \in 1..n |-> Size(lookups[k])]

LEMMA LookupFields ==
  ASSUME lookups \in Seq(TableLookup)
  PROVE  /\ Len(lookups) \in Nat
         /\ \A k \in 1..Len(lookups) :
              /\ lookups[k] \in TableLookup
              /\ lookups[k].writable \in Seq(Nat) /\ Len(lookups[k].writable) \in Nat
              /\ lookups[k].readonly \in Seq(Nat) /\ Len(lookups[k].readonly) \in Nat
              /\ Size(lookups[k]) \in Nat
              /\ lookups[k].table \in Tables
<1>1. Len(lookups) \in Nat /\ \A k \in 1..Len(lookups) : lookups[k] \in TableLookup
  BY LenProperties, ElementOfSeq
<1>2. \A l \in TableLookup :
        l.writable \in Seq(Nat) /\ l.readonly \in Seq(Nat) /\ l.table \in Tables
  BY DEF TableLookup
<1>3. \A s \in Seq(Nat) : Len(s) \in Nat
  BY LenProperties
<1>4. ASSUME NEW l \in TableLookup
      PROVE  Size(l) \in Nat
  <2> DEFINE w == Len(l.writable)
             r == Len(l.readonly)
  <2>1. w \in Nat /\ r \in Nat
    BY <1>2, <1>3
  <2> HIDE DEF w, r
  <2>2. w + r \in Nat
    BY <2>1
  <2> QED BY <2>2 DEF w, r, Size
<1> QED BY <1>1, <1>2, <1>3, <1>4

\* The fold of LoadedBy, prefix after prefix.
LEMMA LoadedUnfolds ==
  ASSUME NEW S, NEW s \in Seq(S),
         \A k \in 1..Len(s) : Len(s[k].writable) \in Nat /\ Len(s[k].readonly) \in Nat
  PROVE  \E c : /\ RunningSums(c, [k \in 1..Len(s) |-> Size(s[k])], Len(s))
                /\ LoadedBy(s) = c[Len(s)]
<1> DEFINE n == Len(s)
           base == 0
           sizes == [k \in 1..n |-> Size(s[k])]
           Fits(it) == it = [t \in SUBSET (DOMAIN s) |->
                               IF t = {} THEN 0
                               ELSE it[t \ {Max(t)}] + Len(s[Max(t)].writable)
                                      + Len(s[Max(t)].readonly)]
           iter == CHOOSE it : Fits(it)
           advance == [k \in 1..n |-> [x \in Nat |-> x + Size(s[k])]]
<1>1. LoadedBy(s) = iter[DOMAIN s]
  BY Zenon DEF LoadedBy, FoldLeft, MapThenFoldSet
<1>2. n \in Nat /\ DOMAIN s = 1..n
  BY LenProperties
<1>3. ASSUME NEW k \in 1..n, NEW x \in Nat
      PROVE  /\ x + Size(s[k]) \in Nat
             /\ x + Len(s[k].writable) + Len(s[k].readonly) = x + Size(s[k])
  <2> DEFINE w == Len(s[k].writable)
             r == Len(s[k].readonly)
  <2>1. w \in Nat /\ r \in Nat
    OBVIOUS
  <2> HIDE DEF w, r
  <2>2. x + w + r = x + (w + r) /\ x + (w + r) \in Nat
    BY <2>1
  <2> QED BY <2>2 DEF w, r, Size
<1>4. advance \in [1..n -> [Nat -> Nat]] /\ base \in Nat
  BY <1>3
<1>5. PICK g \in [SUBSET (1..n) -> Nat] : Folds(g, base, advance, n)
  <2> HIDE DEF advance, n, base
  <2> QED BY <1>2, <1>4, FoldDefined
<1>6. Fits(g)
  <2>1. ASSUME NEW t \in SUBSET (1..n), t # {}
        PROVE  g[t] = g[t \ {Max(t)}] + Len(s[Max(t)].writable) + Len(s[Max(t)].readonly)
    <3>1. Max(t) \in 1..n /\ t \ {Max(t)} \in SUBSET (1..n)
      <4> HIDE DEF n
      <4> QED BY <2>1, <1>2, MaxProperties
    <3>2. g[t \ {Max(t)}] \in Nat
      BY <3>1, <1>5
    <3>3. g[t] = advance[Max(t)][g[t \ {Max(t)}]]
      <4> HIDE DEF advance, n
      <4> QED BY <2>1, <3>1, <1>5 DEF Folds
    <3>4. advance[Max(t)][g[t \ {Max(t)}]] = g[t \ {Max(t)}] + Size(s[Max(t)])
      <4> HIDE DEF n
      <4> QED BY <3>1, <3>2
    <3>5. g[t \ {Max(t)}] + Len(s[Max(t)].writable) + Len(s[Max(t)].readonly)
            = g[t \ {Max(t)}] + Size(s[Max(t)])
      <4> HIDE DEF n
      <4> QED BY <1>3, <3>1, <3>2
    <3> QED BY <3>3, <3>4, <3>5
  <2>2. g[{}] = 0 /\ {} \in SUBSET (1..n)
    BY <1>5 DEF Folds
  <2>3. \A t \in SUBSET (1..n) :
          g[t] = IF t = {} THEN 0
                 ELSE g[t \ {Max(t)}] + Len(s[Max(t)].writable) + Len(s[Max(t)].readonly)
    <3> HIDE DEF n
    <3> QED BY <2>1, <2>2
  <2> HIDE DEF n
  <2>4. g = [t \in SUBSET (1..n) |-> g[t]] /\ DOMAIN s = 1..n
    BY <1>2
  <2> QED BY <2>3, <2>4
<1>7. Fits(iter)
  <2> HIDE DEF Fits
  <2> QED BY <1>6
<1>8. iter[{}] = base
  <2> HIDE DEF iter
  <2> QED BY <1>7
<1>9. ASSUME NEW k \in 1..n, iter[1..(k - 1)] \in Nat
      PROVE  iter[1..k] = advance[k][iter[1..(k - 1)]]
  <2>1. Max(1..k) = k /\ (1..k) \ {Max(1..k)} = 1..(k - 1)
    <3>1. k \in Nat \ {0}
      BY <1>2
    <3> QED BY <3>1, MaxOfPrefix
  <2>2. 1..k \in SUBSET (DOMAIN s) /\ 1..k # {}
    <3> HIDE DEF iter, advance
    <3>1. k \in 1..k /\ 1..k \in SUBSET (1..n)
      BY <1>2
    <3> HIDE DEF n
    <3> QED BY <3>1, <1>2
  <2>3. iter[1..k] = iter[1..(k - 1)] + Len(s[k].writable) + Len(s[k].readonly)
    <3> HIDE DEF iter
    <3> QED BY <1>7, <2>1, <2>2
  <2> HIDE DEF iter
  <2>4. advance[k][iter[1..(k - 1)]] = iter[1..(k - 1)] + Size(s[k])
    BY <1>9
  <2> HIDE DEF advance, n
  <2> QED BY <1>3, <1>9, <2>3, <2>4
<1>10. PICK c \in [0..n -> Nat] : Unrolls(c, base, advance, n) /\ c[n] = iter[1..n]
  <2> DEFINE X == Nat
  <2> HIDE DEF iter, advance, n, base
  <2>1. n \in Nat /\ base \in X /\ advance \in [1..n -> [X -> X]]
    BY <1>2, <1>4
  <2>2. OnPrefixes(iter, base, advance, n, X)
    BY <1>8, <1>9 DEF OnPrefixes
  <2> HIDE DEF X
  <2>3. \E c \in [0..n -> X] : Unrolls(c, base, advance, n) /\ c[n] = iter[1..n]
    BY <2>1, <2>2, FoldPrefixes
  <2> QED BY <2>3 DEF X
<1>11. \A k \in 1..n : c[k] = c[k - 1] + sizes[k]
  <2>1. \A k \in 1..n : c[k - 1] \in Nat /\ c[k] = advance[k][c[k - 1]]
    <3> HIDE DEF advance, iter, n
    <3>1. \A k \in 1..n : k - 1 \in 0..n
      BY <1>2
    <3> QED BY <3>1, <1>10 DEF Unrolls
  <2> QED BY <2>1
<1>12. c[0] = 0
  BY <1>10 DEF Unrolls
<1> HIDE DEF iter, advance
<1>13. LoadedBy(s) = c[n]
  BY <1>1, <1>2, <1>10
<1>14. RunningSums(c, sizes, n)
  <2> HIDE DEF n, sizes
  <2> QED BY <1>10, <1>11, <1>12 DEF RunningSums
<1> QED BY <1>13, <1>14

\* The fold of Before is that of the lookups it is over.
LEMMA BeforeUnfolds ==
  ASSUME lookups \in Seq(TableLookup), NEW m \in 1..(Len(lookups) + 1)
  PROVE  \E c : RunningSums(c, Sizes(m - 1), m - 1) /\ Before(m) = c[m - 1]
<1> DEFINE n == m - 1
           s == SubSeq(lookups, 1, m - 1)
<1>1. Before(m) = LoadedBy(s)
  BY Zenon DEF Before, LoadedBy
<1>2. n \in Nat /\ n <= Len(lookups) /\ \A k \in 1..n : k \in 1..Len(lookups)
  BY LookupFields
<1>3. \A k \in 1..n : lookups[k] \in TableLookup
  BY <1>2, LookupFields
<1>4. s \in Seq(TableLookup) /\ Len(s) = n /\ \A k \in 1..n : s[k] = lookups[k]
  BY <1>2, <1>3, SubSeqProperties
<1> HIDE DEF s, n
<1>5. \A k \in 1..Len(s) : Len(s[k].writable) \in Nat /\ Len(s[k].readonly) \in Nat
  BY <1>2, <1>4, LookupFields
<1>6. PICK c : /\ RunningSums(c, [k \in 1..Len(s) |-> Size(s[k])], Len(s))
               /\ LoadedBy(s) = c[Len(s)]
  BY <1>4, <1>5, LoadedUnfolds
<1>7. [k \in 1..Len(s) |-> Size(s[k])] = Sizes(n)
  BY <1>4 DEF Sizes
<1> QED BY <1>1, <1>4, <1>6, <1>7 DEF n

\* Before(k) is the sum of the sizes of the lookups before the k-th.
LEMMA BeforeSums ==
  ASSUME lookups \in Seq(TableLookup)
  PROVE  \E b : /\ RunningSums(b, Sizes(Len(lookups)), Len(lookups))
                /\ \A m \in 1..(Len(lookups) + 1) : Before(m) = b[m - 1]
<1> DEFINE n == Len(lookups)
<1>1. n \in Nat /\ n + 1 \in 1..(n + 1) /\ (n + 1) - 1 = n
  BY LookupFields
<1>2. PICK b : RunningSums(b, Sizes(n), n)
  BY <1>1, BeforeUnfolds
<1>3. ASSUME NEW m \in 1..(n + 1)
      PROVE  Before(m) = b[m - 1]
  <2>1. PICK c : RunningSums(c, Sizes(m - 1), m - 1) /\ Before(m) = c[m - 1]
    BY <1>3, BeforeUnfolds
  <2> DEFINE a == [k \in 0..(m - 1) |-> b[k]]
  <2> HIDE DEF n
  <2>2. /\ m - 1 \in Nat /\ \A k \in 0..(m - 1) : k \in 0..n
        /\ \A k \in 1..(m - 1) : k \in 1..n /\ k \in 0..(m - 1) /\ k - 1 \in 0..(m - 1)
    BY <1>1
  <2>3. \A k \in 1..(m - 1) : Sizes(m - 1)[k] = Sizes(n)[k]
    BY <2>2 DEF Sizes
  <2>4. RunningSums(a, Sizes(m - 1), m - 1)
    <3>1. /\ b \in [0..n -> Nat] /\ b[0] = 0
          /\ \A k \in 1..n : b[k] = b[k - 1] + Sizes(n)[k]
      BY <1>2 DEF RunningSums
    <3>2. a \in [0..(m - 1) -> Nat] /\ a[0] = 0
      BY <3>1, <2>2
    <3>3. \A k \in 1..(m - 1) : a[k] = b[k] /\ a[k - 1] = b[k - 1]
      BY <2>2
    <3>4. \A k \in 1..(m - 1) : a[k] = a[k - 1] + Sizes(m - 1)[k]
      <4> HIDE DEF a
      <4> QED BY <2>2, <2>3, <3>1, <3>3
    <3> HIDE DEF a
    <3> QED BY <3>2, <3>4 DEF RunningSums
  <2>5. m - 1 \in 0..(m - 1)
    BY <2>2
  <2>6. a[m - 1] = c[m - 1]
    <3> HIDE DEF a
    <3> QED BY <2>1, <2>2, <2>4, <2>5, SumsOnce
  <2> QED BY <2>1, <2>5, <2>6
<1> QED BY <1>2, <1>3

-----------------------------------------------------------------------------
(* What holds of the tables and of the report, at every moment *)

Account == [index_in_tx : Nat, pubkey : TableKeys \cup {Placeholder},
            is_writable : BOOLEAN, table_index : Nat]

AltRecord == [table : Tables, resolved : BOOLEAN, accounts : Seq(Account)]

\* A table held n keys once.
Prefix(t, addresses) == \E n \in 0..Len(Contents[t]) : addresses = OnChain(t, n)

Typed ==
  /\ lookups \in Seq(TableLookup)
  /\ alts \in Seq(AltRecord) /\ Len(alts) = Len(lookups)
  /\ next \in 1..(Len(lookups) + 1)
  /\ length \in [Tables -> Nat]
  /\ \A t \in Tables : length[t] <= Len(Contents[t])
  /\ \A t \in DOMAIN cache : t \in Tables /\ Prefix(t, cache[t])

\* The index a lookup's j-th account has in its table.
IndexAt(l, j) ==
  IF j <= Len(l.writable) THEN l.writable[j] ELSE l.readonly[j - Len(l.writable)]

\* What the decoder wrote stays: only keys are filled in.
Numbered ==
  \A k \in 1..Len(lookups) :
    /\ alts[k].table = lookups[k].table
    /\ Len(alts[k].accounts) = Size(lookups[k])
    /\ \A j \in 1..Size(lookups[k]) :
         /\ alts[k].accounts[j].index_in_tx = GlobalIndex(k, j)
         /\ alts[k].accounts[j].is_writable = (j <= Len(lookups[k].writable))
         /\ alts[k].accounts[j].table_index = IndexAt(lookups[k], j)

\* The key a table's answer gives an index.
KeyAt(addresses, i) == IF i < Len(addresses) THEN addresses[i + 1] ELSE Placeholder

\* A resolved table has the keys of the one answer that is in the cache.
FromCache(k) ==
  /\ k < next /\ alts[k].table \in DOMAIN cache
  /\ \A j \in 1..Len(alts[k].accounts) :
       alts[k].accounts[j].pubkey =
         KeyAt(cache[alts[k].table], alts[k].accounts[j].table_index)

NotYet(k) == \A j \in 1..Len(alts[k].accounts) : alts[k].accounts[j].pubkey = Placeholder

LookupsResolved ==
  \A k \in 1..Len(lookups) :
    /\ alts[k].resolved => FromCache(k)
    /\ ~alts[k].resolved => NotYet(k)

\* What the runtime loaded, it loaded from tables as they once were.
RanOnce ==
  \/ loaded = NotRun
  \/ \E len \in [Tables -> Nat] :
       /\ \A t \in Tables : len[t] <= Len(Contents[t])
       /\ InBounds(len) /\ Numberable /\ loaded = LoadedAt(len)

InnerOK ==
  \/ DOMAIN inner = {}
  \/ /\ loaded.ran
     /\ inner = [idx \in StaticLen..(StaticLen + Len(LoadedKeys)) |-> InnerAccount(idx)]

AltsInv == Typed /\ Numbered /\ LookupsResolved /\ PlaceholdersExplained /\ RanOnce /\ InnerOK

-----------------------------------------------------------------------------
(* Tables and answers *)

LEMMA ContentsType ==
  ASSUME NEW t \in Tables
  PROVE  Contents[t] \in Seq(TableKeys) /\ Len(Contents[t]) \in Nat
BY ContentsAssumption, LenProperties

LEMMA OnChainProperties ==
  ASSUME NEW t \in Tables, NEW n \in 0..Len(Contents[t])
  PROVE  /\ OnChain(t, n) \in Seq(TableKeys)
         /\ Len(OnChain(t, n)) = n
         /\ \A i \in 1..n : OnChain(t, n)[i] = Contents[t][i]
<1> DEFINE s == Contents[t]
<1>1. s \in Seq(TableKeys) /\ Len(s) \in Nat
  BY ContentsType
<1> HIDE DEF s
<1>2. n \in Nat /\ n <= Len(s)
  BY <1>1 DEF s
<1>3. \A i \in 1..n : s[i] \in TableKeys
  BY <1>1, <1>2, ElementOfSeq
<1>4. /\ SubSeq(s, 1, n) \in Seq(TableKeys)
      /\ Len(SubSeq(s, 1, n)) = IF 1 <= n THEN n ELSE 0
      /\ \A i \in 1..n : SubSeq(s, 1, n)[i] = s[i]
  BY <1>2, <1>3, SubSeqProperties
<1> QED BY <1>2, <1>4 DEF OnChain, s

LEMMA PrefixProperties ==
  ASSUME NEW t \in Tables, NEW addresses, Prefix(t, addresses)
  PROVE  /\ addresses \in Seq(TableKeys) /\ Len(addresses) \in Nat
         /\ \A i \in Nat : /\ i < Len(addresses) => addresses[i + 1] = Contents[t][i + 1]
                           /\ KeyAt(addresses, i) \in TableKeys \cup {Placeholder}
                           /\ KeyAt(addresses, i) = Placeholder => ~(i < Len(addresses))
<1>1. PICK n \in 0..Len(Contents[t]) : addresses = OnChain(t, n)
  BY DEF Prefix
<1>2. /\ addresses \in Seq(TableKeys) /\ Len(addresses) = n /\ n \in Nat
      /\ \A i \in 1..n : addresses[i] = Contents[t][i]
  BY <1>1, OnChainProperties
<1>3. ASSUME NEW i \in Nat, i < Len(addresses)
      PROVE  addresses[i + 1] = Contents[t][i + 1] /\ addresses[i + 1] \in TableKeys
  <2>1. i + 1 \in 1..n
    BY <1>2, <1>3
  <2> QED BY <1>2, <2>1, ElementOfSeq
<1> QED BY <1>2, <1>3, KeyAssumption DEF KeyAt

-----------------------------------------------------------------------------
(* The report as the decoder leaves it *)

LEMMA OrderProperties ==
  ASSUME NEW l \in TableLookup
  PROVE  /\ Size(l) \in Nat /\ Len(Order(l)) = Size(l)
         /\ \A j \in 1..Size(l) : /\ Order(l)[j][1] = IndexAt(l, j) /\ IndexAt(l, j) \in Nat
                                  /\ Order(l)[j][2] = (j <= Len(l.writable))
<1> DEFINE w == Len(l.writable)
           r == Len(l.readonly)
<1>1. /\ l.writable \in Seq(Nat) /\ l.readonly \in Seq(Nat) /\ w \in Nat /\ r \in Nat
      /\ Size(l) = w + r
  BY LenProperties DEF TableLookup, Size
<1>2. ASSUME NEW j \in 1..(w + r)
      PROVE  IndexAt(l, j) \in Nat
  <2> HIDE DEF w, r
  <2>1. CASE j <= w
    <3>1. j \in 1..Len(l.writable)
      BY <1>1, <2>1 DEF w
    <3> QED BY <1>1, <2>1, <3>1, ElementOfSeq DEF IndexAt, w
  <2>2. CASE ~(j <= w)
    <3>1. j - w \in 1..r
      BY <1>1, <2>2
    <3> QED BY <1>1, <2>2, <3>1, ElementOfSeq DEF IndexAt, w, r
  <2> QED BY <2>1, <2>2
<1>3. Order(l) = [j \in 1..(w + r) |-> IF j <= w THEN <<l.writable[j], TRUE>>
                                      ELSE <<l.readonly[j - w], FALSE>>]
  BY DEF Order
<1>4. ASSUME NEW j \in 1..(w + r)
      PROVE  /\ Order(l)[j][1] = IndexAt(l, j)
             /\ Order(l)[j][2] = (j <= w)
             /\ Order(l)[j] \in Nat \X BOOLEAN
  <2>1. CASE j <= w
    <3>1. Order(l)[j] = <<l.writable[j], TRUE>> /\ IndexAt(l, j) = l.writable[j]
      BY <1>3, <2>1 DEF IndexAt
    <3>2. Order(l)[j] = <<IndexAt(l, j), TRUE>> /\ IndexAt(l, j) \in Nat
      BY <1>2, <3>1
    <3> DEFINE i == IndexAt(l, j)
               b == j <= w
               e == Order(l)[j]
    <3>3. b = TRUE
      BY <2>1
    <3>4. e = <<i, TRUE>> /\ i \in Nat
      BY <3>2
    <3> HIDE DEF b, i, e
    <3>5. e[1] = i /\ e[2] = b /\ e \in Nat \X BOOLEAN
      BY <3>3, <3>4
    <3> QED BY <3>5 DEF b, i, e
  <2>2. CASE ~(j <= w)
    <3>1. Order(l)[j] = <<l.readonly[j - w], FALSE>> /\ IndexAt(l, j) = l.readonly[j - w]
      BY <1>3, <2>2 DEF IndexAt
    <3>2. Order(l)[j] = <<IndexAt(l, j), FALSE>> /\ IndexAt(l, j) \in Nat
      BY <1>2, <3>1
    <3> DEFINE i == IndexAt(l, j)
               b == j <= w
               e == Order(l)[j]
    <3>3. b = FALSE
      BY <2>2
    <3>4. e = <<i, FALSE>> /\ i \in Nat
      BY <3>2
    <3> HIDE DEF b, i, e
    <3>5. e[1] = i /\ e[2] = b /\ e \in Nat \X BOOLEAN
      BY <3>3, <3>4
    <3> QED BY <3>5 DEF b, i, e
  <2> QED BY <2>1, <2>2
<1> HIDE DEF w, r
<1>5. Order(l) \in [1..(w + r) -> Nat \X BOOLEAN]
  <2>1. Order(l) = [j \in 1..(w + r) |-> Order(l)[j]]
    BY <1>3
  <2> QED BY <1>4, <2>1
<1>6. Order(l) \in Seq(Nat \X BOOLEAN)
  <2>1. w + r \in Nat
    BY <1>1
  <2> QED BY <1>5, <2>1, SeqDef
<1>7. Len(Order(l)) = w + r
  <2>1. Len(Order(l)) \in Nat /\ 1..Len(Order(l)) = 1..(w + r) /\ w + r \in Nat
    BY <1>1, <1>5, <1>6, LenProperties
  <2> DEFINE a == Len(Order(l))
             b == w + r
  <2>2. a \in Nat /\ b \in Nat /\ 1..a = 1..b
    BY <2>1
  <2> HIDE DEF a, b
  <2>3. a = b
    BY <2>2
  <2> QED BY <2>3 DEF a, b
<1> QED BY <1>1, <1>2, <1>4, <1>7 DEF w

LEMMA BeforeType ==
  ASSUME lookups \in Seq(TableLookup), NEW m \in 1..(Len(lookups) + 1)
  PROVE  Before(m) \in Nat
<1>1. PICK b : /\ RunningSums(b, Sizes(Len(lookups)), Len(lookups))
               /\ \A i \in 1..(Len(lookups) + 1) : Before(i) = b[i - 1]
  BY BeforeSums
<1>2. m - 1 \in 0..Len(lookups)
  BY LookupFields
<1> QED BY <1>1, <1>2 DEF RunningSums

LEMMA ModType ==
  ASSUME NEW a \in Nat
  PROVE  a % IndexRange \in Nat /\ (a < IndexRange => a % IndexRange = a)
<1>1. IndexRange \in Nat \ {0}
  BY IndexAssumption
<1> DEFINE q == a \div IndexRange
           d == a % IndexRange
<1>2. q \in Nat /\ d \in Nat /\ a = IndexRange * q + d
  BY <1>1, DivMod
<1>3. a < IndexRange => q < 1
  <2>1. IndexRange * 1 = IndexRange
    BY <1>1
  <2> QED BY <1>1, <2>1, DivBelow
<1> HIDE DEF q
<1>4. a < IndexRange => q = 0
  BY <1>2, <1>3
<1>5. IndexRange * 0 = 0
  BY <1>1
<1> HIDE DEF d
<1>6. a < IndexRange => d = a
  BY <1>2, <1>4, <1>5
<1> QED BY <1>2, <1>6 DEF d

LEMMA GlobalIndexType ==
  ASSUME lookups \in Seq(TableLookup), NEW k \in 1..Len(lookups), NEW j \in Nat \ {0}
  PROVE  GlobalIndex(k, j) \in Nat
<1>1. Before(k) \in Nat
  <2>1. k \in 1..(Len(lookups) + 1)
    BY LookupFields
  <2> QED BY <2>1, BeforeType
<1>2. StaticLen + Before(k) + j - 1 \in Nat
  BY <1>1, IndexAssumption
<1> QED BY <1>2, ModType DEF GlobalIndex

LEMMA DecodedProperties ==
  ASSUME lookups \in Seq(TableLookup)
  PROVE  /\ DecodedAlts \in Seq(AltRecord) /\ Len(DecodedAlts) = Len(lookups)
         /\ \A k \in 1..Len(lookups) :
              LET a == DecodedAlts[k]
              IN  /\ a.table = lookups[k].table /\ ~a.resolved
                  /\ Len(a.accounts) = Size(lookups[k])
                  /\ \A j \in 1..Size(lookups[k]) :
                       /\ a.accounts[j].index_in_tx = GlobalIndex(k, j)
                       /\ a.accounts[j].pubkey = Placeholder
                       /\ a.accounts[j].is_writable = (j <= Len(lookups[k].writable))
                       /\ a.accounts[j].table_index = IndexAt(lookups[k], j)
<1> DEFINE n == Len(lookups)
           Acc(k) == [j \in 1..Len(Order(lookups[k])) |->
                        [index_in_tx |-> GlobalIndex(k, j), pubkey |-> Placeholder,
                         is_writable |-> Order(lookups[k])[j][2],
                         table_index |-> Order(lookups[k])[j][1]]]
           Alt(k) == [table |-> lookups[k].table, resolved |-> FALSE, accounts |-> Acc(k)]
<1>1. n \in Nat /\ \A k \in 1..n : lookups[k] \in TableLookup /\ lookups[k].table \in Tables
  BY LookupFields
<1>2. ASSUME NEW k \in 1..n
      PROVE  /\ Acc(k) \in Seq(Account) /\ Len(Acc(k)) = Size(lookups[k])
             /\ \A j \in 1..Size(lookups[k]) :
                  /\ Acc(k)[j].index_in_tx = GlobalIndex(k, j)
                  /\ Acc(k)[j].pubkey = Placeholder
                  /\ Acc(k)[j].is_writable = (j <= Len(lookups[k].writable))
                  /\ Acc(k)[j].table_index = IndexAt(lookups[k], j)
  <2> DEFINE s == Size(lookups[k])
             o == Order(lookups[k])
             W(j) == j <= Len(lookups[k].writable)
             X(j) == IndexAt(lookups[k], j)
             G(j) == GlobalIndex(k, j)
  <2>1. s \in Nat /\ Len(o) = s /\ \A j \in 1..s : o[j][1] = X(j) /\ X(j) \in Nat /\ o[j][2] = W(j)
    BY <1>1, OrderProperties
  <2>2. \A j \in 1..s : G(j) \in Nat
    BY GlobalIndexType
  <2>3. \A j \in 1..s : W(j) \in BOOLEAN
    OBVIOUS
  <2> HIDE DEF s, o, W, X, G
  <2> DEFINE f == [j \in 1..s |-> [index_in_tx |-> G(j), pubkey |-> Placeholder,
                                   is_writable |-> W(j), table_index |-> X(j)]]
  <2>4. Acc(k) = f
    <3>1. Acc(k) = [j \in 1..s |-> [index_in_tx |-> G(j), pubkey |-> Placeholder,
                                    is_writable |-> o[j][2], table_index |-> o[j][1]]]
      BY <2>1 DEF o, G
    <3> HIDE DEF Acc
    <3> QED BY <2>1, <3>1
  <2> HIDE DEF Acc
  <2>5. f \in [1..s -> Account]
    BY <2>1, <2>2, <2>3 DEF Account
  <2>6. f \in Seq(Account) /\ DOMAIN f = 1..s
    BY <2>1, <2>5, SeqDef
  <2>7. \A j \in 1..s : /\ f[j].index_in_tx = G(j) /\ f[j].pubkey = Placeholder
                        /\ f[j].is_writable = W(j) /\ f[j].table_index = X(j)
    OBVIOUS
  <2> HIDE DEF f
  <2>8. Len(f) = s
    BY <2>1, <2>6, LenProperties
  <2> QED BY <2>4, <2>6, <2>7, <2>8 DEF s, W, X, G
<1>3. DecodedAlts = [k \in 1..n |-> Alt(k)]
  BY DEF DecodedAlts
<1> HIDE DEF Acc, n
<1>4. \A k \in 1..n : Alt(k) \in AltRecord
  BY <1>1, <1>2 DEF AltRecord
<1>5. DecodedAlts \in [1..n -> AltRecord]
  BY <1>3, <1>4
<1>6. DecodedAlts \in Seq(AltRecord) /\ DOMAIN DecodedAlts = 1..n
  BY <1>1, <1>5, SeqDef
<1>7. Len(DecodedAlts) = n
  BY <1>1, <1>6, LenProperties
<1>8. ASSUME NEW k \in 1..n
      PROVE  DecodedAlts[k].table = lookups[k].table /\ ~DecodedAlts[k].resolved
             /\ DecodedAlts[k].accounts = Acc(k)
  BY <1>3
<1> QED BY <1>2, <1>6, <1>7, <1>8 DEF n

LEMMA InitHolds == ASSUME Init PROVE AltsInv
<1>1. lookups \in Seq(TableLookup)
  BY LookupsAssumption DEF Init
<1>2. /\ alts \in Seq(AltRecord) /\ Len(alts) = Len(lookups)
      /\ Numbered /\ LookupsResolved
  BY <1>1, DecodedProperties DEF Init, Numbered, LookupsResolved, NotYet
<1>3. length \in [Tables -> Nat]
  <2>1. \A t \in Tables : length[t] \in Nat
    <3>1. length \in [Tables -> 0..Max({Len(Contents[t]) : t \in Tables})]
      BY DEF Init
    <3> DEFINE m == Max({Len(Contents[t]) : t \in Tables})
    <3> HIDE DEF m
    <3>2. 0..m \subseteq Nat
      OBVIOUS
    <3> QED BY <3>1, <3>2 DEF m
  <2> QED BY <2>1 DEF Init
<1>4. Typed
  <2>1. next = 1 /\ next \in 1..(Len(lookups) + 1)
    BY <1>1, LookupFields DEF Init
  <2>2. DOMAIN cache = {}
    BY DEF Init
  <2>3. \A t \in Tables : length[t] <= Len(Contents[t])
    BY DEF Init
  <2> QED BY <1>1, <1>2, <1>3, <2>1, <2>2, <2>3 DEF Typed
<1>5. PlaceholdersExplained
  BY DEF Init, PlaceholdersExplained
<1>6. RanOnce
  BY <1>3 DEF Init, RanOnce
<1>7. InnerOK
  BY DEF Init, InnerOK
<1> QED BY <1>2, <1>4, <1>5, <1>6, <1>7 DEF AltsInv

-----------------------------------------------------------------------------
(* A table's answer, put in place of the placeholders *)

\* What Apply needs, and what the cache is afterwards.
Answered(addresses) ==
  /\ Resolving /\ Prefix(Current, addresses) /\ Apply(addresses)
  /\ next' = next + 1
  /\ Current \in DOMAIN cache' /\ cache'[Current] = addresses
  /\ \A t \in DOMAIN cache : t \in DOMAIN cache' /\ cache'[t] = cache[t]

\* The lookup that is resolved, and its account numbers.
LEMMA CurrentProperties ==
  ASSUME Typed, Numbered, Resolving
  PROVE  /\ next \in 1..Len(lookups) /\ Current \in Tables
         /\ alts[next] \in AltRecord /\ alts[next].table = Current
         /\ alts[next].accounts \in Seq(Account) /\ Len(alts[next].accounts) \in Nat
         /\ \A j \in 1..Len(alts[next].accounts) :
              alts[next].accounts[j] \in Account /\ alts[next].accounts[j].table_index \in Nat
<1>1. Len(lookups) \in Nat /\ next \in 1..Len(lookups)
  BY LookupFields DEF Typed, Resolving
<1>2. Current \in Tables /\ alts[next].table = Current
  BY <1>1, LookupFields DEF Typed, Numbered, Current
<1>3. alts[next] \in AltRecord
  BY <1>1, ElementOfSeq DEF Typed
<1>4. alts[next].accounts \in Seq(Account)
  BY <1>3 DEF AltRecord
<1>5. Len(alts[next].accounts) \in Nat
  BY <1>4, LenProperties
<1>6. \A j \in 1..Len(alts[next].accounts) : alts[next].accounts[j] \in Account
  BY <1>4, ElementOfSeq
<1>7. \A a \in Account : a.table_index \in Nat
  BY DEF Account
<1> QED BY <1>1, <1>2, <1>3, <1>4, <1>5, <1>6, <1>7

LEMMA AppliedAccounts ==
  ASSUME Typed, Numbered, LookupsResolved, NEW addresses, Answered(addresses), ~alts[next].resolved
  PROVE  /\ alts' \in Seq(AltRecord) /\ Len(alts') = Len(alts)
         /\ \A k \in 1..Len(lookups) : k # next => alts'[k] = alts[k]
         /\ alts'[next].table = Current /\ alts'[next].resolved
         /\ Len(alts'[next].accounts) = Len(alts[next].accounts)
         /\ \A j \in 1..Len(alts[next].accounts) :
              LET a == alts[next].accounts[j]
                  b == alts'[next].accounts[j]
              IN  /\ b.index_in_tx = a.index_in_tx /\ b.is_writable = a.is_writable
                  /\ b.table_index = a.table_index
                  /\ b.pubkey = KeyAt(addresses, a.table_index)
<1> DEFINE old == alts[next].accounts
           n == Len(old)
           new == [j \in 1..n |-> Resolve(old[j], addresses)]
           alt == [table |-> alts[next].table, resolved |-> TRUE, accounts |-> new]
<1>1. /\ next \in 1..Len(lookups) /\ Current \in Tables /\ alts[next].table = Current
      /\ old \in Seq(Account) /\ n \in Nat
      /\ \A j \in 1..n : old[j] \in Account /\ old[j].table_index \in Nat
      /\ alts[next] \in AltRecord
  BY CurrentProperties DEF Answered
<1>2. \A i \in Nat : KeyAt(addresses, i) \in TableKeys \cup {Placeholder}
  BY <1>1, PrefixProperties DEF Answered
<1>3. \A j \in 1..n : old[j].pubkey = Placeholder
  BY <1>1 DEF LookupsResolved, NotYet
<1>4. alts' = [alts EXCEPT ![next] = alt]
  BY DEF Answered, Apply
<1> HIDE DEF old, n
<1>5. ASSUME NEW j \in 1..n
      PROVE  /\ Resolve(old[j], addresses) =
                  [old[j] EXCEPT !.pubkey = KeyAt(addresses, old[j].table_index)]
             /\ Resolve(old[j], addresses) \in Account
  <2>1. old[j] \in Account /\ old[j].pubkey = Placeholder /\ old[j].table_index \in Nat
    BY <1>1, <1>3
  <2>2. KeyAt(addresses, old[j].table_index) \in TableKeys \cup {Placeholder}
    BY <1>2, <2>1
  <2>3. Resolve(old[j], addresses) =
          [old[j] EXCEPT !.pubkey = KeyAt(addresses, old[j].table_index)]
    BY <2>1 DEF Resolve, KeyAt, Account
  <2> QED BY <2>1, <2>2, <2>3 DEF Account
<1>6. new \in [1..n -> Account]
  BY <1>5
<1>7. new \in Seq(Account) /\ DOMAIN new = 1..n
  BY <1>1, <1>6, SeqDef, SMTT(30)
<1>8. Len(new) = n
  <2> HIDE DEF new
  <2> QED BY <1>1, <1>7, LenProperties
<1>9. \A j \in 1..n : new[j] = [old[j] EXCEPT !.pubkey = KeyAt(addresses, old[j].table_index)]
  BY <1>5
<1> HIDE DEF new
<1>10. alt \in AltRecord /\ alt.table = Current /\ alt.resolved /\ alt.accounts = new
  BY <1>1, <1>7 DEF AltRecord
<1> HIDE DEF alt
<1>11. next \in 1..Len(alts) /\ alts \in Seq(AltRecord)
  BY <1>1 DEF Typed
<1>12. /\ alts' \in Seq(AltRecord) /\ Len(alts') = Len(alts)
       /\ \A k \in 1..Len(alts) : alts'[k] = IF k = next THEN alt ELSE alts[k]
  BY <1>4, <1>10, <1>11, ExceptSeq
<1>13. alts'[next] = alt /\ \A k \in 1..Len(lookups) : k # next => alts'[k] = alts[k]
  BY <1>11, <1>12 DEF Typed
<1>14. \A j \in 1..n :
         /\ new[j].index_in_tx = old[j].index_in_tx /\ new[j].is_writable = old[j].is_writable
         /\ new[j].table_index = old[j].table_index
         /\ new[j].pubkey = KeyAt(addresses, old[j].table_index)
  BY <1>1, <1>9 DEF Account
<1> QED BY <1>8, <1>10, <1>12, <1>13, <1>14 DEF old, n

LEMMA SameBefore ==
  ASSUME lookups' = lookups, NEW k
  PROVE  Before(k)' = Before(k)
BY DEF Before, FoldLeft, MapThenFoldSet

LEMMA AnswerKeeps ==
  ASSUME AltsInv, lookups' = lookups, NEW addresses, Answered(addresses)
  PROVE  /\ alts' \in Seq(AltRecord) /\ Len(alts') = Len(lookups)
         /\ Numbered' /\ LookupsResolved' /\ PlaceholdersExplained'
<1> USE DEF AltsInv
<1>1. /\ next \in 1..Len(lookups) /\ Current \in Tables /\ alts[next].table = Current
      /\ Len(alts[next].accounts) \in Nat
      /\ \A j \in 1..Len(alts[next].accounts) : alts[next].accounts[j].table_index \in Nat
  BY CurrentProperties DEF Answered
<1>2. ~alts[next].resolved
  BY <1>1 DEF LookupsResolved, FromCache
<1>3. /\ alts' \in Seq(AltRecord) /\ Len(alts') = Len(alts)
      /\ \A k \in 1..Len(lookups) : k # next => alts'[k] = alts[k]
      /\ alts'[next].table = Current /\ alts'[next].resolved
      /\ Len(alts'[next].accounts) = Len(alts[next].accounts)
      /\ \A j \in 1..Len(alts[next].accounts) :
           /\ alts'[next].accounts[j].index_in_tx = alts[next].accounts[j].index_in_tx
           /\ alts'[next].accounts[j].is_writable = alts[next].accounts[j].is_writable
           /\ alts'[next].accounts[j].table_index = alts[next].accounts[j].table_index
           /\ alts'[next].accounts[j].pubkey
                = KeyAt(addresses, alts[next].accounts[j].table_index)
  BY <1>2, AppliedAccounts
<1>4. next' = next + 1 /\ Len(lookups) \in Nat
  BY LookupFields DEF Answered, Typed
<1>6. ASSUME NEW k, NEW j
      PROVE  GlobalIndex(k, j)' = GlobalIndex(k, j)
  BY SameBefore DEF GlobalIndex
<1>7. Numbered'
  <2> SUFFICES ASSUME NEW k \in 1..Len(lookups)
               PROVE  /\ alts'[k].table = lookups[k].table
                      /\ Len(alts'[k].accounts) = Size(lookups[k])
                      /\ \A j \in 1..Size(lookups[k]) :
                           /\ alts'[k].accounts[j].index_in_tx = GlobalIndex(k, j)
                           /\ alts'[k].accounts[j].is_writable = (j <= Len(lookups[k].writable))
                           /\ alts'[k].accounts[j].table_index = IndexAt(lookups[k], j)
    BY <1>6 DEF Numbered
  <2>1. /\ alts[k].table = lookups[k].table
        /\ Len(alts[k].accounts) = Size(lookups[k])
        /\ \A j \in 1..Size(lookups[k]) :
             /\ alts[k].accounts[j].index_in_tx = GlobalIndex(k, j)
             /\ alts[k].accounts[j].is_writable = (j <= Len(lookups[k].writable))
             /\ alts[k].accounts[j].table_index = IndexAt(lookups[k], j)
    BY DEF Numbered
  <2>2. CASE k # next
    BY <1>3, <2>1, <2>2
  <2>3. CASE k = next
    <3>1. alts'[k].table = lookups[k].table
      BY <1>1, <1>3, <2>1, <2>3
    <3>2. Len(alts'[k].accounts) = Size(lookups[k])
      BY <1>3, <2>1, <2>3
    <3>3. ASSUME NEW j \in 1..Size(lookups[k])
          PROVE  /\ alts'[k].accounts[j].index_in_tx = GlobalIndex(k, j)
                 /\ alts'[k].accounts[j].is_writable = (j <= Len(lookups[k].writable))
                 /\ alts'[k].accounts[j].table_index = IndexAt(lookups[k], j)
      BY <1>3, <2>1, <2>3
    <3> QED BY <3>1, <3>2, <3>3
  <2> QED BY <2>2, <2>3
<1>8. ASSUME NEW k \in 1..Len(lookups)
      PROVE  /\ alts'[k].resolved => FromCache(k)'
             /\ ~alts'[k].resolved => NotYet(k)'
  <2>1. CASE k # next
    <3>1. alts'[k] = alts[k]
      BY <1>3, <2>1
    <3>2. CASE alts[k].resolved
      <4>1. FromCache(k)
        BY <3>2 DEF LookupsResolved
      <4>2. /\ alts[k].table \in DOMAIN cache'
            /\ cache'[alts[k].table] = cache[alts[k].table]
        BY <4>1 DEF FromCache, Answered
      <4>3. k < next'
        BY <1>1, <1>4, <4>1 DEF FromCache
      <4> QED BY <3>1, <3>2, <4>1, <4>2, <4>3 DEF FromCache
    <3>3. CASE ~alts[k].resolved
      BY <3>1, <3>3 DEF LookupsResolved, NotYet
    <3> QED BY <3>2, <3>3
  <2>2. CASE k = next
    <3>1. k < next' /\ alts'[k].table \in DOMAIN cache' /\ cache'[alts'[k].table] = addresses
      BY <1>1, <1>3, <1>4, <2>2 DEF Answered
    <3>2. \A j \in 1..Len(alts'[k].accounts) :
            alts'[k].accounts[j].pubkey =
              KeyAt(addresses, alts'[k].accounts[j].table_index)
      BY <1>3, <2>2
    <3> QED BY <1>3, <2>2, <3>1, <3>2 DEF FromCache, KeyAt
  <2> QED BY <2>1, <2>2
<1>9. LookupsResolved'
  BY <1>8 DEF LookupsResolved
<1>10. flags \subseteq flags'
  BY DEF Answered, Apply
<1>11. PlaceholdersExplained'
  <2> SUFFICES ASSUME NEW k \in 1..(next' - 1), NEW j \in 1..Len(alts'[k].accounts),
                      alts'[k].accounts[j].pubkey = Placeholder
               PROVE  \E f \in flags' :
                        /\ f.table = alts'[k].table
                        /\ IF alts'[k].resolved
                             THEN /\ f.what = "out_of_bounds"
                                  /\ f.index = alts'[k].accounts[j].table_index
                             ELSE f.what \in {"not_found", "rpc"}
    BY DEF PlaceholdersExplained
  <2>1. CASE k # next
    <3>1. k \in 1..(next - 1) /\ k \in 1..Len(lookups) /\ alts'[k] = alts[k]
      BY <1>1, <1>3, <1>4, <2>1
    <3>2. j \in 1..Len(alts[k].accounts) /\ alts[k].accounts[j].pubkey = Placeholder
      BY <3>1
    <3>3. PICK f \in flags :
            /\ f.table = alts[k].table
            /\ IF alts[k].resolved
                 THEN f.what = "out_of_bounds" /\ f.index = alts[k].accounts[j].table_index
                 ELSE f.what \in {"not_found", "rpc"}
      BY <3>1, <3>2 DEF PlaceholdersExplained
    <3>4. f \in flags'
      BY <1>10
    <3> QED BY <3>1, <3>3, <3>4
  <2>2. CASE k = next
    <3> DEFINE i == alts[next].accounts[j].table_index
               f == [what |-> "out_of_bounds", table |-> Current, index |-> i]
    <3>1. j \in 1..Len(alts[next].accounts) /\ i \in Nat /\ KeyAt(addresses, i) = Placeholder
          /\ alts'[k].accounts[j].table_index = i
      BY <1>1, <1>3, <2>2
    <3>2. ~(i < Len(addresses)) /\ Len(addresses) \in Nat
      <4> HIDE DEF i
      <4> QED BY <1>1, <3>1, PrefixProperties DEF Answered
    <3>3. i \notin 0..(Len(addresses) - 1)
      BY <3>2
    <3>4. f \in flags'
      BY <3>1, <3>3 DEF Answered, Apply
    <3>5. /\ f.table = alts'[k].table /\ f.what = "out_of_bounds"
          /\ f.index = alts'[k].accounts[j].table_index
      BY <1>3, <2>2, <3>1
    <3>6. alts'[k].resolved
      BY <1>3, <2>2
    <3> HIDE DEF f
    <3> QED BY <3>4, <3>5, <3>6
  <2> QED BY <2>1, <2>2
<1> QED BY <1>3, <1>7, <1>9, <1>11 DEF Typed

\* The loaded keys stay what the lookups say.
LEMMA RanStays ==
  ASSUME RanOnce, lookups' = lookups, loaded' = loaded
  PROVE  RanOnce'
<1>1. CASE loaded = NotRun
  BY <1>1 DEF RanOnce, NotRun
<1>2. CASE loaded # NotRun
  <2>1. PICK len \in [Tables -> Nat] :
          /\ \A t \in Tables : len[t] <= Len(Contents[t])
          /\ InBounds(len) /\ Numberable /\ loaded = LoadedAt(len)
    BY <1>2 DEF RanOnce
  <2>2. InBounds(len)'
    BY <2>1 DEF InBounds
  <2>3. Numberable'
    <3>1. Before(Len(lookups) + 1)' = Before(Len(lookups) + 1)
      BY DEF Before, FoldLeft, MapThenFoldSet
    <3> QED BY <2>1, <3>1 DEF Numberable
  <2>4. loaded' = LoadedAt(len)'
    BY <2>1 DEF LoadedAt, Loads
  <2> QED BY <2>1, <2>2, <2>3, <2>4 DEF RanOnce
<1> QED BY <1>1, <1>2

LEMMA InnerStays ==
  ASSUME InnerOK, inner' = inner, loaded' = loaded
  PROVE  InnerOK'
BY DEF InnerOK, InnerAccount, LoadedKeys

LEMMA AltsStay ==
  ASSUME Numbered, LookupsResolved, lookups' = lookups, alts' = alts, Typed, next' >= next, next' \in Nat,
         cache' = cache
  PROVE  Numbered' /\ LookupsResolved'
<1>1. \A k, j : GlobalIndex(k, j)' = GlobalIndex(k, j)
  <2> TAKE k, j
  <2> QED BY SameBefore DEF GlobalIndex
<1>2. Numbered'
  BY <1>1 DEF Numbered
<1>3. next \in Nat
  BY LookupFields DEF Typed
<1>4. LookupsResolved'
  <2>1. ASSUME NEW k \in 1..Len(lookups)
        PROVE  (FromCache(k) => FromCache(k)') /\ (NotYet(k) => NotYet(k)')
    BY <1>3, LookupFields DEF FromCache, NotYet, KeyAt, Typed
  <2> QED BY <2>1 DEF LookupsResolved
<1> QED BY <1>2, <1>4

LEMMA PlaceholdersStay ==
  ASSUME PlaceholdersExplained, alts' = alts, next' = next, flags' = flags
  PROVE  PlaceholdersExplained'
<1> SUFFICES ASSUME NEW k \in 1..(next - 1), NEW j \in 1..Len(alts[k].accounts),
                    alts[k].accounts[j].pubkey = Placeholder
             PROVE  \E f \in flags :
                      /\ f.table = alts[k].table
                      /\ IF alts[k].resolved
                           THEN /\ f.what = "out_of_bounds"
                                /\ f.index = alts[k].accounts[j].table_index
                           ELSE f.what \in {"not_found", "rpc"}
  BY DEF PlaceholdersExplained
<1> QED BY DEF PlaceholdersExplained

LEMMA NextKeeps == ASSUME AltsInv, [Next]_vars PROVE AltsInv'
<1> USE DEF AltsInv
<1>0. Len(lookups) \in Nat /\ next \in Nat
  BY LookupFields DEF Typed
<1>1. CASE UNCHANGED vars
  <2>1. Typed'
    BY <1>1 DEF vars, chainVars, Typed, Prefix, OnChain
  <2>2. Numbered' /\ LookupsResolved'
    BY <1>0, <1>1, AltsStay DEF vars
  <2>3. PlaceholdersExplained' /\ RanOnce' /\ InnerOK'
    BY <1>1, RanStays, InnerStays, PlaceholdersStay DEF vars
  <2> QED BY <2>1, <2>2, <2>3
<1>2. ASSUME NEW t \in Tables, Grow(t) \/ Close(t)
      PROVE  AltsInv'
  <2>1. /\ lookups' = lookups /\ loaded' = loaded /\ alts' = alts /\ inner' = inner
        /\ next' = next /\ cache' = cache /\ flags' = flags
    BY <1>2 DEF Grow, Close
  <2>2. length' \in [Tables -> Nat] /\ \A u \in Tables : length'[u] <= Len(Contents[u])
    <3>1. length \in [Tables -> Nat] /\ \A u \in Tables : length[u] <= Len(Contents[u])
      BY DEF Typed
    <3>2. CASE Grow(t)
      <4>1. length' = [length EXCEPT ![t] = length[t] + 1] /\ length[t] < Len(Contents[t])
        BY <3>2 DEF Grow
      <4>2. /\ length[t] \in Nat /\ Len(Contents[t]) \in Nat
            /\ length[t] + 1 \in Nat /\ length[t] + 1 <= Len(Contents[t])
        BY <3>1, <4>1, ContentsType
      <4> QED BY <3>1, <4>1, <4>2
    <3>3. CASE Close(t)
      BY <3>1, <3>3 DEF Close
    <3> QED BY <1>2, <3>2, <3>3
  <2>3. Typed'
    BY <2>1, <2>2 DEF Typed, Prefix, OnChain
  <2>4. Numbered' /\ LookupsResolved'
    BY <1>0, <2>1, AltsStay
  <2>5. PlaceholdersExplained' /\ RanOnce' /\ InnerOK'
    BY <2>1, RanStays, InnerStays, PlaceholdersStay
  <2> QED BY <2>3, <2>4, <2>5
<1>3. CASE Annotate
  <2>1. /\ lookups' = lookups /\ loaded' = loaded /\ alts' = alts /\ length' = length
        /\ next' = next /\ cache' = cache /\ flags' = flags
    BY <1>3 DEF Annotate, chainVars
  <2>2. Typed'
    BY <2>1 DEF Typed, Prefix, OnChain
  <2>3. Numbered' /\ LookupsResolved'
    BY <1>0, <2>1, AltsStay
  <2>4. PlaceholdersExplained' /\ RanOnce'
    BY <2>1, RanStays, PlaceholdersStay
  <2>5. InnerOK'
    BY <1>3, <2>1 DEF Annotate, InnerOK, InnerAccount, LoadedKeys
  <2> QED BY <2>2, <2>3, <2>4, <2>5
<1>4. CASE UseCache
  <2>1. /\ lookups' = lookups /\ loaded' = loaded /\ length' = length /\ inner' = inner
        /\ next' = next + 1 /\ cache' = cache
        /\ Resolving /\ Current \in DOMAIN cache /\ Apply(cache[Current])
    BY <1>4 DEF UseCache, chainVars
  <2>2. Answered(cache[Current])
    BY <2>1 DEF Answered, Typed
  <2>3. /\ alts' \in Seq(AltRecord) /\ Len(alts') = Len(lookups)
        /\ Numbered' /\ LookupsResolved' /\ PlaceholdersExplained'
    BY <2>1, <2>2, AnswerKeeps
  <2>4. Typed'
    BY <1>0, <2>1, <2>3 DEF Typed, Prefix, OnChain, Resolving
  <2> QED BY <2>1, <2>3, <2>4, RanStays, InnerStays
<1>5. CASE Fetched
  <2> DEFINE addresses == OnChain(Current, length[Current])
  <2>1. /\ lookups' = lookups /\ loaded' = loaded /\ length' = length /\ inner' = inner
        /\ next' = next + 1 /\ cache' = Cached(addresses)
        /\ Resolving /\ Current \notin DOMAIN cache /\ Apply(addresses)
    BY <1>5 DEF Fetched, Ask, chainVars
  <2>2. Current \in Tables
    BY <2>1, CurrentProperties
  <2>3. Prefix(Current, addresses)
    <3>1. length[Current] \in 0..Len(Contents[Current])
      BY <2>2, ContentsType DEF Typed
    <3> QED BY <3>1 DEF Prefix
  <2> HIDE DEF addresses
  <2>4. /\ DOMAIN cache' = DOMAIN cache \cup {Current}
        /\ cache'[Current] = addresses
        /\ \A t \in DOMAIN cache : cache'[t] = cache[t]
    BY <2>1 DEF Cached
  <2>5. Answered(addresses)
    BY <2>1, <2>3, <2>4 DEF Answered
  <2>6. /\ alts' \in Seq(AltRecord) /\ Len(alts') = Len(lookups)
        /\ Numbered' /\ LookupsResolved' /\ PlaceholdersExplained'
    BY <2>1, <2>5, AnswerKeeps
  <2>7. \A t \in DOMAIN cache' : t \in Tables /\ Prefix(t, cache'[t])
    BY <2>2, <2>3, <2>4 DEF Typed
  <2>8. Typed'
    BY <1>0, <2>1, <2>6, <2>7 DEF Typed, Prefix, OnChain, Resolving
  <2> QED BY <2>1, <2>6, <2>8, RanStays, InnerStays
<1>6. CASE NotFetched
  <2>1. /\ lookups' = lookups /\ loaded' = loaded /\ length' = length /\ inner' = inner
        /\ next' = next + 1 /\ cache' = cache /\ alts' = alts /\ Resolving
    BY <1>6 DEF NotFetched, Ask, chainVars
  <2>2. PICK reason \in {"rpc", "not_found"} : flags' = flags \cup Skipped(reason)
    BY <1>6 DEF NotFetched
  <2>3. Typed'
    BY <1>0, <2>1 DEF Typed, Prefix, OnChain, Resolving
  <2>4. Numbered' /\ LookupsResolved'
    BY <1>0, <2>1, AltsStay
  <2>5. alts[next].table = Current /\ next \in 1..Len(lookups) /\ ~alts[next].resolved
    BY <2>1, CurrentProperties DEF LookupsResolved, FromCache
  <2>6. PlaceholdersExplained'
    <3> SUFFICES ASSUME NEW k \in 1..(next' - 1), NEW j \in 1..Len(alts[k].accounts),
                        alts[k].accounts[j].pubkey = Placeholder
                 PROVE  \E f \in flags' :
                          /\ f.table = alts[k].table
                          /\ IF alts[k].resolved
                               THEN f.what = "out_of_bounds"
                                    /\ f.index = alts[k].accounts[j].table_index
                               ELSE f.what \in {"not_found", "rpc"}
      BY <2>1 DEF PlaceholdersExplained
    <3>1. CASE k # next
      <4>1. k \in 1..(next - 1)
        BY <1>0, <2>1, <3>1
      <4>2. PICK f \in flags :
              /\ f.table = alts[k].table
              /\ IF alts[k].resolved
                   THEN f.what = "out_of_bounds" /\ f.index = alts[k].accounts[j].table_index
                   ELSE f.what \in {"not_found", "rpc"}
        BY <4>1 DEF PlaceholdersExplained
      <4> QED BY <2>2, <4>2
    <3>2. CASE k = next
      <4> DEFINE f == [what |-> reason, table |-> Current, index |-> 0]
      <4>1. f \in flags' /\ f.table = alts[k].table /\ f.what \in {"not_found", "rpc"}
        BY <2>2, <2>5, <3>2 DEF Skipped
      <4> HIDE DEF f
      <4> QED BY <2>5, <3>2, <4>1
    <3> QED BY <3>1, <3>2
  <2> QED BY <2>1, <2>3, <2>4, <2>6, RanStays, InnerStays
<1> QED BY <1>1, <1>2, <1>3, <1>4, <1>5, <1>6 DEF Next

\* What the decoder wrote of the tables' accounts stays what it was, a lookup
\* that is resolved has the keys of the one answer in the cache, and what
\* annotate_report added comes from the tables as they were when the transaction
\* ran: decode_versioned_tx, resolve_address_lookup_tables and annotate_report
\* keep this however the chain changes between their calls.
THEOREM AltsInvariant == Spec => []AltsInv
<1>1. Init => AltsInv
  BY InitHolds
<1>2. AltsInv /\ [Next]_vars => AltsInv'
  BY NextKeeps
<1> QED BY <1>1, <1>2, PTL DEF Spec

\* resolve_address_lookup_tables leaves a placeholder in a lookup it went over
\* only with a flag for its table that says why, for any tables and lookups.
THEOREM PlaceholdersTheorem == Spec => []PlaceholdersExplained
<1>1. AltsInv => PlaceholdersExplained
  BY DEF AltsInv
<1> QED BY <1>1, AltsInvariant, PTL

\* Lookups of one table never mix two states of it, whatever was appended to the
\* table, and whether it was closed, between the two.
THEOREM SnapshotTheorem == Spec => []OneSnapshot
<1>1. ASSUME AltsInv PROVE OneSnapshot
  <2> SUFFICES ASSUME NEW k \in 1..(next - 1), NEW m \in 1..(next - 1),
                      alts[k].table = alts[m].table, alts[k].resolved, alts[m].resolved,
                      NEW i \in 1..Len(alts[k].accounts), NEW j \in 1..Len(alts[m].accounts),
                      alts[k].accounts[i].table_index = alts[m].accounts[j].table_index
               PROVE  alts[k].accounts[i].pubkey = alts[m].accounts[j].pubkey
    BY DEF OneSnapshot
  <2>1. k \in 1..Len(lookups) /\ m \in 1..Len(lookups)
    BY <1>1, LookupFields DEF AltsInv, Typed
  <2>2. FromCache(k) /\ FromCache(m)
    BY <1>1, <2>1 DEF AltsInv, LookupsResolved
  <2> QED BY <2>2 DEF FromCache
<1>2. AltsInv => OneSnapshot
  BY <1>1
<1> QED BY <1>2, AltsInvariant, PTL

-----------------------------------------------------------------------------
(* Account numbers *)

\* Blocks without elements do not move the sum.
LEMMA SumsFlat ==
  ASSUME NEW n \in Nat, NEW size, NEW o, RunningSums(o, size, n),
         NEW k \in 0..n, NEW m \in 0..n, k <= m, \A i \in (k + 1)..m : size[i] = 0
  PROVE  o[m] = o[k]
<1> DEFINE S == {i \in 0..n : k <= i /\ i <= m => o[i] = o[k]}
<1>1. 0 \in S
  OBVIOUS
<1>2. ASSUME NEW i \in 1..n, i - 1 \in S
      PROVE  i \in S
  <2>1. CASE k < i /\ i <= m
    <3>1. i \in (k + 1)..m /\ o[i] = o[i - 1] + size[i] /\ o[i - 1] \in Nat
      BY <2>1 DEF RunningSums
    <3> QED BY <1>2, <2>1, <3>1
  <2>2. CASE ~(k < i /\ i <= m)
    BY <2>2
  <2> QED BY <2>1, <2>2
<1>3. m \in S
  <2> HIDE DEF S
  <2> QED BY <1>1, <1>2, Upward
<1> QED BY <1>3

\* What the runtime loads of one kind, and where each lookup's keys lie in it.
Lies(part, len, o) ==
  /\ RunningSums(o, [k \in 1..Len(lookups) |-> Len(lookups[k][part])], Len(lookups))
  /\ Loads(part, len) \in Seq(TableKeys)
  /\ Len(Loads(part, len)) = o[Len(lookups)]
  /\ \A k \in 1..Len(lookups) : \A j \in 1..Len(lookups[k][part]) :
       Loads(part, len)[o[k - 1] + j] = Contents[lookups[k].table][lookups[k][part][j] + 1]

Placed(part, len) == \E o : Lies(part, len, o)

LEMMA LoadsPlaces ==
  ASSUME lookups \in Seq(TableLookup), NEW part \in {"writable", "readonly"},
         NEW len \in [Tables -> Nat], \A t \in Tables : len[t] <= Len(Contents[t]),
         InBounds(len)
  PROVE  Placed(part, len)
<1> DEFINE n == Len(lookups)
           Idx(k) == lookups[k][part]
           Key(k, j) == OnChain(lookups[k].table, len[lookups[k].table])[Idx(k)[j] + 1]
           One(k) == [j \in 1..Len(Idx(k)) |-> Key(k, j)]
           ss == [k \in 1..n |-> One(k)]
<1>1. n \in Nat /\ \A k \in 1..n : lookups[k].table \in Tables
  BY LookupFields
<1>2. ASSUME NEW k \in 1..n
      PROVE  Idx(k) \in Seq(Nat) /\ Len(Idx(k)) \in Nat
  <2>1. CASE part = "writable"
    BY <2>1, LookupFields
  <2>2. CASE part = "readonly"
    BY <2>2, LookupFields
  <2> QED BY <2>1, <2>2
<1>3. ASSUME NEW k \in 1..n, NEW j \in 1..Len(Idx(k))
      PROVE  /\ Key(k, j) \in TableKeys
             /\ Key(k, j) = Contents[lookups[k].table][Idx(k)[j] + 1]
  <2> DEFINE t == lookups[k].table
             i == Idx(k)[j]
  <2>1. t \in Tables /\ len[t] \in 0..Len(Contents[t])
    BY <1>1, ContentsType
  <2>2. i \in Nat /\ i \in Range(Idx(k))
    <3>1. DOMAIN Idx(k) = 1..Len(Idx(k)) /\ Idx(k)[j] \in Nat
      BY <1>2, LenProperties, ElementOfSeq
    <3> QED BY <3>1 DEF Range
  <2>3. i \in Range(lookups[k].writable) \cup Range(lookups[k].readonly)
    BY <2>2
  <2>4. i < len[t]
    BY <2>3 DEF InBounds
  <2> HIDE DEF t, i
  <2>5. i + 1 \in 1..len[t]
    BY <2>1, <2>2, <2>4
  <2>6. /\ OnChain(t, len[t]) \in Seq(TableKeys) /\ Len(OnChain(t, len[t])) = len[t]
        /\ OnChain(t, len[t])[i + 1] = Contents[t][i + 1]
    BY <2>1, <2>5, OnChainProperties
  <2>7. OnChain(t, len[t])[i + 1] \in TableKeys
    BY <2>5, <2>6, ElementOfSeq
  <2> QED BY <2>6, <2>7 DEF t, i
<1> HIDE DEF Key, Idx
<1>4. ASSUME NEW k \in 1..n
      PROVE  One(k) \in Seq(TableKeys) /\ Len(One(k)) = Len(Idx(k))
  <2> DEFINE l == Len(Idx(k))
             one == One(k)
  <2>1. l \in Nat
    BY <1>2
  <2>2. one \in [1..l -> TableKeys]
    BY <1>3
  <2>3. DOMAIN one = 1..l
    OBVIOUS
  <2> HIDE DEF l, one
  <2>4. one \in Seq(TableKeys)
    BY <2>1, <2>2, SeqDef
  <2>5. Len(one) = l
    BY <2>1, <2>3, <2>4, LenProperties
  <2> QED BY <2>4, <2>5 DEF l, one
<1>5. \A k \in 1..n : \A j \in 1..Len(Idx(k)) : One(k)[j] = Key(k, j)
  OBVIOUS
<1> HIDE DEF One
<1>6. ss \in Seq(Seq(TableKeys)) /\ Len(ss) = n /\ \A k \in 1..n : ss[k] = One(k)
  <2>1. ss \in [1..n -> Seq(TableKeys)] /\ DOMAIN ss = 1..n
    BY <1>4
  <2>2. \A k \in 1..n : ss[k] = One(k)
    OBVIOUS
  <2> HIDE DEF ss, n
  <2>3. ss \in Seq(Seq(TableKeys))
    BY <1>1, <2>1, SeqDef
  <2>4. Len(ss) = n
    BY <1>1, <2>1, <2>3, LenProperties
  <2> QED BY <2>2, <2>3, <2>4
<1>7. Loads(part, len) = FlattenSeq(ss)
  BY DEF Loads, One, Key, Idx
<1> HIDE DEF ss
<1>8a. FlattenSeq(ss) \in Seq(TableKeys) /\ Joins(FlattenSeq(ss), ss)
  <2>1. ss \in Seq(Seq(TableKeys))
    BY <1>6
  <2> QED BY <2>1, FlattenPlaces
<1>8. PICK o : /\ RunningSums(o, [k \in 1..Len(ss) |-> Len(ss[k])], Len(ss))
               /\ Len(FlattenSeq(ss)) = o[Len(ss)]
               /\ \A k \in 1..Len(ss) : \A j \in 1..Len(ss[k]) :
                    FlattenSeq(ss)[o[k - 1] + j] = ss[k][j]
  BY <1>8a, Zenon DEF Joins
<1>9. \A k \in 1..n : Len(ss[k]) = Len(Idx(k))
  BY <1>4, <1>6
<1>10. [k \in 1..Len(ss) |-> Len(ss[k])] = [k \in 1..n |-> Len(Idx(k))]
  BY <1>6, <1>9
<1>11. ASSUME NEW k \in 1..n, NEW j \in 1..Len(Idx(k))
       PROVE  FlattenSeq(ss)[o[k - 1] + j] = Contents[lookups[k].table][Idx(k)[j] + 1]
  <2>1. k \in 1..Len(ss) /\ j \in 1..Len(ss[k])
    BY <1>6, <1>9
  <2>2. FlattenSeq(ss)[o[k - 1] + j] = ss[k][j]
    BY <1>8, <2>1
  <2>3. ss[k][j] = Key(k, j)
    BY <1>5, <1>6
  <2> QED BY <1>3, <2>2, <2>3
<1>12. Lies(part, len, o)
  <2>1. /\ RunningSums(o, [k \in 1..n |-> Len(Idx(k))], n)
        /\ Loads(part, len) \in Seq(TableKeys)
        /\ Len(Loads(part, len)) = o[n]
        /\ \A k \in 1..n : \A j \in 1..Len(Idx(k)) :
             Loads(part, len)[o[k - 1] + j] = Contents[lookups[k].table][Idx(k)[j] + 1]
    <3>1. RunningSums(o, [k \in 1..n |-> Len(Idx(k))], n)
      BY <1>6, <1>8, <1>10
    <3>2. Loads(part, len) \in Seq(TableKeys) /\ Len(Loads(part, len)) = o[n]
      BY <1>6, <1>7, <1>8a, <1>8
    <3> QED BY <1>7, <1>11, <3>1, <3>2
  <2> QED BY <2>1 DEF Lies, Idx
<1> QED BY <1>12 DEF Placed

\* Numbers that fit an index are not wrapped.
LEMMA IndexUnwrapped ==
  ASSUME lookups \in Seq(TableLookup), Numberable,
         NEW k \in 1..Len(lookups), NEW j \in 1..Size(lookups[k])
  PROVE  /\ Before(k) \in Nat /\ Before(Len(lookups) + 1) \in Nat
         /\ GlobalIndex(k, j) = StaticLen + Before(k) + j - 1
         /\ Before(k) + j <= Before(Len(lookups) + 1)
<1> DEFINE n == Len(lookups)
<1>1. n \in Nat /\ \A l \in 1..n : Size(lookups[l]) \in Nat
  BY LookupFields
<1>2. PICK b : /\ RunningSums(b, Sizes(n), n)
               /\ \A m \in 1..(n + 1) : Before(m) = b[m - 1]
  BY BeforeSums
<1>3. Sizes(n) \in [1..n -> Nat]
  BY <1>1 DEF Sizes
<1>4. Before(k) = b[k - 1] /\ Before(n + 1) = b[n]
  <2>1. k \in 1..(n + 1) /\ n + 1 \in 1..(n + 1) /\ (n + 1) - 1 = n
    BY <1>1
  <2> QED BY <1>2, <2>1
<1>5. k - 1 \in 0..n /\ k \in 0..n /\ n \in 0..n /\ k <= n
  BY <1>1
<1>6. b[k - 1] \in Nat /\ b[k] \in Nat /\ b[n] \in Nat /\ b[k] = b[k - 1] + Size(lookups[k])
  BY <1>2, <1>5 DEF RunningSums, Sizes
<1>7. b[k] <= b[n]
  <2> HIDE DEF n
  <2> QED BY <1>1, <1>2, <1>3, <1>5, SumsGrow
<1>8. b[k - 1] + j <= b[n] /\ j \in Nat /\ j >= 1
  BY <1>1, <1>6, <1>7
<1> DEFINE i == StaticLen + b[k - 1] + j - 1
<1>9. i \in Nat /\ i < IndexRange
  <2> DEFINE x == b[k - 1]
             y == b[n]
  <2>1. StaticLen + y <= IndexRange
    BY <1>4 DEF Numberable
  <2>2. x \in Nat /\ y \in Nat /\ x + j <= y /\ i = StaticLen + x + j - 1
    BY <1>6, <1>8
  <2> HIDE DEF x, y, i
  <2> QED BY <1>8, <2>1, <2>2, IndexAssumption
<1>10. GlobalIndex(k, j) = i % IndexRange
  BY <1>4 DEF GlobalIndex
<1> HIDE DEF i
<1>11. GlobalIndex(k, j) = i
  BY <1>9, <1>10, ModType
<1> QED BY <1>4, <1>6, <1>8, <1>11 DEF i

LEMMA TilesLemma == ASSUME AltsInv PROVE IndexesTile
<1> DEFINE N == Len(lookups)
           n == Before(N + 1)
<1>1. SUFFICES ASSUME StaticLen + n <= IndexRange, NEW i \in StaticLen..(StaticLen + n - 1)
               PROVE  Cardinality({p \in (1..Len(alts)) \X (1..n) :
                         /\ p[2] <= Len(alts[p[1]].accounts)
                         /\ alts[p[1]].accounts[p[2]].index_in_tx = i}) = 1
  BY DEF IndexesTile
<1>2. lookups \in Seq(TableLookup) /\ Len(alts) = N /\ Numbered /\ N \in Nat
  BY LookupFields DEF AltsInv, Typed
<1>3. Numberable
  BY <1>1 DEF Numberable
<1>4. PICK b : /\ RunningSums(b, Sizes(N), N)
               /\ \A m \in 1..(N + 1) : Before(m) = b[m - 1]
  BY <1>2, BeforeSums
<1>5. Sizes(N) \in [1..N -> Nat] /\ \A k \in 1..N : Sizes(N)[k] = Size(lookups[k])
  BY <1>2, LookupFields DEF Sizes
<1>6. n = b[N] /\ n \in Nat /\ \A k \in 1..N : Before(k) = b[k - 1] /\ Before(k) \in Nat
  <2>1. N + 1 \in 1..(N + 1) /\ (N + 1) - 1 = N /\ \A k \in 1..N : k \in 1..(N + 1)
    BY <1>2
  <2> QED BY <1>2, <1>4, <2>1, BeforeType
<1>7. \A k \in 1..N : \A j \in 1..Size(lookups[k]) :
        GlobalIndex(k, j) = StaticLen + b[k - 1] + j - 1 /\ b[k - 1] + j <= n
  BY <1>2, <1>3, <1>6, IndexUnwrapped
<1> HIDE DEF n, N
<1>8. i - StaticLen \in Nat /\ i - StaticLen < b[N]
  BY <1>1, <1>6, IndexAssumption
<1>9. PICK k \in 1..N : \E j \in 1..Sizes(N)[k] :
        /\ i - StaticLen = b[k - 1] + j - 1
        /\ \A l \in 1..N : \A m \in 1..Sizes(N)[l] :
             i - StaticLen = b[l - 1] + m - 1 => l = k /\ m = j
  <2> DEFINE d == i - StaticLen
             size == Sizes(N)
  <2>1. N \in Nat /\ size \in [1..N -> Nat] /\ RunningSums(b, size, N) /\ d \in Nat /\ d < b[N]
    BY <1>2, <1>4, <1>5, <1>8
  <2> HIDE DEF d, size
  <2>2. TileAt(b, size, N, d)
    BY <2>1, SumsTile
  <2> QED BY <2>2, Zenon DEF d, size, TileAt
<1>10. PICK j \in 1..Sizes(N)[k] :
        /\ i - StaticLen = b[k - 1] + j - 1
        /\ \A l \in 1..N : \A m \in 1..Sizes(N)[l] :
             i - StaticLen = b[l - 1] + m - 1 => l = k /\ m = j
  BY <1>9
<1> DEFINE P == {p \in (1..Len(alts)) \X (1..n) :
                   /\ p[2] <= Len(alts[p[1]].accounts)
                   /\ alts[p[1]].accounts[p[2]].index_in_tx = i}
<1>11. <<k, j>> \in P
  <2>1. j \in 1..Size(lookups[k]) /\ Size(lookups[k]) \in Nat /\ b[k - 1] \in Nat
    BY <1>2, <1>5, <1>6, LookupFields DEF N
  <2>2. GlobalIndex(k, j) = i /\ j \in 1..n
    <3>1. GlobalIndex(k, j) = StaticLen + b[k - 1] + j - 1 /\ b[k - 1] + j <= n
      BY <1>7, <2>1
    <3> QED BY <1>6, <1>8, <1>10, <2>1, <3>1, IndexAssumption
  <2>3. Len(alts[k].accounts) = Size(lookups[k]) /\ alts[k].accounts[j].index_in_tx = i
    BY <1>2, <2>1, <2>2 DEF Numbered, N
  <2> QED BY <1>2, <2>1, <2>2, <2>3
<1>12. ASSUME NEW p \in P
       PROVE  p = <<k, j>>
  <2>1. /\ p \in (1..N) \X (1..n) /\ p[1] \in 1..N /\ p[2] \in 1..n
        /\ p[2] <= Len(alts[p[1]].accounts)
        /\ alts[p[1]].accounts[p[2]].index_in_tx = i
        /\ p = <<p[1], p[2]>>
    BY <1>2
  <2> DEFINE l == p[1]
             m == p[2]
  <2> HIDE DEF P, l, m
  <2>2. /\ l \in 1..N /\ m \in 1..n /\ m <= Len(alts[l].accounts) /\ p = <<l, m>>
        /\ alts[l].accounts[m].index_in_tx = i
    BY <2>1 DEF l, m
  <2>3. Len(alts[l].accounts) = Size(lookups[l]) /\ Size(lookups[l]) \in Nat
    BY <1>2, <2>2, LookupFields DEF Numbered, N
  <2>4. m \in 1..Size(lookups[l])
    BY <1>6, <2>2, <2>3
  <2>5. GlobalIndex(l, m) = i
    BY <1>2, <2>2, <2>4 DEF Numbered, N
  <2>6. i - StaticLen = b[l - 1] + m - 1
    <3>1. b[l - 1] \in Nat /\ GlobalIndex(l, m) = StaticLen + b[l - 1] + m - 1
      BY <1>6, <1>7, <2>2, <2>4
    <3> QED BY <2>4, <2>5, <3>1, IndexAssumption
  <2> QED BY <1>5, <1>10, <2>2, <2>4, <2>6
<1>13. P = {<<k, j>>}
  <2> HIDE DEF P
  <2> QED BY <1>11, <1>12
<1>14. Cardinality(P) = 1
  BY <1>13, FS_Singleton
<1> QED BY <1>14

\* Of two kinds of keys, o holds the sums of one and p of the other; together
\* they are the sums of the lookups.
LEMMA SumsAdd ==
  ASSUME lookups \in Seq(TableLookup), NEW o, NEW p, NEW b,
         RunningSums(o, [k \in 1..Len(lookups) |-> Len(lookups[k].writable)], Len(lookups)),
         RunningSums(p, [k \in 1..Len(lookups) |-> Len(lookups[k].readonly)], Len(lookups)),
         RunningSums(b, Sizes(Len(lookups)), Len(lookups))
  PROVE  \A k \in 0..Len(lookups) : b[k] = o[k] + p[k]
<1> DEFINE n == Len(lookups)
           W(k) == Len(lookups[k].writable)
           R(k) == Len(lookups[k].readonly)
           d == [k \in 0..n |-> o[k] + p[k]]
<1>1. n \in Nat /\ \A k \in 1..n : W(k) \in Nat /\ R(k) \in Nat /\ Sizes(n)[k] = W(k) + R(k)
  BY LookupFields DEF Sizes, Size
<1>2. /\ \A k \in 0..n : o[k] \in Nat /\ p[k] \in Nat
      /\ o[0] = 0 /\ p[0] = 0
      /\ \A k \in 1..n : o[k] = o[k - 1] + W(k) /\ p[k] = p[k - 1] + R(k)
  BY DEF RunningSums
<1> HIDE DEF W, R, n
<1>3. \A k \in 1..n : k \in 0..n /\ k - 1 \in 0..n
  BY <1>1
<1>4. d \in [0..n -> Nat] /\ d[0] = 0
  <2>1. 0 \in 0..n
    BY <1>1
  <2>2. \A k \in 0..n : o[k] + p[k] \in Nat
    BY <1>2
  <2>3. d[0] = o[0] + p[0]
    BY <2>1
  <2>4. o[0] + p[0] = 0
    BY <1>2
  <2> QED BY <2>2, <2>3, <2>4
<1>5. \A k \in 1..n : d[k] = d[k - 1] + Sizes(n)[k]
  <2> TAKE k \in 1..n
  <2>1. d[k] = o[k] + p[k] /\ d[k - 1] = o[k - 1] + p[k - 1]
    BY <1>3
  <2> HIDE DEF d
  <2> QED BY <1>1, <1>2, <1>3, <2>1
<1>6. \A k \in 0..n : d[k] = o[k] + p[k]
  OBVIOUS
<1> HIDE DEF d
<1>7. RunningSums(d, Sizes(n), n)
  BY <1>4, <1>5 DEF RunningSums
<1>8. RunningSums(b, Sizes(n), n)
  BY DEF n
<1>9. \A k \in 0..n : b[k] = d[k]
  BY <1>1, <1>7, <1>8, SumsOnce
<1> QED BY <1>6, <1>9 DEF n

\* No lookup with readonly indexes precedes one with writable indexes.
NotSplit ==
  \A k, m \in 1..Len(lookups) :
    k < m => lookups[k].readonly = <<>> \/ lookups[m].writable = <<>>

\* The runtime's place of the j-th account of the k-th lookup.
LEMMA LoadedPlace ==
  ASSUME lookups \in Seq(TableLookup), NotSplit,
         NEW len \in [Tables -> Nat], \A t \in Tables : len[t] <= Len(Contents[t]),
         InBounds(len), loaded = LoadedAt(len),
         NEW k \in 1..Len(lookups), NEW j \in 1..Size(lookups[k])
  PROVE  /\ Before(k) + j \in 1..Len(LoadedKeys) /\ Len(LoadedKeys) \in Nat
         /\ LoadedKeys[Before(k) + j] = Contents[lookups[k].table][IndexAt(lookups[k], j) + 1]
         /\ Before(k) + j <= Len(loaded.writable) <=> j <= Len(lookups[k].writable)
<1> DEFINE n == Len(lookups)
           W(i) == Len(lookups[i].writable)
           R(i) == Len(lookups[i].readonly)
           lw == Loads("writable", len)
           lr == Loads("readonly", len)
<1>1. /\ n \in Nat
      /\ \A i \in 1..n : /\ W(i) \in Nat /\ R(i) \in Nat /\ Size(lookups[i]) = W(i) + R(i)
                         /\ lookups[i].writable \in Seq(Nat) /\ lookups[i].readonly \in Seq(Nat)
  BY LookupFields DEF Size
<1>2. PICK o : /\ RunningSums(o, [i \in 1..n |-> W(i)], n)
               /\ lw \in Seq(TableKeys) /\ Len(lw) = o[n]
               /\ \A i \in 1..n : \A h \in 1..W(i) :
                    lw[o[i - 1] + h] = Contents[lookups[i].table][lookups[i].writable[h] + 1]
  <2>1. Placed("writable", len)
    <3>1. "writable" \in {"writable", "readonly"}
      OBVIOUS
    <3> QED BY <3>1, LoadsPlaces
  <2>2. PICK s : Lies("writable", len, s)
    BY <2>1 DEF Placed
  <2>3. RunningSums(s, [i \in 1..n |-> W(i)], n)
    BY <2>2 DEF Lies
  <2>4. lw \in Seq(TableKeys) /\ Len(lw) = s[n]
    BY <2>2 DEF Lies
  <2>5. \A i \in 1..n : \A h \in 1..W(i) :
          lw[s[i - 1] + h] = Contents[lookups[i].table][lookups[i].writable[h] + 1]
    BY <2>2 DEF Lies
  <2> DEFINE Fits(o) ==
               /\ RunningSums(o, [i \in 1..n |-> W(i)], n)
               /\ lw \in Seq(TableKeys) /\ Len(lw) = o[n]
               /\ \A i \in 1..n : \A h \in 1..W(i) :
                    lw[o[i - 1] + h] = Contents[lookups[i].table][lookups[i].writable[h] + 1]
  <2>6. Fits(s)
    BY <2>3, <2>4, <2>5
  <2>7. \E o : Fits(o)
    <3> HIDE DEF Fits
    <3> QED BY <2>6
  <2> QED BY <2>7, Zenon
<1>3. PICK p : /\ RunningSums(p, [i \in 1..n |-> R(i)], n)
               /\ lr \in Seq(TableKeys) /\ Len(lr) = p[n]
               /\ \A i \in 1..n : \A h \in 1..R(i) :
                    lr[p[i - 1] + h] = Contents[lookups[i].table][lookups[i].readonly[h] + 1]
  <2>1. Placed("readonly", len)
    <3>1. "readonly" \in {"writable", "readonly"}
      OBVIOUS
    <3> QED BY <3>1, LoadsPlaces
  <2>2. PICK s : Lies("readonly", len, s)
    BY <2>1 DEF Placed
  <2>3. RunningSums(s, [i \in 1..n |-> R(i)], n)
    BY <2>2 DEF Lies
  <2>4. lr \in Seq(TableKeys) /\ Len(lr) = s[n]
    BY <2>2 DEF Lies
  <2>5. \A i \in 1..n : \A h \in 1..R(i) :
          lr[s[i - 1] + h] = Contents[lookups[i].table][lookups[i].readonly[h] + 1]
    BY <2>2 DEF Lies
  <2> DEFINE Fits(p) ==
               /\ RunningSums(p, [i \in 1..n |-> R(i)], n)
               /\ lr \in Seq(TableKeys) /\ Len(lr) = p[n]
               /\ \A i \in 1..n : \A h \in 1..R(i) :
                    lr[p[i - 1] + h] = Contents[lookups[i].table][lookups[i].readonly[h] + 1]
  <2>6. Fits(s)
    BY <2>3, <2>4, <2>5
  <2>7. \E p : Fits(p)
    <3> HIDE DEF Fits
    <3> QED BY <2>6
  <2> QED BY <2>7, Zenon
<1>4. PICK b : /\ RunningSums(b, Sizes(n), n)
               /\ \A m \in 1..(n + 1) : Before(m) = b[m - 1]
  BY BeforeSums
<1>5. \A i \in 0..n : b[i] = o[i] + p[i]
  <2>1. /\ RunningSums(o, [i \in 1..Len(lookups) |-> Len(lookups[i].writable)], Len(lookups))
        /\ RunningSums(p, [i \in 1..Len(lookups) |-> Len(lookups[i].readonly)], Len(lookups))
        /\ RunningSums(b, Sizes(Len(lookups)), Len(lookups))
    BY <1>2, <1>3, <1>4
  <2>2. \A i \in 0..Len(lookups) : b[i] = o[i] + p[i]
    BY <2>1, SumsAdd, ZenonT(30)
  <2> QED BY <2>2
<1>6. /\ \A i \in 0..n : o[i] \in Nat /\ p[i] \in Nat
      /\ \A i \in 1..n : o[i] = o[i - 1] + W(i) /\ p[i] = p[i - 1] + R(i)
      /\ o[0] = 0 /\ p[0] = 0
  BY <1>2, <1>3 DEF RunningSums
<1>7. /\ loaded.writable = lw /\ LoadedKeys = lw \o lr
  BY DEF LoadedAt, LoadedKeys
<1>8. /\ LoadedKeys \in Seq(TableKeys) /\ Len(LoadedKeys) = o[n] + p[n]
      /\ \A i \in 1..(o[n] + p[n]) :
           LoadedKeys[i] = IF i <= o[n] THEN lw[i] ELSE lr[i - o[n]]
  <2> DEFINE l == o[n]
             r == p[n]
             all == LoadedKeys
  <2>1. /\ lw \in Seq(TableKeys) /\ lr \in Seq(TableKeys)
        /\ Len(lw) = l /\ Len(lr) = r /\ all = lw \o lr
    BY <1>2, <1>3, <1>7
  <2> HIDE DEF lw, lr, l, r, all
  <2>2. /\ all \in Seq(TableKeys) /\ Len(all) = l + r
        /\ \A i \in 1..(l + r) : all[i] = IF i <= l THEN lw[i] ELSE lr[i - l]
    BY <2>1, ConcatProperties, SMTT(30)
  <2> QED BY <2>2 DEF l, r, all
<1>9. /\ k - 1 \in 0..n /\ k \in 0..n /\ n \in 0..n /\ k <= n /\ 0 \in 0..n /\ k \in 1..(n + 1)
      /\ k \in 1..n
  BY <1>1
<1>10. o[k] <= o[n] /\ p[k] <= p[n]
  <2> DEFINE sw == [i \in 1..n |-> W(i)]
             sr == [i \in 1..n |-> R(i)]
  <2>1. sw \in [1..n -> Nat] /\ sr \in [1..n -> Nat]
    BY <1>1
  <2>2. RunningSums(o, sw, n) /\ RunningSums(p, sr, n)
    BY <1>2, <1>3
  <2> HIDE DEF sw, sr, n, W, R
  <2> QED BY <1>1, <1>9, <2>1, <2>2, SumsGrow
<1>11. Before(k) = o[k - 1] + p[k - 1]
  BY <1>4, <1>5, <1>9
<1> HIDE DEF n, W, R, lw, lr
<1>12. o[n] + p[n] \in Nat /\ o[n] \in Nat /\ p[n] \in Nat
  BY <1>6, <1>9
<1> DEFINE x == o[k - 1]
           y == p[k - 1]
           w == W(k)
           r == R(k)
           ox == o[n]
           py == p[n]
<1>15. /\ x \in Nat /\ y \in Nat /\ w \in Nat /\ r \in Nat /\ ox \in Nat /\ py \in Nat
       /\ x + w <= ox /\ y + r <= py /\ Before(k) = x + y
       /\ j \in 1..(w + r) /\ o[k] = x + w
  <2>1. o[k] = x + w /\ p[k] = y + r /\ Size(lookups[k]) = w + r
    BY <1>1, <1>6, <1>9
  <2> QED BY <1>1, <1>6, <1>9, <1>10, <1>11, <2>1
<1>13. CASE j <= W(k)
  <2>1. \A i \in 1..(k - 1) : R(i) = 0
    <3> TAKE i \in 1..(k - 1)
    <3>1. i \in 1..n /\ i < k
      BY <1>1, <1>9
    <3>2. lookups[k].writable # <<>>
      <4>1. W(k) # 0
        BY <1>1, <1>9, <1>13
      <4> QED BY <4>1 DEF W
    <3>3. lookups[i].readonly = <<>>
      BY <1>9, <3>1, <3>2 DEF NotSplit, n
    <3> QED BY <3>3 DEF R
  <2>2. p[k - 1] = 0
    <3> DEFINE sr == [i \in 1..n |-> R(i)]
    <3>1. RunningSums(p, sr, n) /\ \A i \in (0 + 1)..(k - 1) : sr[i] = 0
      BY <1>1, <1>3, <1>9, <2>1
    <3> HIDE DEF sr
    <3>2. 0 <= k - 1
      BY <1>9
    <3>3. p[k - 1] = p[0]
      BY <1>1, <1>9, <3>1, <3>2, SumsFlat
    <3> QED BY <1>6, <3>3
  <2>3. Before(k) + j = o[k - 1] + j /\ o[k - 1] + j \in 1..o[n] /\ j \in 1..W(k)
    <3>1. y = 0 /\ j <= w
      BY <1>13, <2>2
    <3> HIDE DEF x, y, w, r, ox
    <3>2. Before(k) + j = x + j /\ x + j \in 1..ox /\ j \in 1..w
      BY <1>15, <3>1
    <3> QED BY <3>2 DEF x, w, ox
  <2>4. LoadedKeys[o[k - 1] + j] = lw[o[k - 1] + j]
    BY <1>8, <1>12, <2>3
  <2>5. lw[o[k - 1] + j] = Contents[lookups[k].table][lookups[k].writable[j] + 1]
    BY <1>2, <1>9, <2>3
  <2>6. IndexAt(lookups[k], j) = lookups[k].writable[j]
    BY <1>13 DEF IndexAt, W
  <2>7. Before(k) + j \in 1..(o[n] + p[n]) /\ Before(k) + j <= o[n]
    BY <1>12, <2>3
  <2> QED BY <1>2, <1>7, <1>8, <1>12, <1>13, <2>3, <2>4, <2>5, <2>6, <2>7 DEF W
<1>14. CASE ~(j <= W(k))
  <2> DEFINE h == j - W(k)
  <2>1. h \in 1..R(k) /\ j = W(k) + h
    <3>1. ~(j <= w) /\ h = j - w
      BY <1>14
    <3> HIDE DEF h, w, r, x, y, ox, py
    <3>2. h \in 1..r /\ j = w + h
      BY <1>15, <3>1
    <3> QED BY <3>2 DEF r, w
  <2> HIDE DEF h
  <2>2. \A i \in (k + 1)..n : W(i) = 0
    <3> TAKE i \in (k + 1)..n
    <3>1. i \in 1..n /\ k < i
      BY <1>1, <1>9
    <3>2. lookups[k].readonly # <<>>
      <4>1. R(k) # 0
        BY <1>1, <1>9, <2>1
      <4> QED BY <4>1 DEF R
    <3>3. lookups[i].writable = <<>>
      BY <1>9, <3>1, <3>2 DEF NotSplit, n
    <3> QED BY <3>3 DEF W
  <2>3. o[n] = o[k]
    <3> DEFINE sw == [i \in 1..n |-> W(i)]
    <3>1. RunningSums(o, sw, n) /\ \A i \in (k + 1)..n : sw[i] = 0
      BY <1>1, <1>2, <1>9, <2>2
    <3> HIDE DEF sw
    <3> QED BY <1>1, <1>9, <3>1, SumsFlat
  <2>4. Before(k) + j = o[n] + (p[k - 1] + h)
    <3>1. ox = x + w /\ j = w + h /\ h \in 1..r
      BY <1>15, <2>1, <2>3
    <3> HIDE DEF x, y, w, r, ox, py
    <3>2. Before(k) + j = ox + (y + h)
      BY <1>15, <3>1
    <3> QED BY <3>2 DEF ox, y
  <2>5. p[k - 1] + h \in 1..p[n]
    <3>1. h \in 1..r
      BY <2>1
    <3> HIDE DEF x, y, w, r, ox, py
    <3>2. y + h \in 1..py
      BY <1>15, <3>1
    <3> QED BY <3>2 DEF y, py
  <2> DEFINE z == y + h
             i == Before(k) + j
             all == Len(LoadedKeys)
             l == Len(loaded.writable)
  <2>6. i = ox + z /\ z \in 1..py /\ all = ox + py /\ l = ox
    BY <1>2, <1>7, <1>8, <2>4, <2>5
  <2>7. \A m \in 1..(ox + py) : LoadedKeys[m] = IF m <= ox THEN lw[m] ELSE lr[m - ox]
    BY <1>8
  <2>8. lr[p[k - 1] + h] = Contents[lookups[k].table][lookups[k].readonly[h] + 1]
    BY <1>3, <1>9, <2>1
  <2>9. IndexAt(lookups[k], j) = lookups[k].readonly[h]
    BY <1>14 DEF IndexAt, W, h
  <2>10. LoadedKeys[i] = lr[z] /\ i \in 1..all /\ all \in Nat /\ ~(i <= l)
    <3> HIDE DEF x, y, w, r, ox, py, z, i, all, l
    <3>1. i \in 1..(ox + py) /\ ~(i <= ox) /\ i - ox = z
      BY <1>15, <2>6
    <3> QED BY <1>15, <2>6, <2>7, <3>1
  <2> QED BY <1>14, <2>8, <2>9, <2>10 DEF W
<1> QED BY <1>13, <1>14

LEMMA ShiftedBelow ==
  ASSUME NEW s \in Nat, NEW b \in Nat, NEW j \in Nat, NEW l \in Nat
  PROVE  s + b + j - 1 < s + l <=> b + j <= l
OBVIOUS

LEMMA AgreesLemma == ASSUME AltsInv PROVE AgreesUnlessSplit
<1> USE DEF AltsInv
<1>1. SUFFICES ASSUME NotSplit, NEW k \in 1..Len(alts), NEW a \in Range(alts[k].accounts),
                      a.index_in_tx \in DOMAIN inner, a.pubkey # Placeholder
               PROVE  /\ inner[a.index_in_tx].pubkey = a.pubkey
                      /\ inner[a.index_in_tx].is_writable = a.is_writable
  BY DEF AgreesUnlessSplit, NotSplit, TableAccounts
<1>2. /\ lookups \in Seq(TableLookup) /\ Len(lookups) \in Nat /\ k \in 1..Len(lookups)
      /\ lookups[k].table \in Tables /\ alts[k].table = lookups[k].table
      /\ alts[k] \in AltRecord
  BY LookupFields, ElementOfSeq DEF Typed, Numbered
<1>3. PICK j \in 1..Len(alts[k].accounts) : a = alts[k].accounts[j]
  <2>1. alts[k].accounts \in Seq(Account)
    BY <1>2 DEF AltRecord
  <2> QED BY <2>1, LenProperties DEF Range
<1>4. /\ j \in 1..Size(lookups[k]) /\ Len(alts[k].accounts) = Size(lookups[k])
      /\ a.index_in_tx = GlobalIndex(k, j)
      /\ a.is_writable = (j <= Len(lookups[k].writable))
      /\ a.table_index = IndexAt(lookups[k], j)
      /\ IndexAt(lookups[k], j) \in Nat
  <2>1. lookups[k] \in TableLookup
    BY <1>2, LookupFields
  <2> QED BY <1>2, <1>3, <2>1, OrderProperties DEF Numbered
<1>5. alts[k].resolved
  BY <1>1, <1>2, <1>3 DEF LookupsResolved, NotYet
<1>6. a.pubkey = Contents[lookups[k].table][a.table_index + 1]
  <2> DEFINE t == lookups[k].table
  <2>1. t \in DOMAIN cache /\ a.pubkey = KeyAt(cache[t], a.table_index)
    BY <1>2, <1>3, <1>5 DEF LookupsResolved, FromCache
  <2>2. t \in Tables /\ Prefix(t, cache[t])
    BY <2>1 DEF Typed
  <2>3. a.table_index \in Nat
    BY <1>4
  <2> HIDE DEF t
  <2>4. a.table_index < Len(cache[t])
    BY <1>1, <2>1 DEF KeyAt
  <2>5. cache[t][a.table_index + 1] = Contents[t][a.table_index + 1]
    BY <2>2, <2>3, <2>4, PrefixProperties
  <2> QED BY <2>1, <2>4, <2>5 DEF KeyAt, t
<1>7. /\ loaded.ran
      /\ inner = [idx \in StaticLen..(StaticLen + Len(LoadedKeys)) |-> InnerAccount(idx)]
  BY <1>1 DEF InnerOK
<1>8. PICK len \in [Tables -> Nat] :
        /\ \A t \in Tables : len[t] <= Len(Contents[t])
        /\ InBounds(len) /\ Numberable /\ loaded = LoadedAt(len)
  BY <1>7 DEF RanOnce, NotRun
<1>9. /\ Before(k) \in Nat /\ GlobalIndex(k, j) = StaticLen + Before(k) + j - 1
  BY <1>2, <1>4, <1>8, IndexUnwrapped
<1>10. /\ Before(k) + j \in 1..Len(LoadedKeys) /\ Len(LoadedKeys) \in Nat
       /\ LoadedKeys[Before(k) + j] = Contents[lookups[k].table][IndexAt(lookups[k], j) + 1]
       /\ Before(k) + j <= Len(loaded.writable) <=> j <= Len(lookups[k].writable)
  BY <1>1, <1>2, <1>4, <1>8, LoadedPlace
<1> DEFINE idx == a.index_in_tx
<1>11. /\ idx = StaticLen + Before(k) + j - 1 /\ j \in Nat
       /\ idx < StaticLen + Len(LoadedKeys) /\ idx - StaticLen + 1 = Before(k) + j
  <2>1. Size(lookups[k]) \in Nat
    BY <1>2, LookupFields
  <2>2. j \in Nat /\ idx = StaticLen + Before(k) + j - 1
    BY <1>4, <1>9, <2>1
  <2> HIDE DEF idx
  <2> QED BY <1>9, <1>10, <2>2, IndexAssumption
<1>12. inner[idx] = InnerAccount(idx)
  BY <1>1, <1>7
<1>13. inner[idx].pubkey = a.pubkey
  <2>1. InnerAccount(idx).pubkey = LoadedKeys[Before(k) + j]
    BY <1>11 DEF InnerAccount
  <2> QED BY <1>4, <1>6, <1>10, <1>12, <2>1
<1>14. inner[idx].is_writable = a.is_writable
  <2>1. Len(loaded.writable) \in Nat
    <3>1. loaded.writable = Loads("writable", len)
      BY <1>8 DEF LoadedAt
    <3>2. Loads("writable", len) \in Seq(TableKeys)
      <4>1. Placed("writable", len)
        BY <1>2, <1>8, LoadsPlaces
      <4> QED BY <4>1, Zenon DEF Placed, Lies
    <3> QED BY <3>1, <3>2, LenProperties
  <2> DEFINE l == Len(loaded.writable)
             b == idx < StaticLen + l
             c == j <= Len(lookups[k].writable)
  <2>2. b <=> c
    <3>1. b <=> Before(k) + j <= l
      <4>1. l \in Nat /\ StaticLen \in Nat /\ Before(k) \in Nat /\ j \in Nat
        BY <1>9, <1>11, <2>1, IndexAssumption
      <4>2. idx = StaticLen + Before(k) + j - 1
        BY <1>11
      <4> HIDE DEF l, idx
      <4> QED BY <4>1, <4>2, ShiftedBelow
    <3> QED BY <1>10, <3>1
  <2>3. InnerAccount(idx).is_writable = b
    BY DEF InnerAccount
  <2>4. b \in BOOLEAN /\ c \in BOOLEAN
    OBVIOUS
  <2> HIDE DEF b, c
  <2>5. b = c
    BY <2>2, <2>4
  <2> QED BY <1>4, <1>12, <2>3, <2>5 DEF c
<1> QED BY <1>13, <1>14

\* The numbers decode_versioned_tx gives the tables' accounts go on from the static
\* keys without a gap or a repetition, and name for the table dashboard the account
\* annotate_report finds under them, unless the lookups are split: for any number
\* of tables, lookups and indexes.
THEOREM NumberedTheorem == Spec => []AccountsNumbered
<1>1. AltsInv => AccountsNumbered
  BY TilesLemma, AgreesLemma DEF AccountsNumbered
<1> QED BY <1>1, AltsInvariant, PTL

-----------------------------------------------------------------------------
(* The audit of one input *)

\* What each phase leaves: the report is the decoder's, the flags are those of the stages
\* passed, and nothing was refused that could be read.
Given == \E family \in DOMAIN Inputs : input \in Inputs[family]

Reported ==
  input.call = "main" /\ phase \in {"validate", "verify", "compare"} =>
    report = decode_versioned_tx(tx, input.schema)

FlagsOK ==
  input.call = "main" =>
    /\ phase = "verify" => risk_flags = validate(report, input.schema)
    /\ phase = "compare" =>
         risk_flags = validate(report, input.schema)
                        \cup verify_report(verify_transaction(tx), report.fee_payer)

RefusedOK ==
  input.call = "main" /\ phase # "read" => (phase = "failed" <=> ~Readable(input.given))

AuditInv == Given /\ Reported /\ FlagsOK /\ RefusedOK

LEMMA InputMeans ==
  ASSUME Given
  PROVE  /\ input.call \in {"main", "library"} /\ Compiled(tx)
         /\ input.call = "main" => Grouped(tx, input.groups) /\ Spelled(input.given)
BY InputsAssumption DEF Given, tx

GroupsAre(t, groups, a, b, c, d) ==
  /\ a = groups[1] /\ b = groups[2] /\ c = groups[3] /\ d = groups[4] /\ a >= 1
  /\ t.required = a + b /\ t.readonly_signed = b /\ t.readonly_unsigned = d
  /\ Len(t.keys) = a + b + c + d

LEMMA GroupSizes ==
  ASSUME NEW t, NEW groups, Grouped(t, groups)
  PROVE  \E a, b, c, d \in Nat : GroupsAre(t, groups, a, b, c, d)
<1>1. \A g \in 1..4 : groups[g] \in Nat
  BY ElementOfSeq DEF Grouped
<1> QED BY <1>1 DEF Grouped, GroupsAre

LEMMA AuditInitHolds == ASSUME AuditInit PROVE AuditInv
<1>1. Given
  BY DEF AuditInit, Given
<1>2. input.call = "main" => phase = "read"
  BY DEF AuditInit
<1> QED BY <1>1, <1>2 DEF AuditInv, Reported, FlagsOK, RefusedOK

LEMMA ParserKeepsReport == ASSUME ParserNext PROVE raw' = raw /\ report' = report
BY DEF ParserNext, Start, Error, Fail, GiveUp, Signatures, Header, Keys, InstructionCount,
       EndInstructions, ReadInstruction, InstructionError, InstructionsEnd, TableCount,
       ReadLookup, LookupsEnd, CheckIndexes, buffer

LEMMA AuditStep == ASSUME AuditInv, [AuditNext]_auditVars PROVE AuditInv'
<1> USE DEF AuditInv, tx
<1>1. CASE Decode
  <2>1. input' = input /\ risk_flags' = risk_flags /\ phase = "read"
    BY <1>1 DEF Decode
  <2>2. CASE ~Readable(input.given)
    <3>1. phase' = "failed"
      BY <1>1, <2>2 DEF Decode
    <3> QED BY <2>1, <2>2, <3>1 DEF Given, Reported, FlagsOK, RefusedOK
  <2>3. CASE Readable(input.given) /\ Panics(tx, input.schema)
    <3>1. phase' = "decoder panicked"
      BY <1>1, <2>3 DEF Decode
    <3> QED BY <2>1, <2>3, <3>1 DEF Given, Reported, FlagsOK, RefusedOK
  <2>4. CASE Readable(input.given) /\ ~Panics(tx, input.schema)
    <3>1. phase' = "validate" /\ report' = decode_versioned_tx(tx, input.schema)
      BY <1>1, <2>4 DEF Decode
    <3> QED BY <2>1, <2>4, <3>1 DEF Given, Reported, FlagsOK, RefusedOK
  <2> QED BY <2>2, <2>3, <2>4
<1>2. CASE Validate
  <2>1. input' = input /\ report' = report /\ phase = "validate"
    BY <1>2 DEF Validate
  <2>2. CASE ValidationPanics(report, input.schema)
    <3>1. phase' = "validator panicked"
      BY <1>2, <2>2 DEF Validate
    <3> QED BY <2>1, <3>1 DEF Given, Reported, FlagsOK, RefusedOK
  <2>3. CASE ~ValidationPanics(report, input.schema)
    <3>1. phase' = "verify" /\ risk_flags' = validate(report, input.schema)
      BY <1>2, <2>3 DEF Validate
    <3> QED BY <2>1, <3>1 DEF Given, Reported, FlagsOK, RefusedOK
  <2> QED BY <2>2, <2>3
<1>3. CASE VerifySignatures
  <2>1. /\ input' = input /\ report' = report /\ phase = "verify" /\ phase' = "compare"
        /\ risk_flags' = risk_flags \cup verify_report(verify_transaction(tx), report.fee_payer)
    BY <1>3 DEF VerifySignatures
  <2> QED BY <2>1 DEF Given, Reported, FlagsOK, RefusedOK
<1>4. CASE Compare
  <2>1. /\ input' = input /\ report' = report /\ phase' = phase /\ risk_flags' = risk_flags
    BY <1>4, ParserKeepsReport DEF Compare
  <2> QED BY <2>1 DEF Given, Reported, FlagsOK, RefusedOK
<1>5. CASE UNCHANGED auditVars
  <2>1. /\ input' = input /\ report' = report /\ phase' = phase /\ risk_flags' = risk_flags
    BY <1>5 DEF auditVars
  <2> QED BY <2>1 DEF Given, Reported, FlagsOK, RefusedOK
<1> QED BY <1>1, <1>2, <1>3, <1>4, <1>5 DEF AuditNext, Done

LEMMA ReadLemma == ASSUME AuditInv PROVE ReadAsGiven
<1>1. SUFFICES ASSUME phase # "read", input.call = "main"
               PROVE phase = "failed" <=>
                       IF input.given.form = "bytes" THEN input.given.utf8
                       ELSE /\ input.given.form = "base64" /\ ~input.given.symbols
                            /\ ~input.given.hex /\ ~input.given.beyond58
  BY DEF ReadAsGiven
<1> DEFINE g == input.given
<1>2. Spelled(g)
  BY <1>1, InputMeans DEF AuditInv
<1>3. phase = "failed" <=> ~Readable(g)
  BY <1>1 DEF AuditInv, RefusedOK
<1> HIDE DEF g
<1>4. CASE g.form = "bytes"
  BY <1>2, <1>3, <1>4 DEF Readable, g
<1>5. CASE g.form # "bytes"
  BY <1>2, <1>3, <1>5 DEF Readable, Readings, detect_encoding, Spelled, g
<1> QED BY <1>4, <1>5
-----------------------------------------------------------------------------
(* Which check a flag is of *)

LEMMA FlagCategory ==
  ASSUME NEW severity, NEW category, NEW i, NEW subject
  PROVE  /\ Flag(severity, category, i, subject).category = category
         /\ Flag(severity, category, i, subject).severity = severity
         /\ Flag(severity, category, i, subject).instruction = i
         /\ Flag(severity, category, i, subject).subject = subject
BY DEF Flag

LEMMA WellFormednessCategory ==
  ASSUME NEW schema, NEW f \in WellFormedness(schema)
  PROVE  f.category = "PdaWellFormedness"
BY DEF WellFormedness, Flag

LEMMA SchemaCategories ==
  ASSUME NEW r, NEW schema
  PROVE  /\ \A f \in PdaFlags(r, schema) : f.category = "PdaSeedMismatch"
         /\ \A f \in MissingSigners(r, schema) : f.category = "MissingSigner"
         /\ \A f \in WritableRoles(r, schema) : f.category = "WritableMismatch"
         /\ \A f \in AccountCounts(r, schema) :
              f.category \in {"IdlAccountMismatch", "NativeAccountMismatch"}
<1>1. \A f \in PdaFlags(r, schema) : f.category = "PdaSeedMismatch"
  BY DEF PdaFlags, Flag
<1>2. \A f \in MissingSigners(r, schema) : f.category = "MissingSigner"
  BY DEF MissingSigners, Flag
<1>3. \A f \in WritableRoles(r, schema) : f.category = "WritableMismatch"
  BY DEF WritableRoles, Flag
<1>4. \A f \in AccountCounts(r, schema) :
         f.category \in {"IdlAccountMismatch", "NativeAccountMismatch"}
  BY DEF AccountCounts, Flag
<1> QED BY <1>1, <1>2, <1>3, <1>4

LEMMA ReportCategories ==
  ASSUME NEW r
  PROVE  /\ \A f \in WritableEntities(r) : f.category = "InsecureWritable"
         /\ \A f \in ComputeBudgetFlags(r) :
              f.category \in {"MissingComputeUnitLimit", "ComputeBudgetReordering",
                              "HighComputeUnitUsage"}
         /\ \A f \in AltIntegrity(r) : f.category = "AltIntegrity"
<1>1. \A f \in WritableEntities(r) : f.category = "InsecureWritable"
  BY DEF WritableEntities, Flag
<1>2. \A f \in ComputeBudgetFlags(r) :
         f.category \in {"MissingComputeUnitLimit", "ComputeBudgetReordering",
                         "HighComputeUnitUsage"}
  BY DEF ComputeBudgetFlags, Flag
<1>3. \A f \in AltIntegrity(r) : f.category = "AltIntegrity"
  BY DEF AltIntegrity, Flag
<1> QED BY <1>1, <1>2, <1>3

LEMMA SignatureCategory ==
  ASSUME NEW checks_, NEW payer, NEW f \in verify_report(checks_, payer)
  PROVE  f.category = "SignatureMismatch"
BY DEF verify_report

\* A check's flags are all it can add, and a flag's category says which check added it.
LEMMA ValidateParts ==
  ASSUME NEW r, NEW schema
  PROVE  /\ \A f \in validate(r, schema) :
              /\ f.category # "SignatureMismatch"
              /\ f.category \in {"MissingComputeUnitLimit", "ComputeBudgetReordering"}
                   => f \in ComputeBudgetFlags(r)
              /\ f.category = "InsecureWritable" => f \in WritableEntities(r)
              /\ f.category = "MissingSigner" => schema.kind # "none" /\ f \in MissingSigners(r, schema)
              /\ f.category = "WritableMismatch" => schema.kind # "none" /\ f \in WritableRoles(r, schema)
              /\ f.category = "PdaSeedMismatch" => schema.kind # "none" /\ f \in PdaFlags(r, schema)
         /\ ComputeBudgetFlags(r) \subseteq validate(r, schema)
         /\ WritableEntities(r) \subseteq validate(r, schema)
         /\ schema.kind # "none" => /\ MissingSigners(r, schema) \subseteq validate(r, schema)
                                    /\ WritableRoles(r, schema) \subseteq validate(r, schema)
                                    /\ PdaFlags(r, schema) \subseteq validate(r, schema)
<1>1. ASSUME NEW f \in validate(r, schema)
      PROVE  /\ f.category # "SignatureMismatch"
             /\ f.category \in {"MissingComputeUnitLimit", "ComputeBudgetReordering"}
                  => f \in ComputeBudgetFlags(r)
             /\ f.category = "InsecureWritable" => f \in WritableEntities(r)
             /\ f.category = "MissingSigner" => schema.kind # "none" /\ f \in MissingSigners(r, schema)
             /\ f.category = "WritableMismatch" => schema.kind # "none" /\ f \in WritableRoles(r, schema)
             /\ f.category = "PdaSeedMismatch" => schema.kind # "none" /\ f \in PdaFlags(r, schema)
  <2>1. CASE schema.kind # "none" /\ f \in WellFormedness(schema)
    BY <2>1, WellFormednessCategory
  <2>2. CASE schema.kind # "none" /\ f \notin WellFormedness(schema) /\ f \in
               PdaFlags(r, schema) \cup MissingSigners(r, schema)
                 \cup WritableRoles(r, schema) \cup AccountCounts(r, schema)
    BY <2>2, SchemaCategories
  <2>3. CASE f \in WritableEntities(r) \cup ComputeBudgetFlags(r) \cup AltIntegrity(r)
    BY <2>3, ReportCategories
  <2> QED BY <2>1, <2>2, <2>3 DEF validate
<1>2. /\ ComputeBudgetFlags(r) \subseteq validate(r, schema)
      /\ WritableEntities(r) \subseteq validate(r, schema)
  BY DEF validate
<1>3. schema.kind # "none" => /\ MissingSigners(r, schema) \subseteq validate(r, schema)
                              /\ WritableRoles(r, schema) \subseteq validate(r, schema)
                              /\ PdaFlags(r, schema) \subseteq validate(r, schema)
  BY DEF validate
<1> QED BY <1>1, <1>2, <1>3

\* The flags of an audited input, by category.
LEMMA AuditedFlags ==
  ASSUME AuditInv, Audited
  PROVE  /\ SignatureFlags = verify_report(verify_transaction(tx), report.fee_payer)
         /\ \A f : f.category \in {"MissingComputeUnitLimit", "ComputeBudgetReordering"}
              => (f \in risk_flags <=> f \in ComputeBudgetFlags(report))
         /\ \A f : f.category = "InsecureWritable"
              => (f \in risk_flags <=> f \in WritableEntities(report))
         /\ \A f : f.category = "MissingSigner" /\ input.schema.kind # "none"
              => (f \in risk_flags <=> f \in MissingSigners(report, input.schema))
         /\ \A f : f.category = "WritableMismatch" /\ input.schema.kind # "none"
              => (f \in risk_flags <=> f \in WritableRoles(report, input.schema))
         /\ \A f \in risk_flags : f.category = "PdaSeedMismatch" => f \in PdaFlags(report, input.schema)
         /\ input.schema.kind # "none" => PdaFlags(report, input.schema) \subseteq risk_flags
<1> DEFINE V == validate(report, input.schema)
           S == verify_report(verify_transaction(tx), report.fee_payer)
<1>1. risk_flags = V \cup S
  BY DEF AuditInv, Audited, Compared, FlagsOK
<1>2. \A f \in S : f.category = "SignatureMismatch"
  BY SignatureCategory
<1>3. \A f \in V :
        /\ f.category # "SignatureMismatch"
        /\ f.category \in {"MissingComputeUnitLimit", "ComputeBudgetReordering"}
             => f \in ComputeBudgetFlags(report)
        /\ f.category = "InsecureWritable" => f \in WritableEntities(report)
        /\ f.category = "MissingSigner" => f \in MissingSigners(report, input.schema)
        /\ f.category = "WritableMismatch" => f \in WritableRoles(report, input.schema)
        /\ f.category = "PdaSeedMismatch" => f \in PdaFlags(report, input.schema)
  BY ValidateParts
<1>4. /\ ComputeBudgetFlags(report) \subseteq V /\ WritableEntities(report) \subseteq V
      /\ input.schema.kind # "none" => /\ MissingSigners(report, input.schema) \subseteq V
                                       /\ WritableRoles(report, input.schema) \subseteq V
                                       /\ PdaFlags(report, input.schema) \subseteq V
  BY ValidateParts
<1> HIDE DEF V, S
<1>5. SignatureFlags = S
  BY <1>1, <1>2, <1>3 DEF SignatureFlags
<1> QED BY <1>1, <1>2, <1>3, <1>4, <1>5 DEF S

-----------------------------------------------------------------------------
(* What u8 leaves of a number *)

LEMMA U8Is ==
  ASSUME NEW a \in Nat
  PROVE  u8(a) \in Nat /\ (a < 2 * Radix => u8(a) = a)
<1> DEFINE m == 2 * Radix
           q == a \div m
           d == a % m
<1>1. m \in Nat \ {0}
  BY RadixAssumption
<1> HIDE DEF m
<1>2. q \in Nat /\ d \in Nat /\ a = m * q + d
  BY <1>1, DivMod
<1>3. a < m => q < 1
  <2>1. m * 1 = m
    BY <1>1
  <2> QED BY <1>1, <2>1, DivBelow
<1> HIDE DEF q
<1>4. a < m => q = 0
  BY <1>2, <1>3
<1>5. m * 0 = 0
  BY <1>1
<1>6. u8(a) = d
  BY DEF u8, m
<1> HIDE DEF d
<1>7. a < m => d = a
  BY <1>2, <1>4, <1>5
<1> QED BY <1>2, <1>6, <1>7 DEF m

-----------------------------------------------------------------------------
(* Signatures *)

LEMMA SignaturesLemma == ASSUME AuditInv PROVE SignaturesJudged
<1>1. SUFFICES ASSUME Audited
               PROVE  /\ SignatureFlags = {} <=> Accepted
                      /\ (tx.signatures = <<>> \/ tx.signatures[1] # "valid") =>
                           \E f \in SignatureFlags : f.severity = "Critical"
  BY DEF SignaturesJudged
<1> DEFINE n == Len(tx.signatures)
           count == IF tx.required > n THEN tx.required ELSE n
           check == verify_transaction(tx)
           payer == report.fee_payer
<1>2. Compiled(tx) /\ Grouped(tx, input.groups)
  BY <1>1, InputMeans DEF AuditInv, Audited
<1>3. n \in Nat
  BY <1>2, LenProperties DEF Compiled
<1>4. tx.required \in Nat \ {0} /\ Len(tx.keys) \in Nat /\ tx.required <= Len(tx.keys)
  <2>1. PICK a, b, c, d \in Nat : GroupsAre(tx, input.groups, a, b, c, d)
    BY <1>2, GroupSizes, Zenon
  <2>2. a + b \in Nat /\ a + b >= a /\ a + b + c + d \in Nat /\ a + b <= a + b + c + d
    OBVIOUS
  <2>3. a >= 1
    BY <2>1, Zenon DEF GroupsAre
  <2>4. a + b # 0
    BY <2>2, <2>3
  <2> QED BY <2>1, <2>2, <2>4 DEF GroupsAre
<1>5. SignatureFlags = verify_report(check, payer)
  BY <1>1, AuditedFlags
<1>6. /\ Len(check) = count
      /\ \A k \in 1..count :
           /\ check[k].index = u8(k - 1)
           /\ check[k].verified <=> k <= tx.required /\ k <= n /\ k <= Len(tx.keys)
                                      /\ tx.signatures[k] = "valid"
  BY <1>3, <1>4 DEF verify_transaction
<1>7. count \in Nat /\ count >= tx.required /\ count >= n /\ (count = n \/ count = tx.required)
  BY <1>3, <1>4
<1> HIDE DEF count, check, n, payer
<1>8. /\ \A f \in SignatureFlags : \E k \in 1..count : ~check[k].verified
      /\ \A k \in 1..count : ~check[k].verified =>
           \E f \in SignatureFlags : check[k].index = 0 => f.severity = "Critical"
  <2> DEFINE flag_of(c) == [severity |-> IF c.index = 0 \/ (payer # NoKey /\ c.pubkey = payer)
                                      THEN "Critical" ELSE "Warning",
                       category |-> "SignatureMismatch", instruction |-> -1, subject |-> <<c.index>>]
  <2>1. verify_report(check, payer) = {flag_of(c) : c \in {check[k] : k \in {j \in 1..count : ~check[j].verified}}}
    BY <1>6 DEF verify_report
  <2>2. \A c : c.index = 0 => flag_of(c).severity = "Critical"
    OBVIOUS
  <2> HIDE DEF flag_of
  <2>3. \A f \in SignatureFlags : \E k \in 1..count : ~check[k].verified
    BY <1>5, <2>1
  <2>4. ASSUME NEW k \in 1..count, ~check[k].verified
        PROVE  \E f \in SignatureFlags : check[k].index = 0 => f.severity = "Critical"
    <3>1. flag_of(check[k]) \in SignatureFlags
      BY <1>5, <2>1, <2>4
    <3> QED BY <2>2, <3>1
  <2> QED BY <2>3, <2>4
<1>9. Accepted <=> \A k \in 1..count : check[k].verified
  <2>1. ASSUME Accepted PROVE \A k \in 1..count : check[k].verified
    <3>1. n = tx.required /\ \A k \in 1..n : tx.signatures[k] = "valid"
      BY <2>1 DEF Accepted, n
    <3>2. count = n
      BY <1>7, <3>1
    <3>3. \A k \in 1..n : k <= tx.required /\ k <= n /\ k <= Len(tx.keys)
      BY <1>3, <1>4, <3>1
    <3> QED BY <1>6, <3>1, <3>2, <3>3
  <2>2. ASSUME \A k \in 1..count : check[k].verified
        PROVE  Accepted
    <3>1. count \in 1..count
      BY <1>4, <1>7
    <3>2. count <= tx.required /\ count <= n
      BY <1>6, <2>2, <3>1
    <3>3. n = tx.required /\ count = n
      BY <1>3, <1>4, <1>7, <3>2
    <3>4. \A k \in 1..n : tx.signatures[k] = "valid"
      BY <1>6, <2>2, <3>3
    <3> QED BY <3>3, <3>4 DEF Accepted, n
  <2> QED BY <2>1, <2>2
<1>10. ASSUME tx.signatures = <<>> \/ tx.signatures[1] # "valid"
       PROVE  \E f \in SignatureFlags : f.severity = "Critical"
  <2>1. 1 \in 1..count /\ ~check[1].verified
    BY <1>3, <1>4, <1>6, <1>7, <1>10 DEF n
  <2>2. check[1].index = 0
    <3>1. u8(1 - 1) = 0
      BY U8Is, RadixAssumption
    <3> QED BY <1>6, <2>1, <3>1
  <2> QED BY <1>8, <2>1, <2>2
<1> QED BY <1>8, <1>9, <1>10

-----------------------------------------------------------------------------
(* Lists in order *)

Increasing(s) == \A j, k \in 1..Len(s) : j < k => s[j] < s[k]

\* Without keeps the order.
LEMMA WithoutIncreasing ==
  ASSUME NEW s \in Seq(Int), NEW gone, Increasing(s)
  PROVE  Increasing(Without(s, gone))
<1> DEFINE n == Len(s)
<1>1. PICK c \in [0..n -> Seq(Int)] : LeavesOut(c, s, gone)
  BY WithoutUnfolds
<1>2. n \in Nat /\ \A k \in 1..n : s[k] \in Int
  BY LenProperties, ElementOfSeq
<1> DEFINE T == {k \in 0..n : /\ Increasing(c[k])
                              /\ \A e \in 1..Len(c[k]) : \E i \in 1..k : c[k][e] = s[i]}
<1>3. 0 \in T
  BY <1>1, <1>2 DEF LeavesOut, Increasing
<1>4. ASSUME NEW k \in 1..n, k - 1 \in T
      PROVE  k \in T
  <2>1. k \in 0..n /\ k - 1 \in 0..n /\ \A i \in 1..(k - 1) : i \in 1..k /\ i \in 1..n /\ s[i] < s[k]
    BY <1>2 DEF Increasing
  <2>2. /\ c[k - 1] \in Seq(Int) /\ Increasing(c[k - 1])
        /\ \A e \in 1..Len(c[k - 1]) : \E i \in 1..(k - 1) : c[k - 1][e] = s[i]
    BY <1>4, <2>1
  <2>3. CASE s[k] \in gone
    BY <1>1, <2>1, <2>2, <2>3 DEF LeavesOut
  <2>4. CASE s[k] \notin gone
    <3> DEFINE m == Len(c[k - 1])
    <3>1. c[k] = Append(c[k - 1], s[k])
      BY <1>1, <2>4 DEF LeavesOut
    <3>2. /\ m \in Nat /\ Len(c[k]) = m + 1 /\ c[k][m + 1] = s[k]
          /\ \A e \in 1..m : c[k][e] = c[k - 1][e]
      BY <1>2, <2>2, <3>1, AppendProperties, LenProperties
    <3>3. \A e \in 1..m : c[k - 1][e] < s[k]
      BY <2>1, <2>2
    <3> HIDE DEF m
    <3>4. \A e \in 1..(m + 1) : e \in 1..m \/ e = m + 1
      BY <3>2
    <3>5. Increasing(c[k])
      <4>1. ASSUME NEW e \in 1..(m + 1), NEW f \in 1..(m + 1), e < f
            PROVE  c[k][e] < c[k][f]
        <5>1. e \in 1..m
          BY <3>2, <4>1
        <5>2. CASE f = m + 1
          BY <3>2, <3>3, <5>1, <5>2
        <5>3. CASE f \in 1..m
          <6>1. c[k - 1][e] < c[k - 1][f]
            BY <2>2, <4>1, <5>1, <5>3 DEF Increasing, m
          <6> QED BY <3>2, <5>1, <5>3, <6>1
        <5> QED BY <3>4, <5>2, <5>3
      <4> QED BY <3>2, <4>1 DEF Increasing
    <3>6. \A e \in 1..Len(c[k]) : \E i \in 1..k : c[k][e] = s[i]
      <4>1. k \in 1..k
        BY <1>2
      <4> QED BY <2>1, <2>2, <3>2, <3>4, <4>1 DEF m
    <3> QED BY <2>1, <3>5, <3>6
  <2> QED BY <2>3, <2>4
<1>5. n \in T
  <2> HIDE DEF T
  <2>1. \A k \in 0..n : k \in T
    BY <1>2, <1>3, <1>4, Upward
  <2> QED BY <1>2, <2>1
<1> QED BY <1>1, <1>5 DEF LeavesOut

\* In an increasing list of numbers an element is at its own place, counting from 0,
\* exactly if all the numbers below it are in the list.
LEMMA AtItsPlace ==
  ASSUME NEW p \in Seq(Nat), Increasing(p), NEW k \in 1..Len(p)
  PROVE  p[k] # k - 1 <=> \E v \in 0..(p[k] - 1) : v \notin Range(p)
<1> DEFINE n == Len(p)
<1>1. n \in Nat /\ Range(p) = {p[i] : i \in 1..n} /\ \A i \in 1..n : p[i] \in Nat
  BY LenProperties, ElementOfSeq DEF Range
<1> HIDE DEF n
<1>2. \A i, j \in 1..n : i < j => p[i] < p[j]
  BY DEF Increasing, n
<1>3. \A i \in 1..n : p[i] >= i - 1
  <2> DEFINE T == {i \in 0..n : i = 0 \/ p[i] >= i - 1}
  <2>1. 0 \in T
    BY <1>1
  <2>2. ASSUME NEW i \in 1..n, i - 1 \in T
        PROVE  i \in T
    <3>1. CASE i = 1
      BY <1>1, <3>1
    <3>2. CASE i # 1
      <4>1. i - 1 \in 1..n /\ p[i - 1] >= (i - 1) - 1
        BY <1>1, <2>2, <3>2
      <4>2. p[i - 1] < p[i] /\ p[i - 1] \in Nat /\ p[i] \in Nat
        BY <1>1, <1>2, <4>1
      <4> QED BY <1>1, <4>1, <4>2
    <3> QED BY <3>1, <3>2
  <2>3. \A i \in 0..n : i \in T
    <3> HIDE DEF T
    <3> QED BY <1>1, <2>1, <2>2, Upward
  <2> QED BY <2>3
<1>4. ASSUME p[k] = k - 1
      PROVE  \A v \in 0..(p[k] - 1) : v \in Range(p)
  <2> DEFINE T == {d \in 0..(k - 1) : p[k - d] = k - d - 1}
  <2>1. k \in 1..n /\ k - 1 \in Nat
    BY <1>1 DEF n
  <2>2. 0 \in T
    BY <1>4, <2>1
  <2>3. ASSUME NEW d \in 1..(k - 1), d - 1 \in T
        PROVE  d \in T
    <3>1. k - d \in 1..n /\ k - (d - 1) \in 1..n /\ k - d < k - (d - 1)
      BY <1>1, <2>1
    <3>2. p[k - d] < p[k - (d - 1)] /\ p[k - (d - 1)] = k - (d - 1) - 1
      BY <1>2, <2>3, <3>1
    <3>3. p[k - d] >= k - d - 1 /\ p[k - d] \in Nat
      BY <1>1, <1>3, <3>1
    <3> QED BY <2>1, <3>2, <3>3
  <2>4. \A d \in 0..(k - 1) : d \in T
    <3> HIDE DEF T
    <3> QED BY <2>1, <2>2, <2>3, Upward
  <2>5. ASSUME NEW v \in 0..(p[k] - 1)
        PROVE  v \in Range(p)
    <3>1. PICK d \in 0..(k - 1) : k - d = v + 1 /\ v + 1 \in 1..n
      <4>1. k - (v + 1) \in 0..(k - 1) /\ k - (k - (v + 1)) = v + 1 /\ v + 1 \in 1..n
        BY <1>1, <1>4, <2>1, <2>5
      <4> QED BY <4>1
    <3>2. p[k - d] = k - d - 1
      BY <2>4, <3>1
    <3>3. p[v + 1] = v
      BY <2>5, <3>1, <3>2
    <3> QED BY <1>1, <3>1, <3>3
  <2> QED BY <2>5
<1>5. ASSUME p[k] # k - 1, \A v \in 0..(p[k] - 1) : v \in Range(p)
      PROVE  FALSE
  <2> DEFINE Bad == {i \in 1..k : p[i] # i - 1}
  <2>1. k \in 1..n /\ k \in 1..k
    BY <1>1 DEF n
  <2>2. PICK i \in Bad : \A j \in Bad : i <= j
    <3>1. Bad \in SUBSET Nat /\ k \in Bad
      BY <1>5, <2>1
    <3> HIDE DEF Bad
    <3> QED BY <3>1, Smallest
  <2>3. i \in 1..n /\ i - 1 \in Nat /\ p[i] # i - 1
    BY <1>1, <2>1
  <2>4. p[i] > i - 1 /\ p[i] <= p[k]
    <3>1. i = k \/ i < k
      BY <2>1
    <3>2. p[i] \in Nat /\ p[i] >= i - 1 /\ p[k] \in Nat
      BY <1>1, <1>3, <2>1, <2>3
    <3>3. p[i] > i - 1
      BY <2>3, <3>2
    <3>4. p[i] <= p[k]
      BY <1>2, <2>1, <2>3, <3>1, <3>2
    <3> QED BY <3>3, <3>4
  <2>5. i - 1 \in 0..(p[k] - 1)
    BY <1>1, <2>1, <2>3, <2>4
  <2>6. PICK m \in 1..n : p[m] = i - 1
    BY <1>1, <1>5, <2>5
  <2>7. m < i
    <3>1. CASE m = i
      BY <2>3, <2>6, <3>1
    <3>2. CASE m > i
      BY <1>1, <1>2, <2>3, <2>4, <2>6, <3>2
    <3> QED BY <1>1, <2>3, <3>1, <3>2
  <2>8. m \notin Bad
    BY <2>2, <2>3, <2>7
  <2>9. p[m] = m - 1
    BY <2>1, <2>3, <2>7, <2>8
  <2> QED BY <2>3, <2>6, <2>7, <2>9
<1> QED BY <1>4, <1>5

-----------------------------------------------------------------------------
(* The compute budget *)

\* A field's value is a number.
LEMMA FieldType ==
  ASSUME NEW data \in Seq(Byte), NEW from \in Nat, NEW width \in Nat,
         from + width <= Len(data)
  PROVE  LittleEndian(data, from, width) \in Nat
<1> DEFINE s == Reverse(SubSeq(data, from + 1, from + width))
           n == Len(s)
           Fits(it) == it = [t \in SUBSET (DOMAIN s) |->
                               IF t = {} THEN 0
                               ELSE s[Max(t)] + 2 * Radix * it[t \ {Max(t)}]]
           iter == CHOOSE it : Fits(it)
           X == Nat
           base == 0
           advance == [k \in 1..n |-> [high \in Nat |-> s[k] + 2 * Radix * high]]
<1>1. LittleEndian(data, from, width) = iter[DOMAIN s]
  BY Zenon DEF LittleEndian, FoldLeft, MapThenFoldSet
<1>2. n \in Nat /\ DOMAIN s = 1..n /\ \A k \in 1..n : s[k] \in Nat
  <2> DEFINE u == SubSeq(data, from + 1, from + width)
  <2>1. u \in Seq(Byte)
    <3>1. Len(data) \in Nat
      BY LenProperties
    <3>2. \A i \in (from + 1)..(from + width) : i \in 1..Len(data)
      BY <3>1
    <3> QED BY <3>2, SubSeqProperties
  <2>2. s = [i \in 1..Len(u) |-> u[(Len(u) - i) + 1]] /\ Len(u) \in Nat
    BY <2>1, LenProperties DEF Reverse
  <2>3. n = Len(u)
    BY <2>2
  <2> HIDE DEF u, n
  <2>4. ASSUME NEW k \in 1..n
        PROVE  s[k] \in Nat
    <3>1. (Len(u) - k) + 1 \in 1..Len(u)
      BY <2>2, <2>3
    <3>2. u[(Len(u) - k) + 1] \in Byte
      BY <2>1, <3>1, ElementOfSeq
    <3> QED BY <2>2, <2>3, <3>2, RadixAssumption DEF Byte
  <2> QED BY <2>2, <2>3, <2>4
<1>3. \A k \in 1..n : \A high \in Nat : s[k] + 2 * Radix * high \in Nat
  <2>1. \A a, b \in Nat : a * b \in Nat
    OBVIOUS
  <2>2. 2 * Radix \in Nat
    BY RadixAssumption
  <2>3. \A high \in Nat : 2 * Radix * high \in Nat
    BY <2>1, <2>2
  <2>4. \A a, b \in Nat : a + b \in Nat
    OBVIOUS
  <2> QED BY <1>2, <2>3, <2>4, Zenon
<1> HIDE DEF s
<1>4. advance \in [1..n -> [X -> X]]
  BY <1>3
<1>5. PICK g \in [SUBSET (1..n) -> X] : Folds(g, base, advance, n)
  <2>1. base \in X
    OBVIOUS
  <2> HIDE DEF advance, n, X, base
  <2> QED BY <1>2, <1>4, <2>1, FoldDefined
<1>6. Fits(g)
  <2>1. ASSUME NEW t \in SUBSET (1..n), t # {}
        PROVE  g[t] = s[Max(t)] + 2 * Radix * g[t \ {Max(t)}]
    <3>1. Max(t) \in 1..n /\ t \ {Max(t)} \in SUBSET (1..n)
      <4> HIDE DEF n
      <4> QED BY <2>1, <1>2, MaxProperties
    <3> QED BY <2>1, <3>1, <1>5 DEF Folds
  <2> QED BY <1>2, <1>5, <2>1 DEF Folds
<1>7. Fits(iter)
  <2> HIDE DEF Fits
  <2> QED BY <1>6
<1>8. iter[{}] = base
  BY <1>7
<1>9. ASSUME NEW k \in 1..n, iter[1..(k - 1)] \in X
      PROVE  iter[1..k] = advance[k][iter[1..(k - 1)]]
  <2>1. Max(1..k) = k /\ (1..k) \ {Max(1..k)} = 1..(k - 1)
    BY <1>2, MaxOfPrefix
  <2>2. 1..k \in SUBSET (DOMAIN s) /\ 1..k # {}
    <3> HIDE DEF n
    <3>1. k \in 1..k /\ \A i \in 1..k : i \in 1..n
      BY <1>2
    <3> QED BY <1>2, <3>1
  <2>3. iter[1..k] = s[k] + 2 * Radix * iter[1..(k - 1)]
    BY <1>7, <2>1, <2>2
  <2> HIDE DEF iter
  <2> QED BY <1>9, <2>3
<1>10. PICK c \in [0..n -> X] : Unrolls(c, base, advance, n) /\ c[n] = iter[1..n]
  <2>1. base \in X
    OBVIOUS
  <2> HIDE DEF iter, advance, n, X, base
  <2>2. OnPrefixes(iter, base, advance, n, X)
    BY <1>8, <1>9 DEF OnPrefixes
  <2>3. n \in Nat
    BY <1>2
  <2> QED BY <2>1, <2>2, <2>3, <1>4, FoldPrefixes
<1> QED BY <1>1, <1>2, <1>10

\* A value is set exactly if some instruction sets one.
LEMMA LastSetIs ==
  ASSUME NEW s \in Seq(Nat)
  PROVE  LastSet(s, 0) > 0 <=> \E i \in 1..Len(s) : s[i] > 0
<1> DEFINE n == Len(s)
           Fits(it) == it = [t \in SUBSET (DOMAIN s) |->
                               IF t = {} THEN 0
                               ELSE IF s[Max(t)] > 0 THEN s[Max(t)] ELSE it[t \ {Max(t)}]]
           iter == CHOOSE it : Fits(it)
           X == Nat
           base == 0
           advance == [k \in 1..n |-> [v \in Nat |-> IF s[k] > 0 THEN s[k] ELSE v]]
<1>1. LastSet(s, 0) = iter[DOMAIN s]
  BY Zenon DEF LastSet, FoldLeft, MapThenFoldSet
<1>2. n \in Nat /\ DOMAIN s = 1..n /\ \A k \in 1..n : s[k] \in Nat
  BY LenProperties, ElementOfSeq
<1>4. advance \in [1..n -> [X -> X]]
  BY <1>2
<1>5. PICK g \in [SUBSET (1..n) -> X] : Folds(g, base, advance, n)
  <2>1. base \in X
    OBVIOUS
  <2> HIDE DEF advance, n, X, base
  <2> QED BY <1>2, <1>4, <2>1, FoldDefined
<1>6. Fits(g)
  <2>1. ASSUME NEW t \in SUBSET (1..n), t # {}
        PROVE  g[t] = IF s[Max(t)] > 0 THEN s[Max(t)] ELSE g[t \ {Max(t)}]
    <3>1. Max(t) \in 1..n /\ t \ {Max(t)} \in SUBSET (1..n)
      <4> HIDE DEF n
      <4> QED BY <2>1, <1>2, MaxProperties
    <3> QED BY <2>1, <3>1, <1>5 DEF Folds
  <2> QED BY <1>2, <1>5, <2>1 DEF Folds
<1>7. Fits(iter)
  <2> HIDE DEF Fits
  <2> QED BY <1>6
<1>8. iter[{}] = base
  BY <1>7
<1>9. ASSUME NEW k \in 1..n, iter[1..(k - 1)] \in X
      PROVE  iter[1..k] = advance[k][iter[1..(k - 1)]]
  <2>1. Max(1..k) = k /\ (1..k) \ {Max(1..k)} = 1..(k - 1)
    BY <1>2, MaxOfPrefix
  <2>2. 1..k \in SUBSET (DOMAIN s) /\ 1..k # {}
    <3> HIDE DEF n
    <3>1. k \in 1..k /\ \A i \in 1..k : i \in 1..n
      BY <1>2
    <3> QED BY <1>2, <3>1
  <2>3. iter[1..k] = IF s[k] > 0 THEN s[k] ELSE iter[1..(k - 1)]
    BY <1>7, <2>1, <2>2
  <2> HIDE DEF iter
  <2> QED BY <1>9, <2>3
<1>10. PICK c \in [0..n -> X] : Unrolls(c, base, advance, n) /\ c[n] = iter[1..n]
  <2>1. base \in X
    OBVIOUS
  <2> HIDE DEF iter, advance, n, X, base
  <2>2. OnPrefixes(iter, base, advance, n, X)
    BY <1>8, <1>9 DEF OnPrefixes
  <2> QED BY <2>1, <2>2, <1>2, <1>4, FoldPrefixes
<1>11. c[0] = 0 /\ \A k \in 1..n : c[k] = IF s[k] > 0 THEN s[k] ELSE c[k - 1]
  <2>0. \A k \in 1..n : k - 1 \in 0..n
    BY <1>2
  <2>1. \A k \in 1..n : c[k - 1] \in Nat
    BY <1>10, <2>0
  <2>2. c[0] = 0 /\ \A k \in 1..n : c[k] = advance[k][c[k - 1]]
    BY <1>10 DEF Unrolls
  <2> HIDE DEF advance, n
  <2>4. \A k \in 1..n : \A v \in Nat : advance[k][v] = IF s[k] > 0 THEN s[k] ELSE v
    BY DEF advance
  <2>3. ASSUME NEW k \in 1..n
        PROVE  c[k] = IF s[k] > 0 THEN s[k] ELSE c[k - 1]
    BY <2>1, <2>2, <2>4
  <2> QED BY <2>2, <2>3
<1> DEFINE T == {k \in 0..n : c[k] > 0 <=> \E i \in 1..k : s[i] > 0}
<1> HIDE DEF n, advance, iter
<1>12. 0 \in T
  BY <1>2, <1>11
<1>13. ASSUME NEW k \in 1..n, k - 1 \in T
       PROVE  k \in T
  <2>1. k \in 1..k /\ \A i \in 1..k : i \in 1..(k - 1) \/ i = k
    BY <1>2
  <2>2. \A i \in 1..(k - 1) : i \in 1..k
    BY <1>2
  <2>3. c[k - 1] > 0 <=> \E i \in 1..(k - 1) : s[i] > 0
    BY <1>13
  <2>4. c[k] = (IF s[k] > 0 THEN s[k] ELSE c[k - 1]) /\ k \in 0..n
    BY <1>2, <1>11
  <2>5. (\E i \in 1..k : s[i] > 0) <=> s[k] > 0 \/ c[k - 1] > 0
    BY <2>1, <2>2, <2>3
  <2> QED BY <2>4, <2>5
<1>14. n \in T
  <2> HIDE DEF T
  <2>1. \A k \in 0..n : k \in T
    BY <1>2, <1>12, <1>13, Upward
  <2> QED BY <1>2, <2>1
<1> QED BY <1>1, <1>2, <1>10, <1>14 DEF n

LEMMA PositionsLemma ==
  ASSUME NEW t, Len(t.instructions) \in Nat
  PROVE  /\ Positions(t) \in Seq(Nat) /\ Increasing(Positions(t))
         /\ Range(Positions(t)) = {i - 1 : i \in {j \in 1..Len(t.instructions) : IsBudget(t, j)}}
<1> DEFINE n == Len(t.instructions)
           all == [i \in 1..n |-> i]
           gone == {i \in 1..n : ~IsBudget(t, i)}
           budget == Without(all, gone)
           p == Positions(t)
<1>1. n \in Nat
  OBVIOUS
<1> HIDE DEF n
<1>2. all \in Seq(1..n) /\ Len(all) = n /\ Range(all) = 1..n /\ Increasing(all)
  BY <1>1 DEF Range, Increasing
<1>3. budget \in Seq(1..n) /\ Range(budget) = (1..n) \ gone
  <2> HIDE DEF all, gone
  <2> QED BY <1>2, WithoutProperties
<1>4. Increasing(budget)
  <2>1. all \in Seq(Int)
    BY <1>1
  <2> HIDE DEF all, gone
  <2> QED BY <1>2, <2>1, WithoutIncreasing
<1>5. p = [k \in 1..Len(budget) |-> budget[k] - 1]
  BY DEF Positions, n
<1> DEFINE m == Len(budget)
<1> HIDE DEF budget, p
<1>6. m \in Nat /\ Range(budget) = {budget[k] : k \in 1..m} /\ \A k \in 1..m : budget[k] \in 1..n
  BY <1>3, LenProperties, ElementOfSeq DEF Range
<1> HIDE DEF m
<1>7. Len(p) = m /\ DOMAIN p = 1..m /\ \A k \in 1..m : p[k] = budget[k] - 1 /\ p[k] \in Nat
  BY <1>1, <1>5, <1>6 DEF m
<1>8. p \in Seq(Nat)
  BY <1>5, <1>6, <1>7 DEF m
<1>9. Increasing(p)
  <2>1. \A j, k \in 1..m : j < k => budget[j] < budget[k]
    BY <1>4 DEF Increasing, m
  <2>2. ASSUME NEW j \in 1..m, NEW k \in 1..m, j < k
        PROVE  p[j] < p[k]
    <3>1. budget[j] < budget[k] /\ budget[j] \in Nat /\ budget[k] \in Nat
      BY <1>1, <1>6, <2>1, <2>2
    <3> QED BY <1>7, <3>1
  <2> QED BY <1>7, <2>2 DEF Increasing
<1>10. Range(p) = {i - 1 : i \in {j \in 1..n : IsBudget(t, j)}}
  <2>1. {budget[k] : k \in 1..m} = {j \in 1..n : IsBudget(t, j)}
    BY <1>3, <1>6
  <2>2. Range(p) = {p[k] : k \in 1..m}
    BY <1>7 DEF Range
  <2>3. Range(p) = {budget[k] - 1 : k \in 1..m}
    BY <1>7, <2>2
  <2> QED BY <2>1, <2>3
<1> QED BY <1>8, <1>9, <1>10 DEF p, n

LEMMA LimitType ==
  ASSUME NEW data \in Seq(Byte)
  PROVE  LimitOf(data) \in Nat
<1>1. CASE Len(data) >= 1 + U32Len
  <2>1. LittleEndian(data, 1, U32Len) \in Nat
    <3>1. 1 \in Nat /\ U32Len \in Nat /\ 1 + U32Len <= Len(data)
      BY <1>1, WidthAssumption, LenProperties
    <3> QED BY <3>1, FieldType
  <2>2. CuUnit * LittleEndian(data, 1, U32Len) \in Nat
    <3>1. \A a, b \in Nat : a * b \in Nat
      OBVIOUS
    <3> QED BY <2>1, <3>1, CuAssumption, Zenon
  <2> QED BY <2>2, Zenon DEF LimitOf
<1>2. CASE ~(Len(data) >= 1 + U32Len)
  BY <1>2 DEF LimitOf
<1> QED BY <1>1, <1>2

LEMMA BudgetLemma == ASSUME AuditInv PROVE BudgetJudged
<1>1. SUFFICES ASSUME Audited
      PROVE  /\ NumbersFit => \A i \in Indexes :
                  Flag("Warning", "ComputeBudgetReordering", i - 1, <<>>) \in risk_flags
                    <=> IsBudget(tx, i) /\ \E j \in 1..(i - 1) : ~IsBudget(tx, j)
             /\ Flag("Warning", "MissingComputeUnitLimit", -1, <<>>) \in risk_flags
                  <=> \A i \in Indexes : IsBudget(tx, i) => LimitOf(tx.instructions[i].data) = 0
  BY DEF BudgetJudged
<1> DEFINE n == Len(tx.instructions)
           p == Positions(tx)
           cb == report.compute_budget
           missing == Flag("Warning", "MissingComputeUnitLimit", -1, <<>>)
           late(i) == Flag("Warning", "ComputeBudgetReordering", i, <<>>)
<1>2. Compiled(tx)
  BY InputMeans DEF AuditInv
<1>3. n \in Nat /\ \A i \in 1..n : tx.instructions[i].data \in Seq(Byte)
  <2>1. \A i \in 1..n : tx.instructions[i] \in Instruction
    BY <1>2, ElementOfSeq DEF Compiled
  <2> QED BY <1>2, <2>1, LenProperties DEF Compiled, Instruction
<1>4. /\ missing \in risk_flags <=> missing \in ComputeBudgetFlags(report)
      /\ \A i : late(i) \in risk_flags <=> late(i) \in ComputeBudgetFlags(report)
  BY <1>1, AuditedFlags, FlagCategory
<1>5. /\ p = <<>> => ~cb.present
      /\ p # <<>> => /\ cb.present /\ cb.positions = p /\ cb.is_reordered = Reordered(p)
                     /\ cb.limit_set = (LastSet(Limits(tx), 0) > 0)
  <2>1. report = decode_versioned_tx(tx, input.schema)
    BY <1>1 DEF AuditInv, Audited, Compared, Reported
  <2>2. cb = ComputeBudget(tx, DecodedInstructions(tx, input.schema))
    BY <2>1 DEF decode_versioned_tx
  <2> HIDE DEF cb, p
  <2>3. CASE p = <<>>
    <3>1. cb = NoBudget
      BY <2>2, <2>3 DEF ComputeBudget, p
    <3> QED BY <2>3, <3>1 DEF NoBudget
  <2>4. CASE p # <<>>
    <3>1. /\ cb.present = TRUE /\ cb.positions = p /\ cb.is_reordered = Reordered(p)
          /\ cb.limit_set = (LastSet(Limits(tx), 0) > 0)
      BY <2>2, <2>4 DEF ComputeBudget, p
    <3> QED BY <2>4, <3>1
  <2> QED BY <2>3, <2>4
<1>6. /\ p \in Seq(Nat) /\ Increasing(p)
      /\ Range(p) = {i - 1 : i \in {j \in 1..n : IsBudget(tx, j)}}
  BY <1>3, PositionsLemma
<1> HIDE DEF p, n
<1>7. Len(p) \in Nat /\ Range(p) = {p[k] : k \in 1..Len(p)} /\ \A k \in 1..Len(p) : p[k] \in Nat
  BY <1>6, LenProperties, ElementOfSeq DEF Range
<1>8. \A i \in 1..n : i - 1 \in Range(p) <=> IsBudget(tx, i)
  <2>1. \A i, j \in 1..n : i - 1 = j - 1 => i = j
    BY <1>3
  <2> QED BY <1>6, <2>1
<1>9. /\ missing \in ComputeBudgetFlags(report) <=> ~cb.present \/ ~cb.limit_set
      /\ \A i : late(i) \in ComputeBudgetFlags(report)
           <=> /\ cb.present /\ cb.is_reordered
               /\ \E k \in 1..Len(cb.positions) : cb.positions[k] # k - 1 /\ u8(cb.positions[k]) = i
  BY DEF ComputeBudgetFlags, Flag
<1>10. ASSUME NumbersFit, NEW i \in 1..n
       PROVE  late(i - 1) \in risk_flags <=> IsBudget(tx, i) /\ \E j \in 1..(i - 1) : ~IsBudget(tx, j)
  <2>0. \A k \in 1..Len(p) : u8(p[k]) = p[k]
    <3>1. ASSUME NEW k \in 1..Len(p) PROVE p[k] < 2 * Radix
      <4>1. PICK j \in 1..n : p[k] = j - 1
        BY <1>6, <1>7
      <4>2. n <= 2 * Radix /\ 2 * Radix \in Nat
        BY <1>10, RadixAssumption DEF NumbersFit, n
      <4> QED BY <1>3, <4>1, <4>2
    <3> QED BY <1>7, <3>1, U8Is
  <2>1. late(i - 1) \in risk_flags <=> \E k \in 1..Len(p) : p[k] # k - 1 /\ p[k] = i - 1
    <3>1. CASE p = <<>>
      BY <1>4, <1>5, <1>9, <3>1
    <3>2. CASE p # <<>>
      <4>1. late(i - 1) \in risk_flags
              <=> Reordered(p) /\ \E k \in 1..Len(p) : p[k] # k - 1 /\ u8(p[k]) = i - 1
        <5>1. late(i - 1) \in risk_flags <=> late(i - 1) \in ComputeBudgetFlags(report)
          BY <1>4
        <5>2. late(i - 1) \in ComputeBudgetFlags(report)
                <=> /\ cb.present /\ cb.is_reordered
                    /\ \E k \in 1..Len(cb.positions) :
                         cb.positions[k] # k - 1 /\ u8(cb.positions[k]) = i - 1
          BY <1>9
        <5> HIDE DEF late, cb
        <5> QED BY <1>5, <3>2, <5>1, <5>2
      <4>2. (\E k \in 1..Len(p) : p[k] # k - 1 /\ u8(p[k]) = i - 1)
              <=> \E k \in 1..Len(p) : p[k] # k - 1 /\ p[k] = i - 1
        BY <2>0
      <4>3. (\E k \in 1..Len(p) : p[k] # k - 1) => Reordered(p)
        BY DEF Reordered
      <4> HIDE DEF late
      <4> QED BY <4>1, <4>2, <4>3
    <3> QED BY <3>1, <3>2
  <2>2. (\E v \in 0..(i - 2) : v \notin Range(p)) <=> \E j \in 1..(i - 1) : ~IsBudget(tx, j)
    <3>1. ASSUME NEW v \in 0..(i - 2), v \notin Range(p)
          PROVE  \E j \in 1..(i - 1) : ~IsBudget(tx, j)
      <4>1. v + 1 \in 1..(i - 1) /\ v + 1 \in 1..n /\ (v + 1) - 1 = v
        BY <1>3
      <4> QED BY <1>8, <3>1, <4>1
    <3>2. ASSUME NEW j \in 1..(i - 1), ~IsBudget(tx, j)
          PROVE  \E v \in 0..(i - 2) : v \notin Range(p)
      <4>1. j - 1 \in 0..(i - 2) /\ j \in 1..n
        BY <1>3
      <4> QED BY <1>8, <3>2, <4>1
    <3> QED BY <3>1, <3>2
  <2>3. ASSUME NEW k \in 1..Len(p), p[k] = i - 1
        PROVE  p[k] # k - 1 <=> \E v \in 0..(i - 2) : v \notin Range(p)
    <3>1. p[k] - 1 = i - 2
      BY <1>3, <2>3
    <3> QED BY <1>6, <3>1, AtItsPlace
  <2>4. IsBudget(tx, i) <=> \E k \in 1..Len(p) : p[k] = i - 1
    BY <1>7, <1>8
  <2> QED BY <2>1, <2>2, <2>3, <2>4
<1>11. missing \in risk_flags <=> \A i \in 1..n : IsBudget(tx, i) => LimitOf(tx.instructions[i].data) = 0
  <2> DEFINE s == Limits(tx)
  <2>1. /\ Len(s) = n /\ s \in Seq(Nat)
        /\ \A i \in 1..n : s[i] = IF IsBudget(tx, i) THEN LimitOf(tx.instructions[i].data) ELSE 0
    <3>1. \A i \in 1..n : LimitOf(tx.instructions[i].data) \in Nat
      BY <1>3, LimitType
    <3>2. s = [i \in 1..n |-> IF IsBudget(tx, i) THEN LimitOf(tx.instructions[i].data) ELSE 0]
      BY DEF Limits, n
    <3> QED BY <1>3, <3>1, <3>2
  <2> HIDE DEF s
  <2>2. LastSet(s, 0) > 0 <=> \E i \in 1..n : s[i] > 0
    BY <2>1, LastSetIs
  <2>3. \A i \in 1..n : s[i] \in Nat
    BY <2>1, ElementOfSeq
  <2>4. CASE p = <<>>
    <3>1. \A i \in 1..n : ~IsBudget(tx, i)
      BY <1>7, <1>8, <2>4
    <3> QED BY <1>4, <1>5, <1>9, <2>4, <3>1
  <2>5. CASE p # <<>>
    <3>1. missing \in risk_flags <=> ~(LastSet(s, 0) > 0)
      BY <1>4, <1>5, <1>9, <2>5 DEF s
    <3>2. (\E i \in 1..n : s[i] > 0) <=> \E i \in 1..n : IsBudget(tx, i) /\ LimitOf(tx.instructions[i].data) # 0
      BY <2>1, <2>3
    <3> QED BY <2>2, <3>1, <3>2
  <2> QED BY <2>4, <2>5
<1> QED BY <1>10, <1>11 DEF Indexes, n

-----------------------------------------------------------------------------
(* Privileges *)

\* The accounts of a decoded instruction are the client's, with their keys and the keys' privileges.
PassedOn(t, made, given) ==
  /\ Len(made) = Len(given)
  /\ \A j \in 1..Len(given) :
       /\ made[j].account_index = given[j]
       /\ made[j].pubkey = IF given[j] < Len(t.keys) THEN t.keys[given[j] + 1] ELSE NoKey
       /\ given[j] < Len(t.keys) => /\ made[j].is_signer = IsSigner(t, given[j])
                                    /\ made[j].is_writable = IsWritable(t, given[j])

LEMMA DecodedAccounts ==
  ASSUME NEW t, NEW schema, NEW i \in 1..Len(t.instructions),
         Len(t.instructions[i].accounts) \in Nat
  PROVE  PassedOn(t, DecodedInstructions(t, schema)[i].accounts, t.instructions[i].accounts)
<1> DEFINE ix == t.instructions[i]
           d == Decoded(t, ix, schema)
           m == Len(ix.accounts)
           made == DecodedInstructions(t, schema)[i].accounts
<1>1. DecodedInstructions(t, schema)[i] = Annotated(d, schema)
  BY DEF DecodedInstructions
<1>2. d.accounts = [j \in 1..m |-> Mapped(t, ix.accounts[j])] /\ "accounts" \in DOMAIN d
  BY DEF Decoded
<1>3. Len(d.accounts) = m
  BY <1>2
<1> HIDE DEF d, m
<1>4. made = [j \in 1..m |-> [d.accounts[j] EXCEPT !.name = Name(d, j, schema)]]
  BY <1>1, <1>2, <1>3 DEF Annotated
<1>5. Len(made) = m
  BY <1>4 DEF m
<1> HIDE DEF made
<1>6. ASSUME NEW j \in 1..m
      PROVE  /\ made[j].account_index = ix.accounts[j]
             /\ made[j].pubkey = IF ix.accounts[j] < Len(t.keys) THEN t.keys[ix.accounts[j] + 1] ELSE NoKey
             /\ ix.accounts[j] < Len(t.keys) => /\ made[j].is_signer = IsSigner(t, ix.accounts[j])
                                                /\ made[j].is_writable = IsWritable(t, ix.accounts[j])
  <2> DEFINE idx == ix.accounts[j]
             g == Mapped(t, idx)
  <2>1. made[j] = [g EXCEPT !.name = Name(d, j, schema)]
    BY <1>2, <1>4
  <2>2. /\ g.account_index = idx /\ DOMAIN g = {"name", "pubkey", "account_index", "is_signer", "is_writable"}
        /\ g.pubkey = IF idx < Len(t.keys) THEN t.keys[idx + 1] ELSE NoKey
        /\ idx < Len(t.keys) => g.is_signer = IsSigner(t, idx) /\ g.is_writable = IsWritable(t, idx)
    <3> HIDE DEF idx
    <3>1. CASE idx < Len(t.keys)
      BY <3>1 DEF Mapped
    <3>2. CASE ~(idx < Len(t.keys))
      BY <3>2 DEF Mapped
    <3> QED BY <3>1, <3>2
  <2> HIDE DEF g
  <2>3. \A field \in {"account_index", "pubkey", "is_signer", "is_writable"} : made[j][field] = g[field]
    BY <2>1, <2>2
  <2>4. /\ made[j].account_index = g.account_index /\ made[j].pubkey = g.pubkey
        /\ made[j].is_signer = g.is_signer /\ made[j].is_writable = g.is_writable
    BY <2>3
  <2> QED BY <2>2, <2>4
<1> QED BY <1>5, <1>6 DEF m, made, PassedOn

\* The header gives every key the privileges the client meant it to have.
LEMMA PrivilegesMeant ==
  ASSUME Grouped(tx, input.groups), NEW k \in 1..Len(tx.keys)
  PROVE  /\ IsSigner(tx, k - 1) <=> Meant(k).is_signer
         /\ IsWritable(tx, k - 1) <=> Meant(k).is_writable
<1>1. PICK a, b, c, d \in Nat : GroupsAre(tx, input.groups, a, b, c, d)
  BY GroupSizes, Zenon
<1>2. /\ input.groups[1] = a /\ input.groups[2] = b /\ input.groups[3] = c
      /\ tx.required = a + b /\ tx.readonly_signed = b /\ tx.readonly_unsigned = d
      /\ Len(tx.keys) = a + b + c + d
  BY <1>1 DEF GroupsAre
<1>3. saturating_sub(a + b, b) = a /\ saturating_sub(a + b + c + d, d) = a + b + c
  BY DEF saturating_sub
<1>4. k \in Nat \ {0}
  BY <1>2
<1>5. Meant(k).is_signer = (k <= a + b)
  BY <1>2 DEF Meant
<1>6. Meant(k).is_writable = (k <= a \/ k \in (a + b + 1)..(a + b + c))
  BY <1>2 DEF Meant
<1>7. IsSigner(tx, k - 1) <=> k <= a + b
  BY <1>2, <1>4 DEF IsSigner
<1>8. IsWritable(tx, k - 1) <=> k <= a \/ k \in (a + b + 1)..(a + b + c)
  BY <1>2, <1>3, <1>4 DEF IsWritable
<1> QED BY <1>5, <1>6, <1>7, <1>8

LEMMA PrivilegesLemma == ASSUME AuditInv PROVE PrivilegesAsMeant
<1>1. SUFFICES ASSUME Audited PROVE PrivilegesAsMeant
  BY DEF PrivilegesAsMeant
<1> DEFINE schema == input.schema
           made == DecodedInstructions(tx, schema)
<1>2. /\ Compiled(tx) /\ Grouped(tx, input.groups) /\ Len(tx.keys) \in Nat
  <2>1. Compiled(tx) /\ Grouped(tx, input.groups)
    BY <1>1, InputMeans DEF AuditInv, Audited
  <2> QED BY <2>1, LenProperties DEF Compiled
<1>3. report = decode_versioned_tx(tx, schema)
  BY <1>1 DEF AuditInv, Audited, Compared, Reported
<1>4. report.instructions = made /\ report.accounts = Accounts(tx)
  BY <1>3 DEF decode_versioned_tx
<1>5. /\ Len(report.accounts) = Len(tx.keys)
      /\ \A k \in 1..Len(tx.keys) : /\ report.accounts[k].is_signer = IsSigner(tx, k - 1)
                                    /\ report.accounts[k].is_writable = IsWritable(tx, k - 1)
                                    /\ report.accounts[k].pubkey = tx.keys[k]
  BY <1>2, <1>4 DEF Accounts
<1>6. Len(tx.instructions) \in Nat /\ Len(made) = Len(tx.instructions)
  <2>1. Len(tx.instructions) \in Nat
    BY <1>2, LenProperties DEF Compiled
  <2> QED BY <2>1 DEF DecodedInstructions
<1>7. \A i \in Indexes : /\ Len(tx.instructions[i].accounts) \in Nat
                         /\ \A j \in 1..Len(tx.instructions[i].accounts) : tx.instructions[i].accounts[j] \in Nat
  <2>1. \A i \in Indexes : tx.instructions[i] \in Instruction
    BY <1>2, ElementOfSeq DEF Compiled, Indexes
  <2>2. \A i \in Indexes : tx.instructions[i].accounts \in Seq(Byte)
    BY <2>1 DEF Instruction
  <2>3. ASSUME NEW s \in Seq(Byte)
        PROVE  Len(s) \in Nat /\ \A j \in 1..Len(s) : s[j] \in Nat
    <3>1. Len(s) \in Nat /\ \A j \in 1..Len(s) : s[j] \in Byte
      BY LenProperties, ElementOfSeq
    <3> QED BY <3>1, RadixAssumption DEF Byte
  <2> QED BY <2>2, <2>3
<1>8. ASSUME NEW k \in 1..Len(tx.keys)
      PROVE  /\ report.accounts[k].is_signer = Meant(k).is_signer
             /\ report.accounts[k].is_writable = Meant(k).is_writable
             /\ NumbersFit =>
                  (Flag("Critical", "InsecureWritable", -1, <<k - 1>>) \in risk_flags
                     <=> Meant(k).is_writable /\ tx.keys[k] \in Sysvars \cup KnownPrograms)
  <2> DEFINE flag == Flag("Critical", "InsecureWritable", -1, <<k - 1>>)
  <2>1. IsSigner(tx, k - 1) <=> Meant(k).is_signer
    BY <1>2, PrivilegesMeant
  <2>2. IsWritable(tx, k - 1) <=> Meant(k).is_writable
    BY <1>2, PrivilegesMeant
  <2>3. {IsSigner(tx, k - 1), IsWritable(tx, k - 1), Meant(k).is_signer, Meant(k).is_writable}
           \subseteq BOOLEAN
    BY DEF IsSigner, IsWritable, Meant
  <2>4. IsSigner(tx, k - 1) = Meant(k).is_signer /\ IsWritable(tx, k - 1) = Meant(k).is_writable
    BY <2>1, <2>2, <2>3
  <2>5. flag \in risk_flags <=> flag \in WritableEntities(report)
    BY <1>1, AuditedFlags, FlagCategory
  <2>6. NumbersFit => (flag \in WritableEntities(report) <=>
          IsWritable(tx, k - 1) /\ tx.keys[k] \in Sysvars \cup KnownPrograms)
    <3>0. SUFFICES ASSUME NumbersFit
                   PROVE  flag \in WritableEntities(report) <=>
                            IsWritable(tx, k - 1) /\ tx.keys[k] \in Sysvars \cup KnownPrograms
      OBVIOUS
    <3>1. \A m \in 1..Len(tx.keys) :
            /\ Flag("Critical", "InsecureWritable", -1, <<u8(m - 1)>>) = flag => m = k
            /\ m = k => Flag("Critical", "InsecureWritable", -1, <<u8(m - 1)>>) = flag
      <4>1. ASSUME NEW m \in 1..Len(tx.keys) PROVE u8(m - 1) = m - 1
        <5>1. Len(tx.keys) <= 2 * Radix /\ 2 * Radix \in Nat
          BY <3>0, RadixAssumption DEF NumbersFit
        <5>2. m - 1 \in Nat /\ m - 1 < 2 * Radix
          BY <1>2, <5>1
        <5> QED BY <5>2, U8Is
      <4> QED BY <1>2, <4>1 DEF Flag
    <3>2. WritableEntities(report) =
            {Flag("Critical", "InsecureWritable", -1, <<u8(m - 1)>>) :
               m \in {j \in 1..Len(tx.keys) : /\ report.accounts[j].is_writable
                                              /\ report.accounts[j].pubkey \in Sysvars \cup KnownPrograms}}
      BY <1>5 DEF WritableEntities
    <3> HIDE DEF flag
    <3>3. flag \in WritableEntities(report) <=>
            report.accounts[k].is_writable /\ report.accounts[k].pubkey \in Sysvars \cup KnownPrograms
      BY <3>1, <3>2 DEF flag
    <3> QED BY <1>5, <3>3
  <2> QED BY <1>5, <2>2, <2>4, <2>5, <2>6
<1>9. ASSUME NumbersFit, NEW i \in Indexes, NEW d \in Declared(report.instructions[i], schema),
             d.position \in 1..Len(tx.instructions[i].accounts),
             tx.instructions[i].accounts[d.position] + 1 <= Len(tx.keys),
             \A e \in Declared(report.instructions[i], schema) :
               e.position \in 1..Len(tx.instructions[i].accounts) =>
                 e = d \/ tx.instructions[i].accounts[e.position] # tx.instructions[i].accounts[d.position]
      PROVE  LET k == tx.instructions[i].accounts[d.position] + 1
             IN  /\ Flag("Critical", "MissingSigner", i - 1, <<k - 1>>) \in risk_flags
                      <=> d.account.signer /\ ~Meant(k).is_signer
                 /\ schema.kind = "native" =>
                      (Flag("Warning", "WritableMismatch", i - 1, <<k - 1>>) \in risk_flags
                         <=> d.account.writable /\ ~Meant(k).is_writable)
  <2> DEFINE given == tx.instructions[i].accounts
             idx == given[d.position]
             mine == [instruction |-> i, declared |-> d,
                      account |-> report.instructions[i].accounts[d.position]]
             unsigned == Flag("Critical", "MissingSigner", i - 1, <<idx>>)
             readonly == Flag("Warning", "WritableMismatch", i - 1, <<idx>>)
  <2>0. \A n \in Indexes : u8(n - 1) = n - 1
    <3>1. ASSUME NEW n \in Indexes PROVE u8(n - 1) = n - 1
      <4>1. Len(tx.instructions) <= 2 * Radix /\ 2 * Radix \in Nat
        BY <1>9, RadixAssumption DEF NumbersFit
      <4>2. n - 1 \in Nat /\ n - 1 < 2 * Radix
        BY <1>6, <4>1 DEF Indexes
      <4> QED BY <4>2, U8Is
    <3> QED BY <3>1
  <2>1. idx \in Nat /\ idx + 1 \in 1..Len(tx.keys) /\ (idx + 1) - 1 = idx /\ idx < Len(tx.keys)
    <3>1. idx \in Nat
      BY <1>7, <1>9
    <3>2. idx + 1 <= Len(tx.keys)
      BY <1>9
    <3> HIDE DEF idx
    <3> QED BY <1>2, <3>1, <3>2
  <2>2. schema.kind # "none"
    BY DEF Declared, Declaration
  <2>3. /\ Len(report.instructions[i].accounts) = Len(given)
        /\ \A j \in 1..Len(given) : report.instructions[i].accounts[j].account_index = given[j]
        /\ mine.account.is_signer = IsSigner(tx, idx)
        /\ mine.account.is_writable = IsWritable(tx, idx)
    <3>1. i \in 1..Len(tx.instructions) /\ Len(given) \in Nat
      BY <1>7 DEF Indexes
    <3>2. PassedOn(tx, made[i].accounts, given)
      BY <3>1, DecodedAccounts
    <3> HIDE DEF made
    <3> QED BY <1>4, <1>9, <2>1, <3>2 DEF PassedOn
  <2>4. /\ mine \in Meetings(report, schema)
        /\ \A m \in Meetings(report, schema) :
             u8(m.instruction - 1) = i - 1 /\ m.account.account_index = idx => m = mine
    <3> DEFINE M(n) == {[instruction |-> n, declared |-> e, account |-> report.instructions[n].accounts[e.position]] :
                          e \in {x \in Declared(report.instructions[n], schema) :
                                   x.position \in 1..Len(report.instructions[n].accounts)}}
    <3>1. Meetings(report, schema) = UNION {M(n) : n \in Indexes}
      BY <1>4, <1>6 DEF Meetings, Indexes
    <3>2. mine \in M(i)
      BY <1>9, <2>3
    <3>3. ASSUME NEW n \in Indexes, NEW m \in M(n), u8(m.instruction - 1) = i - 1,
                 m.account.account_index = idx
          PROVE  m = mine
      <4>1. n = i
        <5>1. m.instruction = n
          OBVIOUS
        <5>2. u8(n - 1) = n - 1
          BY <2>0
        <5> QED BY <1>6, <3>3, <5>1, <5>2 DEF Indexes
      <4>2. PICK e \in Declared(report.instructions[i], schema) :
              /\ e.position \in 1..Len(given)
              /\ m = [instruction |-> i, declared |-> e, account |-> report.instructions[i].accounts[e.position]]
        BY <2>3, <4>1
      <4>3. given[e.position] = idx
        BY <2>3, <3>3, <4>2
      <4>4. e = d
        BY <1>9, <4>2, <4>3
      <4> QED BY <4>2, <4>4
    <3> HIDE DEF M
    <3> QED BY <3>1, <3>2, <3>3
  <2>5. u8(mine.instruction - 1) = i - 1 /\ mine.declared = d /\ mine.account.account_index = idx
    BY <1>9, <2>0, <2>3
  <2> HIDE DEF mine
  <2>6. unsigned \in MissingSigners(report, schema) <=> d.account.signer /\ ~mine.account.is_signer
    <3>1. \A m : unsigned = Flag("Critical", "MissingSigner", u8(m.instruction - 1), <<m.account.account_index>>)
                   => u8(m.instruction - 1) = i - 1 /\ m.account.account_index = idx
      BY DEF Flag
    <3>2. unsigned = Flag("Critical", "MissingSigner", u8(mine.instruction - 1), <<mine.account.account_index>>)
      BY <2>5
    <3> HIDE DEF unsigned
    <3>3. unsigned \in MissingSigners(report, schema) <=>
            \E m \in Meetings(report, schema) :
              /\ m.declared.account.signer /\ ~m.account.is_signer
              /\ unsigned = Flag("Critical", "MissingSigner", u8(m.instruction - 1), <<m.account.account_index>>)
      BY DEF MissingSigners
    <3> QED BY <2>4, <2>5, <3>1, <3>2, <3>3
  <2>7. schema.kind = "native" =>
          (readonly \in WritableRoles(report, schema) <=> d.account.writable /\ ~mine.account.is_writable)
    <3>1. \A m : readonly = Flag("Warning", "WritableMismatch", u8(m.instruction - 1), <<m.account.account_index>>)
                   => u8(m.instruction - 1) = i - 1 /\ m.account.account_index = idx
      BY DEF Flag
    <3>2. readonly = Flag("Warning", "WritableMismatch", u8(mine.instruction - 1), <<mine.account.account_index>>)
      BY <2>5
    <3> HIDE DEF readonly
    <3>3. readonly \in WritableRoles(report, schema) <=>
            \E m \in Meetings(report, schema) :
              /\ schema.kind = "native" /\ m.declared.account.writable /\ ~m.account.is_writable
              /\ readonly = Flag("Warning", "WritableMismatch", u8(m.instruction - 1), <<m.account.account_index>>)
      BY DEF WritableRoles
    <3> QED BY <2>4, <2>5, <3>1, <3>2, <3>3
  <2>8. /\ unsigned \in risk_flags <=> unsigned \in MissingSigners(report, schema)
        /\ readonly \in risk_flags <=> readonly \in WritableRoles(report, schema)
    BY <1>1, <2>2, AuditedFlags, FlagCategory
  <2>9. /\ IsSigner(tx, idx) <=> Meant(idx + 1).is_signer
        /\ IsWritable(tx, idx) <=> Meant(idx + 1).is_writable
    BY <1>2, <2>1, PrivilegesMeant
  <2> HIDE DEF unsigned, readonly, idx
  <2>10. /\ unsigned \in risk_flags <=> d.account.signer /\ ~Meant(idx + 1).is_signer
         /\ schema.kind = "native" =>
              (readonly \in risk_flags <=> d.account.writable /\ ~Meant(idx + 1).is_writable)
    BY <2>3, <2>6, <2>7, <2>8, <2>9 DEF idx
  <2> QED BY <2>1, <2>10 DEF unsigned, readonly, idx
<1> QED BY <1>8, <1>9 DEF PrivilegesAsMeant

-----------------------------------------------------------------------------
(* What holds of an audit *)

\* What each phase leaves behind: the report is the decoder's, the flags are those
\* of the stages that ran, and only text that cannot be read was refused.
THEOREM AuditInvariant == AuditSpec => []AuditInv
<1>1. AuditInit => AuditInv
  BY AuditInitHolds
<1>2. AuditInv /\ [AuditNext]_auditVars => AuditInv'
  BY AuditStep
<1> QED BY <1>1, <1>2, PTL DEF AuditSpec

\* decode_input reads every text its client spelled in one of the encodings, and
\* refuses only what carries no sign of its encoding.
THEOREM ReadTheorem == AuditSpec => []ReadAsGiven
<1>1. AuditInv => ReadAsGiven
  BY ReadLemma
<1> QED BY <1>1, AuditInvariant, PTL

\* verify_report flags no transaction the runtime accepts, and every other one;
\* without the fee payer's signature the flag is Critical. For any numbers of
\* signatures and signers.
THEOREM SignaturesTheorem == AuditSpec => []SignaturesJudged
<1>1. AuditInv => SignaturesJudged
  BY SignaturesLemma
<1> QED BY <1>1, AuditInvariant, PTL

\* Exactly the ComputeBudget instructions that follow another program's are flagged
\* as reordered, of the transactions whose numbers fit in a u8, and the limit is
\* missing exactly when none sets one, for any instructions in any order.
THEOREM BudgetTheorem == AuditSpec => []BudgetJudged
<1>1. AuditInv => BudgetJudged
  BY BudgetLemma
<1> QED BY <1>1, AuditInvariant, PTL

\* The privileges in the report are those the client's
\* groups of accounts have, for any header and any schema; so are the flags for
\* them, of the transactions whose numbers fit in a u8.
THEOREM PrivilegesTheorem == AuditSpec => []PrivilegesAsMeant
<1>1. AuditInv => PrivilegesAsMeant
  BY PrivilegesLemma
<1> QED BY <1>1, AuditInvariant, PTL

-----------------------------------------------------------------------------
(* The names of a schema's instructions *)

\* The declarations whose discriminator data begin with.
Fitting(data, exp) ==
  {i \in 1..Len(exp.instructions) : /\ Len(exp.instructions[i].discriminator) \in {1, DiscLen}
                                    /\ StartsWith(data, exp.instructions[i].discriminator)}

\* What one more declaration makes of the best one so far.
Surpasses(data, exp, best, i) ==
  /\ i \in Fitting(data, exp)
  /\ \A b \in best : Len(exp.instructions[i].discriminator) > Len(exp.instructions[b].discriminator)

\* The best ones after each declaration, from none to all.
Elects(c, data, exp, n) ==
  c[0] = {} /\ \A k \in 1..n : c[k] = IF Surpasses(data, exp, c[k - 1], k) THEN {k} ELSE c[k - 1]

LEMMA MatchUnfolds ==
  ASSUME NEW program, NEW data, NEW exp, Len(exp.instructions) \in Nat, exp.program_id \in {NoKey, program}
  PROVE  \E c \in [0..Len(exp.instructions) -> SUBSET (1..Len(exp.instructions))] :
            /\ Elects(c, data, exp, Len(exp.instructions))
            /\ match_expectation(program, data, exp) = c[Len(exp.instructions)]
<1> DEFINE n == Len(exp.instructions)
           s == [i \in 1..n |-> i]
           X == SUBSET (1..n)
           disc(i) == exp.instructions[i].discriminator
           Wins(best, i) == /\ Len(disc(i)) \in {1, DiscLen} /\ StartsWith(data, disc(i))
                            /\ \A b \in best : Len(disc(i)) > Len(disc(b))
           Fits(it) == it = [t \in SUBSET (DOMAIN s) |->
                               IF t = {} THEN {}
                               ELSE IF Wins(it[t \ {Max(t)}], s[Max(t)])
                                 THEN {s[Max(t)]} ELSE it[t \ {Max(t)}]]
           iter == CHOOSE it : Fits(it)
           succ == [k \in 1..n |-> [best \in X |-> IF Surpasses(data, exp, best, k) THEN {k} ELSE best]]
<1>1. match_expectation(program, data, exp) = iter[DOMAIN s]
  BY Zenon DEF match_expectation, FoldLeft, MapThenFoldSet
<1>2. n \in Nat /\ DOMAIN s = 1..n /\ \A k \in 1..n : s[k] = k
  OBVIOUS
<1>3. \A k \in 1..n : \A best : Wins(best, k) <=> Surpasses(data, exp, best, k)
  BY Zenon DEF Surpasses, Fitting
<1>4. succ \in [1..n -> [X -> X]] /\ {} \in X
  OBVIOUS
<1> HIDE DEF Wins
<1>5. PICK g \in [SUBSET (1..n) -> X] : Folds(g, {}, succ, n)
  <2> HIDE DEF succ, n, X
  <2> QED BY <1>2, <1>4, FoldDefined
<1>6. Fits(g)
  <2>1. ASSUME NEW t \in SUBSET (1..n), t # {}
        PROVE  g[t] = IF Wins(g[t \ {Max(t)}], s[Max(t)]) THEN {s[Max(t)]} ELSE g[t \ {Max(t)}]
    <3>1. Max(t) \in 1..n /\ t \ {Max(t)} \in SUBSET (1..n)
      <4> HIDE DEF n
      <4> QED BY <2>1, <1>2, MaxProperties
    <3>2. g[t \ {Max(t)}] \in X
      BY <3>1, <1>5
    <3>3. g[t] = succ[Max(t)][g[t \ {Max(t)}]]
      BY <2>1, <1>5 DEF Folds
    <3> QED BY <1>2, <1>3, <3>1, <3>2, <3>3
  <2> QED BY <1>2, <1>5, <2>1 DEF Folds
<1>7. Fits(iter)
  <2> HIDE DEF Fits
  <2> QED BY <1>6
<1>8. iter[{}] = {}
  BY <1>7
<1>9. ASSUME NEW k \in 1..n, iter[1..(k - 1)] \in X
      PROVE  iter[1..k] = succ[k][iter[1..(k - 1)]]
  <2>1. Max(1..k) = k /\ (1..k) \ {Max(1..k)} = 1..(k - 1)
    BY <1>2, MaxOfPrefix
  <2>2. 1..k \in SUBSET (DOMAIN s) /\ 1..k # {}
    BY <1>2
  <2>3. iter[1..k] = IF Wins(iter[1..(k - 1)], k) THEN {k} ELSE iter[1..(k - 1)]
    <3>1. Fits(iter) => \A t \in SUBSET (DOMAIN s) : t # {} =>
            iter[t] = IF Wins(iter[t \ {Max(t)}], s[Max(t)]) THEN {s[Max(t)]} ELSE iter[t \ {Max(t)}]
      <4> HIDE DEF iter, s
      <4> QED OBVIOUS
    <3>2. iter[1..k] = IF Wins(iter[(1..k) \ {Max(1..k)}], s[Max(1..k)])
                         THEN {s[Max(1..k)]} ELSE iter[(1..k) \ {Max(1..k)}]
      <4> HIDE DEF iter, s, Fits
      <4> QED BY <1>7, <2>2, <3>1
    <3>3. s[k] = k
      OBVIOUS
    <3> HIDE DEF iter, s
    <3> QED BY <2>1, <3>2, <3>3
  <2> HIDE DEF iter
  <2> QED BY <1>3, <1>9, <2>3
<1>10. PICK c \in [0..n -> X] : Unrolls(c, {}, succ, n) /\ c[n] = iter[1..n]
  <2> HIDE DEF iter, succ, n, X
  <2>1. OnPrefixes(iter, {}, succ, n, X)
    BY <1>8, <1>9 DEF OnPrefixes
  <2> QED BY <2>1, <1>2, <1>4, FoldPrefixes
<1>11. \A k \in 1..n : c[k - 1] \in X
  BY <1>2, SMTT(30)
<1>12. Elects(c, data, exp, n)
  BY <1>10, <1>11 DEF Unrolls, Elects
<1> QED BY <1>1, <1>2, <1>10, <1>12

\* match_expectation finds a declaration of the longest discriminator that fits, if one does.
LEMMA MatchLongest ==
  ASSUME NEW program, NEW data, NEW exp, Len(exp.instructions) \in Nat, exp.program_id \in {NoKey, program},
         \A i \in 1..Len(exp.instructions) : Len(exp.instructions[i].discriminator) \in Nat
  PROVE  \/ Fitting(data, exp) = {} /\ match_expectation(program, data, exp) = {}
         \/ \E i \in Fitting(data, exp) :
              /\ match_expectation(program, data, exp) = {i}
              /\ \A j \in Fitting(data, exp) :
                   Len(exp.instructions[j].discriminator) <= Len(exp.instructions[i].discriminator)
<1> DEFINE n == Len(exp.instructions)
           F == Fitting(data, exp)
           len(i) == Len(exp.instructions[i].discriminator)
<1>1. PICK c \in [0..n -> SUBSET (1..n)] :
         Elects(c, data, exp, n) /\ match_expectation(program, data, exp) = c[n]
  BY MatchUnfolds, Zenon
<1> DEFINE Best(k) == \/ c[k] = {} /\ \A j \in 1..k : j \notin F
                      \/ \E i \in F \cap (1..k) : c[k] = {i} /\ \A j \in F \cap (1..k) : len(j) <= len(i)
           T == {k \in 0..n : Best(k)}
<1>2. F \subseteq 1..n /\ \A i \in 1..n : len(i) \in Nat
  BY DEF Fitting
<1>3. /\ c[0] = {}
      /\ \A k \in 1..n : c[k] = IF k \in F /\ \A b \in c[k - 1] : len(k) > len(b) THEN {k} ELSE c[k - 1]
  BY <1>1, Zenon DEF Elects, Surpasses
<1> HIDE DEF len, F
<1>4. 0 \in T
  BY <1>3
<1>5. ASSUME NEW k \in 1..n, k - 1 \in T
      PROVE  k \in T
  <2>1. Best(k - 1) /\ k \in 0..n
    BY <1>5
  <2>2. \A j \in 1..k : j = k \/ j \in 1..(k - 1)
    OBVIOUS
  <2>3. k \in 1..k /\ 1..(k - 1) \subseteq 1..k
    OBVIOUS
  <2>4. CASE k \notin F
    <3>1. c[k] = c[k - 1]
      BY <1>3, <2>4
    <3> QED BY <2>1, <2>2, <2>3, <2>4, <3>1
  <2>5. CASE k \in F /\ c[k - 1] = {} /\ \A j \in 1..(k - 1) : j \notin F
    <3>1. c[k] = {k}
      BY <1>3, <2>5
    <3>2. \A j \in F \cap (1..k) : j = k
      BY <2>2, <2>5
    <3>3. len(k) <= len(k)
      BY <1>2
    <3> QED BY <2>1, <2>3, <2>5, <3>1, <3>2, <3>3
  <2>6. ASSUME k \in F, NEW i \in F \cap (1..(k - 1)), c[k - 1] = {i}, \A j \in F \cap (1..(k - 1)) : len(j) <= len(i)
        PROVE  k \in T
    <3>1. len(i) \in Nat /\ len(k) \in Nat /\ \A j \in F : len(j) \in Nat
      BY <1>2, <2>6
    <3>2. CASE len(k) > len(i)
      <4>1. c[k] = {k}
        BY <1>3, <2>6, <3>2
      <4>2. \A j \in F \cap (1..k) : len(j) <= len(k)
        BY <2>2, <2>6, <3>1, <3>2
      <4> QED BY <2>1, <2>3, <2>6, <4>1, <4>2
    <3>3. CASE ~(len(k) > len(i))
      <4>1. c[k] = {i}
        BY <1>3, <2>6, <3>3
      <4>2. \A j \in F \cap (1..k) : len(j) <= len(i)
        BY <2>2, <2>6, <3>1, <3>3
      <4> QED BY <2>1, <2>3, <2>6, <4>1, <4>2
    <3> QED BY <3>2, <3>3
  <2> QED BY <2>1, <2>4, <2>5, <2>6
<1>6. n \in Nat
  OBVIOUS
<1>7. n \in T
  <2> HIDE DEF T, n
  <2>1. \A k \in 0..n : k \in T
    BY <1>4, <1>5, <1>6, Upward
  <2> QED BY <1>6, <2>1
<1>8. Best(n)
  BY <1>7
<1>9. F \cap (1..n) = F /\ \A j \in F : j \in 1..n
  BY <1>2
<1> HIDE DEF n
<1> QED BY <1>1, <1>8, <1>9, Zenon DEF F, len

\* Data that begin with a discriminator are as long as it.
LEMMA SchemaElements ==
  ASSUME NEW schema, Declares(schema)
  PROVE  /\ Len(schema.instructions) \in Nat
         /\ Range(schema.instructions) = {schema.instructions[i] : i \in 1..Len(schema.instructions)}
         /\ \A i \in 1..Len(schema.instructions) :
              LET l == Len(DiscriminatorOf(schema.instructions[i], schema))
              IN  /\ l \in Nat \ {0} /\ l \in {1, DiscLen}
                  /\ schema.kind = "idl" => l = DiscLen
<1> DEFINE s == schema.instructions
           len(d) == Len(DiscriminatorOf(d, schema))
<1>1. s \in Seq(Range(s)) /\ \A d \in Range(s) : len(d) \in (IF schema.kind = "idl" THEN {DiscLen} ELSE {1, DiscLen})
  BY DEF Declares
<1>2. Len(s) \in Nat /\ DOMAIN s = 1..Len(s)
  BY <1>1, LenProperties
<1>3. Range(s) = {s[i] : i \in 1..Len(s)}
  BY <1>2 DEF Range
<1>4. DiscLen \in Nat \ {0}
  BY WidthAssumption
<1> HIDE DEF len
<1>5. \A i \in 1..Len(s) : /\ len(s[i]) \in Nat \ {0} /\ len(s[i]) \in {1, DiscLen}
                           /\ schema.kind = "idl" => len(s[i]) = DiscLen
  BY <1>1, <1>3, <1>4
<1> QED BY <1>2, <1>3, <1>5 DEF len

\* Nothing is matched and there is no name, or one declaration is and it gives the name.
Selects(match, name, instructions) ==
  \/ name = Unnamed /\ match = {}
  \/ \E i \in 1..Len(instructions) : match = {i} /\ instructions[i].name = name

\* SchemaMatches finds what the client called, whichever kind of schema it is.
LEMMA MatchesTheCall ==
  ASSUME NEW program, NEW data \in Seq(Byte), NEW schema, Declares(schema),
         NEW name, CalledAs(name, program, data, schema)
  PROVE  Selects(SchemaMatches(program, data, schema), name, schema.instructions)
<1> DEFINE n == Len(schema.instructions)
           s == schema.instructions
           disc(i) == DiscriminatorOf(s[i], schema)
           len(i) == Len(disc(i))
           Uses(i) == /\ schema.kind = "native" => schema.program_id \in {NoKey, program}
                      /\ StartsWith(data, disc(i))
           usable == {d \in Range(schema.instructions) :
                        /\ schema.kind = "native" => schema.program_id \in {NoKey, program}
                        /\ StartsWith(data, DiscriminatorOf(d, schema))}
<1>1. /\ n \in Nat /\ Range(s) = {s[i] : i \in 1..n}
      /\ \A i \in 1..n : /\ len(i) \in Nat \ {0} /\ len(i) \in {1, DiscLen}
                         /\ schema.kind = "idl" => len(i) = DiscLen
  BY SchemaElements
<1>2. \/ name = Unnamed /\ usable = {}
      \/ \E d \in usable : /\ name = d.name
                           /\ \A e \in usable :
                                e.name = name \/ Len(DiscriminatorOf(e, schema)) < Len(DiscriminatorOf(d, schema))
  BY Zenon DEF CalledAs
<1>3. \A i \in 1..n : Uses(i) <=> s[i] \in usable
  BY <1>1
<1>4. \A d \in usable : \E i \in 1..n : Uses(i) /\ d = s[i]
  BY <1>1
<1> HIDE DEF usable, Uses
<1>5. \/ name = Unnamed /\ \A i \in 1..n : ~Uses(i)
      \/ \E j \in 1..n : /\ Uses(j) /\ s[j].name = name
                         /\ \A i \in 1..n : Uses(i) => s[i].name = name \/ len(i) < len(j)
  <2>1. CASE name = Unnamed /\ usable = {}
    BY <1>3, <2>1
  <2>2. ASSUME NEW d \in usable, name = d.name,
               \A e \in usable :
                 e.name = name \/ Len(DiscriminatorOf(e, schema)) < Len(DiscriminatorOf(d, schema))
        PROVE  \E j \in 1..n : /\ Uses(j) /\ s[j].name = name
                               /\ \A i \in 1..n : Uses(i) => s[i].name = name \/ len(i) < len(j)
    <3>1. PICK j \in 1..n : Uses(j) /\ d = s[j]
      BY <1>4
    <3>2. \A i \in 1..n : Uses(i) => s[i].name = name \/ len(i) < len(j)
      BY <1>3, <2>2, <3>1
    <3> HIDE DEF len
    <3> QED BY <2>2, <3>1, <3>2
  <2> QED BY <1>2, <2>1, <2>2
<1> USE DEF Selects
<1>6. CASE schema.kind = "none"
  <2>1. n = 0 /\ SchemaMatches(program, data, schema) = {}
    BY <1>6 DEF Declares, SchemaMatches
  <2> HIDE DEF n
  <2> QED BY <1>5, <2>1
<1>7. CASE schema.kind = "idl"
  <2> DEFINE M == IdlMatches(data, schema)
  <2>1. SchemaMatches(program, data, schema) = {i \in M : \A j \in M : i <= j}
    BY <1>7 DEF SchemaMatches
  <2>2. M = {i \in 1..n : Uses(i)}
    <3>1. M = {i \in 1..n : Len(data) >= DiscLen /\ StartsWith(data, disc(i))}
      BY <1>7 DEF IdlMatches, DiscriminatorOf
    <3>2. \A i \in 1..n : StartsWith(data, disc(i)) => Len(data) >= DiscLen
      BY <1>1, <1>7 DEF StartsWith
    <3>3. \A i \in 1..n : Uses(i) <=> StartsWith(data, disc(i))
      BY <1>7 DEF Uses
    <3> HIDE DEF disc, M
    <3> QED BY <3>1, <3>2, <3>3
  <2> HIDE DEF M, len
  <2>3. CASE \A i \in 1..n : ~Uses(i)
    BY <1>5, <2>1, <2>2, <2>3
  <2>4. CASE \E i \in 1..n : Uses(i)
    <3>1. \A i \in 1..n : Uses(i) => s[i].name = name
      <4>1. \A i, j \in 1..n : ~(len(i) < len(j))
        BY <1>1, <1>7, WidthAssumption
      <4> QED BY <1>5, <2>4, <4>1
    <3>2. PICK i \in M : \A j \in M : i <= j
      <4>1. M \in SUBSET Nat /\ M # {}
        BY <2>2, <2>4
      <4> QED BY <4>1, Smallest
    <3>3. \A j \in M : (\A k \in M : j <= k) => j = i
      BY <2>2, <3>2
    <3>4. SchemaMatches(program, data, schema) = {i}
      BY <2>1, <3>2, <3>3
    <3> QED BY <2>2, <3>1, <3>2, <3>4
  <2> QED BY <2>3, <2>4
<1>8. CASE schema.kind = "native"
  <2>1. SchemaMatches(program, data, schema) = match_expectation(program, data, schema)
    BY <1>8 DEF SchemaMatches
  <2>2. CASE schema.program_id \notin {NoKey, program}
    <3>1. match_expectation(program, data, schema) = {}
      BY <2>2, Zenon DEF match_expectation
    <3>2. \A i \in 1..n : ~Uses(i)
      BY <1>8, <2>2 DEF Uses
    <3> QED BY <1>5, <2>1, <3>1, <3>2
  <2>3. CASE schema.program_id \in {NoKey, program}
    <3>1. \A i \in 1..n : disc(i) = s[i].discriminator
      BY <1>8 DEF DiscriminatorOf
    <3>2. Fitting(data, schema) = {i \in 1..n : Uses(i)}
      BY <1>1, <2>3, <3>1 DEF Fitting, Uses
    <3>3. \/ Fitting(data, schema) = {} /\ match_expectation(program, data, schema) = {}
          \/ \E i \in Fitting(data, schema) :
               /\ match_expectation(program, data, schema) = {i}
               /\ \A j \in Fitting(data, schema) : len(j) <= len(i)
      <4>1. \A i \in 1..n : len(i) = Len(schema.instructions[i].discriminator) /\ len(i) \in Nat
        BY <1>1, <3>1
      <4>2. \/ Fitting(data, schema) = {} /\ match_expectation(program, data, schema) = {}
            \/ \E i \in Fitting(data, schema) :
                 /\ match_expectation(program, data, schema) = {i}
                 /\ \A j \in Fitting(data, schema) :
                      Len(schema.instructions[j].discriminator) <= Len(schema.instructions[i].discriminator)
        <5>1. /\ Len(schema.instructions) \in Nat
              /\ \A i \in 1..Len(schema.instructions) : Len(schema.instructions[i].discriminator) \in Nat
          BY <1>1, <4>1
        <5> HIDE DEF n, s, disc, len
        <5> QED BY <2>3, <5>1, MatchLongest
      <4>3. \A i \in Fitting(data, schema) : i \in 1..n
        BY <3>2
      <4> HIDE DEF len
      <4> QED BY <4>1, <4>2, <4>3
    <3> HIDE DEF len
    <3>4. \A i, j \in 1..n : ~(len(j) <= len(i) /\ len(i) < len(j))
      BY <1>1
    <3> QED BY <1>5, <2>1, <3>2, <3>3, <3>4
  <2> QED BY <2>2, <2>3
<1> QED BY <1>6, <1>7, <1>8 DEF Declares

LEMMA NamedByCall ==
  ASSUME NEW program, program \notin KnownPrograms, NEW data \in Seq(Byte), NEW schema, Declares(schema),
         NEW name, CalledAs(name, program, data, schema)
  PROVE  decode_instruction_data(program, data, schema).name = name
<1> DEFINE match == SchemaMatches(program, data, schema)
           s == schema.instructions
           found == IF match = {} THEN Unnamed ELSE s[CHOOSE i \in match : TRUE].name
<1>1. Selects(match, name, s)
  BY MatchesTheCall
<1>2. found = name
  <2>1. \A i : match = {i} => (CHOOSE j \in match : TRUE) = i
    OBVIOUS
  <2> HIDE DEF match
  <2> QED BY <1>1, <2>1 DEF Selects
<1>3. CASE data # <<>>
  <2>1. decode_instruction_data(program, data, schema) = Named(found, FALSE)
    BY <1>3, Zenon DEF decode_instruction_data, KnownPrograms
  <2> HIDE DEF found
  <2> QED BY <1>2, <2>1 DEF Named
<1>4. CASE data = <<>>
  <2>1. decode_instruction_data(program, data, schema) = Named(Unnamed, FALSE)
    BY <1>4 DEF decode_instruction_data
  <2>2. name = Unnamed
    <3>1. \A d \in Range(s) : ~StartsWith(data, DiscriminatorOf(d, schema))
      <4>1. Range(s) = {s[i] : i \in 1..Len(s)} /\ \A i \in 1..Len(s) : Len(DiscriminatorOf(s[i], schema)) \in Nat \ {0}
        BY SchemaElements
      <4>2. Len(data) = 0
        BY <1>4
      <4> QED BY <4>1, <4>2 DEF StartsWith
    <3> QED BY <3>1, Zenon DEF CalledAs
  <2> QED BY <2>1, <2>2 DEF Named
<1> QED BY <1>3, <1>4

LEMMA NamedLemma == ASSUME AuditInv PROVE NamedAsMeant
<1> DEFINE made == DecodedInstructions(tx, input.schema)
<1>1. SUFFICES ASSUME Audited, NEW i \in Indexes, ~IsBuiltIn(i), input.meant[i].names # {}
               PROVE  report.instructions[i].name \in input.meant[i].names
  BY DEF NamedAsMeant
<1>2. report.instructions = made
  BY <1>1 DEF AuditInv, Audited, Compared, Reported, decode_versioned_tx
<1> DEFINE ix == tx.instructions[i]
           program == ProgramOf(tx, ix)
<1>3. Compiled(tx) /\ Declares(input.schema) /\ Meaning(input)
  BY InputsAssumption DEF AuditInv, Given, tx
<1>4. PICK name \in input.meant[i].names : CalledAs(name, program, ix.data, input.schema)
  <2>1. program \notin KnownPrograms
    BY <1>1 DEF IsBuiltIn
  <2> QED BY <1>1, <1>3, <2>1, Zenon DEF Meaning, Indexes, tx
<1>5. ix.data \in Seq(Byte)
  <2>1. ix \in Instruction
    BY <1>3, ElementOfSeq DEF Compiled, Indexes
  <2> QED BY <2>1 DEF Instruction
<1>6. decode_instruction_data(program, ix.data, input.schema).name = name
  BY <1>1, <1>3, <1>4, <1>5, NamedByCall DEF IsBuiltIn
<1>7. made[i].name = decode_instruction_data(program, ix.data, input.schema).name
  <2> DEFINE d == Decoded(tx, ix, input.schema)
  <2>1. made[i] = Annotated(d, input.schema)
    BY <1>1 DEF DecodedInstructions, Indexes
  <2>2. d.name = decode_instruction_data(program, ix.data, input.schema).name /\ "name" \in DOMAIN d
    BY DEF Decoded
  <2>3. Annotated(d, input.schema).name = d.name
    <3> HIDE DEF d
    <3> QED BY <2>2 DEF Annotated
  <2> QED BY <2>1, <2>2, <2>3
<1> QED BY <1>2, <1>4, <1>6, <1>7

\* An instruction of a program that is not built in is named by the declaration its client
\* used, and by none when the schema is of another program: for any schema, whatever the
\* order of its declarations and the lengths of their discriminators.
THEOREM NamesTheorem == AuditSpec => []NamedAsMeant
<1>1. AuditInv => NamedAsMeant
  BY NamedLemma
<1> QED BY <1>1, AuditInvariant, PTL

-----------------------------------------------------------------------------
(* Expected addresses *)

\* What validate leaves in the accounts table.
ExpectedOK ==
  input.call = "main" /\ phase \in {"verify", "compare"} =>
    expected = [k \in 1..Len(report.accounts) |-> ExpectedAddress(report, input.schema, k - 1)]

LEMMA ExpectedStep == ASSUME ExpectedOK, [AuditNext]_auditVars PROVE ExpectedOK'
<1>1. CASE Decode
  BY <1>1 DEF Decode, ExpectedOK
<1>2. CASE Validate
  BY <1>2 DEF Validate, ExpectedOK
<1>3. CASE VerifySignatures
  BY <1>3 DEF VerifySignatures, ExpectedOK
<1>4. CASE Compare
  <2>1. input' = input /\ report' = report /\ phase' = phase /\ expected' = expected
    BY <1>4, ParserKeepsReport DEF Compare
  <2> QED BY <2>1 DEF ExpectedOK
<1>5. CASE UNCHANGED auditVars
  BY <1>5 DEF auditVars, ExpectedOK
<1> QED BY <1>1, <1>2, <1>3, <1>4, <1>5 DEF AuditNext, Done

\* What is derived is an account whose key is known.
LEMMA DerivationMeets ==
  ASSUME NEW r, NEW schema, NEW d \in Derivations(r, schema)
  PROVE  d.meeting \in Meetings(r, schema) /\ d.meeting.account.pubkey # NoKey
<1> DEFINE M == {n \in Meetings(r, schema) : /\ n.account.pubkey # NoKey
                                             /\ r.instructions[n.instruction].program_id # NoKey}
<1>1. PICK m \in M : d \in {[meeting |-> m, pda |-> p,
                             found |-> Derivation(p, r, r.instructions[m.instruction], schema)] :
                              p \in m.declared.account.pda}
  BY Zenon DEF Derivations
<1>2. d.meeting = m
  BY <1>1
<1> QED BY <1>1, <1>2

\* Where a derivation was tried, the instruction has the account, and its key is known.
LEMMA TriedWhere ==
  ASSUME NEW schema, Compiled(tx), report = decode_versioned_tx(tx, schema),
         NEW d \in Derivations(report, schema)
  PROVE  /\ schema.kind # "none"
         /\ d.meeting.instruction \in Indexes
         /\ d.meeting.account.account_index \in 0..(Len(tx.keys) - 1)
         /\ d.meeting.account.pubkey = tx.keys[d.meeting.account.account_index + 1]
<1> DEFINE made == DecodedInstructions(tx, schema)
<1>1. report.instructions = made /\ Len(made) = Len(tx.instructions) /\ Len(tx.instructions) \in Nat
  <2>1. report.instructions = made
    BY DEF decode_versioned_tx
  <2>2. Len(tx.instructions) \in Nat
    BY LenProperties DEF Compiled
  <2> QED BY <2>1, <2>2 DEF DecodedInstructions
<1>2. PICK m \in Meetings(report, schema) : m.account.pubkey # NoKey /\ d.meeting = m
  BY DerivationMeets
<1> HIDE DEF made
<1>3. PICK i \in Indexes : \E e \in Declared(made[i], schema) :
         /\ e.position \in 1..Len(made[i].accounts)
         /\ m = [instruction |-> i, declared |-> e, account |-> made[i].accounts[e.position]]
  BY <1>1 DEF Meetings, Indexes
<1>4. PICK e \in Declared(made[i], schema) :
         /\ e.position \in 1..Len(made[i].accounts)
         /\ m = [instruction |-> i, declared |-> e, account |-> made[i].accounts[e.position]]
  BY <1>3
<1>5. schema.kind # "none"
  BY <1>4 DEF Declared, Declaration
<1> DEFINE given == tx.instructions[i].accounts
           j == e.position
<1>6. given \in Seq(Byte) /\ Len(given) \in Nat
  <2>1. tx.instructions[i] \in Instruction
    BY ElementOfSeq DEF Compiled, Indexes
  <2>2. given \in Seq(Byte)
    BY <2>1 DEF Instruction
  <2> QED BY <2>2, LenProperties
<1>7. /\ Len(made[i].accounts) = Len(given)
      /\ \A k \in 1..Len(given) :
           /\ made[i].accounts[k].account_index = given[k]
           /\ made[i].accounts[k].pubkey = IF given[k] < Len(tx.keys) THEN tx.keys[given[k] + 1] ELSE NoKey
  <2>1. PassedOn(tx, made[i].accounts, given)
    BY <1>6, DecodedAccounts DEF made, Indexes
  <2> QED BY <2>1 DEF PassedOn
<1>8. given[j] \in Nat
  <2>1. given[j] \in Byte
    BY <1>4, <1>6, <1>7, ElementOfSeq
  <2> QED BY <2>1, RadixAssumption DEF Byte
<1>9. m.instruction = i /\ m.account = made[i].accounts[j]
  BY <1>4
<1>10. Len(tx.keys) \in Nat
  BY LenProperties DEF Compiled
<1>11. /\ m.account.account_index = given[j] /\ given[j] < Len(tx.keys)
       /\ m.account.pubkey = tx.keys[given[j] + 1]
  <2>1. j \in 1..Len(given)
    BY <1>4, <1>7
  <2> HIDE DEF given, j
  <2> QED BY <1>2, <1>7, <1>9, <2>1
<1> QED BY <1>2, <1>5, <1>8, <1>9, <1>10, <1>11

\* The ranks of the declared accounts of one instruction have a bound.
LEMMA RanksBounded ==
  ASSUME NEW schema, Declares(schema), NEW ix
  PROVE  \E b \in Nat : \A e \in Declared(ix, schema) : e.rank \in 1..b
<1>1. CASE Declaration(ix, schema) = {}
  BY <1>1 DEF Declared
<1>2. CASE Declaration(ix, schema) # {}
  <2> DEFINE s == schema.instructions
             same == {i \in 1..Len(s) : s[i].name = ix.name}
  <2>1. Len(s) \in Nat /\ Range(s) = {s[i] : i \in 1..Len(s)}
    BY SchemaElements
  <2>2. Declaration(ix, schema) = {s[i] : i \in {j \in same : \A k \in same : j <= k}}
    BY <1>2 DEF Declaration
  <2>3. \A i, j \in same : i <= j /\ j <= i => i = j
    BY <2>1
  <2>4. PICK i \in same : \A k \in same : i <= k
    <3> HIDE DEF s, same
    <3> QED BY <1>2, <2>2
  <2>5. \A d \in Declaration(ix, schema) : d = s[i]
    <3> HIDE DEF s, same
    <3> QED BY <2>2, <2>3, <2>4
  <2>6. Len(s[i].accounts) \in Nat
    <3>1. s[i] \in Range(s)
      BY <2>1, <2>4
    <3>2. s[i].accounts \in Seq(Range(s[i].accounts))
      BY <3>1 DEF Declares
    <3> QED BY <3>2, LenProperties
  <2>7. ASSUME NEW e \in Declared(ix, schema)
        PROVE  e.rank \in 1..Len(s[i].accounts)
    <3>1. PICK d \in Declaration(ix, schema) : \E a \in 1..Len(d.accounts) : e.rank = a
      BY DEF Declared
    <3> QED BY <2>5, <3>1
  <2> QED BY <2>6, <2>7
<1> QED BY <1>1, <1>2

\* Of the derivations of an account that came to an address, one is the last.
LEMMA LastTried ==
  ASSUME NEW schema, Declares(schema), Compiled(tx), report = decode_versioned_tx(tx, schema),
         NEW d \in Derivations(report, schema), d.found.outcome = "resolved"
  PROVE  ExpectedAddress(report, schema, d.meeting.account.account_index) # {}
<1> DEFINE index == d.meeting.account.account_index
           mine == {e \in Derivations(report, schema) :
                      e.found.outcome = "resolved" /\ e.meeting.account.account_index = index}
           Ix(e) == e.meeting.instruction
           Rank(e) == e.meeting.declared.rank
           Later(e, o) == \/ Ix(e) > Ix(o)
                          \/ Ix(e) = Ix(o) /\ Rank(e) >= Rank(o)
<1>1. \A e \in mine : Ix(e) \in Indexes
  BY TriedWhere
<1>2. Len(tx.instructions) \in Nat
  BY LenProperties DEF Compiled
<1>3. d \in mine
  OBVIOUS
<1>4. \A e \in mine : e.meeting.declared \in Declared(report.instructions[Ix(e)], schema)
  <2>1. \A m \in Meetings(report, schema) : m.declared \in Declared(report.instructions[m.instruction], schema)
    BY DEF Meetings
  <2>2. \A e \in Derivations(report, schema) : e.meeting \in Meetings(report, schema)
    BY DerivationMeets
  <2> QED BY <2>1, <2>2
<1> HIDE DEF mine
<1>5. PICK i \in {Ix(e) : e \in mine} : \A m \in {Ix(e) : e \in mine} : m <= i
  <2>1. {Ix(e) : e \in mine} \in SUBSET (1..Len(tx.instructions)) /\ {Ix(e) : e \in mine} # {}
    BY <1>1, <1>3 DEF Indexes
  <2> QED BY <1>2, <2>1, Largest
<1> DEFINE last == {e \in mine : Ix(e) = i}
<1>6. PICK b \in Nat : \A e \in Declared(report.instructions[i], schema) : e.rank \in 1..b
  BY RanksBounded
<1>7. \A e \in last : Rank(e) \in 1..b
  BY <1>4, <1>6
<1>8. PICK r \in {Rank(e) : e \in last} : \A m \in {Rank(e) : e \in last} : m <= r
  <2>1. {Rank(e) : e \in last} \in SUBSET (1..b) /\ {Rank(e) : e \in last} # {}
    BY <1>5, <1>7
  <2> HIDE DEF last
  <2> QED BY <2>1, Largest
<1>9. PICK e \in last : Rank(e) = r
  BY <1>8
<1>10. \A o \in mine : Later(e, o)
  <2>1. i \in Nat /\ \A o \in mine : Ix(o) \in Nat
    BY <1>1, <1>5 DEF Indexes
  <2>2. ASSUME NEW o \in mine
        PROVE  Later(e, o)
    <3>1. Ix(o) <= i /\ Ix(e) = i
      BY <1>5, <1>9, <2>2
    <3>2. CASE Ix(o) # i
      BY <2>1, <3>1, <3>2
    <3>3. CASE Ix(o) = i
      <4>1. Rank(o) <= r /\ Rank(o) \in Nat /\ r \in Nat
        BY <1>7, <1>8, <1>9, <3>3
      <4> QED BY <1>9, <2>1, <3>1, <3>3, <4>1
    <3> QED BY <3>2, <3>3
  <2> QED BY <2>2
<1>11. ExpectedAddress(report, schema, index) = {Expected(x, report) : x \in {e_ \in mine : \A o \in mine : Later(e_, o)}}
  BY Zenon DEF ExpectedAddress, mine
<1>12. e \in {e_ \in mine : \A o \in mine : Later(e_, o)}
  BY <1>9, <1>10
<1> HIDE DEF Later, last, index
<1> QED BY <1>11, <1>12 DEF index

LEMMA FlaggedLemma == ASSUME AuditInv, ExpectedOK PROVE ExpectedFlagged
<1>1. SUFFICES ASSUME Audited PROVE ExpectedFlagged
  BY DEF ExpectedFlagged
<1> DEFINE schema == input.schema
<1>2. Compiled(tx) /\ Declares(schema)
  BY InputsAssumption DEF AuditInv, Given, tx
<1>3. report = decode_versioned_tx(tx, schema)
  BY <1>1 DEF AuditInv, Audited, Compared, Reported
<1>4. Len(tx.keys) \in Nat /\ Len(report.accounts) = Len(tx.keys)
  <2>1. Len(tx.keys) \in Nat /\ report.accounts = Accounts(tx)
    BY <1>2, <1>3, LenProperties DEF Compiled, decode_versioned_tx
  <2> QED BY <2>1 DEF Accounts
<1>5. expected = [k \in 1..Len(tx.keys) |-> ExpectedAddress(report, schema, k - 1)]
  BY <1>1, <1>4 DEF ExpectedOK, Audited, Compared
<1>6. /\ \A f \in risk_flags : f.category = "PdaSeedMismatch" => f \in PdaFlags(report, schema)
      /\ schema.kind # "none" => PdaFlags(report, schema) \subseteq risk_flags
  BY <1>1, AuditedFlags
<1>7. \A d \in Derivations(report, schema) :
        /\ schema.kind # "none" /\ d.meeting.instruction \in Indexes
        /\ d.meeting.account.account_index \in 0..(Len(tx.keys) - 1)
        /\ d.meeting.account.pubkey = tx.keys[d.meeting.account.account_index + 1]
  BY <1>2, <1>3, TriedWhere
<1>8. ASSUME NEW k \in 1..Len(expected), NEW a \in expected[k], a # tx.keys[k]
      PROVE  \E i \in Indexes : PdaMismatch("Critical", i, k - 1)
  <2>1. k \in 1..Len(tx.keys) /\ a \in ExpectedAddress(report, schema, k - 1)
    BY <1>4, <1>5, <1>8
  <2>2. PICK d \in Derivations(report, schema) :
          /\ d.found.outcome = "resolved" /\ d.meeting.account.account_index = k - 1
          /\ a = Expected(d, report)
    BY <2>1, Zenon DEF ExpectedAddress
  <2>3. d.meeting.account.pubkey = tx.keys[k] /\ d.meeting.instruction \in Indexes /\ schema.kind # "none"
    <3>1. (k - 1) + 1 = k
      BY <1>4, <2>1
    <3> QED BY <1>7, <2>2, <3>1
  <2>4. Flag("Critical", "PdaSeedMismatch", u8(d.meeting.instruction - 1), <<k - 1>>) \in PdaFlags(report, schema)
    BY <1>8, <2>2, <2>3 DEF PdaFlags
  <2> QED BY <1>6, <2>3, <2>4 DEF PdaMismatch
<1>9. ASSUME NEW f \in risk_flags, f.category = "PdaSeedMismatch"
      PROVE  /\ f.subject[1] \in 0..(Len(tx.keys) - 1)
             /\ f.severity = "Critical" => expected[f.subject[1] + 1] # {}
  <2>1. PICK d \in Derivations(report, schema) :
          /\ f.subject = <<d.meeting.account.account_index>>
          /\ f.severity = "Critical" => d.found.outcome = "resolved"
    BY <1>6, <1>9 DEF PdaFlags, Flag
  <2> DEFINE index == d.meeting.account.account_index
  <2>2. f.subject[1] = index
    BY <2>1
  <2>3. index \in 0..(Len(tx.keys) - 1)
    BY <1>7
  <2>4. expected[index + 1] = ExpectedAddress(report, schema, index)
    <3> HIDE DEF index
    <3>1. index + 1 \in 1..Len(tx.keys) /\ (index + 1) - 1 = index
      BY <1>4, <2>3
    <3> QED BY <1>5, <3>1
  <2>5. f.severity = "Critical" => ExpectedAddress(report, schema, index) # {}
    BY <1>2, <1>3, <2>1, LastTried
  <2> QED BY <2>2, <2>3, <2>4, <2>5
<1> QED BY <1>8, <1>9 DEF ExpectedFlagged

\* The accounts table and the flags agree on every derived address: an expected address
\* that is not met is flagged, only accounts with a known key are, and an accused one
\* shows what was expected of it. For any schema and any number of derivations.
THEOREM ExpectedTheorem == AuditSpec => []ExpectedFlagged
<1>1. AuditInit => ExpectedOK
  BY DEF AuditInit, ExpectedOK
<1>2. ExpectedOK /\ [AuditNext]_auditVars => ExpectedOK'
  BY ExpectedStep
<1>3. AuditInv /\ ExpectedOK => ExpectedFlagged
  BY FlaggedLemma
<1> QED BY <1>1, <1>2, <1>3, AuditInvariant, PTL DEF AuditSpec

-----------------------------------------------------------------------------
(* The parser on the bytes of a transaction *)

\* As far as the bytes r go, those behind place p are b.
Agrees(r, p, b) == \A i \in 1..Len(b) : p + i <= Len(r) => r[p + i] = b[i]

LEMMA AgreesSplit ==
  ASSUME NEW r \in Seq(Byte), NEW p \in Nat, NEW b \in Seq(Byte), NEW c \in Seq(Byte),
         Agrees(r, p, b \o c)
  PROVE  Agrees(r, p, b) /\ Agrees(r, p + Len(b), c)
<1>1. /\ Len(b) \in Nat /\ Len(c) \in Nat /\ Len(b \o c) = Len(b) + Len(c)
      /\ \A i \in 1..Len(b) : (b \o c)[i] = b[i]
      /\ \A i \in 1..Len(c) : (b \o c)[Len(b) + i] = c[i]
  BY ConcatProperties
<1>2. \A i \in 1..Len(b) : i \in 1..Len(b \o c)
  BY <1>1
<1>3. \A i \in 1..Len(c) : Len(b) + i \in 1..Len(b \o c) /\ p + (Len(b) + i) = p + Len(b) + i
  BY <1>1
<1>4. Agrees(r, p, b)
  BY <1>1, <1>2 DEF Agrees
<1>5. Agrees(r, p + Len(b), c)
  BY <1>1, <1>3 DEF Agrees
<1> QED BY <1>4, <1>5

\* The sequences ss lie behind one another from p on, the k-th at o[k - 1].
Lined(r, p, ss, o) ==
  /\ RunningSums(o, [k \in 1..Len(ss) |-> Len(ss[k])], Len(ss))
  /\ Len(FlattenSeq(ss)) = o[Len(ss)]
  /\ \A k \in 1..Len(ss) : Agrees(r, p + o[k - 1], ss[k])

LEMMA AgreesFlat ==
  ASSUME NEW r \in Seq(Byte), NEW p \in Nat, NEW ss \in Seq(Seq(Byte)),
         Agrees(r, p, FlattenSeq(ss))
  PROVE  \E o : Lined(r, p, ss, o)
<1> DEFINE n == Len(ss)
           size == [k \in 1..n |-> Len(ss[k])]
           f == FlattenSeq(ss)
<1>1. PICK o : /\ RunningSums(o, size, n)
               /\ Len(f) = o[n]
               /\ \A k \in 1..n : \A j \in 1..Len(ss[k]) : f[o[k - 1] + j] = ss[k][j]
  BY FlattenPlaces DEF Joins
<1>2. n \in Nat /\ \A k \in 1..n : ss[k] \in Seq(Byte) /\ Len(ss[k]) \in Nat
  BY LenProperties, ElementOfSeq
<1>3. size \in [1..n -> Nat] /\ \A k \in 1..n : size[k] = Len(ss[k])
  BY <1>2
<1> HIDE DEF size, n, f
<1>4. ASSUME NEW k \in 1..n, NEW j \in 1..Len(ss[k]), p + o[k - 1] + j <= Len(r)
      PROVE  r[p + o[k - 1] + j] = ss[k][j]
  <2>1. k - 1 \in 0..n /\ k \in 0..n /\ n \in 0..n /\ k <= n
    BY <1>2
  <2>2. \A l \in 0..n : o[l] \in Nat
    BY <1>1 DEF RunningSums
  <2>3. o[k] = o[k - 1] + Len(ss[k]) /\ o[k] <= o[n]
    <3>1. o[k] <= o[n]
      BY <1>1, <1>2, <1>3, <2>1, SumsGrow
    <3> QED BY <1>1, <1>3, <3>1 DEF RunningSums
  <2>4. o[k - 1] + j \in 1..Len(f) /\ p + (o[k - 1] + j) = p + o[k - 1] + j
    <3> DEFINE a == o[k - 1]
               b == o[k]
               c == o[n]
               w == Len(ss[k])
    <3>1. a \in Nat /\ b = a + w /\ b <= c /\ c \in Nat /\ w \in Nat /\ j \in 1..w /\ Len(f) = c
      BY <1>1, <1>2, <2>1, <2>2, <2>3
    <3> HIDE DEF a, b, c, w
    <3>2. a + j \in 1..Len(f) /\ p + (a + j) = p + a + j
      BY <3>1
    <3> QED BY <3>2 DEF a
  <2>5. f[o[k - 1] + j] = ss[k][j]
    BY <1>1
  <2> QED BY <1>4, <2>4, <2>5 DEF Agrees, f
<1>5. \A k \in 1..n : Agrees(r, p + o[k - 1], ss[k])
  BY <1>4 DEF Agrees
<1> QED BY <1>1, <1>5 DEF Lined, size, n, f

\* A serialized count: one byte to three, all but the last with the continuation bit.
LEMMA ShortVecProperties ==
  ASSUME NEW n \in 0..U16Max
  PROVE  /\ ShortVec(n) \in Seq(Byte) /\ Len(ShortVec(n)) \in 1..3
         /\ \A i \in 1..(Len(ShortVec(n)) - 1) : More(ShortVec(n)[i])
<1>1. n \in Nat /\ Radix \in Nat \ {0, 1} /\ Radix * Radix \in Nat /\ n <= U16Max
  BY RadixAssumption, U16Assumption
<1> DEFINE q == n \div Radix
           g == n % Radix
           p == q \div Radix
           h == q % Radix
<1>2. q \in Nat /\ g \in 0..(Radix - 1)
  BY <1>1, DivMod
<1>3. p \in Nat /\ h \in 0..(Radix - 1)
  <2> HIDE DEF q
  <2> QED BY <1>1, <1>2, DivMod
<1>4. CASE n < Radix
  <2>1. ShortVec(n) = <<n>>
    <3>1. ~(n >= Radix /\ n < Radix * Radix)
      BY <1>1, <1>4
    <3> QED BY <1>4, <3>1 DEF ShortVec
  <2>2. n \in Byte
    BY <1>1, <1>4 DEF Byte
  <2> QED BY <2>1, <2>2
<1>5. CASE n >= Radix /\ n < Radix * Radix
  <2>1. ShortVec(n) = <<g + Radix, q>>
    BY <1>1, <1>5 DEF ShortVec
  <2>2. q < Radix
    BY <1>1, <1>5, DivBelow
  <2> HIDE DEF q, g
  <2>3. g + Radix \in Byte /\ q \in Byte /\ More(g + Radix)
    BY <1>1, <1>2, <2>2 DEF Byte, More
  <2> QED BY <2>1, <2>3
<1>6. CASE n >= Radix * Radix
  <2>1. n < Radix * (Radix * Radix)
    BY <1>1, U16Assumption
  <2>2. q < Radix * Radix
    BY <1>1, <2>1, DivBelow
  <2>3. p < Radix
    <3> HIDE DEF q
    <3> QED BY <1>1, <1>2, <2>2, DivBelow
  <2>4. ShortVec(n) = <<g + Radix, h + Radix, p>>
    <3>1. ~(n < Radix) /\ ~(n < Radix * Radix)
      <4>1. Radix * Radix >= Radix
        BY <1>1
      <4> QED BY <1>1, <1>6, <4>1
    <3> QED BY <3>1 DEF ShortVec
  <2> HIDE DEF p, h, q, g
  <2>5. {g + Radix, h + Radix, p} \subseteq Byte /\ More(g + Radix) /\ More(h + Radix)
    BY <1>1, <1>2, <1>3, <2>3 DEF Byte, More
  <2>6. Len(ShortVec(n)) = 3 /\ ShortVec(n)[1] = g + Radix /\ ShortVec(n)[2] = h + Radix
    BY <2>4
  <2>7. ShortVec(n) \in Seq(Byte)
    BY <2>4, <2>5
  <2> QED BY <2>5, <2>6, <2>7
<1> QED BY <1>1, <1>4, <1>5, <1>6

\* Behind place p there is a count: what the reader makes of it, or of what is left of it.
ReadsAs(r, p, n) ==
  read_compact_u16(r, p) =
    IF p + Len(ShortVec(n)) <= Len(r) THEN {[value |-> n, next |-> p + Len(ShortVec(n))]} ELSE {}

LEMMA ReadsThere ==
  ASSUME NEW r \in Seq(Byte), NEW p \in Nat, NEW n \in 0..U16Max, Agrees(r, p, ShortVec(n))
  PROVE  ReadsAs(r, p, n)
<1> DEFINE f == ShortVec(n)
<1>1. /\ f \in Seq(Byte) /\ Len(f) \in 1..3 /\ \A i \in 1..(Len(f) - 1) : More(f[i])
  BY ShortVecProperties
<1>2. CASE p + Len(f) <= Len(r)
  <2>1. \A i \in 1..Len(f) : r[p + i] = f[i]
    <3> HIDE DEF f
    <3> QED BY <1>1, <1>2 DEF Agrees, f
  <2> QED BY <1>2, <2>1, CountsRoundTrip DEF ReadsAs
<1>3. CASE ~(p + Len(f) <= Len(r))
  <2>1. ASSUME NEW k \in GroupCounts(r, p)
        PROVE  FALSE
    <3>1. k \in 1..3 /\ p + k <= Len(r) /\ ~More(r[p + k])
      BY <2>1 DEF GroupCounts
    <3>2. k \in 1..(Len(f) - 1) /\ k \in 1..Len(f)
      <4> HIDE DEF f
      <4> QED BY <1>1, <1>3, <3>1
    <3>3. r[p + k] = f[k]
      BY <3>1, <3>2 DEF Agrees
    <3> HIDE DEF f
    <3> QED BY <1>1, <3>1, <3>2, <3>3
  <2> QED BY <1>3, <2>1 DEF ReadsAs, read_compact_u16
<1> QED BY <1>2, <1>3

-----------------------------------------------------------------------------
(* The pieces of a serialized transaction *)

LEMMA OpaqueType ==
  ASSUME NEW n \in Nat
  PROVE  Opaque(n) \in Seq(Byte) /\ Len(Opaque(n)) = n
<1>1. VersionPrefix \in Byte
  BY RadixAssumption DEF VersionPrefix, Byte
<1> QED BY <1>1 DEF Opaque

LEMMA OpaquesType ==
  ASSUME NEW n \in Nat, NEW w \in Nat
  PROVE  Opaques(n, w) \in Seq(Byte) /\ Len(Opaques(n, w)) = n * w /\ n * w \in Nat
<1> DEFINE p == n * w
<1>1. p \in Nat
  BY ProductNat
<1> HIDE DEF p
<1>2. Opaque(p) \in Seq(Byte) /\ Len(Opaque(p)) = p
  BY <1>1, OpaqueType
<1> QED BY <1>1, <1>2, Zenon DEF Opaques, p

LEMMA CountedType ==
  ASSUME NEW b \in Seq(Byte), Len(b) \in 0..U16Max
  PROVE  Counted(b) \in Seq(Byte) /\ Len(Counted(b)) = Len(ShortVec(Len(b))) + Len(b)
<1>1. ShortVec(Len(b)) \in Seq(Byte)
  BY ShortVecProperties
<1> QED BY <1>1, ConcatProperties DEF Counted

\* An instruction, a lookup, whose lists have a length a u16 can say.
FitsIx(ix) ==
  /\ ix.program \in Byte /\ ix.accounts \in Seq(Byte) /\ ix.data \in Seq(Byte)
  /\ Len(ix.accounts) \in 0..U16Max /\ Len(ix.data) \in 0..U16Max

FitsLookup(l) ==
  /\ l.writable \in Seq(Byte) /\ l.readonly \in Seq(Byte)
  /\ Len(l.writable) \in 0..U16Max /\ Len(l.readonly) \in 0..U16Max

LEMMA CompiledFits ==
  ASSUME NEW t, Compiled(t)
  PROVE  /\ {Len(t.signatures), Len(t.keys), Len(t.instructions), Len(t.lookups)} \subseteq 0..U16Max
         /\ \A i \in 1..Len(t.instructions) : FitsIx(t.instructions[i])
         /\ \A k \in 1..Len(t.lookups) : FitsLookup(t.lookups[k])
<1>1. ASSUME NEW i \in 1..Len(t.instructions)
      PROVE  FitsIx(t.instructions[i])
  <2>1. t.instructions[i] \in Instruction
    BY ElementOfSeq DEF Compiled
  <2>2. {Len(t.instructions[i].accounts), Len(t.instructions[i].data)} \subseteq 0..U16Max
    BY DEF Compiled
  <2> QED BY <2>1, <2>2 DEF FitsIx, Instruction
<1>2. ASSUME NEW k \in 1..Len(t.lookups)
      PROVE  FitsLookup(t.lookups[k])
  <2>1. t.lookups[k] \in Lookup
    BY ElementOfSeq DEF Compiled
  <2>2. {Len(t.lookups[k].writable), Len(t.lookups[k].readonly)} \subseteq 0..U16Max
    BY DEF Compiled
  <2> QED BY <2>1, <2>2 DEF FitsLookup, Lookup
<1> QED BY <1>1, <1>2 DEF Compiled

LEMMA InstructionBytesType ==
  ASSUME NEW ix, FitsIx(ix)
  PROVE  /\ InstructionBytes(ix) \in Seq(Byte)
         /\ Len(InstructionBytes(ix)) = 1 + Len(Counted(ix.accounts)) + Len(Counted(ix.data))
<1>1. Counted(ix.accounts) \in Seq(Byte) /\ Counted(ix.data) \in Seq(Byte)
  BY CountedType DEF FitsIx
<1>2. <<ix.program>> \in Seq(Byte) /\ Len(<<ix.program>>) = 1
  BY DEF FitsIx
<1> QED BY <1>1, <1>2, ConcatProperties DEF InstructionBytes

LEMMA LookupBytesType ==
  ASSUME NEW l, FitsLookup(l)
  PROVE  /\ LookupBytes(l) \in Seq(Byte)
         /\ Len(LookupBytes(l)) = KeyLen + Len(Counted(l.writable)) + Len(Counted(l.readonly))
<1>1. Counted(l.writable) \in Seq(Byte) /\ Counted(l.readonly) \in Seq(Byte)
  BY CountedType DEF FitsLookup
<1>2. Opaque(KeyLen) \in Seq(Byte) /\ Len(Opaque(KeyLen)) = KeyLen
  BY LengthAssumption, OpaqueType
<1> DEFINE o == Opaque(KeyLen)
           w == Counted(l.writable)
           d == Counted(l.readonly)
<1>3. LookupBytes(l) = o \o w \o d
  BY DEF LookupBytes
<1>4. o \in Seq(Byte) /\ w \in Seq(Byte) /\ d \in Seq(Byte) /\ Len(o) = KeyLen
  BY <1>1, <1>2
<1> HIDE DEF o, w, d
<1>5. o \o w \in Seq(Byte) /\ Len(o \o w) = KeyLen + Len(w)
  BY <1>4, ConcatProperties
<1>6. o \o w \o d \in Seq(Byte) /\ Len(o \o w \o d) = KeyLen + Len(w) + Len(d)
  BY <1>4, <1>5, ConcatProperties
<1> QED BY <1>3, <1>6 DEF w, d

Ixs(t) == [i \in 1..Len(t.instructions) |-> InstructionBytes(t.instructions[i])]
Lks(t) == [i \in 1..Len(t.lookups) |-> LookupBytes(t.lookups[i])]

LEMMA PiecesType ==
  ASSUME NEW t, Compiled(t)
  PROVE  /\ Ixs(t) \in Seq(Seq(Byte)) /\ Len(Ixs(t)) = Len(t.instructions)
         /\ Lks(t) \in Seq(Seq(Byte)) /\ Len(Lks(t)) = Len(t.lookups)
         /\ FlattenSeq(Ixs(t)) \in Seq(Byte) /\ FlattenSeq(Lks(t)) \in Seq(Byte)
<1>1. /\ Len(t.instructions) \in Nat /\ Len(t.lookups) \in Nat
      /\ \A i \in 1..Len(t.instructions) : InstructionBytes(t.instructions[i]) \in Seq(Byte)
      /\ \A i \in 1..Len(t.lookups) : LookupBytes(t.lookups[i]) \in Seq(Byte)
  BY U16Assumption, CompiledFits, InstructionBytesType, LookupBytesType
<1>2. /\ Ixs(t) \in Seq(Seq(Byte)) /\ Len(Ixs(t)) = Len(t.instructions)
      /\ Lks(t) \in Seq(Seq(Byte)) /\ Len(Lks(t)) = Len(t.lookups)
  BY <1>1 DEF Ixs, Lks
<1> QED BY <1>2, FlattenPlaces

-----------------------------------------------------------------------------
(* Where the sections of a transaction begin and end in bytes that have its body behind *)
(* place m.q; m also has the offsets of the instructions and of the lookups among them, *)
(* and the sums of the accounts the lookups load. *)

HeaderAt(t, m) == m.q + Len(t.signatures) * SigLen
FieldsAt(t, m) == HeaderAt(t, m) + (IF t.v0 THEN 1 ELSE 0)
KeyCountAt(t, m) == FieldsAt(t, m) + 3
KeysEnd(t, m) == KeyCountAt(t, m) + Len(ShortVec(Len(t.keys))) + Len(t.keys) * KeyLen + KeyLen
InstructionAt(t, m, k) == KeysEnd(t, m) + Len(ShortVec(Len(t.instructions))) + m.ix[k]
TablesAt(t, m) == InstructionAt(t, m, Len(t.instructions))
LookupAt(t, m, k) == TablesAt(t, m) + Len(ShortVec(Len(t.lookups))) + m.lk[k]
End(t, m) == IF t.v0 THEN LookupAt(t, m, Len(t.lookups)) ELSE TablesAt(t, m)

LoadSizes(t) == [k \in 1..Len(t.lookups) |-> Size(t.lookups[k])]

\* The places are right, and the bytes agree with the transaction at each.
Marked(r, t, m) ==
  /\ m.q \in Nat
  /\ RunningSums(m.ix, [k \in 1..Len(Ixs(t)) |-> Len(Ixs(t)[k])], Len(Ixs(t)))
  /\ RunningSums(m.lk, [k \in 1..Len(Lks(t)) |-> Len(Lks(t)[k])], Len(Lks(t)))
  /\ RunningSums(m.load, LoadSizes(t), Len(t.lookups))
  /\ m.load[Len(t.lookups)] = LoadedBy(t.lookups)
  /\ t.v0 => Agrees(r, HeaderAt(t, m), <<VersionPrefix>>)
  /\ Agrees(r, FieldsAt(t, m), <<t.required, t.readonly_signed, t.readonly_unsigned>>)
  /\ Agrees(r, KeyCountAt(t, m), ShortVec(Len(t.keys)))
  /\ Agrees(r, KeysEnd(t, m), ShortVec(Len(t.instructions)))
  /\ \A k \in 1..Len(Ixs(t)) : Agrees(r, InstructionAt(t, m, k - 1), Ixs(t)[k])
  /\ t.v0 => Agrees(r, TablesAt(t, m), ShortVec(Len(t.lookups)))
  /\ t.v0 => \A k \in 1..Len(Lks(t)) : Agrees(r, LookupAt(t, m, k - 1), Lks(t)[k])
  /\ End(t, m) = m.q + Len(Body(t))

\* What of a transaction lies behind place q of the bytes r, piece by piece.
Pieces(r, q, t) ==
  LET keys == Len(t.keys)
      header == q + Len(t.signatures) * SigLen
      fields == header + (IF t.v0 THEN 1 ELSE 0)
      keysEnd == fields + 3 + Len(ShortVec(keys)) + keys * KeyLen + KeyLen
      ixs == keysEnd + Len(ShortVec(Len(t.instructions)))
      tables == ixs + Len(FlattenSeq(Ixs(t)))
      lks == tables + Len(ShortVec(Len(t.lookups)))
  IN  /\ header \in Nat /\ fields \in Nat /\ keysEnd \in Nat /\ ixs \in Nat /\ tables \in Nat /\ lks \in Nat
      /\ t.v0 => Agrees(r, header, <<VersionPrefix>>)
      /\ Agrees(r, fields, <<t.required, t.readonly_signed, t.readonly_unsigned>>)
      /\ Agrees(r, fields + 3, ShortVec(keys))
      /\ Agrees(r, keysEnd, ShortVec(Len(t.instructions)))
      /\ Agrees(r, ixs, FlattenSeq(Ixs(t)))
      /\ t.v0 => /\ Agrees(r, tables, ShortVec(Len(t.lookups)))
                 /\ Agrees(r, lks, FlattenSeq(Lks(t)))
      /\ q + Len(Body(t)) = IF t.v0 THEN lks + Len(FlattenSeq(Lks(t))) ELSE tables

LEMMA PiecesLemma ==
  ASSUME NEW r \in Seq(Byte), NEW q \in Nat, NEW t, Compiled(t), Agrees(r, q, Body(t))
  PROVE  Pieces(r, q, t)
<1> DEFINE nk == Len(t.keys)
           ni == Len(t.instructions)
           nl == Len(t.lookups)
           ns == Len(t.signatures)
           sigs == Opaques(ns, SigLen)
           ver == IF t.v0 THEN <<VersionPrefix>> ELSE <<>>
           hdr == <<t.required, t.readonly_signed, t.readonly_unsigned>>
           kc == ShortVec(nk)
           ks == Opaques(nk, KeyLen)
           bh == Opaque(KeyLen)
           ic == ShortVec(ni)
           is == FlattenSeq(Ixs(t))
           lc == ShortVec(nl)
           ls == FlattenSeq(Lks(t))
           tb == IF t.v0 THEN lc \o ls ELSE <<>>
           a == ver \o hdr
           b == a \o kc
           c == b \o ks
           d == c \o bh
           e == d \o ic
           f == e \o is
           g == f \o tb
           v == IF t.v0 THEN 1 ELSE 0
           w == ns * SigLen
           u == nk * KeyLen
<1>1. Body(t) = sigs \o g
  BY Zenon DEF Body, Message, Ixs, Lks
<1>2. {nk, ni, nl, ns} \subseteq 0..U16Max /\ {nk, ni, nl, ns} \subseteq Nat
  BY CompiledFits, U16Assumption
<1>3. KeyLen \in Nat /\ SigLen \in Nat
  BY LengthAssumption
<1>4. /\ sigs \in Seq(Byte) /\ Len(sigs) = w /\ w \in Nat
      /\ ks \in Seq(Byte) /\ Len(ks) = u /\ u \in Nat
      /\ bh \in Seq(Byte) /\ Len(bh) = KeyLen
  BY <1>2, <1>3, OpaquesType, OpaqueType
<1>5. kc \in Seq(Byte) /\ ic \in Seq(Byte) /\ lc \in Seq(Byte)
  BY <1>2, ShortVecProperties
<1>6. ver \in Seq(Byte) /\ Len(ver) = v /\ v \in Nat
  <2>1. VersionPrefix \in Byte
    BY RadixAssumption DEF VersionPrefix, Byte
  <2>2. CASE t.v0
    BY <2>1, <2>2
  <2>3. CASE ~t.v0
    BY <2>3
  <2> QED BY <2>2, <2>3
<1>7. hdr \in Seq(Byte) /\ Len(hdr) = 3
  BY DEF Compiled
<1>8. is \in Seq(Byte) /\ ls \in Seq(Byte)
  BY PiecesType
<1> DEFINE vv == t.v0
<1>9. tb = IF vv THEN lc \o ls ELSE <<>>
  OBVIOUS
<1>10. vv => ver = <<VersionPrefix>>
  OBVIOUS
<1> HIDE DEF sigs, ver, hdr, kc, ks, bh, ic, is, lc, ls, tb, v, w, u, vv
<1>11. a \in Seq(Byte) /\ Len(a) = v + 3
  <2>1. a \in Seq(Byte) /\ Len(a) = Len(ver) + Len(hdr)
    BY <1>6, <1>7, ConcatProperties
  <2> QED BY <1>6, <1>7, <2>1
<1> HIDE DEF a
<1>12. b \in Seq(Byte) /\ Len(b) = Len(a) + Len(kc)
  BY <1>5, <1>11, ConcatProperties
<1> HIDE DEF b
<1>13. c \in Seq(Byte) /\ Len(c) = Len(b) + u
  BY <1>4, <1>12, ConcatProperties
<1> HIDE DEF c
<1>14. d \in Seq(Byte) /\ Len(d) = Len(c) + KeyLen
  BY <1>4, <1>13, ConcatProperties
<1> HIDE DEF d
<1>15. e \in Seq(Byte) /\ Len(e) = Len(d) + Len(ic)
  BY <1>5, <1>14, ConcatProperties
<1> HIDE DEF e
<1>16. f \in Seq(Byte) /\ Len(f) = Len(e) + Len(is)
  BY <1>8, <1>15, ConcatProperties
<1> HIDE DEF f
<1>17. tb \in Seq(Byte) /\ Len(tb) = IF vv THEN Len(lc) + Len(ls) ELSE 0
  <2>1. lc \o ls \in Seq(Byte) /\ Len(lc \o ls) = Len(lc) + Len(ls)
    BY <1>5, <1>8, ConcatProperties
  <2> QED BY <1>9, <2>1
<1>18. g \in Seq(Byte) /\ Len(g) = Len(f) + Len(tb)
  BY <1>16, <1>17, ConcatProperties
<1> DEFINE h == q + w
<1>19. h \in Nat /\ Agrees(r, h, g)
  <2>1. Agrees(r, q, sigs \o g)
    BY <1>1
  <2> HIDE DEF g
  <2>2. Agrees(r, q + Len(sigs), g)
    BY <1>4, <1>18, <2>1, AgreesSplit
  <2> QED BY <1>4, <2>2
<1> HIDE DEF h
<1>20. Agrees(r, h, f) /\ Agrees(r, h + Len(f), tb)
  BY <1>16, <1>17, <1>19, AgreesSplit
<1>21. Agrees(r, h, e) /\ Agrees(r, h + Len(e), is)
  BY <1>8, <1>15, <1>19, <1>20, AgreesSplit DEF f
<1>22. Agrees(r, h, d) /\ Agrees(r, h + Len(d), ic)
  BY <1>5, <1>14, <1>19, <1>21, AgreesSplit DEF e
<1>23. Agrees(r, h, c)
  BY <1>4, <1>13, <1>19, <1>22, AgreesSplit DEF d
<1>24. Agrees(r, h, b)
  BY <1>4, <1>12, <1>19, <1>23, AgreesSplit DEF c
<1>25. Agrees(r, h, a) /\ Agrees(r, h + Len(a), kc)
  BY <1>5, <1>11, <1>19, <1>24, AgreesSplit DEF b
<1>26. Agrees(r, h, ver) /\ Agrees(r, h + Len(ver), hdr)
  BY <1>6, <1>7, <1>19, <1>25, AgreesSplit DEF a
<1>27. Len(kc) \in Nat /\ Len(ic) \in Nat /\ Len(is) \in Nat /\ Len(lc) \in Nat /\ Len(ls) \in Nat
  BY <1>5, <1>8, LenProperties
<1> DEFINE fields == h + v
           keysEnd == fields + 3 + Len(kc) + u + KeyLen
           ixs == keysEnd + Len(ic)
           tables == ixs + Len(is)
           lks == tables + Len(lc)
<1>28. /\ h \in Nat /\ fields \in Nat /\ keysEnd \in Nat /\ ixs \in Nat /\ tables \in Nat /\ lks \in Nat
       /\ h + Len(ver) = fields /\ h + Len(a) = fields + 3 /\ h + Len(d) = keysEnd
       /\ h + Len(e) = ixs /\ h + Len(f) = tables
  <2> DEFINE lc1 == Len(kc)
             lc2 == Len(ic)
             lis == Len(is)
             lv == Len(ver)
             la == Len(a)
             lb == Len(b)
             lcc == Len(c)
             ld == Len(d)
             le == Len(e)
             lf == Len(f)
             ll == Len(lc)
  <2>1. /\ lc1 \in Nat /\ lc2 \in Nat /\ lis \in Nat /\ ll \in Nat /\ lv = v /\ v \in Nat
        /\ KeyLen \in Nat /\ u \in Nat /\ h \in Nat /\ la = v + 3 /\ lb = la + lc1 /\ lcc = lb + u
        /\ ld = lcc + KeyLen /\ le = ld + lc2 /\ lf = le + lis
    BY <1>3, <1>4, <1>6, <1>11, <1>12, <1>13, <1>14, <1>15, <1>16, <1>19, <1>27
  <2> HIDE DEF lc1, lc2, lis, lv, la, lb, lcc, ld, le, lf, ll
  <2>2. /\ h + v \in Nat /\ h + v + 3 + lc1 + u + KeyLen \in Nat
        /\ h + v + 3 + lc1 + u + KeyLen + lc2 \in Nat
        /\ h + v + 3 + lc1 + u + KeyLen + lc2 + lis \in Nat
        /\ h + v + 3 + lc1 + u + KeyLen + lc2 + lis + ll \in Nat
    BY <2>1
  <2>3. /\ h + lv = h + v /\ h + la = h + v + 3 /\ h + ld = h + v + 3 + lc1 + u + KeyLen
        /\ h + le = h + v + 3 + lc1 + u + KeyLen + lc2
        /\ h + lf = h + v + 3 + lc1 + u + KeyLen + lc2 + lis
    BY <2>1
  <2> QED BY <1>19, <2>2, <2>3, Zenon DEF lc1, lc2, lis, lv, la, ld, le, lf, ll
<1> HIDE DEF fields, keysEnd, ixs, tables, lks
<1>29. vv => Agrees(r, tables, lc) /\ Agrees(r, lks, ls)
  <2> SUFFICES ASSUME vv PROVE Agrees(r, tables, lc) /\ Agrees(r, lks, ls)
    OBVIOUS
  <2>1. Agrees(r, tables, lc \o ls)
    BY <1>9, <1>20, <1>28
  <2> QED BY <1>5, <1>8, <1>28, <2>1, AgreesSplit DEF lks
<1>30. q + Len(Body(t)) = IF vv THEN lks + Len(ls) ELSE tables
  <2>1. Len(Body(t)) = w + Len(g)
    <3> HIDE DEF g
    <3> QED BY <1>1, <1>4, <1>18, ConcatProperties
  <2>2. q + Len(Body(t)) = tables + Len(tb)
    <3> DEFINE lf == Len(f)
               lt == Len(tb)
               lg == Len(g)
    <3>1. lf \in Nat /\ lt \in Nat /\ lg = lf + lt /\ q + w + lf = tables /\ w \in Nat
      BY <1>4, <1>16, <1>17, <1>18, <1>28, LenProperties DEF h
    <3>2. Len(Body(t)) = w + lg
      BY <2>1
    <3> HIDE DEF lf, lt, lg
    <3>3. q + (w + lg) = tables + lt
      BY <3>1
    <3> QED BY <3>2, <3>3 DEF lt
  <2> QED BY <1>17, <1>27, <1>28, <2>2 DEF lks
<1>31. /\ vv => Agrees(r, h, <<VersionPrefix>>)
       /\ Agrees(r, fields, hdr) /\ Agrees(r, fields + 3, kc) /\ Agrees(r, keysEnd, ic)
       /\ Agrees(r, ixs, is)
  BY <1>10, <1>21, <1>22, <1>25, <1>26, <1>28
<1> QED
  BY <1>28, <1>29, <1>30, <1>31, Zenon
     DEF Pieces, fields, keysEnd, ixs, tables, lks, h, u, w, v, hdr, kc, ic, is, lc, ls, vv

\* Wherever the body of a transaction lies, its sections can be marked.
LEMMA MarkedLemma ==
  ASSUME NEW r \in Seq(Byte), NEW q \in Nat, NEW t, Compiled(t), Agrees(r, q, Body(t))
  PROVE  \E m : m.q = q /\ Marked(r, t, m)
<1> DEFINE keys == Len(t.keys)
           header == q + Len(t.signatures) * SigLen
           fields == header + (IF t.v0 THEN 1 ELSE 0)
           keysEnd == fields + 3 + Len(ShortVec(keys)) + keys * KeyLen + KeyLen
           ixs == keysEnd + Len(ShortVec(Len(t.instructions)))
           tables == ixs + Len(FlattenSeq(Ixs(t)))
           lks == tables + Len(ShortVec(Len(t.lookups)))
<1>1. /\ header \in Nat /\ fields \in Nat /\ keysEnd \in Nat /\ ixs \in Nat /\ tables \in Nat /\ lks \in Nat
      /\ t.v0 => Agrees(r, header, <<VersionPrefix>>)
      /\ Agrees(r, fields, <<t.required, t.readonly_signed, t.readonly_unsigned>>)
      /\ Agrees(r, fields + 3, ShortVec(keys))
      /\ Agrees(r, keysEnd, ShortVec(Len(t.instructions)))
      /\ Agrees(r, ixs, FlattenSeq(Ixs(t)))
      /\ t.v0 => /\ Agrees(r, tables, ShortVec(Len(t.lookups)))
                 /\ Agrees(r, lks, FlattenSeq(Lks(t)))
      /\ q + Len(Body(t)) = IF t.v0 THEN lks + Len(FlattenSeq(Lks(t))) ELSE tables
  BY PiecesLemma, Zenon DEF Pieces
<1> HIDE DEF header, fields, keysEnd, ixs, tables, lks
<1>2. /\ Ixs(t) \in Seq(Seq(Byte)) /\ Len(Ixs(t)) = Len(t.instructions)
      /\ Lks(t) \in Seq(Seq(Byte)) /\ Len(Lks(t)) = Len(t.lookups)
  BY PiecesType
<1>3. PICK a : Lined(r, ixs, Ixs(t), a)
  BY <1>1, <1>2, AgreesFlat
<1>4. PICK b : /\ RunningSums(b, [k \in 1..Len(Lks(t)) |-> Len(Lks(t)[k])], Len(Lks(t)))
               /\ Len(FlattenSeq(Lks(t))) = b[Len(Lks(t))]
               /\ t.v0 => \A k \in 1..Len(Lks(t)) : Agrees(r, lks + b[k - 1], Lks(t)[k])
  <2>1. CASE t.v0
    <3>1. PICK b : Lined(r, lks, Lks(t), b)
      BY <1>1, <1>2, <2>1, AgreesFlat
    <3> QED BY <3>1, Zenon DEF Lined
  <2>2. CASE ~t.v0
    <3>1. Joins(FlattenSeq(Lks(t)), Lks(t))
      BY <1>2, FlattenPlaces
    <3> QED BY <2>2, <3>1, Zenon DEF Joins
  <2> QED BY <2>1, <2>2
<1>5. PICK c : RunningSums(c, LoadSizes(t), Len(t.lookups)) /\ LoadedBy(t.lookups) = c[Len(t.lookups)]
  <2>1. /\ t.lookups \in Seq(Lookup)
        /\ \A k \in 1..Len(t.lookups) : /\ Len(t.lookups[k].writable) \in Nat
                                        /\ Len(t.lookups[k].readonly) \in Nat
    <3>1. \A k \in 1..Len(t.lookups) : FitsLookup(t.lookups[k])
      BY CompiledFits
    <3> QED BY <3>1, U16Assumption DEF Compiled, FitsLookup
  <2> QED BY <2>1, LoadedUnfolds DEF LoadSizes
<1> DEFINE m == [q |-> q, ix |-> a, lk |-> b, load |-> c]
<1>6. m.q = q /\ m.ix = a /\ m.lk = b /\ m.load = c
  OBVIOUS
<1> HIDE DEF m
<1>7. /\ HeaderAt(t, m) = header /\ FieldsAt(t, m) = fields /\ KeyCountAt(t, m) = fields + 3
      /\ KeysEnd(t, m) = keysEnd
  BY <1>6, Zenon DEF HeaderAt, FieldsAt, KeyCountAt, KeysEnd, header, fields, keysEnd, keys
<1>8. \A k : InstructionAt(t, m, k) = ixs + a[k]
  BY <1>6, <1>7, Zenon DEF InstructionAt, ixs
<1>9. TablesAt(t, m) = tables
  BY <1>2, <1>3, <1>8, Zenon DEF TablesAt, tables, Lined
<1>10. \A k : LookupAt(t, m, k) = lks + b[k]
  BY <1>6, <1>9, Zenon DEF LookupAt, lks
<1>11. End(t, m) = m.q + Len(Body(t))
  BY <1>1, <1>2, <1>4, <1>6, <1>9, <1>10, Zenon DEF End
<1>12. /\ RunningSums(m.ix, [k \in 1..Len(Ixs(t)) |-> Len(Ixs(t)[k])], Len(Ixs(t)))
       /\ \A k \in 1..Len(Ixs(t)) : Agrees(r, InstructionAt(t, m, k - 1), Ixs(t)[k])
  BY <1>3, <1>6, <1>8, Zenon DEF Lined
<1>13. /\ RunningSums(m.lk, [k \in 1..Len(Lks(t)) |-> Len(Lks(t)[k])], Len(Lks(t)))
       /\ t.v0 => \A k \in 1..Len(Lks(t)) : Agrees(r, LookupAt(t, m, k - 1), Lks(t)[k])
  BY <1>4, <1>6, <1>10, Zenon
<1>14. RunningSums(m.load, LoadSizes(t), Len(t.lookups)) /\ m.load[Len(t.lookups)] = LoadedBy(t.lookups)
  BY <1>5, <1>6, Zenon
<1>15. /\ t.v0 => Agrees(r, HeaderAt(t, m), <<VersionPrefix>>)
       /\ Agrees(r, FieldsAt(t, m), <<t.required, t.readonly_signed, t.readonly_unsigned>>)
       /\ Agrees(r, KeyCountAt(t, m), ShortVec(Len(t.keys)))
       /\ Agrees(r, KeysEnd(t, m), ShortVec(Len(t.instructions)))
       /\ t.v0 => Agrees(r, TablesAt(t, m), ShortVec(Len(t.lookups)))
  BY <1>1, <1>7, <1>9, Zenon DEF keys
<1> QED BY <1>6, <1>11, <1>12, <1>13, <1>14, <1>15, Zenon DEF Marked

\* How the places follow on one another; none is behind the end.
Ordered(t, m) ==
  /\ m.q \in Nat /\ HeaderAt(t, m) \in Nat /\ FieldsAt(t, m) \in Nat /\ KeyCountAt(t, m) \in Nat
  /\ KeysEnd(t, m) \in Nat /\ TablesAt(t, m) \in Nat /\ End(t, m) \in Nat
  /\ HeaderAt(t, m) <= KeyCountAt(t, m) /\ KeyCountAt(t, m) <= KeysEnd(t, m)
  /\ InstructionAt(t, m, 0) = KeysEnd(t, m) + Len(ShortVec(Len(t.instructions)))
  /\ LookupAt(t, m, 0) = TablesAt(t, m) + Len(ShortVec(Len(t.lookups)))
  /\ \A k \in 0..Len(t.instructions) : /\ InstructionAt(t, m, k) \in Nat
                                       /\ KeysEnd(t, m) <= InstructionAt(t, m, k)
                                       /\ InstructionAt(t, m, k) <= TablesAt(t, m)
  /\ TablesAt(t, m) <= End(t, m)
  /\ \A k \in 0..Len(t.lookups) : /\ LookupAt(t, m, k) \in Nat
                                  /\ t.v0 => LookupAt(t, m, k) <= End(t, m)
  /\ \A k \in 1..Len(t.instructions) :
       InstructionAt(t, m, k) = InstructionAt(t, m, k - 1) + Len(InstructionBytes(t.instructions[k]))
  /\ \A k \in 1..Len(t.lookups) :
       LookupAt(t, m, k) = LookupAt(t, m, k - 1) + Len(LookupBytes(t.lookups[k]))

LEMMA OrderedLemma ==
  ASSUME NEW r, NEW t, NEW m, Compiled(t), Marked(r, t, m)
  PROVE  Ordered(t, m)
<1> DEFINE ns == Len(t.signatures)
           nk == Len(t.keys)
           ni == Len(t.instructions)
           nl == Len(t.lookups)
<1>1. {ns, nk, ni, nl} \subseteq 0..U16Max /\ {ns, nk, ni, nl} \subseteq Nat
  BY CompiledFits, U16Assumption
<1>2. ns * SigLen \in Nat /\ nk * KeyLen \in Nat /\ KeyLen \in Nat
  BY <1>1, LengthAssumption, ProductNat
<1>3. Len(ShortVec(nk)) \in Nat /\ Len(ShortVec(ni)) \in Nat /\ Len(ShortVec(nl)) \in Nat
  BY <1>1, ShortVecProperties
<1> DEFINE w == ns * SigLen
           u == nk * KeyLen
           ck == Len(ShortVec(nk))
           ci == Len(ShortVec(ni))
           cl == Len(ShortVec(nl))
           a == m.ix
           b == m.lk
           asize == [k \in 1..Len(Ixs(t)) |-> Len(Ixs(t)[k])]
           bsize == [k \in 1..Len(Lks(t)) |-> Len(Lks(t)[k])]
           h == HeaderAt(t, m)
           f == FieldsAt(t, m)
           c == KeyCountAt(t, m)
           e == KeysEnd(t, m)
           i0 == e + ci
           tb == TablesAt(t, m)
           l0 == tb + cl
<1>4. m.q \in Nat /\ RunningSums(a, asize, Len(Ixs(t))) /\ RunningSums(b, bsize, Len(Lks(t)))
  BY Zenon DEF Marked
<1>5. /\ Ixs(t) \in Seq(Seq(Byte)) /\ Len(Ixs(t)) = ni /\ Lks(t) \in Seq(Seq(Byte)) /\ Len(Lks(t)) = nl
  BY PiecesType
<1>6. /\ \A k \in 1..ni : Ixs(t)[k] = InstructionBytes(t.instructions[k])
      /\ \A k \in 1..nl : Lks(t)[k] = LookupBytes(t.lookups[k])
  BY DEF Ixs, Lks
<1>7. asize \in [1..ni -> Nat] /\ bsize \in [1..nl -> Nat]
  BY <1>5, ElementOfSeq, LenProperties
<1>8. /\ \A k \in 1..ni : asize[k] = Len(InstructionBytes(t.instructions[k]))
      /\ \A k \in 1..nl : bsize[k] = Len(LookupBytes(t.lookups[k]))
  BY <1>5, <1>6
<1>9. h \in Nat /\ f \in Nat /\ c \in Nat /\ h <= c
  <2> DEFINE v == IF t.v0 THEN 1 ELSE 0
  <2>1. h = m.q + w /\ f = h + v /\ c = f + 3
    BY Zenon DEF HeaderAt, FieldsAt, KeyCountAt
  <2>2. w \in Nat /\ v \in Nat /\ m.q \in Nat
    BY <1>2, <1>4
  <2> HIDE DEF h, f, c, w, v
  <2> QED BY <2>1, <2>2
<1> HIDE DEF h, f, c
<1>10. e \in Nat /\ c <= e
  <2>1. e = c + ck + u + KeyLen
    BY Zenon DEF KeysEnd, c, ck, u, nk
  <2> HIDE DEF u, ck, e
  <2>2. u \in Nat /\ ck \in Nat
    BY <1>2, <1>3 DEF u, ck
  <2> QED BY <1>2, <1>9, <2>1, <2>2
<1> HIDE DEF e
<1>11. \A k : InstructionAt(t, m, k) = i0 + a[k]
  BY Zenon DEF InstructionAt, e, ci, ni, a
<1> HIDE DEF asize, bsize, a, b
<1>12. /\ a \in [0..ni -> Nat] /\ a[0] = 0 /\ \A k \in 1..ni : a[k] = a[k - 1] + asize[k]
       /\ b \in [0..nl -> Nat] /\ b[0] = 0 /\ \A k \in 1..nl : b[k] = b[k - 1] + bsize[k]
  BY <1>4, <1>5 DEF RunningSums
<1>13. /\ \A k \in 0..ni : a[k] \in Nat /\ a[k] <= a[ni]
       /\ \A k \in 0..nl : b[k] \in Nat /\ b[k] <= b[nl]
  <2> HIDE DEF ni, nl
  <2>1. \A k \in 0..ni : k <= ni /\ ni \in 0..ni
    BY <1>1
  <2>2. \A k \in 0..nl : k <= nl /\ nl \in 0..nl
    BY <1>1
  <2> QED BY <1>1, <1>4, <1>5, <1>7, <1>12, <2>1, <2>2, SumsGrow
<1>14. tb = i0 + a[ni]
  BY <1>11 DEF TablesAt
<1> HIDE DEF ci, cl, tb, ni, nl
<1>15. i0 \in Nat /\ tb \in Nat /\ l0 \in Nat /\ e <= i0 /\ i0 = e + ci
  <2>1. a[ni] \in Nat /\ ci \in Nat /\ cl \in Nat
    BY <1>1, <1>3, <1>13 DEF ci, cl, ni, nl
  <2> QED BY <1>10, <1>14, <2>1
<1>16. \A k : LookupAt(t, m, k) = l0 + b[k]
  BY Zenon DEF LookupAt, tb, cl, nl, b
<1> HIDE DEF i0, l0
<1>17. \A k \in 0..ni : i0 + a[k] \in Nat /\ e <= i0 + a[k] /\ i0 + a[k] <= tb
  <2>1. a[ni] \in Nat
    BY <1>1, <1>13 DEF ni
  <2>2. \A k \in 0..ni : a[k] \in Nat /\ a[k] <= a[ni]
    BY <1>13
  <2> HIDE DEF a
  <2> QED BY <1>10, <1>14, <1>15, <2>1, <2>2
<1>18. /\ \A k \in 0..nl : l0 + b[k] \in Nat /\ l0 + b[k] <= l0 + b[nl]
       /\ tb <= l0 + b[nl] /\ l0 + b[nl] \in Nat
  <2>1. l0 = tb + cl /\ cl \in Nat /\ b[nl] \in Nat
    <3>1. nl \in 0..nl
      BY <1>1 DEF nl
    <3>2. b[nl] \in Nat
      BY <1>13, <3>1
    <3>3. cl \in Nat
      BY <1>3 DEF cl, nl
    <3> QED BY <3>2, <3>3 DEF l0
  <2> QED BY <1>13, <1>15, <2>1
<1>19. End(t, m) = IF t.v0 THEN l0 + b[nl] ELSE tb
  BY <1>16, Zenon DEF End, nl, tb
<1>20. /\ End(t, m) \in Nat /\ tb <= End(t, m)
       /\ \A k \in 0..nl : t.v0 => l0 + b[k] <= End(t, m)
  BY <1>15, <1>18, <1>19
<1>21. \A k \in 1..ni : i0 + a[k] = i0 + a[k - 1] + asize[k]
  <2>1. \A k \in 1..ni : a[k] = a[k - 1] + asize[k] /\ a[k - 1] \in Nat /\ asize[k] \in Nat
    <3>1. \A k \in 1..ni : k - 1 \in 0..ni
      BY <1>1 DEF ni
    <3> QED BY <3>1, <1>7, <1>12
  <2> QED BY <1>15, <2>1
<1>22. \A k \in 1..nl : l0 + b[k] = l0 + b[k - 1] + bsize[k]
  <2>1. \A k \in 1..nl : b[k] = b[k - 1] + bsize[k] /\ b[k - 1] \in Nat /\ bsize[k] \in Nat
    <3>1. \A k \in 1..nl : k - 1 \in 0..nl
      BY <1>1 DEF nl
    <3> QED BY <3>1, <1>7, <1>12
  <2> QED BY <1>15, <2>1
<1>23. i0 + a[0] = i0 /\ l0 + b[0] = l0
  BY <1>12, <1>15
<1>24. /\ InstructionAt(t, m, 0) = e + Len(ShortVec(ni)) /\ LookupAt(t, m, 0) = tb + Len(ShortVec(nl))
  BY <1>11, <1>15, <1>16, <1>23, Zenon DEF ci, cl, l0
<1>25. /\ \A k \in 0..ni : /\ InstructionAt(t, m, k) \in Nat /\ e <= InstructionAt(t, m, k)
                           /\ InstructionAt(t, m, k) <= tb
       /\ \A k \in 0..nl : LookupAt(t, m, k) \in Nat /\ t.v0 => LookupAt(t, m, k) <= End(t, m)
  BY <1>11, <1>16, <1>17, <1>18, <1>20, Zenon
<1>26. /\ \A k \in 1..ni :
            InstructionAt(t, m, k) = InstructionAt(t, m, k - 1) + Len(InstructionBytes(t.instructions[k]))
       /\ \A k \in 1..nl : LookupAt(t, m, k) = LookupAt(t, m, k - 1) + Len(LookupBytes(t.lookups[k]))
  BY <1>8, <1>11, <1>16, <1>21, <1>22
<1>27. \A k \in 0..nl : LookupAt(t, m, k) \in Nat /\ (t.v0 => LookupAt(t, m, k) <= End(t, m))
  BY <1>16, <1>18, <1>20, Zenon
<1> QED
  BY <1>4, <1>9, <1>10, <1>15, <1>20, <1>24, <1>25, <1>26, <1>27, Zenon DEF Ordered, h, f, c, e, tb, ni, nl

\* No place is behind the end.
LEMMA OrderedEnds ==
  ASSUME NEW t, NEW m, Ordered(t, m), Len(t.instructions) \in Nat
  PROVE  /\ HeaderAt(t, m) \in Nat /\ FieldsAt(t, m) \in Nat /\ KeyCountAt(t, m) \in Nat
         /\ KeysEnd(t, m) \in Nat /\ TablesAt(t, m) \in Nat /\ End(t, m) \in Nat
         /\ HeaderAt(t, m) <= End(t, m) /\ KeyCountAt(t, m) <= End(t, m) /\ KeysEnd(t, m) <= End(t, m)
         /\ TablesAt(t, m) <= End(t, m)
         /\ \A k \in 0..Len(t.instructions) :
              InstructionAt(t, m, k) \in Nat /\ InstructionAt(t, m, k) <= End(t, m)
         /\ \A k \in 0..Len(t.lookups) :
              LookupAt(t, m, k) \in Nat /\ (t.v0 => LookupAt(t, m, k) <= End(t, m))
<1> DEFINE h == HeaderAt(t, m)
           c == KeyCountAt(t, m)
           e == KeysEnd(t, m)
           tb == TablesAt(t, m)
           z == End(t, m)
           n == Len(t.instructions)
<1>1. /\ h \in Nat /\ c \in Nat /\ e \in Nat /\ tb \in Nat /\ z \in Nat
      /\ h <= c /\ c <= e /\ tb <= z
      /\ \A k \in 0..n : InstructionAt(t, m, k) \in Nat /\ e <= InstructionAt(t, m, k)
                        /\ InstructionAt(t, m, k) <= tb
  BY Zenon DEF Ordered
<1>2. FieldsAt(t, m) \in Nat /\ \A k \in 0..Len(t.lookups) :
         LookupAt(t, m, k) \in Nat /\ (t.v0 => LookupAt(t, m, k) <= End(t, m))
  BY Zenon DEF Ordered
<1> HIDE DEF h, c, e, tb, z
<1>3. \A k \in 0..n : InstructionAt(t, m, k) <= z
  <2> SUFFICES ASSUME NEW k \in 0..n PROVE InstructionAt(t, m, k) <= z
    OBVIOUS
  <2> DEFINE i == InstructionAt(t, m, k)
  <2>1. i \in Nat /\ i <= tb
    BY <1>1
  <2> HIDE DEF i
  <2>2. i <= z
    BY <1>1, <2>1
  <2> QED BY <2>2 DEF i
<1>4. e <= tb
  <2> DEFINE i == InstructionAt(t, m, n)
  <2>1. n \in 0..n
    OBVIOUS
  <2>2. i \in Nat /\ e <= i /\ i <= tb
    BY <1>1, <2>1
  <2> HIDE DEF i
  <2> QED BY <1>1, <2>2
<1>5. h <= z /\ c <= z /\ e <= z
  BY <1>1, <1>4
<1> QED BY <1>1, <1>2, <1>3, <1>5, Zenon DEF h, c, e, tb, z, n

-----------------------------------------------------------------------------
(* What the parser has found when it is at a place of the transaction *)

CutKinds == {"signature_bytes", "header_bytes", "key_bytes", "blockhash", "program_byte", "account_bytes",
             "data_bytes", "table_key", "lookup_bytes", "parser_error"}
Cut == \E w \in warnings : w.what \in CutKinds

FoundSignatures(t) == WarnIf(Len(t.signatures) # report.signatures, "signatures")
FoundHeader(t) == FoundSignatures(t) \cup WarnIf(t.v0 # report.v0, "version")
FoundKeys(t) == FoundHeader(t) \cup WarnIf(Len(t.keys) # Len(report.accounts), "accounts")
Programs(t, k) == {Warn("program", i - 1) : i \in {j \in 1..k : t.instructions[j].program >= Len(t.keys)}}
FoundInstructions(t) ==
  FoundKeys(t) \cup Programs(t, Len(t.instructions))
    \cup WarnIf(Len(t.instructions) # Len(report.instructions), "instructions")
Differ(t, k) ==
  {Warn("lookup", i - 1) : i \in {j \in 1..k : /\ j <= Len(report.lookups)
                                               /\ report.lookups[j] # Size(t.lookups[j])}}
FoundTables(t) ==
  FoundInstructions(t)
    \cup (IF t.v0 THEN Differ(t, Len(t.lookups)) \cup WarnIf(Len(t.lookups) # Len(report.lookups), "lookups")
          ELSE {})
\* The indexes of the first k instructions that no static key covers.
BeyondKeys(t, k) ==
  {d \in Nat \X Byte : \E i \in 1..k : \E j \in 1..Len(t.instructions[i].accounts) :
     d = <<i - 1, t.instructions[i].accounts[j]>> /\ t.instructions[i].accounts[j] >= Len(t.keys)}
AllAccounts(t) == Len(t.keys) + (IF t.v0 THEN LoadedBy(t.lookups) ELSE 0)
FoundIndexes(t) ==
  FoundTables(t)
    \cup {Warn("account", d[1]) : d \in {e \in BeyondKeys(t, Len(t.instructions)) : e[2] >= AllAccounts(t)}}

AtStart == section \in {"idle", "signatures"} /\ offset = 0 /\ deferred = {} /\ warnings = {}

AtHeader(t, m) ==
  /\ section = "header" /\ offset = HeaderAt(t, m) /\ offset <= Len(raw)
  /\ deferred = {} /\ warnings = FoundSignatures(t)

AtKeys(t, m) ==
  /\ section = "accounts" /\ offset = KeyCountAt(t, m) /\ offset <= Len(raw) /\ is_v0 = t.v0
  /\ deferred = {} /\ warnings = FoundHeader(t)

Keyed(t) == is_v0 = t.v0 /\ num_accounts = Len(t.keys)

AtCount(t, m) ==
  /\ section = "blockhash" /\ offset = KeysEnd(t, m) /\ offset <= Len(raw) /\ Keyed(t)
  /\ total_accounts = Len(t.keys) /\ deferred = {} /\ warnings = FoundKeys(t)

AtInstructions(t, m) ==
  /\ section = "instructions" /\ Keyed(t) /\ num_ixs = Len(t.instructions) /\ at \in 0..num_ixs
  /\ offset = InstructionAt(t, m, at) /\ offset <= Len(raw)
  /\ total_accounts = Len(t.keys) /\ deferred = BeyondKeys(t, at)
  /\ warnings = FoundKeys(t) \cup Programs(t, at)

AtTables(t, m) ==
  /\ section = "tables" /\ t.v0 /\ Keyed(t) /\ offset = TablesAt(t, m) /\ offset <= Len(raw)
  /\ total_accounts = Len(t.keys) /\ deferred = BeyondKeys(t, Len(t.instructions))
  /\ warnings = FoundInstructions(t)

AtLookups(t, m) ==
  /\ section = "lookups" /\ t.v0 /\ Keyed(t) /\ num_alts = Len(t.lookups) /\ at \in 0..num_alts
  /\ offset = LookupAt(t, m, at) /\ offset <= Len(raw)
  /\ total_accounts = Len(t.keys) + m.load[at] /\ deferred = BeyondKeys(t, Len(t.instructions))
  /\ warnings = FoundInstructions(t) \cup Differ(t, at)

AtIndexes(t, m) ==
  /\ section = "indexes" /\ End(t, m) <= Len(raw)
  /\ total_accounts = AllAccounts(t) /\ deferred = BeyondKeys(t, Len(t.instructions))
  /\ warnings = FoundTables(t)

AtDone(t, m) == section = "done" /\ End(t, m) <= Len(raw) /\ warnings = FoundIndexes(t)

\* The bytes begin with a count of signatures that ends at m.q; the rest, as far as it
\* goes, is the body of the transaction.
Begins(t, m) ==
  /\ Compiled(t) /\ raw \in Seq(Byte) /\ Marked(raw, t, m) /\ m.q <= Len(raw)
  /\ read_compact_u16(raw, 0) = {[value |-> Len(t.signatures), next |-> m.q]}

\* Where the parser must find the bytes cut short.
Lost(t, m) == Cut /\ End(t, m) > Len(raw)

LEMMA CutKindsAre ==
  /\ "signature_bytes" \in CutKinds /\ "header_bytes" \in CutKinds /\ "key_bytes" \in CutKinds
  /\ "blockhash" \in CutKinds /\ "program_byte" \in CutKinds /\ "account_bytes" \in CutKinds
  /\ "data_bytes" \in CutKinds /\ "table_key" \in CutKinds /\ "lookup_bytes" \in CutKinds
  /\ "parser_error" \in CutKinds
BY DEF CutKinds

\* A warning of such a kind is among those found.
LEMMA Cuts ==
  ASSUME NEW what \in CutKinds, NEW who, Warn(what, who) \in warnings'
  PROVE  Cut'
<1>1. Warn(what, who).what = what
  BY DEF Warn
<1> QED BY <1>1 DEF Cut

LEMMA ErrorCuts == ASSUME Error PROVE Cut' /\ raw' = raw /\ report' = report
<1>1. Warn("parser_error", 0) \in warnings' /\ raw' = raw /\ report' = report
  BY DEF Error, buffer
<1> QED BY <1>1, CutKindsAre, Cuts

LEMMA GiveUpCuts ==
  ASSUME NEW found, NEW what \in CutKinds, NEW who, Warn(what, who) \in found, GiveUp(found)
  PROVE  Cut' /\ raw' = raw /\ report' = report
<1>1. Warn(what, who) \in warnings' /\ raw' = raw /\ report' = report
  BY DEF GiveUp, buffer
<1> QED BY <1>1, Cuts

LEMMA StartStep ==
  ASSUME AtStart, Start
  PROVE  AtStart'
BY DEF AtStart, Start

LEMMA SignaturesStep ==
  ASSUME NEW t, NEW m, Begins(t, m), AtStart, Signatures
  PROVE  AtHeader(t, m)' \/ Lost(t, m)'
<1> DEFINE c == [value |-> Len(t.signatures), next |-> m.q]
           end == m.q + Len(t.signatures) * SigLen
<1>1. read_compact_u16(raw, offset) = {c} /\ offset = 0 /\ warnings = {} /\ deferred = {}
  BY DEF Begins, AtStart
<1>2. ~Fail
  BY <1>1 DEF Fail
<1>3. IF Len(raw) < end THEN GiveUp({Warn("signature_bytes", 0)})
      ELSE /\ offset' = end
           /\ warnings' = warnings \cup WarnIf(Len(t.signatures) # report.signatures, "signatures")
           /\ section' = "header"
           /\ UNCHANGED <<buffer, counts, at, total_accounts, deferred>>
  <2>1. c.value = Len(t.signatures) /\ c.next = m.q
    OBVIOUS
  <2> HIDE DEF c
  <2>2. \E d \in {c} :
          LET last == d.next + d.value * SigLen
          IN  IF Len(raw) < last THEN GiveUp({Warn("signature_bytes", 0)})
              ELSE /\ offset' = last
                   /\ warnings' = warnings \cup WarnIf(d.value # report.signatures, "signatures")
                   /\ section' = "header"
                   /\ UNCHANGED <<buffer, counts, at, total_accounts, deferred>>
    BY <1>1, <1>2, Zenon DEF Signatures
  <2>3. LET last == c.next + c.value * SigLen
        IN  IF Len(raw) < last THEN GiveUp({Warn("signature_bytes", 0)})
              ELSE /\ offset' = last
                   /\ warnings' = warnings \cup WarnIf(c.value # report.signatures, "signatures")
                   /\ section' = "header"
                   /\ UNCHANGED <<buffer, counts, at, total_accounts, deferred>>
    BY <2>2, Zenon
  <2> QED BY <2>1, <2>3, Zenon
<1>4. end = HeaderAt(t, m) /\ Ordered(t, m) /\ Len(raw) \in Nat /\ Len(t.instructions) \in Nat
  BY OrderedLemma, CompiledFits, U16Assumption DEF HeaderAt, Begins
<1> HIDE DEF end
<1>5. CASE Len(raw) < end
  <2>1. Cut' /\ raw' = raw
    <3>1. GiveUp({Warn("signature_bytes", 0)})
      BY <1>3, <1>5, Zenon
    <3>2. Warn("signature_bytes", 0) \in {Warn("signature_bytes", 0)}
      OBVIOUS
    <3> QED BY <3>1, <3>2, CutKindsAre, GiveUpCuts
  <2>2. End(t, m) > Len(raw)
    BY <1>4, <1>5, OrderedEnds
  <2> QED BY <2>1, <2>2 DEF Lost
<1>6. CASE ~(Len(raw) < end)
  <2>1. end <= Len(raw)
    BY <1>4, <1>6, OrderedEnds
  <2>2. /\ offset' = end /\ section' = "header" /\ deferred' = {} /\ raw' = raw /\ report' = report
        /\ warnings' = WarnIf(Len(t.signatures) # report.signatures, "signatures")
    BY <1>1, <1>3, <1>6 DEF buffer
  <2> QED BY <1>4, <2>1, <2>2 DEF AtHeader, FoundSignatures, WarnIf, Warn
<1> QED BY <1>5, <1>6

LEMMA HeaderStep ==
  ASSUME NEW t, NEW m, Begins(t, m), AtHeader(t, m), Header
  PROVE  AtKeys(t, m)' \/ Lost(t, m)'
<1> DEFINE v0 == offset < Len(raw) /\ raw[offset + 1] = VersionPrefix
           start == IF v0 THEN offset + 1 ELSE offset
           found == WarnIf(v0 # report.v0, "version")
           fields == FieldsAt(t, m)
<1>1. /\ offset = HeaderAt(t, m) /\ offset \in Nat /\ Len(raw) \in Nat /\ offset <= Len(raw)
      /\ Ordered(t, m) /\ Len(t.instructions) \in Nat
  BY OrderedLemma, OrderedEnds, CompiledFits, U16Assumption DEF AtHeader, Begins
<1>2. /\ fields \in Nat /\ KeyCountAt(t, m) = fields + 3
      /\ fields = offset + (IF t.v0 THEN 1 ELSE 0) /\ KeyCountAt(t, m) <= End(t, m)
      /\ End(t, m) \in Nat
  BY <1>1, OrderedEnds, Zenon DEF FieldsAt, KeyCountAt
<1>3. t.v0 \in BOOLEAN
  BY DEF Begins, Compiled
<1>4. offset < Len(raw) => (v0 <=> t.v0)
  <2> SUFFICES ASSUME offset < Len(raw) PROVE v0 <=> t.v0
    OBVIOUS
  <2>1. CASE t.v0
    <3>1. Agrees(raw, offset, <<VersionPrefix>>)
      BY <1>1, <2>1 DEF Begins, Marked
    <3>2. raw[offset + 1] = VersionPrefix
      BY <1>1, <3>1 DEF Agrees
    <3> QED BY <2>1, <3>2
  <2>2. CASE ~t.v0
    <3>1. Agrees(raw, offset, <<t.required, t.readonly_signed, t.readonly_unsigned>>)
      <4>1. offset + 0 = offset /\ fields = offset + 0
        BY <1>1, <1>2, <2>2
      <4> QED BY <4>1 DEF Begins, Marked
    <3>2. raw[offset + 1] = t.required /\ t.required < Radix
      <4>1. Len(<<t.required, t.readonly_signed, t.readonly_unsigned>>) = 3
        OBVIOUS
      <4>2. raw[offset + 1] = <<t.required, t.readonly_signed, t.readonly_unsigned>>[1]
        BY <1>1, <3>1, <4>1 DEF Agrees
      <4> QED BY <4>2, <2>2 DEF Begins, Compiled
    <3>3. t.required # VersionPrefix
      BY <3>2, RadixAssumption DEF VersionPrefix, Begins, Compiled, Byte
    <3> QED BY <2>2, <3>2, <3>3
  <2> QED BY <1>3, <2>1, <2>2
<1> HIDE DEF v0, fields
<1>5. start \in Nat
  BY <1>1
<1>6. IF Len(raw) < start + 3 THEN GiveUp(found \cup {Warn("header_bytes", 0)})
      ELSE /\ is_v0' = v0 /\ offset' = start + 3
           /\ warnings' = warnings \cup found
           /\ section' = "accounts"
           /\ UNCHANGED <<buffer, num_accounts, num_ixs, num_alts, at, total_accounts, deferred>>
  BY Zenon DEF Header, v0
<1>7. CASE Len(raw) < start + 3
  <2>1. Cut' /\ raw' = raw
    <3>1. GiveUp(found \cup {Warn("header_bytes", 0)})
      BY <1>6, <1>7, Zenon
    <3> HIDE DEF found
    <3>2. Warn("header_bytes", 0) \in found \cup {Warn("header_bytes", 0)}
      OBVIOUS
    <3> QED BY <3>1, <3>2, CutKindsAre, GiveUpCuts
  <2>2. start <= fields
    <3>1. CASE offset < Len(raw)
      BY <1>1, <1>2, <1>3, <1>4, <3>1
    <3>2. CASE ~(offset < Len(raw))
      <4>1. ~v0
        BY <3>2 DEF v0
      <4> QED BY <1>1, <1>2, <4>1
    <3> QED BY <3>1, <3>2
  <2>3. End(t, m) > Len(raw)
    BY <1>1, <1>2, <1>5, <1>7, <2>2
  <2> QED BY <2>1, <2>3 DEF Lost
<1>8. CASE ~(Len(raw) < start + 3)
  <2>1. offset < Len(raw)
    <3>1. start >= offset
      BY <1>1
    <3> QED BY <1>1, <1>5, <1>8, <3>1
  <2>2. v0 = t.v0
    <3>1. v0 \in BOOLEAN
      BY DEF v0
    <3> QED BY <1>3, <1>4, <2>1, <3>1
  <2>3. start = fields
    <3>1. CASE t.v0
      BY <1>2, <2>2, <3>1
    <3>2. CASE ~t.v0
      <4>1. ~v0 /\ fields = offset + 0 /\ offset + 0 = offset
        BY <1>1, <1>2, <2>2, <3>2
      <4> QED BY <4>1
    <3> QED BY <3>1, <3>2
  <2>4. start + 3 = KeyCountAt(t, m) /\ KeyCountAt(t, m) <= Len(raw)
    BY <1>1, <1>2, <1>5, <1>8, <2>3
  <2>5. /\ is_v0' = v0 /\ offset' = start + 3 /\ section' = "accounts"
        /\ warnings' = warnings \cup found
        /\ UNCHANGED <<buffer, num_accounts, num_ixs, num_alts, at, total_accounts, deferred>>
    BY <1>6, <1>8, Zenon
  <2>6. deferred' = {} /\ raw' = raw /\ report' = report /\ warnings = FoundSignatures(t)
    BY <2>5 DEF buffer, AtHeader
  <2>7. warnings' = FoundHeader(t)
    BY <2>2, <2>5, <2>6, Zenon DEF FoundHeader
  <2>8. FoundHeader(t)' = FoundHeader(t)
    BY <2>6 DEF FoundHeader, FoundSignatures, WarnIf, Warn
  <2> QED BY <2>2, <2>4, <2>5, <2>6, <2>7, <2>8 DEF AtKeys
<1> QED BY <1>7, <1>8

\* Reading the one count that is at a place.
LEMMA OneCount ==
  ASSUME NEW t, NEW m, Begins(t, m), NEW p \in Nat, NEW n \in 0..U16Max, Agrees(raw, p, ShortVec(n))
  PROVE  /\ p + Len(ShortVec(n)) \in Nat
         /\ \/ /\ p + Len(ShortVec(n)) <= Len(raw)
               /\ read_compact_u16(raw, p) = {[value |-> n, next |-> p + Len(ShortVec(n))]}
            \/ /\ p + Len(ShortVec(n)) > Len(raw)
               /\ read_compact_u16(raw, p) = {}
<1>1. raw \in Seq(Byte) /\ Len(raw) \in Nat /\ Len(ShortVec(n)) \in Nat
  BY ShortVecProperties DEF Begins
<1>2. ReadsAs(raw, p, n)
  BY <1>1, ReadsThere
<1> DEFINE e == p + Len(ShortVec(n))
<1>3. e \in Nat
  BY <1>1
<1>4. read_compact_u16(raw, p) = IF e <= Len(raw) THEN {[value |-> n, next |-> e]} ELSE {}
  BY <1>2, Zenon DEF ReadsAs
<1> HIDE DEF e
<1>5. e <= Len(raw) \/ e > Len(raw)
  BY <1>1, <1>3
<1>6. CASE e <= Len(raw)
  BY <1>3, <1>4, <1>6, Zenon DEF e
<1>7. CASE e > Len(raw)
  <2>1. ~(e <= Len(raw))
    BY <1>1, <1>3, <1>7
  <2> QED BY <1>3, <1>4, <1>7, <2>1, Zenon DEF e
<1> QED BY <1>5, <1>6, <1>7

KeysRead(value, past) ==
  LET end == past + value * KeyLen
      found == WarnIf(value # Len(report.accounts), "accounts")
  IN  IF Len(raw) < end THEN GiveUp({Warn("key_bytes", 0)})
      ELSE IF Len(raw) < end + KeyLen THEN GiveUp(found \cup {Warn("blockhash", 0)})
      ELSE /\ num_accounts' = value /\ total_accounts' = value
           /\ offset' = end + KeyLen
           /\ warnings' = warnings \cup found
           /\ section' = "blockhash"
           /\ UNCHANGED <<buffer, num_ixs, num_alts, is_v0, at, deferred>>

LEMMA KeysStep ==
  ASSUME NEW t, NEW m, Begins(t, m), AtKeys(t, m), Keys
  PROVE  AtCount(t, m)' \/ Lost(t, m)'
<1> DEFINE n == Len(t.keys)
           past == offset + Len(ShortVec(n))
           u == n * KeyLen
           end == past + u
           found == WarnIf(n # Len(report.accounts), "accounts")
<1>1. /\ offset = KeyCountAt(t, m) /\ offset \in Nat /\ Len(raw) \in Nat
      /\ KeysEnd(t, m) \in Nat /\ End(t, m) \in Nat /\ KeysEnd(t, m) <= End(t, m)
  BY OrderedLemma, OrderedEnds, CompiledFits, U16Assumption DEF AtKeys, Begins
<1>2. n \in 0..U16Max /\ n \in Nat /\ u \in Nat /\ KeyLen \in Nat
  BY CompiledFits, U16Assumption, LengthAssumption, ProductNat DEF Begins
<1> HIDE DEF n
<1>3. /\ past \in Nat
      /\ \/ past <= Len(raw) /\ read_compact_u16(raw, offset) = {[value |-> n, next |-> past]}
         \/ past > Len(raw) /\ read_compact_u16(raw, offset) = {}
  <2>1. Agrees(raw, offset, ShortVec(n))
    BY <1>1 DEF Begins, Marked, n
  <2> QED BY <1>1, <1>2, <2>1, OneCount
<1>4. end + KeyLen = KeysEnd(t, m)
  BY <1>1, Zenon DEF KeysEnd, n
<1> HIDE DEF past, u
<1>5. end \in Nat /\ past <= end /\ end <= end + KeyLen /\ end + KeyLen \in Nat
  BY <1>2, <1>3
<1> HIDE DEF end
<1>6. CASE past > Len(raw)
  <2>1. read_compact_u16(raw, offset) = {}
    BY <1>1, <1>3, <1>6
  <2>2. Error
    BY <2>1, Zenon DEF Keys, Fail
  <2>3. End(t, m) > Len(raw)
    BY <1>1, <1>3, <1>4, <1>5, <1>6
  <2> QED BY <2>2, <2>3, ErrorCuts DEF Lost
<1>7. CASE past <= Len(raw)
  <2> DEFINE c == [value |-> n, next |-> past]
  <2>1. read_compact_u16(raw, offset) = {c}
    BY <1>1, <1>3, <1>7
  <2>2. KeysRead(c.value, c.next)
    <3> HIDE DEF c
    <3>1. read_compact_u16(raw, offset) # {}
      BY <2>1
    <3>2. \E d \in {c} : KeysRead(d.value, d.next)
      BY <2>1, <3>1, Zenon DEF Keys, Fail, KeysRead
    <3> QED BY <3>2
  <2>3. c.value = n /\ c.next = past
    OBVIOUS
  <2>4. KeysRead(n, past)
    <3> HIDE DEF c
    <3> QED BY <2>2, <2>3, Zenon
  <2>5. IF Len(raw) < end THEN GiveUp({Warn("key_bytes", 0)})
        ELSE IF Len(raw) < end + KeyLen THEN GiveUp(found \cup {Warn("blockhash", 0)})
        ELSE /\ num_accounts' = n /\ total_accounts' = n
             /\ offset' = end + KeyLen
             /\ warnings' = warnings \cup found
             /\ section' = "blockhash"
             /\ UNCHANGED <<buffer, num_ixs, num_alts, is_v0, at, deferred>>
    BY <2>4, Zenon DEF KeysRead, end, u
  <2> HIDE DEF found
  <2>6. CASE Len(raw) < end \/ Len(raw) < end + KeyLen
    <3>1. GiveUp({Warn("key_bytes", 0)}) \/ GiveUp(found \cup {Warn("blockhash", 0)})
      BY <2>5, <2>6, Zenon
    <3>2. /\ Warn("key_bytes", 0) \in {Warn("key_bytes", 0)}
          /\ Warn("blockhash", 0) \in found \cup {Warn("blockhash", 0)}
      OBVIOUS
    <3>3. Cut' /\ raw' = raw
      BY <3>1, <3>2, CutKindsAre, GiveUpCuts
    <3>4. End(t, m) > Len(raw)
      BY <1>1, <1>4, <1>5, <2>6
    <3> QED BY <3>3, <3>4 DEF Lost
  <2>7. CASE ~(Len(raw) < end \/ Len(raw) < end + KeyLen)
    <3>1. end + KeyLen <= Len(raw)
      BY <1>1, <1>5, <2>7
    <3>2. /\ num_accounts' = n /\ total_accounts' = n
          /\ offset' = end + KeyLen
          /\ warnings' = warnings \cup found
          /\ section' = "blockhash"
          /\ UNCHANGED <<buffer, num_ixs, num_alts, is_v0, at, deferred>>
      BY <2>5, <2>7, Zenon
    <3>3. /\ deferred' = {} /\ raw' = raw /\ report' = report /\ warnings = FoundHeader(t)
          /\ is_v0' = t.v0
      BY <3>2 DEF buffer, AtKeys
    <3>4. warnings' = FoundKeys(t)
      BY <3>2, <3>3, Zenon DEF FoundKeys, found, n
    <3>5. FoundKeys(t)' = FoundKeys(t)
      BY <3>3 DEF FoundKeys, FoundHeader, FoundSignatures, WarnIf, Warn
    <3> QED BY <1>4, <3>1, <3>2, <3>3, <3>4, <3>5 DEF AtCount, Keyed, n
  <2> QED BY <2>6, <2>7
<1> QED BY <1>3, <1>6, <1>7

LEMMA CountStep ==
  ASSUME NEW t, NEW m, Begins(t, m), AtCount(t, m), InstructionCount
  PROVE  AtInstructions(t, m)' \/ Lost(t, m)'
<1> DEFINE n == Len(t.instructions)
           past == offset + Len(ShortVec(n))
<1>1. /\ offset = KeysEnd(t, m) /\ offset \in Nat /\ Len(raw) \in Nat /\ n \in 0..U16Max /\ n \in Nat
      /\ End(t, m) \in Nat
  BY OrderedLemma, OrderedEnds, CompiledFits, U16Assumption DEF AtCount, Begins
<1>2. /\ past \in Nat
      /\ \/ past <= Len(raw) /\ read_compact_u16(raw, offset) = {[value |-> n, next |-> past]}
         \/ past > Len(raw) /\ read_compact_u16(raw, offset) = {}
  <2>1. Agrees(raw, offset, ShortVec(n))
    BY <1>1 DEF Begins, Marked
  <2> HIDE DEF n
  <2> QED BY <1>1, <2>1, OneCount
<1>3. past = InstructionAt(t, m, 0) /\ past <= End(t, m)
  <2>1. Ordered(t, m)
    BY OrderedLemma DEF Begins
  <2>2. past = InstructionAt(t, m, 0)
    BY <1>1, <2>1, Zenon DEF Ordered
  <2>3. 0 \in 0..n
    BY <1>1
  <2>4. InstructionAt(t, m, 0) <= End(t, m)
    BY <1>1, <2>1, <2>3, OrderedEnds
  <2> QED BY <2>2, <2>4
<1> HIDE DEF past
<1>4. CASE past > Len(raw)
  <2>1. read_compact_u16(raw, offset) = {}
    BY <1>1, <1>2, <1>4
  <2>2. Error
    BY <2>1, Zenon DEF InstructionCount, Fail
  <2>3. End(t, m) > Len(raw)
    BY <1>1, <1>2, <1>3, <1>4
  <2> QED BY <2>2, <2>3, ErrorCuts DEF Lost
<1>5. CASE past <= Len(raw)
  <2> DEFINE c == [value |-> n, next |-> past]
  <2>1. read_compact_u16(raw, offset) = {c}
    BY <1>1, <1>2, <1>5
  <2>2. c.value = n /\ c.next = past
    OBVIOUS
  <2> HIDE DEF c
  <2>3. /\ num_ixs' = c.value /\ offset' = c.next /\ at' = 0
        /\ section' = "instructions"
        /\ UNCHANGED <<buffer, num_accounts, num_alts, is_v0, total_accounts, deferred, warnings>>
    <3>1. read_compact_u16(raw, offset) # {}
      BY <2>1
    <3> QED BY <2>1, <3>1 DEF InstructionCount, Fail
  <2>4. /\ deferred' = {} /\ raw' = raw /\ report' = report /\ warnings' = FoundKeys(t)
        /\ is_v0' = t.v0 /\ num_accounts' = Len(t.keys) /\ total_accounts' = Len(t.keys)
    BY <2>3 DEF buffer, AtCount, Keyed
  <2>5. FoundKeys(t)' = FoundKeys(t)
    BY <2>4 DEF FoundKeys, FoundHeader, FoundSignatures, WarnIf, Warn
  <2>6. BeyondKeys(t, 0) = {} /\ Programs(t, 0) = {}
    BY DEF BeyondKeys, Programs
  <2>7. 0 \in 0..n
    BY <1>1
  <2> QED BY <1>3, <1>5, <2>2, <2>3, <2>4, <2>5, <2>6, <2>7 DEF AtInstructions, Keyed
<1> QED BY <1>2, <1>4, <1>5

-----------------------------------------------------------------------------
(* Instructions and lookups *)

\* What the parser makes of a counted list at a place: no count, or the count and no more
\* than a part of the list, or all of it.
ListRead(p, b) ==
  LET n == Len(b)
      a == p + Len(ShortVec(n))
  IN  /\ a \in Nat /\ n \in Nat
      /\ \/ a > Len(raw) /\ read_compact_u16(raw, p) = {}
         \/ /\ a <= Len(raw) /\ read_compact_u16(raw, p) = {[value |-> n, next |-> a]}
            /\ \/ a + n > Len(raw)
               \/ a + n <= Len(raw) /\ IndexesAt(a, n) = b

LEMMA ListReadLemma ==
  ASSUME NEW t, NEW m, Begins(t, m), NEW p \in Nat, NEW b \in Seq(Byte), Len(b) \in 0..U16Max,
         Agrees(raw, p, Counted(b))
  PROVE  ListRead(p, b)
<1> DEFINE n == Len(b)
           v == ShortVec(n)
           a == p + Len(v)
<1>1. n \in 0..U16Max /\ n \in Nat /\ v \in Seq(Byte) /\ Len(v) \in Nat /\ raw \in Seq(Byte) /\ Len(raw) \in Nat
  BY ShortVecProperties, U16Assumption DEF Begins
<1>2. Agrees(raw, p, v \o b)
  BY Zenon DEF Counted, v, n
<1> HIDE DEF n, v
<1>3. Agrees(raw, p, v) /\ Agrees(raw, a, b)
  BY <1>1, <1>2, AgreesSplit
<1>4. /\ a \in Nat
      /\ \/ a <= Len(raw) /\ read_compact_u16(raw, p) = {[value |-> n, next |-> a]}
         \/ a > Len(raw) /\ read_compact_u16(raw, p) = {}
  BY <1>1, <1>3, OneCount DEF v
<1> HIDE DEF a
<1>5. ASSUME a + n <= Len(raw)
      PROVE  IndexesAt(a, n) = b
  <2>1. IndexesAt(a, n) = [k \in 1..n |-> raw[a + k]]
    BY <1>5 DEF IndexesAt
  <2>2. \A k \in 1..n : raw[a + k] = b[k]
    BY <1>1, <1>3, <1>4, <1>5 DEF Agrees, n
  <2>3. b = [k \in 1..n |-> b[k]]
    BY DEF n
  <2> QED BY <2>1, <2>2, <2>3
<1>6. a + n > Len(raw) \/ a + n <= Len(raw)
  BY <1>1, <1>4
<1> QED BY <1>1, <1>4, <1>5, <1>6, Zenon DEF ListRead, a, v, n

\* The k-th instruction in the bytes, and where it ends.
InstructionRead(t, m, k) ==
  LET ix == t.instructions[k]
      p == InstructionAt(t, m, k - 1)
      d == p + 1 + Len(Counted(ix.accounts))
  IN  /\ p \in Nat /\ d \in Nat /\ FitsIx(ix)
      /\ p + 1 <= Len(raw) => raw[p + 1] = ix.program
      /\ ListRead(p + 1, ix.accounts) /\ ListRead(d, ix.data)
      /\ InstructionAt(t, m, k) = d + Len(Counted(ix.data))
      /\ InstructionAt(t, m, k) <= End(t, m)

LEMMA InstructionReadLemma ==
  ASSUME NEW t, NEW m, Begins(t, m), NEW k \in 1..Len(t.instructions)
  PROVE  InstructionRead(t, m, k)
<1> DEFINE ix == t.instructions[k]
           p == InstructionAt(t, m, k - 1)
           a == Counted(ix.accounts)
           b == Counted(ix.data)
           o == <<ix.program>>
           d == p + 1 + Len(a)
<1>1. /\ Ordered(t, m) /\ Compiled(t) /\ Len(t.instructions) \in Nat /\ raw \in Seq(Byte)
  BY OrderedLemma, CompiledFits, U16Assumption DEF Begins
<1>2. FitsIx(ix)
  BY <1>1, CompiledFits
<1>3. k - 1 \in 0..Len(t.instructions) /\ k \in 0..Len(t.instructions)
  BY <1>1
<1>4. p \in Nat /\ InstructionAt(t, m, k) <= End(t, m)
  BY <1>1, <1>3, OrderedEnds
<1>5. InstructionAt(t, m, k) = p + Len(InstructionBytes(ix))
  BY <1>1, Zenon DEF Ordered
<1>6. Agrees(raw, p, InstructionBytes(ix))
  <2>1. Len(Ixs(t)) = Len(t.instructions) /\ Ixs(t)[k] = InstructionBytes(ix)
    BY <1>1, PiecesType DEF Ixs
  <2> QED BY <2>1, Zenon DEF Begins, Marked
<1>7. a \in Seq(Byte) /\ b \in Seq(Byte) /\ Len(a) \in Nat /\ Len(b) \in Nat
  BY <1>2, CountedType, LenProperties DEF FitsIx
<1>8. o \in Seq(Byte) /\ Len(o) = 1 /\ o[1] = ix.program
  BY <1>2 DEF FitsIx
<1>9. InstructionBytes(ix) = o \o a \o b /\ Len(InstructionBytes(ix)) = 1 + Len(a) + Len(b)
  BY <1>2, InstructionBytesType DEF InstructionBytes
<1> HIDE DEF o, a, b, p, ix
<1>10. Agrees(raw, p, o) /\ Agrees(raw, p + 1, a) /\ Agrees(raw, p + Len(o \o a), b)
  <2>1. o \o a \in Seq(Byte)
    BY <1>7, <1>8, ConcatProperties
  <2>2. Agrees(raw, p, o \o a) /\ Agrees(raw, p + Len(o \o a), b)
    BY <1>1, <1>4, <1>6, <1>7, <1>9, <2>1, AgreesSplit
  <2>3. Agrees(raw, p, o) /\ Agrees(raw, p + Len(o), a)
    BY <1>1, <1>4, <1>7, <1>8, <2>2, AgreesSplit
  <2> QED BY <1>8, <2>2, <2>3
<1>11. p + Len(o \o a) = d /\ d \in Nat /\ p + 1 \in Nat
  <2>1. Len(o \o a) = 1 + Len(a)
    <3>1. Len(o \o a) = Len(o) + Len(a)
      BY <1>7, <1>8, ConcatProperties
    <3> QED BY <1>8, <3>1
  <2> QED BY <1>4, <1>7, <2>1
<1>12. Agrees(raw, d, b)
  BY <1>10, <1>11
<1>13. p + 1 <= Len(raw) => raw[p + 1] = ix.program
  BY <1>8, <1>10 DEF Agrees
<1>14. InstructionAt(t, m, k) = d + Len(b)
  BY <1>4, <1>5, <1>7, <1>9
<1> HIDE DEF d
<1>15. ListRead(p + 1, ix.accounts) /\ ListRead(d, ix.data)
  BY <1>2, <1>10, <1>11, <1>12, ListReadLemma DEF a, b, FitsIx
<1> QED BY <1>2, <1>4, <1>11, <1>13, <1>14, <1>15, Zenon DEF InstructionRead, ix, p, d, a, b

\* The k-th lookup in the bytes.
LookupRead(t, m, k) ==
  LET l == t.lookups[k]
      p == LookupAt(t, m, k - 1) + KeyLen
      d == p + Len(Counted(l.writable))
  IN  /\ LookupAt(t, m, k - 1) \in Nat /\ p \in Nat /\ d \in Nat /\ FitsLookup(l)
      /\ ListRead(p, l.writable) /\ ListRead(d, l.readonly)
      /\ LookupAt(t, m, k) = d + Len(Counted(l.readonly))
      /\ LookupAt(t, m, k) <= End(t, m)

LEMMA LookupReadLemma ==
  ASSUME NEW t, NEW m, Begins(t, m), t.v0, NEW k \in 1..Len(t.lookups)
  PROVE  LookupRead(t, m, k)
<1> DEFINE l == t.lookups[k]
           p == LookupAt(t, m, k - 1)
           a == Counted(l.writable)
           b == Counted(l.readonly)
           o == Opaque(KeyLen)
           d == p + KeyLen + Len(a)
<1>1. /\ Ordered(t, m) /\ Compiled(t) /\ Len(t.lookups) \in Nat /\ Len(t.instructions) \in Nat
      /\ raw \in Seq(Byte)
  BY OrderedLemma, CompiledFits, U16Assumption DEF Begins
<1>2. FitsLookup(l)
  BY <1>1, CompiledFits
<1>3. k - 1 \in 0..Len(t.lookups) /\ k \in 0..Len(t.lookups)
  BY <1>1
<1>4. p \in Nat /\ LookupAt(t, m, k) <= End(t, m)
  BY <1>1, <1>3, OrderedEnds
<1>5. LookupAt(t, m, k) = p + Len(LookupBytes(l))
  BY <1>1, Zenon DEF Ordered
<1>6. Agrees(raw, p, LookupBytes(l))
  <2>1. Len(Lks(t)) = Len(t.lookups) /\ Lks(t)[k] = LookupBytes(l)
    BY <1>1, PiecesType DEF Lks
  <2> QED BY <2>1, Zenon DEF Begins, Marked
<1>7. a \in Seq(Byte) /\ b \in Seq(Byte) /\ Len(a) \in Nat /\ Len(b) \in Nat
  BY <1>2, CountedType, LenProperties DEF FitsLookup
<1>8. o \in Seq(Byte) /\ Len(o) = KeyLen /\ KeyLen \in Nat
  BY LengthAssumption, OpaqueType
<1>9. LookupBytes(l) = o \o a \o b /\ Len(LookupBytes(l)) = KeyLen + Len(a) + Len(b)
  BY <1>2, LookupBytesType DEF LookupBytes
<1> HIDE DEF o, a, b, p, l
<1>10. Agrees(raw, p + KeyLen, a) /\ Agrees(raw, p + Len(o \o a), b)
  <2>1. o \o a \in Seq(Byte)
    BY <1>7, <1>8, ConcatProperties
  <2>2. Agrees(raw, p, o \o a) /\ Agrees(raw, p + Len(o \o a), b)
    BY <1>1, <1>4, <1>6, <1>7, <1>9, <2>1, AgreesSplit
  <2>3. Agrees(raw, p + Len(o), a)
    BY <1>1, <1>4, <1>7, <1>8, <2>2, AgreesSplit
  <2> QED BY <1>8, <2>2, <2>3
<1>11. p + Len(o \o a) = d /\ d \in Nat /\ p + KeyLen \in Nat
  <2>1. Len(o \o a) = KeyLen + Len(a)
    BY <1>7, <1>8, ConcatProperties
  <2> QED BY <1>4, <1>7, <1>8, <2>1
<1>12. Agrees(raw, d, b)
  BY <1>10, <1>11
<1>13. LookupAt(t, m, k) = d + Len(b)
  BY <1>4, <1>5, <1>7, <1>8, <1>9
<1> HIDE DEF d
<1>14. ListRead(p + KeyLen, l.writable) /\ ListRead(d, l.readonly)
  BY <1>2, <1>10, <1>11, <1>12, ListReadLemma DEF a, b, FitsLookup
<1> QED BY <1>2, <1>4, <1>11, <1>13, <1>14, Zenon DEF LookupRead, l, p, d, a, b

\* What ReadInstruction does with the two counts it read.
InstructionTaken(accts, data) ==
  LET program == raw[offset + 1]
      found == IF program >= num_accounts THEN {Warn("program", at)} ELSE {}
      idx == IndexesAt(accts.next, accts.value)
      seen == warnings \cup found \cup Exhausted(accts.next, accts.value, "account_bytes", at)
  IN  /\ deferred' = deferred \cup Beyond(idx)
      /\ IF Len(raw) < data.next + data.value
           THEN /\ section' = "done"
                /\ warnings' = seen \cup {Warn("data_bytes", at)}
                /\ UNCHANGED <<offset, at>>
           ELSE /\ warnings' = seen
                /\ offset' = data.next + data.value /\ at' = at + 1
                /\ UNCHANGED section

LEMMA TakesInstruction ==
  ASSUME ReadInstruction
  PROVE  /\ section = "instructions" /\ at < num_ixs /\ Has(1) /\ UNCHANGED <<buffer, counts, total_accounts>>
         /\ \E accts \in read_compact_u16(raw, offset + 1) :
              \E data \in read_compact_u16(raw, accts.next + Len(IndexesAt(accts.next, accts.value))) :
                InstructionTaken(accts, data)
BY Zenon DEF ReadInstruction, InstructionTaken

LEMMA ProgramsGrow ==
  ASSUME NEW t, NEW k \in Nat
  PROVE  Programs(t, k + 1) = Programs(t, k) \cup (IF t.instructions[k + 1].program >= Len(t.keys)
                                                     THEN {Warn("program", k)} ELSE {})
<1>1. \A j : j \in 1..(k + 1) <=> j \in 1..k \/ j = k + 1
  OBVIOUS
<1>2. k + 1 - 1 = k
  OBVIOUS
<1> QED BY <1>1, <1>2 DEF Programs

LEMMA BeyondGrows ==
  ASSUME NEW t, NEW k \in Nat, at = k, num_accounts = Len(t.keys), FitsIx(t.instructions[k + 1])
  PROVE  BeyondKeys(t, k + 1) = BeyondKeys(t, k) \cup Beyond(t.instructions[k + 1].accounts)
<1> DEFINE b == t.instructions[k + 1].accounts
<1>1. \A j : j \in 1..(k + 1) <=> j \in 1..k \/ j = k + 1
  OBVIOUS
<1>2. k + 1 - 1 = k
  OBVIOUS
<1>3. \A j \in 1..Len(b) : b[j] \in Byte
  BY DEF FitsIx
<1>4. ASSUME NEW d
      PROVE  d \in BeyondKeys(t, k + 1) <=> d \in BeyondKeys(t, k) \/ d \in Beyond(b)
  <2>1. d \in Beyond(b) <=> \E j \in 1..Len(b) : d = <<k, b[j]>> /\ b[j] >= Len(t.keys)
    BY DEF Beyond
  <2>2. (\E j \in 1..Len(b) : d = <<k, b[j]>> /\ b[j] >= Len(t.keys)) => d \in Nat \X Byte
    BY <1>3
  <2>3. d \in BeyondKeys(t, k + 1) <=>
          /\ d \in Nat \X Byte
          /\ \/ \E i \in 1..k : \E j \in 1..Len(t.instructions[i].accounts) :
                  d = <<i - 1, t.instructions[i].accounts[j]>> /\ t.instructions[i].accounts[j] >= Len(t.keys)
             \/ \E j \in 1..Len(b) : d = <<k, b[j]>> /\ b[j] >= Len(t.keys)
    BY <1>1, <1>2 DEF BeyondKeys
  <2>4. d \in BeyondKeys(t, k) <=>
          /\ d \in Nat \X Byte
          /\ \E i \in 1..k : \E j \in 1..Len(t.instructions[i].accounts) :
                  d = <<i - 1, t.instructions[i].accounts[j]>> /\ t.instructions[i].accounts[j] >= Len(t.keys)
    BY DEF BeyondKeys
  <2> QED BY <2>1, <2>2, <2>3, <2>4, Zenon
<1> QED BY <1>4, Zenon DEF b

\* The places of the instruction the parser is at, as numbers.
AtInstruction(t, m, k, a, d, e, z) ==
  LET ix == t.instructions[k + 1]
      na == Len(ix.accounts)
      nd == Len(ix.data)
  IN  /\ offset \in Nat /\ Len(raw) \in Nat /\ na \in Nat /\ nd \in Nat /\ a \in Nat /\ d \in Nat /\ e \in Nat
      /\ z = End(t, m) /\ z \in Nat
      /\ k + 1 \in 1..Len(t.instructions) /\ FitsIx(ix)
      /\ offset + 1 <= Len(raw) => raw[offset + 1] = ix.program
      /\ offset + 1 <= a /\ a + na <= d /\ d + nd = e /\ e <= z /\ e = InstructionAt(t, m, k + 1)
      /\ \/ a > Len(raw) /\ read_compact_u16(raw, offset + 1) = {}
         \/ /\ a <= Len(raw) /\ read_compact_u16(raw, offset + 1) = {[value |-> na, next |-> a]}
            /\ \/ a + na > Len(raw)
               \/ /\ a + na <= Len(raw) /\ IndexesAt(a, na) = ix.accounts
                  /\ \/ d > Len(raw) /\ read_compact_u16(raw, a + na) = {}
                     \/ d <= Len(raw) /\ read_compact_u16(raw, a + na) = {[value |-> nd, next |-> d]}

LEMMA AtInstructionLemma ==
  ASSUME NEW t, NEW m, Begins(t, m), AtInstructions(t, m), NEW k \in Nat, at = k, at < num_ixs
  PROVE  \E a, d, e, z : AtInstruction(t, m, k, a, d, e, z)
<1> DEFINE ix == t.instructions[k + 1]
           na == Len(ix.accounts)
           nd == Len(ix.data)
           p == offset
           a == p + 1 + Len(ShortVec(na))
           c == a + na
           d == c + Len(ShortVec(nd))
           e == d + nd
           z == End(t, m)
<1>1. /\ Len(t.instructions) \in Nat /\ Compiled(t) /\ Ordered(t, m) /\ z \in Nat /\ raw \in Seq(Byte)
      /\ Len(raw) \in Nat
  BY OrderedLemma, CompiledFits, OrderedEnds, U16Assumption DEF Begins
<1>2. k + 1 \in 1..Len(t.instructions) /\ (k + 1) - 1 = k
  BY <1>1 DEF AtInstructions
<1>3. p = InstructionAt(t, m, k) /\ InstructionRead(t, m, k + 1)
  BY <1>2, InstructionReadLemma DEF AtInstructions
<1> HIDE DEF z, p, ix
<1>4. FitsIx(ix) /\ na \in Nat /\ nd \in Nat /\ na \in 0..U16Max /\ nd \in 0..U16Max
  <2>1. FitsIx(ix)
    BY <1>3 DEF InstructionRead, ix
  <2> QED BY <2>1, U16Assumption DEF FitsIx
<1>5. /\ Len(Counted(ix.accounts)) = Len(ShortVec(na)) + na
      /\ Len(Counted(ix.data)) = Len(ShortVec(nd)) + nd
      /\ Len(ShortVec(na)) \in Nat /\ Len(ShortVec(nd)) \in Nat
  <2>1. ix.accounts \in Seq(Byte) /\ ix.data \in Seq(Byte)
    BY <1>4 DEF FitsIx
  <2>2. Len(ShortVec(na)) \in Nat /\ Len(ShortVec(nd)) \in Nat
    <3> HIDE DEF na, nd
    <3> QED BY <1>4, ShortVecProperties
  <2> QED BY <1>4, <2>1, <2>2, CountedType
<1>6. /\ p \in Nat
      /\ p + 1 <= Len(raw) => raw[p + 1] = ix.program
      /\ ListRead(p + 1, ix.accounts) /\ ListRead(p + 1 + Len(Counted(ix.accounts)), ix.data)
      /\ InstructionAt(t, m, k + 1) = p + 1 + Len(Counted(ix.accounts)) + Len(Counted(ix.data))
      /\ InstructionAt(t, m, k + 1) <= z
  BY <1>2, <1>3, Zenon DEF InstructionRead, ix, z
<1> HIDE DEF na, nd
<1> DEFINE la == Len(ShortVec(na))
           ld == Len(ShortVec(nd))
<1>7. p \in Nat /\ la \in Nat /\ ld \in Nat /\ na \in Nat /\ nd \in Nat
  BY <1>4, <1>5, <1>6 DEF na, nd
<1>8. Len(Counted(ix.accounts)) = la + na /\ Len(Counted(ix.data)) = ld + nd
  BY <1>5 DEF na, nd
<1> HIDE DEF la, ld
<1>9. p + 1 + (la + na) = c /\ p + 1 + (la + na) + (ld + nd) = e
  BY <1>7 DEF la, ld
<1>10. a \in Nat /\ c \in Nat /\ d \in Nat /\ e \in Nat /\ p + 1 <= a /\ c <= d
  BY <1>7 DEF la, ld
<1>11. ListRead(p + 1, ix.accounts) /\ ListRead(c, ix.data) /\ InstructionAt(t, m, k + 1) = e /\ e <= z
  BY <1>6, <1>8, <1>9, Zenon
<1>12. /\ \/ a > Len(raw) /\ read_compact_u16(raw, p + 1) = {}
          \/ /\ a <= Len(raw) /\ read_compact_u16(raw, p + 1) = {[value |-> na, next |-> a]}
             /\ \/ c > Len(raw)
                \/ c <= Len(raw) /\ IndexesAt(a, na) = ix.accounts
       /\ \/ d > Len(raw) /\ read_compact_u16(raw, c) = {}
          \/ d <= Len(raw) /\ read_compact_u16(raw, c) = {[value |-> nd, next |-> d]}
  <2>1. /\ \/ p + 1 + Len(ShortVec(Len(ix.accounts))) > Len(raw) /\ read_compact_u16(raw, p + 1) = {}
           \/ /\ p + 1 + Len(ShortVec(Len(ix.accounts))) <= Len(raw)
              /\ read_compact_u16(raw, p + 1) =
                   {[value |-> Len(ix.accounts), next |-> p + 1 + Len(ShortVec(Len(ix.accounts)))]}
              /\ \/ p + 1 + Len(ShortVec(Len(ix.accounts))) + Len(ix.accounts) > Len(raw)
                 \/ /\ p + 1 + Len(ShortVec(Len(ix.accounts))) + Len(ix.accounts) <= Len(raw)
                    /\ IndexesAt(p + 1 + Len(ShortVec(Len(ix.accounts))), Len(ix.accounts)) = ix.accounts
    BY <1>11, Zenon DEF ListRead
  <2>2. \/ c + Len(ShortVec(Len(ix.data))) > Len(raw) /\ read_compact_u16(raw, c) = {}
        \/ /\ c + Len(ShortVec(Len(ix.data))) <= Len(raw)
           /\ read_compact_u16(raw, c) = {[value |-> Len(ix.data), next |-> c + Len(ShortVec(Len(ix.data)))]}
    <3> HIDE DEF c
    <3> QED BY <1>11, Zenon DEF ListRead
  <2> QED BY <2>1, <2>2, Zenon DEF na, nd
<1>13. AtInstruction(t, m, k, a, d, e, z)
  <2> HIDE DEF a, d, e
  <2>1. /\ \/ a > Len(raw) /\ read_compact_u16(raw, p + 1) = {}
           \/ /\ a <= Len(raw) /\ read_compact_u16(raw, p + 1) = {[value |-> na, next |-> a]}
              /\ \/ a + na > Len(raw)
                 \/ /\ a + na <= Len(raw) /\ IndexesAt(a, na) = ix.accounts
                    /\ \/ d > Len(raw) /\ read_compact_u16(raw, a + na) = {}
                       \/ d <= Len(raw) /\ read_compact_u16(raw, a + na) = {[value |-> nd, next |-> d]}
    BY <1>12, Zenon
  <2>2. d + nd = e
    BY DEF e
  <2>3. p + 1 <= Len(raw) => raw[p + 1] = ix.program
    BY <1>6
  <2> QED BY <1>1, <1>2, <1>4, <1>7, <1>10, <1>11, <2>1, <2>2, <2>3, Zenon DEF AtInstruction, p, ix, na, nd, z
<1> HIDE DEF a, d, e
<1> QED BY <1>13

LEMMA ReadInstructionStep ==
  ASSUME NEW t, NEW m, Begins(t, m), AtInstructions(t, m), NEW k \in Nat, at = k, ReadInstruction
  PROVE  AtInstructions(t, m)' \/ Lost(t, m)'
<1>1. /\ section = "instructions" /\ at < num_ixs /\ Has(1) /\ UNCHANGED <<buffer, counts, total_accounts>>
      /\ \E accts \in read_compact_u16(raw, offset + 1) :
           \E data \in read_compact_u16(raw, accts.next + Len(IndexesAt(accts.next, accts.value))) :
             InstructionTaken(accts, data)
  BY TakesInstruction
<1>2. PICK a, d, e, z : AtInstruction(t, m, k, a, d, e, z)
  BY <1>1, AtInstructionLemma
<1> DEFINE ix == t.instructions[k + 1]
           na == Len(ix.accounts)
           nd == Len(ix.data)
           acc == [value |-> na, next |-> a]
           dat == [value |-> nd, next |-> d]
           found == IF ix.program >= Len(t.keys) THEN {Warn("program", k)} ELSE {}
<1>3. /\ offset \in Nat /\ Len(raw) \in Nat /\ na \in Nat /\ nd \in Nat /\ a \in Nat /\ d \in Nat /\ e \in Nat
      /\ z = End(t, m) /\ z \in Nat
      /\ k + 1 \in 1..Len(t.instructions) /\ FitsIx(ix)
      /\ offset + 1 <= Len(raw) => raw[offset + 1] = ix.program
      /\ offset + 1 <= a /\ a + na <= d /\ d + nd = e /\ e <= z /\ e = InstructionAt(t, m, k + 1)
  BY <1>2, Zenon DEF AtInstruction
<1>4. \/ a > Len(raw) /\ read_compact_u16(raw, offset + 1) = {}
      \/ /\ a <= Len(raw) /\ read_compact_u16(raw, offset + 1) = {acc}
         /\ \/ a + na > Len(raw)
            \/ /\ a + na <= Len(raw) /\ IndexesAt(a, na) = ix.accounts
               /\ \/ d > Len(raw) /\ read_compact_u16(raw, a + na) = {}
                  \/ d <= Len(raw) /\ read_compact_u16(raw, a + na) = {dat}
  BY <1>2, Zenon DEF AtInstruction
<1>5. acc.value = na /\ acc.next = a /\ dat.value = nd /\ dat.next = d
  OBVIOUS
<1>6. raw[offset + 1] = ix.program /\ num_accounts = Len(t.keys) /\ Len(ix.accounts) = na
  <2>1. offset + 1 <= Len(raw)
    BY <1>1, <1>3 DEF Has
  <2> QED BY <1>3, <2>1 DEF AtInstructions, Keyed
<1> HIDE DEF acc, dat
<1>7. PICK data \in read_compact_u16(raw, a + Len(IndexesAt(a, na))) : InstructionTaken(acc, data)
  BY <1>1, <1>4, <1>5, Zenon
<1>8. read_compact_u16(raw, offset + 1) = {acc}
  BY <1>1, <1>4, Zenon
<1>9. raw' = raw /\ report' = report /\ End(t, m)' = End(t, m)
  BY <1>1 DEF buffer
<1>10. CASE a + na > Len(raw)
  <2> HIDE DEF ix, na, nd
  <2>1. Exhausted(a, na, "account_bytes", at) = {Warn("account_bytes", at)}
    BY <1>10 DEF Exhausted
  <2>2. warnings \cup (IF raw[offset + 1] >= num_accounts THEN {Warn("program", at)} ELSE {})
            \cup Exhausted(a, na, "account_bytes", at) \subseteq warnings'
    <3>1. \/ warnings' = warnings \cup (IF raw[offset + 1] >= num_accounts THEN {Warn("program", at)} ELSE {})
                           \cup Exhausted(a, na, "account_bytes", at) \cup {Warn("data_bytes", at)}
          \/ warnings' = warnings \cup (IF raw[offset + 1] >= num_accounts THEN {Warn("program", at)} ELSE {})
                           \cup Exhausted(a, na, "account_bytes", at)
      BY <1>5, <1>7, Zenon DEF InstructionTaken
    <3> QED BY <3>1, Zenon
  <2>3. Warn("account_bytes", at) \in warnings'
    BY <2>1, <2>2
  <2>4. Cut'
    BY <2>3, CutKindsAre, Cuts
  <2>5. z > Len(raw)
    BY <1>3, <1>10
  <2> QED BY <1>3, <1>9, <2>4, <2>5 DEF Lost
<1>11. CASE a + na <= Len(raw)
  <2>1. ~(a + na > Len(raw))
    BY <1>3, <1>11
  <2>2. IndexesAt(a, na) = ix.accounts /\ (read_compact_u16(raw, a + na) = {} \/ read_compact_u16(raw, a + na) = {dat})
    BY <1>4, <1>8, <1>1, <2>1, Zenon
  <2>3. InstructionTaken(acc, dat)
    <3> HIDE DEF ix, na
    <3>1. data \in read_compact_u16(raw, a + na)
      BY <1>6, <1>7, <2>2, Zenon
    <3> QED BY <1>7, <2>2, <3>1, Zenon
  <2> DEFINE seen == warnings \cup found \cup Exhausted(a, na, "account_bytes", at)
  <2>4. /\ deferred' = deferred \cup Beyond(ix.accounts)
        /\ IF Len(raw) < d + nd
             THEN /\ section' = "done"
                  /\ warnings' = seen \cup {Warn("data_bytes", at)}
                  /\ UNCHANGED <<offset, at>>
             ELSE /\ warnings' = seen
                  /\ offset' = d + nd /\ at' = at + 1
                  /\ UNCHANGED section
    <3> HIDE DEF ix, na, nd
    <3>1. /\ deferred' = deferred \cup Beyond(IndexesAt(acc.next, acc.value))
          /\ IF Len(raw) < dat.next + dat.value
               THEN /\ section' = "done"
                    /\ warnings' = warnings \cup (IF raw[offset + 1] >= num_accounts THEN {Warn("program", at)} ELSE {})
                         \cup Exhausted(acc.next, acc.value, "account_bytes", at) \cup {Warn("data_bytes", at)}
                    /\ UNCHANGED <<offset, at>>
               ELSE /\ warnings' = warnings \cup (IF raw[offset + 1] >= num_accounts THEN {Warn("program", at)} ELSE {})
                         \cup Exhausted(acc.next, acc.value, "account_bytes", at)
                    /\ offset' = dat.next + dat.value /\ at' = at + 1
                    /\ UNCHANGED section
      BY <2>3, Zenon DEF InstructionTaken
    <3> QED BY <1>5, <1>6, <2>2, <3>1, Zenon DEF found
  <2>5. Exhausted(a, na, "account_bytes", at) = {}
    <3> HIDE DEF na
    <3> QED BY <2>1 DEF Exhausted
  <2>6. CASE Len(raw) < d + nd
    <3>1. Warn("data_bytes", at) \in warnings'
      BY <2>4, <2>6, Zenon
    <3>2. Cut'
      BY <3>1, CutKindsAre, Cuts
    <3>3. z > Len(raw)
      <4> HIDE DEF na, nd
      <4> QED BY <1>3, <2>6
    <3> QED BY <1>3, <1>9, <3>2, <3>3 DEF Lost
  <2>7. CASE ~(Len(raw) < d + nd)
    <3>1. /\ warnings' = seen /\ offset' = d + nd /\ at' = k + 1 /\ section' = "instructions"
          /\ deferred' = deferred \cup Beyond(ix.accounts)
      BY <1>1, <2>4, <2>7
    <3>2. deferred' = BeyondKeys(t, k + 1)
      BY <1>3, <1>6, <3>1, BeyondGrows DEF AtInstructions
    <3>3. warnings' = FoundKeys(t) \cup Programs(t, k + 1)
      <4>1. warnings' = FoundKeys(t) \cup Programs(t, k) \cup found
        BY <2>5, <3>1 DEF AtInstructions
      <4>2. Programs(t, k + 1) = Programs(t, k) \cup found
        BY ProgramsGrow
      <4> HIDE DEF found
      <4> QED BY <4>1, <4>2
    <3>4. FoundKeys(t)' = FoundKeys(t)
      BY <1>9 DEF FoundKeys, FoundHeader, FoundSignatures, WarnIf, Warn
    <3>5. /\ is_v0' = t.v0 /\ num_accounts' = Len(t.keys) /\ num_ixs' = Len(t.instructions)
          /\ total_accounts' = Len(t.keys)
      BY <1>1 DEF counts, AtInstructions, Keyed
    <3>6. offset' = InstructionAt(t, m, at)' /\ offset' <= Len(raw)
      <4> HIDE DEF na, nd
      <4> QED BY <1>3, <2>7, <3>1
    <3>7. at' \in 0..num_ixs'
      BY <1>3, <3>1, <3>5
    <3> QED BY <1>9, <3>1, <3>2, <3>3, <3>4, <3>5, <3>6, <3>7, Zenon DEF AtInstructions, Keyed
  <2> QED BY <2>6, <2>7
<1> QED BY <1>3, <1>10, <1>11

\* One of an instruction's counts could not be read.
LEMMA InstructionErrorStep ==
  ASSUME NEW t, NEW m, Begins(t, m), AtInstructions(t, m), NEW k \in Nat, at = k, InstructionError
  PROVE  Lost(t, m)'
<1>1. /\ at < num_ixs /\ Has(1) /\ Error
      /\ \A accts \in read_compact_u16(raw, offset + 1) :
           read_compact_u16(raw, accts.next + Len(IndexesAt(accts.next, accts.value))) = {}
  BY DEF InstructionError
<1>2. PICK a, d, e, z : AtInstruction(t, m, k, a, d, e, z)
  BY <1>1, AtInstructionLemma
<1> DEFINE ix == t.instructions[k + 1]
           na == Len(ix.accounts)
           nd == Len(ix.data)
           acc == [value |-> na, next |-> a]
           dat == [value |-> nd, next |-> d]
<1>3. /\ offset \in Nat /\ Len(raw) \in Nat /\ na \in Nat /\ nd \in Nat /\ a \in Nat /\ d \in Nat /\ e \in Nat
      /\ z = End(t, m) /\ z \in Nat
      /\ offset + 1 <= a /\ a + na <= d /\ d + nd = e /\ e <= z
  BY <1>2, Zenon DEF AtInstruction
<1>4. \/ a > Len(raw) /\ read_compact_u16(raw, offset + 1) = {}
      \/ /\ a <= Len(raw) /\ read_compact_u16(raw, offset + 1) = {acc}
         /\ \/ a + na > Len(raw)
            \/ /\ a + na <= Len(raw) /\ IndexesAt(a, na) = ix.accounts
               /\ \/ d > Len(raw) /\ read_compact_u16(raw, a + na) = {}
                  \/ d <= Len(raw) /\ read_compact_u16(raw, a + na) = {dat}
  BY <1>2, Zenon DEF AtInstruction
<1>5. acc.value = na /\ acc.next = a
  OBVIOUS
<1> HIDE DEF acc, dat
<1>6. a > Len(raw) \/ a + na > Len(raw) \/ d > Len(raw)
  <2>1. SUFFICES ASSUME ~(a > Len(raw)), ~(a + na > Len(raw)), ~(d > Len(raw)) PROVE FALSE
    OBVIOUS
  <2>2. /\ read_compact_u16(raw, offset + 1) = {acc} /\ IndexesAt(a, na) = ix.accounts
        /\ read_compact_u16(raw, a + na) = {dat}
    BY <1>4, <2>1, Zenon
  <2>3. Len(IndexesAt(a, na)) = na
    BY <2>2
  <2> HIDE DEF na
  <2>4. acc \in read_compact_u16(raw, offset + 1) /\ dat \in read_compact_u16(raw, a + na)
    BY <2>2
  <2>5. read_compact_u16(raw, acc.next + Len(IndexesAt(acc.next, acc.value))) = {}
    BY <1>1, <2>4, Zenon
  <2>6. read_compact_u16(raw, a + na) = {}
    BY <1>5, <2>3, <2>5
  <2> QED BY <2>4, <2>6
<1>7. z > Len(raw)
  <2> HIDE DEF na, nd
  <2> QED BY <1>3, <1>6
<1>8. Cut' /\ raw' = raw
  BY <1>1, ErrorCuts
<1> QED BY <1>3, <1>7, <1>8 DEF Lost

\* The instructions are all read, or the bytes end before one.
LEMMA InstructionsEndStep ==
  ASSUME NEW t, NEW m, Begins(t, m), AtInstructions(t, m), NEW k \in Nat, at = k, InstructionsEnd
  PROVE  AtTables(t, m)' \/ AtIndexes(t, m)' \/ Lost(t, m)'
<1>1. \/ at = num_ixs /\ EndInstructions({})
      \/ at < num_ixs /\ ~Has(1) /\ EndInstructions({Warn("program_byte", at)})
  BY DEF InstructionsEnd
<1>2. raw' = raw /\ report' = report /\ End(t, m)' = End(t, m)
  BY <1>1 DEF EndInstructions, buffer
<1>3. CASE at < num_ixs /\ ~Has(1) /\ EndInstructions({Warn("program_byte", at)})
  <2>1. PICK a, d, e, z : AtInstruction(t, m, k, a, d, e, z)
    BY <1>3, AtInstructionLemma
  <2>2. /\ offset \in Nat /\ Len(raw) \in Nat /\ a \in Nat /\ d \in Nat /\ e \in Nat
        /\ z = End(t, m) /\ z \in Nat /\ Len(t.instructions[k + 1].accounts) \in Nat
        /\ Len(t.instructions[k + 1].data) \in Nat
        /\ offset + 1 <= a /\ a + Len(t.instructions[k + 1].accounts) <= d
        /\ d + Len(t.instructions[k + 1].data) = e /\ e <= z
    BY <2>1, Zenon DEF AtInstruction
  <2>3. z > Len(raw)
    BY <1>3, <2>2 DEF Has
  <2>4. Warn("program_byte", at) \in warnings'
    BY <1>3 DEF EndInstructions
  <2>5. Cut'
    BY <2>4, CutKindsAre, Cuts
  <2> QED BY <1>2, <2>2, <2>3, <2>5 DEF Lost
<1>4. CASE at = num_ixs /\ EndInstructions({})
  <2>1. /\ warnings' = warnings \cup WarnIf(num_ixs # Len(report.instructions), "instructions")
        /\ section' = IF is_v0 THEN "tables" ELSE "indexes"
        /\ UNCHANGED <<offset, counts, total_accounts, deferred>>
    BY <1>4 DEF EndInstructions
  <2>2. /\ num_ixs = Len(t.instructions) /\ at = Len(t.instructions) /\ is_v0 = t.v0
        /\ num_accounts = Len(t.keys) /\ total_accounts = Len(t.keys)
        /\ deferred = BeyondKeys(t, Len(t.instructions)) /\ offset = TablesAt(t, m) /\ offset <= Len(raw)
        /\ warnings = FoundKeys(t) \cup Programs(t, Len(t.instructions))
    BY <1>4 DEF AtInstructions, Keyed, TablesAt
  <2>3. warnings' = FoundInstructions(t) /\ FoundInstructions(t)' = FoundInstructions(t)
    <3>1. warnings' = FoundInstructions(t)
      BY <2>1, <2>2, Zenon DEF FoundInstructions
    <3>2. FoundInstructions(t)' = FoundInstructions(t)
      BY <1>2 DEF FoundInstructions, FoundKeys, FoundHeader, FoundSignatures, WarnIf, Warn
    <3> QED BY <3>1, <3>2
  <2>4. CASE t.v0
    <3>1. /\ section' = "tables" /\ offset' = TablesAt(t, m) /\ offset' <= Len(raw) /\ is_v0' = t.v0
          /\ num_accounts' = Len(t.keys) /\ total_accounts' = Len(t.keys)
          /\ deferred' = BeyondKeys(t, Len(t.instructions))
      BY <2>1, <2>2, <2>4 DEF counts
    <3> QED BY <1>2, <2>3, <2>4, <3>1, Zenon DEF AtTables, Keyed
  <2>5. CASE ~t.v0
    <3>1. /\ section' = "indexes" /\ total_accounts' = Len(t.keys) /\ deferred' = BeyondKeys(t, Len(t.instructions))
      BY <2>1, <2>2, <2>5
    <3>2. End(t, m) <= Len(raw)
      BY <2>2, <2>5 DEF End
    <3>3. AllAccounts(t) = Len(t.keys)
      <4>1. Len(t.keys) \in Nat
        BY CompiledFits, U16Assumption DEF Begins
      <4> QED BY <2>5, <4>1 DEF AllAccounts
    <3>4. FoundTables(t) = FoundInstructions(t)
      BY <2>5 DEF FoundTables
    <3>5. FoundTables(t)' = FoundTables(t)
      BY <1>2, <2>3, <2>5 DEF FoundTables
    <3> QED BY <1>2, <2>3, <3>1, <3>2, <3>3, <3>4, <3>5, Zenon DEF AtIndexes
  <2> QED BY <2>4, <2>5
<1> QED BY <1>1, <1>3, <1>4

LEMMA TableCountStep ==
  ASSUME NEW t, NEW m, Begins(t, m), AtTables(t, m), TableCount
  PROVE  AtLookups(t, m)' \/ Lost(t, m)'
<1> DEFINE n == Len(t.lookups)
           past == offset + Len(ShortVec(n))
<1>1. /\ offset = TablesAt(t, m) /\ offset \in Nat /\ Len(raw) \in Nat /\ n \in 0..U16Max /\ n \in Nat
      /\ End(t, m) \in Nat /\ t.v0
  BY OrderedLemma, OrderedEnds, CompiledFits, U16Assumption DEF AtTables, Begins
<1>2. /\ past \in Nat
      /\ \/ past <= Len(raw) /\ read_compact_u16(raw, offset) = {[value |-> n, next |-> past]}
         \/ past > Len(raw) /\ read_compact_u16(raw, offset) = {}
  <2>1. Agrees(raw, offset, ShortVec(n))
    BY <1>1 DEF Begins, Marked
  <2> HIDE DEF n
  <2> QED BY <1>1, <2>1, OneCount
<1>3. past = LookupAt(t, m, 0) /\ past <= End(t, m)
  <2>1. Ordered(t, m) /\ Len(t.instructions) \in Nat
    BY OrderedLemma, CompiledFits, U16Assumption DEF Begins
  <2>2. past = LookupAt(t, m, 0)
    BY <1>1, <2>1, Zenon DEF Ordered
  <2>3. 0 \in 0..n
    BY <1>1
  <2>4. LookupAt(t, m, 0) <= End(t, m)
    BY <1>1, <2>1, <2>3, OrderedEnds
  <2> QED BY <2>2, <2>4
<1> HIDE DEF past
<1>4. CASE past > Len(raw)
  <2>1. read_compact_u16(raw, offset) = {}
    BY <1>1, <1>2, <1>4
  <2>2. Error
    BY <2>1, Zenon DEF TableCount, Fail
  <2>3. End(t, m) > Len(raw)
    BY <1>1, <1>2, <1>3, <1>4
  <2> QED BY <2>2, <2>3, ErrorCuts DEF Lost
<1>5. CASE past <= Len(raw)
  <2> DEFINE c == [value |-> n, next |-> past]
  <2>1. read_compact_u16(raw, offset) = {c}
    BY <1>1, <1>2, <1>5
  <2>2. c.value = n /\ c.next = past
    OBVIOUS
  <2> HIDE DEF c
  <2>3. /\ num_alts' = c.value /\ offset' = c.next /\ at' = 0
        /\ section' = "lookups"
        /\ UNCHANGED <<buffer, num_accounts, num_ixs, is_v0, total_accounts, deferred, warnings>>
    <3>1. read_compact_u16(raw, offset) # {}
      BY <2>1
    <3> QED BY <2>1, <3>1 DEF TableCount, Fail
  <2>4. /\ deferred' = BeyondKeys(t, Len(t.instructions)) /\ raw' = raw /\ report' = report
        /\ warnings' = FoundInstructions(t)
        /\ is_v0' = t.v0 /\ num_accounts' = Len(t.keys) /\ total_accounts' = Len(t.keys)
    BY <2>3 DEF buffer, AtTables, Keyed
  <2>5. FoundInstructions(t)' = FoundInstructions(t)
    BY <2>4 DEF FoundInstructions, FoundKeys, FoundHeader, FoundSignatures, WarnIf, Warn
  <2>6. Differ(t, 0) = {} /\ Differ(t, 0)' = {}
    BY DEF Differ
  <2>7. 0 \in 0..n
    BY <1>1
  <2>8. m.load[0] = 0 /\ Len(t.keys) + m.load[0] = Len(t.keys)
    <3>1. m.load[0] = 0
      BY DEF Begins, Marked, RunningSums
    <3>2. Len(t.keys) \in Nat
      BY CompiledFits, U16Assumption DEF Begins
    <3> QED BY <3>1, <3>2
  <2>9. /\ section' = "lookups" /\ num_alts' = n /\ at' = 0 /\ offset' = LookupAt(t, m, 0) /\ offset' <= Len(raw)
    BY <1>3, <1>5, <2>2, <2>3
  <2>10. FoundInstructions(t) \cup {} = FoundInstructions(t)
    OBVIOUS
  <2> QED BY <1>1, <2>4, <2>5, <2>6, <2>7, <2>8, <2>9, <2>10, Zenon DEF AtLookups, Keyed
<1> QED BY <1>2, <1>4, <1>5

LEMMA LookupsEndStep ==
  ASSUME NEW t, NEW m, Begins(t, m), AtLookups(t, m), LookupsEnd
  PROVE  AtIndexes(t, m)'
<1>1. /\ at = num_alts /\ section' = "indexes" /\ raw' = raw /\ report' = report
      /\ total_accounts' = total_accounts /\ deferred' = deferred
      /\ warnings' = warnings \cup WarnIf(num_alts # Len(report.lookups), "lookups")
  BY DEF LookupsEnd, buffer
<1>2. /\ t.v0 /\ at = Len(t.lookups) /\ num_alts = Len(t.lookups) /\ offset = LookupAt(t, m, Len(t.lookups))
      /\ offset <= Len(raw)
      /\ total_accounts = Len(t.keys) + m.load[Len(t.lookups)] /\ deferred = BeyondKeys(t, Len(t.instructions))
      /\ warnings = FoundInstructions(t) \cup Differ(t, Len(t.lookups))
  BY <1>1 DEF AtLookups
<1>3. End(t, m) <= Len(raw)
  BY <1>2 DEF End
<1>4. total_accounts = AllAccounts(t)
  BY <1>2, Zenon DEF AllAccounts, Begins, Marked
<1>5. warnings' = FoundTables(t)
  <2>1. FoundTables(t) = FoundInstructions(t)
          \cup (Differ(t, Len(t.lookups)) \cup WarnIf(Len(t.lookups) # Len(report.lookups), "lookups"))
    BY <1>2, Zenon DEF FoundTables
  <2>2. warnings' = FoundInstructions(t) \cup Differ(t, Len(t.lookups))
          \cup WarnIf(Len(t.lookups) # Len(report.lookups), "lookups")
    BY <1>1, <1>2, Zenon
  <2> QED BY <2>1, <2>2, Zenon
<1>6. FoundTables(t)' = FoundTables(t)
  BY <1>1 DEF FoundTables, FoundInstructions, FoundKeys, FoundHeader, FoundSignatures, Differ, WarnIf, Warn
<1>7. End(t, m)' = End(t, m) /\ AllAccounts(t)' = AllAccounts(t)
  OBVIOUS
<1> QED BY <1>1, <1>2, <1>3, <1>4, <1>5, <1>6, <1>7, Zenon DEF AtIndexes

LEMMA CheckIndexesStep ==
  ASSUME NEW t, NEW m, AtIndexes(t, m), CheckIndexes
  PROVE  AtDone(t, m)'
<1>1. /\ section' = "done" /\ raw' = raw /\ report' = report /\ End(t, m) <= Len(raw)
      /\ warnings' = FoundTables(t)
           \cup {Warn("account", d[1]) : d \in {e \in BeyondKeys(t, Len(t.instructions)) : e[2] >= AllAccounts(t)}}
  BY DEF CheckIndexes, AtIndexes, buffer
<1>2. warnings' = FoundIndexes(t)
  BY <1>1, Zenon DEF FoundIndexes
<1>3. FoundIndexes(t)' = FoundIndexes(t)
  BY <1>1 DEF FoundIndexes, FoundTables, FoundInstructions, FoundKeys, FoundHeader, FoundSignatures, Differ, WarnIf,
     Warn
<1> QED BY <1>1, <1>2, <1>3 DEF AtDone

\* The places of the lookup the parser is at, as numbers.
AtLookup(t, m, k, a, d, e, z) ==
  LET l == t.lookups[k + 1]
      nw == Len(l.writable)
      nr == Len(l.readonly)
      p == offset + KeyLen
  IN  /\ offset \in Nat /\ p \in Nat /\ Len(raw) \in Nat /\ nw \in Nat /\ nr \in Nat
      /\ a \in Nat /\ d \in Nat /\ e \in Nat
      /\ z = End(t, m) /\ z \in Nat
      /\ k + 1 \in 1..Len(t.lookups)
      /\ p <= a /\ a + nw <= d /\ d + nr = e /\ e <= z /\ e = LookupAt(t, m, k + 1)
      /\ \/ a > Len(raw) /\ read_compact_u16(raw, p) = {}
         \/ /\ a <= Len(raw) /\ read_compact_u16(raw, p) = {[value |-> nw, next |-> a]}
            /\ \/ a + nw > Len(raw)
               \/ /\ a + nw <= Len(raw) /\ Len(IndexesAt(a, nw)) = nw
                  /\ \/ d > Len(raw) /\ read_compact_u16(raw, a + nw) = {}
                     \/ /\ d <= Len(raw) /\ read_compact_u16(raw, a + nw) = {[value |-> nr, next |-> d]}
                        /\ \/ d + nr > Len(raw)
                           \/ d + nr <= Len(raw) /\ Len(IndexesAt(d, nr)) = nr

LEMMA AtLookupLemma ==
  ASSUME NEW t, NEW m, Begins(t, m), AtLookups(t, m), NEW k \in Nat, at = k, at < num_alts
  PROVE  \E a, d, e, z : AtLookup(t, m, k, a, d, e, z)
<1> DEFINE l == t.lookups[k + 1]
           nw == Len(l.writable)
           nr == Len(l.readonly)
           o == offset
           p == o + KeyLen
           a == p + Len(ShortVec(nw))
           c == a + nw
           d == c + Len(ShortVec(nr))
           e == d + nr
           z == End(t, m)
<1>1. /\ Len(t.instructions) \in Nat /\ Len(t.lookups) \in Nat /\ Compiled(t) /\ Ordered(t, m) /\ z \in Nat
      /\ Len(raw) \in Nat /\ KeyLen \in Nat /\ t.v0
  BY OrderedLemma, CompiledFits, OrderedEnds, U16Assumption, LengthAssumption DEF Begins, AtLookups
<1>2. k + 1 \in 1..Len(t.lookups) /\ (k + 1) - 1 = k
  BY <1>1 DEF AtLookups
<1>3. o = LookupAt(t, m, k) /\ LookupRead(t, m, k + 1)
  BY <1>1, <1>2, LookupReadLemma DEF AtLookups
<1> HIDE DEF z, l
<1>4. FitsLookup(l) /\ nw \in Nat /\ nr \in Nat /\ nw \in 0..U16Max /\ nr \in 0..U16Max
  <2>1. FitsLookup(l)
    BY <1>3 DEF LookupRead, l
  <2> QED BY <2>1, U16Assumption DEF FitsLookup
<1>5. /\ Len(Counted(l.writable)) = Len(ShortVec(nw)) + nw
      /\ Len(Counted(l.readonly)) = Len(ShortVec(nr)) + nr
      /\ Len(ShortVec(nw)) \in Nat /\ Len(ShortVec(nr)) \in Nat
  <2>1. l.writable \in Seq(Byte) /\ l.readonly \in Seq(Byte)
    BY <1>4 DEF FitsLookup
  <2>2. Len(ShortVec(nw)) \in Nat /\ Len(ShortVec(nr)) \in Nat
    <3> HIDE DEF nw, nr
    <3> QED BY <1>4, ShortVecProperties
  <2> QED BY <1>4, <2>1, <2>2, CountedType
<1>6. /\ o \in Nat
      /\ ListRead(p, l.writable) /\ ListRead(p + Len(Counted(l.writable)), l.readonly)
      /\ LookupAt(t, m, k + 1) = p + Len(Counted(l.writable)) + Len(Counted(l.readonly))
      /\ LookupAt(t, m, k + 1) <= z
  BY <1>2, <1>3, Zenon DEF LookupRead, l, z
<1> HIDE DEF nw, nr
<1> DEFINE la == Len(ShortVec(nw))
           ld == Len(ShortVec(nr))
<1>7. o \in Nat /\ la \in Nat /\ ld \in Nat /\ nw \in Nat /\ nr \in Nat
  BY <1>4, <1>5, <1>6 DEF nw, nr
<1>8. Len(Counted(l.writable)) = la + nw /\ Len(Counted(l.readonly)) = ld + nr
  BY <1>5 DEF nw, nr
<1> HIDE DEF la, ld, o
<1>9. p + (la + nw) = c /\ p + (la + nw) + (ld + nr) = e
  BY <1>1, <1>7 DEF la, ld
<1>10. p \in Nat /\ a \in Nat /\ c \in Nat /\ d \in Nat /\ e \in Nat /\ p <= a /\ c <= d
  BY <1>1, <1>7 DEF la, ld
<1>11. ListRead(p, l.writable) /\ ListRead(c, l.readonly) /\ LookupAt(t, m, k + 1) = e /\ e <= z
  BY <1>6, <1>8, <1>9, Zenon
<1> HIDE DEF p
<1>12. \/ a > Len(raw) /\ read_compact_u16(raw, p) = {}
       \/ /\ a <= Len(raw) /\ read_compact_u16(raw, p) = {[value |-> nw, next |-> a]}
          /\ \/ a + nw > Len(raw)
             \/ a + nw <= Len(raw) /\ IndexesAt(a, nw) = l.writable
  BY <1>11, Zenon DEF ListRead, nw
<1>13. \/ d > Len(raw) /\ read_compact_u16(raw, c) = {}
       \/ /\ d <= Len(raw) /\ read_compact_u16(raw, c) = {[value |-> nr, next |-> d]}
          /\ \/ d + nr > Len(raw)
             \/ d + nr <= Len(raw) /\ IndexesAt(d, nr) = l.readonly
  <2> HIDE DEF c
  <2> QED BY <1>11, Zenon DEF ListRead, nr
<1>14. AtLookup(t, m, k, a, d, e, z)
  <2>1. e = d + nr
    OBVIOUS
  <2> HIDE DEF a, d, e
  <2>2. \/ a > Len(raw) /\ read_compact_u16(raw, p) = {}
        \/ /\ a <= Len(raw) /\ read_compact_u16(raw, p) = {[value |-> nw, next |-> a]}
           /\ \/ a + nw > Len(raw)
              \/ /\ a + nw <= Len(raw) /\ Len(IndexesAt(a, nw)) = nw
                 /\ \/ d > Len(raw) /\ read_compact_u16(raw, a + nw) = {}
                    \/ /\ d <= Len(raw) /\ read_compact_u16(raw, a + nw) = {[value |-> nr, next |-> d]}
                       /\ \/ d + nr > Len(raw)
                          \/ d + nr <= Len(raw) /\ Len(IndexesAt(d, nr)) = nr
    BY <1>12, <1>13, Zenon DEF nw, nr
  <2> QED BY <1>1, <1>2, <1>4, <1>7, <1>10, <1>11, <2>1, <2>2, Zenon DEF AtLookup, p, o, l, nw, nr, z
<1> HIDE DEF a, d, e
<1> QED BY <1>14

\* What ReadLookup does with the two counts it read.
LookupTaken(w, r) ==
  LET writable == IndexesAt(w.next, w.value)
      readonly == IndexesAt(r.next, r.value)
  IN  /\ offset' = r.next + Len(readonly)
      /\ total_accounts' = total_accounts + w.value + r.value
      /\ warnings' = warnings
           \cup Exhausted(w.next, w.value, "lookup_bytes", at)
           \cup Exhausted(r.next, r.value, "lookup_bytes", at)
           \cup (IF /\ at < Len(report.lookups)
                    /\ report.lookups[at + 1] # w.value + r.value
                   THEN {Warn("lookup", at)} ELSE {})
      /\ at' = at + 1
      /\ UNCHANGED <<buffer, section, counts, deferred>>

LEMMA TakesLookup ==
  ASSUME ReadLookup
  PROVE  /\ section = "lookups" /\ at < num_alts
         /\ \/ ~Has(KeyLen) /\ GiveUp({Warn("table_key", at)})
            \/ Has(KeyLen) /\ \E w \in read_compact_u16(raw, offset + KeyLen) :
                 \E r \in read_compact_u16(raw, w.next + Len(IndexesAt(w.next, w.value))) : LookupTaken(w, r)
            \/ /\ Has(KeyLen) /\ Error
               /\ \A w \in read_compact_u16(raw, offset + KeyLen) :
                    read_compact_u16(raw, w.next + Len(IndexesAt(w.next, w.value))) = {}
BY Zenon DEF ReadLookup, LookupTaken

LEMMA DifferGrows ==
  ASSUME NEW t, NEW k \in Nat
  PROVE  Differ(t, k + 1) = Differ(t, k)
           \cup (IF /\ k + 1 <= Len(report.lookups) /\ report.lookups[k + 1] # Size(t.lookups[k + 1])
                   THEN {Warn("lookup", k)} ELSE {})
<1>1. \A j : j \in 1..(k + 1) <=> j \in 1..k \/ j = k + 1
  OBVIOUS
<1>2. k + 1 - 1 = k
  OBVIOUS
<1> QED BY <1>1, <1>2 DEF Differ

LEMMA ReadLookupStep ==
  ASSUME NEW t, NEW m, Begins(t, m), AtLookups(t, m), NEW k \in Nat, at = k, Len(report.lookups) \in Nat, ReadLookup
  PROVE  AtLookups(t, m)' \/ Lost(t, m)'
<1>1. at < num_alts
  BY TakesLookup
<1>2. PICK a, d, e, z : AtLookup(t, m, k, a, d, e, z)
  BY <1>1, AtLookupLemma
<1> DEFINE l == t.lookups[k + 1]
           nw == Len(l.writable)
           nr == Len(l.readonly)
           p == offset + KeyLen
           wr == [value |-> nw, next |-> a]
           ro == [value |-> nr, next |-> d]
<1>3. /\ offset \in Nat /\ p \in Nat /\ Len(raw) \in Nat /\ nw \in Nat /\ nr \in Nat
      /\ a \in Nat /\ d \in Nat /\ e \in Nat
      /\ z = End(t, m) /\ z \in Nat
      /\ k + 1 \in 1..Len(t.lookups)
      /\ p <= a /\ a + nw <= d /\ d + nr = e /\ e <= z /\ e = LookupAt(t, m, k + 1)
  BY <1>2, Zenon DEF AtLookup
<1>4. \/ a > Len(raw) /\ read_compact_u16(raw, p) = {}
      \/ /\ a <= Len(raw) /\ read_compact_u16(raw, p) = {wr}
         /\ \/ a + nw > Len(raw)
            \/ /\ a + nw <= Len(raw) /\ Len(IndexesAt(a, nw)) = nw
               /\ \/ d > Len(raw) /\ read_compact_u16(raw, a + nw) = {}
                  \/ /\ d <= Len(raw) /\ read_compact_u16(raw, a + nw) = {ro}
                     /\ \/ d + nr > Len(raw)
                        \/ d + nr <= Len(raw) /\ Len(IndexesAt(d, nr)) = nr
  BY <1>2, Zenon DEF AtLookup
<1>5. wr.value = nw /\ wr.next = a /\ ro.value = nr /\ ro.next = d
  OBVIOUS
<1>6. nw + nr = Size(l)
  BY Zenon DEF Size
<1> HIDE DEF wr, ro, p, nw, nr, l
<1>7. ASSUME raw' = raw, Cut', z > Len(raw)
      PROVE  Lost(t, m)'
  BY <1>3, <1>7 DEF Lost
<1>8. CASE ~Has(KeyLen) /\ GiveUp({Warn("table_key", at)})
  <2>1. Warn("table_key", at) \in {Warn("table_key", at)}
    OBVIOUS
  <2>2. Cut' /\ raw' = raw
    BY <1>8, <2>1, CutKindsAre, GiveUpCuts
  <2>3. z > Len(raw)
    BY <1>3, <1>8 DEF Has, p
  <2> QED BY <1>7, <2>2, <2>3
<1>9. CASE /\ Has(KeyLen) /\ Error
           /\ \A w \in read_compact_u16(raw, p) :
                read_compact_u16(raw, w.next + Len(IndexesAt(w.next, w.value))) = {}
  <2>1. a > Len(raw) \/ a + nw > Len(raw) \/ d > Len(raw)
    <3>1. SUFFICES ASSUME ~(a > Len(raw)), ~(a + nw > Len(raw)), ~(d > Len(raw)) PROVE FALSE
      OBVIOUS
    <3>2. /\ read_compact_u16(raw, p) = {wr} /\ Len(IndexesAt(a, nw)) = nw
          /\ read_compact_u16(raw, a + nw) = {ro}
      BY <1>4, <3>1, Zenon
    <3>3. wr \in read_compact_u16(raw, p) /\ ro \in read_compact_u16(raw, a + nw)
      BY <3>2
    <3>4. read_compact_u16(raw, wr.next + Len(IndexesAt(wr.next, wr.value))) = {}
      BY <1>9, <3>3, Zenon
    <3>5. read_compact_u16(raw, a + nw) = {}
      BY <1>5, <3>2, <3>4
    <3> QED BY <3>3, <3>5
  <2>2. z > Len(raw)
    BY <1>3, <2>1
  <2>3. Cut' /\ raw' = raw
    BY <1>9, ErrorCuts
  <2> QED BY <1>7, <2>2, <2>3
<1>10. CASE Has(KeyLen) /\ \E w \in read_compact_u16(raw, p) :
              \E r \in read_compact_u16(raw, w.next + Len(IndexesAt(w.next, w.value))) : LookupTaken(w, r)
  <2>1. PICK w \in read_compact_u16(raw, p) :
          \E r \in read_compact_u16(raw, w.next + Len(IndexesAt(w.next, w.value))) : LookupTaken(w, r)
    BY <1>10
  <2>2. w = wr /\ a <= Len(raw)
    BY <1>4, <2>1
  <2>3. PICK r \in read_compact_u16(raw, a + Len(IndexesAt(a, nw))) : LookupTaken(wr, r)
    BY <1>5, <2>1, <2>2, Zenon
  <2>4. /\ offset' = r.next + Len(IndexesAt(r.next, r.value))
        /\ total_accounts' = total_accounts + nw + r.value
        /\ warnings' = warnings \cup Exhausted(a, nw, "lookup_bytes", at)
             \cup Exhausted(r.next, r.value, "lookup_bytes", at)
             \cup (IF /\ at < Len(report.lookups)
                      /\ report.lookups[at + 1] # nw + r.value
                     THEN {Warn("lookup", at)} ELSE {})
        /\ at' = at + 1
        /\ UNCHANGED <<buffer, section, counts, deferred>>
    BY <1>5, <2>3, Zenon DEF LookupTaken
  <2>5. raw' = raw /\ report' = report
    BY <2>4 DEF buffer
  <2>6. CASE a + nw > Len(raw)
    <3>1. Warn("lookup_bytes", at) \in Exhausted(a, nw, "lookup_bytes", at)
      BY <2>6 DEF Exhausted
    <3>2. Warn("lookup_bytes", at) \in warnings'
      BY <2>4, <3>1, Zenon
    <3>3. Cut' /\ z > Len(raw)
      <4>1. Cut'
        BY <3>2, CutKindsAre, Cuts
      <4>2. z > Len(raw)
        BY <1>3, <2>6
      <4> QED BY <4>1, <4>2
    <3> QED BY <1>7, <2>5, <3>3
  <2>7. CASE a + nw <= Len(raw)
    <3>1. Len(IndexesAt(a, nw)) = nw /\ read_compact_u16(raw, a + nw) \subseteq {ro}
      <4>1. ~(a + nw > Len(raw)) /\ ~(a > Len(raw))
        BY <1>3, <2>2, <2>7
      <4> QED BY <1>4, <4>1
    <3>2. r = ro /\ read_compact_u16(raw, a + nw) # {}
      BY <2>3, <3>1
    <3>3. \/ d + nr > Len(raw)
          \/ d + nr <= Len(raw) /\ Len(IndexesAt(d, nr)) = nr
      <4>1. ~(a + nw > Len(raw)) /\ ~(a > Len(raw))
        BY <1>3, <2>2, <2>7
      <4> QED BY <1>4, <3>2, <4>1, Zenon
    <3>4. /\ offset' = d + Len(IndexesAt(d, nr))
          /\ total_accounts' = total_accounts + nw + nr
          /\ warnings' = warnings \cup Exhausted(a, nw, "lookup_bytes", at)
               \cup Exhausted(d, nr, "lookup_bytes", at)
               \cup (IF /\ at < Len(report.lookups)
                        /\ report.lookups[at + 1] # nw + nr
                       THEN {Warn("lookup", at)} ELSE {})
      BY <1>5, <2>4, <3>2, Zenon
    <3>5. CASE d + nr > Len(raw)
      <4>1. Warn("lookup_bytes", at) \in Exhausted(d, nr, "lookup_bytes", at)
        BY <3>5 DEF Exhausted
      <4>2. Warn("lookup_bytes", at) \in warnings'
        BY <3>4, <4>1, Zenon
      <4>3. Cut'
        BY <4>2, CutKindsAre, Cuts
      <4>4. z > Len(raw)
        BY <1>3, <3>5
      <4> QED BY <1>7, <2>5, <4>3, <4>4
    <3>6. CASE d + nr <= Len(raw)
      <4>1. ~(d + nr > Len(raw)) /\ ~(a + nw > Len(raw))
        BY <1>3, <2>7, <3>6
      <4>2. Exhausted(a, nw, "lookup_bytes", at) = {} /\ Exhausted(d, nr, "lookup_bytes", at) = {}
        BY <4>1 DEF Exhausted
      <4>3. offset' = LookupAt(t, m, k + 1) /\ offset' <= Len(raw)
        <5>1. Len(IndexesAt(d, nr)) = nr
          BY <3>3, <4>1, Zenon
        <5> QED BY <1>3, <3>4, <3>6, <5>1
      <4> DEFINE more == IF /\ k + 1 <= Len(report.lookups) /\ report.lookups[k + 1] # Size(l)
                           THEN {Warn("lookup", k)} ELSE {}
      <4>4. (IF at < Len(report.lookups) /\ report.lookups[at + 1] # nw + nr
               THEN {Warn("lookup", at)} ELSE {}) = more
        <5>1. at < Len(report.lookups) <=> k + 1 <= Len(report.lookups)
          OBVIOUS
        <5> QED BY <1>6, <5>1, Zenon
      <4> HIDE DEF more
      <4>5. warnings' = FoundInstructions(t) \cup Differ(t, k + 1)
        <5>1. warnings' = warnings \cup more
          BY <3>4, <4>2, <4>4
        <5>2. warnings = FoundInstructions(t) \cup Differ(t, k)
          BY DEF AtLookups
        <5>3. Differ(t, k + 1) = Differ(t, k) \cup more
          BY DifferGrows, Zenon DEF more, l
        <5> QED BY <5>1, <5>2, <5>3
      <4>6. FoundInstructions(t)' = FoundInstructions(t) /\ Differ(t, k + 1)' = Differ(t, k + 1)
        BY <2>5 DEF FoundInstructions, FoundKeys, FoundHeader, FoundSignatures, Differ, WarnIf, Warn
      <4>7. total_accounts' = Len(t.keys) + m.load[k + 1]
        <5>1. Len(t.keys) \in Nat /\ Len(t.lookups) \in Nat
          BY CompiledFits, U16Assumption DEF Begins
        <5>2. LoadSizes(t)[k + 1] = nw + nr
          BY <1>3, <1>6 DEF LoadSizes, l
        <5>3. RunningSums(m.load, LoadSizes(t), Len(t.lookups)) /\ total_accounts = Len(t.keys) + m.load[k]
          BY DEF Begins, Marked, AtLookups
        <5>4. m.load[k] \in Nat /\ m.load[k + 1] = m.load[k] + (nw + nr)
          <6>1. k \in 0..Len(t.lookups) /\ k + 1 \in 1..Len(t.lookups) /\ (k + 1) - 1 = k
            BY <1>3, <5>1
          <6> QED BY <5>2, <5>3, <6>1 DEF RunningSums
        <5> DEFINE x == m.load[k]
                   y == m.load[k + 1]
                   n == Len(t.keys)
        <5>5. total_accounts' = n + x + nw + nr /\ y = x + (nw + nr) /\ x \in Nat /\ n \in Nat
          BY <3>4, <5>1, <5>3, <5>4
        <5> HIDE DEF x, y, n
        <5>6. total_accounts' = n + y
          BY <1>3, <5>5
        <5> QED BY <5>6 DEF n, y
      <4>8. /\ section' = "lookups" /\ is_v0' = t.v0 /\ num_accounts' = Len(t.keys) /\ num_alts' = Len(t.lookups)
            /\ at' = k + 1 /\ deferred' = BeyondKeys(t, Len(t.instructions)) /\ t.v0
        BY <2>4 DEF counts, AtLookups, Keyed
      <4>9. at' \in 0..num_alts'
        BY <1>3, <4>8
      <4> QED BY <2>5, <4>3, <4>5, <4>6, <4>7, <4>8, <4>9, Zenon DEF AtLookups, Keyed
    <3> QED BY <1>3, <3>5, <3>6
  <2> QED BY <1>3, <2>6, <2>7
<1> QED BY <1>8, <1>9, <1>10, TakesLookup, Zenon DEF p

\* A warning goes only where an error takes its place.
LEMMA WarningsGrow ==
  ASSUME ParserNext
  PROVE  warnings \subseteq warnings' \/ Error
<1>1. ASSUME Start PROVE warnings \subseteq warnings' \/ Error
  BY <1>1 DEF Start
<1>2. ASSUME Signatures PROVE warnings \subseteq warnings' \/ Error
  BY <1>2 DEF Signatures, Fail, GiveUp
<1>3. ASSUME Header PROVE warnings \subseteq warnings' \/ Error
  BY <1>3 DEF Header, GiveUp
<1>4. ASSUME Keys PROVE warnings \subseteq warnings' \/ Error
  BY <1>4 DEF Keys, Fail, GiveUp
<1>5. ASSUME InstructionCount PROVE warnings \subseteq warnings' \/ Error
  BY <1>5 DEF InstructionCount, Fail
<1>6. ASSUME ReadInstruction PROVE warnings \subseteq warnings' \/ Error
  <2>1. PICK accts, data : InstructionTaken(accts, data)
    BY <1>6, TakesInstruction, Zenon
  <2> QED BY <2>1 DEF InstructionTaken
<1>7. ASSUME InstructionError PROVE warnings \subseteq warnings' \/ Error
  BY <1>7 DEF InstructionError
<1>8. ASSUME InstructionsEnd PROVE warnings \subseteq warnings' \/ Error
  BY <1>8 DEF InstructionsEnd, EndInstructions
<1>9. ASSUME TableCount PROVE warnings \subseteq warnings' \/ Error
  BY <1>9 DEF TableCount, Fail
<1>10. ASSUME ReadLookup PROVE warnings \subseteq warnings' \/ Error
  <2>1. \/ GiveUp({Warn("table_key", at)}) \/ Error
        \/ \E w, r : LookupTaken(w, r)
    BY <1>10, TakesLookup, Zenon
  <2> QED BY <2>1 DEF LookupTaken, GiveUp
<1>11. ASSUME LookupsEnd PROVE warnings \subseteq warnings' \/ Error
  BY <1>11 DEF LookupsEnd
<1>12. ASSUME CheckIndexes PROVE warnings \subseteq warnings' \/ Error
  BY <1>12 DEF CheckIndexes
<1> QED
  BY <1>1, <1>2, <1>3, <1>4, <1>5, <1>6, <1>7, <1>8, <1>9, <1>10, <1>11, <1>12, Zenon DEF ParserNext

LEMMA CutStays ==
  ASSUME Cut, ParserNext
  PROVE  Cut'
<1>1. CASE Error
  BY <1>1, ErrorCuts
<1>2. CASE warnings \subseteq warnings'
  BY <1>2 DEF Cut
<1> QED BY <1>1, <1>2, WarningsGrow

\* Where the parser can be in bytes that begin as those of t do.
Following(t, m) ==
  \/ AtStart \/ AtHeader(t, m) \/ AtKeys(t, m) \/ AtCount(t, m) \/ AtInstructions(t, m)
  \/ AtTables(t, m) \/ AtLookups(t, m) \/ AtIndexes(t, m) \/ AtDone(t, m) \/ Lost(t, m)

\* A step at a place is the one action of its section.
LEMMA SectionStep ==
  ASSUME ParserNext
  PROVE  /\ section = "idle" => Start
         /\ section = "signatures" => Signatures
         /\ section = "header" => Header
         /\ section = "accounts" => Keys
         /\ section = "blockhash" => InstructionCount
         /\ section = "instructions" => ReadInstruction \/ InstructionError \/ InstructionsEnd
         /\ section = "tables" => TableCount
         /\ section = "lookups" => ReadLookup \/ LookupsEnd
         /\ section = "indexes" => CheckIndexes
         /\ section # "done"
<1>1. /\ Start => section = "idle"
      /\ Signatures => section = "signatures"
      /\ Header => section = "header"
      /\ Keys => section = "accounts"
      /\ InstructionCount => section = "blockhash"
      /\ ReadInstruction \/ InstructionError \/ InstructionsEnd => section = "instructions"
      /\ TableCount => section = "tables"
      /\ ReadLookup \/ LookupsEnd => section = "lookups"
      /\ CheckIndexes => section = "indexes"
  BY Zenon DEF Start, Signatures, Header, Keys, InstructionCount, ReadInstruction, InstructionError, InstructionsEnd,
     TableCount, ReadLookup, LookupsEnd, CheckIndexes
<1> QED BY <1>1 DEF ParserNext

LEMMA FollowingStep ==
  ASSUME NEW t, NEW m, Begins(t, m), Len(report.lookups) \in Nat, Following(t, m), ParserNext
  PROVE  Following(t, m)'
<1> USE SectionStep
<1>1. CASE AtStart
  <2>1. Start \/ Signatures
    BY <1>1 DEF AtStart
  <2>2. AtStart' \/ AtHeader(t, m)' \/ Lost(t, m)'
    BY <1>1, <2>1, StartStep, SignaturesStep
  <2> QED BY <2>2, Zenon DEF Following
<1>2. CASE AtHeader(t, m)
  <2>1. Header
    BY <1>2 DEF AtHeader
  <2>2. AtKeys(t, m)' \/ Lost(t, m)'
    BY <1>2, <2>1, HeaderStep
  <2> QED BY <2>2, Zenon DEF Following
<1>3. CASE AtKeys(t, m)
  <2>1. Keys
    BY <1>3 DEF AtKeys
  <2>2. AtCount(t, m)' \/ Lost(t, m)'
    BY <1>3, <2>1, KeysStep
  <2> QED BY <2>2, Zenon DEF Following
<1>4. CASE AtCount(t, m)
  <2>1. InstructionCount
    BY <1>4 DEF AtCount
  <2>2. AtInstructions(t, m)' \/ Lost(t, m)'
    BY <1>4, <2>1, CountStep
  <2> QED BY <2>2, Zenon DEF Following
<1>5. CASE AtInstructions(t, m)
  <2>1. ReadInstruction \/ InstructionError \/ InstructionsEnd
    BY <1>5 DEF AtInstructions
  <2>2. \E k \in Nat : at = k
    BY <1>5, CompiledFits, U16Assumption DEF AtInstructions, Begins
  <2>3. PICK k \in Nat : at = k
    BY <2>2
  <2>4. AtInstructions(t, m)' \/ AtTables(t, m)' \/ AtIndexes(t, m)' \/ Lost(t, m)'
    BY <1>5, <2>1, <2>3, ReadInstructionStep, InstructionErrorStep, InstructionsEndStep
  <2> QED BY <2>4, Zenon DEF Following
<1>6. CASE AtTables(t, m)
  <2>1. TableCount
    BY <1>6 DEF AtTables
  <2>2. AtLookups(t, m)' \/ Lost(t, m)'
    BY <1>6, <2>1, TableCountStep
  <2> QED BY <2>2, Zenon DEF Following
<1>7. CASE AtLookups(t, m)
  <2>1. ReadLookup \/ LookupsEnd
    BY <1>7 DEF AtLookups
  <2>2. \E k \in Nat : at = k
    BY <1>7, CompiledFits, U16Assumption DEF AtLookups, Begins
  <2>3. PICK k \in Nat : at = k
    BY <2>2
  <2>4. AtLookups(t, m)' \/ AtIndexes(t, m)' \/ Lost(t, m)'
    BY <1>7, <2>1, <2>3, ReadLookupStep, LookupsEndStep
  <2> QED BY <2>4, Zenon DEF Following
<1>8. CASE AtIndexes(t, m)
  <2>1. CheckIndexes
    BY <1>8 DEF AtIndexes
  <2>2. AtDone(t, m)'
    BY <1>8, <2>1, CheckIndexesStep
  <2> QED BY <2>2, Zenon DEF Following
<1>9. CASE AtDone(t, m)
  BY <1>9 DEF AtDone
<1>10. CASE Lost(t, m)
  <2>1. Cut' /\ raw' = raw
    BY <1>10, CutStays, ParserKeepsReport DEF Lost
  <2>2. Lost(t, m)'
    BY <1>10, <2>1 DEF Lost
  <2> QED BY <2>2, Zenon DEF Following
<1> QED
  BY <1>1, <1>2, <1>3, <1>4, <1>5, <1>6, <1>7, <1>8, <1>9, <1>10, Zenon DEF Following

\* Bytes that begin with no count are an error at once.
LEMMA UncountedStep ==
  ASSUME read_compact_u16(raw, 0) = {}, AtStart \/ Cut, ParserNext
  PROVE  AtStart' \/ Cut'
<1>1. CASE AtStart /\ Start
  BY <1>1, StartStep
<1>2. CASE AtStart /\ Signatures
  <2>1. read_compact_u16(raw, offset) = {}
    BY <1>2 DEF AtStart
  <2>2. Error
    BY <1>2, <2>1, Zenon DEF Signatures, Fail
  <2> QED BY <2>2, ErrorCuts
<1>3. CASE Cut
  BY <1>3, CutStays
<1>4. AtStart => Start \/ Signatures
  BY SectionStep DEF AtStart
<1> QED BY <1>1, <1>2, <1>3, <1>4

-----------------------------------------------------------------------------
(* How the bytes begin that the parser is given *)

LEMMA BodyType ==
  ASSUME NEW t, Compiled(t)
  PROVE  Body(t) \in Seq(Byte)
<1> DEFINE sigs == Opaques(Len(t.signatures), SigLen)
           ver == IF t.v0 THEN <<VersionPrefix>> ELSE <<>>
           hdr == <<t.required, t.readonly_signed, t.readonly_unsigned>>
           kc == ShortVec(Len(t.keys))
           ks == Opaques(Len(t.keys), KeyLen)
           bh == Opaque(KeyLen)
           ic == ShortVec(Len(t.instructions))
           is == FlattenSeq(Ixs(t))
           lc == ShortVec(Len(t.lookups))
           ls == FlattenSeq(Lks(t))
           tb == IF t.v0 THEN lc \o ls ELSE <<>>
<1>1. Body(t) = sigs \o (ver \o hdr \o kc \o ks \o bh \o ic \o is \o tb)
  BY Zenon DEF Body, Message, Ixs, Lks
<1>2. {Len(t.signatures), Len(t.keys), Len(t.instructions), Len(t.lookups)} \subseteq 0..U16Max
  BY CompiledFits
<1>3. sigs \in Seq(Byte) /\ ks \in Seq(Byte) /\ bh \in Seq(Byte)
  <2>1. Len(t.signatures) \in Nat /\ Len(t.keys) \in Nat /\ SigLen \in Nat /\ KeyLen \in Nat
    BY <1>2, U16Assumption, LengthAssumption
  <2> QED BY <2>1, OpaquesType, OpaqueType
<1>4. kc \in Seq(Byte) /\ ic \in Seq(Byte) /\ lc \in Seq(Byte)
  BY <1>2, ShortVecProperties
<1>5. ver \in Seq(Byte)
  <2>1. VersionPrefix \in Byte
    BY RadixAssumption DEF VersionPrefix, Byte
  <2> QED BY <2>1
<1>6. hdr \in Seq(Byte)
  BY DEF Compiled
<1>7. is \in Seq(Byte) /\ ls \in Seq(Byte)
  BY PiecesType
<1> HIDE DEF sigs, ver, hdr, kc, ks, bh, ic, is, lc, ls
<1>8. tb \in Seq(Byte)
  BY <1>4, <1>7
<1> HIDE DEF tb
<1>9. ver \o hdr \o kc \o ks \o bh \o ic \o is \o tb \in Seq(Byte)
  <2>1. ver \o hdr \o kc \in Seq(Byte)
    BY <1>4, <1>5, <1>6
  <2>2. ver \o hdr \o kc \o ks \o bh \in Seq(Byte)
    BY <1>3, <2>1
  <2>3. ver \o hdr \o kc \o ks \o bh \o ic \in Seq(Byte)
    BY <1>4, <2>2
  <2>4. ver \o hdr \o kc \o ks \o bh \o ic \o is \in Seq(Byte)
    BY <1>7, <2>3
  <2> QED BY <1>8, <2>4
<1> QED BY <1>1, <1>3, <1>9

\* However a number is counted, the reader returns it.
LEMMA RecountRead ==
  ASSUME NEW n \in 0..U16Max, NEW count \in Recounts(n), NEW r \in Seq(Byte), Len(count) <= Len(r),
         \A i \in 1..Len(count) : r[i] = count[i]
  PROVE  read_compact_u16(r, 0) = {[value |-> n, next |-> Len(count)]}
<1>1. n \in Nat /\ Radix \in Nat \ {0, 1} /\ Radix * Radix \in Nat /\ n <= U16Max
  BY RadixAssumption, U16Assumption
<1> DEFINE q == n \div Radix
           g == n % Radix
<1>2. q \in Nat /\ g \in 0..(Radix - 1) /\ n = Radix * q + g
  BY <1>1, DivMod
<1>3. \/ count = ShortVec(n)
      \/ n < Radix /\ (count = <<n + Radix, 0>> \/ count = <<n + Radix, Radix, 0>>)
      \/ n < Radix * Radix /\ count = <<g + Radix, q + Radix, 0>>
  BY DEF Recounts
<1>4. CASE count = ShortVec(n)
  BY <1>4, CountsRoundTrip
<1>5. CASE n < Radix /\ count = <<n + Radix, 0>>
  <2>1. r[1] = n + Radix /\ r[2] = 0 /\ 2 <= Len(r) /\ Len(count) = 2
    BY <1>5
  <2>2. n \in 0..(Radix - 1) /\ 0 \in 0..(Radix - 1)
    BY <1>1, <1>5
  <2>3. GroupValue(r, 0, 2) = n
    BY <1>1, <2>1, <2>2, Groups DEF GroupValue
  <2>4. ~More(r[0 + 2]) /\ \A i \in 1..(2 - 1) : More(r[0 + i])
    BY <2>1, <2>2, Groups
  <2> QED BY <1>1, <2>1, <2>3, <2>4, ReadsCount
<1>6. CASE n < Radix /\ count = <<n + Radix, Radix, 0>>
  <2>1. r[1] = n + Radix /\ r[2] = 0 + Radix /\ r[3] = 0 /\ 3 <= Len(r) /\ Len(count) = 3
    BY <1>1, <1>6
  <2>2. n \in 0..(Radix - 1) /\ 0 \in 0..(Radix - 1)
    BY <1>1, <1>6
  <2>3. GroupValue(r, 0, 3) = n
    BY <1>1, <2>1, <2>2, Groups DEF GroupValue
  <2>4. ~More(r[0 + 3]) /\ \A i \in 1..(3 - 1) : More(r[0 + i])
    BY <2>1, <2>2, Groups
  <2> QED BY <1>1, <2>1, <2>3, <2>4, ReadsCount
<1>7. CASE n < Radix * Radix /\ count = <<g + Radix, q + Radix, 0>>
  <2>0. q < Radix
    BY <1>1, <1>7, DivBelow
  <2> HIDE DEF q, g
  <2>1. r[1] = g + Radix /\ r[2] = q + Radix /\ r[3] = 0 /\ 3 <= Len(r) /\ Len(count) = 3
    BY <1>7
  <2>2. q \in 0..(Radix - 1) /\ 0 \in 0..(Radix - 1)
    BY <1>1, <1>2, <2>0
  <2>3. GroupValue(r, 0, 3) = n
    <3>1. Low(r[1]) = g /\ Low(r[2]) = q /\ Low(r[3]) = 0
      BY <1>2, <2>1, <2>2, Groups
    <3>2. Radix * Radix * 0 = 0
      BY <1>1
    <3> QED BY <1>1, <1>2, <3>1, <3>2 DEF GroupValue
  <2>4. ~More(r[0 + 3]) /\ \A i \in 1..(3 - 1) : More(r[0 + i])
    BY <1>2, <2>1, <2>2, Groups
  <2> QED BY <1>1, <2>1, <2>3, <2>4, ReadsCount
<1> QED BY <1>3, <1>4, <1>5, <1>6, <1>7

\* Bytes without a count.
LEMMA NoCountRead ==
  ASSUME NEW r \in Seq(Byte), NoCount(r)
  PROVE  read_compact_u16(r, 0) = {}
<1>1. Len(r) \in Nat /\ Len(r) >= 3 /\ More(r[1]) /\ More(r[2])
  BY DEF NoCount
<1>2. ASSUME NEW k \in GroupCounts(r, 0)
      PROVE  ~(GroupValue(r, 0, k) <= U16Max)
  <2>1. k \in 1..3 /\ ~More(r[0 + k])
    BY DEF GroupCounts
  <2>2. k = 3 /\ ~More(r[3])
    BY <1>1, <2>1
  <2>3. Low(r[1]) + Radix * Low(r[2]) + Radix * Radix * r[3] > U16Max
    BY <2>2 DEF NoCount
  <2>4. Low(r[3]) = r[3]
    BY <2>2 DEF Low, More
  <2>5. GroupValue(r, 0, 3) = Low(r[1]) + Radix * Low(r[2]) + Radix * Radix * r[3]
    BY <2>4 DEF GroupValue
  <2>6. Low(r[1]) \in Nat /\ Low(r[2]) \in Nat /\ r[3] \in Nat
    <3>1. r[1] \in Byte /\ r[2] \in Byte /\ r[3] \in Byte
      BY <1>1
    <3>2. Low(r[1]) \in Nat /\ Low(r[2]) \in Nat
      BY <3>1, LowNat
    <3>3. r[3] \in Nat
      BY <3>1, RadixAssumption DEF Byte
    <3> QED BY <3>2, <3>3
  <2>7. GroupValue(r, 0, 3) \in Nat
    <3> DEFINE x == Radix * Low(r[2])
               y == Radix * Radix
    <3>1. x \in Nat /\ y \in Nat
      BY <2>6, RadixAssumption, ProductNat
    <3>2. y * r[3] \in Nat
      <4> HIDE DEF y
      <4> QED BY <2>6, <3>1, ProductNat
    <3>3. GroupValue(r, 0, 3) = Low(r[1]) + x + y * r[3]
      BY <2>5
    <3> DEFINE w == y * r[3]
    <3> HIDE DEF x, w
    <3> QED BY <2>6, <3>1, <3>2, <3>3 DEF w
  <2>8. GroupValue(r, 0, 3) > U16Max
    BY <2>3, <2>5, Zenon
  <2> DEFINE v == GroupValue(r, 0, 3)
  <2> HIDE DEF v
  <2>9. ~(v <= U16Max)
    BY <2>7, <2>8, U16Assumption DEF v
  <2> QED BY <2>2, <2>9 DEF v
<1> QED BY <1>2 DEF read_compact_u16

LEMMA SerializeType ==
  ASSUME NEW t, Compiled(t)
  PROVE  /\ Len(t.signatures) \in 0..U16Max /\ ShortVec(Len(t.signatures)) \in Seq(Byte) /\ Body(t) \in Seq(Byte)
         /\ Serialize(t) = ShortVec(Len(t.signatures)) \o Body(t) /\ Serialize(t) \in Seq(Byte)
         /\ Len(Serialize(t)) = Len(ShortVec(Len(t.signatures))) + Len(Body(t))
<1>1. Len(t.signatures) \in 0..U16Max
  BY CompiledFits
<1>2. ShortVec(Len(t.signatures)) \in Seq(Byte) /\ Body(t) \in Seq(Byte)
  BY <1>1, ShortVecProperties, BodyType
<1>3. Serialize(t) = ShortVec(Len(t.signatures)) \o Body(t)
  BY Zenon DEF Serialize
<1> QED BY <1>1, <1>2, <1>3, ConcatProperties

\* Where the body of a transaction stands behind its count.
LEMMA BeginsThere ==
  ASSUME NEW t, Compiled(t), raw \in Seq(Byte), NEW q \in Nat, q <= Len(raw), Agrees(raw, q, Body(t)),
         read_compact_u16(raw, 0) = {[value |-> Len(t.signatures), next |-> q]}
  PROVE  \E m : Begins(t, m) /\ End(t, m) = q + Len(Body(t))
<1>1. PICK m : m.q = q /\ Marked(raw, t, m)
  BY MarkedLemma
<1>2. Begins(t, m)
  BY <1>1, Zenon DEF Begins
<1>3. End(t, m) = q + Len(Body(t))
  BY <1>1, Zenon DEF Marked
<1> QED BY <1>2, <1>3

\* A count and the body behind it, and what may follow.
LEMMA WholeBegins ==
  ASSUME NEW t, Compiled(t), NEW rest \in Seq(Byte), raw \in Seq(Byte),
         NEW count \in Recounts(Len(t.signatures)), raw = count \o Body(t) \o rest
  PROVE  \E m : Begins(t, m) /\ End(t, m) <= Len(raw)
<1> DEFINE b == Body(t)
           n == Len(t.signatures)
<1>1. n \in 0..U16Max /\ b \in Seq(Byte)
  BY SerializeType
<1>2. count \in Seq(Byte)
  <2>1. /\ n \in Nat /\ Radix \in Nat \ {0, 1}
    BY <1>1, RadixAssumption, U16Assumption
  <2>2. n % Radix \in 0..(Radix - 1) /\ n \div Radix \in Nat
    BY <2>1, DivMod
  <2>3. \/ count = ShortVec(n)
        \/ n < Radix /\ (count = <<n + Radix, 0>> \/ count = <<n + Radix, Radix, 0>>)
        \/ n < Radix * Radix /\ count = <<(n % Radix) + Radix, (n \div Radix) + Radix, 0>>
    BY DEF Recounts
  <2>4. n < Radix * Radix => n \div Radix < Radix
    BY <2>1, DivBelow
  <2>5. CASE count = ShortVec(n)
    BY <1>1, <2>5, ShortVecProperties
  <2>6. CASE n < Radix /\ (count = <<n + Radix, 0>> \/ count = <<n + Radix, Radix, 0>>)
    <3>1. n + Radix \in Byte /\ Radix \in Byte /\ 0 \in Byte
      BY <2>1, <2>6 DEF Byte
    <3> QED BY <2>6, <3>1
  <2>7. CASE n < Radix * Radix /\ count = <<(n % Radix) + Radix, (n \div Radix) + Radix, 0>>
    <3> DEFINE g == n % Radix
               d == n \div Radix
    <3>1. g \in 0..(Radix - 1) /\ d \in Nat /\ d < Radix /\ count = <<g + Radix, d + Radix, 0>>
      BY <2>2, <2>4, <2>7
    <3> HIDE DEF g, d
    <3>2. g + Radix \in Byte /\ d + Radix \in Byte /\ 0 \in Byte
      BY <2>1, <3>1 DEF Byte
    <3> QED BY <3>1, <3>2
  <2> QED BY <2>3, <2>5, <2>6, <2>7
<1> HIDE DEF b
<1>3. /\ count \o b \in Seq(Byte) /\ Len(count \o b) = Len(count) + Len(b)
      /\ \A i \in 1..Len(count) : (count \o b)[i] = count[i]
      /\ \A i \in 1..Len(b) : (count \o b)[Len(count) + i] = b[i]
  BY <1>1, <1>2, ConcatProperties
<1> DEFINE s == count \o b
<1>4. /\ Len(raw) = Len(s) + Len(rest) /\ \A i \in 1..Len(s) : raw[i] = s[i]
  <2>1. raw = s \o rest
    BY DEF b
  <2> HIDE DEF s
  <2>2. s \in Seq(Byte)
    BY <1>3 DEF s
  <2> QED BY <2>1, <2>2, ConcatProperties
<1>5. /\ Len(count) \in Nat /\ Len(b) \in Nat /\ Len(rest) \in Nat /\ Len(s) = Len(count) + Len(b)
  BY <1>1, <1>2, <1>3
<1>6. \A i \in 1..Len(count) : raw[i] = count[i]
  <2>1. \A i \in 1..Len(count) : i \in 1..Len(s)
    BY <1>5
  <2> QED BY <1>3, <1>4, <2>1
<1>7. Agrees(raw, Len(count), b)
  <2>1. \A i \in 1..Len(b) : Len(count) + i \in 1..Len(s)
    BY <1>5
  <2> QED BY <1>3, <1>4, <2>1 DEF Agrees
<1> HIDE DEF s
<1>8. Len(count) <= Len(raw) /\ Len(count) + Len(b) <= Len(raw)
  BY <1>4, <1>5
<1>9. read_compact_u16(raw, 0) = {[value |-> n, next |-> Len(count)]}
  BY <1>1, <1>6, <1>8, RecountRead
<1>10. PICK m : Begins(t, m) /\ End(t, m) = Len(count) + Len(b)
  BY <1>5, <1>7, <1>8, <1>9, BeginsThere DEF b
<1> QED BY <1>8, <1>10

\* A transaction cut short.
LEMMA ShortBegins ==
  ASSUME NEW t, Compiled(t), raw \in Seq(Byte), Len(raw) < Len(Serialize(t)),
         raw = SubSeq(Serialize(t), 1, Len(raw))
  PROVE  read_compact_u16(raw, 0) = {} \/ \E m : Begins(t, m) /\ End(t, m) > Len(raw)
<1> DEFINE n == Len(t.signatures)
           v == ShortVec(n)
           b == Body(t)
           s == Serialize(t)
           l == Len(raw)
<1>1. /\ n \in 0..U16Max /\ v \in Seq(Byte) /\ b \in Seq(Byte) /\ s = v \o b /\ s \in Seq(Byte)
      /\ Len(s) = Len(v) + Len(b)
  BY SerializeType
<1>2. l \in Nat /\ l < Len(s) /\ raw = SubSeq(s, 1, l) /\ Len(v) \in Nat /\ Len(b) \in Nat
  BY <1>1
<1> HIDE DEF s, v, b
<1>3. \A i \in 1..l : raw[i] = s[i]
  <2>1. \A i \in 1..l : SubSeq(s, 1, l)[i] = s[i]
    <3> HIDE DEF l
    <3> QED BY <1>1, <1>2
  <2> QED BY <1>2, <2>1, Zenon
<1>4. Agrees(raw, 0, v \o b)
  <2>1. Agrees(raw, 0, s)
    BY <1>2, <1>3 DEF Agrees
  <2> QED BY <1>1, <2>1
<1>5. Agrees(raw, 0, v) /\ Agrees(raw, Len(v), b)
  <2>1. Agrees(raw, 0, v) /\ Agrees(raw, 0 + Len(v), b)
    BY <1>1, <1>4, AgreesSplit
  <2> QED BY <1>2, <2>1
<1>6. ReadsAs(raw, 0, n)
  BY <1>1, <1>5, ReadsThere DEF v
<1>7. read_compact_u16(raw, 0) = IF Len(v) <= l THEN {[value |-> n, next |-> Len(v)]} ELSE {}
  <2>1. 0 + Len(v) = Len(v)
    BY <1>2
  <2> QED BY <1>6, <2>1, Zenon DEF ReadsAs, v
<1>8. CASE Len(v) <= l
  <2>1. PICK m : Begins(t, m) /\ End(t, m) = Len(v) + Len(b)
    BY <1>2, <1>5, <1>7, <1>8, BeginsThere DEF b
  <2>2. Len(v) + Len(b) > l
    BY <1>1, <1>2
  <2> QED BY <2>1, <2>2
<1>9. CASE ~(Len(v) <= l)
  BY <1>7, <1>9
<1> QED BY <1>8, <1>9

\* What the parser is handed, and whether it is whole.
Judged == IF input.call = "main" THEN tx ELSE input.other
Spoiled == input.call = "library" /\ input.damaged
Bytes == IF input.call = "main" THEN Serialize(tx) \o input.trailing ELSE input.bytes

LEMMA BytesBegin ==
  ASSUME Given, raw = Bytes
  PROVE  \/ Spoiled /\ read_compact_u16(raw, 0) = {}
         \/ \E m : Begins(Judged, m) /\ (Spoiled <=> End(Judged, m) > Len(raw))
<1>1. /\ input.call \in {"main", "library"} /\ input.damaged \in BOOLEAN
      /\ Compiled(tx) /\ Compiled(input.other) /\ input.trailing \in Seq(Byte) /\ input.bytes \in Seq(Byte)
      /\ input.call = "library" =>
           IF input.damaged THEN Damaged(input.bytes, input.other) ELSE Whole(input.bytes, input.other)
  BY InputsAssumption DEF Given, tx
<1>2. ASSUME NEW t, NEW m, Begins(t, m), End(t, m) <= Len(raw)
      PROVE  ~(End(t, m) > Len(raw))
  BY <1>2, OrderedLemma, OrderedEnds, CompiledFits, U16Assumption DEF Begins
<1>3. CASE input.call = "main"
  <2>1. raw = Serialize(tx) \o input.trailing /\ Judged = tx /\ ~Spoiled
    BY <1>3 DEF Bytes, Judged, Spoiled
  <2>2. raw = ShortVec(Len(tx.signatures)) \o Body(tx) \o input.trailing /\ raw \in Seq(Byte)
    <3>1. Serialize(tx) = ShortVec(Len(tx.signatures)) \o Body(tx) /\ Serialize(tx) \in Seq(Byte)
      BY <1>1, SerializeType
    <3>2. Serialize(tx) \o input.trailing \in Seq(Byte)
      BY <1>1, <3>1, ConcatProperties
    <3> QED BY <2>1, <3>1, <3>2, Zenon
  <2>3. ShortVec(Len(tx.signatures)) \in Recounts(Len(tx.signatures))
    BY DEF Recounts
  <2>4. PICK m : Begins(tx, m) /\ End(tx, m) <= Len(raw)
    BY <1>1, <2>2, <2>3, WholeBegins
  <2> QED BY <1>2, <2>1, <2>4
<1>4. CASE input.call = "library" /\ ~input.damaged
  <2>1. raw = input.bytes /\ Judged = input.other /\ ~Spoiled /\ raw \in Seq(Byte)
    BY <1>1, <1>4 DEF Bytes, Judged, Spoiled
  <2> DEFINE t == input.other
  <2>2. PICK count \in Recounts(Len(t.signatures)) : raw = count \o Body(t)
    BY <1>1, <1>4, <2>1 DEF Whole
  <2>3. raw = count \o Body(t) \o <<>> /\ <<>> \in Seq(Byte)
    BY <2>1, <2>2
  <2>4. PICK m : Begins(t, m) /\ End(t, m) <= Len(raw)
    BY <1>1, <2>1, <2>3, WholeBegins
  <2> QED BY <1>2, <2>1, <2>4
<1>5. CASE input.call = "library" /\ input.damaged
  <2>1. raw = input.bytes /\ Judged = input.other /\ Spoiled /\ raw \in Seq(Byte)
    BY <1>1, <1>5 DEF Bytes, Judged, Spoiled
  <2>2. Damaged(raw, input.other)
    BY <1>1, <1>5, <2>1
  <2>3. CASE NoCount(raw)
    BY <2>1, <2>3, NoCountRead
  <2>4. CASE Len(raw) < Len(Serialize(input.other)) /\ raw = SubSeq(Serialize(input.other), 1, Len(raw))
    <3>1. read_compact_u16(raw, 0) = {} \/ \E m : Begins(input.other, m) /\ End(input.other, m) > Len(raw)
      BY <1>1, <2>1, <2>4, ShortBegins
    <3> QED BY <2>1, <3>1
  <2> QED BY <2>2, <2>3, <2>4 DEF Damaged
<1> QED BY <1>1, <1>3, <1>4, <1>5

-----------------------------------------------------------------------------
(* What the warnings say at the end *)

\* The counts a report shows are those of the transaction it was decoded from.
LEMMA ReportCounts ==
  ASSUME NEW t, NEW schema, Compiled(t), report = decode_versioned_tx(t, schema)
  PROVE  /\ report.signatures = Len(t.signatures) /\ report.v0 = t.v0
         /\ Len(report.accounts) = Len(t.keys) /\ Len(report.instructions) = Len(t.instructions)
         /\ report.lookups = CountsOf(t).lookups /\ Len(report.lookups) \in Nat
<1>1. {Len(t.signatures), Len(t.keys), Len(t.instructions), Len(t.lookups)} \subseteq Nat
  BY CompiledFits, U16Assumption
<1>2. /\ report.signatures = Len(t.signatures) /\ report.v0 = t.v0
      /\ report.accounts = Accounts(t) /\ report.instructions = DecodedInstructions(t, schema)
      /\ report.lookups = IF t.v0 THEN [k \in 1..Len(t.lookups) |->
                            Len(t.lookups[k].writable) + Len(t.lookups[k].readonly)] ELSE <<>>
  BY DEF decode_versioned_tx
<1>3. Len(Accounts(t)) = Len(t.keys)
  BY <1>1 DEF Accounts
<1>4. Len(DecodedInstructions(t, schema)) = Len(t.instructions)
  BY <1>1 DEF DecodedInstructions
<1>5. report.lookups = CountsOf(t).lookups
  BY <1>2 DEF CountsOf
<1>6. Len(report.lookups) \in Nat
  <2>1. CASE t.v0
    BY <1>1, <1>2, <2>1
  <2>2. CASE ~t.v0
    BY <1>2, <2>2
  <2> QED BY <2>1, <2>2
<1> QED BY <1>2, <1>3, <1>4, <1>5, <1>6

\* The warnings about counts, in what the parser has found of t.
CountWarnings(t) ==
  FoundHeader(t) \cup WarnIf(Len(t.keys) # Len(report.accounts), "accounts")
    \cup WarnIf(Len(t.instructions) # Len(report.instructions), "instructions")
    \cup (IF t.v0 THEN Differ(t, Len(t.lookups)) \cup WarnIf(Len(t.lookups) # Len(report.lookups), "lookups")
          ELSE {})

\* The rest are the index warnings.
LEMMA IndexesFound ==
  ASSUME NEW t, Compiled(t)
  PROVE  FoundIndexes(t) = CountWarnings(t) \cup IndexWarnings(t)
<1> DEFINE n == Len(t.instructions)
           bound == AllAccounts(t)
           keys == Len(t.keys)
           found == {Warn("account", d[1]) : d \in {e \in BeyondKeys(t, n) : e[2] >= bound}}
           over == {Warn("account", i - 1) : i \in {j \in 1..n :
                      \E k \in 1..Len(t.instructions[j].accounts) : t.instructions[j].accounts[k] >= bound}}
<1>1. IndexWarnings(t) = Programs(t, n) \cup over
  BY Zenon DEF IndexWarnings, Programs, AllAccounts
<1>2. FoundIndexes(t) = FoundTables(t) \cup found
  BY Zenon DEF FoundIndexes
<1>3. keys \in Nat /\ bound \in Nat /\ keys <= bound /\ n \in Nat
  <2>1. keys \in Nat /\ n \in Nat
    BY CompiledFits, U16Assumption
  <2>2. LoadedBy(t.lookups) \in Nat
    <3>1. /\ t.lookups \in Seq(Lookup)
          /\ \A k \in 1..Len(t.lookups) : /\ Len(t.lookups[k].writable) \in Nat
                                          /\ Len(t.lookups[k].readonly) \in Nat
      <4>1. \A k \in 1..Len(t.lookups) : FitsLookup(t.lookups[k])
        BY CompiledFits
      <4> QED BY <4>1, U16Assumption DEF Compiled, FitsLookup
    <3>2. PICK c : RunningSums(c, LoadSizes(t), Len(t.lookups)) /\ LoadedBy(t.lookups) = c[Len(t.lookups)]
      BY <3>1, LoadedUnfolds DEF LoadSizes
    <3>3. Len(t.lookups) \in 0..Len(t.lookups)
      BY CompiledFits, U16Assumption
    <3> QED BY <3>2, <3>3 DEF RunningSums
  <2> QED BY <2>1, <2>2 DEF AllAccounts
<1>4. \A i \in 1..n : \A k \in 1..Len(t.instructions[i].accounts) : t.instructions[i].accounts[k] \in Byte
  <2>1. ASSUME NEW ix, FitsIx(ix)
        PROVE  \A k \in 1..Len(ix.accounts) : ix.accounts[k] \in Byte
    <3>1. ix.accounts \in Seq(Byte)
      BY <2>1 DEF FitsIx
    <3> QED BY <3>1, ElementOfSeq
  <2>2. \A i \in 1..n : FitsIx(t.instructions[i])
    BY CompiledFits
  <2> QED BY <2>1, <2>2, Zenon
<1> HIDE DEF n, bound, keys
<1>5. found = over
  <2>1. ASSUME NEW w \in found
        PROVE  w \in over
    <3>1. PICK d \in BeyondKeys(t, n) : d[2] >= bound /\ w = Warn("account", d[1])
      BY <2>1
    <3>2. PICK i \in 1..n : \E k \in 1..Len(t.instructions[i].accounts) : d = <<i - 1, t.instructions[i].accounts[k]>>
      BY <3>1 DEF BeyondKeys
    <3>3. PICK k \in 1..Len(t.instructions[i].accounts) : d = <<i - 1, t.instructions[i].accounts[k]>>
      BY <3>2
    <3>4. t.instructions[i].accounts[k] >= bound /\ w = Warn("account", i - 1)
      BY <3>1, <3>3
    <3> QED BY <3>4
  <2>2. ASSUME NEW w \in over
        PROVE  w \in found
    <3>1. PICK i \in 1..n : /\ w = Warn("account", i - 1)
                            /\ \E k \in 1..Len(t.instructions[i].accounts) : t.instructions[i].accounts[k] >= bound
      BY <2>2
    <3>2. PICK k \in 1..Len(t.instructions[i].accounts) : t.instructions[i].accounts[k] >= bound
      BY <3>1
    <3> DEFINE x == t.instructions[i].accounts[k]
               d == <<i - 1, x>>
    <3>3. x \in Byte /\ x \in Nat
      BY <1>4, RadixAssumption DEF Byte
    <3>4. x >= keys
      <4> HIDE DEF x
      <4>1. x >= bound
        BY <3>2 DEF x
      <4> QED BY <1>3, <3>3, <4>1
    <3>5. d \in Nat \X Byte
      BY <1>3, <3>3
    <3>6. d \in BeyondKeys(t, n)
      <4>1. i \in 1..n /\ k \in 1..Len(t.instructions[i].accounts) /\ x >= Len(t.keys)
        BY <3>4 DEF keys
      <4>2. d = <<i - 1, t.instructions[i].accounts[k]>> /\ x = t.instructions[i].accounts[k]
        OBVIOUS
      <4> HIDE DEF d, x
      <4> QED BY <3>5, <4>1, <4>2 DEF BeyondKeys
    <3>7. d[2] >= bound /\ d[1] = i - 1
      BY <3>2
    <3> QED BY <3>1, <3>6, <3>7
  <2> QED BY <2>1, <2>2
<1>6. FoundTables(t) = CountWarnings(t) \cup Programs(t, n)
  BY DEF FoundTables, FoundInstructions, FoundKeys, CountWarnings, n
<1> HIDE DEF found, over
<1> QED BY <1>1, <1>2, <1>5, <1>6

\* The two are of different kinds, and neither is of a cut.
IndexKinds == {"program", "account"}
CountKinds == {"signatures", "version", "accounts", "instructions", "lookup", "lookups"}

LEMMA WarningKinds ==
  ASSUME NEW t
  PROVE  /\ \A w \in IndexWarnings(t) : w.what \in IndexKinds
         /\ \A w \in CountWarnings(t) : w.what \in CountKinds
<1>1. \A what, who : Warn(what, who).what = what
  BY DEF Warn
<1>2. ASSUME NEW w \in IndexWarnings(t)
      PROVE  w.what \in IndexKinds
  <2>1. \E who : w = Warn("program", who) \/ w = Warn("account", who)
    BY DEF IndexWarnings
  <2> QED BY <1>1, <2>1 DEF IndexKinds
<1>3. ASSUME NEW w \in CountWarnings(t)
      PROVE  w.what \in CountKinds
  <2>1. \E who : \E what \in CountKinds : w = Warn(what, who)
    <3>1. ASSUME NEW cond, NEW what \in CountKinds, w \in WarnIf(cond, what)
          PROVE  w = Warn(what, 0)
      BY <3>1 DEF WarnIf
    <3>2. ASSUME w \in Differ(t, Len(t.lookups))
          PROVE  \E who : w = Warn("lookup", who)
      BY <3>2 DEF Differ
    <3>3. /\ "signatures" \in CountKinds /\ "version" \in CountKinds /\ "accounts" \in CountKinds
          /\ "instructions" \in CountKinds /\ "lookup" \in CountKinds /\ "lookups" \in CountKinds
      BY DEF CountKinds
    <3>4. \/ w \in WarnIf(Len(t.signatures) # report.signatures, "signatures")
          \/ w \in WarnIf(t.v0 # report.v0, "version")
          \/ w \in WarnIf(Len(t.keys) # Len(report.accounts), "accounts")
          \/ w \in WarnIf(Len(t.instructions) # Len(report.instructions), "instructions")
          \/ w \in Differ(t, Len(t.lookups))
          \/ w \in WarnIf(Len(t.lookups) # Len(report.lookups), "lookups")
      <4>1. \/ w \in FoundHeader(t)
            \/ w \in WarnIf(Len(t.keys) # Len(report.accounts), "accounts")
            \/ w \in WarnIf(Len(t.instructions) # Len(report.instructions), "instructions")
            \/ w \in Differ(t, Len(t.lookups)) \cup WarnIf(Len(t.lookups) # Len(report.lookups), "lookups")
        BY DEF CountWarnings
      <4>2. w \in FoundHeader(t) => \/ w \in WarnIf(Len(t.signatures) # report.signatures, "signatures")
                                    \/ w \in WarnIf(t.v0 # report.v0, "version")
        BY DEF FoundHeader, FoundSignatures
      <4> QED BY <4>1, <4>2
    <3> QED BY <3>1, <3>2, <3>3, <3>4, Zenon
  <2> QED BY <1>1, <2>1
<1> QED BY <1>2, <1>3

LEMMA CutShows ==
  ASSUME NEW t, Cut
  PROVE  warnings # IndexWarnings(t)
<1>1. PICK w \in warnings : w.what \in CutKinds
  BY DEF Cut
<1>2. w.what \notin IndexKinds
  BY <1>1 DEF CutKinds, IndexKinds
<1> QED BY <1>1, <1>2, WarningKinds

\* No warning about a count exactly when the report's transaction has those counts.
LEMMA CountsMatch ==
  ASSUME NEW t, NEW u, NEW schema, Compiled(t), Compiled(u), report = decode_versioned_tx(u, schema)
  PROVE  CountWarnings(t) = {} <=> CountsOf(t) = CountsOf(u)
<1>1. /\ report.signatures = Len(u.signatures) /\ report.v0 = u.v0
      /\ Len(report.accounts) = Len(u.keys) /\ Len(report.instructions) = Len(u.instructions)
      /\ report.lookups = CountsOf(u).lookups
  BY ReportCounts
<1>2. Len(t.lookups) \in Nat /\ Len(u.lookups) \in Nat
  BY CompiledFits, U16Assumption
<1>3. \A cond \in BOOLEAN : \A what : WarnIf(cond, what) = {} <=> ~cond
  BY DEF WarnIf
<1> DEFINE n == Len(t.lookups)
           ls == CountsOf(t).lookups
           us == CountsOf(u).lookups
<1>4. /\ ls = IF t.v0 THEN [k \in 1..n |-> Size(t.lookups[k])] ELSE <<>>
      /\ us = IF u.v0 THEN [k \in 1..Len(u.lookups) |-> Size(u.lookups[k])] ELSE <<>>
  BY DEF CountsOf, Size
<1>5. CountWarnings(t) = {} <=>
        /\ Len(t.signatures) = Len(u.signatures) /\ t.v0 = u.v0 /\ Len(t.keys) = Len(u.keys)
        /\ Len(t.instructions) = Len(u.instructions)
        /\ t.v0 => Differ(t, n) = {} /\ n = Len(us)
  BY <1>1, <1>3 DEF CountWarnings, FoundHeader, FoundSignatures
<1>6. Differ(t, n) = {} <=> \A j \in 1..n : j <= Len(us) => us[j] = Size(t.lookups[j])
  BY <1>1 DEF Differ
<1>7. CountsOf(t) = CountsOf(u) <=>
        /\ Len(t.signatures) = Len(u.signatures) /\ t.v0 = u.v0 /\ Len(t.keys) = Len(u.keys)
        /\ Len(t.instructions) = Len(u.instructions) /\ ls = us
  BY DEF CountsOf
<1> HIDE DEF ls, us
<1>8. ASSUME t.v0 = u.v0
      PROVE  ls = us <=> (t.v0 => Differ(t, n) = {} /\ n = Len(us))
  <2>1. CASE ~t.v0
    BY <1>4, <1>8, <2>1
  <2>2. CASE t.v0
    <3>1. /\ ls = [k \in 1..n |-> Size(t.lookups[k])] /\ us = [k \in 1..Len(us) |-> us[k]] /\ Len(us) \in Nat
          /\ Len(ls) = n
      BY <1>2, <1>4, <1>8, <2>2
    <3>2. ASSUME n = Len(us), Differ(t, n) = {}
          PROVE  ls = us
      <4>1. \A j \in 1..n : us[j] = Size(t.lookups[j])
        BY <1>2, <1>6, <3>1, <3>2
      <4> QED BY <3>1, <3>2, <4>1
    <3>3. ASSUME ls = us
          PROVE  n = Len(us) /\ Differ(t, n) = {}
      BY <1>6, <3>1, <3>3
    <3> QED BY <2>2, <3>2, <3>3
  <2> QED BY <2>1, <2>2
<1> QED BY <1>5, <1>7, <1>8

LEMMA EndJudged ==
  ASSUME NEW t, NEW m, NEW u, NEW schema, Compiled(t), Compiled(u), report = decode_versioned_tx(u, schema),
         AtDone(t, m)
  PROVE  warnings = IndexWarnings(t) <=> CountsOf(t) = CountsOf(u)
<1>1. warnings = CountWarnings(t) \cup IndexWarnings(t)
  BY IndexesFound DEF AtDone
<1>2. CountWarnings(t) \cap IndexWarnings(t) = {}
  <2>1. CountKinds \cap IndexKinds = {}
    BY DEF CountKinds, IndexKinds
  <2> QED BY <2>1, WarningKinds
<1>3. warnings = IndexWarnings(t) <=> CountWarnings(t) = {}
  BY <1>1, <1>2
<1> QED BY <1>3, CountsMatch

-----------------------------------------------------------------------------
(* The comparison at the end of an audit, and on its own *)

Handed ==
  phase \in {"validate", "verify", "compare"} => raw = Bytes /\ report = decode_versioned_tx(tx, input.schema)

WarnInv ==
  /\ Given /\ Handed
  /\ input.call = "library" => phase = "compare"
  /\ phase # "compare" => AtStart
  /\ phase = "compare" => /\ \A m : Begins(Judged, m) => Following(Judged, m)
                          /\ read_compact_u16(raw, 0) = {} => AtStart \/ Cut

LEMMA StartFollows ==
  ASSUME AtStart
  PROVE  /\ \A m : Begins(Judged, m) => Following(Judged, m)
         /\ read_compact_u16(raw, 0) = {} => AtStart \/ Cut
BY Zenon DEF Following

LEMMA WarnInitHolds == ASSUME AuditInit PROVE WarnInv
<1>1. Given /\ AtStart
  BY DEF AuditInit, Given, ParserInit, AtStart
<1>2. \/ input.call = "main" /\ phase = "read"
      \/ /\ input.call = "library" /\ phase = "compare"
         /\ raw = input.bytes /\ report = decode_versioned_tx(input.tx, input.schema)
  BY DEF AuditInit
<1>3. Handed
  BY <1>2 DEF Handed, Bytes, tx
<1> QED BY <1>1, <1>2, <1>3, StartFollows DEF WarnInv

LEMMA FoundKept ==
  ASSUME NEW t, report' = report
  PROVE  /\ FoundSignatures(t)' = FoundSignatures(t) /\ FoundHeader(t)' = FoundHeader(t)
         /\ FoundKeys(t)' = FoundKeys(t) /\ FoundInstructions(t)' = FoundInstructions(t)
         /\ \A k : Differ(t, k)' = Differ(t, k)
         /\ FoundTables(t)' = FoundTables(t) /\ FoundIndexes(t)' = FoundIndexes(t)
BY DEF FoundIndexes, FoundTables, FoundInstructions, FoundKeys, FoundHeader, FoundSignatures, Differ, WarnIf, Warn

LEMMA FollowingKept ==
  ASSUME NEW t, NEW m, UNCHANGED <<raw, report, parserVars>>, Following(t, m)
  PROVE  Following(t, m)'
<1>1. /\ raw' = raw /\ report' = report /\ section' = section /\ offset' = offset /\ deferred' = deferred
      /\ warnings' = warnings /\ total_accounts' = total_accounts /\ at' = at
      /\ num_accounts' = num_accounts /\ num_ixs' = num_ixs /\ num_alts' = num_alts /\ is_v0' = is_v0
  BY DEF parserVars, counts
<1>2. /\ FoundSignatures(t)' = FoundSignatures(t) /\ FoundHeader(t)' = FoundHeader(t)
      /\ FoundKeys(t)' = FoundKeys(t) /\ FoundInstructions(t)' = FoundInstructions(t)
      /\ Differ(t, at)' = Differ(t, at)
      /\ FoundTables(t)' = FoundTables(t) /\ FoundIndexes(t)' = FoundIndexes(t)
  <2>1. Differ(t, at)' = Differ(t, at)
    BY <1>1 DEF Differ, Warn
  <2> QED BY <1>1, <2>1, FoundKept
<1>3. AtStart => AtStart'
  BY <1>1 DEF AtStart
<1>4. AtHeader(t, m) => AtHeader(t, m)'
  BY <1>1, <1>2 DEF AtHeader
<1>5. AtKeys(t, m) => AtKeys(t, m)'
  BY <1>1, <1>2 DEF AtKeys
<1>6. AtCount(t, m) => AtCount(t, m)'
  BY <1>1, <1>2 DEF AtCount, Keyed
<1>7. AtInstructions(t, m) => AtInstructions(t, m)'
  BY <1>1, <1>2 DEF AtInstructions, Keyed
<1>8. AtTables(t, m) => AtTables(t, m)'
  BY <1>1, <1>2 DEF AtTables, Keyed
<1>9. AtLookups(t, m) => AtLookups(t, m)'
  BY <1>1, <1>2 DEF AtLookups, Keyed
<1>10. AtIndexes(t, m) => AtIndexes(t, m)'
  BY <1>1, <1>2 DEF AtIndexes
<1>11. AtDone(t, m) => AtDone(t, m)'
  BY <1>1, <1>2 DEF AtDone
<1>12. Lost(t, m) => Lost(t, m)'
  BY <1>1 DEF Lost, Cut
<1> QED
  BY <1>3, <1>4, <1>5, <1>6, <1>7, <1>8, <1>9, <1>10, <1>11, <1>12, Zenon DEF Following

LEMMA WarnStep == ASSUME WarnInv, [AuditNext]_auditVars PROVE WarnInv'
<1>1. CASE Decode
  <2>1. /\ phase = "read" /\ input' = input /\ UNCHANGED parserVars
        /\ \/ phase' \in {"failed", "decoder panicked"}
           \/ /\ phase' = "validate" /\ raw' = Serialize(tx) \o input.trailing
              /\ report' = decode_versioned_tx(tx, input.schema)
    BY <1>1, Zenon DEF Decode
  <2>2. Given' /\ AtStart' /\ input.call = "main" /\ phase' # "compare"
    <3>1. input.call \in {"main", "library"}
      BY InputMeans DEF WarnInv
    <3>2. input.call # "library" /\ AtStart
      BY <2>1 DEF WarnInv
    <3> QED BY <2>1, <3>1, <3>2 DEF WarnInv, Given, AtStart, parserVars
  <2>3. Handed'
    <3>1. CASE phase' \in {"failed", "decoder panicked"}
      BY <3>1 DEF Handed
    <3>2. CASE /\ phase' = "validate" /\ raw' = Serialize(tx) \o input.trailing
               /\ report' = decode_versioned_tx(tx, input.schema)
      BY <2>1, <2>2, <3>2 DEF Handed, Bytes, tx
    <3> QED BY <2>1, <3>1, <3>2
  <2> QED BY <2>1, <2>2, <2>3 DEF WarnInv
<1>2. CASE Validate
  <2>1. /\ phase = "validate" /\ input' = input /\ raw' = raw /\ report' = report /\ UNCHANGED parserVars
        /\ phase' \in {"validator panicked", "verify"}
    BY <1>2 DEF Validate
  <2>2. Given' /\ AtStart' /\ Handed' /\ input.call # "library" /\ phase' # "compare"
    BY <2>1 DEF WarnInv, Given, AtStart, parserVars, Handed, Bytes, tx
  <2> QED BY <2>1, <2>2 DEF WarnInv
<1>3. CASE VerifySignatures
  <2>1. /\ phase = "verify" /\ input' = input /\ raw' = raw /\ report' = report /\ UNCHANGED parserVars
        /\ phase' = "compare"
    BY <1>3 DEF VerifySignatures
  <2>2. Given' /\ AtStart' /\ Handed'
    BY <2>1 DEF WarnInv, Given, AtStart, parserVars, Handed, Bytes, tx
  <2>3. (\A m : Begins(Judged, m) => Following(Judged, m))' /\ (read_compact_u16(raw, 0) = {} => AtStart \/ Cut)'
    BY <2>2, Zenon DEF Following
  <2> QED BY <2>1, <2>2, <2>3, Zenon DEF WarnInv
<1>4. CASE Compare
  <2>1. /\ phase = "compare" /\ phase' = phase /\ input' = input /\ ParserNext /\ raw' = raw /\ report' = report
    BY <1>4, ParserKeepsReport DEF Compare
  <2>2. Given' /\ Handed'
    BY <2>1 DEF WarnInv, Given, Handed, Bytes, tx
  <2>3. PICK t : t = Judged
    OBVIOUS
  <2>4. Judged' = t
    BY <2>1, <2>3 DEF Judged, tx
  <2>5. Len(report.lookups) \in Nat
    <3>1. Compiled(tx) /\ report = decode_versioned_tx(tx, input.schema)
      BY <2>1, InputMeans DEF WarnInv, Handed
    <3> QED BY <3>1, ReportCounts
  <2>6. ASSUME NEW m, Begins(t, m)'
        PROVE  Following(t, m)'
    <3>1. Begins(t, m)
      BY <2>1, <2>6 DEF Begins
    <3>2. Following(t, m)
      BY <2>1, <2>3, <3>1, Zenon DEF WarnInv
    <3> QED BY <2>1, <2>5, <3>1, <3>2, FollowingStep
  <2>7. (read_compact_u16(raw, 0) = {})' => AtStart' \/ Cut'
    <3>1. SUFFICES ASSUME (read_compact_u16(raw, 0) = {})' PROVE AtStart' \/ Cut'
      OBVIOUS
    <3>2. read_compact_u16(raw, 0) = {}
      BY <2>1, <3>1
    <3>3. AtStart \/ Cut
      BY <2>1, <3>2, Zenon DEF WarnInv
    <3> QED BY <2>1, <3>2, <3>3, UncountedStep
  <2>8. \A m : Begins(Judged, m)' => Following(Judged, m)'
    BY <2>4, <2>6, Zenon
  <2> QED BY <2>1, <2>2, <2>7, <2>8, Zenon DEF WarnInv
<1>5. CASE UNCHANGED auditVars
  <2>1. /\ input' = input /\ phase' = phase /\ raw' = raw /\ report' = report /\ UNCHANGED parserVars
    BY <1>5 DEF auditVars
  <2>2. Given' /\ Handed' /\ (AtStart => AtStart') /\ (Cut => Cut')
    BY <2>1 DEF WarnInv, Given, Handed, Bytes, tx, AtStart, Cut, parserVars
  <2>3. PICK t : t = Judged
    OBVIOUS
  <2>4. Judged' = t
    BY <2>1, <2>3 DEF Judged, tx
  <2>5. ASSUME phase = "compare", NEW m, Begins(t, m)'
        PROVE  Following(t, m)'
    <3>1. Begins(t, m)
      BY <2>1, <2>5 DEF Begins
    <3>2. Following(t, m)
      BY <2>3, <2>5, <3>1, Zenon DEF WarnInv
    <3> QED BY <2>1, <3>2, FollowingKept
  <2>6. phase = "compare" => \A m : Begins(Judged, m)' => Following(Judged, m)'
    BY <2>4, <2>5, Zenon
  <2>7. (read_compact_u16(raw, 0) = {})' => read_compact_u16(raw, 0) = {}
    BY <2>1
  <2> QED BY <2>1, <2>2, <2>6, <2>7, Zenon DEF WarnInv
<1> QED BY <1>1, <1>2, <1>3, <1>4, <1>5 DEF AuditNext, Done

\* From the invariant, the warnings at the end.
LEMMA WarnLemma == ASSUME WarnInv PROVE DifferencesWarned
<1>1. SUFFICES ASSUME phase = "compare", section \in {"done", "error"}
               PROVE  /\ input.call = "main" => section = "done" /\ warnings = IndexWarnings(tx)
                      /\ input.call = "library" =>
                           (warnings = IndexWarnings(input.other) <=>
                              ~input.damaged /\ CountsOf(input.other) = CountsOf(tx))
  BY Zenon DEF WarnInv, DifferencesWarned, ParserAgrees, DisagreementWarned, Audited, Compared
<1> DEFINE t == Judged
<1>2. /\ Given /\ raw = Bytes /\ report = decode_versioned_tx(tx, input.schema)
      /\ \A m : Begins(t, m) => Following(t, m)
      /\ read_compact_u16(raw, 0) = {} => AtStart \/ Cut
  BY <1>1 DEF WarnInv, Handed
<1>3. /\ Compiled(tx) /\ Compiled(t) /\ input.damaged \in BOOLEAN
      /\ input.call = "main" => t = tx /\ ~Spoiled
      /\ input.call = "library" => t = input.other /\ (Spoiled <=> input.damaged)
  <2>1. Compiled(tx) /\ Compiled(input.other) /\ input.damaged \in BOOLEAN
    BY <1>2, InputsAssumption DEF Given, tx
  <2> QED BY <2>1 DEF Judged, Spoiled
<1>4. ~AtStart
  BY <1>1 DEF AtStart
<1> HIDE DEF t
<1>5. \/ Spoiled /\ warnings # IndexWarnings(t)
      \/ /\ ~Spoiled /\ section = "done"
         /\ warnings = IndexWarnings(t) <=> CountsOf(t) = CountsOf(tx)
  <2>1. CASE Spoiled /\ read_compact_u16(raw, 0) = {}
    BY <1>2, <1>4, <2>1, CutShows
  <2>2. CASE \E m : Begins(t, m) /\ (Spoiled <=> End(t, m) > Len(raw))
    <3>1. PICK m : Begins(t, m) /\ (Spoiled <=> End(t, m) > Len(raw))
      BY <2>2
    <3>2. Following(t, m)
      BY <1>2, <3>1
    <3>3. AtDone(t, m) \/ Lost(t, m)
      BY <1>1, <3>2 DEF Following, AtStart, AtHeader, AtKeys, AtCount, AtInstructions, AtTables, AtLookups, AtIndexes
    <3>4. CASE Lost(t, m)
      BY <3>1, <3>4, CutShows DEF Lost
    <3>5. CASE AtDone(t, m)
      <4>1. End(t, m) \in Nat /\ Len(raw) \in Nat /\ End(t, m) <= Len(raw) /\ section = "done"
        BY <3>1, <3>5, OrderedLemma, OrderedEnds, CompiledFits, U16Assumption DEF Begins, AtDone
      <4>2. ~Spoiled
        BY <3>1, <4>1
      <4>3. warnings = IndexWarnings(t) <=> CountsOf(t) = CountsOf(tx)
        BY <1>2, <1>3, <3>5, EndJudged
      <4> QED BY <4>1, <4>2, <4>3
    <3> QED BY <3>3, <3>4, <3>5
  <2> QED BY <1>2, <2>1, <2>2, BytesBegin DEF t
<1>6. input.call = "main" => section = "done" /\ warnings = IndexWarnings(tx)
  BY <1>3, <1>5
<1>7. input.call = "library" =>
        (warnings = IndexWarnings(input.other) <=> ~input.damaged /\ CountsOf(input.other) = CountsOf(tx))
  BY <1>3, <1>5
<1> QED BY <1>6, <1>7

\* The second parser warns where it must and only there, for transactions and bytes of
\* any length: after main has decoded an input, of the indexes no key stands behind and
\* of nothing else; called on its own, of bytes that are damaged or differ from the
\* report in a count it compares, and of nothing but such indexes where they differ in
\* no count. Bytes that differ only in a count it reads and does not compare are not in
\* the theorem: of those it says nothing.
THEOREM WarningsTheorem == AuditSpec => []DifferencesWarned
<1>1. AuditInit => WarnInv
  BY WarnInitHolds
<1>2. WarnInv /\ [AuditNext]_auditVars => WarnInv'
  BY WarnStep
<1>3. WarnInv => DifferencesWarned
  BY WarnLemma
<1> QED BY <1>1, <1>2, <1>3, PTL DEF AuditSpec
=============================================================================
