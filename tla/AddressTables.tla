---------------------------- MODULE AddressTables ----------------------------
(***************************************************************************)
(* The accounts a v0 transaction takes from address lookup tables, on the  *)
(* two ways they reach the report.                                         *)
(*                                                                         *)
(* decoder::decode_versioned_tx numbers them lookup by lookup, and         *)
(* simulator::resolve_address_lookup_tables fetches the tables and puts    *)
(* keys in place of the "<alt_index_N>" placeholders.  For a transaction   *)
(* that ran, inner_instructions::annotate_report takes the keys the        *)
(* runtime loaded from the metadata instead, in the runtime's order: the   *)
(* writable keys of all lookups, then the readonly ones.                   *)
(***************************************************************************)
EXTENDS Naturals, Sequences, SequencesExt, FiniteSets

CONSTANTS
  Tables,        \* addresses of lookup tables
  Contents,      \* per table, the keys appended to it over time, in order
  Lookups,       \* the address_table_lookups a message may have
  StaticLen,     \* the message's own account keys
  IndexRange,    \* indexes are u8: 256 in the code
  Placeholder,   \* "<alt_index_N>"
  OutOfRange     \* "unknown"

TableKeys == UNION {Range(Contents[t]) : t \in Tables}
TableLookup == [table : Tables, writable : Seq(Nat), readonly : Seq(Nat)]

ASSUME ContentsAssumption == Contents \in [Tables -> Seq(TableKeys)]
ASSUME LookupsAssumption == Lookups \subseteq Seq(TableLookup)
ASSUME IndexAssumption == StaticLen \in Nat /\ IndexRange \in Nat \ {0}
ASSUME KeyAssumption == Placeholder \notin TableKeys /\ OutOfRange \notin TableKeys

VARIABLES
  lookups,     \* the message's lookups
  length,      \* addresses each table has on chain now; 0 when it has none yet
  closed,      \* tables closed on chain
  loaded,      \* what the runtime loaded when the transaction ran; NotRun if it did not
  alts,        \* report.address_lookup_tables
  inner,       \* account index -> account of the inner instructions
  next,        \* the lookup resolve_address_lookup_tables is at
  cache,       \* its table cache
  flags,       \* the AltIntegrity flags it returns
  fetches      \* history: the tables asked for

chainVars == <<length, closed>>
vars == <<lookups, chainVars, loaded, alts, inner, next, cache, flags, fetches>>

NotRun == [writable |-> <<>>, readonly |-> <<>>, ran |-> FALSE]

-----------------------------------------------------------------------------
(* The chain: tables are append-only, may be closed, and were what they are  *)
(* now or shorter when the transaction ran.                                  *)

OnChain(t, n) == SubSeq(Contents[t], 1, n)

\* The keys the runtime loads, when every index is within its table.
Loads(part, len) ==
  FlattenSeq([k \in 1..Len(lookups) |->
    [j \in 1..Len(lookups[k][part]) |->
       OnChain(lookups[k].table, len[lookups[k].table])[lookups[k][part][j] + 1]]])

InBounds(len) ==
  \A k \in 1..Len(lookups) :
    \A i \in Range(lookups[k].writable) \cup Range(lookups[k].readonly) :
      i < len[lookups[k].table]

\* How many accounts the lookups before the k-th one take.
Before(k) ==
  FoldLeft(LAMBDA n, l : n + Len(l.writable) + Len(l.readonly), 0, SubSeq(lookups, 1, k - 1))

\* Every account of a transaction that runs has a number of its own; the runtime
\* locks fewer accounts than there are numbers.
Numberable == StaticLen + Before(Len(lookups) + 1) <= IndexRange

LoadedAt(len) == [writable |-> Loads("writable", len), readonly |-> Loads("readonly", len),
                  ran |-> TRUE]

Grow(t) ==
  /\ t \notin closed /\ length[t] < Len(Contents[t])
  /\ length' = [length EXCEPT ![t] = @ + 1]
  /\ UNCHANGED <<lookups, closed, loaded, alts, inner, next, cache, flags, fetches>>

Close(t) ==
  /\ t \notin closed
  /\ closed' = closed \cup {t}
  /\ UNCHANGED <<lookups, length, loaded, alts, inner, next, cache, flags, fetches>>

-----------------------------------------------------------------------------
(* decode_versioned_tx *)

\* global_idx as u8: alt_resolved_len runs on from table to table.
GlobalIndex(k, j) == (StaticLen + Before(k) + j - 1) % IndexRange

\* Mutant: a lookup's readonly accounts come first.
Order_ReadonlyFirst(l) ==
  [j \in 1..(Len(l.writable) + Len(l.readonly)) |->
     IF j <= Len(l.readonly) THEN <<l.readonly[j], FALSE>>
     ELSE <<l.writable[j - Len(l.readonly)], TRUE>>]

\* A lookup's accounts: its writable indexes, then its readonly ones.
Order(l) ==
  [j \in 1..(Len(l.writable) + Len(l.readonly)) |->
     IF j <= Len(l.writable) THEN <<l.writable[j], TRUE>>
     ELSE <<l.readonly[j - Len(l.writable)], FALSE>>]

DecodedAlts ==
  [k \in 1..Len(lookups) |->
     [table |-> lookups[k].table, resolved |-> FALSE,
      accounts |-> [j \in 1..Len(Order(lookups[k])) |->
         [index_in_tx |-> GlobalIndex(k, j), pubkey |-> Placeholder,
          is_writable |-> Order(lookups[k])[j][2],
          table_index |-> Order(lookups[k])[j][1]]]]]

-----------------------------------------------------------------------------
(* inner_instructions *)

\* full_key_list, past the static keys.
LoadedKeys == loaded.writable \o loaded.readonly

\* What an inner instruction's account index means to annotate_report, for an
\* index beyond the message's own keys.
InnerAccount(idx) ==
  [pubkey |-> IF idx < StaticLen + Len(LoadedKeys)
                THEN LoadedKeys[idx - StaticLen + 1] ELSE OutOfRange,
   is_writable |-> idx < StaticLen + Len(loaded.writable)]

\* annotate_report, for inner instructions that name any account; it runs before
\* the tables are resolved.
Annotate ==
  /\ loaded.ran /\ next = 1 /\ DOMAIN inner = {}
  /\ inner' = [idx \in StaticLen..(StaticLen + Len(LoadedKeys)) |-> InnerAccount(idx)]
  /\ UNCHANGED <<lookups, chainVars, loaded, alts, next, cache, flags, fetches>>

-----------------------------------------------------------------------------
(* resolve_address_lookup_tables *)

InnerAnnotated == loaded.ran => DOMAIN inner # {}
Resolving == InnerAnnotated /\ next <= Len(lookups)
Current == lookups[next].table

Resolve(account, addresses) ==
  IF account.table_index < Len(addresses)
    THEN [account EXCEPT !.pubkey = addresses[account.table_index + 1]]
    ELSE account

\* Keys for the placeholders, and a flag for each index beyond the table.
Apply(addresses) ==
  /\ alts' = [alts EXCEPT ![next] =
       [table |-> @.table, resolved |-> TRUE,
        accounts |-> [j \in 1..Len(@.accounts) |-> Resolve(@.accounts[j], addresses)]]]
  /\ flags' = flags \cup
       {[what |-> "out_of_bounds", table |-> Current, index |-> i] :
          i \in {alts[next].accounts[j].table_index : j \in 1..Len(alts[next].accounts)}
                  \ 0..(Len(addresses) - 1)}

UseCache ==
  /\ Resolving /\ Current \in DOMAIN cache
  /\ Apply(cache[Current])
  /\ next' = next + 1
  /\ UNCHANGED <<lookups, chainVars, loaded, inner, cache, fetches>>

Ask == /\ Resolving /\ Current \notin DOMAIN cache
       /\ fetches' = Append(fetches, Current)
       /\ next' = next + 1

\* Mutant: the answer is not cached.
Cached_Never(addresses) == cache

Cached(addresses) ==
  [t \in DOMAIN cache \cup {Current} |-> IF t = Current THEN addresses ELSE cache[t]]

Fetched ==
  LET addresses == OnChain(Current, length[Current])
  IN  /\ Ask /\ Current \notin closed
      /\ Apply(addresses)
      /\ cache' = Cached(addresses)
      /\ UNCHANGED <<lookups, chainVars, loaded, inner>>

\* Mutant: a missing table is skipped silently.
Skipped_Silently(reason) == {}

Skipped(reason) == {[what |-> reason, table |-> Current, index |-> 0]}

\* The table is gone, or the endpoint fails: a flag, and the placeholders stay.
NotFetched ==
  /\ Ask
  /\ \E reason \in {"rpc"} \cup (IF Current \in closed THEN {"not_found"} ELSE {}) :
       flags' = flags \cup Skipped(reason)
  /\ UNCHANGED <<lookups, chainVars, loaded, alts, inner, cache>>

Init ==
  /\ lookups \in Lookups
  /\ length \in [Tables -> 0..Max({Len(Contents[t]) : t \in Tables})]
  /\ \A t \in Tables : length[t] <= Len(Contents[t])
  /\ closed = {}
  /\ \/ loaded = NotRun
     \/ InBounds(length) /\ Numberable /\ loaded = LoadedAt(length)
  /\ alts = DecodedAlts
  /\ inner = <<>>
  /\ next = 1
  /\ cache = <<>>
  /\ flags = {}
  /\ fetches = <<>>

Next ==
  \/ \E t \in Tables : Grow(t) \/ Close(t)
  \/ Annotate
  \/ UseCache \/ Fetched \/ NotFetched

Spec == Init /\ [][Next]_vars

-----------------------------------------------------------------------------
(* Properties *)

TableAccounts == UNION {Range(alts[k].accounts) : k \in 1..Len(alts)}

\* The tables' accounts are numbered on from the static keys, each number once
\* (as long as all of them fit an index), whatever the lookups are.
IndexesTile ==
  LET n == Before(Len(lookups) + 1)
  IN  StaticLen + n <= IndexRange =>
        \A i \in StaticLen..(StaticLen + n - 1) :
          Cardinality({p \in (1..Len(alts)) \X (1..n) :
             /\ p[2] <= Len(alts[p[1]].accounts)
             /\ alts[p[1]].accounts[p[2]].index_in_tx = i}) = 1

\* An account number means the same key in the table dashboard and in the inner
\* instructions, unless a lookup with readonly indexes precedes one with
\* writable indexes: the decoder numbers lookup by lookup, the runtime all
\* writable accounts first.
AgreesUnlessSplit ==
  (\A k, m \in 1..Len(lookups) :
     k < m => lookups[k].readonly = <<>> \/ lookups[m].writable = <<>>) =>
    \A a \in TableAccounts :
      a.index_in_tx \in DOMAIN inner /\ a.pubkey # Placeholder =>
        /\ inner[a.index_in_tx].pubkey = a.pubkey
        /\ inner[a.index_in_tx].is_writable = a.is_writable

\* Account numbers mean one account each, and the same one everywhere.
AccountsNumbered == IndexesTile /\ AgreesUnlessSplit

\* After resolution a placeholder is left only with a flag that says why, and a
\* table is marked resolved exactly when every other account has its key.
PlaceholdersExplained ==
  \A k \in 1..(next - 1) : \A j \in 1..Len(alts[k].accounts) :
    LET a == alts[k].accounts[j]
    IN  a.pubkey = Placeholder =>
          \E f \in flags : /\ f.table = alts[k].table
                           /\ IF alts[k].resolved
                                THEN f.what = "out_of_bounds" /\ f.index = a.table_index
                                ELSE f.what \in {"not_found", "rpc"}

\* Two lookups of one table that are both resolved were resolved from one
\* snapshot of it, even when the table grew or was closed in between.
OneSnapshot ==
  \A k, m \in 1..(next - 1) :
    alts[k].table = alts[m].table /\ alts[k].resolved /\ alts[m].resolved =>
      \A i \in 1..Len(alts[k].accounts), j \in 1..Len(alts[m].accounts) :
        alts[k].accounts[i].table_index = alts[m].accounts[j].table_index =>
          alts[k].accounts[i].pubkey = alts[m].accounts[j].pubkey
=============================================================================
