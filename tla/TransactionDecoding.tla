------------------------- MODULE TransactionDecoding -------------------------
(***************************************************************************)
(* decoder::decode_versioned_tx: the report of a deserialized transaction, *)
(* and signature_verify's judgement of its signatures.  Keys are symbolic; *)
(* amounts of compute units are multiples of CuUnit.                       *)
(***************************************************************************)
EXTENDS InstructionData, Integers, Retain

CONSTANTS CuUnit       \* compute units one step of a scaled u32 stands for

ASSUME CuAssumption == CuUnit \in Nat \ {0}

DefaultLimit == 200000
saturating_sub(a, b) == IF a > b THEN a - b ELSE 0

\* as u8: what is left of the number of an account, an instruction or a signature.
u8(n) == n % (2 * Radix)

-----------------------------------------------------------------------------
(* Accounts: privileges from the header, by position. Indexes are 0-based. *)

\* Mutant: the readonly signers are taken to be the first ones.
IsWritable_Inverted(tx, i) ==
  \/ i >= tx.readonly_signed /\ i < tx.required
  \/ i >= tx.required /\ i < saturating_sub(Len(tx.keys), tx.readonly_unsigned)

IsSigner(tx, i) == i < tx.required

IsWritable(tx, i) ==
  \/ i < saturating_sub(tx.required, tx.readonly_signed)
  \/ i >= tx.required /\ i < saturating_sub(Len(tx.keys), tx.readonly_unsigned)

Role(tx, i) ==
  CASE i = 0 -> "fee_payer"
    [] i > 0 /\ IsSigner(tx, i) /\ IsWritable(tx, i) -> "signer+writable"
    [] i > 0 /\ IsSigner(tx, i) /\ ~IsWritable(tx, i) -> "signer"
    [] i > 0 /\ ~IsSigner(tx, i) /\ IsWritable(tx, i) -> "writable"
    [] OTHER -> "readonly"

Accounts(tx) ==
  [k \in 1..Len(tx.keys) |->
     [pubkey |-> tx.keys[k], is_signer |-> IsSigner(tx, k - 1),
      is_writable |-> IsWritable(tx, k - 1), role |-> Role(tx, k - 1)]]

\* An instruction's account: one of a lookup table is not among the keys yet.
Mapped(tx, idx) ==
  IF idx < Len(tx.keys)
    THEN [name |-> Unnamed, pubkey |-> tx.keys[idx + 1], account_index |-> idx,
          is_signer |-> IsSigner(tx, idx), is_writable |-> IsWritable(tx, idx)]
    ELSE [name |-> Unnamed, pubkey |-> NoKey, account_index |-> idx,
          is_signer |-> FALSE, is_writable |-> FALSE]

ProgramOf(tx, ix) == IF ix.program < Len(tx.keys) THEN tx.keys[ix.program + 1] ELSE NoKey

Decoded(tx, ix, schema) ==
  LET d == decode_instruction_data(ProgramOf(tx, ix), ix.data, schema)
  IN  [program_id |-> ProgramOf(tx, ix), name |-> d.name, panics |-> d.panics, data |-> ix.data,
       accounts |-> [j \in 1..Len(ix.accounts) |-> Mapped(tx, ix.accounts[j])]]

-----------------------------------------------------------------------------
(* Names of accounts: the known programs' roles first, then the schema's for *)
(* accounts that have none. Both look the instruction up by its name.        *)

SystemRoles ==
  [CreateAccount |-> <<"funding", "new_account">>,
   CreateAccountAllowPrefund |-> <<"funding", "new_account">>,
   Assign |-> <<"account">>, Allocate |-> <<"account">>, Transfer |-> <<"from", "to">>,
   CreateAccountWithSeed |-> <<"funding", "created", "base">>,
   AdvanceNonceAccount |-> <<"nonce_account", "authorized">>,
   AuthorizeNonceAccount |-> <<"nonce_account", "authorized">>,
   UpgradeNonceAccount |-> <<"nonce_account", "authorized">>,
   WithdrawNonceAccount |-> <<"nonce_account", "authorized", "to">>,
   InitializeNonceAccount |-> <<"nonce_account", "authorized", "rent_sysvar">>,
   AllocateWithSeed |-> <<"account", "base">>, AssignWithSeed |-> <<"account", "base">>,
   TransferWithSeed |-> <<"from", "from_base", "to">>]

\* The System Program's table; those of the token programs have the same form.
KnownRole(ix, position) ==
  IF ix.program_id = SystemProgram /\ ix.name \in DOMAIN SystemRoles
       /\ position <= Len(SystemRoles[ix.name])
    THEN SystemRoles[ix.name][position] ELSE Unnamed

\* find_instruction: the first declaration of this name, for any program.
Declaration(ix, schema) ==
  IF schema.kind = "none" \/ ix.name = Unnamed THEN {}
  ELSE LET same == {i \in 1..Len(schema.instructions) : schema.instructions[i].name = ix.name}
       IN  {schema.instructions[i] : i \in {j \in same : \A k \in same : j <= k}}

\* The declared accounts of an instruction, with their positions in it; an IDL
\* declares them in order, expectations with an index.
Declared(ix, schema) ==
  UNION {{[position |-> IF schema.kind = "native" THEN d.accounts[a].index + 1 ELSE a,
           rank |-> a, account |-> d.accounts[a]] : a \in 1..Len(d.accounts)} : d \in Declaration(ix, schema)}

Name(ix, position, schema) ==
  LET named == {d.account.name : d \in {e \in Declared(ix, schema) : e.position = position}}
  IN  IF KnownRole(ix, position) # Unnamed THEN KnownRole(ix, position)
      ELSE IF named = {} THEN Unnamed ELSE CHOOSE n \in named : TRUE

Annotated(ix, schema) ==
  [ix EXCEPT !.accounts = [j \in 1..Len(ix.accounts) |->
     [ix.accounts[j] EXCEPT !.name = Name(ix, j, schema)]]]

-----------------------------------------------------------------------------
(* The compute budget. *)

IsBudget(tx, i) == ProgramOf(tx, tx.instructions[i]) = ComputeBudgetProgram

\* parse_compute_budget: the limit one instruction sets, 0 for none. The price has
\* no part in a flag and is left out.
LimitOf(data) ==
  IF data # <<>> /\ data[1] \in {0, 2} /\ Len(data) >= 1 + U32Len
    THEN CuUnit * LittleEndian(data, 1, U32Len) ELSE 0

\* What each instruction sets; 0 sets nothing.
Limits(tx) ==
  [i \in 1..Len(tx.instructions) |->
     IF IsBudget(tx, i) THEN LimitOf(tx.instructions[i].data) ELSE 0]

\* The value the last one sets, or the default.
LastSet(values, default) == FoldLeft(LAMBDA v, n : IF n > 0 THEN n ELSE v, default, values)

estimate_cu_cost(ix) ==
  LET p == program_name(ix.program_id)
      costs == CASE p = "System Program" ->
                      <<{"CreateAccount", "CreateAccountWithSeed"}, 15000, {"Allocate", "AllocateWithSeed"},
                        3000, {"Assign", "AssignWithSeed", "Transfer"}, 1000, 2000>>
                 [] p \in {"Token Program", "Token-2022 Program"} ->
                      <<{"ConfidentialTransfer"}, 25000, {"InitializeTransferFeeConfig"}, 15000,
                        {"Transfer", "TransferChecked", "MintTo", "MintToChecked", "Burn", "BurnChecked",
                         "CloseAccount", "Approve", "ApproveChecked", "SetAuthority", "FreezeAccount",
                         "ThawAccount"}, 3000, 5000>>
                 [] p = "Associated Token Program" ->
                      <<{"Create", "CreateIdempotent"}, 15000, {}, 0, {}, 0, 5000>>
                 [] p = "Compute Budget" -> <<{}, 0, {}, 0, {}, 0, 0>>
                 [] OTHER -> <<{}, 0, {}, 0, {}, 0, 5000>>
  IN  CASE ix.name \in costs[1] -> costs[2]
        [] ix.name \in costs[3] -> costs[4]
        [] ix.name \in costs[5] -> costs[6]
        [] OTHER -> costs[7]

high_cu_threshold(limit) ==
  IF limit \div 5 < 5000 THEN 5000 ELSE IF limit \div 5 > 10000 THEN 10000 ELSE limit \div 5

\* Mutant: any gap between two positions is a reordering.
Reordered_Gap(positions) == \E i \in 2..Len(positions) : positions[i] # positions[i - 1] + 1

\* cb_positions is not the prefix 0, 1, ..
Reordered(positions) == \E i \in 1..Len(positions) : positions[i] # i - 1

Positions(tx) ==
  LET all == 1..Len(tx.instructions)
      budget == Without([i \in all |-> i], {i \in all : ~IsBudget(tx, i)})
  IN  [k \in 1..Len(budget) |-> budget[k] - 1]

NoBudget == [present |-> FALSE, limit |-> DefaultLimit, limit_set |-> FALSE, positions |-> <<>>,
             is_reordered |-> FALSE, high_cu |-> {}]

ComputeBudget(tx, instructions) ==
  LET limit == LastSet(Limits(tx), DefaultLimit)
  IN  IF Positions(tx) = <<>> THEN NoBudget
      ELSE [present |-> TRUE, limit |-> limit,
            limit_set |-> LastSet(Limits(tx), 0) > 0,
            positions |-> Positions(tx), is_reordered |-> Reordered(Positions(tx)),
            high_cu |-> {u8(i - 1) : i \in {j \in 1..Len(instructions) :
                           estimate_cu_cost(instructions[j]) >= high_cu_threshold(limit)}}]

DecodedInstructions(tx, schema) ==
  [i \in 1..Len(tx.instructions) |->
     Annotated(Decoded(tx, tx.instructions[i], schema), schema)]

decode_versioned_tx(tx, schema) ==
  LET instructions == DecodedInstructions(tx, schema)
  IN  [fee_payer |-> IF tx.keys = <<>> THEN NoKey ELSE tx.keys[1],
       signatures |-> Len(tx.signatures), v0 |-> tx.v0, accounts |-> Accounts(tx),
       instructions |-> instructions,
       lookups |-> IF tx.v0 THEN [k \in 1..Len(tx.lookups) |->
                     Len(tx.lookups[k].writable) + Len(tx.lookups[k].readonly)] ELSE <<>>,
       compute_budget |-> ComputeBudget(tx, instructions)]

Panics(tx, schema) == \E i \in 1..Len(tx.instructions) : Decoded(tx, tx.instructions[i], schema).panics

-----------------------------------------------------------------------------
(* Signatures: "valid", "invalid" or "zeroed" under the key at their index. *)

\* Mutant: only the signatures that are there are looked at.
verify_transaction_Present(tx) ==
  [k \in 1..Len(tx.signatures) |->
     [index |-> u8(k - 1), pubkey |-> IF k <= Len(tx.keys) THEN tx.keys[k] ELSE NoKey,
      verified |-> k <= tx.required /\ k <= Len(tx.keys) /\ tx.signatures[k] = "valid"]]

\* One check per required signature, and one per signature that is not required.
verify_transaction(tx) ==
  LET count == IF tx.required > Len(tx.signatures) THEN tx.required ELSE Len(tx.signatures)
  IN  [k \in 1..count |->
         [index |-> u8(k - 1), pubkey |-> IF k <= Len(tx.keys) THEN tx.keys[k] ELSE NoKey,
          verified |-> /\ k <= tx.required /\ k <= Len(tx.signatures) /\ k <= Len(tx.keys)
                       /\ tx.signatures[k] = "valid"]]

verify_report(checks, fee_payer) ==
  {[severity |-> IF c.index = 0 \/ (fee_payer # NoKey /\ c.pubkey = fee_payer)
                   THEN "Critical" ELSE "Warning",
    category |-> "SignatureMismatch", instruction |-> -1, subject |-> <<c.index>>] :
     c \in {checks[k] : k \in {j \in 1..Len(checks) : ~checks[j].verified}}}
=============================================================================
