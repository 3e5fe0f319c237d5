--------------------------- MODULE InstructionData ---------------------------
(***************************************************************************)
(* instruction_decoder: which name an instruction's data has.  Field       *)
(* widths are scaled (u32, u64 and an 8-byte discriminator have U32Len,    *)
(* U64Len and DiscLen bytes); field values are left out, the slices taken  *)
(* for them are not, because a slice past the end panics.                  *)
(***************************************************************************)
EXTENDS WireFormat

CONSTANTS U32Len, U64Len, DiscLen,
          Discriminator    \* compute_anchor_discriminator, per name

ASSUME WidthAssumption == {U32Len, U64Len, DiscLen} \subseteq Nat \ {0}

Unnamed == ""
NoKey == <<"unknown">>
SystemProgram == <<"key", "System Program">>
TokenProgram == <<"key", "Token Program">>
Token2022Program == <<"key", "Token-2022 Program">>
AssociatedTokenProgram == <<"key", "Associated Token Program">>
ComputeBudgetProgram == <<"key", "Compute Budget">>
LookupTableProgram == <<"key", "Address Lookup Table">>
KnownPrograms == {SystemProgram, TokenProgram, Token2022Program, AssociatedTokenProgram,
                  ComputeBudgetProgram, LookupTableProgram}

program_name(p) == IF p \in KnownPrograms THEN p[2] ELSE "Unknown Program"

\* from_le_bytes of n bytes after the first `at` ones.
LittleEndian(data, at, n) ==
  FoldLeft(LAMBDA high, b : b + 2 * Radix * high, 0, Reverse(SubSeq(data, at + 1, at + n)))

Named(name, panics) == [name |-> name, panics |-> panics]
Layout(name, min) == [name |-> name, min |-> min]

-----------------------------------------------------------------------------
(* The System Program: a u32 tag, then the arm's fields. *)

SystemLayouts ==
  LET transfer == U32Len + U64Len
      key == U32Len + KeyLen
      create == U32Len + 2 * U64Len + KeyLen
  IN << Layout("CreateAccount", create), Layout("Assign", key), Layout("Transfer", transfer),
        Layout("CreateAccountWithSeed", U32Len), Layout("AdvanceNonceAccount", U32Len),
        Layout("WithdrawNonceAccount", transfer), Layout("InitializeNonceAccount", key),
        Layout("AuthorizeNonceAccount", key), Layout("Allocate", transfer),
        Layout("AllocateWithSeed", U32Len), Layout("AssignWithSeed", U32Len),
        Layout("TransferWithSeed", U32Len), Layout("UpgradeNonceAccount", U32Len),
        Layout("CreateAccountAllowPrefund", create) >>

\* Where the last slice of an arm with a seed ends: its guards compare the
\* length with the end of an earlier field.
SystemReach(tag, data) ==
  LET base == U32Len + KeyLen
      seed_end(at) == at + U64Len + LittleEndian(data, at, U64Len)
      within(end) == Len(data) >= end
  IN  CASE tag = 3 /\ Len(data) > base + KeyLen -> base + 2 * U64Len + KeyLen
        [] tag = 9 /\ within(base + U64Len) /\ within(seed_end(base) + U64Len) ->
             seed_end(base) + U64Len + KeyLen
        [] tag = 10 /\ within(base + U64Len) /\ within(seed_end(base)) ->
             seed_end(base) + KeyLen
        [] tag = 11 /\ within(U32Len + 2 * U64Len) /\ within(seed_end(U32Len + U64Len)) ->
             seed_end(U32Len + U64Len) + KeyLen
        [] OTHER -> 0

decode_system_instruction(data) ==
  LET tag == LittleEndian(data, 0, U32Len)
  IN  IF Len(data) >= U32Len /\ tag < Len(SystemLayouts) /\ Len(data) >= SystemLayouts[tag + 1].min
        THEN Named(SystemLayouts[tag + 1].name, SystemReach(tag, data) > Len(data))
        ELSE Named(Unnamed, FALSE)

-----------------------------------------------------------------------------
(* The token programs: a one-byte tag; mins count the payload after it. *)

TokenLayouts ==
  << Layout("InitializeMint", 0), Layout("InitializeAccount", 0), Layout("InitializeMultisig", 0),
     Layout("Transfer", U64Len), Layout("Approve", U64Len), Layout("Revoke", 0),
     Layout("SetAuthority", 0), Layout("MintTo", U64Len), Layout("Burn", U64Len),
     Layout("CloseAccount", 0), Layout("FreezeAccount", 0), Layout("ThawAccount", 0),
     Layout("TransferChecked", U64Len + 1), Layout("ApproveChecked", U64Len + 1),
     Layout("MintToChecked", U64Len + 1), Layout("BurnChecked", U64Len + 1),
     Layout("InitializeAccount2", KeyLen), Layout("SyncNative", 0),
     Layout("InitializeAccount3", KeyLen), Layout("InitializeMultisig2", 0) >>

\* Tags 20 to 44, of Token-2022 only. A group of extension instructions goes by
\* its first name unless a second tag says more.
Token2022Layouts ==
  << Layout("InitializeMint2", 0), Layout("GetAccountDataSize", 0),
     Layout("InitializeImmutableOwner", 0), Layout("AmountToUiAmount", U64Len),
     Layout("UiAmountToAmount", 0), Layout("InitializeMintCloseAuthority", 0),
     Layout("TransferFeeExtension", 0), Layout("ConfidentialTransferExtension", 0),
     Layout("DefaultAccountStateExtension", 0), Layout("Reallocate", 0),
     Layout("MemoTransferExtension", 0), Layout("CreateNativeMint", 0),
     Layout("InitializeNonTransferableMint", 0), Layout("InterestBearingMintExtension", 0),
     Layout("CpiGuardExtension", 0), Layout("InitializePermanentDelegate", 0),
     Layout("TransferHookExtension", 0), Layout("ConfidentialTransferFeeExtension", 0),
     Layout("WithdrawExcessLamports", 0), Layout("MetadataPointerExtension", 0),
     Layout("GroupPointerExtension", 0), Layout("GroupMemberPointerExtension", 0),
     Layout("ConfidentialMintBurnExtension", 0), Layout("ScaledUiAmountExtension", 0),
     Layout("PausableExtension", 0) >>

\* Per group, the names its second tag selects, with the payload they need.
ExtensionLayouts ==
  LET pointer(what) == << Layout("Initialize" \o what \o "Pointer", 1),
                          Layout("Update" \o what \o "Pointer", 1) >>
  IN [TransferFeeExtension |->
        << Layout("InitializeTransferFeeConfig", 1), Layout("TransferCheckedWithFee", 1 + U64Len),
           Layout("WithdrawWithheldTokensFromMint", 1),
           Layout("WithdrawWithheldTokensFromAccounts", 1),
           Layout("HarvestWithheldTokensToMint", 1) >>,
      ConfidentialTransferExtension |->
        << Layout("InitializeConfidentialTransferMint", 1),
           Layout("UpdateConfidentialTransferMint", 1),
           Layout("ConfigureConfidentialTransferAccount", 1),
           Layout("ApproveConfidentialTransferAccount", 1),
           Layout("EmptyConfidentialTransferAccount", 1), Layout("Deposit", 1),
           Layout("Withdraw", 1), Layout("Transfer", 1), Layout("ApplyPendingBalance", 1),
           Layout("EnableConfidentialTransfer", 1), Layout("DisableConfidentialTransfer", 1) >>,
      InterestBearingMintExtension |->
        << Layout("InitializeInterestBearingMint", 3), Layout("UpdateInterestBearingMintRate", 3) >>,
      CpiGuardExtension |-> << Layout("EnableCpiGuard", 1), Layout("DisableCpiGuard", 1) >>,
      TransferHookExtension |->
        << Layout("InitializeTransferHook", 1 + 2 * KeyLen), Layout("UpdateTransferHook", 1 + KeyLen) >>,
      MetadataPointerExtension |-> pointer("Metadata"),
      GroupPointerExtension |-> pointer("Group"),
      GroupMemberPointerExtension |-> pointer("GroupMember"),
      PausableExtension |-> << Layout("Pause", 1), Layout("Resume", 1) >>]

\* The layout a tag selects, if there is one and the payload is long enough.
Selected(layouts, tag, payload) ==
  {layouts[i].name : i \in {j \in 1..Len(layouts) : j = tag + 1 /\ layouts[j].min <= Len(payload)}}

ExtensionName(group, payload) ==
  LET named == IF group \in DOMAIN ExtensionLayouts /\ payload # <<>>
                 THEN Selected(ExtensionLayouts[group], payload[1], payload) ELSE {}
  IN  IF named = {} THEN group ELSE CHOOSE n \in named : TRUE

decode_token_instruction(data, program) ==
  LET payload == Tail(data)
      is_token22 == program = Token2022Program
      all == IF is_token22 THEN TokenLayouts \o Token2022Layouts ELSE TokenLayouts
      named == Selected(all, data[1], payload)
      name == CHOOSE n \in named : TRUE
  IN  IF named = {} THEN Named(Unnamed, FALSE)
      ELSE IF name = "InitializeMint" /\ is_token22 THEN Named("InitializeMint2", FALSE)
      ELSE Named(ExtensionName(name, payload), FALSE)

decode_associated_token_instruction(data) ==
  Named(IF data[1] < 3 THEN <<"Create", "CreateIdempotent", "RecoverNested">>[data[1] + 1]
        ELSE Unnamed, FALSE)

ComputeBudgetLayouts ==
  << Layout("RequestUnits", 1 + 2 * U32Len), Layout("RequestHeapFrame", 1 + U32Len),
     Layout("SetComputeUnitLimit", 1 + U32Len), Layout("SetComputeUnitPrice", 1 + U64Len),
     Layout("SetLoadedAccountsDataSizeLimit", 1 + U32Len) >>

decode_compute_budget_instruction(data) ==
  LET named == Selected(ComputeBudgetLayouts, data[1], data)
  IN  Named(IF named = {} THEN Unnamed ELSE CHOOSE n \in named : TRUE, FALSE)

-----------------------------------------------------------------------------
(* Other programs: the schema's discriminators. *)

StartsWith(data, prefix) ==
  Len(data) >= Len(prefix) /\ SubSeq(data, 1, Len(prefix)) = prefix

\* The first instruction of the IDL with this discriminator, whatever the program.
IdlMatches(data, idl) ==
  {i \in 1..Len(idl.instructions) :
     Len(data) >= DiscLen /\ StartsWith(data, Discriminator[idl.instructions[i].name])}

\* Mutant: the first declaration that matches wins, however short.
match_expectation_First(program, data, exp) ==
  LET match == {i \in 1..Len(exp.instructions) :
                  LET d == exp.instructions[i].discriminator
                  IN  Len(d) \in {1, DiscLen} /\ StartsWith(data, d)}
  IN  IF exp.program_id \in {NoKey, program}
        THEN {i \in match : \A j \in match : i <= j} ELSE {}

\* The matching declaration with the longest discriminator, the first of equals,
\* kept while the document is read. Discriminators of other lengths are skipped.
match_expectation(program, data, exp) ==
  LET disc(i) == exp.instructions[i].discriminator
      Better(best, i) ==
        IF /\ Len(disc(i)) \in {1, DiscLen} /\ StartsWith(data, disc(i))
           /\ \A b \in best : Len(disc(i)) > Len(disc(b))
          THEN {i} ELSE best
  IN  IF exp.program_id \in {NoKey, program}
        THEN FoldLeft(Better, {}, [i \in 1..Len(exp.instructions) |-> i]) ELSE {}

SchemaMatches(program, data, schema) ==
  CASE schema.kind = "none" -> {}
    [] schema.kind = "idl" ->
         {i \in IdlMatches(data, schema) : \A j \in IdlMatches(data, schema) : i <= j}
    [] schema.kind = "native" -> match_expectation(program, data, schema)

decode_instruction_data(program, data, schema) ==
  CASE data = <<>> -> Named(Unnamed, FALSE)
    [] data # <<>> /\ program = SystemProgram -> decode_system_instruction(data)
    [] data # <<>> /\ program \in {TokenProgram, Token2022Program} ->
         decode_token_instruction(data, program)
    [] data # <<>> /\ program = AssociatedTokenProgram -> decode_associated_token_instruction(data)
    [] data # <<>> /\ program = ComputeBudgetProgram -> decode_compute_budget_instruction(data)
    [] OTHER ->
         LET match == SchemaMatches(program, data, schema)
         IN  Named(IF match = {} THEN Unnamed
                   ELSE schema.instructions[CHOOSE i \in match : TRUE].name, FALSE)
=============================================================================
