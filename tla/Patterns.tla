------------------------------ MODULE Patterns ------------------------------
(***************************************************************************)
(* patterns.rs against the execution it describes.  The token and system   *)
(* programs (external) execute a transaction on a small ledger; the report *)
(* lists its instructions, the top-level ones first and then the inner     *)
(* ones, if the transaction's meta data was fetched; the five rules read   *)
(* that list, names and account roles only.                                *)
(***************************************************************************)
EXTENDS Integers, FiniteSetsExt, Retain

CONSTANTS
    Accounts,           \* token accounts
    Mints,              \* mints
    MintOf,             \* [Accounts -> Mints]
    Keys,               \* wallets, program addresses and multisigs
    Owner,              \* [Accounts -> Keys]
    MintAuthority,      \* [Mints -> Keys], before the transaction
    Signers,            \* the keys that sign the transaction
    Multisigs,          \* the keys that are multisig accounts
    Appointees,         \* bound: the keys made delegates and mint authorities
    FeePayer,           \* the transaction's first signer
    Derived,            \* an address derived from a base key and a seed
    None,
    MaxTopLevel, MaxInstructions    \* bounds: top-level instructions; named ones

ASSUME PatternsAssumption ==
    /\ MintOf \in [Accounts -> Mints] /\ Owner \in [Accounts -> Keys]
    /\ MintAuthority \in [Mints -> Keys]
    /\ Signers \subseteq Keys /\ Multisigs \subseteq Keys
    /\ Appointees \subseteq Keys /\ Signers \cap Multisigs = {} /\ FeePayer \in Signers
    /\ None \notin Accounts \cup Keys \cup {Derived} /\ Derived \notin Signers
    /\ MaxTopLevel \in Nat /\ MaxInstructions \in Nat

VARIABLES
    top,        \* index of the top-level instruction that runs
    sub,        \* inner instructions it has made so far
    cpi,        \* whether it can make inner instructions
    executed,   \* the instructions named by the decoder, in execution order
    delegate,   \* of each token account: whom, and by which instruction
    minter,     \* of each mint: the mint authority, and by which instruction
    spends,     \* an approval, and a transfer made on the strength of it
    takeovers,  \* a change of mint authority, and a mint made thanks to it
    reported,   \* whether the transaction is over and the rules have run
    listed,     \* the report's instructions
    flags

ledger == <<delegate, minter, spends, takeovers>>
patternsVars == <<top, sub, cpi, executed, ledger, reported, listed, flags>>

-----------------------------------------------------------------------------
(* The programs.  An instruction is what the report shows of it (where it  *)
(* ran, program, name, accounts, authority_type, new_authority) and what   *)
(* it really does: who authorised it, and whom it pays.                    *)

NoData == [type |-> -1, new |-> None]
Before == [inner |-> FALSE, index |-> -1, sub |-> 0]     \* before the transaction

Ix(program, name, accounts, data, auth, pays) ==
    [at |-> Before, program |-> program, name |-> name, accounts |-> accounts,
     data |-> data, auth |-> auth, pays |-> pays]

Approvals ==
    {Ix("token", "Approve", <<a, k, Owner[a]>>, NoData, Owner[a], None)
        : a \in Accounts, k \in Appointees}
    \cup {Ix("token", "ApproveChecked", <<a, MintOf[a], k, Owner[a]>>, NoData, Owner[a], None)
        : a \in Accounts, k \in Appointees}

Revocations == {Ix("token", "Revoke", <<a, Owner[a]>>, NoData, Owner[a], None) : a \in Accounts}

Spenders(a) == {Owner[a], delegate[a].key} \ {None}

Receivers(a) == {b \in Accounts \ {a} : MintOf[b] = MintOf[a]}

Transfers ==
    UNION {UNION {{Ix("token", "Transfer", <<a, b, k>>, NoData, k, b),
                   Ix("token", "TransferChecked", <<a, MintOf[a], b, k>>, NoData, k, b)}
            : b \in Receivers(a), k \in Spenders(a)} : a \in Accounts}

Minting ==
    {Ix("token", n, <<MintOf[a], a, minter[MintOf[a]].key>>, NoData, minter[MintOf[a]].key, a)
        : n \in {"MintTo", "MintToChecked"}, a \in Accounts}

\* authority_type 0 is the mint authority, 1 the freeze authority (which the
\* ledger does not follow; who holds it is left open).
Reassignments ==
    {Ix("token", "SetAuthority", <<m, minter[m].key>>, [type |-> 0, new |-> k],
        minter[m].key, None) : m \in Mints, k \in Appointees}
    \cup {Ix("token", "SetAuthority", <<m, MintAuthority[m]>>, [type |-> 1, new |-> k],
        MintAuthority[m], None) : m \in Mints, k \in Appointees}

Payments ==
    {Ix("system", "Transfer", <<k, FeePayer>>, NoData, k, FeePayer) : k \in Signers}
    \cup {Ix("system", "TransferWithSeed", <<Derived, k, FeePayer>>, NoData, k, FeePayer)
        : k \in Signers}
    \cup {Ix("system", "WithdrawNonceAccount", <<Derived, k, FeePayer>>, NoData, k, FeePayer)
        : k \in Signers}

Instructions ==
    Approvals \cup Revocations \cup Transfers \cup Minting \cup Reassignments \cup Payments

\* What instruction ix, known as id, does to the ledger.  A delegate's authority is looked
\* at before the owner's.
Apply(ix, id) ==
    LET a == ix.accounts[1]
        by == IF ix.name \in {"Transfer", "TransferChecked"} /\ ix.program = "token"
              THEN IF delegate[a].key = ix.auth THEN delegate[a].by ELSE Before
              ELSE Before
        of == IF ix.name \in {"MintTo", "MintToChecked"} THEN minter[a].by ELSE Before
    IN /\ spends' = spends \cup {[approval |-> b, transfer |-> id] : b \in {by} \ {Before}}
       /\ takeovers' = takeovers \cup {[appointment |-> b, mint |-> id] : b \in {of} \ {Before}}
       /\ delegate' = CASE ix.name = "Approve" -> [delegate EXCEPT ![a] = [key |-> ix.accounts[2], by |-> id]]
                        [] ix.name = "ApproveChecked" -> [delegate EXCEPT ![a] = [key |-> ix.accounts[3], by |-> id]]
                        [] ix.name = "Revoke" -> [delegate EXCEPT ![a] = [key |-> None, by |-> Before]]
                        [] OTHER -> delegate
       /\ minter' = IF ix.name = "SetAuthority" /\ ix.data.type = 0
                    THEN [minter EXCEPT ![a] = [key |-> ix.data.new, by |-> id]]
                    ELSE minter

Run(ix, id) ==
    /\ ~reported /\ Len(executed) < MaxInstructions
    /\ executed' = Append(executed, [ix EXCEPT !.at = id])
    /\ Apply(ix, id)
    /\ UNCHANGED <<reported, listed, flags>>

TopLevel(ix) ==
    /\ top + 1 < MaxTopLevel
    /\ ix.auth \in Signers \cup Multisigs
    /\ Run(ix, [inner |-> FALSE, index |-> top + 1, sub |-> 0])
    /\ top' = top + 1 /\ sub' = 0
    /\ cpi' = (ix.name = "TransferChecked")

Inner(ix) ==
    /\ cpi
    /\ Run(ix, [inner |-> TRUE, index |-> top, sub |-> sub])
    /\ sub' = sub + 1
    /\ UNCHANGED <<top, cpi>>

CallProgram ==
    /\ ~reported /\ top + 1 < MaxTopLevel
    /\ top' = top + 1 /\ sub' = 0 /\ cpi' = TRUE
    /\ UNCHANGED <<executed, ledger, reported, listed, flags>>
-----------------------------------------------------------------------------
(* What the report knows of an instruction. *)

\* annotate_known_program_roles and annotate_inner_instruction_roles
system_program_role ==
    [Transfer |-> <<"from", "to">>,
     TransferWithSeed |-> <<"from", "from_base", "to">>,
     WithdrawNonceAccount |-> <<"nonce_account", "authorized", "to">>]

token_program_role ==
    [Transfer |-> <<"source", "destination", "authority">>,
     TransferChecked |-> <<"source", "mint", "destination", "authority">>,
     Approve |-> <<"source", "delegate", "owner">>,
     ApproveChecked |-> <<"source", "mint", "delegate", "owner">>,
     Revoke |-> <<"source", "owner">>,
     SetAuthority |-> <<"account", "current_authority">>,
     MintTo |-> <<"mint", "to", "authority">>,
     MintToChecked |-> <<"mint", "to", "authority">>]

Roles(ix) == IF ix.program = "token" THEN token_program_role[ix.name]
                                     ELSE system_program_role[ix.name]

\* Positions count from 0, as in the source.
role_account(ix, role, fallback) ==
    LET named == {p \in DOMAIN ix.accounts \cap DOMAIN Roles(ix) : Roles(ix)[p] = role}
    IN IF named # {} THEN ix.accounts[Min(named)]
       ELSE IF fallback < Len(ix.accounts) THEN ix.accounts[fallback + 1] ELSE None

is_token(ix, names) == ix.program = "token" /\ ix.name \in names

same_lineage(a, b) ==
    \/ ~a.inner /\ ~b.inner
    \/ (a.inner \/ b.inner) /\ a.index = b.index

\* Mutant: the inner index is left out of the key.
execution_key_NoSub(id) == IF id.inner THEN <<id.index * 2 + 1, 0>> ELSE <<id.index * 2, 0>>

execution_key(id) == IF id.inner THEN <<id.index * 2 + 1, id.sub>> ELSE <<id.index * 2, 0>>

Precedes(k, l) == k[1] < l[1] \/ (k[1] = l[1] /\ k[2] < l[2])

Flag(rule, id, about) == [rule |-> rule, index |-> id.index, about |-> about]

-----------------------------------------------------------------------------
(* The rules, over the list l of the report's instructions. *)

approved(ix) == role_account(ix, "delegate", IF ix.name = "Approve" THEN 1 ELSE 2)

ApproveThenTransfer(approve, transfer) ==
    /\ is_token(approve, {"Approve", "ApproveChecked"})
    /\ same_lineage(approve.at, transfer.at)
    /\ Precedes(execution_key(approve.at), execution_key(transfer.at))
    /\ is_token(transfer, {"Transfer", "TransferChecked"})
    /\ role_account(transfer, "authority", 0) = approved(approve)

\* A transfer is flagged once, with the first approval that fits it.
approve_then_transfer(l) ==
    {Flag("approve_then_transfer", l[t].at,
          <<l[Min({a \in DOMAIN l : ApproveThenTransfer(l[a], l[t])})].at, l[t].at>>)
        : t \in {t \in DOMAIN l : \E a \in DOMAIN l : ApproveThenTransfer(l[a], l[t])}}

\* Mutant: no arm for TransferChecked.
authority_Unchecked(ix) ==
    CASE is_token(ix, {"Transfer"}) -> role_account(ix, "authority", 2)
      [] ix.program = "system" /\ ix.name = "TransferWithSeed" -> role_account(ix, "from", 0)
      [] OTHER -> None

\* The account whose signature is looked for.
authority(ix) ==
    CASE is_token(ix, {"Transfer"}) -> role_account(ix, "authority", 2)
      [] is_token(ix, {"TransferChecked"}) -> role_account(ix, "authority", 3)
      [] ix.program = "system" /\ ix.name = "TransferWithSeed" -> role_account(ix, "from", 0)
      [] OTHER -> None

nonsigner_transfer_authority(l) ==
    {Flag("nonsigner_transfer_authority", l[i].at, <<l[i].at>>)
        : i \in {i \in DOMAIN l : /\ ~l[i].at.inner
                                  /\ authority(l[i]) \notin Signers \cup {None}}}

\* Mutant: no arm for MintToChecked.
transfer_of_money_MintTo(ix) ==
    CASE is_token(ix, {"Transfer"}) -> role_account(ix, "destination", 1)
      [] is_token(ix, {"TransferChecked"}) -> role_account(ix, "destination", 2)
      [] is_token(ix, {"MintTo"}) -> role_account(ix, "to", 1)
      [] ix.program = "system" /\ ix.name = "Transfer" -> role_account(ix, "to", 1)
      [] ix.program = "system" /\ ix.name = "WithdrawNonceAccount" -> role_account(ix, "to", 2)
      [] OTHER -> None

transfer_of_money(ix) ==
    CASE is_token(ix, {"Transfer"}) -> role_account(ix, "destination", 1)
      [] is_token(ix, {"TransferChecked"}) -> role_account(ix, "destination", 2)
      [] is_token(ix, {"MintTo", "MintToChecked"}) -> role_account(ix, "to", 1)
      [] ix.program = "system" /\ ix.name = "Transfer" -> role_account(ix, "to", 1)
      [] ix.program = "system" /\ ix.name = "WithdrawNonceAccount" -> role_account(ix, "to", 2)
      [] OTHER -> None

fee_payer_recipient(l) ==
    {Flag("fee_payer_recipient", l[i].at, <<l[i].at>>)
        : i \in {i \in DOMAIN l : transfer_of_money(l[i]) = FeePayer}}

repeated_destination(l) ==
    LET To(d) == Without(l, {ix \in ToSet(l) : transfer_of_money(ix) # d})
        Ids(s) == [i \in DOMAIN s |-> s[i].at]
    IN {Flag("repeated_destination", To(d)[1].at, Ids(To(d)))
        : d \in {d \in Accounts \cup Keys : Len(To(d)) >= 2}}

\* Mutant: the authority that signs the SetAuthority for the one it appoints.
MintAuthorityTakeover_Current(set, mint) ==
    /\ is_token(set, {"SetAuthority"}) /\ set.data.type = 0
    /\ set.at # mint.at /\ same_lineage(set.at, mint.at)
    /\ is_token(mint, {"MintTo", "MintToChecked"})
    /\ role_account(mint, "mint", 0) = role_account(set, "account", 0)
    /\ role_account(mint, "authority", 2) = role_account(set, "current_authority", 1)

MintAuthorityTakeover(set, mint) ==
    /\ is_token(set, {"SetAuthority"}) /\ set.data.type = 0
    /\ set.at # mint.at /\ same_lineage(set.at, mint.at)
    /\ is_token(mint, {"MintTo", "MintToChecked"})
    /\ role_account(mint, "mint", 0) = role_account(set, "account", 0)
    /\ role_account(mint, "authority", 2) = set.data.new

\* A SetAuthority is flagged once, with the first mint that fits it.
mint_authority_takeover(l) ==
    {Flag("mint_authority_takeover", l[s].at,
          <<l[s].at, l[Min({m \in DOMAIN l : MintAuthorityTakeover(l[s], l[m])})].at>>)
        : s \in {s \in DOMAIN l : \E m \in DOMAIN l : MintAuthorityTakeover(l[s], l[m])}}

detect_patterns(l) ==
    approve_then_transfer(l) \cup nonsigner_transfer_authority(l) \cup fee_payer_recipient(l)
        \cup repeated_destination(l) \cup mint_authority_takeover(l)

\* all_instructions: the inner ones are there if the transaction was fetched with its meta.
all_instructions(meta) ==
    LET inner == {ix \in ToSet(executed) : ix.at.inner}
    IN Without(executed, inner)
        \o (IF meta THEN Without(executed, ToSet(executed) \ inner) ELSE <<>>)

DetectPatterns ==
    /\ ~reported /\ reported' = TRUE
    /\ \E meta \in BOOLEAN : listed' = all_instructions(meta)
    /\ flags' = detect_patterns(listed')
    /\ UNCHANGED <<top, sub, cpi, executed, ledger>>

PatternsInit ==
    /\ top = -1 /\ sub = 0 /\ cpi = FALSE
    /\ executed = <<>> /\ spends = {} /\ takeovers = {}
    /\ delegate = [a \in Accounts |-> [key |-> None, by |-> Before]]
    /\ minter = [m \in Mints |-> [key |-> MintAuthority[m], by |-> Before]]
    /\ reported = FALSE /\ listed = <<>> /\ flags = {}

PatternsNext ==
    \/ \E ix \in Instructions : TopLevel(ix) \/ Inner(ix)
    \/ CallProgram
    \/ DetectPatterns

PatternsSpec == PatternsInit /\ [][PatternsNext]_patternsVars

-----------------------------------------------------------------------------
Flagged(rule) == {f \in flags : f.rule = rule}
Visible(id) == \E ix \in ToSet(listed) : ix.at = id
Position(id) == CHOOSE p \in DOMAIN executed : executed[p].at = id
Instruction(id) == executed[Position(id)]
Grantee(approval) == approval.accounts[Len(approval.accounts) - 1]     \* the owner is last
OneTree(a, b) == a.index = b.index \/ (~a.inner /\ ~b.inner)

\* Tokens that a delegate spent on the strength of an approval of this transaction are
\* flagged if both instructions are in the report, and both at the top level or in one tree:
\* the keys that stand for execution order lose none (approve_then_transfer).
DelegatedSpendFlagged ==
    reported => \A s \in spends :
        Visible(s.approval) /\ Visible(s.transfer) /\ OneTree(s.approval, s.transfer)
            => \E f \in Flagged("approve_then_transfer") : f.about[2] = s.transfer

\* A transfer is never called the spending of an approval that was executed after it, or
\* that empowers somebody else; and no transfer is reported twice (approve_then_transfer).
DrainFollowsApproval ==
    \A f, g \in Flagged("approve_then_transfer") :
        /\ Position(f.about[1]) < Position(f.about[2])
        /\ Instruction(f.about[2]).auth = Grantee(Instruction(f.about[1]))
        /\ f.about[2] = g.about[2] => f = g

\* approve_then_transfer means what it says, and misses nothing it can see.
DelegationJudged == DelegatedSpendFlagged /\ DrainFollowsApproval

\* Tokens minted by an authority appointed in this transaction are flagged, at the
\* appointment, under the same conditions (mint_authority_takeover).
TakeoverFlagged ==
    reported => \A t \in takeovers :
        Visible(t.appointment) /\ Visible(t.mint) /\ OneTree(t.appointment, t.mint)
            => \E f \in Flagged("mint_authority_takeover") : f.about[1] = t.appointment

\* In a transaction that ran, a transfer whose authority is said not to sign is one of a
\* multisig or one from a derived address, and all of those at the top level are named
\* (nonsigner_transfer_authority).
NonsignerExplained ==
    reported => {f.about[1] : f \in Flagged("nonsigner_transfer_authority")} =
        {ix.at : ix \in {ix \in ToSet(listed) :
            /\ ~ix.at.inner
            /\ \/ is_token(ix, {"Transfer", "TransferChecked"}) /\ ix.auth \in Multisigs
               \/ ix.name = "TransferWithSeed"}}

\* An account is called a repeated destination exactly if several listed instructions paid
\* it, all of which are named, once each (repeated_destination; TransferWithSeed does not
\* count).
FanInNamed ==
    reported => \A d \in Accounts \cup Keys :
        LET paying == {ix.at : ix \in {ix \in ToSet(listed) :
                                           ix.pays = d /\ ix.name # "TransferWithSeed"}}
        IN Cardinality(paying) >= 2
           <=> \E f \in Flagged("repeated_destination") :
                   ToSet(f.about) = paying /\ Len(f.about) = Cardinality(paying)

=============================================================================
