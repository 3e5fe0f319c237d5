----------------------------- MODULE TokenAmounts -----------------------------
(***************************************************************************)
(* simulator::resolve_token_amounts: the decimals of every token amount,   *)
(* from the instruction itself or from an account the endpoint is asked    *)
(* for.  An instruction has: program, name, amount and inline (sequences   *)
(* of at most one value), accounts, and of, the account that has the       *)
(* decimals: the mint, or for a transfer or an approval the source.  An    *)
(* account has: exists, kind (mint or token account) and decimals.         *)
(* job.instructions is the top-level and then the inner instructions; held *)
(* lists the accounts that were asked for.                                 *)
(***************************************************************************)
EXTENDS Endpoint

TokenPrograms == {"token", "token_2022"}
WithAmount == {"Transfer", "TransferChecked", "Approve", "ApproveChecked", "MintTo", "MintToChecked",
               "Burn", "BurnChecked", "AmountToUiAmount"}

\* Where the mint is in the accounts, or a token account of it.
mint_source_position(name) ==
  CASE name \in {"MintTo", "MintToChecked", "AmountToUiAmount", "Transfer", "Approve"} -> <<1>>
    [] name \in {"Burn", "BurnChecked"} -> <<2>>
    [] OTHER -> <<>>

\* What the stage is given: an instruction without decimals names, where its
\* program expects it, the account that has them.
AmountsAsked(j) ==
  /\ j.instructions \in Seq(Range(j.instructions))
  /\ \A ix \in Range(j.instructions) :
       /\ ix.inline \in Seq(Nat) /\ Len(ix.inline) <= 1
       /\ (ix.inline = <<>> /\ ix.name \in WithAmount) =>
            \E k \in DOMAIN ix.accounts :
              /\ mint_source_position(ix.name) = <<k>>
              /\ ix.accounts[k] = ix.of /\ ix.of \in DOMAIN j.lives
  /\ \A key \in DOMAIN j.lives : \A a \in Moments(j, key) : a.exists =>
       a.decimals \in Seq(Nat) /\ Len(a.decimals) <= 1

Asked == job.instructions[at]
AskedKind == IF Asked.name \in {"Transfer", "Approve"} THEN "account" ELSE "mint"
HasAmount == Asked.program \in TokenPrograms /\ Asked.name \in WithAmount /\ Asked.amount # <<>>

\* The account whose decimals count; none when the amount is not to be looked up.
Source ==
  IF ~HasAmount \/ Asked.inline # <<>> \/ ~job.rpc THEN {}
  ELSE {Asked.accounts[k] : k \in Range(mint_source_position(Asked.name)) \cap DOMAIN Asked.accounts}

Amount(decimals) == [instruction |-> at, decimals |-> decimals]

NextAmount(amounts) ==
  /\ at' = at + 1 /\ found' = found \cup amounts
  /\ UNCHANGED <<job, chain, step>>

AmountsEnd == step = "amount" /\ at > Len(job.instructions) /\ Finish({})

\* Nothing to ask: no amount, or decimals in the instruction.
AmountHere ==
  /\ step = "amount" /\ at <= Len(job.instructions) /\ Source = {}
  /\ NextAmount({Amount(d) : d \in IF HasAmount THEN Range(Asked.inline) ELSE {}})
  /\ UNCHANGED <<held, cache>>

CachedOf(key) == {c \in cache : c.key = key}

AmountCached ==
  /\ step = "amount" /\ at <= Len(job.instructions)
  /\ \E key \in Source : \E c \in CachedOf(key) :
       NextAmount({Amount(d) : d \in Range(c.decimals)})
  /\ UNCHANGED <<held, cache>>

\* A mint and a token account have their decimals at different places.
DecimalsFrom(answer, kind) ==
  IF Failed(answer) \/ ~answer[1].exists \/ answer[1].kind # kind THEN <<>> ELSE answer[1].decimals

\* Mutant: failures are not remembered.
Remember_Found(key, decimals) == IF decimals = <<>> THEN {} ELSE {[key |-> key, decimals |-> decimals]}

\* Failures too.
Remember(key, decimals) == {[key |-> key, decimals |-> decimals]}

FetchDecimals ==
  /\ step = "amount" /\ at <= Len(job.instructions)
  /\ \E key \in Source :
       /\ CachedOf(key) = {}
       /\ \E answer \in Answers(key) :
            LET decimals == DecimalsFrom(answer, AskedKind)
            IN  /\ held' = Append(held, key)
                /\ cache' = cache \cup Remember(key, decimals)
                /\ NextAmount({Amount(d) : d \in Range(decimals)})

AmountsNext == AmountsEnd \/ AmountHere \/ AmountCached \/ FetchDecimals

-----------------------------------------------------------------------------
\* An amount is shown in the decimals its instruction names, or that the mint's or
\* source's account had when it was asked for; no account is asked for twice, not
\* even after a failure; and an amount is left out only offline, or because the
\* one request for its account brought no decimals, for this instruction or for
\* another that took the account for something else.
AmountsInMintDecimals ==
  job.kind = "amounts" =>
    /\ \A r \in found :
         LET ix == job.instructions[r.instruction]
         IN  IF ix.inline # <<>> THEN <<r.decimals>> = ix.inline
             ELSE \E a \in Past(ix.of) : a.exists /\ a.decimals = <<r.decimals>>
    /\ IsInjective(held)
    /\ step = "done" =>
         \A i \in DOMAIN job.instructions :
           LET ix == job.instructions[i]
           IN  (ix.program \in TokenPrograms /\ ix.name \in WithAmount /\ ix.amount # <<>>) =>
                 \/ \E r \in found : r.instruction = i
                 \/ ix.inline = <<>> /\ ~job.rpc
                 \/ ix.inline = <<>> /\ [key |-> ix.of, decimals |-> <<>>] \in cache
=============================================================================
