------------------------------- MODULE MCReport -------------------------------
(***************************************************************************)
(* What the report says of a transaction that ran: the events of its log,  *)
(* and the patterns of its instructions.  decode_events and the rules read *)
(* nothing of one another, so a behaviour is one of the two parts, with    *)
(* the other left where it begins.                                         *)
(*                                                                         *)
(* The log is that of two programs that may call each other and            *)
(* themselves, and of a built-in; it loses nothing, events and messages,   *)
(* or ends of frames.  The ledger has two token accounts of mint T, owned  *)
(* by A and by a multisig; U is another mint.  A pays the fee and signs, B *)
(* does not: it can act only inside a program.                             *)
(***************************************************************************)
EXTENDS EventDecoder, Patterns

MCPrograms == {"A", "B", "system"}
MCBuiltins == {"system"}
MCEvents == {"deposit", "withdraw", "other"}
MCIdlEvents == <<"deposit", "withdraw">>
MCCosts == {0}
MCDropChoices == {{}, {"data", "text"}, {"success", "failed"}}

MCMintOf == [a \in Accounts |-> "T"]
MCOwner == [a \in Accounts |-> IF a = "X" THEN "A" ELSE "M"]
MCMintAuthority == [m \in Mints |-> "A"]

-----------------------------------------------------------------------------
ReportInit == Init /\ PatternsInit

ReadEvents == PatternsInit /\ Next /\ UNCHANGED patternsVars
FindPatterns == Init /\ drops = {} /\ PatternsNext /\ UNCHANGED vars

ReportSpec == ReportInit /\ [][ReadEvents \/ FindPatterns]_<<vars, patternsVars>>
=============================================================================
