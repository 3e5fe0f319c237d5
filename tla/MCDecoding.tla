------------------------------ MODULE MCDecoding ------------------------------
(***************************************************************************)
(* What becomes of a decoded transaction: the audit without an endpoint,   *)
(* and the keys of its lookup tables, which the audit does not read.  A    *)
(* behaviour is one of the two, with the other left where it begins.       *)
(*                                                                         *)
(* There are two tables, and the lookups of up to two of them (of one      *)
(* table twice as well), with up to two indexes each.                      *)
(***************************************************************************)
EXTENDS MCOfflineAudit, AddressTables

MCTables == {"T", "U"}
MCContents == [t \in MCTables |-> IF t = "T" THEN <<"t0", "t1">> ELSE <<"u0", "u1">>]

One == {[table |-> t, writable |-> w, readonly |-> r] :
          t \in MCTables, w \in {<<>>, <<0>>, <<1, 0>>}, r \in {<<>>, <<1>>}}

MCLookups == {<<>>} \cup {<<l>> : l \in One}
               \cup {<<l, m>> : l \in {x \in One : x.table = "T"}, m \in One}

-----------------------------------------------------------------------------
NoAudit == input = CHOOSE i \in Budget : TRUE
NoTables == lookups = <<>> /\ length = [t \in Tables |-> 0] /\ loaded = NotRun

DecodingInit == (NoAudit \/ NoTables) /\ Init /\ AuditInit

ResolveTables == NoAudit /\ AuditInit /\ Next /\ UNCHANGED auditVars
AuditOffline == NoTables /\ Init /\ AuditNext /\ UNCHANGED vars

DecodingSpec ==
  DecodingInit /\ [][ResolveTables \/ AuditOffline]_<<vars, auditVars>>
=============================================================================
