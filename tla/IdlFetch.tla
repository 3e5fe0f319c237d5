------------------------------- MODULE IdlFetch -------------------------------
(***************************************************************************)
(* idl_fetch: the IDL of a program is looked for at three addresses, the   *)
(* data and the owner of each with a request of their own.                 *)
(*                                                                         *)
(* An account is a record of: exists, owner, size, header (which layout    *)
(* its first bytes are of), program (the one a metadata header names),     *)
(* direct (JSON kept in the account itself), fits (the announced length is *)
(* positive and within the data), packing, unpacked (the size of the text) *)
(* and text: the IDL the text reads as, <<>> when it is none.              *)
(***************************************************************************)
EXTENDS Endpoint

CONSTANT MaxIdlBytes   \* 4 MiB

ASSUME MaxIdlBytesAssumption == MaxIdlBytes \in Nat

Pmp == "program_metadata"

\* The text of a payload, if it is packed as named and within the bound.
Unpacked(a, packing) == IF a.packing = packing /\ a.unpacked <= MaxIdlBytes THEN a.text ELSE <<>>

-----------------------------------------------------------------------------
(* An IDL's instructions are sequences of account items; an item is an     *)
(* account, or a group with items of its own.                              *)

\* One level of groups is replaced by its items.
Flat(items) == FlattenSeq([i \in DOMAIN items |-> IF items[i].group THEN items[i].accounts ELSE <<items[i]>>])

\* isMut and isSigner of an item; a group that is left has neither and reads
\* as an account of its name.
Role(item) == [name |-> item.name, signer |-> item.signer, writable |-> item.writable]

\* IDLs of the old format must have an account at every place.
normalize_idl_value(idl) ==
  IF idl.spec
    THEN <<[i \in DOMAIN idl.instructions |->
             LET flat == Flat(idl.instructions[i]) IN [k \in DOMAIN flat |-> Role(flat[k])]]>>
  ELSE IF \E i \in DOMAIN idl.instructions : \E k \in DOMAIN idl.instructions[i] : idl.instructions[i][k].group
    THEN <<>>
  ELSE <<[i \in DOMAIN idl.instructions |->
           [k \in DOMAIN idl.instructions[i] |-> Role(idl.instructions[i][k])]]>>

\* An IDL without instructions is none.
parse_idl_json(text) ==
  IF text = <<>> THEN {}
  ELSE {instructions \in Range(normalize_idl_value(text[1])) : instructions # <<>>}

\* A payload that does not unpack is tried as text.
parse_legacy_idl_bytes(a) ==
  IF a.header \in {"internal", "plain"} /\ a.fits
    THEN parse_idl_json(IF a.packing = "none" THEN a.text ELSE Unpacked(a, "zlib"))
    ELSE {}

parse_metadata_idl_bytes(a) ==
  IF a.header = "metadata" /\ a.program = job.program /\ a.direct /\ a.fits
    THEN parse_idl_json(IF a.packing = "none" THEN a.text
                        ELSE Unpacked(a, "zlib") \o Unpacked(a, "gzip"))
    ELSE {}

-----------------------------------------------------------------------------
(* What is asked for: a text is none or one IDL. *)
IdlOK(idl) ==
  /\ idl.spec \in BOOLEAN /\ idl.instructions \in Seq(Range(idl.instructions))
  /\ \A items \in Range(idl.instructions) :
       items \in Seq(Range(items)) /\ \A item \in Range(items) : item.group \in BOOLEAN
IdlAsked(j) ==
  /\ j.addresses \in Seq(DOMAIN j.lives) /\ j.addresses # <<>>
  /\ \A key \in DOMAIN j.lives : \A a \in Moments(j, key) : a.exists =>
       /\ a.size \in Nat /\ a.text \in Seq(Range(a.text)) /\ Len(a.text) <= 1
       /\ \A idl \in Range(a.text) : IdlOK(idl)

Layout(k) == IF k < 3 THEN "legacy" ELSE "metadata"
OwnerOf(k) == IF Layout(k) = "legacy" THEN job.program ELSE Pmp
Parsed(k, a) == IF Layout(k) = "legacy" THEN parse_legacy_idl_bytes(a) ELSE parse_metadata_idl_bytes(a)

\* No IDL at this address; the last address ends the search.
NextAddress ==
  IF at = Len(job.addresses) THEN Finish({})
  ELSE /\ at' = at + 1 /\ step' = "idl_data" /\ held' = <<>>
       /\ UNCHANGED <<job, chain, cache, found>>

\* Mutant: a failing request counts as an account without an IDL.
IdlFailed_None == NextAddress

\* `?`: the search ends with the error.
IdlFailed == step' = "error" /\ UNCHANGED <<job, chain, at, held, cache, found>>

FetchIdlData ==
  /\ step = "idl_data"
  /\ \E answer \in Answers(job.addresses[at]) :
       IF Failed(answer) THEN IdlFailed
       ELSE IF ~answer[1].exists \/ answer[1].size > MaxIdlBytes THEN NextAddress
       ELSE held' = answer /\ step' = "idl_owner" /\ UNCHANGED <<job, chain, at, cache, found>>

\* The data that was kept is read once its account, asked for again, is of the
\* expected owner.
FetchIdlOwner ==
  /\ step = "idl_owner"
  /\ \E answer \in Answers(job.addresses[at]) :
       IF Failed(answer) THEN IdlFailed
       ELSE LET idls == IF answer[1].exists /\ answer[1].owner = OwnerOf(at) THEN Parsed(at, held[1]) ELSE {}
            IN  IF idls # {} THEN Finish(idls) ELSE NextAddress

IdlNext == FetchIdlData \/ FetchIdlOwner

-----------------------------------------------------------------------------
GroupsOnce(idl) ==
  /\ \A i \in DOMAIN idl.instructions : \A k \in DOMAIN idl.instructions[i] :
       idl.instructions[i][k].group =>
         idl.spec /\ \A m \in Range(idl.instructions[i][k].accounts) : ~m.group
Lists(instructions, idl) ==
  /\ Len(instructions) = Len(idl.instructions)
  /\ \A i \in DOMAIN instructions :
       LET leaves == FlattenSeq([k \in DOMAIN idl.instructions[i] |->
                       IF idl.instructions[i][k].group THEN idl.instructions[i][k].accounts
                       ELSE <<idl.instructions[i][k]>>])
       IN  instructions[i] = [k \in DOMAIN leaves |-> Role(leaves[k])]

\* What a tool wrote: a readable IDL at this address.
Published(k, a) ==
  /\ a.exists /\ a.owner = OwnerOf(k) /\ a.fits /\ a.size <= MaxIdlBytes /\ a.unpacked <= MaxIdlBytes
  /\ a.text # <<>> /\ a.text[1].instructions # <<>> /\ GroupsOnce(a.text[1])
  /\ IF Layout(k) = "legacy" THEN a.header \in {"internal", "plain"} /\ a.packing \in {"none", "zlib"}
     ELSE /\ a.header = "metadata" /\ a.program = job.program /\ a.direct
          /\ a.packing \in {"none", "zlib", "gzip"}

\* fetch_idl says that a program has no IDL only if every address has been
\* without a readable one at some moment, never because a request failed; and an
\* IDL it returns is what stood at an address after addresses without one, its
\* instructions with the program's accounts in their order.
SearchIsHonest ==
  (job.kind = "idl" /\ step = "done") =>
    /\ found = {} => \A k \in DOMAIN job.addresses : \E a \in Past(job.addresses[k]) : ~Published(k, a)
    /\ found # {} =>
         \E k \in DOMAIN job.addresses :
           /\ \A j \in 1..(k - 1) : \E a \in Past(job.addresses[j]) : ~Published(j, a)
           /\ \E a \in Past(job.addresses[k]) :
                /\ a.exists /\ a.text # <<>>
                /\ GroupsOnce(a.text[1]) => \A instructions \in found : Lists(instructions, a.text[1])
=============================================================================
