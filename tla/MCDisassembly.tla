---------------------------- MODULE MCDisassembly ----------------------------
(* A finite instance of Disassembly: three programs, two of which share the   *)
(* first eight characters of their keys; one run of rts with several targets  *)
(* and another beside it.                                                     *)
EXTENDS Disassembly

MCPrograms == {"P", "P2", "Q"}
MCShortKey == [p \in MCPrograms |-> IF p = "Q" THEN "q" ELSE "p"]
MCTargets == [r \in Runs |-> IF r = "rts" THEN {<<"P", "P2">>, <<"Q">>} ELSE {<<"P">>}]

(* Two runs that analyse the same program at the same time. *)
MCSameTarget == [r \in Runs |-> {<<"Q">>}]
=============================================================================
