---------------------------- MODULE MCSimCrossref ----------------------------
(* A finite instance of SimCrossref: a program that may call another or      *)
(* itself and a built-in, up to three instructions, consumption below, at    *)
(* and above the threshold, and logs that lose nothing or lose any line.     *)
EXTENDS SimCrossref

MCPrograms == {"A", "B", "system"}
MCBuiltins == {"system", "budget"} \cap MCPrograms
MCCosts == {1, 3}
MCDropChoices == {{}, LineKinds}
MCEstimates == {0, 3}
=============================================================================
