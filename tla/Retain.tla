------------------------------- MODULE Retain -------------------------------
(* Filtering a list, as Vec::retain and Iterator::filter do. *)
EXTENDS Naturals, Sequences, SequencesExt

\* What is left of s when the elements in gone are taken out, in order.
Without(s, gone) ==
  FoldLeft(LAMBDA kept, e : IF e \in gone THEN kept ELSE Append(kept, e), <<>>, s)
=============================================================================
