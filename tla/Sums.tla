-------------------------------- MODULE Sums --------------------------------
(***************************************************************************)
(* The sum of the first n members of a sequence, which the loops of this   *)
(* code over hits, bins, voxels and layers keep in a running total.        *)
(***************************************************************************)
EXTENDS Integers

SumUpTo(s, n) ==
  LET upTo[i \in 0 .. n] == IF i = 0 THEN 0 ELSE upTo[i - 1] + s[i] IN upTo[n]
=============================================================================
