----------------------------- MODULE MCHitChain -----------------------------
(***************************************************************************)
(* Instances of HitChain for TLC.                                          *)
(***************************************************************************)
EXTENDS HitChain

\* One element that only runs in init_hit(), a lateral shape, a weight and the
\* FCal cell mapping, which may ask for a retry.
FCalChain == <<"shape", "shape", "weight", "fcal">>

\* A weight may turn the sign of a hit, or take its energy away.
SomeWeights == {-1, 0, 2}
\* The answers of get_number_of_hits() include those it has to correct.
Counts == {-1, 0, 2}
\* An empty layer, a negative hit energy and one that is too small.
SignedHits == {-1, 0, 1, 2}
TinyHits == {2}
\* A retry code that grants nothing, and one that grants a further attempt.
Retries == {0, 2}
=============================================================================
