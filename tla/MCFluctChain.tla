---------------------------- MODULE MCFluctChain ----------------------------
(***************************************************************************)
(* Instances of FluctChain for TLC.                                        *)
(***************************************************************************)
EXTENDS FluctChain

WeightedChain == <<"shape", "weight", "fcal">>
\* One value that lets a single hit do, two that need more, one that no number
\* of hits reaches, and the answer of a chain in which no element knows its
\* fluctuation.
AllSigmas == {<<1, 1>>, <<1, 2>>, <<1, 3>>, <<0, 1>>, <<1000, 1>>}
SmallestSigma == <<1, 4>>
SignedHits == {-1, 1, 2}
DrawnWeights == {1, 2}
NearOrFar == {"near", "far"}
Retries == {0, 2, 3}
=============================================================================
