------------------------------ MODULE MCShower ------------------------------
(***************************************************************************)
(* Two layers, three cells, and the parametrizations of nine particles: an  *)
(* electron whose chain predicts the centres of its hits, pions with voxel  *)
(* weights, a kaon without, a muon that has no table and no energy, and     *)
(* chains with an element too early.                                        *)
(***************************************************************************)
EXTENDS Shower

TwoLayers == {0, 1}
ThreeCells == [c \in {"a", "b", "c"} |-> IF c = "c" THEN 1 ELSE 0]

LogOf == [x \in {1, 24, 48} |-> IF x = 1 THEN 0 ELSE IF x = 24 THEN 2 ELSE 3]
SomeResponses ==
  [r \in {"spline", "line", "histogram"} |->
     IF r = "spline" THEN [kind |-> "piecewise", points |-> <<<<0, 1>>, <<2, 1>>>>, scale |-> TRUE]
     ELSE IF r = "line" THEN [kind |-> "linear", points |-> <<<<1, 24>>>>, scale |-> FALSE]
     ELSE [kind |-> "histogram", points |-> <<<<1, 1>>, <<24, 2>>>>, scale |-> FALSE]]

\* Bin 0 of the pion's table has a probability, its bin 2 none.
SomeTables ==
  [t \in {"el", "pi"} |->
     IF t = "el" THEN [id \in {11} |-> <<0, 2>>] ELSE [id \in {0, 211} |-> <<2, 4, 4>>]]

Draw(total, share) == [total |-> total, share |-> share]
SomeDraws ==
  [pca \in {"el", "pi"} |->
     IF pca = "el"
     THEN [bin \in {1, 2} |-> {Draw(2, [l \in {0, 1} |-> 1]), Draw(4, [l \in {0} |-> 1])}]
     ELSE [bin \in {1, 2} |-> {Draw(2, [l \in {1} |-> 1]), Draw(1, [l \in {1} |-> 2])}]]
SomeRatios ==
  [x \in {<<"el", 1>>} |-> [low |-> 1, up |-> 5, points |-> <<<<2, 2>>, <<4, 0>>>>]]

El(kind) == [kind |-> kind]
Hits(l, uses) == [kind |-> "hits", layer |-> l, uses |-> uses, hardcoded |-> TRUE]
Voxels(l, bins) == [kind |-> "voxel", layer |-> l, bins |-> bins]
Electron ==
  <<El("init"), [kind |-> "interpolate", response |-> "spline"],
    [kind |-> "bin", table |-> "el"], [kind |-> "pca", pca |-> "el"],
    [kind |-> "predict", relevant |-> {0}],
    Hits(0, {"predict"}), [Hits(1, {"predict"}) EXCEPT !.hardcoded = FALSE], El("renorm")>>
Pion ==
  <<El("init"), [kind |-> "interpolate", response |-> "line"],
    [kind |-> "bin", table |-> "pi"], [kind |-> "pca", pca |-> "pi"],
    Voxels(0, 2), Hits(0, {"voxel"}), Voxels(1, 1), Hits(1, {"voxel"}),
    El("renorm"), Voxels(0, 0)>>
Kaon ==
  <<El("init"), [kind |-> "interpolate", response |-> "histogram"],
    [kind |-> "bin", table |-> "pi"], [kind |-> "pca", pca |-> "pi"],
    Hits(1, {}), El("renorm")>>
Muon == <<El("init"), [kind |-> "bin", table |-> "el"]>>

\* Chains with an element too early.
EarlyHits == <<El("init"), Hits(0, {})>>
EarlyPca == <<El("init"), [kind |-> "pca", pca |-> "el"]>>
EarlyWeights == <<El("init"), [kind |-> "predict", relevant |-> {0}]>>
EarlyRenorm == <<El("init"), El("renorm")>>

Particle(ekin, id, program) == [ekin |-> ekin, pdgid |-> id, program |-> program]
SomeParticles ==
  <<Particle(48, 11, Electron), Particle(24, 211, Pion), Particle(48, 211, Pion),
    Particle(24, 321, Kaon), Particle(0, 13, Muon), Particle(24, 11, EarlyHits),
    Particle(24, 11, EarlyPca), Particle(24, 11, EarlyWeights), Particle(24, 11, EarlyRenorm)>>

FrontOf == [l \in TwoLayers |-> 2 * l]
BackOf == [l \in TwoLayers |-> 2 * l + 2]
OneFinite == {0}
=============================================================================
