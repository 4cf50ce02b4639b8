----------------------------- MODULE MCParamTree -----------------------------
(***************************************************************************)
(* Small trees of parametrizations: a root, a chain that selects by energy, *)
(* a hit chain; four leaves, of which two are equal, one differs from them  *)
(* in its data only and one is of a class without operator==.               *)
(***************************************************************************)
EXTENDS ParamTree

MCObjects == 1 .. 7
MCKind == (1 :> "plain") @@ (2 :> "ekin") @@ (3 :> "hits")
R(l, h, n) == [lo |-> l, hi |-> h, nom |-> n]
L(cl, d, ek) == [class |-> cl, pdgids |-> {11, 22}, all |-> FALSE, ekin |-> ek,
                 eta |-> R(0, 2, 1), data |-> d]
MCLeaf == (4 :> L("mapping", 1, R(0, 2, 1))) @@ (5 :> L("mapping", 1, R(0, 2, 1)))
          @@ (6 :> L("mapping", 2, R(0, 2, 1))) @@ (7 :> [L("energy", 1, R(2, 4, 3)) EXCEPT !.pdgids = {22}])
MCName == (1 :> "root") @@ (2 :> "select") @@ (3 :> "hits") @@ (4 :> "map")
          @@ (5 :> "map") @@ (6 :> "map") @@ (7 :> "energy")
MCContentClasses == {"mapping"}
MCHitClasses == {"mapping"}
MCSplits == {{1, 3}, {1, 2, 3}}
MCWholeEkin == R(0, 4, 0)
MCWholeEta == R(0, 2, 0)

\* The objects 4 and 5 are equal: only trees in which 4 hangs before 5 need to be
\* put together.
EqualOnesInOrder == Ready /\ 4 \in alive /\ Mothers(5) # {} => Mothers(4) # {}
=============================================================================
