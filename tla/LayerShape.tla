----------------------------- MODULE LayerShape -----------------------------
(***************************************************************************)
(* The parametrizations that place the energy of a layer and leave values   *)
(* for others in the state: TFCSPredictExtrapWeights (a number per layer),  *)
(* TFCSVoxelHistoLateralCovarianceFluctuations (pointers to objects it      *)
(* makes), TFCSCenterPositionCalculation, the hits that use them, and       *)
(* TFCSEnergyRenormalization.                                               *)
(***************************************************************************)
EXTENDS SimState

CONSTANTS
  Entry, Exit, \* of each layer, the coordinate at its front and its back
  Boundary,    \* the coordinate at the calorimeter's boundary
  Finite,      \* layers whose extrapolated coordinates are finite
  Halves       \* weights are in units of 1 / Halves

ASSUME PositionAssumption ==
  /\ Entry \in [Layers -> Int] /\ Exit \in [Layers -> Int] /\ Boundary \in Int
  /\ Finite \subseteq Layers /\ Halves \in Nat \ {0}

\* The numbers under which values are kept: layer_hash() and layer_hash_geo(); the
\* predicted weight of a layer has the first one, too.
LayerKey(l) == <<l, "layer">>
GeoKey(l) == <<l, "geo">>

-----------------------------------------------------------------------------
\* TFCSPredictExtrapWeights::simulate(): the weight of each layer from the network,
\* cut to [0, 1] unless it is NaN, and one half for a layer the network does not know.  The inputs
\* are the fractions of the energy.
InputsThere(relevant) == \A l \in relevant \cap Layers : HasEfrac(l)
NotFinite == 99
Clipped(w) ==
  IF w = NotFinite THEN w ELSE IF w < 0 THEN 0 ELSE IF w > Halves THEN Halves ELSE w
PredictWeights(relevant, output) ==
  /\ aux' = [k \in DOMAIN aux \cup {LayerKey(l) : l \in Layers} |->
               IF k \in {LayerKey(l) : l \in Layers}
               THEN Number(IF k[1] \in relevant THEN Clipped(output[k[1]]) ELSE Halves \div 2)
               ELSE aux[k]]
  /\ UNCHANGED heap

\* The centre of a hit, by a weight for eta and phi and one for r and z: between the
\* front and the back of the layer, and all of it at the boundary of the calorimeter
\* if any of the coordinates is not finite.
Along(l, w) == ((Halves - w) * Entry[l] + w * Exit[l]) \div Halves
Center(l, wEta, wR) ==
  IF l \in Finite /\ NotFinite \notin {wEta, wR}
  THEN [eta |-> Along(l, wEta), r |-> Along(l, wR)]
  ELSE [eta |-> Boundary, r |-> Boundary]

\* simulate_hit(): fatal without a weight; eta and phi with the weight predicted, r
\* and z with one half if UseHardcodedWeight().
HasWeight(l) == HasAux(LayerKey(l))
PredictedCenter(l, hardcoded) ==
  LET w == aux[LayerKey(l)].value
  IN  Center(l, w, IF hardcoded THEN Halves \div 2 ELSE w)

\* TFCSCenterPositionCalculation: the same weight, one half at first, for all.
FixedCenter(l) == Center(l, Halves \div 2, Halves \div 2)

-----------------------------------------------------------------------------
\* The objects whose pointers are in the state.
Keys == {LayerKey(l) : l \in Layers} \cup {GeoKey(l) : l \in Layers}
PointersAt(ks) == {aux[k].value : k \in {x \in ks : IsPointer(x)}}

\* TFCSVoxelHistoLateralCovarianceFluctuations::simulate() first deletes what any
\* instance has left, for all layers.
Freed == [p \in DOMAIN heap \ PointersAt(Keys) |-> heap[p]]
Emptied_KeepPointers == aux
Emptied == [k \in DOMAIN aux |-> IF IsPointer(k) THEN Pointer(0) ELSE aux[k]]

\* An instance without tables, or a shower without energy, leaves it at that.
Inactive(bins) == bins = 0 \/ ebin <= 0

NewPointer(used) == Max({0} \cup used) + 1

VoxelClean == heap' = Freed /\ aux' = Emptied

\* Otherwise it makes weights and a copy of the template for its own layer.
VoxelWeights(l, shower) ==
  LET p == NewPointer(DOMAIN Freed)
  IN  /\ heap' = Put(Put(Freed, p, shower), p + 1, shower)
      /\ aux' = Put(Put(Emptied, LayerKey(l), Pointer(p)), GeoKey(l), Pointer(p + 1))

\* simulate_hit(): fatal without the weights or the template of the layer.
HasVoxels(l) == IsPointer(LayerKey(l)) /\ IsPointer(GeoKey(l))

-----------------------------------------------------------------------------
\* TFCSEnergyRenormalization::simulate(): every cell is scaled so that those of a
\* layer add up to the energy of the layer, unless they add up to nothing.
SumOfCells(l) ==
  MapThenSumSet(LAMBDA c : cells[c], {c \in DOMAIN CellLayer : CellLayer[c] = l})
Scaled_OneScale(c) ==
  LET all == MapThenSumSet(SumOfCells, Layers)
  IN  IF all = 0 THEN cells[c]
      ELSE (cells[c] * MapThenSumSet(LAMBDA l : e[l], Layers)) \div all
Scaled(c) ==
  LET sum == SumOfCells(CellLayer[c])
  IN  IF sum = 0 THEN cells[c] ELSE (cells[c] * e[CellLayer[c]]) \div sum
Renormalize == cells' = [c \in DOMAIN CellLayer |-> Scaled(c)]
=============================================================================
