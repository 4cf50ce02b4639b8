----------------------------- MODULE HitShapes -----------------------------
(***************************************************************************)
(* What is done to one hit: TFCSHistoLateralShapeParametrizationFCal and   *)
(* TFCS2DFunctionLateralShapeParametrization place it around the centre of *)
(* the shower, the TFCSHistoLateralShapeWeight classes weigh it,           *)
(* TFCSPhiModulationCorrection corrects its energy for its place in a      *)
(* cell, and TFCSHitCellMappingWiggle and TFCSHitCellMappingWiggleEMB move *)
(* it in phi before it is put into a cell.                                 *)
(*                                                                         *)
(* Angles, weights and random numbers are integers: a turn has 2 * Pi      *)
(* units, a weight of 1 is One, a random number lies in 0 .. Rolls - 1.    *)
(***************************************************************************)
EXTENDS Integers, Sequences, FiniteSets, SequencesExt, FiniteSetsExt, Sums

CONSTANTS
  Pi,          \* half a turn
  CellSize,    \* the size of a cell in phi
  Rolls,       \* how many random numbers there are; even
  One,         \* the weight 1
  Charge,      \* the particles and their charges, ParticleData::charge()
  Loads,       \* modulation files: [min, max, edges, values, shift, opens]
  MaxLoads,    \* a bound on the loads
  Scales,      \* m_modulation_scale, as set_phi_modulation_scale() may set it
  Etas,        \* |eta| of hits
  MeanWeights,     \* histograms of weights, sequences of mean weights
  WeightRange, \* m_minWeight and m_maxWeight
  Functions,   \* m_functions of the wiggle: what each adds to phi, or NoFunction
  FunctionEdges, \* m_bin_low_edge, one more
  Accordion    \* m_wiggleLayer, a cumulative distribution in parts of Rolls

\* The file of a modulation has the borders of the bins of a histogram and as many
\* values as bins.
LoadAssumption(l) ==
  /\ l.min \in Int /\ l.max \in Int /\ l.min < l.max /\ l.shift \in Int
  /\ l.opens \in BOOLEAN
  /\ l.values \in Seq(Int) /\ l.edges \in Seq(Int) /\ Len(l.edges) = Len(l.values) + 1
  /\ \A k, m \in 1 .. Len(l.edges) : k < m => l.edges[k] < l.edges[m]
\* An antiparticle has the opposite charge.
Neg(n) == 0 - n
ChargeAssumption ==
  \A p \in DOMAIN Charge :
    /\ p \in Int /\ Charge[p] \in Int
    /\ Charge[p] # 0 => Neg(p) \in DOMAIN Charge /\ Charge[Neg(p)] = Neg(Charge[p])
\* There are enough random numbers for the probability of refusing a hit, and enough
\* units of phi for the centre of a bin of the accordion.
WeightAssumption(h) ==
  /\ h \in Seq(Int) /\ Len(h) >= 1
  /\ \A b \in 1 .. Len(h) :
       /\ h[b] > One => (One * Rolls) % h[b] = 0
       /\ WeightRange.min < h[b] /\ h[b] < WeightRange.max =>
            (WeightRange.min * Rolls) % h[b] = 0
ASSUME HitShapeAssumption ==
  /\ Pi \in Nat \ {0} /\ CellSize \in Nat \ {0} /\ One \in Nat \ {0}
  /\ Rolls \in Nat \ {0} /\ Rolls % 2 = 0
  /\ \A l \in Loads : LoadAssumption(l)
  /\ Etas \subseteq Int /\ Scales \subseteq Int
  /\ ChargeAssumption
  /\ WeightRange.min \in Nat /\ WeightRange.max \in Int
  /\ \A h \in MeanWeights : WeightAssumption(h)
  /\ Functions \in Seq(Int) /\ FunctionEdges \in Seq(Int)
  /\ Len(FunctionEdges) = Len(Functions) + 1
  /\ Accordion \in Seq(Int) /\ Len(Accordion) >= 1 /\ Accordion[Len(Accordion)] = Rolls
  /\ CellSize % (2 * Len(Accordion)) = 0

VARIABLES
  etaMins,     \* m_min_eta of the layer
  phiMins,     \* m_min_phi
  modulation,  \* m_modulation
  shifts,      \* m_energy_shift
  loads,       \* the loads made
  hit          \* the last hit: what was done to it, with what

modVars == <<etaMins, phiMins, modulation, shifts, loads>>
shapeVars == <<modVars, hit>>

NoHit == [done |-> "nothing"]
NoFunction == 999

-----------------------------------------------------------------------------
\* simulate_hit() of the shapes: with a shape symmetric in phi, the second random
\* number also chooses the side.  The function drawn from gives an angle that rises
\* with that number.
Folded(rnd) ==
  IF rnd >= Rolls \div 2 THEN Neg(2 * (rnd - Rolls \div 2)) ELSE 2 * rnd

\* Antiparticles of what the shapes were made with are mirrored in phi, and what
\* goes to negative eta in eta, except in the FCal.
Mirrored(pid) == (Charge[pid] < 0 /\ pid # 11) \/ pid = Neg(11)
Placed(pid, side, forward, symmetric, rnd) ==
  LET alpha == IF symmetric THEN Folded(rnd) ELSE rnd
  IN  [phi |-> IF Mirrored(pid) THEN Neg(alpha) ELSE alpha,
       eta |-> IF side < 0 /\ ~forward THEN -1 ELSE 1]
ShapeHit(pid, side, forward, symmetric, rnd) ==
  /\ hit' = [done |-> "placed", pid |-> pid, side |-> side, forward |-> forward,
             symmetric |-> symmetric, rnd |-> rnd,
             at |-> Placed(pid, side, forward, symmetric, rnd)]
  /\ UNCHANGED modVars

-----------------------------------------------------------------------------
\* simulate_hit() of the weights: the bin at the hit's distance, or the first or
\* last one, gives the mean and, with a spread, the factor drawn around it.
BinAtDistance(h, bin) == IF bin < 1 THEN 1 ELSE IF bin > Len(h) THEN Len(h) ELSE bin

\* Whether a number is below a probability, num / den.
Below_OrEqual(rnd, num, den) == rnd * den <= num * Rolls
Below(rnd, num, den) == rnd * den < num * Rolls
\* A hit that would get more energy is refused, or weighed, with the probability
\* that keeps the mean.
HitAndMiss(mean, weight, rnd) ==
  IF mean <= One \/ Below(rnd, One, mean) THEN weight ELSE 0
WeightOf(class, mean, factor, rnd) ==
  LET weight == mean * factor
  IN  CASE class \in {"Weight", "GausLogWeight"} -> weight
        [] class = "GausLogWeightHitAndMiss" -> HitAndMiss(mean, weight, rnd)
        [] class = "WeightHitAndMiss" ->
             IF mean >= WeightRange.max THEN WeightRange.max
             ELSE IF mean > WeightRange.min /\ ~Below(rnd, WeightRange.min, mean) THEN 0
             ELSE weight
WeightClasses ==
  {"Weight", "GausLogWeight", "GausLogWeightHitAndMiss", "WeightHitAndMiss"}
WeighHit(class, h, bin, factor, rnd) ==
  LET mean == h[BinAtDistance(h, bin)]
  IN  /\ hit' = [done |-> "weighed", class |-> class, mean |-> mean,
                 weight |-> WeightOf(class, mean, factor, rnd)]
      /\ UNCHANGED modVars

-----------------------------------------------------------------------------
\* upper_bound() - 1 of increasing borders: 0 when all are above.
IndexIn(borders, value) == Cardinality({i \in 1 .. Len(borders) : borders[i] <= value})

\* load_phi_modulation(): borders are added for the range of the file where there
\* are none, each with an empty modulation in all four vectors.
InsertBorder_ShiftAtEnd(v, i, eta) ==
  [eta |-> InsertAt(v.eta, i, eta), phi |-> InsertAt(v.phi, i, <<>>),
   mod |-> InsertAt(v.mod, i, <<>>), shift |-> Append(v.shift, -1)]
InsertBorder(v, i, eta) ==
  [eta |-> InsertAt(v.eta, i, eta), phi |-> InsertAt(v.phi, i, <<>>),
   mod |-> InsertAt(v.mod, i, <<>>), shift |-> InsertAt(v.shift, i, -1)]
AppendBorder(v, eta) == InsertBorder(v, Len(v.eta) + 1, eta)

Started(v, load) ==
  LET first == IF v.eta = <<>> THEN AppendBorder(AppendBorder(v, load.min), load.max) ELSE v
  IN  IF first.eta[1] > load.min THEN InsertBorder(first, 1, load.min) ELSE first

\* The vectors with the borders, and where the range is in them.
WithBorders(v, load) ==
  LET i == IndexIn(v.eta, load.min)
      lower == IF v.eta[i] < load.min THEN InsertBorder(v, i + 1, load.min) ELSE v
      at == IF v.eta[i] < load.min THEN i + 1 ELSE i
  IN  [v |-> IF at = Len(lower.eta) \/ lower.eta[at + 1] > load.max
               THEN InsertBorder(lower, at + 1, load.max) ELSE lower,
       at |-> at]

\* The shift of the call holds also when the file cannot be read; one in the file
\* replaces it.  Bins are appended to those already there.
LoadPhiModulation(load) ==
  LET v == Started([eta |-> etaMins, phi |-> phiMins, mod |-> modulation, shift |-> shifts],
                   load)
      b == WithBorders(v, load)
  IN  /\ Len(loads) < MaxLoads
      /\ loads' = Append(loads, load)
      /\ etaMins' = b.v.eta
      /\ phiMins' = IF load.opens THEN [b.v.phi EXCEPT ![b.at] = @ \o load.edges] ELSE b.v.phi
      /\ modulation' = IF load.opens THEN [b.v.mod EXCEPT ![b.at] = @ \o load.values]
                       ELSE b.v.mod
      /\ shifts' = [b.v.shift EXCEPT ![b.at] = load.shift]
      /\ hit' = NoHit
ClearModulation ==
  /\ loads # <<>>
  /\ etaMins' = <<>> /\ phiMins' = <<>> /\ modulation' = <<>> /\ shifts' = <<>>
  /\ loads' = <<>> /\ hit' = NoHit

\* get_eta_and_phi_index(): the place of a hit in its cell, of which there is a
\* whole number in a turn.
WithinCell(phi) == phi % CellSize
CellPhi(phi) == (phi \div CellSize) * CellSize + CellSize \div 2
EtaIndex(eta) == IndexIn(etaMins, eta)
EtaFails(eta) == EtaIndex(eta) = 0 \/ EtaIndex(eta) >= Len(etaMins)
PhiIndex(eta, phi) == IndexIn(phiMins[EtaIndex(eta)], WithinCell(phi - CellPhi(phi)))
Modulated(eta, phi) ==
  /\ etaMins # <<>> /\ ~EtaFails(eta)
  /\ phiMins[EtaIndex(eta)] # <<>>
  /\ PhiIndex(eta, phi) \in 1 .. Len(modulation[EtaIndex(eta)])

\* add_phi_modulation(): the energy is left alone, and not shifted, without a scale
\* and when no modulation is found.
Scaled(value, scale) == (value - 1) * scale + 1
AddPhiModulation(eta, phi, scale) ==
  /\ hit' = [done |-> "modulated", eta |-> eta, phi |-> phi, scale |-> scale,
             factor |-> IF scale > 0 /\ Modulated(eta, phi)
                        THEN Scaled(modulation[EtaIndex(eta)][PhiIndex(eta, phi)], scale)
                               * shifts[EtaIndex(eta)]
                        ELSE 1]
  /\ UNCHANGED modVars

-----------------------------------------------------------------------------
\* Phi_mpi_pi(): the angle between -Pi and Pi.
MpiPi(phi) == ((phi + Pi) % (2 * Pi)) - Pi

\* TFCSHitCellMappingWiggle::simulate_hit(): the function of the hit's eta adds to
\* its phi; there may be none, and none beyond the borders.
FunctionAt(eta) ==
  IF eta < FunctionEdges[1] \/ eta >= FunctionEdges[Len(FunctionEdges)] THEN NoFunction
  ELSE Functions[IndexIn(FunctionEdges, eta)]
WiggleHit(eta, phi) ==
  /\ hit' = [done |-> "wiggled", by |-> FunctionAt(eta), phi |-> phi,
             to |-> IF FunctionAt(eta) = NoFunction THEN phi ELSE MpiPi(phi + FunctionAt(eta))]
  /\ UNCHANGED modVars

\* doWiggle() of TFCSHitCellMappingWiggleEMB: the centre of the bin of the
\* cumulative distribution, as a part of a cell, symmetric around 0.  BinarySearch()
\* finds the last value not above the number, and -1 below all.
ChosenBin(rnd) == IndexIn(Accordion, rnd) - 1
DoWiggle(rnd) ==
  ((2 * (ChosenBin(rnd) + 1) - Len(Accordion) + 1) * CellSize) \div (2 * Len(Accordion))
WiggleEMB(layer, phi, rnd) ==
  LET wiggle == IF layer \in {1, 2, 3} THEN DoWiggle(rnd) ELSE 0
  IN  /\ hit' = [done |-> "wiggledEMB", by |-> Neg(wiggle), phi |-> phi,
                 to |-> MpiPi(phi - wiggle)]
      /\ UNCHANGED modVars

ShapeInit ==
  /\ etaMins = <<>> /\ phiMins = <<>> /\ modulation = <<>> /\ shifts = <<>>
  /\ loads = <<>> /\ hit = NoHit

-----------------------------------------------------------------------------
\* A shower and that of the antiparticle, made with the same random numbers, are
\* mirror images in phi, and so are the two halves of a shape symmetric in phi; to
\* the other side in eta, outside the FCal, in eta
\* (TFCS2DFunctionLateralShapeParametrization.cxx:94-136).
MirrorImages ==
  hit.done = "placed" =>
    LET At(pid, side, rnd) == Placed(pid, side, hit.forward, hit.symmetric, rnd)
    IN  /\ Charge[hit.pid] # 0 =>
             At(Neg(hit.pid), hit.side, hit.rnd).phi = Neg(hit.at.phi)
        /\ At(hit.pid, Neg(hit.side), hit.rnd).eta
             = (IF hit.forward THEN hit.at.eta ELSE Neg(hit.at.eta))
        /\ hit.symmetric =>
             At(hit.pid, hit.side, (hit.rnd + Rolls \div 2) % Rolls).phi = Neg(hit.at.phi)

\* Refusing hits does not change the mean energy: on average a hit gets the mean
\* weight, or, where hits are refused, the largest that needs no refusing
\* (TFCSHistoLateralShapeGausLogWeightHitAndMiss.cxx:63-81,
\* TFCSHistoLateralShapeWeightHitAndMiss.cxx:82-89).
ExpectedWeight(class, mean) ==
  CASE class \in {"Weight", "GausLogWeight"} -> mean
    [] class = "GausLogWeightHitAndMiss" -> IF mean > One THEN One ELSE mean
    [] class = "WeightHitAndMiss" ->
         IF mean >= WeightRange.max THEN WeightRange.max
         ELSE IF mean > WeightRange.min THEN WeightRange.min ELSE mean
MeanWeightKept ==
  hit.done = "weighed" =>
    SumUpTo([i \in 1 .. Rolls |-> WeightOf(hit.class, hit.mean, 1, i - 1)], Rolls)
      = Rolls * ExpectedWeight(hit.class, hit.mean)

\* What the loads say of a hit: the files for its eta, its place in the cell, and
\* the bins at that place.
LoadsFor(eta) ==
  {i \in 1 .. Len(loads) : loads[i].opens /\ loads[i].min <= eta /\ eta < loads[i].max}
PlaceOf(phi) == ((phi % CellSize) + CellSize - CellSize \div 2) % CellSize
BinsAt(load, place) ==
  {k \in 1 .. Len(load.values) : load.edges[k] <= place /\ place < load.edges[k + 1]}
OfBins(load, bins, scale) ==
  IF bins = {} THEN 1
  ELSE Scaled(load.values[CHOOSE k \in bins : TRUE], scale) * load.shift
FactorFor(eta, phi, scale) ==
  LET load == loads[CHOOSE i \in LoadsFor(eta) : TRUE]
  IN  IF scale <= 0 \/ LoadsFor(eta) = {} THEN 1
      ELSE OfBins(load, BinsAt(load, PlaceOf(phi)), scale)

\* Files for ranges of eta that do not overlap may be loaded in any order, and again
\* when one could not be opened: a hit gets the modulation, scaled, and the shift of
\* the file for its eta, at its place in the cell, and is left alone elsewhere
\* (TFCSPhiModulationCorrection.cxx:51-117).
SameRange(a, b) == a.min = b.min /\ a.max = b.max
Apart ==
  \A j \in 1 .. Len(loads), i \in 1 .. Len(loads) :
    i < j => \/ loads[i].max <= loads[j].min \/ loads[j].max <= loads[i].min
             \/ SameRange(loads[i], loads[j]) /\ ~loads[i].opens
ModulationOfItsRange ==
  hit.done = "modulated" /\ Apart => hit.factor = FactorFor(hit.eta, hit.phi, hit.scale)

\* A hit is moved by less than half a cell, or by what the function says, and stays
\* a proper angle (TFCSHitCellMappingWiggleEMB.cxx:69-120).
WiggledInsideItsCell ==
  /\ hit.done \in {"wiggled", "wiggledEMB"} /\ hit.by # NoFunction =>
       /\ -Pi <= hit.to /\ hit.to < Pi
       /\ (hit.to - hit.phi - hit.by) % (2 * Pi) = 0
  /\ hit.done = "wiggledEMB" => 2 * hit.by < CellSize /\ -CellSize < 2 * hit.by

\* A hit lies where the symmetry, the weight where the mean, and the cell where
\* the wiggle says.
HitsKeepTheirShape == MirrorImages /\ MeanWeightKept /\ WiggledInsideItsCell
=============================================================================
