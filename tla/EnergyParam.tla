----------------------------- MODULE EnergyParam -----------------------------
(***************************************************************************)
(* The parametrizations that decide how much energy a shower has and how it *)
(* is shared between the layers: TFCSInitWithEkin, the energy               *)
(* interpolations, TFCSEnergyBinParametrization and                         *)
(* TFCSPCAEnergyParametrization.  One operator per simulate().              *)
(***************************************************************************)
EXTENDS SimState, Sequences, SequencesExt

CONSTANTS
  KeV,       \* the kinetic energy below which its logarithm is not taken
  Log,       \* of each kinetic energy from KeV on, a number that ascends with it
  Responses, \* of each energy interpolation: kind, points, scale
  Tables,    \* of each energy bin parametrization and pdg id, the cumulative
             \* probabilities of the bins 0, 1, ...
  Draws,     \* of each PCA and energy bin, what the cumulative functions may
             \* yield: the response in total and a share per relevant layer
  Ratios,    \* m_totalE_probability_ratio: of a PCA and a bin that has one
  Norm       \* m_total_energy_normalization

ASSUME EnergyAssumption ==
  /\ \A t \in DOMAIN Tables : \A id \in DOMAIN Tables[t] : Tables[t][id] \in Seq(Nat) \ {<<>>}
  /\ Norm \in Nat \ {0}

\* TFCSInitWithEkin.
InitWithEkin(ekin) == etot' = ekin /\ UNCHANGED <<ebin, e, efrac>>

-----------------------------------------------------------------------------
\* The energy interpolations: a line in the kinetic energy, or a response that
\* multiplies the kinetic energy or, with OnlyScaleEnergy(), the energy so far.
X(points, i) == points[i][1]
Y(points, i) == points[i][2]

\* The point at or before x, the last but one at most.
Segment(points, x) ==
  Max({i \in 1 .. Len(points) - 1 : i = 1 \/ X(points, i) <= x})

\* Interpolated between the points and straight on above the last; constant below
\* the first.
OnSegment(points, i, x) ==
  Y(points, i) + ((Y(points, i + 1) - Y(points, i)) * (x - X(points, i)))
                   \div (X(points, i + 1) - X(points, i))
Extrapolated(points, x) ==
  IF x < X(points, 1) THEN Y(points, 1) ELSE OnSegment(points, Segment(points, x), x)

\* The bin of a histogram, the first and the last one beyond its ends.
InBin(points, x) == Y(points, Max({i \in 1 .. Len(points) : i = 1 \/ X(points, i) <= x}))

LogEkin(ekin) == Log[IF ekin > KeV THEN ekin ELSE KeV]

Response(r, ekin, e0) ==
  IF r.kind = "histogram" THEN InBin(r.points, e0) ELSE Extrapolated(r.points, LogEkin(ekin))

Interpolated(r, ekin) ==
  IF r.kind = "linear" THEN r.points[1][1] * ekin + r.points[1][2]
  ELSE LET e0 == IF r.scale THEN etot ELSE ekin IN Response(r, ekin, e0) * e0

Interpolate(r, ekin) ==
  etot' = Interpolated(Responses[r], ekin) /\ UNCHANGED <<ebin, e, efrac>>

-----------------------------------------------------------------------------
\* TMath::BinarySearch(): the place of the first value that is x, or else of the
\* last one below x, -1 if there is none; counted from 0.
BinarySearch(table, x) ==
  LET same == {i \in 1 .. Len(table) : table[i] = x}
      below == {i \in 1 .. Len(table) : table[i] < x}
  IN  IF same # {} THEN Min(same) - 1 ELSE Cardinality(below) - 1

ChosenBin(table, x) ==
  LET bin == BinarySearch(table, x) + 1
      nbins == Len(table) - 1
  IN  IF bin < 0 THEN 0 ELSE IF bin > nbins THEN nbins ELSE bin

\* TFCSEnergyBinParametrization::simulate(): the particle's own table, or the one
\* for id 0; without either it fails.
MatchedId(t, id) == IF id \in DOMAIN Tables[t] THEN id ELSE 0
CanBin(t, id) == MatchedId(t, id) \in DOMAIN Tables[t]
ChooseBin(t, id, x) ==
  ebin' = ChosenBin(Tables[t][MatchedId(t, id)], x) /\ UNCHANGED <<etot, e, efrac>>

-----------------------------------------------------------------------------
\* TFCSPCAEnergyParametrization::simulate(), without energy in bin 0; in another
\* bin what the cumulative functions have drawn, scaled so that the fractions
\* add up to one.
NoEnergy ==
  /\ etot' = 0
  /\ e' = [l \in Layers |-> 0] /\ efrac' = [l \in Layers |-> <<0, 1>>]
  /\ UNCHANGED ebin

Relevant(draw) == DOMAIN draw.share
ShareOf(draw, l) == IF l \in Relevant(draw) THEN draw.share[l] ELSE 0
SumOfShares(draw) == MapThenSumSet(LAMBDA l : draw.share[l], Relevant(draw))

ShareEnergy(draw) ==
  LET total == (draw.total * etot) \div Norm
  IN  /\ etot' = total
      /\ efrac' = [l \in Layers |-> <<ShareOf(draw, l), SumOfShares(draw)>>]
      /\ e' = [l \in Layers |-> (ShareOf(draw, l) * total) \div SumOfShares(draw)]
      /\ UNCHANGED ebin

\* The hit-and-miss histogram of a bin, if there is one: the draw passes with a
\* probability, none outside the range, interpolated between the bin centres.  The
\* list of histograms is one shorter than the list of bins.
RatioSlots(pca) == Cardinality(DOMAIN Draws[pca]) - 1
HasRatio(pca) == ebin - 1 < RatioSlots(pca) /\ <<pca, ebin>> \in DOMAIN Ratios
BetweenCentres(points, x) ==
  IF x <= X(points, 1) THEN Y(points, 1)
  ELSE IF x >= X(points, Len(points)) THEN Y(points, Len(points))
  ELSE OnSegment(points, Segment(points, x), x)
PassProbability(ratio, x) ==
  IF ratio.low < x /\ x < ratio.up THEN BetweenCentres(ratio.points, x) ELSE 0
Rejects(pca, draw, random) ==
  HasRatio(pca) /\ random > PassProbability(Ratios[<<pca, ebin>>], draw.total)

\* It asks for a retry before anything is changed.
RejectDraw_AfterChange(draw) ==
  etot' = (draw.total * etot) \div Norm /\ UNCHANGED <<ebin, e, efrac>>
RejectDraw(draw) == UNCHANGED <<ebin, etot, e, efrac>>

\* There are tables for the bins 1, 2, ... only.
HasTables(pca) == ebin \in {0} \cup DOMAIN Draws[pca]
=============================================================================
