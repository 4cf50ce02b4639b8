---------------------------- MODULE FitFunctions ---------------------------
(***************************************************************************)
(* The functions fitted to a histogram: TFCS1DFunctionHistogram, which     *)
(* merges bins of a cumulated histogram as long as it stays close to it,   *)
(* and TFCS1DFunctionSpline, which moves the knots of a spline at random   *)
(* and keeps the best one it has seen.                                     *)
(*                                                                         *)
(* Contents and probabilities are integers, in parts of Whole; a mean of   *)
(* contents is rounded down.  How far a spline is from the histogram, its  *)
(* penalty, is a number chosen freely.                                     *)
(***************************************************************************)
EXTENDS Integers, Sequences, FiniteSetsExt, SequencesExt

CONSTANTS
  Whole,        \* the probability 1
  Cumulative,   \* cumulated histograms: [border |-> n+1 borders, content |-> n]
  Cuts,         \* cut_maxdev, in parts of Whole
  Penalties,    \* the penalties of splines
  MaxKnots,     \* maxnp
  FirstStep,    \* 0.4 / nsplinepoints, the first distance knots are moved
  LastStep,     \* 0.02 / nsplinepoints, where the loop over distances ends
  MaxTries,     \* ntry
  MaxNoGain,    \* 20 / p_gotobest, how often in a row a spline may be no better
  MaxMerges     \* the limit of i, 1000

\* The histograms are cumulated ones: borders ascend, contents do not fall.
IsCumulative(h) ==
  /\ h \in [border : Seq(Int), content : Seq(0 .. Whole)]
  /\ Len(h.content) >= 1 /\ Len(h.border) = Len(h.content) + 1
  /\ \A b, c \in 1 .. Len(h.border) : b < c => h.border[b] < h.border[c]
  /\ \A b \in 2 .. Len(h.content) : h.content[b - 1] <= h.content[b]
ASSUME FitAssumption ==
  /\ Whole \in Nat \ {0} /\ FirstStep \in Nat /\ LastStep \in Nat
  /\ MaxTries \in Nat \ {0} /\ MaxNoGain \in Nat /\ MaxMerges \in Nat /\ MaxKnots \in Nat /\ Penalties \subseteq Nat
  /\ Cuts \subseteq Int
  /\ \A h \in Cumulative : IsCumulative(h)

VARIABLES
  input,    \* the histogram to fit
  cut,      \* cut_maxdev
  rebinned, \* h_input: the histogram merged so far
  merges,   \* how often bins were merged
  piece,    \* the piece of the function a number fell in: [rnd, x1, x2, y1, y2]
  stage,    \* which initialisation of the spline is done
  np,       \* number of knots
  try,      \* nprop_try: the knots tried
  best,     \* nprop and sp_best: [knots, penalty] of the best of this stage
  kept,     \* the best of all stages, in Initialize()
  step,     \* dproploop and dprop: [loop, now]
  noGain,   \* n_nogain
  tries,    \* itry
  seen      \* the smallest penalty of all splines made

rebinVars == <<input, cut, rebinned, merges, piece>>
splineVars == <<stage, np, try, best, kept, step, noGain, tries, seen>>
fitVars == <<rebinVars, splineVars>>

NoFit == [border |-> <<>>, content |-> <<>>]
NoPiece == [rnd |-> -1, x1 |-> 0, x2 |-> 0, y1 |-> 0, y2 |-> 0]
NoSpline == [knots |-> <<>>, penalty |-> -1]

-----------------------------------------------------------------------------
\* get_change(): the smallest rise from one bin to the next, the last bin aside.
Size(h) == Len(h.content)
Rise(h, b) == h.content[b + 1] - h.content[b]
GetChange(h) ==
  Min({100 * Whole} \cup {Rise(h, b) : b \in {c \in 1 .. Size(h) - 2 : Rise(h, c) > 0}})

\* smart_rebin(): the first two neighbours that differ by no more are merged, the
\* last bin never.
Mean(h, b) ==
  LET width(i) == h.border[i + 1] - h.border[i]
  IN  (h.content[b] * width(b) + h.content[b + 1] * width(b + 1))
        \div (width(b) + width(b + 1))
Pairs(h) == {b \in 1 .. Size(h) - 2 : Rise(h, b) <= GetChange(h)}
MergePair(h, b) ==
  [border |-> RemoveAt(h.border, b + 1),
   content |-> [RemoveAt(h.content, b + 1) EXCEPT ![b] = Mean(h, b)]]
SmartRebin(h) == IF Pairs(h) = {} THEN h ELSE MergePair(h, Min(Pairs(h)))

\* get_maxdev(): over the bins of the histogram to fit, the distance to the bin
\* that holds its centre.
BinAt(h, twice) == Max({b \in 1 .. Size(h) : 2 * h.border[b] <= twice})
Deviation(h, i) ==
  LET there == h.content[BinAt(h, input.border[i] + input.border[i + 1])]
  IN  IF there > input.content[i] THEN there - input.content[i]
      ELSE input.content[i] - there
MaxDev(h) == Max({Deviation(h, i) : i \in 1 .. Size(input)})

\* smart_rebin_loop(): the merged histogram is taken when it is close enough and
\* has more than five bins, so many times at most; otherwise the one before is stored.
Acceptable_BinsOfBefore(h) == MaxDev(rebinned) < cut /\ Size(h) > 5
Acceptable(h) == MaxDev(h) < cut /\ Size(h) > 5
Rebin ==
  LET out == IF merges = 0 THEN rebinned ELSE SmartRebin(rebinned)
  IN  /\ Acceptable(out) /\ merges < MaxMerges
      /\ rebinned' = out /\ merges' = merges + 1
      /\ UNCHANGED <<input, cut, piece, splineVars>>
StoreRebinned ==
  LET out == IF merges = 0 THEN rebinned ELSE SmartRebin(rebinned)
  IN  /\ ~(Acceptable(out) /\ merges < MaxMerges)
      /\ rebinned' = [rebinned EXCEPT !.content[Size(rebinned)] = Whole]
      /\ UNCHANGED <<input, cut, merges, piece, splineVars>>

\* get_inverse(): the piece of the function a number falls in.  The last piece but
\* one is taken to reach to the end of the histogram.
Piece(h, rnd) ==
  LET i == IF \E j \in 1 .. Size(h) : h.content[j] > rnd
             THEN Min({j \in 1 .. Size(h) : h.content[j] > rnd})
             ELSE Size(h)
      toEnd == i > 1 /\ i + 1 = Size(h)
  IN  [rnd |-> rnd,
       x1 |-> h.border[i],
       x2 |-> IF toEnd THEN h.border[Size(h) + 1] ELSE h.border[i + 1],
       y1 |-> IF i = 1 THEN 0 ELSE h.content[i - 1],
       y2 |-> IF toEnd THEN h.content[Size(h)] ELSE h.content[i]]
GetInverse(rnd) ==
  /\ piece' = Piece(rebinned, rnd)
  /\ UNCHANGED <<input, cut, rebinned, merges, splineVars>>

-----------------------------------------------------------------------------
\* The knots a stage of TFCS1DFunctionSpline::Initialize() starts with.  Those at
\* equal distances lie where the function reaches them, which is the same place for
\* two of them inside a gap of the histogram.
EqualProbability(n) == {[i \in 1 .. n |-> ((i - 1) * Whole) \div (n - 1)]}
EqualDistance(n) ==
  {k \in [1 .. n -> {0, Whole \div 4, Whole \div 2, Whole}] :
     k[1] = 0 /\ \A i \in 2 .. n : k[i - 1] <= k[i]}
\* InitializeFromSpline(): the best spline so far, with a knot in the middle of
\* the interval that is to be improved.
Inserted(knots, p) ==
  LET n == Len(knots)
      below == Cardinality({j \in 1 .. n : knots[j] < p})
      left == IF below = 0 THEN 0 ELSE knots[below]
      right == IF below = n THEN Whole ELSE knots[below + 1]
  IN  IF \E j \in 1 .. n : knots[j] = p THEN knots
      ELSE InsertAt(knots, below + 1, (left + right) \div 2)
FromSpline == {Inserted(kept.knots, p) : p \in {0, Whole \div 8, Whole \div 2 + 1, Whole}}

Stages == <<"spline", "distance", "probability", "compare">>
StartKnots ==
  CASE stage = "spline" -> FromSpline
    [] stage = "distance" -> EqualDistance(np)
    [] stage = "probability" -> EqualProbability(np)

\* Initialize(): one stage after the other, and a spline with one more knot until
\* the penalty is below 2.  The first stage needs a spline to start from.
StartStage ==
  /\ stage \in {"spline", "distance", "probability"} /\ try = <<>>
  /\ ~(stage = "spline" /\ kept.penalty <= 0)
  /\ try' \in StartKnots
  /\ best' = NoSpline
  /\ step' = [loop |-> FirstStep, now |-> FirstStep] /\ tries' = 0 /\ noGain' = 0
  /\ UNCHANGED <<rebinVars, stage, np, kept, seen>>
SkipStage ==
  /\ stage = "spline" /\ try = <<>> /\ kept.penalty <= 0
  /\ stage' = "distance"
  /\ UNCHANGED <<rebinVars, np, try, best, kept, step, noGain, tries, seen>>

\* optimize(): the spline with the knots tried is kept if it is better, otherwise
\* the best may be gone back to; then a knot is moved unless that brings it too
\* close to a neighbour, which halves the step.  Too many splines in a row that are
\* no better end the loop.
Proposed(knots, i, d, now) ==
  LET StayIf(close, p) == IF close THEN [at |-> knots[i], now |-> p.now \div 2] ELSE p
      p0 == [at |-> knots[i] + d, now |-> now]
      p1 == StayIf(knots[i - 1] + p0.now \div 2 > p0.at, p0)
      p2 == StayIf(i < Len(knots) /\ p1.at > knots[i + 1] - p1.now \div 2, p1)
  IN  [at |-> IF p2.at < 0 THEN 0 ELSE IF p2.at > Whole THEN Whole ELSE p2.at,
       now |-> IF p2.at < 0 \/ p2.at > Whole THEN p2.now \div 2 ELSE p2.now]

Better(penalty) == best.penalty < 0 \/ penalty < best.penalty
TryKnots(penalty, goBack, i, up) ==
  LET better == Better(penalty)
      from == IF ~better /\ goBack THEN best.knots ELSE try
      d == IF up THEN step.now ELSE -step.now
  IN  /\ try # <<>> /\ tries < MaxTries /\ i \in 2 .. Len(try)
      /\ better => ~goBack
      /\ better \/ noGain < MaxNoGain
      /\ noGain' = IF better THEN 0 ELSE noGain + 1
      /\ best' = IF better THEN [knots |-> try, penalty |-> penalty] ELSE best
      /\ seen' = IF seen < 0 \/ penalty < seen THEN penalty ELSE seen
      /\ try' = [from EXCEPT ![i] = Proposed(from, i, d, step.now).at]
      /\ step' = [step EXCEPT !.now = Proposed(from, i, d, step.now).now]
      /\ tries' = tries + 1
      /\ UNCHANGED <<rebinVars, stage, np, kept>>

GiveUp(penalty) ==
  /\ try # <<>> /\ tries < MaxTries /\ ~Better(penalty) /\ noGain = MaxNoGain
  /\ seen' = IF penalty < seen THEN penalty ELSE seen
  /\ tries' = MaxTries
  /\ UNCHANGED <<rebinVars, stage, np, try, best, kept, step, noGain>>

\* The next, smaller step starts from the best knots; after the last one the
\* stage is over, and Initialize() compares.
SmallerStep ==
  /\ try # <<>> /\ tries = MaxTries /\ step.loop \div 2 > LastStep
  /\ try' = best.knots
  /\ step' = [loop |-> step.loop \div 2, now |-> step.loop \div 2] /\ tries' = 0 /\ noGain' = 0
  /\ UNCHANGED <<rebinVars, stage, np, best, kept, seen>>
FinishStage ==
  /\ try # <<>> /\ tries = MaxTries /\ step.loop \div 2 <= LastStep
  /\ kept' = IF kept.penalty < 0 \/ best.penalty < kept.penalty THEN best ELSE kept
  /\ stage' = Stages[CHOOSE k \in 2 .. 4 : Stages[k - 1] = stage]
  /\ try' = <<>> /\ best' = NoSpline
  /\ UNCHANGED <<rebinVars, np, step, noGain, tries, seen>>
MoreKnots ==
  /\ stage = "compare" /\ kept.penalty >= 2 /\ np < MaxKnots
  /\ np' = np + 1 /\ stage' = "spline"
  /\ UNCHANGED <<rebinVars, try, best, kept, step, noGain, tries, seen>>
TakeSpline ==
  /\ stage = "compare" /\ (kept.penalty < 2 \/ np = MaxKnots)
  /\ stage' = "done"
  /\ UNCHANGED <<rebinVars, np, try, best, kept, step, noGain, tries, seen>>

FitInit(toRebin, toSpline) ==
  /\ input \in (IF toRebin THEN Cumulative ELSE {NoFit})
  /\ cut \in (IF toRebin THEN Cuts ELSE {0})
  /\ rebinned = input /\ merges = 0 /\ piece = NoPiece
  /\ stage = (IF toSpline THEN "spline" ELSE "idle")
  /\ np = 3 /\ try = <<>> /\ best = NoSpline /\ kept = NoSpline
  /\ step = [loop |-> 0, now |-> 0] /\ noGain = 0 /\ tries = 0 /\ seen = -1

-----------------------------------------------------------------------------
\* The histogram kept has borders of the input, from its first to its last, rises
\* as the input does, has more than five bins or all of them, and is nowhere
\* farther from the input than the cut, but for its last bin
\* (TFCS1DFunctionHistogram.cxx:83-143, 176-235).
RebinnedWithinCut ==
  input # NoFit =>
    /\ \A b \in DOMAIN rebinned.border :
         \E c \in DOMAIN input.border : rebinned.border[b] = input.border[c]
    /\ rebinned.border[1] = input.border[1]
    /\ rebinned.border[Len(rebinned.border)] = input.border[Len(input.border)]
    /\ \A b \in 1 .. Size(rebinned) :
         /\ rebinned.border[b] < rebinned.border[b + 1]
         /\ b > 1 => rebinned.content[b - 1] <= rebinned.content[b]
    /\ Size(rebinned) > 5 \/ Size(rebinned) = Size(input)
    /\ merges > 1 =>
         \A i \in 1 .. Size(input) - 1 : Deviation(rebinned, i) < cut

\* A value comes from a piece of the function that holds the random number
\* (TFCS1DFunctionHistogram.cxx:280-318).
InverseInItsPiece ==
  piece # NoPiece =>
    /\ piece.y1 <= piece.rnd /\ piece.rnd < piece.y2 /\ piece.x1 < piece.x2

\* However knots are moved, added and gone back to, they stay in order and inside
\* 0 and 1 (TFCS1DFunctionSpline.cxx:296-323).
InOrder(knots) ==
  /\ \A i \in DOMAIN knots : knots[i] \in 0 .. Whole
  /\ \A i \in 2 .. Len(knots) : knots[i - 1] <= knots[i]
KnotsStayOrdered == InOrder(try) /\ InOrder(best.knots) /\ InOrder(kept.knots)

\* Over all stages and numbers of knots, the spline taken is the best one made
\* (TFCS1DFunctionSpline.cxx:17-65).
KeptIsTheBest == stage \in {"compare", "done"} => kept.penalty = seen

\* What a function is fitted to decides what it gives: the rebinned histogram is
\* close to it, its inverse in the right piece, the knots in order, the best kept.
FitsFollowTheInput ==
  RebinnedWithinCut /\ InverseInItsPiece /\ KnotsStayOrdered /\ KeptIsTheBest
=============================================================================
