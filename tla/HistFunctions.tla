--------------------------- MODULE HistFunctions ---------------------------
(***************************************************************************)
(* The functions made from histograms, which turn a random number into a   *)
(* value distributed as the histogram: TFCS1DFunctionTemplateHistogram and *)
(* TFCS2DFunctionTemplateHistogram, which keep borders and cumulative      *)
(* contents in integers of 8, 16 or 32 bits, their interpolating variants, *)
(* TFCS1DFunctionInt16Histogram and TFCS2DFunctionHistogram.               *)
(*                                                                         *)
(* Positions are counted from 0 as in the code.  Borders of histograms and *)
(* their contents are integers.  A value drawn is the bin of the function  *)
(* and the place in it, a fraction num/den of its width; the shape of the  *)
(* interpolation inside a bin is left out, the densities it is made from   *)
(* are not.                                                                *)
(***************************************************************************)
EXTENDS Integers, Sequences, FiniteSets, FiniteSetsExt

CONSTANTS
  Histograms1D,  \* [low |-> borders 0 .. n, cont |-> contents 0 .. n-1]
  Histograms2D,  \* [x |-> borders, y |-> borders, cont |-> <<x, y>> -> content]
  Bits           \* the widths of integers used: 8 and 16, with 32 contents overflow

\* Histograms have at least two bins in one dimension, one in two, and borders that
\* ascend; one of a single bin would be read beyond its end.
Assumption1D(h) ==
  LET n == Cardinality(DOMAIN h.cont)
  IN  /\ n \in Nat \ {0, 1} /\ h.cont \in [0 .. n - 1 -> Int] /\ h.low \in [0 .. n -> Int]
      /\ \A i, j \in 0 .. n : i < j => h.low[i] < h.low[j]
Assumption2D(h) ==
  /\ h.x \in Seq(Int) /\ h.y \in Seq(Int) /\ Len(h.x) >= 2 /\ Len(h.y) >= 2
  /\ h.cont \in [(0 .. Len(h.x) - 2) \X (0 .. Len(h.y) - 2) -> Int]
ASSUME HistAssumption ==
  /\ Bits \subseteq {8, 16}
  /\ \A w \in {8, 16} : 2 ^ w \in Nat /\ 2 ^ w >= 2
  /\ \A h \in Histograms1D : Assumption1D(h)
  /\ \A h \in Histograms2D : Assumption2D(h)

VARIABLES
  doing,  \* what is done next: "check", "merge", "resize", "ready" or other parts
  cls,    \* the class of the function: [form, draw, x, y, z]
  hist,   \* the histogram it is made from
  sum,    \* temp_HistoContents, the cumulated contents
  ibin,   \* the next bin of the histogram
  ihist,  \* the next bin of the function
  nbins,  \* its number of bins
  low,    \* m_HistoBorders: the borders stored, in units of the full range
  frac,   \* m_HistoContents: the cumulative contents stored
  drawn   \* the last value drawn: [rnd, bin, num, den, slope], or Nothing

histVars == <<cls, hist, sum, ibin, ihist, nbins, low, frac, drawn>>

Nothing == [rnd |-> -1, bin |-> <<0>>, num |-> 0, den |-> 1, slope |-> <<>>]
NoHist == [low |-> <<>>]
NoClass == [form |-> "none", draw |-> "flat", x |-> 0, y |-> 0, z |-> 0]

-----------------------------------------------------------------------------
\* The widths there are classes of: of the borders and the contents.
Family1D == {<<8, 8>>, <<8, 16>>, <<8, 32>>, <<16, 16>>, <<16, 32>>, <<32, 32>>}
Interpolated1D == {<<8, 8>>, <<8, 16>>, <<16, 16>>, <<16, 32>>}
Family2D == {8, 16, 32} \X {8, 16, 32} \X {8, 16, 32}
Interpolated2D == Family2D
Exponential2D == Family2D
Known(widths) == \A i \in DOMAIN widths : widths[i] \in Bits

Class(form, draw, x, y, z) == [form |-> form, draw |-> draw, x |-> x, y |-> y, z |-> z]
Classes1D ==
  {Class("template", "flat", w[1], 0, w[2]) : w \in {v \in Family1D : Known(v)}}
  \cup {Class("template", "linear", w[1], 0, w[2]) : w \in {v \in Interpolated1D : Known(v)}}
  \cup {Class("plain", "flat", 0, 0, 16)}
Classes2D ==
  {Class("two", "flat", w[1], w[2], w[3]) : w \in {v \in Family2D : Known(v)}}
  \cup {Class("two", "linear", w[1], w[2], w[3]) : w \in {v \in Interpolated2D : Known(v)}}
  \cup {Class("two", "exponential", w[1], w[2], w[3]) : w \in {v \in Exponential2D : Known(v)}}
  \cup {Class("plain2", "flat", 0, 0, 0)}

\* MaxValue and the number of levels of an integer of w bits.
MaxValue(w) == 2 ^ w - 1
Levels(w) == 2 ^ w
CeilDiv(a, b) == (a + b - 1) \div b

-----------------------------------------------------------------------------
\* CheckAndIntegrate1DHistogram(): contents below 0 count as 0; first is the
\* first bin with content.  last++ comes after the search, also when the search
\* has gone down to bin 0 without a difference.
Positive(v) == IF v < 0 THEN 0 ELSE v
Cumulated(c, n) ==
  LET upTo[i \in 0 .. n - 1] == Positive(c[i]) + IF i = 0 THEN 0 ELSE upTo[i - 1]
  IN  upTo
Count(h) == Cardinality(DOMAIN h.cont)
Total == sum[Cardinality(DOMAIN sum) - 1]
FirstBin == Min({i \in DOMAIN sum : sum[i] # 0})
LastBin == 1 + Max({0} \cup {i \in DOMAIN sum \ {0} : sum[i] # Total})

\* The bins of a histogram of two dimensions, in the order they are cumulated:
\* y inside x, and x inside y for TFCS2DFunctionHistogram.
Nx == Cardinality(DOMAIN hist.x) - 1
Ny == Cardinality(DOMAIN hist.y) - 1
Bin2D(i) == <<i \div Ny, i % Ny>>
Bin2DPlain(i) == <<i % Nx, i \div Nx>>

-----------------------------------------------------------------------------
\* ExpandToMaxRange(): the level of a border between the minimum and the maximum
\* of the function, and MaxCeilOnlyForInt() of a cumulated content.
Level(value, min, max, w) == ((value - min) * Levels(w)) \div (max - min)
StoredLevel(b) ==
  Level(hist.low[b], hist.low[FirstBin], hist.low[LastBin + 1], cls.x)
StoredContent(b) == CeilDiv(MaxValue(cls.z) * sum[b], Total)

\* set_fraction() and get_fraction(): the last bin is not stored.
SetFraction(f, pos, value) == IF pos >= nbins - 1 THEN f ELSE [f EXCEPT ![pos] = value]
GetFraction(f, pos) == IF pos >= nbins - 1 THEN MaxValue(cls.z) ELSE f[pos]

Zeros(n) == [i \in 0 .. n - 1 |-> 0]

\* TFCS1DFunctionTemplateHistogram::Initialize(), up to its loop over the bins.
Check1D ==
  /\ doing = "check" /\ cls.form = "template"
  /\ sum' = Cumulated(hist.cont, Count(hist))
  /\ IF sum'[Count(hist) - 1] <= 0
       THEN /\ nbins' = 0 /\ doing' = "ready"
            /\ UNCHANGED <<ibin, ihist, low, frac>>
       ELSE /\ nbins' = Count(hist)
            /\ low' = Zeros(nbins') /\ frac' = Zeros(nbins')
            /\ ibin' = FirstBin' /\ ihist' = 0
            /\ doing' = "merge"
  /\ UNCHANGED <<cls, hist, drawn>>

\* One pass of the loop: a bin whose border or cumulated content is stored as the
\* one before is merged into it.
MergeBin_ContentLeft ==
  LET level == StoredLevel(ibin)
      i == IF ihist > 0 /\ low[ihist - 1] = level THEN ihist - 1 ELSE ihist
      written == SetFraction(frac, ihist, StoredContent(ibin))
      same == i > 0 /\ GetFraction(written, i - 1) = GetFraction(written, i)
  IN  /\ doing = "merge"
      /\ low' = [low EXCEPT ![ihist] = level]
      /\ frac' = written
      /\ ihist' = IF same THEN i ELSE i + 1
      /\ ibin' = ibin + 1
      /\ doing' = IF ibin = LastBin THEN "resize" ELSE "merge"
      /\ UNCHANGED <<cls, hist, sum, nbins, drawn>>
MergeBin ==
  LET level == StoredLevel(ibin)
      i == IF ihist > 0 /\ low[ihist - 1] = level THEN ihist - 1 ELSE ihist
      written == SetFraction(frac, i, StoredContent(ibin))
      same == i > 0 /\ GetFraction(written, i - 1) = GetFraction(written, i)
  IN  /\ doing = "merge"
      /\ low' = [low EXCEPT ![ihist] = level]
      /\ frac' = written
      /\ ihist' = IF same THEN i ELSE i + 1
      /\ ibin' = ibin + 1
      /\ doing' = IF ibin = LastBin THEN "resize" ELSE "merge"
      /\ UNCHANGED <<cls, hist, sum, nbins, drawn>>

\* set_nbins() when bins were merged: what is stored is copied.
Resize ==
  /\ doing = "resize"
  /\ nbins' = ihist
  /\ low' = [i \in 0 .. ihist - 1 |-> low[i]]
  /\ frac' = [i \in 0 .. ihist - 2 |-> frac[i]]
  /\ doing' = "ready"
  /\ UNCHANGED <<cls, hist, sum, ibin, ihist, drawn>>

\* TFCS2DFunctionTemplateHistogram::Initialize(): no bins are merged.
Check2D ==
  LET n == Nx * Ny
      cum == Cumulated([i \in 0 .. n - 1 |-> hist.cont[Bin2D(i)]], n)
  IN  /\ doing = "check" /\ cls.form = "two"
      /\ sum' = cum
      /\ nbins' = IF cum[n - 1] <= 0 THEN 0 ELSE n
      /\ frac' = IF cum[n - 1] <= 0 THEN <<>>
                 ELSE [i \in 0 .. n - 2 |-> CeilDiv(MaxValue(cls.z) * cum[i], cum[n - 1])]
      /\ doing' = "ready"
      /\ UNCHANGED <<cls, hist, ibin, ihist, low, drawn>>

\* TFCS1DFunctionInt16Histogram::Initialize(), rounding down, and
\* TFCS2DFunctionHistogram::Initialize(), whose contents are fractions of the
\* total, kept here in units of half an entry.
Check1DPlain ==
  /\ doing = "check" /\ cls.form = "plain"
  /\ sum' = Cumulated(hist.cont, Count(hist))
  /\ nbins' = IF Total' <= 0 THEN 0 ELSE Count(hist)
  /\ frac' = IF Total' <= 0 THEN <<>>
             ELSE [i \in DOMAIN sum' |-> (MaxValue(16) * sum'[i]) \div Total']
  /\ doing' = "ready"
  /\ UNCHANGED <<cls, hist, ibin, ihist, low, drawn>>
Check2DPlain ==
  LET n == Nx * Ny
      cum == Cumulated([i \in 0 .. n - 1 |-> hist.cont[Bin2DPlain(i)]], n)
  IN  /\ doing = "check" /\ cls.form = "plain2"
      /\ sum' = cum
      /\ nbins' = IF cum[n - 1] <= 0 THEN 0 ELSE n
      /\ frac' = IF cum[n - 1] <= 0 THEN <<>> ELSE [i \in 0 .. n - 1 |-> 2 * cum[i]]
      /\ doing' = "ready"
      /\ UNCHANGED <<cls, hist, ibin, ihist, low, drawn>>

-----------------------------------------------------------------------------
\* upper_bound over the contents stored, the first bin above the number.
UpperBound(rnd) == Min({Cardinality(DOMAIN frac)} \cup {i \in DOMAIN frac : frac[i] > rnd})

\* get_bin(): the bin, and the rest of the random number as a place in it.
BaseOf(i) == IF i = 0 THEN 0 ELSE frac[i - 1]
Rest(i, rnd, full) ==
  IF full > BaseOf(i) THEN <<rnd - BaseOf(i), full - BaseOf(i)>> ELSE <<1, 2>>
FullOf(i) == GetFraction(frac, i)

\* The content of the bin drawn and of its neighbours, own when there is none, of
\* the one-dimensional interpolation.
Slope1D(i) ==
  LET own == FullOf(i) - BaseOf(i)
  IN  <<IF i > 0 THEN BaseOf(i) - BaseOf(i - 1) ELSE own,
        own,
        IF i < nbins - 1 THEN FullOf(i + 1) - FullOf(i) ELSE own>>

\* The same for the two-dimensional ones, inside a row of bins in y.
Slope2D(i) ==
  LET iy == i % Ny
      fraction == FullOf(i)
      previous == FullOf(i - 1)
      own == IF iy > 0 THEN fraction - previous
             ELSE IF i \div Ny > 0 THEN fraction - previous ELSE fraction
  IN  <<IF iy > 1 THEN previous - FullOf(i - 2)
        ELSE IF iy = 1
          THEN IF i \div Ny > 0 THEN previous - FullOf(i - 2) ELSE previous
        ELSE own,
        own,
        IF iy < Ny - 1 THEN FullOf(i + 1) - fraction ELSE own>>

\* rnd_to_fct() of the three families.
Ready(form) == doing = "ready" /\ cls.form = form /\ nbins > 0
Drawn(rnd, bin, rest, slope) ==
  [rnd |-> rnd, bin |-> bin, num |-> rest[1], den |-> rest[2], slope |-> slope]

Draw1D(rnd) ==
  LET i == UpperBound(rnd)
  IN  /\ Ready("template")
      /\ drawn' = Drawn(rnd, <<i>>, Rest(i, rnd, FullOf(i)),
                        IF cls.draw = "linear" THEN Slope1D(i) ELSE <<>>)
      /\ UNCHANGED <<doing, cls, hist, sum, ibin, ihist, nbins, low, frac>>

Decode(i) == <<i \div Ny, i % Ny>>
Draw2D(rnd) ==
  LET i == UpperBound(rnd)
  IN  /\ Ready("two")
      /\ drawn' = Drawn(rnd, Decode(i), Rest(i, rnd, FullOf(i)),
                        IF cls.draw = "flat" THEN <<>> ELSE Slope2D(i))
      /\ UNCHANGED <<doing, cls, hist, sum, ibin, ihist, nbins, low, frac>>

\* Beyond the last bin the last bin is taken.
Clamped(i) == IF i >= nbins THEN nbins - 1 ELSE i
DrawPlain(rnd) ==
  LET i == Clamped(UpperBound(rnd))
  IN  /\ Ready("plain")
      /\ drawn' = Drawn(rnd, <<i>>, Rest(i, rnd, frac[i]), <<>>)
      /\ UNCHANGED <<doing, cls, hist, sum, ibin, ihist, nbins, low, frac>>
DrawPlain2D(rnd) ==
  LET i == Clamped(UpperBound(rnd))
      y == i \div Nx
  IN  /\ Ready("plain2")
      /\ drawn' = Drawn(rnd, <<i - Nx * y, y>>, Rest(i, rnd, frac[i]), <<>>)
      /\ UNCHANGED <<doing, cls, hist, sum, ibin, ihist, nbins, low, frac>>

\* An empty histogram has one bin without width, at 0.
DrawEmpty ==
  /\ doing = "ready" /\ nbins = 0
  /\ drawn' = [Nothing EXCEPT !.rnd = 0]
  /\ UNCHANGED <<doing, cls, hist, sum, ibin, ihist, nbins, low, frac>>

-----------------------------------------------------------------------------
\* The numbers to draw with that matter: both ends, and around the contents.
Unit == IF cls.form = "plain2" THEN 2 * Total
        ELSE IF cls.form = "plain" THEN MaxValue(16) ELSE MaxValue(cls.z)
Borderline ==
  ({0, Unit - 1} \cup {frac[i] : i \in DOMAIN frac} \cup {frac[i] - 1 : i \in DOMAIN frac})
     \cap (0 .. Unit - 1)

HistIdle ==
  /\ cls = NoClass /\ hist = NoHist /\ sum = <<>> /\ ibin = 0 /\ ihist = 0 /\ nbins = 0
  /\ low = <<>> /\ frac = <<>> /\ drawn = Nothing
HistInit ==
  /\ \/ cls \in Classes1D /\ hist \in Histograms1D
     \/ cls \in Classes2D /\ hist \in Histograms2D
  /\ sum = <<>> /\ ibin = 0 /\ ihist = 0 /\ nbins = 0
  /\ low = <<>> /\ frac = <<>> /\ drawn = Nothing
-----------------------------------------------------------------------------
\* Through all merging, borders and contents of a template histogram stay in
\* step: a border stored is that of a bin of the histogram, the content stored
\* before it is the one cumulated up to that bin, and both rise strictly
\* (TFCS1DFunctionTemplateHistogram.h:48-106).
Stored == IF doing = "merge" THEN ihist ELSE nbins
BordersMatchContents ==
  cls.form = "template" /\ doing \in {"merge", "ready"} =>
    \A i \in 1 .. Stored - 1 :
      /\ \E b \in FirstBin + 1 .. LastBin :
           low[i] = StoredLevel(b) /\ frac[i - 1] = StoredContent(b - 1)
      /\ low[i - 1] < low[i]
      /\ BaseOf(i - 1) < frac[i - 1] /\ frac[i - 1] < MaxValue(cls.z)

\* A value is drawn only where the histogram has entries: in that bin, or in a
\* merged bin that contains one with entries, and at a place inside it
\* (TFCS1DFunctionTemplateHistogram.h:110-137, TFCS2DFunctionTemplateHistogram.h:175-225).
Inside(i) ==
  LET bins == FirstBin .. LastBin
      upper == IF i + 1 < nbins THEN low[i + 1] ELSE Levels(cls.x)
  IN  {b \in bins : low[i] <= StoredLevel(b) /\ StoredLevel(b) < upper}
Covered ==
  CASE cls.form = "template" -> {hist.cont[b] : b \in Inside(drawn.bin[1])}
    [] cls.form = "plain" -> {hist.cont[drawn.bin[1]]}
    [] OTHER -> {hist.cont[drawn.bin]}
DrawnWhereThereIsContent ==
  doing = "ready" /\ nbins > 0 /\ drawn # Nothing =>
    /\ \E c \in Covered : c > 0
    /\ 0 <= drawn.num /\ drawn.num < drawn.den

\* The slope in a bin comes from the contents of its neighbours in the same row
\* of the histogram, or from its own at the end of a row.
ContentOf(i) == FullOf(i) - BaseOf(i)
NeighboursInTheRow ==
  drawn.slope # <<>> =>
    LET n == IF cls.form = "two" THEN Ny ELSE nbins
        i == IF cls.form = "two" THEN drawn.bin[1] * Ny + drawn.bin[2] ELSE drawn.bin[1]
        row == i - (i % n) .. i - (i % n) + n - 1
        At(j) == IF j \in row THEN ContentOf(j) ELSE ContentOf(i)
    IN  drawn.slope = <<At(i - 1), At(i), At(i + 1)>>

\* A function made of a histogram is drawn from as the histogram is filled.
DrawsFollowTheHistogram ==
  BordersMatchContents /\ DrawnWhereThereIsContent /\ NeighboursInTheRow
=============================================================================
