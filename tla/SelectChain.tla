---------------------------- MODULE SelectChain -----------------------------
(***************************************************************************)
(* How a chain that selects its elements by a number (the kinetic energy or *)
(* eta of the particle) is put together: TFCSParametrizationBinnedChain and *)
(* TFCSParametrizationFloatSelectChain.  All elements lie in one vector,    *)
(* m_chain; m_bin_start says where the elements of each bin begin, and      *)
(* m_bin_low_edge between which values the bin is selected.                 *)
(*                                                                          *)
(* Elements are numbered in the order in which they are added.              *)
(***************************************************************************)
EXTENDS Integers, Sequences, FiniteSets

CONSTANTS
  Values,     \* the values an edge, or the selecting variable, may have
  MaxSize     \* elements added at most

ASSUME SelectAssumption ==
  /\ Values \subseteq Int /\ 0 \in Values
  /\ MaxSize \in Nat

VARIABLES
  chain,    \* m_chain
  start,    \* m_bin_start
  edges,    \* m_bin_low_edge
  place,    \* history: where each element was asked to be
  answer,   \* history: the range asked for last, and the answer
  lost      \* history: the object is a copy of one that had bins

vars == <<chain, start, edges, place, answer, lost>>

Ranges == Values \X Values
Places == [part : {"before", "bin", "after"}, low : Values, up : Values]
NoAnswer == [range |-> <<0, 0>>, bin |-> 0]

NBins == Len(start) - 1
Low(b) == edges[b + 1]
Up(b) == edges[b + 2]
Back == edges[NBins + 1]

\* val_to_bin(): the bin of value v, -1 outside the range of the bins.  The
\* end of the range is m_bin_low_edge[get_number_of_bins()]; where the vector
\* has no such element, g is what is read instead.
ValToBinReading(v, g) ==
  LET end == IF NBins + 1 <= Len(edges) THEN Back ELSE g
  IN  IF v < edges[1] \/ v >= end THEN -1
      ELSE Cardinality({i \in 1 .. Len(edges) : edges[i] <= v}) - 1
ValToBin(v) == ValToBinReading(v, 0)

-----------------------------------------------------------------------------
Inserted(s, at, x) == SubSeq(s, 1, at) \o <<x>> \o SubSeq(s, at + 1, Len(s))

\* m_bin_start with at least bins 0, ..., b, the new ones empty.
WithBin(s, b) ==
  [i \in 1 .. (IF Len(s) < b + 2 THEN b + 2 ELSE Len(s)) |->
     IF i <= Len(s) THEN s[i] ELSE s[Len(s)]]

\* Every boundary from index n (counted from 1) on moves up by one.
Shifted_EndOnly(s, n) == [i \in 1 .. Len(s) |-> IF i = n THEN s[i] + 1 ELSE s[i]]
Shifted(s, n) == [i \in 1 .. Len(s) |-> IF i >= n THEN s[i] + 1 ELSE s[i]]

\* TFCSParametrizationBinnedChain::push_back_in_bin(param, b), on bin
\* boundaries s: the element goes to the end of the bin.
PlaceInBin(s, b) ==
  LET grown == WithBin(s, b)
  IN  /\ chain' = Inserted(chain, grown[b + 2], Len(place) + 1)
      /\ start' = Shifted(grown, b + 2)

\* TFCSParametrizationFloatSelectChain grows the edges along with the bins.
EdgesFor(e, n) ==
  [i \in 1 .. (IF Len(e) < n THEN n ELSE Len(e)) |->
     IF i <= Len(e) THEN e[i] ELSE e[Len(e)]]

Init ==
  /\ chain = <<>> /\ start = <<0>> /\ edges = <<0>>
  /\ place = <<>> /\ answer = NoAnswer /\ lost = FALSE

MayAdd == Len(place) < MaxSize /\ ~lost

InRange(low, up) == [part |-> "bin", low |-> low, up |-> up]
Placed(where) == place' = Append(place, where)
Answer(low, up, b) == answer' = [range |-> <<low, up>>, bin |-> b]

BeforeFirst(x) == Inserted(chain, start[1], x)
PushBeforeFirstBin ==
  /\ MayAdd
  /\ chain' = BeforeFirst(Len(place) + 1)
  /\ start' = Shifted(start, 1)
  /\ Placed([part |-> "before", low |-> 0, up |-> 0])
  /\ UNCHANGED <<edges, answer, lost>>

\* TFCSParametrizationChain::push_back(): behind all bins.
PushBack ==
  /\ MayAdd
  /\ chain' = Append(chain, Len(place) + 1)
  /\ Placed([part |-> "after", low |-> 0, up |-> 0])
  /\ UNCHANGED <<start, edges, answer, lost>>

\* push_back_in_bin(param, b), for a bin whose boundaries are defined.
PushInBin(b) ==
  /\ MayAdd /\ b < NBins
  /\ PlaceInBin(start, b)
  /\ edges' = EdgesFor(edges, Len(start'))
  /\ Placed(InRange(Low(b), Up(b)))
  /\ UNCHANGED <<answer, lost>>

-----------------------------------------------------------------------------
\* push_back_in_bin(param, low, up), one action per case of it.
Outside(low, up) == ValToBin(low) < 0 /\ ValToBin(up) < 0

AddsAtEnd_Disjoint(low, up) == Outside(low, up)
AddsAtEnd(low, up) == Outside(low, up) /\ Back = low
AddsToBin(low, up) ==
  LET b == ValToBin(low)
  IN  b >= 0 /\ ValToBin(up) = b + 1 /\ Low(b) = low /\ Low(b + 1) = up
AddsAtFront_Anywhere(low, up) == ValToBin(low) < 0 /\ ValToBin(up) = 0
AddsAtFront(low, up) ==
  ValToBin(low) < 0 /\ ValToBin(up) = 0 /\ Low(0) = up

FirstBin(low, up) ==
  /\ MayAdd /\ low <= up /\ NBins = 0
  /\ PlaceInBin(start, 0)
  /\ edges' = <<low, up>>
  /\ Placed(InRange(low, up)) /\ Answer(low, up, 0) /\ UNCHANGED lost

BinAtEnd(low, up) ==
  /\ MayAdd /\ low <= up /\ NBins > 0 /\ AddsAtEnd(low, up)
  /\ PlaceInBin(start, NBins)
  /\ edges' = [EdgesFor(edges, Len(start')) EXCEPT ![NBins + 1] = low,
                                                  ![NBins + 2] = up]
  /\ Placed(InRange(low, up)) /\ Answer(low, up, NBins) /\ UNCHANGED lost

ExistingBin(low, up) ==
  /\ MayAdd /\ low <= up /\ NBins > 0 /\ AddsToBin(low, up)
  /\ PlaceInBin(start, ValToBin(low))
  /\ edges' = EdgesFor(edges, Len(start'))
  /\ Placed(InRange(low, up)) /\ Answer(low, up, ValToBin(low)) /\ UNCHANGED lost

\* A bin before the first one: boundaries and edges move up by one place.
BinAtFront(low, up) ==
  /\ MayAdd /\ low <= up /\ NBins > 0 /\ AddsAtFront(low, up)
  /\ PlaceInBin(<<start[1]>> \o start, 0)
  /\ edges' = <<low, up>> \o Tail(edges)
  /\ Placed(InRange(low, up)) /\ Answer(low, up, 0) /\ UNCHANGED lost

\* Everything else is an error and returns -1.
Rejects(low, up) ==
  \/ up < low
  \/ /\ NBins > 0
     /\ ~AddsAtEnd(low, up) /\ ~AddsToBin(low, up) /\ ~AddsAtFront(low, up)
Reject(low, up) ==
  /\ MayAdd /\ Rejects(low, up)
  /\ Answer(low, up, -1)
  /\ UNCHANGED <<chain, start, edges, place, lost>>

PushRange(low, up) ==
  \/ FirstBin(low, up) \/ BinAtEnd(low, up) \/ ExistingBin(low, up)
  \/ BinAtFront(low, up) \/ Reject(low, up)

\* The copy constructor takes the bins over, but not their edges.
Copy ==
  /\ ~lost
  /\ edges' = <<0>>
  /\ lost' = (NBins > 0)
  /\ UNCHANGED <<chain, start, place, answer>>

Next ==
  \/ PushBeforeFirstBin \/ PushBack \/ Copy
  \/ \E b \in 0 .. NBins - 1 : PushInBin(b)
  \/ \E r \in Ranges : PushRange(r[1], r[2])

Spec == Init /\ [][Next]_vars

-----------------------------------------------------------------------------
\* get_bin() of the chains that select by eta, by its absolute value, by the
\* energy bin and by the kinetic energy.  An energy is given by its logarithm;
\* nominal is Ekin_nominal() of every element, rnd the random number in units
\* of 1 / Parts.
Parts == 2
VariableOf(kind, x) == IF kind = "abseta" /\ x < 0 THEN -x ELSE x

BinSize(b) == start[b + 2] - start[b + 1]
First(b) == chain[start[b + 1] + 1]

\* The share of the way from the nominal energy of bin b to that of bin b + 1
\* is below, or above, the random number; not asked if they do not ascend.
ShareBelow(b, v, nominal, rnd) ==
  LET from == nominal[First(b)]
      to == nominal[First(b + 1)]
  IN  to > from /\ (v - from) * Parts < rnd * (to - from)
ShareAbove(b, v, nominal, rnd) ==
  LET from == nominal[First(b)]
      to == nominal[First(b + 1)]
  IN  to > from /\ rnd * (to - from) < (v - from) * Parts

Neighbour(b, v, nominal, rnd) ==
  IF v < nominal[First(b)]
  THEN IF b > 0 /\ BinSize(b - 1) > 0 /\ ShareBelow(b - 1, v, nominal, rnd) THEN b - 1 ELSE b
  ELSE IF b < NBins - 1 /\ BinSize(b + 1) > 0 /\ ShareAbove(b, v, nominal, rnd)
       THEN b + 1 ELSE b

GetBin(kind, interpolate, x, nominal, rnd) ==
  LET v == VariableOf(kind, x)
      b == ValToBin(v)
  IN  IF kind = "ekin" /\ interpolate /\ b >= 0 /\ BinSize(b) > 0
      THEN Neighbour(b, v, nominal, rnd) ELSE b

\* The elements simulate() runs for the value v.
RunFor(v) ==
  LET b == GetBin("eta", FALSE, v, <<>>, 0)
      ran(i) == \/ i <= start[1] \/ i > start[NBins + 1]
                \/ b >= 0 /\ start[b + 1] < i /\ i <= start[b + 2]
  IN  {chain[i] : i \in {j \in 1 .. Len(chain) : ran(j)}}

\* The variables have the types of the code.
TypeOK ==
  /\ chain \in Seq(Nat) /\ start \in Seq(Nat) /\ edges \in Seq(Values)
  /\ place \in Seq(Places)
  /\ answer \in [range : Ranges, bin : Int]
  /\ lost \in BOOLEAN

\* m_bin_start is a partition of m_chain, whatever the order of the additions:
\* what simulate() indexes m_chain with stays inside it.
BinsPartitionChain ==
  /\ start # <<>> /\ start[Len(start)] <= Len(chain)
  /\ \A i, j \in 1 .. Len(start) : i <= j => start[i] <= start[j]

\* There is an edge on both sides of every bin, and the edges ascend, which the
\* binary search of val_to_bin() relies on.
EdgesMatchBins ==
  ~lost => /\ Len(edges) = Len(start)
           /\ \A i, j \in 1 .. Len(edges) : i <= j => edges[i] <= edges[j]

\* An element added for the range [low, up) runs for the values in that range
\* and for no other, wherever later bins and elements were put; the elements
\* before the first bin and behind the last run for every value.
RunsWhereAsked ==
  ~lost => \A v \in Values :
    RunFor(v) = {p \in 1 .. Len(place) :
                   place[p].part = "bin" => place[p].low <= v /\ v < place[p].up}

\* Elements added at the same place, and that run at all, run in the order in
\* which they were added.
MayRun(w) == w.part = "bin" => w.low < w.up
InOrderOfAddition ==
  \A i, j \in 1 .. Len(chain) :
    /\ i < j /\ place[chain[i]] = place[chain[j]] /\ MayRun(place[chain[i]])
    => chain[i] < chain[j]

\* push_back_in_bin(param, low, up) finds the bin that has the range asked for:
\* a range it refuses is no bin, but for the last bin and one in front of a bin
\* for no value, whose ends lie in no bin or in a later one.
Findable(b) == b + 1 < NBins /\ Low(b) < Up(b) /\ Up(b) < Up(b + 1)
RefusedIsNoBin ==
  answer.bin = -1 /\ ~lost =>
    ~\E b \in 0 .. NBins - 1 : Findable(b) /\ answer.range = <<Low(b), Up(b)>>

\* With random interpolation, a particle between the nominal energies of two
\* filled bins runs the upper one with the share of the way it has gone from
\* the lower, on whichever side of the edge between the bins it is.
SharesBetweenNominals ==
  ~lost => \A b \in 0 .. NBins - 2 :
    BinSize(b) > 0 /\ BinSize(b + 1) > 0 /\ Up(b) <= Low(b + 1) =>
      \A from \in Low(b) .. Up(b) - 1, to \in Low(b + 1) .. Up(b + 1) - 1 :
        LET nominal == [e \in 1 .. Len(chain) |-> IF e = First(b + 1) THEN to ELSE from]
        IN  \A v \in from .. to, rnd \in 0 .. Parts - 1 :
              LET bin == GetBin("ekin", TRUE, v, nominal, rnd)
              IN  /\ rnd * (to - from) < (v - from) * Parts => bin = b + 1
                  /\ rnd * (to - from) > (v - from) * Parts => bin = b

\* What simulate() runs is what was asked for: the elements added for a value,
\* in their order, the ranges that exist being found again, and the two bins
\* around a value with their shares.
RunsAsChosen ==
  RunsWhereAsked /\ InOrderOfAddition /\ RefusedIsNoBin /\ SharesBetweenNominals
=============================================================================
