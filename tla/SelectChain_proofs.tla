------------------------- MODULE SelectChain_proofs -------------------------
(***************************************************************************)
(* Proofs about SelectChain: for chains of any size and any edges, the bin  *)
(* boundaries stay a partition of the chain, with ascending edges around    *)
(* every bin.  This is what ParamChain assumes of m_bin_start.  And every    *)
(* element runs for the values for which it was added.                      *)
(***************************************************************************)
EXTENDS SelectChain, FiniteSetTheorems, SequenceTheorems, WellFoundedInduction,
        TLAPS

Ascending(s) == \A i, j \in 1 .. Len(s) : i <= j => s[i] <= s[j]

\* Boundaries s of bins of a chain of n elements.
Partition(s, n) ==
  s \in Seq(Nat) /\ s # <<>> /\ Ascending(s) /\ s[Len(s)] <= n

IInv == TypeOK /\ BinsPartitionChain /\ EdgesMatchBins /\ edges # <<>>

-----------------------------------------------------------------------------
\* An insertion keeps the others and makes the chain one element longer.
LEMMA InsertedType ==
  ASSUME NEW s \in Seq(Nat), NEW at \in 0 .. Len(s), NEW x \in Nat
  PROVE  Inserted(s, at, x) \in Seq(Nat) /\ Len(Inserted(s, at, x)) = Len(s) + 1
<1>1. Len(s) \in Nat
  OBVIOUS
<1>2. SubSeq(s, 1, at) \in Seq(Nat) /\ Len(SubSeq(s, 1, at)) = at
  BY <1>1, SubSeqProperties
<1>3. SubSeq(s, at + 1, Len(s)) \in Seq(Nat)
      /\ Len(SubSeq(s, at + 1, Len(s))) = Len(s) - at
  BY <1>1, SubSeqProperties
<1>4. <<x>> \in Seq(Nat) /\ Len(<<x>>) = 1
  OBVIOUS
<1>5. /\ SubSeq(s, 1, at) \o <<x>> \in Seq(Nat)
      /\ Len(SubSeq(s, 1, at) \o <<x>>) = at + 1
  BY <1>2, <1>4, ConcatProperties
<1> DEFINE front == SubSeq(s, 1, at) \o <<x>>
<1> DEFINE back == SubSeq(s, at + 1, Len(s))
<1>6. Inserted(s, at, x) = front \o back
  BY DEF Inserted
<1>7. front \in Seq(Nat) /\ back \in Seq(Nat)
      /\ Len(front) = at + 1 /\ Len(back) = Len(s) - at
  BY <1>3, <1>5
<1> HIDE DEF front, back
<1>8. front \o back \in Seq(Nat) /\ Len(front \o back) = Len(front) + Len(back)
  BY <1>7, ConcatProperties
<1> QED
  BY <1>1, <1>6, <1>7, <1>8

LEMMA ShiftedPartition ==
  ASSUME NEW s, NEW n \in Nat, Partition(s, n), NEW at \in 1 .. Len(s)
  PROVE  Partition(Shifted(s, at), n + 1) /\ Len(Shifted(s, at)) = Len(s)
<1> DEFINE t == Shifted(s, at)
<1>1. Len(s) \in Nat \ {0} /\ \A i \in 1 .. Len(s) : s[i] \in Nat
  BY DEF Partition
<1>2. /\ t \in Seq(Nat) /\ Len(t) = Len(s)
      /\ \A i \in 1 .. Len(s) : t[i] = IF i >= at THEN s[i] + 1 ELSE s[i]
  BY <1>1 DEF Shifted
<1>3. ASSUME NEW i \in 1 .. Len(t), NEW j \in 1 .. Len(t), i <= j
      PROVE  t[i] <= t[j]
  <2>1. s[i] <= s[j] /\ s[i] \in Nat /\ s[j] \in Nat
    BY <1>1, <1>2, <1>3 DEF Partition, Ascending
  <2>2. i >= at => j >= at
    BY <1>1, <1>2, <1>3
  <2> QED
    BY <1>2, <2>1, <2>2
<1>4. t[Len(t)] <= n + 1
  <2>1. s[Len(s)] <= n /\ Len(s) \in 1 .. Len(s) /\ s[Len(s)] \in Nat
    BY <1>1 DEF Partition
  <2> QED
    BY <1>2, <2>1
<1>5. t # <<>>
  BY <1>1, <1>2
<1> HIDE DEF t
<1>6. Partition(t, n + 1) /\ Len(t) = Len(s)
  BY <1>2, <1>3, <1>4, <1>5 DEF Partition, Ascending
<1> QED
  BY <1>6 DEF t

\* A sequence that EdgesFor() extends with its last element, as WithBin() does.
LEMMA Extended ==
  ASSUME NEW S \in SUBSET Int, NEW s \in Seq(S), s # <<>>, Ascending(s), NEW n \in Nat
  PROVE  /\ EdgesFor(s, n) \in Seq(S) /\ EdgesFor(s, n) # <<>>
         /\ Ascending(EdgesFor(s, n))
         /\ Len(EdgesFor(s, n)) = IF Len(s) < n THEN n ELSE Len(s)
         /\ EdgesFor(s, n)[Len(EdgesFor(s, n))] = s[Len(s)]
         /\ \A i \in 1 .. Len(s) : EdgesFor(s, n)[i] = s[i]
<1> DEFINE t == EdgesFor(s, n)
<1>1. Len(s) \in Nat \ {0} /\ \A i \in 1 .. Len(s) : s[i] \in S
  OBVIOUS
<1>2. \A i \in 1 .. Len(s) : s[i] \in Int
  BY <1>1
<1>3. PICK m \in Nat \ {0} : m = IF Len(s) < n THEN n ELSE Len(s)
  BY <1>1
<1>4. Len(s) <= m /\ Len(s) \in 1 .. Len(s)
  BY <1>1, <1>3
<1>5. t = [i \in 1 .. m |-> IF i <= Len(s) THEN s[i] ELSE s[Len(s)]]
  BY <1>3 DEF EdgesFor
<1> HIDE DEF t
<1>6. t \in Seq(S) /\ Len(t) = m
  BY <1>1, <1>3, <1>4, <1>5
<1>7. \A i \in 1 .. m : t[i] = IF i <= Len(s) THEN s[i] ELSE s[Len(s)]
  BY <1>5
<1>8. ASSUME NEW i \in 1 .. m, NEW j \in 1 .. m, i <= j
      PROVE  t[i] <= t[j]
  <2>1. CASE j <= Len(s)
    <3>1. i \in 1 .. Len(s) /\ j \in 1 .. Len(s)
      BY <1>1, <1>8, <2>1
    <3> QED
      BY <1>7, <1>8, <2>1, <3>1 DEF Ascending
  <2>2. CASE i <= Len(s) /\ ~(j <= Len(s))
    <3>1. i \in 1 .. Len(s) /\ Len(s) \in 1 .. Len(s)
      BY <1>1, <1>8, <2>2
    <3>2. s[i] <= s[Len(s)]
      BY <2>2, <3>1 DEF Ascending
    <3> QED
      BY <1>7, <2>2, <3>2
  <2>3. CASE ~(i <= Len(s))
    BY <1>1, <1>2, <1>4, <1>7, <1>8, <2>3
  <2> QED
    BY <2>1, <2>2, <2>3
<1>9. t[Len(t)] = s[Len(s)]
  <2>1. m \in 1 .. m
    BY <1>3
  <2>2. CASE m <= Len(s)
    BY <1>4, <1>6, <1>7, <2>1, <2>2
  <2>3. CASE ~(m <= Len(s))
    BY <1>6, <1>7, <2>1, <2>3
  <2> QED
    BY <2>2, <2>3
<1>10. /\ t \in Seq(S) /\ t # <<>> /\ Ascending(t)
       /\ Len(t) = (IF Len(s) < n THEN n ELSE Len(s)) /\ t[Len(t)] = s[Len(s)]
       /\ \A i \in 1 .. Len(s) : t[i] = s[i]
  BY <1>1, <1>3, <1>4, <1>6, <1>7, <1>8, <1>9 DEF Ascending
<1> QED
  BY <1>10 DEF t

\* PlaceInBin() on any boundaries that fit the chain.
LEMMA PlaceStep ==
  ASSUME IInv, NEW s, Partition(s, Len(chain)), NEW b \in Nat, PlaceInBin(s, b)
  PROVE  /\ chain' \in Seq(Nat) /\ Len(chain') = Len(chain) + 1
         /\ Partition(start', Len(chain'))
         /\ Len(start') = IF Len(s) < b + 2 THEN b + 2 ELSE Len(s)
<1> DEFINE grown == WithBin(s, b)
<1>1. chain \in Seq(Nat) /\ Len(chain) \in Nat /\ Len(place) + 1 \in Nat
  BY DEF IInv, TypeOK
<1>2. b + 2 \in Nat /\ s \in Seq(Nat) /\ s # <<>> /\ Ascending(s) /\ Len(s) \in Nat
  <2>1. s \in Seq(Nat) /\ s # <<>> /\ Ascending(s)
    BY DEF Partition
  <2>2. Len(s) \in Nat
    BY ONLY <2>1
  <2>3. b + 2 \in Nat
    OBVIOUS
  <2> QED
    BY <2>1, <2>2, <2>3
<1>3. /\ grown \in Seq(Nat) /\ grown # <<>> /\ Ascending(grown)
      /\ Len(grown) = IF Len(s) < b + 2 THEN b + 2 ELSE Len(s)
      /\ grown[Len(grown)] = s[Len(s)]
  <2>1. grown = EdgesFor(s, b + 2)
    BY DEF WithBin, EdgesFor
  <2> HIDE DEF grown
  <2>2. s \in Seq(Nat) /\ s # <<>> /\ Ascending(s) /\ b + 2 \in Nat
        /\ Nat \in SUBSET Int
    BY <1>2
  <2>3. /\ EdgesFor(s, b + 2) \in Seq(Nat) /\ EdgesFor(s, b + 2) # <<>>
        /\ Ascending(EdgesFor(s, b + 2))
        /\ Len(EdgesFor(s, b + 2)) = IF Len(s) < b + 2 THEN b + 2 ELSE Len(s)
        /\ EdgesFor(s, b + 2)[Len(EdgesFor(s, b + 2))] = s[Len(s)]
    BY ONLY <2>2, Extended
  <2> QED
    BY <2>1, <2>3
<1>4. Partition(grown, Len(chain))
  BY <1>3 DEF Partition
<1>5. b + 2 \in 1 .. Len(grown) /\ Len(grown) \in 1 .. Len(grown)
  BY <1>2, <1>3
<1> HIDE DEF grown
<1>6. grown[b + 2] \in 0 .. Len(chain)
  <2>1. grown[b + 2] \in Nat /\ grown[Len(grown)] \in Nat
    BY <1>3, <1>5
  <2>2. grown[b + 2] <= grown[Len(grown)]
    BY <1>3, <1>5 DEF Ascending
  <2>3. grown[Len(grown)] <= Len(chain)
    BY <1>4 DEF Partition
  <2> QED
    BY <1>1, <2>1, <2>2, <2>3
<1>7. chain' = Inserted(chain, grown[b + 2], Len(place) + 1)
      /\ start' = Shifted(grown, b + 2)
  BY DEF PlaceInBin, grown
<1>8. chain' \in Seq(Nat) /\ Len(chain') = Len(chain) + 1
  BY <1>1, <1>6, <1>7, InsertedType
<1> QED
  BY <1>1, <1>3, <1>4, <1>5, <1>7, <1>8, ShiftedPartition

-----------------------------------------------------------------------------
(* The edges.                                                                *)

LEMMA EdgeTypes ==
  ASSUME IInv
  PROVE  /\ Len(start) \in Nat \ {0} /\ NBins \in Nat
         /\ Len(edges) \in Nat \ {0} /\ Partition(start, Len(chain))
         /\ \A i \in 1 .. Len(edges) : edges[i] \in Int
         /\ ~lost => Len(edges) = NBins + 1 /\ Ascending(edges)
<1>1. Len(start) \in Nat \ {0} /\ Len(edges) \in Nat \ {0}
  BY DEF IInv, TypeOK, BinsPartitionChain
<1>2. \A i \in 1 .. Len(edges) : edges[i] \in Int
  <2>1. edges \in Seq(Values) /\ Values \subseteq Int
    BY SelectAssumption DEF IInv, TypeOK
  <2>2. \A i \in 1 .. Len(edges) : edges[i] \in Values
    BY <2>1
  <2> QED
    BY <2>1, <2>2
<1>3. Partition(start, Len(chain))
  BY DEF IInv, TypeOK, BinsPartitionChain, Partition, Ascending
<1>4. ~lost => Len(edges) = NBins + 1 /\ Ascending(edges)
  BY <1>1 DEF IInv, EdgesMatchBins, NBins, Ascending
<1> QED
  BY <1>1, <1>2, <1>3, <1>4 DEF NBins

\* What val_to_bin() returns is an index from -1 on, -1 exactly outside.
LEMMA BinOfValue ==
  ASSUME IInv, ~lost, NEW v \in Int
  PROVE  /\ ValToBin(v) \in Int
         /\ ValToBin(v) < 0 \/ (edges[1] <= v /\ v < Back)
         /\ v < edges[1] \/ Back <= v \/ ValToBin(v) >= 0
<1> DEFINE upto == {i \in 1 .. Len(edges) : edges[i] <= v}
<1>1. Len(edges) \in Nat \ {0} /\ NBins \in Nat /\ Len(edges) = NBins + 1
      /\ \A i \in 1 .. Len(edges) : edges[i] \in Int
  BY EdgeTypes
<1>2. IsFiniteSet(1 .. Len(edges)) /\ upto \subseteq 1 .. Len(edges)
  BY <1>1, FS_Interval
<1>3. IsFiniteSet(upto) /\ Cardinality(upto) \in Nat
  BY <1>2, FS_Subset, FS_CardinalityType
<1>4. ValToBin(v) = IF v < edges[1] \/ v >= Back THEN -1 ELSE Cardinality(upto) - 1
  BY <1>1 DEF ValToBin, ValToBinReading
<1>5. edges[1] \in Int /\ Back \in Int
  BY <1>1 DEF Back
<1>6. ASSUME edges[1] <= v
      PROVE  Cardinality(upto) >= 1
  <2>1. 1 \in upto
    BY <1>1, <1>6
  <2>2. Cardinality(upto) # 0
    BY <1>3, <2>1, FS_EmptySet
  <2> QED
    BY <1>3, <2>2
<1> HIDE DEF upto
<1>7. CASE v < edges[1] \/ v >= Back
  <2>1. ValToBin(v) = -1
    BY <1>4, <1>7
  <2>2. ValToBin(v) \in Int /\ ValToBin(v) < 0
    BY <2>1
  <2>3. v < edges[1] \/ Back <= v
    BY <1>5, <1>7
  <2> QED
    BY <2>2, <2>3
<1>8. CASE ~(v < edges[1] \/ v >= Back)
  <2>1. ValToBin(v) = Cardinality(upto) - 1 /\ edges[1] <= v /\ v < Back
    BY <1>4, <1>5, <1>8
  <2> QED
    BY <1>3, <1>6, <2>1
<1> QED
  BY <1>7, <1>8

-----------------------------------------------------------------------------
(* The operations.                                                           *)

\* What every operation of the chain has to establish.
LEMMA Summary ==
  ASSUME chain' \in Seq(Nat), Partition(start', Len(chain')),
         edges' \in Seq(Values), edges' # <<>>,
         lost' \/ (Len(edges') = Len(start') /\ Ascending(edges')),
         place' \in Seq(Places), answer' \in [range : Ranges, bin : Int],
         lost' \in BOOLEAN
  PROVE  IInv'
BY DEF IInv, TypeOK, BinsPartitionChain, EdgesMatchBins, Partition, Ascending

\* EdgesFor() gives every bin its edges.
LEMMA EdgesStep ==
  ASSUME IInv, ~lost, NEW n \in Nat
  PROVE  /\ EdgesFor(edges, n) \in Seq(Values) /\ EdgesFor(edges, n) # <<>>
         /\ Ascending(EdgesFor(edges, n))
         /\ Len(EdgesFor(edges, n)) = IF Len(start) < n THEN n ELSE Len(start)
         /\ \A i \in 1 .. Len(edges) : EdgesFor(edges, n)[i] = edges[i]
<1>1. Values \in SUBSET Int /\ edges \in Seq(Values) /\ edges # <<>>
      /\ Ascending(edges) /\ Len(edges) = Len(start)
  BY SelectAssumption, EdgeTypes DEF IInv, TypeOK, EdgesMatchBins
<1> QED
  BY <1>1, Extended

LEMMA PlacedType ==
  ASSUME IInv, NEW w \in Places, Placed(w)
  PROVE  place' \in Seq(Places)
BY DEF IInv, TypeOK, Placed

LEMMA InRangeType ==
  ASSUME NEW low \in Values, NEW up \in Values
  PROVE  InRange(low, up) \in Places
BY DEF InRange, Places

LEMMA AnswerType ==
  ASSUME NEW low \in Values, NEW up \in Values, NEW b \in Int, Answer(low, up, b)
  PROVE  answer' \in [range : Ranges, bin : Int]
BY DEF Answer, Ranges

LEMMA PushBeforeStep ==
  ASSUME IInv, PushBeforeFirstBin
  PROVE  IInv'
<1>1. chain \in Seq(Nat) /\ Len(chain) \in Nat /\ Len(place) + 1 \in Nat
      /\ Partition(start, Len(chain)) /\ Len(start) \in Nat \ {0}
  BY EdgeTypes DEF IInv, TypeOK
<1>2. 1 \in 1 .. Len(start) /\ Len(start) \in 1 .. Len(start)
  BY <1>1
<1>3. start[1] \in 0 .. Len(chain)
  <2>1. start[1] \in Nat /\ start[Len(start)] \in Nat
        /\ start[1] <= start[Len(start)] /\ start[Len(start)] <= Len(chain)
    BY <1>1, <1>2 DEF Partition, Ascending
  <2> QED
    BY <1>1, <2>1
<1>4. chain' = Inserted(chain, start[1], Len(place) + 1) /\ start' = Shifted(start, 1)
  BY DEF PushBeforeFirstBin, BeforeFirst
<1>5. chain' \in Seq(Nat) /\ Len(chain') = Len(chain) + 1
  BY <1>1, <1>3, <1>4, InsertedType
<1>6. Partition(start', Len(chain')) /\ Len(start') = Len(start)
  BY <1>1, <1>2, <1>4, <1>5, ShiftedPartition
<1>7. place' \in Seq(Places)
  <2>1. [part |-> "before", low |-> 0, up |-> 0] \in Places
    BY SelectAssumption DEF Places
  <2> QED
    BY <2>1, PlacedType DEF PushBeforeFirstBin
<1>8. UNCHANGED <<edges, answer, lost>>
  BY DEF PushBeforeFirstBin
<1>9. edges' \in Seq(Values) /\ edges' # <<>>
      /\ answer' \in [range : Ranges, bin : Int] /\ lost' \in BOOLEAN
  BY <1>8 DEF IInv, TypeOK
<1>10. lost' \/ (Len(edges') = Len(start') /\ Ascending(edges'))
  BY <1>6, <1>8 DEF IInv, EdgesMatchBins, Ascending
<1> QED
  BY <1>5, <1>6, <1>7, <1>9, <1>10, Summary

LEMMA PushBackStep ==
  ASSUME IInv, PushBack
  PROVE  IInv'
<1>1. chain' \in Seq(Nat) /\ Len(chain') = Len(chain) + 1 /\ Len(chain) \in Nat
  BY DEF IInv, TypeOK, PushBack
<1>2. UNCHANGED <<start, edges, answer, lost>>
  BY DEF PushBack
<1>3. Partition(start', Len(chain'))
  <2>1. Partition(start, Len(chain)) /\ Len(start) \in 1 .. Len(start)
    BY EdgeTypes
  <2>2. start[Len(start)] \in Nat
    BY <2>1 DEF Partition
  <2> QED
    BY <1>1, <1>2, <2>1, <2>2 DEF Partition, Ascending
<1>4. place' \in Seq(Places)
  <2>1. [part |-> "after", low |-> 0, up |-> 0] \in Places
    BY SelectAssumption DEF Places
  <2> QED
    BY <2>1, PlacedType DEF PushBack
<1>5. edges' \in Seq(Values) /\ edges' # <<>>
      /\ answer' \in [range : Ranges, bin : Int] /\ lost' \in BOOLEAN
  BY <1>2 DEF IInv, TypeOK
<1>6. lost' \/ (Len(edges') = Len(start') /\ Ascending(edges'))
  BY <1>2 DEF IInv, EdgesMatchBins, Ascending
<1> QED
  BY <1>1, <1>3, <1>4, <1>5, <1>6, Summary

\* push_back_in_bin() on a bin, whatever the answer to the caller is.
LEMMA InBinStep ==
  ASSUME IInv, ~lost, lost' = lost, NEW b \in Nat, PlaceInBin(start, b),
         edges' = EdgesFor(edges, Len(start')),
         NEW w \in Places, Placed(w), answer' \in [range : Ranges, bin : Int]
  PROVE  IInv'
<1>1. Partition(start, Len(chain)) /\ Len(start) \in Nat
  BY EdgeTypes
<1>2. /\ chain' \in Seq(Nat) /\ Partition(start', Len(chain'))
      /\ Len(start') = IF Len(start) < b + 2 THEN b + 2 ELSE Len(start)
  BY <1>1, PlaceStep
<1>3. Len(start') \in Nat
  BY <1>1, <1>2
<1>4. edges' \in Seq(Values) /\ edges' # <<>> /\ Ascending(edges')
      /\ Len(edges') = IF Len(start) < Len(start') THEN Len(start') ELSE Len(start)
  BY <1>3, EdgesStep
<1>5. Len(edges') = Len(start')
  <2>1. CASE Len(start) < b + 2
    BY <1>1, <1>2, <1>4, <2>1
  <2>2. CASE ~(Len(start) < b + 2)
    BY <1>1, <1>2, <1>4, <2>2
  <2> QED
    BY <2>1, <2>2
<1>6. place' \in Seq(Places) /\ lost' \in BOOLEAN
  BY PlacedType DEF IInv, TypeOK
<1> QED
  BY <1>2, <1>4, <1>5, <1>6, Summary

LEMMA PushInBinStep ==
  ASSUME IInv, NEW b \in 0 .. NBins - 1, PushInBin(b)
  PROVE  IInv'
<1>1. b \in Nat /\ ~lost /\ lost' = lost /\ NBins \in Nat /\ Len(edges) = NBins + 1
      /\ answer' = answer
  BY EdgeTypes DEF PushInBin, MayAdd
<1>2. Low(b) \in Values /\ Up(b) \in Values
  <2>1. b + 1 \in 1 .. Len(edges) /\ b + 2 \in 1 .. Len(edges)
    BY <1>1
  <2>2. edges \in Seq(Values)
    BY DEF IInv, TypeOK
  <2> QED
    BY <2>1, <2>2 DEF Low, Up
<1>3. answer' \in [range : Ranges, bin : Int]
  BY <1>1 DEF IInv, TypeOK
<1>4. InRange(Low(b), Up(b)) \in Places
  BY <1>2, InRangeType
<1> QED
  BY <1>1, <1>3, <1>4, InBinStep DEF PushInBin

LEMMA ExistingBinStep ==
  ASSUME IInv, NEW low \in Values, NEW up \in Values, ExistingBin(low, up)
  PROVE  IInv'
<1>1. low \in Int /\ ~lost /\ lost' = lost
  BY SelectAssumption DEF ExistingBin, MayAdd
<1>2. ValToBin(low) \in Nat
  BY <1>1, BinOfValue DEF ExistingBin, AddsToBin
<1>3. answer' \in [range : Ranges, bin : Int]
  BY <1>2, AnswerType DEF ExistingBin
<1>4. InRange(low, up) \in Places
  BY InRangeType
<1> QED
  BY <1>1, <1>2, <1>3, <1>4, InBinStep DEF ExistingBin

LEMMA FirstBinStep ==
  ASSUME IInv, NEW low \in Values, NEW up \in Values, FirstBin(low, up)
  PROVE  IInv'
<1>1. Partition(start, Len(chain)) /\ Len(start) = 1
  BY EdgeTypes DEF FirstBin, NBins
<1>2. /\ chain' \in Seq(Nat) /\ Partition(start', Len(chain')) /\ Len(start') = 2
  <2>1. PlaceInBin(start, 0) /\ 0 \in Nat
    BY DEF FirstBin
  <2>2. /\ chain' \in Seq(Nat) /\ Partition(start', Len(chain'))
        /\ Len(start') = IF Len(start) < 0 + 2 THEN 0 + 2 ELSE Len(start)
    BY <1>1, <2>1, PlaceStep
  <2> QED
    BY <1>1, <2>2
<1>3. low \in Int /\ up \in Int /\ low <= up /\ edges' = <<low, up>>
  BY SelectAssumption DEF FirstBin
<1>4. edges' \in Seq(Values) /\ edges' # <<>> /\ Len(edges') = 2
  BY <1>3
<1>5. Ascending(edges')
  BY <1>3 DEF Ascending
<1>6. place' \in Seq(Places)
  BY InRangeType, PlacedType DEF FirstBin
<1>7. answer' \in [range : Ranges, bin : Int] /\ lost' \in BOOLEAN
  BY AnswerType DEF FirstBin, IInv, TypeOK
<1> QED
  BY <1>2, <1>4, <1>5, <1>6, <1>7, Summary

\* The edges a bin at the end leaves, ...
LEMMA EndEdges ==
  ASSUME IInv, NEW low \in Values, NEW up \in Values, BinAtEnd(low, up)
  PROVE  /\ NBins \in Nat /\ Len(start') = NBins + 2
         /\ edges' \in Seq(Values) /\ Len(edges') = NBins + 2
         /\ \A i \in 1 .. NBins + 1 : edges'[i] = edges[i]
         /\ edges[NBins + 1] = low /\ edges'[NBins + 2] = up
<1> DEFINE n == NBins
<1> DEFINE e == EdgesFor(edges, n + 2)
<1>1. /\ Partition(start, Len(chain)) /\ n \in Nat /\ Len(start) = n + 1
      /\ Len(edges) = n + 1 /\ Ascending(edges) /\ ~lost /\ lost' = lost
  BY EdgeTypes DEF BinAtEnd, MayAdd, NBins
<1>2. Len(start') = n + 2
  BY <1>1, PlaceStep DEF BinAtEnd
<1>3. low \in Int /\ up \in Int /\ Back = low
  BY SelectAssumption DEF BinAtEnd, AddsAtEnd
<1>4. /\ e \in Seq(Values) /\ Len(e) = n + 2
      /\ \A i \in 1 .. n + 1 : e[i] = edges[i]
  BY <1>1, EdgesStep
<1>5. edges' = [e EXCEPT ![n + 1] = low, ![n + 2] = up]
  BY <1>2 DEF BinAtEnd
<1> HIDE DEF e
<1>6. edges[n + 1] = low
  BY <1>3 DEF Back
<1> QED
  BY <1>1, <1>2, <1>4, <1>5, <1>6

LEMMA BinAtEndStep ==
  ASSUME IInv, NEW low \in Values, NEW up \in Values, BinAtEnd(low, up)
  PROVE  IInv'
<1> DEFINE n == NBins
<1>1. /\ Partition(start, Len(chain)) /\ n \in Nat /\ Len(start) = n + 1
      /\ Len(edges) = n + 1 /\ Ascending(edges) /\ ~lost /\ lost' = lost
  BY EdgeTypes DEF BinAtEnd, MayAdd, NBins
<1>2. /\ chain' \in Seq(Nat) /\ Partition(start', Len(chain')) /\ Len(start') = n + 2
  BY <1>1, PlaceStep DEF BinAtEnd
<1>3. low \in Int /\ up \in Int /\ low <= up /\ Back = low
  BY SelectAssumption DEF BinAtEnd, AddsAtEnd
<1>4. /\ edges' \in Seq(Values) /\ Len(edges') = n + 2
      /\ \A i \in 1 .. n + 1 : edges'[i] = edges[i]
      /\ edges'[n + 2] = up
  BY EndEdges
<1>7. Ascending(edges')
  <2> SUFFICES ASSUME NEW i \in 1 .. n + 2, NEW j \in 1 .. n + 2, i <= j
               PROVE  edges'[i] <= edges'[j]
    BY <1>4 DEF Ascending
  <2>1. \A k \in 1 .. n + 1 : edges[k] \in Int /\ edges[k] <= low
    <3>1. \A k \in 1 .. n + 1 : edges[k] \in Int
      BY <1>1, EdgeTypes
    <3>2. n + 1 \in 1 .. n + 1 /\ edges[n + 1] = low
      BY <1>1, <1>3 DEF Back
    <3> QED
      BY <1>1, <3>1, <3>2 DEF Ascending
  <2>2. CASE j <= n + 1
    <3>1. i \in 1 .. n + 1 /\ j \in 1 .. n + 1
      BY <1>1, <2>2
    <3> QED
      BY <1>1, <1>4, <3>1 DEF Ascending
  <2>3. CASE i <= n + 1 /\ j = n + 2
    BY <1>1, <1>3, <1>4, <2>1, <2>3
  <2>4. CASE i = n + 2 /\ j = n + 2
    BY <1>3, <1>4, <2>4
  <2> QED
    BY <1>1, <2>2, <2>3, <2>4
<1>8. place' \in Seq(Places)
  BY InRangeType, PlacedType DEF BinAtEnd
<1>9. answer' \in [range : Ranges, bin : Int] /\ lost' \in BOOLEAN
  BY <1>1, AnswerType DEF BinAtEnd, IInv, TypeOK
<1>10. edges' # <<>>
  BY <1>1, <1>4
<1> QED
  BY <1>2, <1>4, <1>7, <1>8, <1>9, <1>10, Summary

\* ... and those one at the front leaves, with boundaries that fit them.
FrontStart == <<start[1]>> \o start

LEMMA FrontBoundaries ==
  ASSUME IInv, NEW low \in Values, NEW up \in Values, BinAtFront(low, up)
  PROVE  /\ FrontStart \in Seq(Nat) /\ Len(FrontStart) = Len(start) + 1
         /\ FrontStart[1] = start[1]
         /\ \A i \in 1 .. Len(start) : FrontStart[i + 1] = start[i]
         /\ Partition(FrontStart, Len(chain)) /\ PlaceInBin(FrontStart, 0)
<1> DEFINE s == FrontStart
<1>1. /\ Partition(start, Len(chain)) /\ Len(start) \in Nat \ {0} /\ ~lost
      /\ Len(edges) = Len(start) /\ Ascending(edges) /\ lost' = lost
      /\ edges \in Seq(Values) /\ edges # <<>>
  BY EdgeTypes DEF BinAtFront, MayAdd, NBins, IInv, TypeOK
<1>2. /\ s \in Seq(Nat) /\ Len(s) = Len(start) + 1 /\ s[1] = start[1]
      /\ \A i \in 1 .. Len(start) : s[i + 1] = start[i]
      /\ s = [i \in 1 .. Len(start) + 1 |-> IF i = 1 THEN start[1] ELSE start[i - 1]]
  BY <1>1 DEF Partition, FrontStart
<1>3. Partition(s, Len(chain))
  <2>1. \A i \in 1 .. Len(start) : start[i] \in Nat /\ start[1] <= start[i]
    BY <1>1 DEF Partition, Ascending
  <2>2. ASSUME NEW i \in 1 .. Len(s), NEW j \in 1 .. Len(s), i <= j
        PROVE  s[i] <= s[j]
    <3>1. CASE i = 1 /\ j = 1
      BY <1>1, <1>2, <2>1, <3>1
    <3>3. CASE i = 1 /\ j > 1
      <4>1. j - 1 \in 1 .. Len(start) /\ s[j] = start[j - 1]
        BY <1>1, <1>2, <2>2, <3>3
      <4> QED
        BY <1>2, <2>1, <3>3, <4>1
    <3>2. CASE i > 1
      <4>1. i - 1 \in 1 .. Len(start) /\ j - 1 \in 1 .. Len(start) /\ i - 1 <= j - 1
        BY <1>1, <1>2, <2>2, <3>2
      <4>2. s[i] = start[i - 1] /\ s[j] = start[j - 1]
        BY <1>1, <1>2, <2>2, <3>2
      <4> QED
        BY <1>1, <4>1, <4>2 DEF Partition, Ascending
    <3> QED
      BY <1>1, <1>2, <2>2, <3>1, <3>2, <3>3
  <2>3. s[Len(s)] = start[Len(start)]
    BY <1>1, <1>2
  <2> HIDE DEF s
  <2> QED
    BY <1>1, <1>2, <2>2, <2>3 DEF Partition, Ascending
<1> QED
  BY <1>2, <1>3 DEF BinAtFront, FrontStart

LEMMA FrontEdges ==
  ASSUME IInv, NEW low \in Values, NEW up \in Values, BinAtFront(low, up)
  PROVE  /\ edges' \in Seq(Values) /\ Len(edges') = Len(edges) + 1 /\ edges' # <<>>
         /\ edges'[1] = low /\ edges[1] = up
         /\ \A i \in 1 .. Len(edges) : edges'[i + 1] = edges[i]
<1>1. Len(edges) \in Nat \ {0} /\ edges \in Seq(Values) /\ edges # <<>>
  BY EdgeTypes DEF IInv, TypeOK
<1>2. low \in Int /\ up \in Int /\ low <= up /\ up = edges[1]
      /\ edges' = <<low, up>> \o Tail(edges)
  BY SelectAssumption DEF BinAtFront, AddsAtFront, Low
<1>3. /\ edges' \in Seq(Values) /\ Len(edges') = Len(edges) + 1 /\ edges' # <<>>
      /\ edges'[1] = low
      /\ \A i \in 1 .. Len(edges) : edges'[i + 1] = edges[i]
  <2> DEFINE t == Tail(edges)
  <2>1. t \in Seq(Values) /\ Len(t) = Len(edges) - 1
        /\ \A i \in 1 .. Len(edges) - 1 : t[i] = edges[i + 1]
    BY <1>1
  <2> HIDE DEF t
  <2>2. <<low, up>> \in Seq(Values) /\ Len(<<low, up>>) = 2
    OBVIOUS
  <2>3. /\ edges' \in Seq(Values) /\ Len(edges') = 2 + (Len(edges) - 1)
        /\ \A i \in 1 .. 2 + (Len(edges) - 1) :
             edges'[i] = IF i <= 2 THEN <<low, up>>[i] ELSE t[i - 2]
    BY <1>2, <2>1, <2>2, ConcatProperties DEF t
  <2>4. edges'[1] = low /\ edges'[2] = up
    BY <1>1, <2>3
  <2>5. ASSUME NEW i \in 1 .. Len(edges)
        PROVE  edges'[i + 1] = edges[i]
    <3>1. CASE i = 1
      BY <1>2, <2>4, <3>1
    <3>2. CASE i > 1
      <4>1. i \in Int /\ i <= Len(edges) /\ Len(edges) \in Nat
        BY <1>1
      <4>2. i - 1 \in 1 .. Len(edges) - 1 /\ t[i - 1] = edges[(i - 1) + 1]
        BY <2>1, <3>2, <4>1
      <4>3. i + 1 \in 1 .. 2 + (Len(edges) - 1) /\ edges'[i + 1] = t[(i + 1) - 2]
        BY <2>3, <3>2, <4>1
      <4> QED
        BY <4>1, <4>2, <4>3
    <3> QED
      BY <1>1, <3>1, <3>2
  <2> QED
    BY <1>1, <2>3, <2>4, <2>5
<1> QED
  BY <1>2, <1>3

LEMMA BinAtFrontStep ==
  ASSUME IInv, NEW low \in Values, NEW up \in Values, BinAtFront(low, up)
  PROVE  IInv'
<1>1. /\ Partition(start, Len(chain)) /\ Len(start) \in Nat \ {0} /\ ~lost
      /\ Len(edges) = Len(start) /\ Ascending(edges) /\ lost' = lost
      /\ edges \in Seq(Values) /\ edges # <<>>
  BY EdgeTypes DEF BinAtFront, MayAdd, NBins, IInv, TypeOK
<1>5. /\ chain' \in Seq(Nat) /\ Partition(start', Len(chain'))
      /\ Len(start') = Len(start) + 1
  <2>1. /\ chain' \in Seq(Nat) /\ Partition(start', Len(chain'))
        /\ Len(start') = IF Len(FrontStart) < 0 + 2 THEN 0 + 2 ELSE Len(FrontStart)
    BY FrontBoundaries, PlaceStep
  <2> QED
    BY <1>1, <2>1, FrontBoundaries
<1>6. low \in Int /\ up \in Int /\ low <= up /\ up = edges[1]
  BY SelectAssumption DEF BinAtFront, AddsAtFront, Low
<1>7. /\ edges' \in Seq(Values) /\ Len(edges') = Len(edges) + 1 /\ edges' # <<>>
      /\ edges'[1] = low
      /\ \A i \in 1 .. Len(edges) : edges'[i + 1] = edges[i]
  BY FrontEdges
<1>8. Ascending(edges')
  <2>1. \A i \in 1 .. Len(edges) : edges[i] \in Int
    BY EdgeTypes
  <2>2. \A i \in 1 .. Len(edges) : low <= edges[i]
    <3> SUFFICES ASSUME NEW i \in 1 .. Len(edges) PROVE low <= edges[i]
      OBVIOUS
    <3>1. 1 \in 1 .. Len(edges) /\ 1 <= i
      BY <1>1
    <3>2. edges[1] <= edges[i]
      BY <1>1, <3>1 DEF Ascending
    <3>3. edges[1] \in Int /\ edges[i] \in Int
      BY <2>1, <3>1
    <3>4. low \in Int /\ low <= edges[1]
      BY <1>1, <1>6, SelectAssumption
    <3> QED
      BY <3>2, <3>3, <3>4
  <2> SUFFICES ASSUME NEW i \in 1 .. Len(edges'), NEW j \in 1 .. Len(edges'), i <= j
               PROVE  edges'[i] <= edges'[j]
    BY DEF Ascending
  <2>3. CASE i = 1 /\ j = 1
    BY <1>6, <1>7, <2>3
  <2>4. CASE i = 1 /\ j > 1
    <3>1. j - 1 \in 1 .. Len(edges) /\ edges'[(j - 1) + 1] = edges[j - 1]
      BY <1>1, <1>7, <2>4
    <3> QED
      BY <1>7, <2>2, <2>4, <3>1
  <2>5. CASE i > 1
    <3>0. i - 1 \in 1 .. Len(edges) /\ j - 1 \in 1 .. Len(edges)
          /\ i - 1 <= j - 1 /\ (i - 1) + 1 = i /\ (j - 1) + 1 = j
      BY <1>1, <1>7, <2>5
    <3>1. edges'[i] = edges[i - 1] /\ edges'[j] = edges[j - 1]
      BY <1>7, <3>0
    <3>2. edges[i - 1] <= edges[j - 1]
      BY <1>1, <3>0 DEF Ascending
    <3> QED
      BY <3>1, <3>2
  <2> QED
    BY <1>1, <1>7, <2>3, <2>4, <2>5
<1>9. place' \in Seq(Places)
  BY InRangeType, PlacedType DEF BinAtFront
<1>10. answer' \in [range : Ranges, bin : Int] /\ lost' \in BOOLEAN
  BY <1>1, AnswerType DEF BinAtFront, IInv, TypeOK
<1>11. Len(edges') = Len(start')
  BY <1>1, <1>5, <1>7
<1> QED
  BY <1>5, <1>7, <1>8, <1>9, <1>10, <1>11, Summary

LEMMA OtherSteps ==
  ASSUME IInv,
         Copy \/ UNCHANGED vars
           \/ (\E low, up \in Values : Reject(low, up))
  PROVE  IInv'
<1>1. CASE UNCHANGED vars
  BY <1>1 DEF vars, IInv, TypeOK, BinsPartitionChain, EdgesMatchBins
<1>2. CASE Copy
  <2>1. UNCHANGED <<chain, start, place, answer>> /\ edges' = <<0>>
        /\ lost' = (NBins > 0) /\ NBins \in Nat /\ Partition(start, Len(chain))
        /\ Len(start) = NBins + 1
    BY <1>2, EdgeTypes DEF Copy, NBins
  <2>2. edges' \in Seq(Values) /\ edges' # <<>> /\ Len(edges') = 1 /\ Ascending(edges')
    BY <2>1, SelectAssumption DEF Ascending
  <2>3. Partition(start', Len(chain'))
    BY <2>1 DEF Partition, Ascending
  <2>4. chain' \in Seq(Nat) /\ place' \in Seq(Places)
        /\ answer' \in [range : Ranges, bin : Int] /\ lost' \in BOOLEAN
    BY <2>1 DEF IInv, TypeOK
  <2>5. lost' \/ Len(edges') = Len(start')
    <3>1. CASE NBins > 0
      BY <2>1, <3>1
    <3>2. CASE NBins = 0
      <4>1. Len(start') = 1
        BY <2>1, <3>2
      <4> QED
        BY <2>2, <4>1
    <3> QED
      BY <2>1, <3>1, <3>2
  <2> QED
    BY <2>2, <2>3, <2>4, <2>5, Summary
<1>3. ASSUME NEW low \in Values, NEW up \in Values, Reject(low, up)
      PROVE  IInv'
  <2>1. UNCHANGED <<chain, start, edges, place, lost>>
    BY <1>3 DEF Reject
  <2>2. answer' \in [range : Ranges, bin : Int]
    BY <1>3, AnswerType DEF Reject
  <2> QED
    BY <2>1, <2>2 DEF IInv, TypeOK, BinsPartitionChain, EdgesMatchBins
<1> QED
  BY <1>1, <1>2, <1>3

LEMMA Preserved == IInv /\ [Next]_vars => IInv'
<1> SUFFICES ASSUME IInv, [Next]_vars PROVE IInv'
  OBVIOUS
<1>1. CASE \E b \in 0 .. NBins - 1 : PushInBin(b)
  BY <1>1, PushInBinStep
<1>2. CASE \E r \in Ranges : PushRange(r[1], r[2])
  <2>1. PICK r \in Ranges : PushRange(r[1], r[2])
    BY <1>2
  <2>2. r[1] \in Values /\ r[2] \in Values
    BY DEF Ranges
  <2> QED
    BY <2>1, <2>2, FirstBinStep, BinAtEndStep, ExistingBinStep, BinAtFrontStep,
       OtherSteps DEF PushRange
<1> QED
  BY <1>1, <1>2, PushBeforeStep, PushBackStep, OtherSteps DEF Next

LEMMA Initially == Init => IInv
<1> SUFFICES ASSUME Init PROVE IInv
  OBVIOUS
<1>1. /\ chain = <<>> /\ start = <<0>> /\ edges = <<0>> /\ place = <<>>
      /\ answer = NoAnswer /\ lost = FALSE /\ 0 \in Values
  BY SelectAssumption DEF Init
<1>2. chain \in Seq(Nat) /\ start \in Seq(Nat) /\ edges \in Seq(Values)
      /\ place \in Seq(Places) /\ lost \in BOOLEAN /\ edges # <<>>
  <2>1. chain \in Seq(Nat) /\ place \in Seq(Places)
    BY <1>1
  <2>2. <<0>> \in Seq(Nat)
    OBVIOUS
  <2>3. <<0>> \in Seq(Values)
    BY <1>1
  <2>4. edges # <<>> /\ lost \in BOOLEAN
    BY <1>1
  <2> QED
    BY <1>1, <2>1, <2>2, <2>3, <2>4
<1>3. answer \in [range : Ranges, bin : Int]
  BY <1>1 DEF NoAnswer, Ranges
<1>4. BinsPartitionChain
  BY <1>1 DEF BinsPartitionChain
<1>5. EdgesMatchBins
  BY <1>1 DEF EdgesMatchBins
<1> QED
  BY <1>2, <1>3, <1>4, <1>5 DEF IInv, TypeOK

THEOREM Invariant == Spec => []IInv
BY Initially, Preserved, PTL DEF Spec

\* The types, for all values and sizes.
THEOREM TypeCorrect == Spec => []TypeOK
<1>1. IInv => TypeOK
  BY DEF IInv
<1> QED
  BY Invariant, <1>1, PTL

\* However a chain is put together, m_bin_start partitions m_chain: the element
\* loops of simulate() never index outside it.
THEOREM BinsStayAPartition == Spec => []BinsPartitionChain
<1>1. IInv => BinsPartitionChain
  BY DEF IInv
<1> QED
  BY Invariant, <1>1, PTL

\* Every bin of a chain that is no copy has its edges, and they ascend.
THEOREM EdgesStayInOrder == Spec => []EdgesMatchBins
<1>1. IInv => EdgesMatchBins
  BY DEF IInv
<1> QED
  BY Invariant, <1>1, PTL

-----------------------------------------------------------------------------
(* What runs.  The elements of the chain are numbered; boundaries and edges  *)
(* say of each position for which values its element runs, and that must be  *)
(* the range for which the element was added.                                *)

Ids ==
  /\ Len(chain) = Len(place)
  /\ \A i \in 1 .. Len(chain) : chain[i] \in 1 .. Len(place)
  /\ \A i, j \in 1 .. Len(chain) : chain[i] = chain[j] => i = j
  /\ \A p \in 1 .. Len(place) : \E i \in 1 .. Len(chain) : chain[i] = p

\* Position i is where w asks an element to be, for boundaries s and edges ed.
Lies(w, i, s, ed) ==
  \/ w.part = "before" /\ i <= s[1]
  \/ w.part = "after" /\ s[Len(s)] < i
  \/ \E b \in 1 .. Len(s) - 1 :
       w = InRange(ed[b], ed[b + 1]) /\ s[b] < i /\ i <= s[b + 1]
Located(s, ed) == \A i \in 1 .. Len(chain) : Lies(place[chain[i]], i, s, ed)
LocatedNext(s, ed) == \A i \in 1 .. Len(chain') : Lies(place'[chain'[i]], i, s, ed)

RInv ==
  /\ IInv /\ Ids /\ InOrderOfAddition /\ RefusedIsNoBin
  /\ ~lost => Located(start, edges)

\* An insertion, element by element.
LEMMA InsertedPoints ==
  ASSUME NEW s \in Seq(Nat), NEW at \in 0 .. Len(s), NEW x \in Nat
  PROVE  \A i \in 1 .. Len(s) + 1 :
           Inserted(s, at, x)[i] = IF i <= at THEN s[i] ELSE IF i = at + 1 THEN x ELSE s[i - 1]
<1> DEFINE front == SubSeq(s, 1, at)
           back == SubSeq(s, at + 1, Len(s))
           both == front \o <<x>>
<1>1. Len(s) \in Nat /\ at \in Nat /\ at <= Len(s)
  OBVIOUS
<1>2. front \in Seq(Nat) /\ Len(front) = at /\ \A i \in 1 .. at : front[i] = s[i]
  <2>1. \A i \in 1 .. at : front[i] = s[1 + i - 1] /\ 1 + i - 1 = i
    BY <1>1, SubSeqProperties
  <2>2. front \in Seq(Nat) /\ Len(front) = at
    BY <1>1, SubSeqProperties
  <2> QED
    BY <2>1, <2>2
<1>3. /\ back \in Seq(Nat) /\ Len(back) = Len(s) - at
      /\ \A i \in 1 .. Len(s) - at : back[i] = s[at + i]
  <2>1. /\ back \in Seq(Nat) /\ Len(back) = IF at + 1 <= Len(s) THEN Len(s) - (at + 1) + 1 ELSE 0
        /\ \A i \in 1 .. Len(s) - (at + 1) + 1 : back[i] = s[(at + 1) + i - 1]
    BY <1>1, SubSeqProperties
  <2>2. Len(s) - (at + 1) + 1 = Len(s) - at
    BY <1>1
  <2>3. \A i \in 1 .. Len(s) - at : (at + 1) + i - 1 = at + i
    BY <1>1
  <2>4. Len(back) = Len(s) - at
    BY <1>1, <2>1
  <2> HIDE DEF back
  <2>5. \A i \in 1 .. Len(s) - at : back[i] = s[(at + 1) + i - 1]
    BY <2>1, <2>2
  <2>6. \A i \in 1 .. Len(s) - at : back[i] = s[at + i]
    BY <2>3, <2>5
  <2> QED
    BY <2>1, <2>4, <2>6
<1>4. Inserted(s, at, x) = both \o back
  BY DEF Inserted
<1> HIDE DEF front, back
<1>5. /\ both \in Seq(Nat) /\ Len(both) = at + 1
      /\ \A i \in 1 .. at : both[i] = front[i]
      /\ both[at + 1] = x
  <2>1. <<x>> \in Seq(Nat) /\ Len(<<x>>) = 1 /\ <<x>>[1] = x
    OBVIOUS
  <2>2. /\ both \in Seq(Nat) /\ Len(both) = at + 1
        /\ \A i \in 1 .. at + 1 : both[i] = IF i <= at THEN front[i] ELSE <<x>>[i - at]
    BY <1>2, <2>1, ConcatProperties
  <2>3. at + 1 \in 1 .. at + 1 /\ (at + 1) - at = 1 /\ ~(at + 1 <= at)
    BY <1>1
  <2>4. both[at + 1] = <<x>>[(at + 1) - at]
    BY <2>2, <2>3
  <2> HIDE DEF both
  <2> QED
    BY <1>1, <2>1, <2>2, <2>3, <2>4
<1> HIDE DEF both
<1>6. \A i \in 1 .. (at + 1) + (Len(s) - at) :
        (both \o back)[i] = IF i <= at + 1 THEN both[i] ELSE back[i - (at + 1)]
  <2>1. \A i \in 1 .. Len(both) + Len(back) :
          (both \o back)[i] = IF i <= Len(both) THEN both[i] ELSE back[i - Len(both)]
    BY <1>3, <1>5, ConcatProperties
  <2>2. Len(both) = at + 1 /\ Len(back) = Len(s) - at
    BY <1>3, <1>5
  <2> QED
    BY <2>1, <2>2
<1> SUFFICES ASSUME NEW i \in 1 .. Len(s) + 1
             PROVE  (both \o back)[i] = IF i <= at THEN s[i] ELSE IF i = at + 1 THEN x ELSE s[i - 1]
  BY <1>4
<1>7. i \in 1 .. (at + 1) + (Len(s) - at)
  BY <1>1
<1>8. CASE i <= at
  BY <1>1, <1>2, <1>5, <1>6, <1>7, <1>8
<1>9. CASE i = at + 1
  BY <1>1, <1>5, <1>6, <1>7, <1>9
<1>10. CASE i > at + 1
  <2>1. /\ i - (at + 1) \in 1 .. Len(s) - at /\ at + (i - (at + 1)) = i - 1
        /\ ~(i <= at + 1) /\ ~(i <= at) /\ i # at + 1
    BY <1>1, <1>10
  <2>2. (both \o back)[i] = back[i - (at + 1)]
    BY <1>6, <1>7, <2>1
  <2>3. back[i - (at + 1)] = s[at + (i - (at + 1))]
    BY <1>3, <2>1
  <2> QED
    BY <2>1, <2>2, <2>3
<1>11. i <= at \/ i = at + 1 \/ i > at + 1
  BY <1>1
<1> QED
  BY <1>8, <1>9, <1>10, <1>11

\* A new element at position at + 1, asked to be at w.
InsertsAt(at, w) ==
  /\ Len(chain') = Len(chain) + 1
  /\ \A i \in 1 .. Len(chain) + 1 :
       chain'[i] = IF i <= at THEN chain[i]
                   ELSE IF i = at + 1 THEN Len(place) + 1 ELSE chain[i - 1]
  /\ place' = Append(place, w)

LEMMA PlaceGrows ==
  ASSUME IInv, NEW w, place' = Append(place, w)
  PROVE  /\ Len(place) \in Nat /\ Len(place') = Len(place) + 1
         /\ \A p \in 1 .. Len(place) : place'[p] = place[p]
         /\ place'[Len(place) + 1] = w
BY DEF IInv, TypeOK

LEMMA InsertIds ==
  ASSUME IInv, Ids, NEW at \in 0 .. Len(chain), NEW w, InsertsAt(at, w)
  PROVE  Ids'
<1> DEFINE n == Len(chain)
<1>1. /\ n \in Nat /\ Len(place) = n /\ Len(place') = n + 1 /\ Len(chain') = n + 1
  BY PlaceGrows DEF IInv, TypeOK, Ids, InsertsAt
<1>2. \A i \in 1 .. n + 1 :
        chain'[i] = IF i <= at THEN chain[i] ELSE IF i = at + 1 THEN n + 1 ELSE chain[i - 1]
  BY <1>1 DEF InsertsAt
<1>3. \A i \in 1 .. n : chain[i] \in 1 .. n
  BY <1>1 DEF Ids
<1>4. \A i, j \in 1 .. n : chain[i] = chain[j] => i = j
  BY <1>1 DEF Ids
<1>5. \A p \in 1 .. n : \E i \in 1 .. n : chain[i] = p
  BY <1>1 DEF Ids
<1>0. at \in Nat /\ at <= n
  BY <1>1
<1> HIDE DEF n
<1>6. \A i \in 1 .. n + 1 : /\ i <= at => i \in 1 .. n
                           /\ i > at + 1 => i - 1 \in 1 .. n
  BY <1>1 DEF n
<1>10. \A i \in 1 .. n + 1 :
         \/ i = at + 1 /\ chain'[i] = n + 1
         \/ \E k \in 1 .. n : k = (IF i <= at THEN i ELSE i - 1) /\ chain'[i] = chain[k] /\ i # at + 1
  <2> SUFFICES ASSUME NEW i \in 1 .. n + 1, i # at + 1
               PROVE  \E k \in 1 .. n : k = (IF i <= at THEN i ELSE i - 1) /\ chain'[i] = chain[k]
    BY <1>0, <1>1, <1>2
  <2>1. CASE i <= at
    <3>1. i \in 1 .. n
      BY <1>0, <1>1, <2>1
    <3>2. chain'[i] = chain[i]
      BY <1>2, <2>1
    <3> QED
      BY <2>1, <3>1, <3>2
  <2>2. CASE ~(i <= at)
    <3>1. i - 1 \in 1 .. n
      BY <1>0, <1>6, <2>2
    <3>2. chain'[i] = chain[i - 1]
      BY <1>2, <2>2
    <3> QED
      BY <2>2, <3>1, <3>2
  <2> QED
    BY <2>1, <2>2
<1>7. \A i \in 1 .. n + 1 : chain'[i] \in 1 .. n + 1
  BY <1>1, <1>3, <1>10
<1>8. ASSUME NEW i \in 1 .. n + 1, NEW j \in 1 .. n + 1, chain'[i] = chain'[j]
      PROVE  i = j
  <2>1. \A k \in 1 .. n + 1 : k # at + 1 => chain'[k] \in 1 .. n
    BY <1>3, <1>10
  <2>2. at + 1 \in 1 .. n + 1 /\ chain'[at + 1] = n + 1
    BY <1>0, <1>1, <1>2
  <2>3. CASE i = at + 1 \/ j = at + 1
    BY <1>0, <1>1, <1>8, <2>1, <2>2, <2>3
  <2>4. CASE i # at + 1 /\ j # at + 1
    <3>1. PICK k \in 1 .. n : k = (IF i <= at THEN i ELSE i - 1) /\ chain'[i] = chain[k]
      BY <1>10, <2>4
    <3>2. PICK m \in 1 .. n : m = (IF j <= at THEN j ELSE j - 1) /\ chain'[j] = chain[m]
      BY <1>10, <2>4
    <3>3. k = m
      BY <1>4, <1>8, <3>1, <3>2
    <3> QED
      BY <1>0, <1>1, <2>4, <3>1, <3>2, <3>3
  <2> QED
    BY <2>3, <2>4
<1>9. ASSUME NEW p \in 1 .. n + 1 PROVE \E i \in 1 .. n + 1 : chain'[i] = p
  <2>1. CASE p = n + 1
    <3>1. at + 1 \in 1 .. n + 1 /\ chain'[at + 1] = n + 1
      BY <1>0, <1>1, <1>2
    <3> QED
      BY <2>1, <3>1
  <2>2. CASE p # n + 1
    <3>1. PICK k \in 1 .. n : chain[k] = p
      <4>1. p \in 1 .. n
        BY <1>1, <2>2
      <4> QED
        BY <1>5, <4>1
    <3>2. CASE k <= at
      BY <1>0, <1>1, <1>2, <3>1, <3>2
    <3>3. CASE k > at
      <4>1. k + 1 \in 1 .. n + 1 /\ ~(k + 1 <= at) /\ k + 1 # at + 1 /\ (k + 1) - 1 = k
        BY <1>0, <1>1, <3>3
      <4>2. chain'[k + 1] = chain[(k + 1) - 1]
        BY <1>2, <4>1
      <4> QED
        BY <3>1, <4>1, <4>2
    <3> QED
      BY <1>0, <1>1, <3>2, <3>3
  <2> QED
    BY <2>1, <2>2
<1> QED
  BY <1>1, <1>7, <1>8, <1>9 DEF Ids, n

LEMMA InsertOrder ==
  ASSUME IInv, Ids, InOrderOfAddition, NEW at \in 0 .. Len(chain), NEW w, InsertsAt(at, w),
         \A i \in at + 1 .. Len(chain) : MayRun(w) => place[chain[i]] # w
  PROVE  InOrderOfAddition'
<1> DEFINE n == Len(chain)
<1>1. /\ n \in Nat /\ Len(place) = n /\ Len(chain') = n + 1 /\ place'[n + 1] = w
      /\ \A p \in 1 .. n : place'[p] = place[p]
  BY PlaceGrows DEF IInv, TypeOK, Ids, InsertsAt
<1>2. \A i \in 1 .. n + 1 :
        chain'[i] = IF i <= at THEN chain[i] ELSE IF i = at + 1 THEN n + 1 ELSE chain[i - 1]
  BY <1>1 DEF InsertsAt
<1>3. \A i \in 1 .. n : chain[i] \in 1 .. n
  BY <1>1 DEF Ids
<1> SUFFICES ASSUME NEW i \in 1 .. n + 1, NEW j \in 1 .. n + 1, i < j,
                    place'[chain'[i]] = place'[chain'[j]], MayRun(place'[chain'[i]])
             PROVE  chain'[i] < chain'[j]
  BY <1>1 DEF InOrderOfAddition, MayRun
<1>4. \A k, m \in 1 .. n : k < m /\ place[chain[k]] = place[chain[m]] /\ MayRun(place[chain[k]])
                          => chain[k] < chain[m]
  BY DEF InOrderOfAddition
<1>5. \A k \in at + 1 .. n : MayRun(w) => place[chain[k]] # w
  OBVIOUS
<1>0. at \in Nat /\ at <= n
  BY <1>1
<1> HIDE DEF n
<1>6. CASE i = at + 1
  <2>1. j - 1 \in at + 1 .. n /\ j - 1 \in 1 .. n /\ ~(j <= at) /\ j # at + 1
    BY <1>0, <1>1, <1>6
  <2>2. chain'[j] = chain[j - 1] /\ chain'[i] = n + 1
    BY <1>0, <1>1, <1>2, <1>6, <2>1
  <2>3. place[chain[j - 1]] = w /\ MayRun(w)
    BY <1>1, <1>3, <2>1, <2>2
  <2> QED
    BY <1>5, <2>1, <2>3
<1>7. CASE j = at + 1
  <2>1. i \in 1 .. n /\ i <= at
    BY <1>0, <1>1, <1>7
  <2>2. chain'[i] = chain[i] /\ chain'[j] = n + 1
    BY <1>0, <1>1, <1>2, <1>7, <2>1
  <2> QED
    BY <1>1, <1>3, <2>1, <2>2
<1>8. CASE i # at + 1 /\ j # at + 1
  <2>1. PICK k \in 1 .. n : k = (IF i <= at THEN i ELSE i - 1) /\ chain'[i] = chain[k]
    BY <1>0, <1>1, <1>2, <1>8
  <2>2. PICK m \in 1 .. n : m = (IF j <= at THEN j ELSE j - 1) /\ chain'[j] = chain[m]
    BY <1>0, <1>1, <1>2, <1>8
  <2>3. k < m
    BY <1>0, <1>1, <1>8, <2>1, <2>2
  <2>4. place'[chain'[i]] = place[chain[k]] /\ place'[chain'[j]] = place[chain[m]]
    BY <1>1, <1>3, <2>1, <2>2
  <2> QED
    BY <1>4, <2>1, <2>2, <2>3, <2>4
<1> QED
  BY <1>6, <1>7, <1>8

\* push_back() in a bin, or before the first one: the boundaries from the one
\* at the end of the bin on move up with the elements behind it.
LEMMA InsertLies ==
  ASSUME IInv, Ids, NEW s, Partition(s, Len(chain)), NEW ed, Located(s, ed),
         NEW k \in 1 .. Len(s), NEW w, InsertsAt(s[k], w),
         Lies(w, s[k] + 1, Shifted(s, k), ed)
  PROVE  LocatedNext(Shifted(s, k), ed)
<1> DEFINE n == Len(chain)
           at == s[k]
           t == Shifted(s, k)
           top == Len(s)
<1>1. /\ n \in Nat /\ Len(place) = n /\ Len(chain') = n + 1 /\ place'[n + 1] = w
      /\ \A p \in 1 .. n : place'[p] = place[p]
  BY PlaceGrows DEF IInv, TypeOK, Ids, InsertsAt
<1>2. /\ top \in Nat \ {0} /\ \A i \in 1 .. top : s[i] \in Nat
      /\ \A i, j \in 1 .. top : i <= j => s[i] <= s[j]
      /\ s[top] <= n
  BY DEF Partition, Ascending
<1>3. Len(t) = top /\ \A i \in 1 .. top : t[i] = IF i >= k THEN s[i] + 1 ELSE s[i]
  BY <1>2 DEF Shifted
<1>4. at \in Nat /\ at <= n /\ k \in Nat /\ 1 <= k /\ k <= top
  <2>1. top \in 1 .. top /\ s[k] <= s[top]
    BY <1>2
  <2> QED
    BY <1>1, <1>2, <2>1
<1>5. \A i \in 1 .. n + 1 :
        chain'[i] = IF i <= at THEN chain[i] ELSE IF i = at + 1 THEN n + 1 ELSE chain[i - 1]
  BY <1>1 DEF InsertsAt
<1>6. \A i \in 1 .. n : chain[i] \in 1 .. n /\ Lies(place[chain[i]], i, s, ed)
  BY <1>1 DEF Ids, Located
<1>7. Lies(w, at + 1, t, ed)
  OBVIOUS
<1> HIDE DEF n, at, t, top
<1> SUFFICES ASSUME NEW i \in 1 .. n + 1
             PROVE  Lies(place'[chain'[i]], i, t, ed)
  BY <1>1 DEF LocatedNext, t
<1>8. CASE i = at + 1
  BY <1>1, <1>4, <1>5, <1>7, <1>8
<1>9. CASE i <= at
  <2>1. i \in 1 .. n /\ i <= n
    BY <1>1, <1>4, <1>9
  <2>2. place'[chain'[i]] = place[chain[i]]
    BY <1>1, <1>5, <1>6, <1>9, <2>1
  <2> DEFINE u == place[chain[i]]
  <2>3. Lies(u, i, s, ed)
    BY <1>6, <2>1
  <2> HIDE DEF u
  <2>4. CASE u.part = "before" /\ i <= s[1]
    <3>1. 1 \in 1 .. top /\ s[1] <= t[1]
      BY <1>2, <1>3
    <3>2. s[1] \in Nat /\ t[1] \in Nat
      BY <1>2, <1>3, <3>1
    <3>3. i <= t[1]
      BY <2>4, <3>1, <3>2
    <3> QED
      BY <2>2, <2>4, <3>3 DEF Lies, u
  <2>5. CASE u.part = "after" /\ s[top] < i
    <3>1. s[k] <= s[top] /\ s[k] \in Nat /\ s[top] \in Nat
      BY <1>2, <1>4
    <3> QED
      BY <1>9, <2>5, <3>1 DEF at
  <2>6. CASE \E b \in 1 .. top - 1 :
               u = InRange(ed[b], ed[b + 1]) /\ s[b] < i /\ i <= s[b + 1]
    <3>1. PICK b \in 1 .. top - 1 :
            u = InRange(ed[b], ed[b + 1]) /\ s[b] < i /\ i <= s[b + 1]
      BY <2>6
    <3>2. b \in 1 .. top /\ b + 1 \in 1 .. top /\ s[b] \in Nat /\ s[b + 1] \in Nat
      BY <1>2
    <3>3. b < k
      <4>1. CASE b >= k
        <5>1. s[k] <= s[b]
          BY <1>2, <1>4, <3>2, <4>1
        <5> QED
          BY <1>2, <1>4, <1>9, <3>1, <3>2, <5>1 DEF at
      <4> QED
        BY <1>4, <3>2, <4>1
    <3>4. t[b] = s[b] /\ s[b + 1] <= t[b + 1] /\ t[b + 1] \in Nat
      BY <1>3, <1>4, <3>2, <3>3
    <3>5. t[b] < i /\ i <= t[b + 1]
      BY <3>1, <3>2, <3>4
    <3> QED
      BY <1>3, <2>2, <3>1, <3>5 DEF Lies, u
  <2> QED
    BY <2>3, <2>4, <2>5, <2>6 DEF Lies, top
<1>10. CASE i > at + 1
  <2> DEFINE j == i - 1
  <2>1. j \in 1 .. n /\ j > at /\ i = j + 1 /\ ~(i <= at) /\ i # at + 1
    BY <1>1, <1>4, <1>10
  <2>2. place'[chain'[i]] = place[chain[j]]
    <3>1. chain'[i] = chain[j]
      BY <1>5, <2>1
    <3> QED
      BY <1>1, <1>6, <2>1, <3>1
  <2> DEFINE u == place[chain[j]]
  <2>3. Lies(u, j, s, ed)
    BY <1>6, <2>1
  <2> HIDE DEF u, j
  <2>4. CASE u.part = "before" /\ j <= s[1]
    <3>1. s[1] <= s[k] /\ s[1] \in Nat /\ s[k] \in Nat
      BY <1>2, <1>4
    <3> QED
      BY <2>1, <2>4, <3>1 DEF at
  <2>5. CASE u.part = "after" /\ s[top] < j
    <3>1. t[top] = s[top] + 1 /\ s[top] \in Nat
      BY <1>2, <1>3, <1>4
    <3>2. t[top] < i
      BY <2>1, <2>5, <3>1
    <3> QED
      BY <1>3, <2>2, <2>5, <3>2 DEF Lies, u
  <2>6. CASE \E b \in 1 .. top - 1 :
               u = InRange(ed[b], ed[b + 1]) /\ s[b] < j /\ j <= s[b + 1]
    <3>1. PICK b \in 1 .. top - 1 :
            u = InRange(ed[b], ed[b + 1]) /\ s[b] < j /\ j <= s[b + 1]
      BY <2>6
    <3>2. b \in 1 .. top /\ b + 1 \in 1 .. top /\ s[b] \in Nat /\ s[b + 1] \in Nat
      BY <1>2
    <3>3. b + 1 > k
      <4>1. CASE b + 1 <= k
        <5>1. s[b + 1] <= s[k]
          BY <1>2, <1>4, <3>2, <4>1
        <5> QED
          BY <1>2, <1>4, <2>1, <3>1, <3>2, <5>1 DEF at
      <4> QED
        BY <1>4, <3>2, <4>1
    <3>4. t[b] = s[b] + 1 /\ t[b + 1] = s[b + 1] + 1
      BY <1>3, <1>4, <3>2, <3>3
    <3>5. t[b] < i /\ i <= t[b + 1]
      BY <2>1, <3>1, <3>2, <3>4
    <3> QED
      BY <1>3, <2>2, <3>1, <3>5 DEF Lies, u
  <2> QED
    BY <2>3, <2>4, <2>5, <2>6 DEF Lies, top
<1> QED
  BY <1>4, <1>8, <1>9, <1>10

\* No element with a range of values lies behind the bin that has its range.
LEMMA NoneBehind ==
  ASSUME IInv, NEW s, Partition(s, Len(chain)), NEW ed \in Seq(Values), Ascending(ed),
         Len(ed) = Len(s), Located(s, ed),
         NEW k \in 2 .. Len(s), NEW w, w = InRange(ed[k - 1], ed[k])
  PROVE  \A i \in s[k] + 1 .. Len(chain) : MayRun(w) => place[chain[i]] # w
<1> SUFFICES ASSUME NEW i \in s[k] + 1 .. Len(chain), MayRun(w), place[chain[i]] = w PROVE FALSE
  OBVIOUS
<1>1. /\ Len(s) \in Nat \ {0} /\ \A j \in 1 .. Len(s) : s[j] \in Nat
      /\ \A j, m \in 1 .. Len(s) : j <= m => s[j] <= s[m]
  BY DEF Partition, Ascending
<1>2. /\ \A j \in 1 .. Len(s) : ed[j] \in Int
      /\ \A j, m \in 1 .. Len(s) : j <= m => ed[j] <= ed[m]
  <2>1. \A j \in 1 .. Len(s) : ed[j] \in Values
    OBVIOUS
  <2>2. Values \subseteq Int
    BY SelectAssumption
  <2>3. \A j, m \in 1 .. Len(s) : j <= m => ed[j] <= ed[m]
    BY DEF Ascending
  <2> QED
    BY <2>1, <2>2, <2>3
<1>3. k \in 1 .. Len(s) /\ k - 1 \in 1 .. Len(s) /\ 1 \in 1 .. Len(s)
  BY <1>1
<1>4. w.part = "bin" /\ w.low = ed[k - 1] /\ w.up = ed[k] /\ ed[k - 1] < ed[k]
  BY DEF InRange, MayRun
<1>5. i \in 1 .. Len(chain) /\ s[k] < i
  <2>1. Len(chain) \in Nat
    BY DEF IInv, TypeOK
  <2>2. s[k] \in Nat
    BY <1>1, <1>3
  <2> QED
    BY <2>1, <2>2
<1>6. Lies(w, i, s, ed)
  BY <1>5 DEF Located
<1>7. PICK b \in 1 .. Len(s) - 1 :
        w = InRange(ed[b], ed[b + 1]) /\ s[b] < i /\ i <= s[b + 1]
  BY <1>4, <1>6 DEF Lies
<1>8. b \in 1 .. Len(s) /\ b + 1 \in 1 .. Len(s)
  BY <1>1
<1>9. b >= k
  <2>1. CASE b + 1 <= k
    <3>1. s[b + 1] <= s[k]
      BY <1>1, <1>3, <1>8, <2>1
    <3> QED
      BY <1>1, <1>3, <1>5, <1>7, <1>8, <3>1
  <2> QED
    BY <1>8, <2>1
<1>10. ed[k] <= ed[b] /\ ed[b] = ed[k - 1]
  BY <1>2, <1>3, <1>4, <1>7, <1>8, <1>9 DEF InRange
<1> QED
  BY <1>2, <1>3, <1>4, <1>10

\* push_back_in_bin() with boundaries s and edges ed in which all lies right.
LEMMA PlacedRight ==
  ASSUME RInv, NEW s, Partition(s, Len(chain)), NEW b \in Nat, PlaceInBin(s, b),
         IInv', edges' \in Seq(Values), Ascending(edges'), Len(edges') = Len(start'),
         Located(WithBin(s, b), edges'), place' = Append(place, InRange(edges'[b + 1], edges'[b + 2]))
  PROVE  Ids' /\ InOrderOfAddition' /\ LocatedNext(start', edges')
<1> DEFINE g == WithBin(s, b)
           ed == edges'
           k == b + 2
           w == InRange(ed[k - 1], ed[k])
<1>1. /\ g \in Seq(Nat) /\ Partition(g, Len(chain))
      /\ Len(g) = IF Len(s) < b + 2 THEN b + 2 ELSE Len(s)
  <2>1. s \in Seq(Nat) /\ s # <<>> /\ Ascending(s) /\ s[Len(s)] <= Len(chain)
    BY DEF Partition
  <2>2. g = EdgesFor(s, b + 2)
    BY DEF WithBin, EdgesFor
  <2> HIDE DEF g
  <2>3. /\ EdgesFor(s, b + 2) \in Seq(Nat) /\ EdgesFor(s, b + 2) # <<>>
        /\ Ascending(EdgesFor(s, b + 2))
        /\ Len(EdgesFor(s, b + 2)) = IF Len(s) < b + 2 THEN b + 2 ELSE Len(s)
        /\ EdgesFor(s, b + 2)[Len(EdgesFor(s, b + 2))] = s[Len(s)]
    BY <2>1, Extended
  <2> QED
    BY <2>1, <2>2, <2>3 DEF Partition
<1>2. Len(s) \in Nat
  BY DEF Partition
<1>3. k \in 2 .. Len(g) /\ k \in 1 .. Len(g) /\ k - 1 = b + 1 /\ k \in Nat
  BY <1>1, <1>2
<1>4. chain' = Inserted(chain, g[k], Len(place) + 1) /\ start' = Shifted(g, k)
  BY DEF PlaceInBin
<1>5. Len(start') = Len(g)
  BY <1>1, <1>2, <1>4 DEF Shifted
<1>6. place' = Append(place, w)
  BY <1>3
<1>7. /\ \A i \in 1 .. Len(g) : g[i] \in Nat
      /\ \A i, j \in 1 .. Len(g) : i <= j => g[i] <= g[j]
      /\ g[Len(g)] <= Len(chain) /\ Len(chain) \in Nat /\ chain \in Seq(Nat)
  <2> HIDE DEF g
  <2>1. Len(chain) \in Nat /\ chain \in Seq(Nat)
    BY DEF RInv, IInv, TypeOK
  <2>2. /\ \A i \in 1 .. Len(g) : g[i] \in Nat
        /\ \A i, j \in 1 .. Len(g) : i <= j => g[i] <= g[j]
        /\ g[Len(g)] <= Len(chain)
    <3>1. Partition(g, Len(chain))
      BY <1>1
    <3> QED
      BY <3>1 DEF Partition, Ascending
  <2> QED
    BY <2>1, <2>2
<1> HIDE DEF g, k, w, ed
<1>8. g[k] \in 0 .. Len(chain)
  <2>1. Len(g) \in 1 .. Len(g) /\ g[k] <= g[Len(g)]
    BY <1>3, <1>7
  <2> QED
    BY <1>3, <1>7, <2>1
<1>9. InsertsAt(g[k], w)
  <2>1. Len(place) + 1 \in Nat
    BY DEF RInv, IInv, TypeOK
  <2>2. Len(chain') = Len(chain) + 1
    BY <1>4, <1>7, <1>8, <2>1, InsertedType
  <2>3. \A i \in 1 .. Len(chain) + 1 :
          chain'[i] = IF i <= g[k] THEN chain[i] ELSE IF i = g[k] + 1 THEN Len(place) + 1 ELSE chain[i - 1]
    <3>1. PICK at \in 0 .. Len(chain) : at = g[k]
      BY <1>8
    <3>2. PICK x \in Nat : x = Len(place) + 1
      BY <2>1
    <3>3. \A i \in 1 .. Len(chain) + 1 :
            Inserted(chain, at, x)[i]
              = IF i <= at THEN chain[i] ELSE IF i = at + 1 THEN x ELSE chain[i - 1]
      BY <1>7, InsertedPoints
    <3> QED
      BY <1>4, <3>1, <3>2, <3>3
  <2> QED
    BY <1>6, <2>2, <2>3 DEF InsertsAt
<1>10. Located(g, ed)
  BY DEF g, ed
<1>11. Ids'
  BY <1>8, <1>9, InsertIds DEF RInv
<1>12. \A i \in g[k] + 1 .. Len(chain) : MayRun(w) => place[chain[i]] # w
  BY <1>1, <1>3, <1>5, <1>10, NoneBehind DEF w, ed, RInv
<1>13. InOrderOfAddition'
  BY <1>8, <1>9, <1>12, InsertOrder DEF RInv
<1>14. Lies(w, g[k] + 1, Shifted(g, k), ed)
  <2> DEFINE t == Shifted(g, k)
  <2>1. Len(t) = Len(g) /\ k - 1 \in 1 .. Len(g) - 1 /\ (k - 1) + 1 = k
    BY <1>1, <1>2, <1>3 DEF Shifted
  <2>2. t[k - 1] = g[k - 1] /\ t[k] = g[k] + 1
    BY <1>3, <2>1 DEF Shifted
  <2>3. g[k - 1] <= g[k] /\ g[k - 1] \in Nat /\ g[k] \in Nat
    BY <1>3, <1>7, <2>1
  <2> HIDE DEF t
  <2>4. t[k - 1] < g[k] + 1 /\ g[k] + 1 <= t[(k - 1) + 1] /\ w = InRange(ed[k - 1], ed[(k - 1) + 1])
    BY <2>1, <2>2, <2>3 DEF w
  <2>5. Lies(w, g[k] + 1, t, ed)
    BY <2>1, <2>4 DEF Lies
  <2> QED
    BY <2>5 DEF t
<1>15. LocatedNext(Shifted(g, k), ed)
  BY <1>1, <1>3, <1>9, <1>10, <1>14, InsertLies DEF RInv
<1> QED
  BY <1>4, <1>11, <1>13, <1>15 DEF ed

\* Nothing is added to a sequence that is long enough.
LEMMA NothingToGrow ==
  ASSUME NEW S, NEW s \in Seq(S), NEW n \in Nat, n <= Len(s)
  PROVE  EdgesFor(s, n) = s
<1>1. Len(s) \in Nat /\ ~(Len(s) < n)
  OBVIOUS
<1>2. EdgesFor(s, n) = [i \in 1 .. Len(s) |-> s[i]]
  BY <1>1 DEF EdgesFor
<1> QED
  BY <1>2

LEMMA WithBinGrows ==
  ASSUME NEW s, NEW b
  PROVE  WithBin(s, b) = EdgesFor(s, b + 2)
BY DEF WithBin, EdgesFor

\* A range that a bin has goes to the end of that bin.
LEMMA InBinRight ==
  ASSUME RInv, ~lost, NEW b \in 0 .. NBins - 1, PlaceInBin(start, b),
         edges' = EdgesFor(edges, Len(start')), IInv',
         place' = Append(place, InRange(edges[b + 1], edges[b + 2]))
  PROVE  /\ Ids' /\ InOrderOfAddition' /\ LocatedNext(start', edges')
         /\ edges' = edges /\ Len(start') = Len(start)
<1>1. IInv /\ Located(start, edges)
  BY DEF RInv
<1>2. /\ Partition(start, Len(chain)) /\ Len(start) \in Nat /\ NBins = Len(start) - 1
      /\ edges \in Seq(Values) /\ Len(edges) = Len(start) /\ Ascending(edges)
      /\ start \in Seq(Nat)
  BY <1>1, EdgeTypes DEF NBins, IInv, TypeOK
<1>3. b \in Nat /\ b + 2 <= Len(start) /\ b + 2 \in Nat
  BY <1>2
<1>4. WithBin(start, b) = start
  BY <1>2, <1>3, NothingToGrow, WithBinGrows
<1>5. Len(start') = Len(start)
  BY <1>4 DEF PlaceInBin, Shifted
<1>6. edges' = edges
  BY <1>2, <1>5, NothingToGrow
<1>7. Located(WithBin(start, b), edges')
  BY <1>1, <1>4, <1>6
<1>8. place' = Append(place, InRange(edges'[b + 1], edges'[b + 2]))
  BY <1>6
<1>9. edges' \in Seq(Values) /\ Ascending(edges') /\ Len(edges') = Len(start')
  BY <1>2, <1>5, <1>6
<1>10. Ids' /\ InOrderOfAddition' /\ LocatedNext(start', edges')
  BY <1>2, <1>3, <1>7, <1>8, <1>9, PlacedRight
<1> QED
  BY <1>5, <1>6, <1>10

\* What every addition has to establish.
LEMMA RightSummary ==
  ASSUME IInv', Ids', InOrderOfAddition', RefusedIsNoBin',
         ~lost' => LocatedNext(start', edges')
  PROVE  RInv'
<1>1. ~lost' => Located(start, edges)'
  BY DEF Located, LocatedNext
<1> QED
  BY <1>1 DEF RInv

\* A bin keeps its values as long as there are bins, edges and an answer.
LEMMA RefusedStays ==
  ASSUME RefusedIsNoBin, Len(start') = Len(start), edges' = edges, lost' = lost,
         answer' = answer
  PROVE  RefusedIsNoBin'
<1>1. NBins' = NBins
  BY DEF NBins
<1>2. \A b \in 0 .. NBins - 1 : Findable(b)' = Findable(b)
  BY <1>1 DEF Findable, Low, Up
<1>3. \A b \in 0 .. NBins - 1 : Low(b)' = Low(b) /\ Up(b)' = Up(b)
  BY DEF Low, Up
<1> QED
  BY <1>1, <1>2, <1>3 DEF RefusedIsNoBin

LEMMA AnsweredStays ==
  ASSUME NEW low, NEW up, NEW b \in Int, Answer(low, up, b), b >= 0
  PROVE  RefusedIsNoBin'
<1>1. answer'.bin # -1
  BY DEF Answer
<1> QED
  BY <1>1 DEF RefusedIsNoBin

LEMMA PushInBinRight ==
  ASSUME RInv, NEW b \in 0 .. NBins - 1, PushInBin(b)
  PROVE  RInv'
<1>1. IInv' /\ ~lost /\ lost' = lost /\ answer' = answer
  BY PushInBinStep DEF RInv, PushInBin, MayAdd
<1>2. place' = Append(place, InRange(edges[b + 1], edges[b + 2]))
  BY DEF PushInBin, Placed, Low, Up
<1>3. /\ Ids' /\ InOrderOfAddition' /\ LocatedNext(start', edges')
      /\ edges' = edges /\ Len(start') = Len(start)
  BY <1>1, <1>2, InBinRight DEF PushInBin
<1>4. RefusedIsNoBin'
  BY <1>1, <1>3, RefusedStays DEF RInv
<1> QED
  BY <1>1, <1>3, <1>4, RightSummary

-----------------------------------------------------------------------------
\* val_to_bin() finds the bin between whose edges a value is.
LEMMA ValToBinIs ==
  ASSUME IInv, ~lost, NEW v \in Int, NEW c \in 0 .. NBins - 1,
         edges[c + 1] <= v, v < edges[c + 2]
  PROVE  ValToBin(v) = c
<1> DEFINE upto == {i \in 1 .. Len(edges) : edges[i] <= v}
<1>1. /\ Len(edges) \in Nat \ {0} /\ NBins \in Nat /\ Len(edges) = NBins + 1
      /\ \A i \in 1 .. Len(edges) : edges[i] \in Int
      /\ \A i, j \in 1 .. Len(edges) : i <= j => edges[i] <= edges[j]
  BY EdgeTypes DEF Ascending
<1>2. /\ c + 1 \in 1 .. Len(edges) /\ c + 2 \in 1 .. Len(edges) /\ c \in Nat
      /\ 1 \in 1 .. Len(edges)
  BY <1>1
<1>3. \A i \in 1 .. Len(edges) : edges[i] <= v <=> i <= c + 1
  <2> SUFFICES ASSUME NEW i \in 1 .. Len(edges) PROVE edges[i] <= v <=> i <= c + 1
    OBVIOUS
  <2>1. CASE i <= c + 1
    <3>1. edges[i] <= edges[c + 1] /\ edges[i] \in Int /\ edges[c + 1] \in Int
      BY <1>1, <1>2, <2>1
    <3> QED
      BY <2>1, <3>1
  <2>2. CASE ~(i <= c + 1)
    <3>1. c + 2 <= i
      BY <1>2, <2>2
    <3>2. edges[c + 2] <= edges[i] /\ edges[i] \in Int /\ edges[c + 2] \in Int
      BY <1>1, <1>2, <3>1
    <3> QED
      BY <2>2, <3>2
  <2> QED
    BY <2>1, <2>2
<1>4. upto = 1 .. c + 1
  BY <1>1, <1>2, <1>3
<1>5. Cardinality(1 .. c + 1) = c + 1
  BY <1>2, FS_Interval
<1>6. edges[1] <= v /\ v < edges[NBins + 1] /\ edges[1] \in Int /\ edges[NBins + 1] \in Int
  <2>1. edges[1] <= v
    BY <1>2, <1>3
  <2>2. c + 2 <= NBins + 1 /\ NBins + 1 \in 1 .. Len(edges)
    BY <1>1
  <2>3. edges[c + 2] <= edges[NBins + 1] /\ edges[c + 2] \in Int /\ edges[NBins + 1] \in Int
    BY <1>1, <1>2, <2>2
  <2> QED
    BY <1>1, <1>2, <2>1, <2>3
<1>7. ValToBin(v) = IF v < edges[1] \/ v >= edges[NBins + 1] THEN -1 ELSE Cardinality(upto) - 1
  BY <1>1 DEF ValToBin, ValToBinReading, Back
<1> HIDE DEF upto
<1>8. ~(v < edges[1] \/ v >= edges[NBins + 1])
  BY <1>6
<1> QED
  BY <1>2, <1>4, <1>5, <1>7, <1>8

LEMMA Least ==
  ASSUME NEW T, T \subseteq Nat, T # {}
  PROVE  \E m \in T : \A k \in T : m <= k
<1>1. \E x \in T : \A y \in T : ~(<<y, x>> \in OpToRel(<, Nat))
  BY WFMin, NatLessThanWellFounded
<1>2. \A x, y \in Nat : <<y, x>> \in OpToRel(<, Nat) <=> y < x
  BY DEF OpToRel
<1>3. PICK x \in T : \A y \in T : ~(y < x)
  BY <1>1, <1>2
<1> QED
  BY <1>3

LEMMA ValToBinFinds ==
  ASSUME IInv, ~lost, NEW v \in Int, ValToBin(v) >= 0
  PROVE  /\ ValToBin(v) \in 0 .. NBins - 1
         /\ edges[ValToBin(v) + 1] <= v /\ v < edges[ValToBin(v) + 2]
<1>1. /\ NBins \in Nat /\ Len(edges) = NBins + 1
      /\ \A i \in 1 .. Len(edges) : edges[i] \in Int
  BY EdgeTypes
<1>2. edges[1] <= v /\ v < edges[NBins + 1]
  <2>1. ValToBin(v) < 0 \/ (edges[1] <= v /\ v < Back)
    BY BinOfValue
  <2>2. ValToBin(v) \in Int
    BY BinOfValue
  <2> QED
    BY <2>1, <2>2 DEF Back
<1> DEFINE above == {j \in 1 .. NBins + 1 : v < edges[j]}
<1>3. NBins + 1 \in above /\ above \subseteq Nat /\ 1 \notin above
  <2>1. edges[1] \in Int
    BY <1>1
  <2> QED
    BY <1>1, <1>2, <2>1
<1>4. PICK m \in above : \A j \in above : m <= j
  <2> HIDE DEF above
  <2> QED
    BY <1>3, Least
<1>5. m \in 2 .. NBins + 1 /\ v < edges[m]
  BY <1>1, <1>3, <1>4
<1>6. m - 1 \in 1 .. NBins + 1 /\ m - 1 \notin above
  BY <1>1, <1>4, <1>5
<1>7. edges[m - 1] <= v
  BY <1>1, <1>6
<1>8. m - 2 \in 0 .. NBins - 1 /\ (m - 2) + 1 = m - 1 /\ (m - 2) + 2 = m
  BY <1>1, <1>5
<1>9. ValToBin(v) = m - 2
  BY <1>5, <1>7, <1>8, ValToBinIs
<1> QED
  BY <1>5, <1>7, <1>8, <1>9

LEMMA ExistingBinRight ==
  ASSUME RInv, NEW low \in Values, NEW up \in Values, ExistingBin(low, up)
  PROVE  RInv'
<1>1. IInv' /\ ~lost /\ lost' = lost /\ IInv
  BY ExistingBinStep DEF RInv, ExistingBin, MayAdd
<1>2. low \in Int
  BY SelectAssumption
<1>3. PICK b \in 0 .. NBins - 1 : b = ValToBin(low)
  BY <1>1, <1>2, ValToBinFinds DEF ExistingBin, AddsToBin
<1>4. edges[b + 1] = low /\ edges[b + 2] = up
  <2>1. Low(b) = low /\ Low(b + 1) = up /\ (b + 1) + 1 = b + 2
    BY <1>3 DEF ExistingBin, AddsToBin
  <2> QED
    BY <2>1 DEF Low
<1>5. place' = Append(place, InRange(edges[b + 1], edges[b + 2]))
  BY <1>4 DEF ExistingBin, Placed
<1>6. /\ Ids' /\ InOrderOfAddition' /\ LocatedNext(start', edges')
  BY <1>1, <1>3, <1>5, InBinRight DEF ExistingBin
<1>7. RefusedIsNoBin'
  BY <1>3, AnsweredStays DEF ExistingBin
<1> QED
  BY <1>1, <1>6, <1>7, RightSummary

\* A range that is refused is none that a bin has, if val_to_bin() can tell.
LEMMA RejectRight ==
  ASSUME RInv, NEW low \in Values, NEW up \in Values, Reject(low, up)
  PROVE  RInv'
<1>1. UNCHANGED <<chain, start, edges, place, lost>> /\ ~lost /\ IInv
      /\ Answer(low, up, -1) /\ Rejects(low, up)
  BY DEF Reject, MayAdd, RInv
<1>2. IInv'
  BY <1>1, OtherSteps
<1>3. Ids' /\ InOrderOfAddition'
  BY <1>1 DEF RInv, Ids, InOrderOfAddition
<1>4. LocatedNext(start', edges')
  BY <1>1 DEF RInv, Located, LocatedNext
<1>5. RefusedIsNoBin'
  <2>1. NBins' = NBins /\ \A b : Low(b)' = Low(b) /\ Up(b)' = Up(b)
    BY <1>1 DEF NBins, Low, Up
  <2>2. answer'.range = <<low, up>>
    BY <1>1 DEF Answer
  <2> SUFFICES ASSUME NEW b \in 0 .. NBins - 1, b + 1 < NBins,
                      Low(b) < Up(b), Up(b) < Up(b + 1), <<low, up>> = <<Low(b), Up(b)>>
               PROVE  FALSE
    BY <2>1, <2>2 DEF RefusedIsNoBin, Findable
  <2>3. low = edges[b + 1] /\ up = edges[b + 2] /\ low < up /\ up < edges[(b + 1) + 2]
        /\ edges[(b + 1) + 1] = up
    <3>1. (b + 1) + 1 = b + 2
      OBVIOUS
    <3> QED
      BY <3>1 DEF Low, Up
  <2>4. low \in Int /\ up \in Int /\ NBins \in Nat
    BY <1>1, SelectAssumption, EdgeTypes
  <2>5. ValToBin(low) = b
    BY <1>1, <2>3, <2>4, ValToBinIs
  <2>6. ValToBin(up) = b + 1
    <3>1. b + 1 \in 0 .. NBins - 1 /\ up <= up
      BY <2>4
    <3> QED
      BY <1>1, <2>3, <2>4, <3>1, ValToBinIs
  <2>7. AddsToBin(low, up)
    <3>1. Low(b) = low /\ Low(b + 1) = up
      BY <2>3 DEF Low
    <3> QED
      BY <2>5, <2>6, <3>1 DEF AddsToBin
  <2> QED
    BY <1>1, <2>3, <2>4, <2>7 DEF Rejects
<1> QED
  BY <1>1, <1>2, <1>3, <1>4, <1>5, RightSummary

\* A new bin behind the others leaves every element where it was asked to be.
LEMMA GrownBehind ==
  ASSUME IInv, Located(start, edges), NEW ed, \A i \in 1 .. NBins + 1 : NBins > 0 => ed[i] = edges[i]
  PROVE  Located(WithBin(start, NBins), ed)
<1> DEFINE g == WithBin(start, NBins)
<1>1. /\ Len(start) \in Nat \ {0} /\ NBins \in Nat /\ Len(start) = NBins + 1
      /\ start \in Seq(Nat) /\ start # <<>> /\ Ascending(start)
      /\ \A i \in 1 .. Len(start) : start[i] \in Nat
  BY EdgeTypes DEF NBins, Partition
<1>2. /\ Len(g) = NBins + 2 /\ g[Len(g)] = start[Len(start)]
      /\ \A i \in 1 .. NBins + 1 : g[i] = start[i]
  <2>1. Nat \in SUBSET Int /\ NBins + 2 \in Nat
    BY <1>1
  <2>2. /\ Len(EdgesFor(start, NBins + 2)) = IF Len(start) < NBins + 2 THEN NBins + 2 ELSE Len(start)
        /\ EdgesFor(start, NBins + 2)[Len(EdgesFor(start, NBins + 2))] = start[Len(start)]
        /\ \A i \in 1 .. Len(start) : EdgesFor(start, NBins + 2)[i] = start[i]
    BY <1>1, <2>1, Extended
  <2>3. g = EdgesFor(start, NBins + 2)
    BY WithBinGrows
  <2> HIDE DEF g
  <2> QED
    BY <1>1, <2>2, <2>3
<1> HIDE DEF g
<1> SUFFICES ASSUME NEW i \in 1 .. Len(chain) PROVE Lies(place[chain[i]], i, g, ed)
  BY DEF Located, g
<1> DEFINE w == place[chain[i]]
<1>3. Lies(w, i, start, edges)
  BY DEF Located
<1> HIDE DEF w
<1>4. 1 \in 1 .. NBins + 1 /\ g[1] = start[1]
  BY <1>1, <1>2
<1>5. CASE w.part = "before" /\ i <= start[1]
  BY <1>4, <1>5 DEF Lies, w
<1>6. CASE w.part = "after" /\ start[Len(start)] < i
  BY <1>2, <1>6 DEF Lies, w
<1>7. CASE \E b \in 1 .. Len(start) - 1 :
             w = InRange(edges[b], edges[b + 1]) /\ start[b] < i /\ i <= start[b + 1]
  <2>1. PICK b \in 1 .. Len(start) - 1 :
          w = InRange(edges[b], edges[b + 1]) /\ start[b] < i /\ i <= start[b + 1]
    BY <1>7
  <2>2. b \in 1 .. NBins + 1 /\ b + 1 \in 1 .. NBins + 1 /\ NBins > 0 /\ b \in 1 .. Len(g) - 1
    BY <1>1, <1>2
  <2>3. w = InRange(ed[b], ed[b + 1]) /\ g[b] < i /\ i <= g[b + 1]
    BY <1>2, <2>1, <2>2
  <2> QED
    BY <2>2, <2>3 DEF Lies, w
<1> QED
  BY <1>3, <1>5, <1>6, <1>7 DEF Lies, w

LEMMA FirstBinRight ==
  ASSUME RInv, NEW low \in Values, NEW up \in Values, FirstBin(low, up)
  PROVE  RInv'
<1>1. IInv' /\ ~lost /\ lost' = lost /\ IInv /\ Located(start, edges)
  BY FirstBinStep DEF RInv, FirstBin, MayAdd
<1>2. NBins = 0 /\ Partition(start, Len(chain)) /\ Len(start) = 1 /\ PlaceInBin(start, 0)
      /\ edges' = <<low, up>>
  BY <1>1, EdgeTypes DEF FirstBin, NBins
<1>3. Located(WithBin(start, 0), edges')
  <2>1. \A i \in 1 .. NBins + 1 : NBins > 0 => edges'[i] = edges[i]
    BY <1>2
  <2> QED
    BY <1>1, <1>2, <2>1, GrownBehind
<1>4. place' = Append(place, InRange(edges'[0 + 1], edges'[0 + 2]))
  BY <1>2 DEF FirstBin, Placed
<1>5. edges' \in Seq(Values) /\ Ascending(edges') /\ Len(edges') = Len(start')
  BY <1>1 DEF IInv, TypeOK, EdgesMatchBins, Ascending
<1>6. Ids' /\ InOrderOfAddition' /\ LocatedNext(start', edges')
  BY <1>1, <1>2, <1>3, <1>4, <1>5, PlacedRight
<1>7. RefusedIsNoBin'
  BY AnsweredStays DEF FirstBin
<1> QED
  BY <1>1, <1>6, <1>7, RightSummary

LEMMA BinAtEndRight ==
  ASSUME RInv, NEW low \in Values, NEW up \in Values, BinAtEnd(low, up)
  PROVE  RInv'
<1>1. IInv' /\ ~lost /\ lost' = lost /\ IInv /\ Located(start, edges)
  BY BinAtEndStep DEF RInv, BinAtEnd, MayAdd
<1>2. /\ NBins \in Nat /\ Partition(start, Len(chain)) /\ PlaceInBin(start, NBins)
  BY <1>1, EdgeTypes DEF BinAtEnd
<1>3. /\ \A i \in 1 .. NBins + 1 : edges'[i] = edges[i]
      /\ edges[NBins + 1] = low /\ edges'[NBins + 2] = up
  BY <1>1, EndEdges
<1>4. Located(WithBin(start, NBins), edges')
  BY <1>1, <1>3, GrownBehind
<1>5. place' = Append(place, InRange(edges'[NBins + 1], edges'[NBins + 2]))
  <2>1. NBins + 1 \in 1 .. NBins + 1
    BY <1>2
  <2> QED
    BY <1>3, <2>1 DEF BinAtEnd, Placed
<1>6. edges' \in Seq(Values) /\ Ascending(edges') /\ Len(edges') = Len(start')
  BY <1>1 DEF IInv, TypeOK, EdgesMatchBins, Ascending
<1>7. Ids' /\ InOrderOfAddition' /\ LocatedNext(start', edges')
  BY <1>1, <1>2, <1>4, <1>5, <1>6, PlacedRight
<1>8. RefusedIsNoBin'
  BY <1>2, AnsweredStays DEF BinAtEnd
<1> QED
  BY <1>1, <1>7, <1>8, RightSummary

\* A bin in front of the others makes every bin the next one.
LEMMA BinAtFrontRight ==
  ASSUME RInv, NEW low \in Values, NEW up \in Values, BinAtFront(low, up)
  PROVE  RInv'
<1>1. IInv' /\ ~lost /\ lost' = lost /\ IInv /\ Located(start, edges)
  BY BinAtFrontStep DEF RInv, BinAtFront, MayAdd
<1>2. /\ Len(start) \in Nat \ {0} /\ Len(edges) = Len(start)
  BY <1>1, EdgeTypes DEF NBins
<1>3. /\ FrontStart \in Seq(Nat) /\ Len(FrontStart) = Len(start) + 1
      /\ FrontStart[1] = start[1]
      /\ \A i \in 1 .. Len(start) : FrontStart[i + 1] = start[i]
      /\ Partition(FrontStart, Len(chain)) /\ PlaceInBin(FrontStart, 0)
  BY <1>1, FrontBoundaries
<1>4. /\ edges'[1] = low /\ edges[1] = up
      /\ \A i \in 1 .. Len(edges) : edges'[i + 1] = edges[i]
  BY <1>1, FrontEdges
<1>5. WithBin(FrontStart, 0) = FrontStart
  BY <1>2, <1>3, NothingToGrow, WithBinGrows
<1>6. Located(FrontStart, edges')
  <2> SUFFICES ASSUME NEW i \in 1 .. Len(chain)
               PROVE  Lies(place[chain[i]], i, FrontStart, edges')
    BY DEF Located
  <2> DEFINE w == place[chain[i]]
  <2>1. Lies(w, i, start, edges)
    BY <1>1 DEF Located
  <2> HIDE DEF w
  <2>2. CASE w.part = "before" /\ i <= start[1]
    BY <1>3, <2>2 DEF Lies, w
  <2>3. CASE w.part = "after" /\ start[Len(start)] < i
    <3>1. Len(start) \in 1 .. Len(start)
      BY <1>2
    <3>2. FrontStart[Len(FrontStart)] = start[Len(start)]
      BY <1>3, <3>1
    <3> QED
      BY <2>3, <3>2 DEF Lies, w
  <2>4. CASE \E b \in 1 .. Len(start) - 1 :
               w = InRange(edges[b], edges[b + 1]) /\ start[b] < i /\ i <= start[b + 1]
    <3>1. PICK b \in 1 .. Len(start) - 1 :
            w = InRange(edges[b], edges[b + 1]) /\ start[b] < i /\ i <= start[b + 1]
      BY <2>4
    <3>2. b \in 1 .. Len(start) /\ b + 1 \in 1 .. Len(start) /\ b + 1 \in 1 .. Len(FrontStart) - 1
      BY <1>2, <1>3
    <3>3. /\ FrontStart[b + 1] = start[b] /\ FrontStart[(b + 1) + 1] = start[b + 1]
          /\ edges'[b + 1] = edges[b] /\ edges'[(b + 1) + 1] = edges[b + 1]
      BY <1>2, <1>3, <1>4, <3>2
    <3>4. w = InRange(edges'[b + 1], edges'[(b + 1) + 1])
          /\ FrontStart[b + 1] < i /\ i <= FrontStart[(b + 1) + 1]
      BY <3>1, <3>3
    <3> QED
      BY <3>2, <3>4 DEF Lies, w
  <2> QED
    BY <2>1, <2>2, <2>3, <2>4 DEF Lies, w
<1>7. place' = Append(place, InRange(edges'[0 + 1], edges'[0 + 2]))
  <2>1. 1 \in 1 .. Len(edges) /\ edges'[1 + 1] = up
    BY <1>2, <1>4
  <2>2. 0 + 1 = 1 /\ 0 + 2 = 1 + 1
    OBVIOUS
  <2> QED
    BY <1>4, <2>1, <2>2 DEF BinAtFront, Placed
<1>8. edges' \in Seq(Values) /\ Ascending(edges') /\ Len(edges') = Len(start')
  BY <1>1 DEF IInv, TypeOK, EdgesMatchBins, Ascending
<1>9. Ids' /\ InOrderOfAddition' /\ LocatedNext(start', edges')
  <2>1. Located(WithBin(FrontStart, 0), edges')
    BY <1>5, <1>6
  <2> QED
    BY <1>1, <1>3, <1>7, <1>8, <2>1, PlacedRight
<1>10. RefusedIsNoBin'
  BY AnsweredStays DEF BinAtFront
<1> QED
  BY <1>1, <1>9, <1>10, RightSummary

\* An element that no bin has: before the first one, ...
LEMMA PushBeforeRight ==
  ASSUME RInv, PushBeforeFirstBin
  PROVE  RInv'
<1> DEFINE w == [part |-> "before", low |-> 0, up |-> 0]
<1>1. IInv' /\ ~lost /\ lost' = lost /\ edges' = edges /\ answer' = answer
      /\ IInv /\ Ids /\ InOrderOfAddition /\ Located(start, edges) /\ place' = Append(place, w)
  BY PushBeforeStep DEF RInv, PushBeforeFirstBin, MayAdd, Placed
<1>2. /\ Len(start) \in Nat \ {0} /\ Partition(start, Len(chain)) /\ Len(chain) \in Nat
      /\ chain \in Seq(Nat) /\ Len(place) + 1 \in Nat
  BY <1>1, EdgeTypes DEF IInv, TypeOK
<1>3. PICK at \in 0 .. Len(chain) : at = start[1]
  <2>1. 1 \in 1 .. Len(start) /\ Len(start) \in 1 .. Len(start)
    BY <1>2
  <2>2. start[1] \in Nat /\ start[Len(start)] \in Nat
        /\ start[1] <= start[Len(start)] /\ start[Len(start)] <= Len(chain)
    BY <1>2, <2>1 DEF Partition, Ascending
  <2> QED
    BY <1>2, <2>2
<1>4. chain' = Inserted(chain, at, Len(place) + 1) /\ start' = Shifted(start, 1)
  BY <1>3 DEF PushBeforeFirstBin, BeforeFirst
<1> HIDE DEF w
<1>5. InsertsAt(at, w)
  <2>1. PICK x \in Nat : x = Len(place) + 1
    BY <1>2
  <2>2. \A i \in 1 .. Len(chain) + 1 :
          Inserted(chain, at, x)[i]
            = IF i <= at THEN chain[i] ELSE IF i = at + 1 THEN x ELSE chain[i - 1]
    BY <1>2, InsertedPoints
  <2>3. Len(Inserted(chain, at, x)) = Len(chain) + 1
    BY <1>2, InsertedType
  <2> QED
    BY <1>1, <1>4, <2>1, <2>2, <2>3 DEF InsertsAt
<1>6. Ids'
  BY <1>1, <1>5, InsertIds
<1>7. \A i \in at + 1 .. Len(chain) : place[chain[i]] # w
  <2> SUFFICES ASSUME NEW i \in at + 1 .. Len(chain), place[chain[i]] = w PROVE FALSE
    OBVIOUS
  <2>1. i \in 1 .. Len(chain) /\ ~(i <= at)
    BY <1>2
  <2>2. Lies(w, i, start, edges)
    BY <1>1, <2>1 DEF Located
  <2> QED
    BY <1>3, <2>1, <2>2 DEF Lies, w, InRange
<1>8. InOrderOfAddition'
  BY <1>1, <1>5, <1>7, InsertOrder
<1>9. Lies(w, start[1] + 1, Shifted(start, 1), edges)
  <2>1. Shifted(start, 1)[1] = start[1] + 1 /\ start[1] + 1 <= start[1] + 1
    BY <1>2, <1>3 DEF Shifted
  <2> QED
    BY <2>1 DEF Lies, w
<1>10. LocatedNext(start', edges')
  <2>1. 1 \in 1 .. Len(start)
    BY <1>2
  <2>2. LocatedNext(Shifted(start, 1), edges)
    BY <1>1, <1>2, <1>3, <1>5, <1>9, <2>1, InsertLies
  <2> QED
    BY <1>1, <1>4, <2>2
<1>11. RefusedIsNoBin'
  <2>1. Len(start') = Len(start)
    BY <1>2, <1>4 DEF Shifted
  <2> QED
    BY <1>1, <2>1, RefusedStays DEF RInv
<1> QED
  BY <1>1, <1>6, <1>8, <1>10, <1>11, RightSummary

\* ... and behind all.
LEMMA PushBackRight ==
  ASSUME RInv, PushBack
  PROVE  RInv'
<1> DEFINE w == [part |-> "after", low |-> 0, up |-> 0]
           n == Len(chain)
<1>1. IInv' /\ ~lost /\ UNCHANGED <<start, edges, answer, lost>>
      /\ IInv /\ Ids /\ InOrderOfAddition /\ Located(start, edges) /\ place' = Append(place, w)
      /\ chain' = Append(chain, Len(place) + 1)
  BY PushBackStep DEF RInv, PushBack, MayAdd, Placed
<1>2. /\ Len(start) \in Nat \ {0} /\ Partition(start, n) /\ n \in Nat
      /\ chain \in Seq(Nat) /\ Len(place) = n
  BY <1>1, EdgeTypes DEF IInv, TypeOK, Ids
<1> HIDE DEF w, n
<1>3. /\ Len(chain') = n + 1 /\ chain'[n + 1] = n + 1
      /\ \A i \in 1 .. n : chain'[i] = chain[i]
  BY <1>1, <1>2 DEF n
<1>4. InsertsAt(n, w)
  <2>1. \A i \in 1 .. n + 1 : (i <= n => i \in 1 .. n) /\ (~(i <= n) => i = n + 1)
    BY <1>2
  <2> QED
    BY <1>1, <1>2, <1>3, <2>1 DEF InsertsAt, n
<1>5. n \in 0 .. Len(chain)
  BY <1>2 DEF n
<1>6. Ids'
  BY <1>1, <1>4, <1>5, InsertIds
<1>7. InOrderOfAddition'
  <2>1. \A i \in n + 1 .. Len(chain) : FALSE
    BY <1>2 DEF n
  <2> QED
    BY <1>1, <1>4, <1>5, <2>1, InsertOrder
<1>8. LocatedNext(start', edges')
  <2>1. \A p \in 1 .. n : place'[p] = place[p]
    BY <1>1, <1>2, PlaceGrows
  <2>2. place'[n + 1] = w
    BY <1>1, <1>2, PlaceGrows
  <2>3. \A i \in 1 .. n : chain[i] \in 1 .. n
    BY <1>1, <1>2 DEF Ids, n
  <2> SUFFICES ASSUME NEW i \in 1 .. n + 1
               PROVE  Lies(place'[chain'[i]], i, start, edges)
    BY <1>1, <1>3 DEF LocatedNext
  <2>4. CASE i \in 1 .. n
    <3>1. place'[chain'[i]] = place[chain[i]]
      BY <1>3, <2>1, <2>3, <2>4
    <3> QED
      BY <1>1, <2>4, <3>1 DEF Located, n
  <2>5. CASE i = n + 1
    <3>1. start[Len(start)] <= n /\ start[Len(start)] \in Nat
      BY <1>2 DEF Partition
    <3>2. start[Len(start)] < i /\ place'[chain'[i]] = w
      BY <1>2, <1>3, <2>2, <2>5, <3>1
    <3> QED
      BY <3>2 DEF Lies, w
  <2> QED
    BY <1>2, <2>4, <2>5
<1>9. RefusedIsNoBin'
  BY <1>1, RefusedStays DEF RInv
<1> QED
  BY <1>1, <1>6, <1>7, <1>8, <1>9, RightSummary

\* A copy has no values for its bins any more, so that nothing is asked of it.
LEMMA CopyRight ==
  ASSUME RInv, Copy
  PROVE  RInv'
<1>1. IInv' /\ ~lost /\ UNCHANGED <<chain, start, place, answer>> /\ lost' = (NBins > 0) /\ IInv
  BY OtherSteps DEF RInv, Copy
<1>2. Ids' /\ InOrderOfAddition'
  BY <1>1 DEF RInv, Ids, InOrderOfAddition
<1>3. CASE NBins > 0
  BY <1>1, <1>2, <1>3, RightSummary DEF RefusedIsNoBin
<1>4. CASE NBins = 0
  <2>1. Len(start) = 1 /\ NBins' = 0
    BY <1>1, <1>4, EdgeTypes DEF NBins
  <2>2. \A b \in 1 .. Len(start) - 1 : FALSE
    BY <2>1
  <2>3. \A i \in 1 .. Len(chain) : Lies(place[chain[i]], i, start, edges)
    BY <1>1 DEF RInv, Located
  <2>4. LocatedNext(start', edges')
    BY <1>1, <2>2, <2>3 DEF LocatedNext, Lies
  <2>5. RefusedIsNoBin'
    <3>1. 0 .. NBins' - 1 = {}
      BY <2>1
    <3> QED
      BY <3>1 DEF RefusedIsNoBin
  <2> QED
    BY <1>1, <1>2, <2>4, <2>5, RightSummary
<1> QED
  BY <1>1, <1>3, <1>4, EdgeTypes

LEMMA StutterRight ==
  ASSUME RInv, UNCHANGED vars
  PROVE  RInv'
<1>1. UNCHANGED <<chain, start, edges, place, answer, lost>> /\ IInv /\ IInv'
  BY OtherSteps DEF vars, RInv
<1>2. Ids' /\ InOrderOfAddition'
  BY <1>1 DEF RInv, Ids, InOrderOfAddition
<1>3. ~lost' => LocatedNext(start', edges')
  BY <1>1 DEF RInv, Located, LocatedNext
<1>4. RefusedIsNoBin'
  BY <1>1, RefusedStays DEF RInv
<1> QED
  BY <1>1, <1>2, <1>3, <1>4, RightSummary

LEMMA StaysRight == RInv /\ [Next]_vars => RInv'
<1> SUFFICES ASSUME RInv, [Next]_vars PROVE RInv'
  OBVIOUS
<1>1. CASE \E b \in 0 .. NBins - 1 : PushInBin(b)
  BY <1>1, PushInBinRight
<1>2. CASE \E r \in Ranges : PushRange(r[1], r[2])
  <2>1. PICK r \in Ranges : PushRange(r[1], r[2])
    BY <1>2
  <2>2. r[1] \in Values /\ r[2] \in Values
    BY DEF Ranges
  <2> QED
    BY <2>1, <2>2, FirstBinRight, BinAtEndRight, ExistingBinRight, BinAtFrontRight,
       RejectRight DEF PushRange
<1> QED
  BY <1>1, <1>2, PushBeforeRight, PushBackRight, CopyRight, StutterRight DEF Next

LEMMA StartsRight == Init => RInv
<1> SUFFICES ASSUME Init PROVE RInv
  OBVIOUS
<1>1. IInv /\ chain = <<>> /\ place = <<>> /\ answer.bin = 0
  BY Initially DEF Init, NoAnswer
<1>2. Len(chain) = 0 /\ Len(place) = 0 /\ 1 .. 0 = {}
  BY <1>1
<1>3. Ids /\ InOrderOfAddition
  BY <1>2 DEF Ids, InOrderOfAddition
<1>4. Located(start, edges)
  BY <1>2 DEF Located
<1>5. RefusedIsNoBin
  BY <1>1 DEF RefusedIsNoBin
<1> QED
  BY <1>1, <1>3, <1>4, <1>5 DEF RInv

-----------------------------------------------------------------------------
\* What RInv says of the boundaries, the edges and the elements.
LEMMA Facts ==
  ASSUME RInv, ~lost
  PROVE  /\ IInv /\ NBins \in Nat /\ Len(start) = NBins + 1 /\ Len(edges) = NBins + 1
         /\ Len(chain) \in Nat /\ Len(place) = Len(chain)
         /\ \A i \in 1 .. NBins + 1 : start[i] \in Nat /\ start[i] <= Len(chain) /\ edges[i] \in Int
         /\ \A i, j \in 1 .. NBins + 1 : i <= j => start[i] <= start[j]
         /\ \A i, j \in 1 .. NBins + 1 : i <= j => edges[i] <= edges[j]
         /\ \A i \in 1 .. Len(chain) : chain[i] \in 1 .. Len(chain)
<1>1. /\ IInv /\ NBins \in Nat /\ Len(start) = NBins + 1 /\ Len(edges) = NBins + 1
      /\ Partition(start, Len(chain)) /\ Ascending(edges)
      /\ \A i \in 1 .. Len(edges) : edges[i] \in Int
  BY EdgeTypes DEF RInv, NBins
<1>2. Len(chain) \in Nat /\ Len(place) = Len(chain)
      /\ \A i \in 1 .. Len(chain) : chain[i] \in 1 .. Len(chain)
  BY DEF RInv, Ids, IInv, TypeOK
<1>3. /\ \A i \in 1 .. NBins + 1 : start[i] \in Nat
      /\ \A i, j \in 1 .. NBins + 1 : i <= j => start[i] <= start[j]
      /\ start[NBins + 1] <= Len(chain)
  <2>1. /\ start \in Seq(Nat) /\ start[Len(start)] <= Len(chain)
        /\ \A i, j \in 1 .. Len(start) : i <= j => start[i] <= start[j]
    BY <1>1 DEF Partition, Ascending
  <2>2. \A i \in 1 .. Len(start) : start[i] \in Nat
    BY <2>1
  <2> QED
    BY <1>1, <2>1, <2>2
<1>4. \A i \in 1 .. NBins + 1 : start[i] <= Len(chain)
  <2> SUFFICES ASSUME NEW i \in 1 .. NBins + 1 PROVE start[i] <= Len(chain)
    OBVIOUS
  <2>1. NBins + 1 \in 1 .. NBins + 1 /\ i <= NBins + 1
    BY <1>1
  <2>2. start[i] <= start[NBins + 1] /\ start[i] \in Nat /\ start[NBins + 1] \in Nat
    BY <1>3, <2>1
  <2> QED
    BY <1>2, <1>3, <2>2
<1> QED
  BY <1>1, <1>2, <1>3, <1>4 DEF Ascending

\* The position of an element decides whether it runs as its range would.
LEMMA RunsByPosition ==
  ASSUME RInv, ~lost, NEW v \in Values, NEW i \in 1 .. Len(chain)
  PROVE  (\/ i <= start[1] \/ start[NBins + 1] < i
          \/ ValToBin(v) >= 0 /\ start[ValToBin(v) + 1] < i /\ i <= start[ValToBin(v) + 2])
         <=> (place[chain[i]].part = "bin"
                => place[chain[i]].low <= v /\ v < place[chain[i]].up)
<1> DEFINE w == place[chain[i]]
           n == NBins
<1>1. /\ IInv /\ n \in Nat /\ Len(start) = n + 1
      /\ \A k \in 1 .. n + 1 : start[k] \in Nat /\ edges[k] \in Int
      /\ \A k, m \in 1 .. n + 1 : k <= m => start[k] <= start[m]
  BY Facts
<1>2. Lies(w, i, start, edges)
  BY DEF RInv, Located
<1>3. v \in Int /\ i \in Nat /\ 1 \in 1 .. n + 1 /\ n + 1 \in 1 .. n + 1
  BY <1>1, SelectAssumption
<1> DEFINE bin == ValToBin(v)
<1>4. bin >= 0 => bin \in 0 .. n - 1 /\ edges[bin + 1] <= v /\ v < edges[bin + 2]
  BY <1>1, <1>3, ValToBinFinds
<1>5. \A c \in 0 .. n - 1 : edges[c + 1] <= v /\ v < edges[c + 2] => bin = c
  BY <1>1, <1>3, ValToBinIs
<1> SUFFICES (\/ i <= start[1] \/ start[n + 1] < i
              \/ bin >= 0 /\ start[bin + 1] < i /\ i <= start[bin + 2])
             <=> (w.part = "bin" => w.low <= v /\ v < w.up)
  OBVIOUS
<1> HIDE DEF w, bin, n
<1>6. CASE w.part = "before" /\ i <= start[1]
  BY <1>6
<1>7. CASE w.part = "after" /\ start[n + 1] < i
  BY <1>7
<1>8. CASE \E b \in 1 .. n : w = InRange(edges[b], edges[b + 1]) /\ start[b] < i /\ i <= start[b + 1]
  <2>1. PICK b \in 1 .. n :
          w = InRange(edges[b], edges[b + 1]) /\ start[b] < i /\ i <= start[b + 1]
    BY <1>8
  <2>2. w.part = "bin" /\ w.low = edges[b] /\ w.up = edges[b + 1]
    BY <2>1 DEF InRange
  <2>3. b \in 1 .. n + 1 /\ b + 1 \in 1 .. n + 1 /\ 1 <= b /\ b + 1 <= n + 1
    BY <1>1
  <2>4. ~(i <= start[1])
    <3>1. start[1] <= start[b] /\ start[1] \in Nat /\ start[b] \in Nat
      BY <1>1, <1>3, <2>3
    <3> QED
      BY <1>3, <2>1, <3>1
  <2>5. ~(start[n + 1] < i)
    <3>1. start[b + 1] <= start[n + 1] /\ start[n + 1] \in Nat /\ start[b + 1] \in Nat
      BY <1>1, <1>3, <2>3
    <3> QED
      BY <1>3, <2>1, <3>1
  <2>6. ASSUME edges[b] <= v, v < edges[b + 1]
        PROVE  bin >= 0 /\ start[bin + 1] < i /\ i <= start[bin + 2]
    <3>1. b - 1 \in 0 .. n - 1 /\ (b - 1) + 1 = b /\ (b - 1) + 2 = b + 1
      BY <1>1
    <3>2. bin = b - 1
      BY <1>5, <2>6, <3>1
    <3> QED
      BY <2>1, <3>1, <3>2
  <2>7. ASSUME bin >= 0, start[bin + 1] < i, i <= start[bin + 2]
        PROVE  edges[b] <= v /\ v < edges[b + 1]
    <3>1. bin \in 0 .. n - 1 /\ edges[bin + 1] <= v /\ v < edges[bin + 2]
      BY <1>4, <2>7
    <3>2. bin + 1 \in 1 .. n + 1 /\ bin + 2 \in 1 .. n + 1
      BY <1>1, <3>1
    <3>3. /\ start[bin + 1] \in Nat /\ start[bin + 2] \in Nat
          /\ start[b] \in Nat /\ start[b + 1] \in Nat
      BY <1>1, <2>3, <3>2
    <3>4. ~(bin + 2 <= b)
      <4>1. bin + 2 <= b => start[bin + 2] <= start[b]
        BY <1>1, <2>3, <3>2
      <4> QED
        BY <1>3, <2>1, <2>7, <3>3, <4>1
    <3>5. ~(b + 1 <= bin + 1)
      <4>1. b + 1 <= bin + 1 => start[b + 1] <= start[bin + 1]
        BY <1>1, <2>3, <3>2
      <4> QED
        BY <1>3, <2>1, <2>7, <3>3, <4>1
    <3>6. bin + 1 = b /\ bin + 2 = b + 1
      BY <3>1, <3>4, <3>5
    <3> QED
      BY <3>1, <3>6
  <2> QED
    BY <2>2, <2>4, <2>5, <2>6, <2>7
<1>9. Len(start) - 1 = n
  BY <1>1
<1> QED
  BY <1>1, <1>2, <1>6, <1>7, <1>8, <1>9 DEF Lies

LEMMA RightRunsWhereAsked == RInv => RunsWhereAsked
<1> SUFFICES ASSUME RInv, ~lost, NEW v \in Values
             PROVE  RunFor(v) = {p \in 1 .. Len(place) :
                                   place[p].part = "bin" => place[p].low <= v /\ v < place[p].up}
  BY DEF RunsWhereAsked
<1> DEFINE ran(i) == \/ i <= start[1] \/ start[NBins + 1] < i
                     \/ ValToBin(v) >= 0 /\ start[ValToBin(v) + 1] < i /\ i <= start[ValToBin(v) + 2]
           asked(p) == place[p].part = "bin" => place[p].low <= v /\ v < place[p].up
<1>1. v \in Int
  BY SelectAssumption
<1>2. GetBin("eta", FALSE, v, <<>>, 0) = ValToBin(v)
  BY DEF GetBin, VariableOf
<1>3. \A i \in 1 .. Len(chain) :
        (\/ i <= start[1] \/ i > start[NBins + 1]
         \/ ValToBin(v) >= 0 /\ start[ValToBin(v) + 1] < i /\ i <= start[ValToBin(v) + 2])
        <=> ran(i)
  <2>1. \A i \in 1 .. Len(chain) : i > start[NBins + 1] <=> start[NBins + 1] < i
    OBVIOUS
  <2> QED
    BY <2>1
<1>4. RunFor(v) = {chain[i] : i \in {j \in 1 .. Len(chain) : ran(j)}}
  BY <1>2, <1>3 DEF RunFor
<1>5. \A i \in 1 .. Len(chain) : ran(i) <=> asked(chain[i])
  BY RunsByPosition
<1>6. /\ Len(place) = Len(chain)
      /\ \A i \in 1 .. Len(chain) : chain[i] \in 1 .. Len(place)
      /\ \A p \in 1 .. Len(place) : \E i \in 1 .. Len(chain) : chain[i] = p
  BY DEF RInv, Ids
<1> HIDE DEF ran, asked
<1>7. RunFor(v) = {p \in 1 .. Len(place) : asked(p)}
  BY <1>4, <1>5, <1>6
<1> QED
  BY <1>7 DEF asked

\* The first element of a bin, and that two bins have different ones.
LEMMA Firsts ==
  ASSUME RInv, ~lost, NEW b \in 0 .. NBins - 1, BinSize(b) > 0
  PROVE  start[b + 1] + 1 \in 1 .. Len(chain) /\ First(b) \in 1 .. Len(chain)
<1>1. /\ NBins \in Nat /\ Len(chain) \in Nat
      /\ \A k \in 1 .. NBins + 1 : start[k] \in Nat /\ start[k] <= Len(chain)
      /\ \A i \in 1 .. Len(chain) : chain[i] \in 1 .. Len(chain)
  BY Facts
<1>2. b + 1 \in 1 .. NBins + 1 /\ b + 2 \in 1 .. NBins + 1
  BY <1>1
<1>3. start[b + 1] \in Nat /\ start[b + 2] \in Nat /\ start[b + 2] <= Len(chain)
  BY <1>1, <1>2
<1>4. start[b + 1] < start[b + 2]
  BY <1>3 DEF BinSize
<1> QED
  BY <1>1, <1>3, <1>4 DEF First

LEMMA FirstsDiffer ==
  ASSUME RInv, ~lost, NEW b \in 0 .. NBins - 1, NEW c \in 0 .. NBins - 1, c = b + 1,
         BinSize(b) > 0, BinSize(c) > 0
  PROVE  First(b) # First(c)
<1>1. /\ NBins \in Nat /\ \A k \in 1 .. NBins + 1 : start[k] \in Nat
  BY Facts
<1>2. b + 1 \in 1 .. NBins + 1 /\ b + 2 \in 1 .. NBins + 1 /\ c + 1 = b + 2
  BY <1>1
<1>3. start[b + 1] \in Nat /\ start[b + 2] \in Nat /\ start[b + 1] < start[b + 2]
  BY <1>1, <1>2 DEF BinSize
<1>4. start[b + 1] + 1 # start[c + 1] + 1
  BY <1>2, <1>3
<1>5. start[b + 1] + 1 \in 1 .. Len(chain) /\ start[c + 1] + 1 \in 1 .. Len(chain)
  BY Firsts
<1>6. \A i, j \in 1 .. Len(chain) : chain[i] = chain[j] => i = j
  BY DEF RInv, Ids
<1> QED
  BY <1>4, <1>5, <1>6 DEF First

\* The bin chosen between the nominal energies of two filled bins.
Nominal(b, from, to) ==
  [e \in 1 .. Len(chain) |-> IF e = First(b + 1) THEN to ELSE from]
SharedOut(b, from, to, v, rnd) ==
  LET bin == GetBin("ekin", TRUE, v, Nominal(b, from, to), rnd)
  IN  /\ rnd * (to - from) < (v - from) * Parts => bin = b + 1
      /\ rnd * (to - from) > (v - from) * Parts => bin = b

LEMMA Shares ==
  ASSUME RInv, ~lost, NEW b \in 0 .. NBins - 2, BinSize(b) > 0, BinSize(b + 1) > 0,
         NEW from \in Low(b) .. Up(b) - 1, NEW to \in Low(b + 1) .. Up(b + 1) - 1,
         NEW v \in from .. to, NEW rnd \in 0 .. Parts - 1
  PROVE  SharedOut(b, from, to, v, rnd)
<1> DEFINE nominal == Nominal(b, from, to)
           bin == GetBin("ekin", TRUE, v, nominal, rnd)
           share == rnd * (to - from)
           way == (v - from) * Parts
<1>1. /\ IInv /\ NBins \in Nat
      /\ \A k \in 1 .. NBins + 1 : edges[k] \in Int
  BY Facts
<1>2. /\ b \in Nat /\ b \in 0 .. NBins - 1 /\ b + 1 \in 0 .. NBins - 1
      /\ b + 1 \in 1 .. NBins + 1 /\ b + 2 \in 1 .. NBins + 1 /\ b + 3 \in 1 .. NBins + 1
      /\ (b + 1) + 1 = b + 2 /\ (b + 1) + 2 = b + 3 /\ b < NBins - 1 /\ (b + 1) - 1 = b
  BY <1>1
<1>3. /\ Low(b) = edges[b + 1] /\ Up(b) = edges[b + 2]
      /\ Low(b + 1) = edges[b + 2] /\ Up(b + 1) = edges[b + 3]
  BY <1>2 DEF Low, Up
<1>4. edges[b + 1] \in Int /\ edges[b + 2] \in Int /\ edges[b + 3] \in Int
  BY <1>1, <1>2
<1>5. /\ from \in Int /\ edges[b + 1] <= from /\ from < edges[b + 2]
      /\ to \in Int /\ edges[b + 2] <= to /\ to < edges[b + 3]
      /\ v \in Int /\ from <= v /\ v <= to /\ from < to
  BY <1>3, <1>4
<1>6. /\ First(b) \in 1 .. Len(chain) /\ First(b + 1) \in 1 .. Len(chain) /\ First(b) # First(b + 1)
  BY <1>2, Firsts, FirstsDiffer
<1>7. nominal[First(b)] = from /\ nominal[First(b + 1)] = to
      /\ \A e \in 1 .. Len(chain) : e # First(b + 1) => nominal[e] = from
  BY <1>6 DEF Nominal
<1> HIDE DEF nominal
<1>8. /\ share \in Int /\ way \in Int
      /\ v = to => share < way
  <2>1. rnd = 0 \/ rnd = 1
    BY DEF Parts
  <2>2. to - from \in Int /\ v - from \in Int /\ to - from > 0
    BY <1>5
  <2>3. share = IF rnd = 0 THEN 0 ELSE to - from
    BY <2>1, <2>2
  <2>4. way = (v - from) + (v - from)
    BY <2>2 DEF Parts
  <2> QED
    BY <1>5, <2>1, <2>2, <2>3, <2>4
<1>9. VariableOf("ekin", v) = v
  BY DEF VariableOf
<1> HIDE DEF share, way
<1>10. ASSUME v < edges[b + 2]
       PROVE  bin = IF share < way THEN b + 1 ELSE b
  <2>1. ValToBin(v) = b
    BY <1>1, <1>2, <1>4, <1>5, <1>10, ValToBinIs
  <2>2. bin = Neighbour(b, v, nominal, rnd)
    BY <1>2, <1>9, <2>1 DEF GetBin
  <2>3. ~(v < nominal[First(b)])
    BY <1>5, <1>7
  <2>4. ShareAbove(b, v, nominal, rnd) <=> share < way
    BY <1>5, <1>7 DEF ShareAbove, share, way
  <2> QED
    BY <1>2, <2>2, <2>3, <2>4 DEF Neighbour
<1>11. ASSUME edges[b + 2] <= v
       PROVE  bin = IF way < share THEN b ELSE b + 1
  <2>1. ValToBin(v) = b + 1
    <3>1. edges[(b + 1) + 1] <= v /\ v < edges[(b + 1) + 2]
      BY <1>2, <1>4, <1>5, <1>11
    <3> QED
      BY <1>1, <1>2, <1>5, <3>1, ValToBinIs
  <2>2. bin = Neighbour(b + 1, v, nominal, rnd)
    BY <1>2, <1>9, <2>1 DEF GetBin
  <2> HIDE DEF bin
  <2>3. CASE v < to
    <3>1. ShareBelow(b, v, nominal, rnd) <=> way < share
      BY <1>5, <1>7 DEF ShareBelow, share, way
    <3>2. v < nominal[First(b + 1)] /\ b + 1 > 0
      BY <1>2, <1>7, <2>3
    <3>3. bin = IF /\ b + 1 > 0 /\ BinSize((b + 1) - 1) > 0
                   /\ ShareBelow((b + 1) - 1, v, nominal, rnd)
                THEN (b + 1) - 1 ELSE b + 1
      BY <2>2, <3>2 DEF Neighbour
    <3>4. bin = IF b + 1 > 0 /\ BinSize(b) > 0 /\ ShareBelow(b, v, nominal, rnd)
                THEN b ELSE b + 1
      BY <1>2, <3>3
    <3> QED
      BY <3>1, <3>2, <3>4
  <2>4. CASE v = to
    <3>1. ~(v < nominal[First(b + 1)])
      BY <1>5, <1>7, <2>4
    <3>2. ASSUME (b + 1) < NBins - 1, BinSize((b + 1) + 1) > 0
          PROVE  ~ShareAbove(b + 1, v, nominal, rnd)
      <4>1. (b + 1) + 1 \in 0 .. NBins - 1
        BY <1>1, <1>2, <3>2
      <4>2. First((b + 1) + 1) \in 1 .. Len(chain) /\ First(b + 1) # First((b + 1) + 1)
        BY <1>2, <3>2, <4>1, Firsts, FirstsDiffer
      <4>3. nominal[First((b + 1) + 1)] = from
        BY <1>7, <4>2
      <4> QED
        BY <1>5, <1>7, <4>3 DEF ShareAbove
    <3>3. bin = b + 1
      BY <2>2, <3>1, <3>2 DEF Neighbour
    <3> QED
      BY <1>8, <2>4, <3>3
  <2> QED
    BY <1>5, <2>3, <2>4
<1> HIDE DEF bin
<1>12. (share < way => bin = b + 1) /\ (share > way => bin = b)
  BY <1>4, <1>5, <1>8, <1>10, <1>11
<1> QED
  BY <1>12 DEF SharedOut, bin, nominal, share, way

LEMMA RightShares == RInv => SharesBetweenNominals
<1>1. ASSUME RInv, ~lost, NEW b \in 0 .. NBins - 2, BinSize(b) > 0, BinSize(b + 1) > 0
      PROVE  \A from \in Low(b) .. Up(b) - 1, to \in Low(b + 1) .. Up(b + 1) - 1 :
               \A v \in from .. to, rnd \in 0 .. Parts - 1 : SharedOut(b, from, to, v, rnd)
  BY <1>1, Shares
<1> QED
  BY <1>1, Zenon DEF SharesBetweenNominals, SharedOut, Nominal

\* For ranges of any values, asked for in any order and as often as one likes:
\* simulate() runs exactly the elements added for the value it selects by, in
\* the order of their addition; the bin that has a range is found again; and
\* between the nominal energies of two bins each has its share.
\* TFCSParametrizationBinnedChain::push_back_in_bin(), simulate(),
\* TFCSParametrizationFloatSelectChain::val_to_bin(), push_back_in_bin() and
\* TFCSParametrizationEkinSelectChain::get_bin().
THEOREM RunsRight == Spec => []RunsAsChosen
<1>1. RInv => RunsAsChosen
  BY RightRunsWhereAsked, RightShares DEF RunsAsChosen, RInv
<1> QED
  BY StartsRight, StaysRight, <1>1, PTL DEF Spec

=============================================================================
