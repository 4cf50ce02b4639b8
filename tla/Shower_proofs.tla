---------------------------- MODULE Shower_proofs ----------------------------
(***************************************************************************)
(* What a shower finds in the state it is given: theorems about Shower for  *)
(* every number of layers, for all programs, tables and responses, and any  *)
(* number of showers with one state.  A shower starts in a state in which   *)
(* others have left values and pointers, so the invariant says of each      *)
(* value in it which parametrization of the present program must have run   *)
(* for it to be of this shower.  Then: the layers share the energy of the   *)
(* shower, and after the renormalization their cells have it, but for what  *)
(* the division of whole numbers drops; sums over sets are computed in an   *)
(* order nobody knows, so that it does not matter is shown first.           *)
(***************************************************************************)
EXTENDS Shower, FiniteSetTheorems, WellFoundedInduction, TLAPS

-----------------------------------------------------------------------------
\* A set of numbers has a least one.
LEMMA Least ==
  ASSUME NEW T, T \subseteq Nat, T # {}
  PROVE  \E m \in T : \A k \in T : m <= k
<1>1. \E x \in T : \A y \in T : ~(<<y, x>> \in OpToRel(<, Nat))
  BY WFMin, NatLessThanWellFounded
<1>2. \A x, y \in Nat : <<y, x>> \in OpToRel(<, Nat) <=> y < x
  BY DEF OpToRel
<1>3. PICK x \in T : \A y \in T : ~(y < x)
  BY <1>1, <1>2
<1> QED
  BY <1>3

\* Where a program stands: what has run is in the past, ...
Here(kind) == pc <= Len(Program) /\ Program[pc].kind = kind
Standing ==
  /\ particle \in DOMAIN Particles
  /\ pc \in Nat \ {0} /\ pc <= Len(Program) + 1

LEMMA Programs ==
  ASSUME particle \in DOMAIN Particles
  PROVE  /\ Len(Program) \in Nat
         /\ \A i \in 1 .. Len(Program) :
              /\ Program[i].kind = "bin" => Program[i].table \in DOMAIN Tables
              /\ Program[i].kind \in {"voxel", "hits"} => Program[i].layer \in Layers
              /\ Program[i].kind = "voxel" => UsesVoxels(particle)
              /\ Program[i].kind = "predict" => UsesWeights(particle)
         /\ ~(UsesVoxels(particle) /\ UsesWeights(particle))
BY ProgramAssumption DEF Program, UsesVoxels, UsesWeights

\* ... and an element joins it when the next one is run.
Advanced == pc' = pc + 1 /\ particle' = particle
Stays == pc' = pc /\ particle' = particle

LEMMA PassedNext ==
  ASSUME Standing, Advanced, pc <= Len(Program), NEW kind
  PROVE  Passed(kind)' <=> Passed(kind) \/ Here(kind)
<1>1. Program' = Program
  BY DEF Program, Advanced
<1>2. pc' - 1 = pc /\ pc \in Nat \ {0} /\ Len(Program) \in Nat
  BY Programs DEF Standing, Advanced
<1>3. \A i \in 1 .. pc : i \in 1 .. pc - 1 \/ i = pc
  BY <1>2
<1>4. 1 .. pc - 1 \subseteq 1 .. pc /\ pc \in 1 .. pc
  BY <1>2
<1> QED
  BY <1>1, <1>2, <1>3, <1>4 DEF Passed, Here

LEMMA PassedSame ==
  ASSUME Stays, NEW kind
  PROVE  Passed(kind)' <=> Passed(kind)
BY DEF Stays, Passed, Program

LEMMA NotPassed ==
  ASSUME pc = 1, NEW kind
  PROVE  ~Passed(kind)
BY DEF Passed

LEMMA PassedUses ==
  ASSUME Standing
  PROVE  /\ Passed("voxel") => UsesVoxels(particle)
         /\ Passed("predict") => UsesWeights(particle)
         /\ Here("voxel") => UsesVoxels(particle)
         /\ Here("predict") => UsesWeights(particle)
BY Programs DEF Passed, Here, Standing

\* What the elements before this one are, has run.
LEMMA EarlierPassed ==
  ASSUME Standing, pc <= Len(Program), NEW kind, Earlier(Program, pc, kind)
  PROVE  Passed(kind)
BY Programs DEF Earlier, Passed, Standing

-----------------------------------------------------------------------------
\* The weights in the state: ...
Weight == 0 .. Halves \cup {NotFinite}

LEMMA ClippedType ==
  ASSUME NEW w \in Int
  PROVE  Clipped(w) \in Weight
BY PositionAssumption DEF Clipped, Weight, NotFinite

LEMMA Half == Halves \div 2 \in Weight
BY PositionAssumption DEF Weight

\* ... a centre by such a weight is in the layer, or at the boundary.
LEMMA Quotient ==
  ASSUME NEW n \in Nat \ {0}, NEW x \in Int, NEW a \in Int, NEW b \in Int,
         n * a <= x, x <= n * b
  PROVE  a <= x \div n /\ x \div n <= b
<1> DEFINE q == x \div n
           r == x % n
<1>1. q \in Int /\ r \in Int /\ 0 <= r /\ r < n /\ x = n * q + r
  OBVIOUS
<1> HIDE DEF q, r
<1>2. n * a < n * (q + 1) /\ n * q <= n * b
  BY <1>1
<1>3. a < q + 1
  <2>1. CASE a >= q + 1
    <3>1. n * (a - (q + 1)) >= 0
      BY <1>1, <2>1
    <3> QED
      BY <1>1, <1>2, <3>1
  <2> QED
    BY <1>1, <2>1
<1>4. q <= b
  <2>1. CASE q > b
    <3>1. n * (q - b) > 0
      BY <1>1, <2>1
    <3> QED
      BY <1>1, <1>2, <3>1
  <2> QED
    BY <1>1, <2>1
<1> QED
  BY <1>1, <1>3, <1>4 DEF q

LEMMA AlongBetween ==
  ASSUME NEW l \in Layers, NEW w \in 0 .. Halves
  PROVE  Between(Along(l, w), Entry[l], Exit[l])
<1> DEFINE a == Entry[l]
           b == Exit[l]
           x == (Halves - w) * a + w * b
<1>1. a \in Int /\ b \in Int /\ Halves \in Nat \ {0} /\ w \in Nat /\ w <= Halves
  BY PositionAssumption
<1> HIDE DEF a, b
<1>2. x \in Int /\ Along(l, w) = x \div Halves
  BY <1>1 DEF Along, a, b
<1>3. CASE a <= b
  <2>1. w * (b - a) >= 0 /\ (Halves - w) * (b - a) >= 0
    BY <1>1, <1>3
  <2>2. x = Halves * a + w * (b - a) /\ x = Halves * b - (Halves - w) * (b - a)
    BY <1>1
  <2>3. Halves * a <= x /\ x <= Halves * b
    <3> HIDE DEF x
    <3> QED
      BY <1>1, <1>2, <2>1, <2>2
  <2> HIDE DEF x
  <2>4. a <= x \div Halves /\ x \div Halves <= b
    BY <1>1, <1>2, <2>3, Quotient
  <2> QED
    BY <1>2, <2>4 DEF Between, a, b
<1>4. CASE b <= a
  <2>1. w * (a - b) >= 0 /\ (Halves - w) * (a - b) >= 0
    BY <1>1, <1>4
  <2>2. x = Halves * b + (Halves - w) * (a - b) /\ x = Halves * a - w * (a - b)
    BY <1>1
  <2>3. Halves * b <= x /\ x <= Halves * a
    <3> HIDE DEF x
    <3> QED
      BY <1>1, <1>2, <2>1, <2>2
  <2> HIDE DEF x
  <2>4. b <= x \div Halves /\ x \div Halves <= a
    BY <1>1, <1>2, <2>3, Quotient
  <2> QED
    BY <1>2, <2>4 DEF Between, a, b
<1> QED
  BY <1>1, <1>3, <1>4

LEMMA CenterPlaced ==
  ASSUME NEW l \in Layers, NEW wEta \in Weight, NEW wR \in Weight
  PROVE  Placed(l, Center(l, wEta, wR))
<1>1. CASE l \in Finite /\ NotFinite \notin {wEta, wR}
  <2>1. wEta \in 0 .. Halves /\ wR \in 0 .. Halves
    BY <1>1 DEF Weight
  <2> QED
    BY <1>1, <2>1, AlongBetween DEF Placed, Center
<1>2. CASE ~(l \in Finite /\ NotFinite \notin {wEta, wR})
  BY <1>2 DEF Placed, Center
<1> QED
  BY <1>1, <1>2

-----------------------------------------------------------------------------
\* What is in the state is of this shower once its maker has run, and what is
\* alive is what it points to: two objects, or none.
HeapOK ==
  /\ heap = [p \in DOMAIN heap |-> heap[p]]
  /\ DOMAIN heap \in {{}, {1, 2}}
  /\ DOMAIN heap = PointersAt(Keys)
  /\ \A j, k \in Keys : IsPointer(j) /\ IsPointer(k) /\ aux[j] = aux[k] => j = k
Cleaned(i) ==
  /\ Program[i].kind = "voxel" /\ Program[i].bins = 0
  /\ \A j \in i + 1 .. pc - 1 : Program[j].kind # "voxel"
ThisShowers ==
  /\ UsesWeights(particle) => \A k \in Keys : ~IsPointer(k)
  /\ Passed("voxel") => \A p \in DOMAIN heap : heap[p] = shower
  /\ Passed("predict") => \A l \in Layers : aux[LayerKey(l)].value \in Weight
  /\ \A i \in 1 .. pc - 1 : Cleaned(i) => DOMAIN heap = {}
HitOK ==
  lastHit # NoHit /\ Supplied(Program) =>
    /\ lastHit.voxels \subseteq {1, 2}
    /\ lastHit.voxels # {} => Passed("voxel")
    /\ Placed(lastHit.layer, lastHit.center)
SInv ==
  /\ Standing /\ HeapOK /\ ThisShowers /\ HitOK
  /\ status = "done" => pc > Len(Program)

LEMMA KeysDiffer ==
  /\ \A l, m \in Layers : LayerKey(l) # GeoKey(m)
  /\ \A l, m \in Layers : LayerKey(l) = LayerKey(m) => l = m
  /\ \A l \in Layers : LayerKey(l) \in Keys /\ GeoKey(l) \in Keys
BY DEF LayerKey, GeoKey, Keys

\* The instances of the fluctuations delete everything first ...
LEMMA NothingKept ==
  ASSUME HeapOK
  PROVE  /\ DOMAIN Freed = {}
         /\ DOMAIN Emptied = DOMAIN aux
         /\ \A k \in DOMAIN aux : Emptied[k].type = "pointer" => Emptied[k].value = 0 \/ ~IsPointer(k)
BY DEF HeapOK, Freed, Emptied, IsPointer, HasAux, Pointer

LEMMA VoxelsCleaned ==
  ASSUME HeapOK, VoxelClean
  PROVE  HeapOK' /\ DOMAIN heap' = {}
<1>1. heap' = Freed /\ aux' = Emptied
  BY DEF VoxelClean
<1>2. DOMAIN heap' = {} /\ heap' = [p \in DOMAIN heap' |-> heap'[p]]
  BY <1>1, NothingKept DEF Freed
<1>3. \A k \in Keys : ~IsPointer(k)'
  BY <1>1 DEF Emptied, IsPointer, HasAux, Pointer
<1>4. PointersAt(Keys)' = {}
  BY <1>3 DEF PointersAt, Keys, LayerKey, GeoKey
<1> QED
  BY <1>2, <1>3, <1>4 DEF HeapOK, Keys, LayerKey, GeoKey

\* ... so that two new objects are all there is.
LEMMA MaxOfZero == NewPointer({}) = 1
<1>1. {0} \cup {} = {0}
  OBVIOUS
<1>2. Max({0}) = 0
  BY DEF Max
<1> QED
  BY <1>1, <1>2 DEF NewPointer

LEMMA VoxelsMade ==
  ASSUME HeapOK, NEW l \in Layers, VoxelWeights(l, shower)
  PROVE  HeapOK' /\ \A p \in DOMAIN heap' : heap'[p] = shower
<1>1. NewPointer(DOMAIN Freed) = 1
  BY NothingKept, MaxOfZero
<1>2. /\ heap' = Put(Put(Freed, 1, shower), 2, shower)
      /\ aux' = Put(Put(Emptied, LayerKey(l), Pointer(1)), GeoKey(l), Pointer(2))
  BY <1>1 DEF VoxelWeights
<1>3. /\ DOMAIN heap' = {1, 2}
      /\ heap' = [p \in DOMAIN heap' |-> heap'[p]]
      /\ \A p \in DOMAIN heap' : heap'[p] = shower
  BY <1>2, NothingKept DEF Put
<1> DEFINE lk == LayerKey(l)
           gk == GeoKey(l)
<1>4. lk # gk /\ lk \in Keys /\ gk \in Keys
  BY KeysDiffer
<1>5. /\ DOMAIN aux' = DOMAIN aux \cup {lk, gk}
      /\ aux'[lk] = Pointer(1) /\ aux'[gk] = Pointer(2)
      /\ \A k \in DOMAIN aux : k # lk /\ k # gk => aux'[k] = Emptied[k]
  <2>1. DOMAIN Emptied = DOMAIN aux
    BY DEF Emptied
  <2> HIDE DEF lk, gk
  <2>2. aux' = Put(Put(Emptied, lk, Pointer(1)), gk, Pointer(2))
    BY <1>2 DEF lk, gk
  <2> QED
    BY <1>4, <2>1, <2>2 DEF Put
<1>6. Pointer(1).type = "pointer" /\ Pointer(1).value = 1 /\ Pointer(2).type = "pointer"
      /\ Pointer(2).value = 2 /\ Pointer(1) # Pointer(2)
  BY DEF Pointer
<1> HIDE DEF lk, gk
<1>7. \A k : IsPointer(k)' <=> k \in {lk, gk}
  <2>1. IsPointer(lk)' /\ IsPointer(gk)'
    BY <1>5, <1>6 DEF IsPointer, HasAux
  <2>2. ASSUME NEW k, k \notin {lk, gk} PROVE ~IsPointer(k)'
    <3>1. CASE k \in DOMAIN aux
      <4>1. aux'[k] = Emptied[k]
        BY <1>5, <2>2, <3>1
      <4> QED
        BY <3>1, <4>1 DEF IsPointer, HasAux, Emptied, Pointer
    <3>2. CASE k \notin DOMAIN aux
      BY <1>5, <2>2, <3>2 DEF IsPointer, HasAux
    <3> QED
      BY <3>1, <3>2
  <2> QED
    BY <2>1, <2>2
<1>8. Keys' = Keys
  BY DEF Keys, LayerKey, GeoKey
<1>9. PointersAt(Keys)' = {1, 2}
  BY <1>4, <1>5, <1>6, <1>7, <1>8 DEF PointersAt
<1>10. \A j, k \in Keys : IsPointer(j)' /\ IsPointer(k)' /\ aux'[j] = aux'[k] => j = k
  BY <1>5, <1>6, <1>7
<1> QED
  BY <1>3, <1>8, <1>9, <1>10 DEF HeapOK

\* The predicted weights are numbers, where there is no pointer to lose.
LEMMA WeightsPredicted ==
  ASSUME HeapOK, \A k \in Keys : ~IsPointer(k), NEW relevant,
         NEW output \in [relevant -> {-1, 1, Halves + 1, NotFinite}],
         PredictWeights(relevant, output)
  PROVE  /\ HeapOK' /\ \A k \in Keys : ~IsPointer(k)'
         /\ \A l \in Layers : aux'[LayerKey(l)].value \in Weight
<1> DEFINE lks == {LayerKey(l) : l \in Layers}
           new(k) == Number(IF k[1] \in relevant THEN Clipped(output[k[1]]) ELSE Halves \div 2)
<1>1. aux' = [k \in DOMAIN aux \cup lks |-> IF k \in lks THEN new(k) ELSE aux[k]] /\ heap' = heap
  BY DEF PredictWeights
<1>2. \A l \in Layers : LayerKey(l)[1] = l /\ LayerKey(l) \in lks
  BY DEF LayerKey
<1>3. \A l \in Layers : aux'[LayerKey(l)] = new(LayerKey(l))
  BY <1>1, <1>2
<1>4. \A l \in Layers : new(LayerKey(l)).value \in Weight
  <2> SUFFICES ASSUME NEW l \in Layers PROVE new(LayerKey(l)).value \in Weight
    OBVIOUS
  <2>1. CASE l \in relevant
    <3>1. output[l] \in Int
      BY <2>1, PositionAssumption DEF NotFinite
    <3> QED
      BY <1>2, <2>1, <3>1, ClippedType DEF Number
  <2>2. CASE l \notin relevant
    BY <1>2, <2>2, Half DEF Number
  <2> QED
    BY <2>1, <2>2
<1>5. \A k \in lks : new(k).type # "pointer"
  BY DEF Number
<1> HIDE DEF lks, new
<1>6. \A k \in Keys : ~IsPointer(k)'
  BY <1>1, <1>5 DEF IsPointer, HasAux
<1>7. PointersAt(Keys) = {} /\ PointersAt(Keys)' = {} /\ Keys' = Keys
  BY <1>6 DEF PointersAt, Keys, LayerKey, GeoKey
<1>8. HeapOK'
  BY <1>1, <1>6, <1>7 DEF HeapOK
<1> QED
  BY <1>3, <1>4, <1>6, <1>8

-----------------------------------------------------------------------------
\* An element that leaves values and pointers alone, or a shower that ends.
Quiet ==
  /\ UNCHANGED <<particle, shower, aux, heap, lastHit>>
  /\ \/ pc' = pc
     \/ pc' = pc + 1 /\ pc <= Len(Program) /\ ~Here("voxel") /\ ~Here("predict")
  /\ status' = "done" => pc' > Len(Program) \/ (status' = status /\ pc' = pc)

LEMMA QuietActions ==
  ASSUME \/ StartWithEkin \/ InterpolateEnergy \/ ChooseEnergyBin \/ DrawEnergy \/ NoTables
         \/ LayerDone \/ NoLayerEnergy \/ RenormalizeCells \/ Finish
  PROVE  Quiet
<1> USE DEF Quiet, Runs, Now, Program, Here, Advance, Fail, stateVars
<1>1. CASE StartWithEkin
  BY <1>1 DEF StartWithEkin
<1>2. CASE InterpolateEnergy
  BY <1>2 DEF InterpolateEnergy
<1>3. CASE ChooseEnergyBin
  BY <1>3 DEF ChooseEnergyBin
<1>4. CASE DrawEnergy
  BY <1>4 DEF DrawEnergy
<1>5. CASE NoTables
  BY <1>5 DEF NoTables
<1>6. CASE LayerDone
  BY <1>6 DEF LayerDone
<1>7. CASE NoLayerEnergy
  BY <1>7 DEF NoLayerEnergy
<1>8. CASE RenormalizeCells
  BY <1>8 DEF RenormalizeCells
<1>9. CASE Finish
  BY <1>9 DEF Finish
<1> QED
  BY <1>1, <1>2, <1>3, <1>4, <1>5, <1>6, <1>7, <1>8, <1>9

LEMMA SameHeap ==
  ASSUME HeapOK, UNCHANGED <<aux, heap>>
  PROVE  HeapOK'
<1>1. \A k : IsPointer(k)' <=> IsPointer(k)
  BY DEF IsPointer, HasAux
<1>2. Keys' = Keys
  BY DEF Keys, LayerKey, GeoKey
<1>3. PointersAt(Keys)' = PointersAt(Keys)
  BY <1>1, <1>2 DEF PointersAt
<1> QED
  BY <1>1, <1>2, <1>3 DEF HeapOK

LEMMA SameHit ==
  ASSUME HitOK, UNCHANGED <<lastHit, particle>>, Passed("voxel") => Passed("voxel")'
  PROVE  HitOK'
BY DEF HitOK, Program, Supplied, Earlier, Placed, Between

LEMMA QuietStep ==
  ASSUME SInv, Quiet
  PROVE  SInv'
<1>1. Program' = Program
  BY DEF Quiet, Program
<1>2. Standing'
  BY <1>1, Programs DEF Standing, Quiet, SInv
<1>3. HeapOK'
  BY SameHeap DEF SInv, Quiet
<1>4. /\ Passed("voxel")' <=> Passed("voxel")
      /\ Passed("predict")' <=> Passed("predict")
  <2>1. CASE pc' = pc
    BY <2>1, PassedSame DEF Quiet, Stays
  <2>2. CASE pc' = pc + 1 /\ pc <= Len(Program) /\ ~Here("voxel") /\ ~Here("predict")
    BY <2>2, PassedNext DEF SInv, Quiet, Advanced
  <2> QED
    BY <2>1, <2>2 DEF Quiet
<1>5. \A i \in 1 .. pc' - 1 : Cleaned(i)' => i \in 1 .. pc - 1 /\ Cleaned(i)
  <2>1. CASE pc' = pc
    BY <1>1, <2>1 DEF Cleaned
  <2>2. CASE pc' = pc + 1 /\ pc <= Len(Program) /\ ~Here("voxel") /\ ~Here("predict")
    <3>1. pc' - 1 = pc /\ pc \in Nat \ {0}
      BY <2>2 DEF SInv, Standing
    <3>2. \A i \in 1 .. pc : i \in 1 .. pc - 1 \/ i = pc
      BY <3>1
    <3>3. Program[pc].kind # "voxel"
      BY <2>2 DEF Here
    <3>4. \A i \in 1 .. pc - 1 : i + 1 .. pc - 1 \subseteq i + 1 .. pc
      BY <3>1
    <3> QED
      BY <1>1, <3>1, <3>2, <3>3, <3>4 DEF Cleaned
  <2> QED
    BY <2>1, <2>2 DEF Quiet
<1>6. ThisShowers'
  <2>1. \A k : IsPointer(k)' <=> IsPointer(k)
    BY DEF Quiet, IsPointer, HasAux
  <2>2. UsesWeights(particle)' <=> UsesWeights(particle)
    BY DEF Quiet, UsesWeights
  <2> QED
    BY <1>4, <1>5, <2>1, <2>2 DEF SInv, ThisShowers, Quiet, Keys, LayerKey, GeoKey, Weight
<1>7. HitOK'
  BY <1>4, SameHit DEF SInv, Quiet
<1>8. (status = "done" => pc > Len(Program))'
  BY <1>1 DEF SInv, Quiet
<1> QED
  BY <1>2, <1>3, <1>6, <1>7, <1>8 DEF SInv

LEMMA FailQuiet ==
  ASSUME NEW s, s # "done", Fail(s)
  PROVE  Quiet
BY DEF Fail, Quiet, stateVars

\* The weights a network predicts.
LEMMA PredictStep ==
  ASSUME SInv, PredictExtrapWeights
  PROVE  SInv'
<1>1. status = "run" /\ pc <= Len(Program) /\ Here("predict")
  BY DEF PredictExtrapWeights, Runs, Now, Program, Here
<1>2. CASE Fail("thrown")
  BY <1>2, FailQuiet, QuietStep
<1>3. CASE ~Fail("thrown")
  <2>1. /\ InputsThere(Now.relevant)
        /\ \E output \in [Now.relevant -> {-1, 1, Halves + 1, NotFinite}] :
             PredictWeights(Now.relevant, output)
        /\ Advance /\ UNCHANGED lastHit
    BY <1>3 DEF PredictExtrapWeights
  <2>2. pc' = pc + 1 /\ UNCHANGED <<particle, status, shower, lastHit>>
    BY <2>1 DEF Advance
  <2>3. Program' = Program
    BY <2>2 DEF Program
  <2>4. Standing'
    BY <1>1, <2>2, <2>3, Programs DEF Standing, SInv
  <2>5. UsesWeights(particle) /\ ~UsesVoxels(particle)
    BY <1>1, PassedUses, Programs DEF SInv, Standing
  <2>6. /\ HeapOK' /\ \A k \in Keys : ~IsPointer(k)'
        /\ \A l \in Layers : aux'[LayerKey(l)].value \in Weight
    BY <2>1, <2>5, WeightsPredicted DEF SInv, ThisShowers
  <2>7. Passed("voxel")' <=> Passed("voxel")
    BY <1>1, <2>2, PassedNext DEF SInv, Advanced, Here
  <2>8. ~Passed("voxel")
    BY <2>5, PassedUses DEF SInv
  <2>9. \A i \in 1 .. pc' - 1 : Program[i].kind # "voxel"
    <3>1. pc' - 1 <= Len(Program) /\ Len(Program) \in Nat /\ pc' - 1 \in Nat
      BY <1>1, <2>2, Programs DEF SInv, Standing
    <3> QED
      BY <2>5, <3>1, Programs DEF SInv, Standing
  <2>10. ThisShowers'
    BY <2>3, <2>6, <2>7, <2>8, <2>9 DEF ThisShowers, Cleaned, Keys, LayerKey, GeoKey, Weight
  <2>11. HitOK'
    BY <2>2, <2>7, SameHit DEF SInv
  <2> QED
    BY <1>1, <2>2, <2>4, <2>6, <2>10, <2>11 DEF SInv
<1> QED
  BY <1>2, <1>3

\* The voxel weights of a layer.
LEMMA VoxelStep ==
  ASSUME SInv, VoxelFluctuations
  PROVE  SInv'
<1>1. status = "run" /\ pc <= Len(Program) /\ Here("voxel") /\ Now = Program[pc]
  BY DEF VoxelFluctuations, Runs, Now, Program, Here
<1>2. CASE Fail("fatal")
  BY <1>2, FailQuiet, QuietStep
<1>3. CASE ~Fail("fatal")
  <2>1. /\ \/ Inactive(Now.bins) /\ VoxelClean
           \/ ~Inactive(Now.bins) /\ VoxelWeights(Now.layer, shower)
        /\ Advance /\ UNCHANGED lastHit
    BY <1>3 DEF VoxelFluctuations
  <2>2. pc' = pc + 1 /\ UNCHANGED <<particle, status, shower, lastHit>>
    BY <2>1 DEF Advance
  <2>3. Program' = Program
    BY <2>2 DEF Program
  <2>4. Standing'
    BY <1>1, <2>2, <2>3, Programs DEF Standing, SInv
  <2>5. UsesVoxels(particle) /\ ~UsesWeights(particle)
    BY <1>1, PassedUses, Programs DEF SInv, Standing
  <2>6. Now.layer \in Layers
    BY <1>1, Programs DEF SInv, Standing, Here
  <2>7. HeapOK' /\ \A p \in DOMAIN heap' : heap'[p] = shower
    <3>1. CASE VoxelClean
      BY <3>1, VoxelsCleaned DEF SInv
    <3>2. CASE VoxelWeights(Now.layer, shower)
      BY <2>6, <3>2, VoxelsMade DEF SInv
    <3> QED
      BY <2>1, <3>1, <3>2
  <2>8. Passed("voxel")'
    BY <1>1, <2>2, PassedNext DEF SInv, Advanced
  <2>9. ~Passed("predict")'
    <3>1. particle' = particle /\ Standing'
      BY <2>2, <2>4
    <3>2. Passed("predict")' <=> Passed("predict") \/ Here("predict")
      BY <1>1, <2>2, PassedNext DEF SInv, Advanced
    <3> QED
      BY <2>5, <3>2, PassedUses DEF SInv
  <2>10. \A i \in 1 .. pc' - 1 : Cleaned(i)' => DOMAIN heap' = {}
    <3> SUFFICES ASSUME NEW i \in 1 .. pc' - 1, Cleaned(i)' PROVE DOMAIN heap' = {}
      OBVIOUS
    <3>1. pc' - 1 = pc /\ pc \in Nat \ {0}
      BY <2>2 DEF SInv, Standing
    <3>2. i = pc
      <4>1. i # pc => pc \in i + 1 .. pc
        BY <3>1
      <4>2. Program[pc].kind = "voxel"
        BY <1>1 DEF Here
      <4> QED
        BY <2>3, <3>1, <4>1, <4>2 DEF Cleaned
    <3>3. Now.bins = 0
      BY <1>1, <2>3, <3>2 DEF Cleaned
    <3> QED
      BY <2>1, <3>3, VoxelsCleaned DEF Inactive, SInv
  <2>11. ThisShowers'
    <3>1. ~UsesWeights(particle)'
      BY <2>2, <2>5 DEF UsesWeights
    <3> QED
      BY <2>2, <2>7, <2>9, <2>10, <3>1 DEF ThisShowers
  <2>12. HitOK'
    BY <2>2, <2>8, SameHit DEF SInv
  <2> QED
    BY <1>1, <2>2, <2>4, <2>7, <2>11, <2>12 DEF SInv
<1> QED
  BY <1>2, <1>3

\* A hit uses what has been made for it.
LEMMA HitStep ==
  ASSUME SInv, PlaceHit
  PROVE  SInv'
<1>1. /\ status = "run" /\ pc <= Len(Program) /\ Here("hits") /\ Now = Program[pc]
      /\ Now.kind = "hits"
  BY DEF PlaceHit, Runs, Now, Program, Here
<1>2. CASE Fail("fatal")
  BY <1>2, FailQuiet, QuietStep
<1>3. CASE ~Fail("fatal")
  <2> DEFINE l == Now.layer
  <2>1. /\ CanHit(l) /\ lastHit' = HitWith(l)
        /\ UNCHANGED <<particle, pc, status, shower, aux, heap>>
    BY <1>3 DEF PlaceHit
  <2>2. l \in Layers
    BY <1>1, Programs DEF SInv, Standing
  <2>3. /\ lastHit'.layer = l /\ lastHit'.center = HitWith(l).center
        /\ lastHit'.voxels = HitWith(l).voxels
    BY <2>1 DEF HitWith
  <2> HIDE DEF l
  <2>4. Program' = Program
    BY <2>1 DEF Program
  <2>5. HeapOK'
    BY <2>1, SameHeap DEF SInv
  <2>6. /\ Passed("voxel")' <=> Passed("voxel")
        /\ Passed("predict")' <=> Passed("predict")
    BY <2>1, PassedSame DEF Stays
  <2>7. ThisShowers'
    <3>1. \A k : IsPointer(k)' <=> IsPointer(k)
      BY <2>1 DEF IsPointer, HasAux
    <3>2. UsesWeights(particle)' <=> UsesWeights(particle)
      BY <2>1 DEF UsesWeights
    <3>3. \A i \in 1 .. pc' - 1 : Cleaned(i)' => Cleaned(i)
      BY <2>1, <2>4 DEF Cleaned
    <3> QED
      BY <2>1, <2>6, <3>1, <3>2, <3>3 DEF SInv, ThisShowers, Keys, LayerKey, GeoKey, Weight
  <2>8. HitOK'
    <3> SUFFICES ASSUME Supplied(Program)
                 PROVE  /\ HitWith(l).voxels \subseteq {1, 2}
                        /\ HitWith(l).voxels # {} => Passed("voxel")
                        /\ Placed(l, HitWith(l).center)
      BY <2>3, <2>4, <2>6 DEF HitOK, Supplied, Earlier, Placed, Between
    <3>1. \A kind \in Now.uses : Passed(kind)
      <4>1. pc \in 1 .. Len(Program)
        BY <1>1, Programs DEF SInv, Standing
      <4>2. \A kind \in Now.uses : Earlier(Program, pc, kind)
        BY <1>1, <4>1 DEF Supplied
      <4> QED
        BY <1>1, <4>2, EarlierPassed DEF SInv
    <3>2. HitWith(l).voxels \subseteq {1, 2} /\ (HitWith(l).voxels # {} => Passed("voxel"))
      <4>1. CASE "voxel" \in Now.uses
        <5>1. HitWith(l).voxels = {aux[k].value : k \in {LayerKey(l), GeoKey(l)}}
          BY <4>1 DEF HitWith
        <5>2. IsPointer(LayerKey(l)) /\ IsPointer(GeoKey(l))
          BY <2>1, <4>1 DEF CanHit, HasVoxels
        <5>3. HitWith(l).voxels \subseteq PointersAt(Keys)
          BY <2>2, <5>1, <5>2, KeysDiffer DEF PointersAt
        <5> QED
          BY <3>1, <4>1, <5>3 DEF SInv, HeapOK
      <4>2. CASE "voxel" \notin Now.uses
        BY <4>2 DEF HitWith
      <4> QED
        BY <4>1, <4>2
    <3>3. Placed(l, HitWith(l).center)
      <4>1. CASE "predict" \in Now.uses
        <5>1. HitWith(l).center = PredictedCenter(l, Now.hardcoded)
          BY <4>1 DEF HitWith
        <5>2. aux[LayerKey(l)].value \in Weight
          BY <2>2, <3>1, <4>1 DEF SInv, ThisShowers
        <5> QED
          BY <2>2, <5>1, <5>2, CenterPlaced, Half DEF PredictedCenter
      <4>2. CASE "predict" \notin Now.uses
        <5>1. HitWith(l).center = FixedCenter(l)
          BY <4>2 DEF HitWith
        <5> QED
          BY <2>2, <5>1, CenterPlaced, Half DEF FixedCenter
      <4> QED
        BY <4>1, <4>2
    <3> QED
      BY <3>2, <3>3
  <2> QED
    BY <1>1, <2>1, <2>4, <2>5, <2>7, <2>8 DEF SInv, Standing
<1> QED
  BY <1>2, <1>3

\* The next particle starts with nothing, or with what another has left.
LEMMA NextStep ==
  ASSUME SInv, NEW p \in DOMAIN Particles, NewState(p) \/ SameState(p)
  PROVE  SInv'
<1>1. /\ particle' = p /\ pc' = 1 /\ status' = "run" /\ lastHit' = NoHit
  BY DEF NewState, SameState, NextParticle
<1>2. Standing'
  BY <1>1, Programs, ProgramAssumption DEF Standing, Program
<1>3. HitOK'
  BY <1>1 DEF HitOK
<1>4. ~Passed("voxel")' /\ ~Passed("predict")'
  BY <1>1 DEF Passed
<1>5. HeapOK' /\ (UsesWeights(particle)' => \A k \in Keys : ~IsPointer(k)')
  <2>1. CASE NewState(p)
    <3>1. aux' = Nothing /\ heap' = Nothing
      BY <2>1 DEF NewState
    <3>2. DOMAIN heap' = {} /\ heap' = [x \in DOMAIN heap' |-> heap'[x]] /\ DOMAIN aux' = {}
      BY <3>1 DEF Nothing
    <3>3. \A k : ~IsPointer(k)'
      BY <3>2 DEF IsPointer, HasAux
    <3>4. PointersAt(Keys)' = {}
      BY <3>3 DEF PointersAt
    <3> QED
      BY <3>2, <3>3, <3>4 DEF HeapOK
  <2>2. CASE SameState(p)
    <3>1. UNCHANGED <<aux, heap>> /\ MayFollow(p)
      BY <2>2 DEF SameState
    <3>2. \A k : IsPointer(k)' <=> IsPointer(k)
      BY <3>1 DEF IsPointer, HasAux
    <3>3. UsesWeights(p) => \A k \in Keys : ~IsPointer(k)
      BY <3>1 DEF MayFollow, IsPointer, HasAux
    <3> QED
      BY <1>1, <3>1, <3>2, <3>3, SameHeap DEF SInv, UsesWeights
  <2> QED
    BY <2>1, <2>2
<1>6. 1 .. pc' - 1 = {}
  BY <1>1
<1>7. ThisShowers'
  BY <1>4, <1>5, <1>6 DEF ThisShowers, Keys, LayerKey, GeoKey
<1> QED
  BY <1>1, <1>2, <1>3, <1>5, <1>7 DEF SInv

LEMMA SInitially == Init => SInv
<1> SUFFICES ASSUME Init PROVE SInv
  OBVIOUS
<1>1. aux = Nothing /\ heap = Nothing /\ pc = 1 /\ particle \in DOMAIN Particles
  BY DEF Init, FreshState
<1>2. Standing
  BY <1>1, Programs DEF Standing
<1>3. DOMAIN heap = {} /\ heap = [x \in DOMAIN heap |-> heap[x]] /\ DOMAIN aux = {}
  BY <1>1 DEF Nothing
<1>4. \A k : ~IsPointer(k)
  BY <1>3 DEF IsPointer, HasAux
<1>5. PointersAt(Keys) = {}
  BY <1>4 DEF PointersAt
<1>6. HeapOK
  BY <1>3, <1>4, <1>5 DEF HeapOK
<1>7. ThisShowers
  BY <1>1, <1>4, NotPassed DEF ThisShowers
<1>8. HitOK
  BY DEF Init, HitOK
<1> QED
  BY <1>2, <1>6, <1>7, <1>8 DEF SInv, Init

LEMMA Stutters == SInv /\ UNCHANGED vars => SInv'
<1> SUFFICES ASSUME SInv, UNCHANGED vars PROVE SInv'
  OBVIOUS
<1>1. Quiet
  BY DEF vars, stateVars, runVars, Quiet
<1> QED
  BY <1>1, QuietStep

LEMMA SPreserved == SInv /\ [Next]_vars => SInv'
BY QuietActions, QuietStep, PredictStep, VoxelStep, HitStep, NextStep, Stutters DEF Next

THEOREM StateInvariant == Spec => []SInv
BY SInitially, SPreserved, PTL DEF Spec

\* What the state keeps alive it points to, each once, and a program that ends
\* with a cleaning instance leaves nothing; the voxel weights of a hit are of
\* its own shower, and its centre lies in its layer, whatever other particles
\* have left in the state.
THEOREM WeightsAreOfThisShower == Spec => []WeightsOfThisShower
<1>1. SInv => OneOwner
  <2> SUFFICES ASSUME SInv PROVE OneOwner
    OBVIOUS
  <2>1. ASSUME status = "done", Cleans(Program) PROVE heap = Nothing
    <3>1. pc - 1 = Len(Program) /\ pc \in Nat \ {0} /\ Len(Program) \in Nat
      BY <2>1, Programs DEF SInv, Standing
    <3>2. PICK i \in 1 .. Len(Program) :
            /\ Program[i].kind = "voxel" /\ Program[i].bins = 0
            /\ \A j \in i + 1 .. Len(Program) : Program[j].kind # "voxel"
      BY <2>1 DEF Cleans
    <3>3. DOMAIN heap = {}
      BY <3>1, <3>2 DEF SInv, ThisShowers, Cleaned
    <3> QED
      BY <3>3 DEF SInv, HeapOK, Nothing
  <2> QED
    BY <2>1 DEF SInv, HeapOK, OneOwner
<1>2. SInv => HitsUseThisShower
  <2> SUFFICES ASSUME SInv, lastHit # NoHit, Supplied(Program)
               PROVE  /\ lastHit.voxels \cap DOMAIN heap # {} =>
                           \A p \in lastHit.voxels : heap[p] = shower
                      /\ Placed(lastHit.layer, lastHit.center)
    BY DEF HitsUseThisShower
  <2> QED
    BY DEF SInv, HitOK, HeapOK, ThisShowers
<1>3. SInv => WeightsOfThisShower
  BY <1>1, <1>2 DEF WeightsOfThisShower
<1> QED
  BY StateInvariant, <1>3, PTL

-----------------------------------------------------------------------------
\* The bin that is chosen is one of the table.
LEMMA ChosenBinInTable ==
  ASSUME NEW table \in Seq(Nat) \ {<<>>}, NEW x
  PROVE  ChosenBin(table, x) \in 0 .. Len(table) - 1
<1> DEFINE same == {i \in 1 .. Len(table) : table[i] = x}
           below == {i \in 1 .. Len(table) : table[i] < x}
<1>1. Len(table) \in Nat \ {0}
  OBVIOUS
<1>2. BinarySearch(table, x) \in Int
  <2>1. CASE same # {}
    <3>1. same \subseteq Nat
      OBVIOUS
    <3> HIDE DEF same
    <3>2. \E m \in same : \A k \in same : m <= k
      BY <2>1, <3>1, Least
    <3>3. Min(same) \in same
      BY <3>2 DEF Min
    <3> QED
      BY <2>1, <3>1, <3>3 DEF BinarySearch, same
  <2>2. CASE same = {}
    <3>1. IsFiniteSet(1 .. Len(table))
      BY <1>1, FS_Interval
    <3>2. IsFiniteSet(below)
      BY <3>1, FS_Subset
    <3>3. Cardinality(below) \in Nat
      BY <3>2, FS_CardinalityType
    <3> QED
      BY <2>2, <3>3 DEF BinarySearch
  <2> QED
    BY <2>1, <2>2
<1> DEFINE bin == BinarySearch(table, x) + 1
<1>3. ChosenBin(table, x) = IF bin < 0 THEN 0 ELSE IF bin > Len(table) - 1 THEN Len(table) - 1 ELSE bin
  BY DEF ChosenBin
<1>4. bin \in Int
  BY <1>2
<1> HIDE DEF bin
<1> QED
  BY <1>1, <1>3, <1>4

\* What is read later exists: the bin is one of a table that has been asked, and
\* the PCA has set all layers.
InTable(j) ==
  /\ Program[j].kind = "bin"
  /\ \E id \in DOMAIN Tables[Program[j].table] :
       ebin \in 0 .. Len(Tables[Program[j].table][id]) - 1
BinKnown == Passed("bin") => \E j \in 1 .. pc - 1 : j <= Len(Program) /\ InTable(j)
EnergySet == Passed("pca") => DOMAIN e = Layers /\ DOMAIN efrac = Layers
EInv ==
  /\ Standing
  /\ Ordered(Program) => BinKnown /\ EnergySet /\ status # "thrown"

\* An element after which as much exists as before.
Leaves ==
  /\ UNCHANGED <<particle, ebin>>
  /\ \/ UNCHANGED <<e, efrac>>
     \/ DOMAIN e' = Layers /\ DOMAIN efrac' = Layers
  /\ \/ pc' = pc
     \/ /\ pc' = pc + 1 /\ pc <= Len(Program) /\ ~Here("bin")
        /\ Here("pca") => DOMAIN e' = Layers /\ DOMAIN efrac' = Layers
  /\ Ordered(Program) => status' # "thrown"

LEMMA LeavesStep ==
  ASSUME EInv, Leaves
  PROVE  EInv'
<1>1. Program' = Program
  BY DEF Leaves, Program
<1>2. Standing'
  BY <1>1, Programs DEF Standing, Leaves, EInv
<1>3. Ordered(Program)' <=> Ordered(Program)
  BY <1>1 DEF Ordered, Earlier, HasBins
<1>4. /\ Passed("bin")' <=> Passed("bin")
      /\ Passed("pca")' => Passed("pca") \/ (Here("pca") /\ pc' = pc + 1)
  <2>1. CASE pc' = pc
    BY <2>1, PassedSame DEF Leaves, Stays
  <2>2. CASE pc' = pc + 1 /\ pc <= Len(Program) /\ ~Here("bin")
    BY <2>2, PassedNext DEF EInv, Leaves, Advanced
  <2> QED
    BY <2>1, <2>2 DEF Leaves
<1>5. 1 .. pc - 1 \subseteq 1 .. pc' - 1
  BY DEF Leaves, EInv, Standing
<1>6. BinKnown => BinKnown'
  <2>1. \A j : InTable(j) => InTable(j)'
    BY <1>1 DEF InTable, Leaves
  <2> QED
    BY <1>1, <1>4, <1>5, <2>1 DEF BinKnown
<1>7. EnergySet => EnergySet'
  <2>1. pc # pc + 1
    BY DEF EInv, Standing
  <2>2. Here("pca") /\ pc' = pc + 1 => DOMAIN e' = Layers /\ DOMAIN efrac' = Layers
    BY <2>1 DEF Leaves
  <2>3. DOMAIN e = Layers /\ DOMAIN efrac = Layers => DOMAIN e' = Layers /\ DOMAIN efrac' = Layers
    BY DEF Leaves
  <2> QED
    BY <1>4, <2>2, <2>3 DEF EnergySet
<1> QED
  BY <1>2, <1>3, <1>6, <1>7 DEF EInv, Leaves

LEMMA ChooseStep ==
  ASSUME EInv, ChooseEnergyBin
  PROVE  EInv'
<1>1. pc <= Len(Program) /\ Now = Program[pc] /\ Now.kind = "bin" /\ Here("bin") /\ ~Here("pca")
  BY DEF ChooseEnergyBin, Runs, Now, Program, Here
<1>2. CASE Fail("fatal")
  BY <1>2, LeavesStep DEF Fail, Leaves, stateVars
<1>3. CASE ~Fail("fatal")
  <2> DEFINE t == Now.table
             id == MatchedId(t, Particles[particle].pdgid)
  <2>1. /\ CanBin(t, Particles[particle].pdgid)
        /\ \E x : ChooseBin(t, Particles[particle].pdgid, x)
        /\ Advance
    BY <1>3 DEF ChooseEnergyBin
  <2>2. id \in DOMAIN Tables[t] /\ t \in DOMAIN Tables
    BY <1>1, <2>1, Programs DEF CanBin, EInv, Standing
  <2>3. Tables[t][id] \in Seq(Nat) \ {<<>>}
    BY <2>2, EnergyAssumption
  <2>4. ebin' \in 0 .. Len(Tables[t][id]) - 1 /\ UNCHANGED <<e, efrac>>
    BY <2>1, <2>3, ChosenBinInTable DEF ChooseBin
  <2>5. pc' = pc + 1 /\ UNCHANGED <<particle, status>>
    BY <2>1 DEF Advance
  <2>6. Program' = Program
    BY <2>5 DEF Program
  <2>7. Standing'
    BY <1>1, <2>5, <2>6, Programs DEF Standing, EInv
  <2>8. Ordered(Program)' <=> Ordered(Program)
    BY <2>6 DEF Ordered, Earlier, HasBins
  <2>9. BinKnown'
    <3>1. PICK j : j = pc
      OBVIOUS
    <3>2. j \in 1 .. pc' - 1 /\ j <= Len(Program)
      BY <1>1, <2>5, <3>1 DEF EInv, Standing
    <3>3. InTable(j)'
      <4> HIDE DEF t, id
      <4>1. Program'[j] = Now /\ Now.kind = "bin"
        BY <1>1, <2>6, <3>1
      <4>2. Now.table = t
        BY DEF t
      <4> QED
        BY <2>2, <2>4, <4>1, <4>2 DEF InTable
    <3> QED
      BY <2>6, <3>2, <3>3 DEF BinKnown
  <2>10. EnergySet => EnergySet'
    <3>1. Passed("pca")' <=> Passed("pca")
      BY <1>1, <2>5, PassedNext DEF EInv, Advanced
    <3> QED
      BY <2>4, <3>1 DEF EnergySet
  <2> QED
    BY <2>5, <2>7, <2>8, <2>9, <2>10 DEF EInv
<1> QED
  BY <1>2, <1>3

\* Nothing throws where what it reads exists.
LEMMA NeverThrows ==
  ASSUME EInv, Ordered(Program), pc <= Len(Program)
  PROVE  /\ Here("pca") => HasTables(Program[pc].pca)
         /\ Here("predict") => InputsThere(Program[pc].relevant)
         /\ Here("hits") => HasE(Program[pc].layer)
         /\ Here("renorm") => \A l \in Layers : HasE(l)
<1>1. pc \in 1 .. Len(Program) /\ Standing
  BY Programs DEF EInv, Standing
<1>2. ASSUME Here("pca") PROVE HasTables(Program[pc].pca)
  <2>1. Passed("bin")
    BY <1>1, <1>2, EarlierPassed DEF Ordered, Here
  <2>2. PICK j \in 1 .. pc - 1 : InTable(j)
    BY <2>1 DEF EInv, BinKnown
  <2>3. HasBins(Program[pc].pca, Program[j].table)
    BY <1>1, <1>2, <2>2 DEF Ordered, Here, InTable
  <2>4. ebin = 0 \/ ebin \in DOMAIN Draws[Program[pc].pca]
    <3>1. PICK id \in DOMAIN Tables[Program[j].table] :
            ebin \in 0 .. Len(Tables[Program[j].table][id]) - 1
      BY <2>2 DEF InTable
    <3>2. ebin = 0 \/ ebin \in 1 .. Len(Tables[Program[j].table][id]) - 1
      BY <3>1
    <3> QED
      BY <2>3, <3>2 DEF HasBins
  <2> QED
    BY <2>4 DEF HasTables
<1>3. ASSUME Here("predict") \/ Here("hits") \/ Here("renorm")
      PROVE  DOMAIN e = Layers /\ DOMAIN efrac = Layers
  <2>1. Passed("pca")
    BY <1>1, <1>3, EarlierPassed DEF Ordered, Here
  <2> QED
    BY <2>1 DEF EInv, EnergySet
<1>4. Here("hits") => Program[pc].layer \in Layers
  BY <1>1, Programs DEF Standing, Here
<1> QED
  BY <1>2, <1>3, <1>4 DEF InputsThere, HasE, HasEfrac

LEMMA OtherElements ==
  ASSUME EInv, \/ StartWithEkin \/ InterpolateEnergy \/ DrawEnergy \/ NoTables
               \/ PredictExtrapWeights \/ VoxelFluctuations \/ PlaceHit \/ LayerDone
               \/ NoLayerEnergy \/ RenormalizeCells \/ Finish
  PROVE  Leaves
<1> USE DEF Leaves, Runs, Now, Program, Here, Advance, Fail, stateVars
<1>1. CASE StartWithEkin
  BY <1>1 DEF StartWithEkin, InitWithEkin
<1>2. CASE InterpolateEnergy
  BY <1>2 DEF InterpolateEnergy, Interpolate
<1>3. CASE DrawEnergy
  BY <1>3 DEF DrawEnergy, NoEnergy, ShareEnergy, RejectDraw
<1>4. CASE NoTables
  BY <1>4, NeverThrows DEF NoTables
<1>5. CASE PredictExtrapWeights
  BY <1>5, NeverThrows DEF PredictExtrapWeights, UnchangedEnergy
<1>6. CASE VoxelFluctuations
  BY <1>6 DEF VoxelFluctuations, UnchangedEnergy
<1>7. CASE PlaceHit
  BY <1>7 DEF PlaceHit, UnchangedEnergy
<1>8. CASE LayerDone
  BY <1>8 DEF LayerDone, UnchangedEnergy
<1>9. CASE NoLayerEnergy
  BY <1>9, NeverThrows DEF NoLayerEnergy
<1>10. CASE RenormalizeCells
  BY <1>10, NeverThrows DEF RenormalizeCells, UnchangedEnergy
<1>11. CASE Finish
  BY <1>11 DEF Finish
<1> QED
  BY <1>1, <1>2, <1>3, <1>4, <1>5, <1>6, <1>7, <1>8, <1>9, <1>10, <1>11

LEMMA NewShower ==
  ASSUME EInv, NEW p \in DOMAIN Particles, NewState(p) \/ SameState(p)
  PROVE  EInv'
<1>1. particle' = p /\ pc' = 1 /\ status' = "run"
  BY DEF NewState, SameState, NextParticle
<1>2. Standing'
  BY <1>1, Programs, ProgramAssumption DEF Standing, Program
<1>3. ~Passed("bin")' /\ ~Passed("pca")'
  BY <1>1 DEF Passed
<1> QED
  BY <1>1, <1>2, <1>3 DEF EInv, BinKnown, EnergySet

\* In a chain whose elements stand in order, for tables that fit the PCA, no
\* parametrization reads an energy, a fraction or a table that does not exist,
\* whatever the shower before has left and however often the PCA is retried.
THEOREM NothingIsThrown == Spec => []NothingThrown
<1>1. Init => EInv
  <2> SUFFICES ASSUME Init PROVE EInv
    OBVIOUS
  <2>1. pc = 1 /\ particle \in DOMAIN Particles /\ status = "run"
    BY DEF Init
  <2>2. Standing
    BY <2>1, Programs DEF Standing
  <2> QED
    BY <2>1, <2>2, NotPassed DEF EInv, BinKnown, EnergySet
<1>2. EInv /\ [Next]_vars => EInv'
  <2>1. ASSUME EInv, UNCHANGED vars PROVE EInv'
    BY <2>1, LeavesStep DEF vars, stateVars, runVars, Leaves, EInv
  <2> QED
    BY <2>1, OtherElements, LeavesStep, ChooseStep, NewShower DEF Next
<1>3. EInv => NothingThrown
  BY DEF EInv, NothingThrown
<1> QED
  BY <1>1, <1>2, <1>3, PTL DEF Spec

-----------------------------------------------------------------------------
\* What holds of the empty set, and of a set once it holds of what is left of it
\* without any one member, holds of every finite set.
LEMMA RemovalInduct ==
  ASSUME NEW A, IsFiniteSet(A), NEW Q, {} \in Q,
         \A T \in SUBSET A : T # {} /\ (\A x \in T : T \ {x} \in Q) => T \in Q
  PROVE  SUBSET A \subseteq Q
<1> SUFFICES ASSUME NEW B \in SUBSET A, B \notin Q PROVE FALSE
  OBVIOUS
<1> DEFINE Sizes == {Cardinality(T) : T \in (SUBSET A) \ Q}
<1>1. \A T \in SUBSET A : IsFiniteSet(T) /\ Cardinality(T) \in Nat
  BY FS_Subset, FS_CardinalityType
<1>2. Sizes \subseteq Nat /\ Sizes # {}
  BY <1>1
<1> HIDE DEF Sizes
<1>3. PICK m \in Sizes : \A k \in Sizes : m <= k
  BY <1>2, Least
<1>4. PICK T \in (SUBSET A) \ Q : Cardinality(T) = m
  BY <1>3 DEF Sizes
<1>5. PICK x \in T : T \ {x} \notin Q
  <2>1. T \in SUBSET A /\ T \notin Q /\ T # {}
    BY <1>4
  <2> QED
    BY <2>1
<1>6. T \ {x} \in (SUBSET A) \ Q
  BY <1>5
<1>7. Cardinality(T \ {x}) = Cardinality(T) - 1
  BY <1>1, <1>4, FS_RemoveElement
<1>8. m <= Cardinality(T \ {x})
  BY <1>3, <1>6 DEF Sizes
<1> QED
  BY <1>1, <1>2, <1>4, <1>7, <1>8

\* A sum over a set as the community modules compute it, of a function.
SetSum(f, S) ==
  LET over[T \in SUBSET S] ==
        IF T = {} THEN 0 ELSE LET x == CHOOSE x \in T : TRUE IN f[x] + over[T \ {x}]
  IN over[S]

Chosen(T) == CHOOSE x \in T : TRUE
IsSum(g, f, S) ==
  /\ g = [T \in SUBSET S |-> g[T]]
  /\ \A T \in SUBSET S : g[T] = IF T = {} THEN 0 ELSE f[Chosen(T)] + g[T \ {Chosen(T)}]

\* The first number of a set is 0, or the one before it is not in the set.
LEMMA FirstOf ==
  ASSUME NEW T, T \subseteq Nat, T # {}
  PROVE  \E m \in T : m \in Nat /\ (m # 0 => m - 1 \in Nat \ T)
<1>1. PICK m \in T : \A k \in T : m <= k
  BY Least
<1>2. m \in Nat
  BY <1>1
<1>3. ASSUME m # 0 PROVE m - 1 \in Nat \ T
  <2>1. m - 1 \in Nat /\ ~(m <= m - 1)
    BY <1>2, <1>3
  <2> QED
    BY <1>1, <2>1
<1> QED
  BY <1>1, <1>2, <1>3

\* The function that the definition chooses exists, ...
LEMMA SumExists ==
  ASSUME NEW S, IsFiniteSet(S), NEW f
  PROVE  \E g : IsSum(g, f, S)
<1> DEFINE Partly(g, n) ==
             \A T \in SUBSET S : Cardinality(T) <= n =>
               g[T] = IF T = {} THEN 0 ELSE f[Chosen(T)] + g[T \ {Chosen(T)}]
           Bad == {n \in Nat : ~\E g : g = [T \in SUBSET S |-> g[T]] /\ Partly(g, n)}
<1>1. \A T \in SUBSET S : IsFiniteSet(T) /\ Cardinality(T) \in Nat /\ Cardinality(T) <= Cardinality(S)
  BY FS_Subset, FS_CardinalityType
<1>2. \A T \in SUBSET S : T # {} => /\ Chosen(T) \in T /\ T \ {Chosen(T)} \in SUBSET S
                                    /\ Cardinality(T \ {Chosen(T)}) = Cardinality(T) - 1
  <2> SUFFICES ASSUME NEW T \in SUBSET S, T # {}
               PROVE  /\ Chosen(T) \in T /\ T \ {Chosen(T)} \in SUBSET S
                      /\ Cardinality(T \ {Chosen(T)}) = Cardinality(T) - 1
    OBVIOUS
  <2>1. Chosen(T) \in T
    BY DEF Chosen
  <2> QED
    BY <2>1, <1>1, FS_RemoveElement
<1>3. \A T \in SUBSET S : Cardinality(T) = 0 <=> T = {}
  BY <1>1, FS_EmptySet
<1>4. Bad = {}
  <2> SUFFICES ASSUME Bad # {} PROVE FALSE
    OBVIOUS
  <2>1. PICK m \in Bad : m \in Nat /\ (m # 0 => m - 1 \in Nat \ Bad)
    <3>1. Bad \subseteq Nat
      OBVIOUS
    <3> QED
      BY <3>1, FirstOf
  <2>2. CASE m = 0
    <3>1. PICK g : g = [T \in SUBSET S |-> 0]
      OBVIOUS
    <3>2. Partly(g, 0)
      <4> SUFFICES ASSUME NEW T \in SUBSET S, Cardinality(T) <= 0
                   PROVE  g[T] = IF T = {} THEN 0 ELSE f[Chosen(T)] + g[T \ {Chosen(T)}]
        OBVIOUS
      <4>1. T = {}
        BY <1>1, <1>3
      <4> QED
        BY <3>1, <4>1
    <3>3. g = [T \in SUBSET S |-> g[T]]
      BY <3>1
    <3> QED
      BY <2>1, <2>2, <3>2, <3>3
  <2>3. CASE m # 0
    <3>1. m - 1 \in Nat /\ m - 1 \notin Bad /\ m \in Nat
      BY ONLY <2>1, <2>3
    <3>2. PICK h : h = [T \in SUBSET S |-> h[T]] /\ Partly(h, m - 1)
      BY <3>1
    <3>3. PICK g : g = [T \in SUBSET S |-> IF Cardinality(T) <= m - 1 THEN h[T]
                                           ELSE f[Chosen(T)] + h[T \ {Chosen(T)}]]
      OBVIOUS
    <3>4. Partly(g, m)
      <4> SUFFICES ASSUME NEW T \in SUBSET S, Cardinality(T) <= m
                   PROVE  g[T] = IF T = {} THEN 0 ELSE f[Chosen(T)] + g[T \ {Chosen(T)}]
        OBVIOUS
      <4>1. CASE T = {}
        <5>1. Cardinality(T) <= m - 1
          BY <4>1, <1>3, <3>1
        <5> QED
          BY <3>2, <3>3, <4>1, <5>1
      <4>2. CASE T # {}
        <5>1. /\ T \ {Chosen(T)} \in SUBSET S /\ Cardinality(T) \in Nat
              /\ Cardinality(T \ {Chosen(T)}) <= m - 1
          BY <4>2, <1>1, <1>2, <3>1
        <5>2. g[T \ {Chosen(T)}] = h[T \ {Chosen(T)}]
          BY <3>3, <5>1
        <5>3. CASE Cardinality(T) <= m - 1
          BY <3>2, <3>3, <4>2, <5>2, <5>3
        <5>4. CASE ~(Cardinality(T) <= m - 1)
          BY <3>3, <4>2, <5>2, <5>4
        <5> QED
          BY <5>3, <5>4
      <4> QED
        BY <4>1, <4>2
    <3>5. g = [T \in SUBSET S |-> g[T]]
      BY <3>3
    <3> QED
      BY <2>1, <3>4, <3>5
  <2> QED
    BY <2>2, <2>3
<1>5. Cardinality(S) \in Nat
  BY FS_CardinalityType
<1>6. PICK g : g = [T \in SUBSET S |-> g[T]] /\ Partly(g, Cardinality(S))
  BY <1>4, <1>5
<1> QED
  BY <1>1, <1>6 DEF IsSum

\* ... is the only one, also on a part of its domain, ...
LEMMA SumUnique ==
  ASSUME NEW S, IsFiniteSet(S), NEW f, NEW g, IsSum(g, f, S), NEW R, S \subseteq R,
         NEW d, \A x \in S : d[x] = f[x], NEW h, IsSum(h, d, R)
  PROVE  \A T \in SUBSET S : g[T] = h[T]
<1> DEFINE Q == {T \in SUBSET S : g[T] = h[T]}
<1>1. {} \in Q
  BY DEF IsSum
<1>2. ASSUME NEW T \in SUBSET S, T # {}, \A x \in T : T \ {x} \in Q PROVE T \in Q
  <2>1. Chosen(T) \in T
    BY <1>2 DEF Chosen
  <2>2. g[T \ {Chosen(T)}] = h[T \ {Chosen(T)}] /\ d[Chosen(T)] = f[Chosen(T)]
    BY <1>2, <2>1
  <2>3. T \in SUBSET R
    OBVIOUS
  <2> QED
    BY <1>2, <2>2, <2>3 DEF IsSum
<1> HIDE DEF Q
<1>3. SUBSET S \subseteq Q
  BY <1>1, <1>2, RemovalInduct
<1> QED
  BY <1>3 DEF Q

\* ... and so satisfies its equation.
LEMMA SumIs ==
  ASSUME NEW S, IsFiniteSet(S), NEW f
  PROVE  \E g : IsSum(g, f, S) /\ SetSum(f, S) = g[S]
<1> DEFINE IsIt(g) == g = [T \in SUBSET S |->
             IF T = {} THEN 0 ELSE LET x == CHOOSE x \in T : TRUE IN f[x] + g[T \ {x}]]
<1>1. \E g : IsIt(g)
  <2>1. PICK g : IsSum(g, f, S)
    BY SumExists
  <2>2. IsIt(g)
    BY <2>1 DEF IsSum, Chosen
  <2> QED
    BY <2>2
<1>2. IsIt(CHOOSE g : IsIt(g))
  BY <1>1
<1>3. SetSum(f, S) = (CHOOSE g : IsIt(g))[S]
  BY DEF SetSum
<1> HIDE DEF IsIt
<1>4. PICK g : IsIt(g) /\ SetSum(f, S) = g[S]
  BY <1>2, <1>3
<1>5. IsSum(g, f, S)
  BY <1>4 DEF IsIt, IsSum, Chosen
<1> QED
  BY <1>4, <1>5

LEMMA SumOfNone == \A f : SetSum(f, {}) = 0
<1> SUFFICES ASSUME NEW f PROVE SetSum(f, {}) = 0
  OBVIOUS
<1>1. PICK g : IsSum(g, f, {}) /\ SetSum(f, {}) = g[{}]
  BY SumIs, FS_EmptySet
<1> QED
  BY <1>1 DEF IsSum

LEMMA SumType ==
  ASSUME NEW S, IsFiniteSet(S), NEW f, \A x \in S : f[x] \in Int, NEW g, IsSum(g, f, S)
  PROVE  \A T \in SUBSET S : g[T] \in Int
<1> DEFINE Q == {T \in SUBSET S : g[T] \in Int}
<1>1. {} \in Q
  <2>1. g[{}] = 0
    BY DEF IsSum
  <2> QED
    BY <2>1
<1>2. ASSUME NEW T \in SUBSET S, T # {}, \A x \in T : T \ {x} \in Q PROVE T \in Q
  <2>1. PICK c : c = Chosen(T)
    OBVIOUS
  <2>2. c \in T /\ g[T] = f[c] + g[T \ {c}]
    BY <2>1, <1>2 DEF Chosen, IsSum
  <2>3. g[T \ {c}] \in Int /\ f[c] \in Int
    BY <1>2, <2>2
  <2>4. g[T] \in Int
    BY <2>2, <2>3
  <2> QED
    BY <2>4
<1> HIDE DEF Q
<1>3. SUBSET S \subseteq Q
  BY <1>1, <1>2, RemovalInduct
<1> QED
  BY <1>3 DEF Q

LEMMA SumsAre ==
  ASSUME NEW S, IsFiniteSet(S), NEW f, \A x \in S : f[x] \in Int, NEW g, IsSum(g, f, S)
  PROVE  \A x \in S : g[S] = f[x] + g[S \ {x}]
<1> DEFINE Q == {T \in SUBSET S : \A x \in T : g[T] = f[x] + g[T \ {x}]}
<1>0. \A T \in SUBSET S : g[T] \in Int
  BY SumType
<1>1. {} \in Q
  OBVIOUS
<1>2. ASSUME NEW T \in SUBSET S, T # {}, \A x \in T : T \ {x} \in Q PROVE T \in Q
  <2>1. PICK c : c = Chosen(T)
    OBVIOUS
  <2>2. c \in T /\ g[T] = f[c] + g[T \ {c}]
    BY <2>1, <1>2 DEF Chosen, IsSum
  <2>4. ASSUME NEW x \in T, x # c PROVE g[T] = f[x] + g[T \ {x}]
    <3>1. x \in T \ {c} /\ c \in T \ {x} /\ (T \ {c}) \ {x} = (T \ {x}) \ {c}
      BY <2>2, <2>4
    <3>2. PICK r \in SUBSET S : r = (T \ {c}) \ {x}
      OBVIOUS
    <3>3. g[T \ {c}] = f[x] + g[r]
      BY <1>2, <2>2, <3>1, <3>2
    <3>5. g[T \ {x}] = f[c] + g[r]
      BY <1>2, <2>4, <3>1, <3>2
    <3>4. g[r] \in Int /\ f[x] \in Int /\ f[c] \in Int
      BY <1>0, <2>2, <3>2
    <3> QED
      BY <2>2, <3>3, <3>4, <3>5
  <2>5. \A x \in T : g[T] = f[x] + g[T \ {x}]
    BY <2>2, <2>4
  <2> QED
    BY <2>5
<1> HIDE DEF Q
<1>3. SUBSET S \subseteq Q
  BY <1>1, <1>2, RemovalInduct
<1> QED
  BY <1>3 DEF Q

\* A sum is that of what is left without any one member, and that member.
LEMMA SumOfOneMore ==
  ASSUME NEW A, IsFiniteSet(A), NEW f, \A x \in A : f[x] \in Int, NEW x \in A
  PROVE  /\ SetSum(f, A) \in Int /\ SetSum(f, A \ {x}) \in Int
         /\ SetSum(f, A) = f[x] + SetSum(f, A \ {x})
<1>1. PICK g : IsSum(g, f, A) /\ SetSum(f, A) = g[A]
  BY SumIs
<1>2. IsFiniteSet(A \ {x})
  BY FS_RemoveElement
<1>3. PICK h : IsSum(h, f, A \ {x}) /\ SetSum(f, A \ {x}) = h[A \ {x}]
  BY <1>2, SumIs
<1>4. h[A \ {x}] = g[A \ {x}]
  <2>1. A \ {x} \subseteq A /\ \A y \in A \ {x} : f[y] = f[y]
    OBVIOUS
  <2>2. \A T \in SUBSET (A \ {x}) : h[T] = g[T]
    BY ONLY <1>1, <1>2, <1>3, <2>1, SumUnique
  <2> QED
    BY <2>2
<1>5. \A T \in SUBSET A : g[T] \in Int
  BY <1>1, SumType
<1>6. \A y \in A : g[A] = f[y] + g[A \ {y}]
  BY <1>1, SumsAre
<1> QED
  BY <1>1, <1>3, <1>4, <1>5, <1>6

LEMMA SumOfSame ==
  ASSUME NEW A, IsFiniteSet(A), NEW f, NEW h, \A x \in A : f[x] = h[x]
  PROVE  SetSum(f, A) = SetSum(h, A)
<1>1. PICK g : IsSum(g, f, A) /\ SetSum(f, A) = g[A]
  BY SumIs
<1>2. PICK k : IsSum(k, h, A) /\ SetSum(h, A) = k[A]
  BY SumIs
<1>3. \A T \in SUBSET A : g[T] = k[T]
  BY <1>1, <1>2, SumUnique
<1> QED
  BY <1>1, <1>2, <1>3

LEMMA SumInt ==
  ASSUME NEW A, IsFiniteSet(A), NEW f, \A x \in A : f[x] \in Int
  PROVE  SetSum(f, A) \in Int
<1>1. CASE A = {}
  BY <1>1, SumOfNone
<1>2. CASE A # {}
  BY <1>2, SumOfOneMore
<1> QED
  BY <1>1, <1>2

\* Members that add nothing.
LEMMA SumOfFewer ==
  ASSUME NEW A, IsFiniteSet(A), NEW B \in SUBSET A, NEW f, \A x \in A : f[x] \in Int,
         \A x \in A \ B : f[x] = 0
  PROVE  SetSum(f, A) = SetSum(f, B)
<1> DEFINE Q == {T \in SUBSET (A \ B) : SetSum(f, B \cup T) = SetSum(f, B)}
<1>1. {} \in Q
  OBVIOUS
<1>2. ASSUME NEW T \in SUBSET (A \ B), T # {}, \A x \in T : T \ {x} \in Q PROVE T \in Q
  <2>1. PICK x \in T : TRUE
    BY <1>2
  <2>2. PICK U \in SUBSET A : U = B \cup T
    OBVIOUS
  <2>8. B \cap T = {}
    OBVIOUS
  <2>3. PICK V : x \in U /\ V = U \ {x} /\ V = B \cup (T \ {x})
    BY <2>1, <2>2, <2>8
  <2>4. IsFiniteSet(U) /\ \A y \in U : f[y] \in Int
    BY FS_Subset
  <2>5. SetSum(f, V) \in Int /\ SetSum(f, U) = f[x] + SetSum(f, V)
    BY <2>3, <2>4, SumOfOneMore
  <2>6. SetSum(f, V) = SetSum(f, B) /\ f[x] = 0
    BY <1>2, <2>1, <2>3
  <2>7. SetSum(f, U) = SetSum(f, B)
    BY <2>5, <2>6
  <2> QED
    BY <2>2, <2>7
<1> HIDE DEF Q
<1>3. IsFiniteSet(A \ B)
  BY FS_Subset
<1>6. SUBSET (A \ B) \subseteq Q
  BY <1>1, <1>2, <1>3, RemovalInduct
<1>4. (A \ B) \in Q
  BY <1>6
<1>5. B \cup (A \ B) = A
  OBVIOUS
<1> QED
  BY <1>4, <1>5 DEF Q

\* A sum of what is not negative.
LEMMA SumAtLeast ==
  ASSUME NEW A, IsFiniteSet(A), NEW f, \A x \in A : f[x] \in Nat
  PROVE  SetSum(f, A) \in Nat /\ \A x \in A : f[x] <= SetSum(f, A)
<1> DEFINE Q == {T \in SUBSET A : SetSum(f, T) \in Nat}
<1>1. {} \in Q
  <2>1. SetSum(f, {}) = 0
    BY SumOfNone
  <2> QED
    BY <2>1
<1>2. ASSUME NEW T \in SUBSET A, T # {}, \A x \in T : T \ {x} \in Q PROVE T \in Q
  <2>1. PICK x \in T : TRUE
    BY <1>2
  <2>2. IsFiniteSet(T) /\ \A y \in T : f[y] \in Int
    BY FS_Subset
  <2>3. SetSum(f, T) = f[x] + SetSum(f, T \ {x})
    BY <2>2, SumOfOneMore
  <2>4. SetSum(f, T \ {x}) \in Nat /\ f[x] \in Nat
    BY <1>2
  <2>5. SetSum(f, T) \in Nat
    BY <2>3, <2>4
  <2> QED
    BY <2>5
<1> HIDE DEF Q
<1>3. SUBSET A \subseteq Q
  BY <1>1, <1>2, RemovalInduct
<1>4. \A T \in SUBSET A : SetSum(f, T) \in Nat
  BY <1>3 DEF Q
<1>5. ASSUME NEW x \in A PROVE f[x] <= SetSum(f, A)
  <2>1. \A y \in A : f[y] \in Int
    OBVIOUS
  <2>2. SetSum(f, A) = f[x] + SetSum(f, A \ {x})
    BY <2>1, SumOfOneMore
  <2>3. SetSum(f, A \ {x}) \in Nat /\ f[x] \in Nat
    BY <1>4
  <2> QED
    BY <2>2, <2>3
<1> QED
  BY <1>4, <1>5

\* What is shared in proportion: the shares lack no more than one unit each.
LEMMA SharesSum ==
  ASSUME NEW A, IsFiniteSet(A), NEW f, \A x \in A : f[x] \in Int, NEW t \in Int,
         NEW s \in Nat \ {0}, NEW g, \A x \in A : g[x] = (f[x] * t) \div s
  PROVE  /\ SetSum(g, A) \in Int
         /\ s * SetSum(g, A) <= t * SetSum(f, A)
         /\ t * SetSum(f, A) <= s * (SetSum(g, A) + Cardinality(A))
         /\ (\A x \in A : (f[x] * t) % s = 0) => s * SetSum(g, A) = t * SetSum(f, A)
<1> DEFINE Whole == \A x \in A : (f[x] * t) % s = 0
           Fits(B) == /\ s * SetSum(g, B) <= t * SetSum(f, B)
                      /\ t * SetSum(f, B) <= s * (SetSum(g, B) + Cardinality(B))
                      /\ Whole => s * SetSum(g, B) = t * SetSum(f, B)
           Q == {T \in SUBSET A : Fits(T)}
<1>0. \A x \in A : g[x] \in Int /\ s * g[x] <= t * f[x] /\ t * f[x] <= s * g[x] + s
                   /\ (Whole => s * g[x] = t * f[x])
  <2> SUFFICES ASSUME NEW x \in A
               PROVE  g[x] \in Int /\ s * g[x] <= t * f[x] /\ t * f[x] <= s * g[x] + s
                      /\ (Whole => s * g[x] = t * f[x])
    OBVIOUS
  <2>1. PICK z \in Int : z = f[x] * t /\ z = t * f[x]
    OBVIOUS
  <2>2. PICK q \in Int : q = z \div s
    OBVIOUS
  <2>3. PICK r \in Int : r = z % s /\ 0 <= r /\ r < s
    OBVIOUS
  <2>4. z = s * q + r
    BY <2>2, <2>3
  <2>5. g[x] = q
    BY <2>1, <2>2
  <2>6. Whole => r = 0
    BY <2>1, <2>3
  <2>7. g[x] \in Int /\ s * g[x] <= z /\ z <= s * g[x] + s
    BY <2>3, <2>4, <2>5
  <2>8. r = 0 => s * g[x] = z
    BY <2>4, <2>5
  <2> QED
    BY <2>1, <2>6, <2>7, <2>8
<1> HIDE DEF Whole
<1>1. {} \in Q
  <2>1. SetSum(f, {}) = 0 /\ SetSum(g, {}) = 0 /\ Cardinality({}) = 0
    BY SumOfNone, FS_EmptySet
  <2>2. Fits({})
    BY <2>1
  <2> QED
    BY <2>2
<1>2. ASSUME NEW T \in SUBSET A, T # {}, \A x \in T : T \ {x} \in Q PROVE T \in Q
  <2>1. PICK x \in T : TRUE
    BY <1>2
  <2>2. IsFiniteSet(T) /\ \A y \in T : f[y] \in Int /\ g[y] \in Int
    BY <1>0, FS_Subset
  <2>3. PICK G \in Int : SetSum(g, T) = g[x] + G /\ G = SetSum(g, T \ {x})
    BY <2>2, SumOfOneMore
  <2>4. PICK F \in Int : SetSum(f, T) = f[x] + F /\ F = SetSum(f, T \ {x})
    BY <2>2, SumOfOneMore
  <2>5. PICK n \in Nat : Cardinality(T) = n + 1 /\ n = Cardinality(T \ {x})
    <3>1. Cardinality(T \ {x}) \in Nat /\ Cardinality(T) \in Nat
      BY <2>2, FS_RemoveElement, FS_CardinalityType
    <3>2. Cardinality(T \ {x}) = Cardinality(T) - 1
      BY <2>2, FS_RemoveElement
    <3> QED
      BY <3>1, <3>2
  <2>6. PICK a \in Int, b \in Int : a = f[x] /\ b = g[x]
    BY <2>2
  <2>7. s * b <= t * a /\ t * a <= s * b + s /\ (Whole => s * b = t * a)
    BY <1>0, <2>6
  <2>8. s * G <= t * F /\ t * F <= s * (G + n) /\ (Whole => s * G = t * F)
    BY <1>2, <2>1, <2>3, <2>4, <2>5
  <2>9. /\ s * (b + G) = s * b + s * G /\ t * (a + F) = t * a + t * F
        /\ s * (b + G + (n + 1)) = s * b + s + s * (G + n)
    BY ONLY <2>6, s \in Nat, t \in Int, G \in Int, F \in Int, n \in Nat
  <2>10. /\ s * b \in Int /\ s * G \in Int /\ t * a \in Int /\ t * F \in Int /\ s * (G + n) \in Int
    OBVIOUS
  <2>11. /\ s * (b + G) <= t * (a + F) /\ t * (a + F) <= s * (b + G + (n + 1))
         /\ (Whole => s * (b + G) = t * (a + F))
    BY <2>7, <2>8, <2>9, <2>10
  <2>12. Fits(T)
    BY <2>3, <2>4, <2>5, <2>6, <2>11
  <2> QED
    BY <2>12
<1> HIDE DEF Q
<1>3. A \in Q
  BY <1>1, <1>2, RemovalInduct
<1>4. SetSum(g, A) \in Int
  BY <1>0, SumInt
<1> QED
  BY <1>3, <1>4 DEF Q, Whole

\* So what is shared by the sum of the shares comes together again.
LEMMA SharedAgain ==
  ASSUME NEW A, IsFiniteSet(A), NEW f, \A x \in A : f[x] \in Int, NEW t \in Int,
         SetSum(f, A) \in Nat \ {0}, NEW g, \A x \in A : g[x] = (f[x] * t) \div SetSum(f, A)
  PROVE  /\ SetSum(g, A) \in Int /\ Cardinality(A) \in Nat
         /\ t - SetSum(g, A) \in 0 .. Cardinality(A)
         /\ (\A x \in A : (f[x] * t) % SetSum(f, A) = 0) => SetSum(g, A) = t
<1>1. PICK s \in Nat \ {0} : s = SetSum(f, A)
  OBVIOUS
<1>2. /\ SetSum(g, A) \in Int /\ s * SetSum(g, A) <= t * s
      /\ t * s <= s * (SetSum(g, A) + Cardinality(A))
      /\ (\A x \in A : (f[x] * t) % s = 0) => s * SetSum(g, A) = t * s
  BY <1>1, SharesSum
<1>3. PICK n \in Nat : n = Cardinality(A)
  BY FS_CardinalityType
<1>4. PICK y \in Int : y = SetSum(g, A)
  BY <1>2
<1>5. s * y <= t * s => y <= t
  <2>1. PICK d \in Int : d = t - y
    OBVIOUS
  <2>2. d < 0 => s * d < 0
    OBVIOUS
  <2>3. s * d = t * s - s * y
    BY <2>1
  <2> QED
    BY <2>1, <2>2, <2>3
<1>6. t * s <= s * (y + n) => t <= y + n
  <2>1. PICK d \in Int : d = y + n - t
    OBVIOUS
  <2>2. d < 0 => s * d < 0
    OBVIOUS
  <2>3. s * d = s * (y + n) - t * s
    BY <2>1
  <2> QED
    BY <2>1, <2>2, <2>3
<1>7. s * y = t * s => y = t
  <2>1. PICK d \in Int : d = y - t
    OBVIOUS
  <2>2. d # 0 => s * d # 0
    OBVIOUS
  <2>3. s * d = s * y - t * s
    BY <2>1
  <2> QED
    BY <2>1, <2>2, <2>3
<1>8. t - y \in 0 .. n
  BY <1>2, <1>3, <1>4, <1>5, <1>6
<1> QED
  BY <1>1, <1>2, <1>3, <1>4, <1>7, <1>8

-----------------------------------------------------------------------------
\* What the energies are made of: kinetic energies, responses of one point or of
\* points in their order, and draws of shares of the layers there are.
Points(r) ==
  IF r.kind \in {"linear", "histogram"} THEN Len(r.points) > 0
  ELSE /\ Len(r.points) > 1
       /\ \A i \in 1 .. Len(r.points) - 1 : X(r.points, i) < X(r.points, i + 1)
EnergiesAreNumbers ==
  /\ IsFiniteSet(Layers) /\ IsFiniteSet(DOMAIN CellLayer)
  /\ \A r \in DOMAIN Responses : Responses[r].points \in Seq(Int \X Int) /\ Points(Responses[r])
  /\ \A t \in DOMAIN Draws : \A bin \in DOMAIN Draws[t] : \A draw \in Draws[t][bin] :
       /\ draw.total \in Int /\ Relevant(draw) \subseteq Layers
       /\ \A l \in Relevant(draw) : draw.share[l] \in Int
       /\ SumOfShares(draw) \in Nat \ {0}
  /\ \A p \in DOMAIN Particles :
       /\ Particles[p].ekin \in Int /\ LogEkin(Particles[p].ekin) \in Int
       /\ \A i \in 1 .. Len(Particles[p].program) :
            /\ Particles[p].program[i].kind = "interpolate" =>
                 Particles[p].program[i].response \in DOMAIN Responses
            /\ Particles[p].program[i].kind = "pca" => Particles[p].program[i].pca \in DOMAIN Draws

\* The last member of a part of the first n numbers.
LEMMA MaxIn ==
  ASSUME NEW n \in Nat, NEW T, T \subseteq 1 .. n, T # {}
  PROVE  Max(T) \in T
<1> DEFINE M == {n - i : i \in T}
<1>1. M \subseteq Nat /\ M # {}
  <2>1. \A i \in T : n - i \in Nat
    OBVIOUS
  <2>2. M \subseteq Nat
    BY <2>1
  <2>3. M # {}
    OBVIOUS
  <2> QED
    BY <2>2, <2>3
<1> HIDE DEF M
<1>2. PICK m \in M : \A k \in M : m <= k
  BY <1>1, Least
<1>3. PICK i \in T : m = n - i
  BY <1>2 DEF M
<1>4. \A j \in T : i >= j
  <2> SUFFICES ASSUME NEW j \in T PROVE i >= j
    OBVIOUS
  <2>1. n - j \in M
    BY DEF M
  <2>2. n - i <= n - j /\ i \in Int /\ j \in Int
    BY <1>2, <1>3, <2>1
  <2> QED
    BY <2>2
<1>5. \E x \in T : \A y \in T : x >= y
  BY <1>4
<1> QED
  BY <1>5 DEF Max

\* An interpolation of whole numbers is a whole number.
LEMMA SegmentIn ==
  ASSUME NEW points, Len(points) \in Nat, Len(points) > 1, NEW x
  PROVE  Segment(points, x) \in 1 .. Len(points) - 1
<1> DEFINE T == {i \in 1 .. Len(points) - 1 : i = 1 \/ X(points, i) <= x}
<1>1. 1 \in T /\ T \subseteq 1 .. Len(points) - 1 /\ Len(points) - 1 \in Nat
  OBVIOUS
<1> HIDE DEF T
<1>2. Max(T) \in T
  BY <1>1, MaxIn
<1> QED
  BY <1>1, <1>2 DEF Segment, T

LEMMA InterpolatedType ==
  ASSUME EnergiesAreNumbers, NEW r \in DOMAIN Responses, NEW p \in DOMAIN Particles, etot \in Int
  PROVE  Interpolated(Responses[r], Particles[p].ekin) \in Int
<1> DEFINE R == Responses[r]
           points == R.points
           n == Len(points)
           ekin == Particles[p].ekin
           e0 == IF R.scale THEN etot ELSE ekin
<1>1. points \in Seq(Int \X Int) /\ Points(R) /\ ekin \in Int /\ LogEkin(ekin) \in Int
  BY DEF EnergiesAreNumbers
<1>2. n \in Nat /\ \A i \in 1 .. n : X(points, i) \in Int /\ Y(points, i) \in Int
  <2>1. n \in Nat /\ \A i \in 1 .. n : points[i] \in Int \X Int
    BY <1>1
  <2> QED
    BY <2>1 DEF X, Y
<1>3. e0 \in Int
  BY <1>1
<1> HIDE DEF R, points, ekin, n, e0
<1>4. CASE R.kind = "linear"
  <2>1. points[1][1] \in Int /\ points[1][2] \in Int
    <3>1. 1 \in 1 .. n
      BY <1>1, <1>2, <1>4 DEF Points, points, n
    <3> QED
      BY <1>2, <3>1 DEF X, Y
  <2>2. Interpolated(R, ekin) = points[1][1] * ekin + points[1][2]
    BY <1>4 DEF Interpolated, points
  <2>3. Interpolated(R, ekin) \in Int
    BY <1>1, <2>1, <2>2
  <2> QED
    BY <2>3 DEF R, ekin
<1>5. CASE R.kind # "linear"
  <2>1. Response(R, ekin, e0) \in Int
    <3>1. CASE R.kind = "histogram"
      <4> DEFINE T == {i \in 1 .. n : i = 1 \/ X(points, i) <= e0}
      <4>1. n > 0
        BY <1>1, <3>1 DEF Points, points, n
      <4>2. 1 \in T /\ T \subseteq 1 .. n
        BY <1>2, <4>1
      <4> HIDE DEF T
      <4>3. Max(T) \in T
        BY <1>2, <4>2, MaxIn
      <4>4. InBin(points, e0) \in Int
        BY <1>2, <4>2, <4>3 DEF InBin, T, n
      <4> QED
        BY <3>1, <4>4 DEF Response, points
    <3>2. CASE R.kind # "histogram"
      <4>1. n > 1 /\ \A i \in 1 .. n - 1 : X(points, i) < X(points, i + 1)
        BY <1>1, <1>5, <3>2 DEF Points, points, n
      <4>2. PICK x \in Int : x = LogEkin(ekin)
        BY <1>1
      <4>4. CASE ~(x < X(points, 1))
        <5>1. PICK i \in 1 .. n - 1 : i = Segment(points, x)
          BY <1>2, <4>1, SegmentIn DEF n
        <5>2. i \in 1 .. n /\ i + 1 \in 1 .. n
          BY <1>2
        <5>3. PICK d \in Nat \ {0} : d = X(points, i + 1) - X(points, i)
          BY <1>2, <4>1, <5>2
        <5>4. PICK z \in Int : z = (Y(points, i + 1) - Y(points, i)) * (x - X(points, i))
          BY <1>2, <5>2
        <5>5. OnSegment(points, i, x) = Y(points, i) + z \div d
          BY <5>3, <5>4 DEF OnSegment
        <5>6. OnSegment(points, i, x) \in Int
          BY <1>2, <5>2, <5>5
        <5>7. Extrapolated(points, x) = OnSegment(points, i, x)
          BY <4>4, <5>1 DEF Extrapolated
        <5>8. Response(R, ekin, e0) = Extrapolated(points, x)
          BY <3>2, <4>2 DEF Response, points
        <5> QED
          BY <5>6, <5>7, <5>8
      <4>5. Response(R, ekin, e0) \in Int
        <5>1. Response(R, ekin, e0) = Extrapolated(points, x)
          BY <3>2, <4>2 DEF Response, points
        <5>2. x < X(points, 1) => Extrapolated(points, x) \in Int
          <6>1. x < X(points, 1) => Extrapolated(points, x) = Y(points, 1)
            BY DEF Extrapolated
          <6>2. Y(points, 1) \in Int
            BY <1>2, <4>1
          <6> QED
            BY <6>1, <6>2
        <5> QED
          BY <4>4, <5>1, <5>2
      <4> QED
        BY <4>5
    <3> QED
      BY <3>1, <3>2
  <2>2. Interpolated(R, ekin) = Response(R, ekin, e0) * e0
    BY <1>5 DEF Interpolated, e0
  <2>3. Interpolated(R, ekin) \in Int
    BY <1>3, <2>1, <2>2
  <2> QED
    BY <2>3 DEF R, ekin
<1> QED
  BY <1>4, <1>5 DEF R

-----------------------------------------------------------------------------
\* A program starts from the kinetic energy, scales it once at most, and then draws.
EnergyFirst(program) ==
  \A i \in 1 .. Len(program) :
    /\ program[i].kind = "pca" => Earlier(program, i, "init")
    /\ program[i].kind \in {"init", "interpolate"} => ~Earlier(program, i, "pca")
    /\ program[i].kind = "interpolate" =>
         Earlier(program, i, "init") /\ ~Earlier(program, i, "interpolate")

EnergyPrograms ==
  EnergiesAreNumbers /\ \A p \in DOMAIN Particles : EnergyFirst(Particles[p].program)

\* What the layers share is the energy, but for less than a unit per layer.
SharedOut == etot - SetSum(e, Layers) \in 0 .. Cardinality(Layers)
AllShared == etot = SetSum(e, Layers)

KInv ==
  /\ Standing /\ etot \in Int
  /\ Passed("init") => etot = expected
  /\ Passed("init") /\ ~Passed("interpolate") /\ ~Passed("pca") =>
       etot = Particles[particle].ekin
  /\ Passed("pca") => Passed("init") /\ SharedOut
  /\ \A l \in DOMAIN e : e[l] \in Int

\* A draw that is accepted is shared between the layers.
LEMMA ShareSums ==
  ASSUME EnergyPrograms, NEW pca, NEW bin, HasTables(pca), bin = ebin, bin # 0,
         NEW draw \in Draws[pca][bin], pca \in DOMAIN Draws, etot \in Int, ShareEnergy(draw)
  PROVE  /\ etot' = (draw.total * etot) \div Norm /\ etot' \in Int
         /\ DOMAIN e' = Layers /\ \A l \in Layers : e'[l] \in Int
         /\ SharedOut'
         /\ (\A l \in Relevant(draw) : (draw.share[l] * etot') % SumOfShares(draw) = 0) => AllShared'
<1>1. /\ bin \in DOMAIN Draws[pca] /\ draw.total \in Int /\ Relevant(draw) \subseteq Layers
      /\ \A l \in Relevant(draw) : draw.share[l] \in Int
      /\ SumOfShares(draw) \in Nat \ {0}
  <2>1. bin \in DOMAIN Draws[pca]
    BY DEF HasTables
  <2> QED
    BY <2>1 DEF EnergyPrograms, EnergiesAreNumbers
<1>2. IsFiniteSet(Layers)
  BY DEF EnergyPrograms, EnergiesAreNumbers
<1>3. PICK s \in Nat \ {0} : s = SumOfShares(draw)
  BY <1>1
<1>4. PICK f : f = [l \in Layers |-> ShareOf(draw, l)]
  OBVIOUS
<1>5. \A l \in Layers : f[l] \in Int /\ (l \notin Relevant(draw) => f[l] = 0)
                        /\ (l \in Relevant(draw) => f[l] = draw.share[l])
  BY <1>1, <1>4 DEF ShareOf
<1>6. SetSum(f, Layers) = s
  <2>1. SetSum(f, Layers) = SetSum(f, Relevant(draw))
    BY <1>1, <1>2, <1>5, SumOfFewer
  <2>2. SetSum(f, Relevant(draw)) = SetSum(draw.share, Relevant(draw))
    <3>1. IsFiniteSet(Relevant(draw)) /\ \A l \in Relevant(draw) : f[l] = draw.share[l]
      BY <1>1, <1>2, <1>5, FS_Subset
    <3> QED
      BY <3>1, SumOfSame
  <2>3. SumOfShares(draw) = SetSum(draw.share, Relevant(draw))
    BY DEF SumOfShares, MapThenSumSet, MapThenFoldSet, SetSum
  <2> QED
    BY <1>3, <2>1, <2>2, <2>3
<1>7. PICK t \in Int : t = (draw.total * etot) \div Norm
  <2>1. draw.total * etot \in Int
    BY <1>1
  <2> QED
    BY <2>1, EnergyAssumption
<1>8. etot' = t /\ e' = [l \in Layers |-> (ShareOf(draw, l) * t) \div s]
  BY <1>3, <1>7 DEF ShareEnergy
<1>9. \A l \in Layers : e'[l] = (f[l] * t) \div s
  BY <1>4, <1>8
<1>10. \A l \in Layers : e'[l] \in Int
  <2> SUFFICES ASSUME NEW l \in Layers PROVE e'[l] \in Int
    OBVIOUS
  <2>1. PICK z \in Int : z = f[l] * t
    BY <1>5
  <2> QED
    BY <1>9, <2>1
<1>11. PICK g : g = e'
  OBVIOUS
<1>12. /\ SetSum(g, Layers) \in Int /\ Cardinality(Layers) \in Nat
       /\ t - SetSum(g, Layers) \in 0 .. Cardinality(Layers)
       /\ (\A l \in Layers : (f[l] * t) % s = 0) => SetSum(g, Layers) = t
  BY <1>2, <1>5, <1>6, <1>9, <1>11, SharedAgain
<1>13. SharedOut'
  BY <1>8, <1>11, <1>12 DEF SharedOut
<1>14. ASSUME \A l \in Relevant(draw) : (draw.share[l] * etot') % SumOfShares(draw) = 0
       PROVE  AllShared'
  <2>1. ASSUME NEW l \in Layers PROVE (f[l] * t) % s = 0
    <3>1. CASE l \in Relevant(draw)
      BY <1>3, <1>5, <1>8, <1>14, <3>1
    <3>2. CASE l \notin Relevant(draw)
      <4>1. f[l] * t = 0
        BY <1>5, <3>2
      <4> QED
        BY <4>1
    <3> QED
      BY <3>1, <3>2
  <2> QED
    BY <1>8, <1>11, <1>12, <2>1 DEF AllShared
<1> QED
  BY <1>7, <1>8, <1>10, <1>13, <1>14

\* So is nothing.
LEMMA NothingSums ==
  ASSUME EnergyPrograms, NoEnergy
  PROVE  /\ etot' = 0 /\ DOMAIN e' = Layers /\ \A l \in Layers : e'[l] \in Int
         /\ SharedOut' /\ AllShared'
<1>1. IsFiniteSet(Layers) /\ Cardinality(Layers) \in Nat
  BY FS_CardinalityType DEF EnergyPrograms, EnergiesAreNumbers
<1>2. PICK g : g = e' /\ g = [l \in Layers |-> 0]
  BY DEF NoEnergy
<1>3. SetSum(g, Layers) = SetSum(g, {})
  BY <1>1, <1>2, SumOfFewer
<1>4. SetSum(g, Layers) = 0 /\ etot' = 0
  BY <1>3, SumOfNone DEF NoEnergy
<1> QED
  BY <1>1, <1>2, <1>4 DEF SharedOut, AllShared

\* What the other elements do to the energies: nothing.
Keeps == UNCHANGED <<etot, e, expected>>
Turned == pc <= Len(Program) /\ Advanced /\ Keeps /\ ~Here("init") /\ ~Here("interpolate") /\ ~Here("pca")
Waited == Stays /\ Keeps
LEMMA EnergyKinds ==
  ASSUME Next
  PROVE  \/ Turned \/ Waited \/ StartWithEkin \/ InterpolateEnergy
         \/ DrawEnergy \/ \E p \in DOMAIN Particles : NewState(p) \/ SameState(p)
<1> USE DEF Turned, Waited, Keeps, Runs, Now, Program, Here, Advance, Advanced, Stays, Fail, stateVars,
            UnchangedEnergy
<1>1. CASE ChooseEnergyBin
  BY <1>1 DEF ChooseEnergyBin, ChooseBin
<1>2. CASE NoTables
  BY <1>2 DEF NoTables
<1>3. CASE PredictExtrapWeights
  BY <1>3 DEF PredictExtrapWeights
<1>4. CASE VoxelFluctuations
  BY <1>4 DEF VoxelFluctuations
<1>5. CASE PlaceHit
  BY <1>5 DEF PlaceHit
<1>6. CASE LayerDone
  BY <1>6 DEF LayerDone
<1>7. CASE NoLayerEnergy
  BY <1>7 DEF NoLayerEnergy
<1>8. CASE RenormalizeCells
  BY <1>8 DEF RenormalizeCells
<1>9. CASE Finish
  BY <1>9 DEF Finish
<1> QED
  BY <1>1, <1>2, <1>3, <1>4, <1>5, <1>6, <1>7, <1>8, <1>9 DEF Next

\* The draws the shower is about to be given share energies in whole units.
SharesAreWhole ==
  Runs("pca") /\ ebin \in DOMAIN Draws[Now.pca] =>
    \A draw \in Draws[Now.pca][ebin] : \A l \in Relevant(draw) :
      (draw.share[l] * ((draw.total * etot) \div Norm)) % SumOfShares(draw) = 0
AllOrNone == Passed("pca") => AllShared

\* Where an element stands in a program of this kind.
LEMMA Places ==
  ASSUME EnergyPrograms, Standing, pc <= Len(Program)
  PROVE  /\ Here("pca") => Passed("init") /\ Program[pc].pca \in DOMAIN Draws
         /\ Here("init") \/ Here("interpolate") => ~Passed("pca")
         /\ Here("interpolate") => /\ Passed("init") /\ ~Passed("interpolate")
                                   /\ Program[pc].response \in DOMAIN Responses
<1>1. pc \in 1 .. Len(Program) /\ Len(Program) \in Nat /\ particle \in DOMAIN Particles
  BY Programs DEF Standing
<1>2. EnergyFirst(Program)
  BY <1>1 DEF EnergyPrograms, Program
<1>3. \A kind : Passed(kind) => Earlier(Program, pc, kind)
  BY DEF Passed, Earlier
<1>4. \A kind : Earlier(Program, pc, kind) => Passed(kind)
  BY EarlierPassed
<1>5. /\ Here("interpolate") => Program[pc].response \in DOMAIN Responses
      /\ Here("pca") => Program[pc].pca \in DOMAIN Draws
  BY <1>1 DEF EnergyPrograms, EnergiesAreNumbers, Program, Here
<1> QED
  BY <1>1, <1>2, <1>3, <1>4, <1>5 DEF EnergyFirst, Here

LEMMA KeepsStep ==
  ASSUME KInv, Turned \/ Waited
  PROVE  KInv' /\ (AllOrNone => AllOrNone')
<1>1. Standing'
  BY Programs DEF KInv, Standing, Turned, Waited, Advanced, Stays, Program
<1>2. /\ Passed("init")' <=> Passed("init")
      /\ Passed("interpolate")' <=> Passed("interpolate")
      /\ Passed("pca")' <=> Passed("pca")
  BY PassedNext, PassedSame DEF KInv, Turned, Waited
<1>3. UNCHANGED <<etot, e, expected, particle>>
  BY DEF Turned, Waited, Keeps, Advanced, Stays
<1>4. SharedOut' <=> SharedOut
  BY <1>3 DEF SharedOut
<1>5. AllShared' <=> AllShared
  BY <1>3 DEF AllShared
<1> QED
  BY <1>1, <1>2, <1>3, <1>4, <1>5 DEF KInv, AllOrNone

LEMMA StartStep ==
  ASSUME EnergyPrograms, KInv, StartWithEkin
  PROVE  KInv' /\ AllOrNone'
<1>1. /\ Here("init") /\ Advanced /\ pc <= Len(Program)
      /\ etot' = Particles[particle].ekin /\ expected' = etot' /\ e' = e
  BY DEF StartWithEkin, InitWithEkin, Runs, Now, Here, Program, Advance, Advanced
<1>2. Standing'
  BY <1>1, Programs DEF KInv, Standing, Advanced, Program
<1>3. Passed("pca")' <=> Passed("pca")
  BY <1>1, PassedNext DEF KInv, Here
<1>4. ~Passed("pca")
  BY <1>1, Places DEF KInv
<1>5. particle' = particle /\ etot' \in Int
  BY <1>1 DEF Advanced, EnergyPrograms, EnergiesAreNumbers, KInv, Standing
<1> QED
  BY <1>1, <1>2, <1>3, <1>4, <1>5 DEF KInv, AllOrNone

LEMMA InterpolateStep ==
  ASSUME EnergyPrograms, KInv, InterpolateEnergy
  PROVE  KInv' /\ AllOrNone'
<1> DEFINE r == Program[pc].response
           ekin == Particles[particle].ekin
<1>1. /\ Here("interpolate") /\ Advanced /\ pc <= Len(Program)
      /\ etot' = Interpolated(Responses[r], ekin) /\ e' = e
      /\ expected' = Interpolated([Responses[r] EXCEPT !.scale = FALSE], ekin)
  BY DEF InterpolateEnergy, Interpolate, Runs, Now, Here, Program, Advance, Advanced
<1>2. Standing'
  BY <1>1, Programs DEF KInv, Standing, Advanced, Program
<1>3. /\ Passed("pca")' <=> Passed("pca")
      /\ Passed("interpolate")'
  BY <1>1, PassedNext DEF KInv, Here
<1>4. ~Passed("pca") /\ Passed("init") /\ ~Passed("interpolate") /\ r \in DOMAIN Responses
  BY <1>1, Places DEF KInv
<1>5. etot = ekin
  BY <1>4 DEF KInv
<1>6. etot' = expected'
  BY <1>1, <1>5 DEF Interpolated, Response
<1>7. etot' \in Int
  BY <1>1, <1>4, InterpolatedType DEF KInv, Standing, EnergyPrograms
<1> QED
  BY <1>1, <1>2, <1>3, <1>4, <1>6, <1>7 DEF KInv, AllOrNone

LEMMA DrawStep ==
  ASSUME EnergyPrograms, KInv, DrawEnergy
  PROVE  KInv' /\ (AllOrNone /\ SharesAreWhole => AllOrNone')
<1>1. CASE Waited
  BY <1>1, KeepsStep
<1>2. ASSUME ~Waited
      PROVE  /\ Advanced
             /\ \/ NoEnergy /\ expected' = 0
                \/ ebin # 0 /\ \E draw \in Draws[Program[pc].pca][ebin] :
                     ShareEnergy(draw) /\ expected' = (draw.total * expected) \div Norm
  <2>1. UNCHANGED <<particle, pc, etot, e, expected>> => Waited
    BY DEF Waited, Stays, Keeps
  <2>2. /\ \A draw : RejectDraw(draw) => UNCHANGED <<etot, e>>
        /\ Fail("fatal") => UNCHANGED <<particle, pc, etot, e, expected>>
    BY DEF RejectDraw, Fail, stateVars
  <2>3. Advance => Advanced
    BY DEF Advance, Advanced
  <2>4. ebin > 0 => ebin # 0
    OBVIOUS
  <2> QED
    BY <1>2, <2>1, <2>2, <2>3, <2>4 DEF DrawEnergy, Now, Program
<1>3. ASSUME ~Waited PROVE KInv' /\ (AllOrNone /\ SharesAreWhole => AllOrNone')
  <2>1. Here("pca") /\ pc <= Len(Program) /\ HasTables(Program[pc].pca) /\ Runs("pca")
    BY DEF DrawEnergy, Runs, Now, Here, Program
  <2>2. Passed("init") /\ Program[pc].pca \in DOMAIN Draws
    BY <2>1, Places DEF KInv
  <2>3. Advanced
    BY <1>2, <1>3
  <2>4. Standing'
    BY <2>1, <2>3, Programs DEF KInv, Standing, Advanced, Program
  <2>5. (Passed("init")' <=> Passed("init")) /\ Passed("pca")'
    BY <2>1, <2>3, PassedNext DEF KInv, Here
  <2>6. CASE NoEnergy /\ expected' = 0
    BY <2>2, <2>4, <2>5, <2>6, NothingSums DEF KInv, AllOrNone
  <2>7. ASSUME ebin # 0, NEW draw \in Draws[Program[pc].pca][ebin], ShareEnergy(draw),
               expected' = (draw.total * expected) \div Norm
        PROVE  KInv' /\ (AllOrNone /\ SharesAreWhole => AllOrNone')
    <3>1. /\ etot' = (draw.total * etot) \div Norm /\ etot' \in Int
          /\ DOMAIN e' = Layers /\ \A l \in Layers : e'[l] \in Int
          /\ SharedOut'
          /\ (\A l \in Relevant(draw) : (draw.share[l] * etot') % SumOfShares(draw) = 0) => AllShared'
      BY <2>1, <2>2, <2>7, ShareSums DEF KInv
    <3>2. etot' = expected'
      BY <2>2, <2>7, <3>1 DEF KInv
    <3>3. SharesAreWhole => AllShared'
      <4> SUFFICES ASSUME SharesAreWhole
                   PROVE  \A l \in Relevant(draw) : (draw.share[l] * etot') % SumOfShares(draw) = 0
        BY <3>1
      <4>1. \A l \in Relevant(draw) :
              (draw.share[l] * ((draw.total * etot) \div Norm)) % SumOfShares(draw) = 0
        BY <2>1, <2>7 DEF SharesAreWhole, HasTables, Now, Program
      <4> QED
        BY <3>1, <4>1
    <3> QED
      BY <2>2, <2>4, <2>5, <3>1, <3>2, <3>3 DEF KInv, AllOrNone
  <2> QED
    BY <1>2, <1>3, <2>6, <2>7
<1> QED
  BY <1>1, <1>3

LEMMA BeginStep ==
  ASSUME EnergyPrograms, KInv, NEW p \in DOMAIN Particles, NewState(p) \/ SameState(p)
  PROVE  KInv' /\ AllOrNone'
<1>1. particle' = p /\ pc' = 1 /\ etot' = 0 /\ e' = Nothing
  BY DEF NewState, SameState, NextParticle, Clear
<1>2. Standing'
  BY <1>1, Programs, ProgramAssumption DEF Standing, Program
<1>3. ~Passed("init")' /\ ~Passed("pca")'
  BY <1>1 DEF Passed
<1>4. DOMAIN e' = {}
  BY <1>1 DEF Nothing
<1> QED
  BY <1>1, <1>2, <1>3, <1>4 DEF KInv, AllOrNone

LEMMA KInitially == Init => KInv /\ AllOrNone
<1> SUFFICES ASSUME Init PROVE KInv /\ AllOrNone
  OBVIOUS
<1>1. pc = 1 /\ particle \in DOMAIN Particles /\ etot = 0 /\ e = Nothing
  BY DEF Init, FreshState
<1>2. Standing
  BY <1>1, Programs DEF Standing
<1>3. ~Passed("init") /\ ~Passed("pca")
  BY <1>1, NotPassed
<1>4. DOMAIN e = {}
  BY <1>1 DEF Nothing
<1> QED
  BY <1>1, <1>2, <1>3, <1>4 DEF KInv, AllOrNone

LEMMA KPreserved ==
  ASSUME EnergyPrograms, KInv, [Next]_vars
  PROVE  KInv' /\ (AllOrNone /\ SharesAreWhole => AllOrNone')
<1>1. UNCHANGED vars => Waited
  BY DEF vars, stateVars, runVars, Waited, Stays, Keeps
<1> QED
  BY <1>1, EnergyKinds, KeepsStep, StartStep, InterpolateStep, DrawStep, BeginStep

\* Once the PCA has run, the energy of a shower is what its draws amount to, and its
\* layers share it but for less than the roundings, one each: whatever the shower
\* before has left in the state, and however often the PCA has rejected a draw.
THEOREM EnergyIsShared ==
  ASSUME EnergyPrograms
  PROVE  Spec => [](Passed("pca") => etot = expected /\ SharedOut)
<1>1. KInv => (Passed("pca") => etot = expected /\ SharedOut)
  BY DEF KInv
<1>2. KInv /\ [Next]_vars => KInv'
  BY KPreserved
<1>3. Init => KInv
  BY KInitially
<1> QED
  BY <1>1, <1>2, <1>3, PTL DEF Spec

\* Where nothing is rounded, as in floating point, they share all of it, and no
\* parametrization of a chain in order throws.
THEOREM OfItsEnergy ==
  ASSUME EnergyPrograms
  PROVE  Spec /\ []SharesAreWhole => []ShowerOfItsEnergy
<1>1. KInv /\ AllOrNone => EnergyOfThisShower
  <2>1. MapThenSumSet(LAMBDA l : e[l], Layers) = SetSum(e, Layers)
    BY DEF MapThenSumSet, MapThenFoldSet, SetSum
  <2> QED
    BY <2>1 DEF KInv, AllOrNone, AllShared, EnergyOfThisShower
<1>2. KInv /\ AllOrNone /\ SharesAreWhole /\ [Next]_vars => KInv' /\ AllOrNone'
  BY KPreserved
<1>3. Init => KInv /\ AllOrNone
  BY KInitially
<1>4. Spec => []NothingThrown
  BY NothingIsThrown
<1>5. NothingThrown /\ EnergyOfThisShower => ShowerOfItsEnergy
  BY DEF ShowerOfItsEnergy
<1> QED
  BY <1>1, <1>2, <1>3, <1>4, <1>5, PTL DEF Spec

-----------------------------------------------------------------------------
\* The cells of a layer, and a program that renormalizes them once, after its
\* hits, which come after the draws.
CellsOf(l) == {c \in DOMAIN CellLayer : CellLayer[c] = l}
CellsLast(program) ==
  \A i \in 1 .. Len(program) :
    /\ program[i].kind = "pca" => ~Earlier(program, i, "hits")
    /\ program[i].kind \in {"pca", "hits", "renorm"} => ~Earlier(program, i, "renorm")
CellPrograms == EnergyPrograms /\ \A p \in DOMAIN Particles : CellsLast(Particles[p].program)

\* A layer with energy has a cell with energy once its hits are done; in the end its
\* cells lack no more than a unit each.
HasDeposit(l) == \E c \in CellsOf(l) : cells[c] > 0
HitOrEmpty(l) == e[l] = 0 \/ HasDeposit(l)
CellsMatch(l) == e[l] - SetSum(cells, CellsOf(l)) \in 0 .. Cardinality(CellsOf(l))
CInv ==
  /\ KInv
  /\ tries \in Nat /\ cells \in [DOMAIN CellLayer -> Int]
  /\ ~Passed("renorm") => \A c \in DOMAIN CellLayer : cells[c] \in Nat
  /\ \A i \in 1 .. pc - 1 : Program[i].kind = "hits" /\ ~Passed("renorm") =>
                              HitOrEmpty(Program[i].layer)
  /\ Here("hits") /\ tries > 0 => HasDeposit(Program[pc].layer)
  /\ Passed("renorm") => \A l \in HitLayers : CellsMatch(l)

AllMatch == Passed("renorm") => \A l \in HitLayers : e[l] = SetSum(cells, CellsOf(l))

\* The scale factors of a layer leave whole units.
ScalesAreWhole ==
  Runs("renorm") =>
    \A c \in DOMAIN CellLayer :
      SumOfCells(CellLayer[c]) # 0 => (cells[c] * e[CellLayer[c]]) % SumOfCells(CellLayer[c]) = 0

\* Where hits and renormalization stand in such a program.
LEMMA CellPlaces ==
  ASSUME CellPrograms, Standing, pc <= Len(Program)
  PROVE  /\ Here("pca") \/ Here("hits") \/ Here("renorm") => ~Passed("renorm")
         /\ Here("pca") => \A i \in 1 .. pc - 1 : Program[i].kind # "hits"
         /\ Here("renorm") => \A l \in HitLayers :
              l \in Layers /\ \E i \in 1 .. pc - 1 : Program[i].kind = "hits" /\ Program[i].layer = l
<1>1. pc \in 1 .. Len(Program) /\ Len(Program) \in Nat /\ particle \in DOMAIN Particles
  BY Programs DEF Standing
<1>2. CellsLast(Program)
  BY <1>1 DEF CellPrograms, Program
<1>3. \A kind : Passed(kind) => Earlier(Program, pc, kind)
  BY DEF Passed, Earlier
<1>4. ASSUME Here("renorm"), NEW l \in HitLayers
      PROVE  l \in Layers /\ \E i \in 1 .. pc - 1 : Program[i].kind = "hits" /\ Program[i].layer = l
  <2>1. PICK i \in 1 .. Len(Program) : Program[i].kind = "hits" /\ Program[i].layer = l
    BY DEF HitLayers
  <2>2. l \in Layers
    BY <1>1, <2>1, Programs
  <2>3. ~(pc < i)
    <3> SUFFICES ASSUME pc < i PROVE FALSE
      OBVIOUS
    <3>1. pc \in 1 .. i - 1
      BY <1>1
    <3>2. Earlier(Program, i, "renorm")
      BY <1>4, <3>1 DEF Earlier, Here
    <3> QED
      BY <1>2, <2>1, <3>2 DEF CellsLast
  <2>4. i # pc
    BY <1>4, <2>1 DEF Here
  <2>5. i \in 1 .. pc - 1
    BY <1>1, <2>3, <2>4
  <2> QED
    BY <2>1, <2>2, <2>5
<1>5. Here("pca") => \A i \in 1 .. pc - 1 : Program[i].kind # "hits"
  BY <1>1, <1>2 DEF CellsLast, Here, Earlier
<1> QED
  BY <1>1, <1>2, <1>3, <1>4, <1>5 DEF CellsLast, Here

\* Steps that leave the cells, and the energies once hits are made.
SameCells ==
  /\ UNCHANGED cells
  /\ \/ Advanced /\ pc <= Len(Program) /\ tries' = 0
     \/ Stays /\ (tries' = tries \/ Here("pca")) /\ tries' \in Nat
  /\ ~Here("renorm") \/ Stays
  /\ Here("hits") /\ Advanced => e[Program[pc].layer] = 0 \/ tries > 0
  /\ (\E i \in 1 .. pc - 1 : Program[i].kind = "hits") \/ Passed("renorm") \/ Here("hits") => UNCHANGED e

LEMMA SameCellsStep ==
  ASSUME CellPrograms, CInv, KInv', SameCells
  PROVE  CInv' /\ (AllMatch => AllMatch')
<1>0. Standing /\ pc \in Nat \ {0} /\ Len(Program) \in Nat
  BY Programs DEF CInv, KInv, Standing
<1>1. Program' = Program /\ HitLayers' = HitLayers
  BY DEF SameCells, Advanced, Stays, Program, HitLayers
<1>2. Passed("renorm")' <=> Passed("renorm")
  BY <1>0, PassedNext, PassedSame DEF SameCells, Advanced, Stays
<1>3. \A l : HasDeposit(l)' <=> HasDeposit(l)
  BY DEF SameCells, HasDeposit, CellsOf
<1>4. tries' \in Nat
  BY DEF SameCells
<1>12. \A l : UNCHANGED e => (HitOrEmpty(l)' <=> HitOrEmpty(l))
  BY <1>3 DEF HitOrEmpty
<1>5. ASSUME NEW i \in 1 .. pc' - 1, Program[i].kind = "hits", ~Passed("renorm")
      PROVE  \A l : l = Program[i].layer => HitOrEmpty(l)'
  <2>1. CASE i \in 1 .. pc - 1
    <3>1. UNCHANGED e
      BY <1>5, <2>1 DEF SameCells
    <3>2. HitOrEmpty(Program[i].layer)
      BY <1>5, <2>1 DEF CInv
    <3> QED
      BY <1>12, <3>1, <3>2
  <2>2. CASE i \notin 1 .. pc - 1
    <3>1. i = pc /\ Advanced /\ pc <= Len(Program)
      BY <1>0, <1>5, <2>2 DEF SameCells, Advanced, Stays
    <3>2. Here("hits")
      BY <1>5, <3>1 DEF Here
    <3>3. e[Program[pc].layer] = 0 \/ HasDeposit(Program[pc].layer)
      BY <3>1, <3>2 DEF SameCells, CInv
    <3>4. UNCHANGED e
      BY <3>2 DEF SameCells
    <3>5. HitOrEmpty(Program[pc].layer)
      BY <3>3 DEF HitOrEmpty
    <3> QED
      BY <1>12, <3>1, <3>4, <3>5
  <2> QED
    BY <2>1, <2>2
<1>6. Here("hits")' /\ tries' > 0 => HasDeposit(Program[pc].layer)' /\ pc' = pc
  <2> SUFFICES ASSUME Here("hits")', tries' > 0 PROVE HasDeposit(Program[pc].layer)' /\ pc' = pc
    OBVIOUS
  <2>1. Stays /\ Here("hits") /\ pc' = pc
    BY <1>1 DEF SameCells, Stays, Here
  <2>2. tries' = tries
    BY <2>1 DEF SameCells, Here
  <2>3. HasDeposit(Program[pc].layer)
    BY <2>1, <2>2 DEF CInv
  <2>4. \A l : l = Program[pc].layer => HasDeposit(l)'
    BY <1>3, <2>3
  <2> QED
    BY <1>1, <2>1, <2>4
<1>7. Passed("renorm") => \A l : CellsMatch(l)' <=> CellsMatch(l)
  BY DEF SameCells, CellsMatch, CellsOf
<1>8. Passed("renorm") => UNCHANGED <<e, cells>>
  BY DEF SameCells
<1>9. UNCHANGED cells
  BY DEF SameCells
<1>10. CInv'
  BY <1>1, <1>2, <1>4, <1>5, <1>6, <1>7, <1>9 DEF CInv
<1>11. AllMatch => AllMatch'
  BY <1>1, <1>2, <1>8 DEF AllMatch, CellsOf
<1> QED
  BY <1>10, <1>11

\* A hit gives its layer energy.
LEMMA PlaceStep ==
  ASSUME CellPrograms, CInv, KInv', PlaceHit
  PROVE  CInv' /\ (AllMatch => AllMatch')
<1>1. CASE Fail("fatal")
  <2>1. SameCells
    <3>1. UNCHANGED <<particle, pc, tries, cells, e>>
      BY <1>1 DEF Fail, stateVars
    <3>2. ~Advanced /\ Stays /\ tries' \in Nat
      BY <3>1 DEF Advanced, Stays, CInv, KInv, Standing
    <3> QED
      BY <3>1, <3>2 DEF SameCells
  <2> QED
    BY <2>1, SameCellsStep
<1>2. ASSUME NEW l, l = Program[pc].layer, NEW c \in {x \in DOMAIN CellLayer : CellLayer[x] = l},
             NEW x \in 1 .. 2, cells' = Deposited(c, x), tries' = tries + 1, Here("hits"),
             UNCHANGED <<particle, pc, e>>, pc <= Len(Program)
      PROVE  CInv' /\ (AllMatch => AllMatch')
  <2>1. Stays /\ Program' = Program
    BY <1>2 DEF Stays, Program
  <2>2. ~Passed("renorm") /\ (Passed("renorm")' <=> Passed("renorm"))
    BY <1>2, <2>1, CellPlaces, PassedSame DEF CInv, KInv
  <2>3. c \in DOMAIN CellLayer /\ CellLayer[c] = l
    OBVIOUS
  <2>4. /\ cells' \in [DOMAIN CellLayer -> Int] /\ \A d \in DOMAIN CellLayer : cells'[d] \in Nat
        /\ \A d \in DOMAIN CellLayer : cells[d] <= cells'[d]
        /\ cells'[c] > 0
    BY <1>2, <2>2, <2>3 DEF CInv, Deposited
  <2>5. \A k : HasDeposit(k) => HasDeposit(k)'
    <3> SUFFICES ASSUME NEW k, NEW d \in CellsOf(k), cells[d] > 0 PROVE HasDeposit(k)'
      BY DEF HasDeposit
    <3>1. cells'[d] > 0
      BY <2>2, <2>4 DEF CellsOf, CInv
    <3> QED
      BY <3>1 DEF HasDeposit, CellsOf
  <2>6. HasDeposit(l)'
    BY <2>3, <2>4 DEF HasDeposit, CellsOf
  <2>7. \A k : HitOrEmpty(k) => HitOrEmpty(k)'
    BY <1>2, <2>5 DEF HitOrEmpty
  <2>8. tries' \in Nat
    BY <1>2 DEF CInv
  <2> QED
    BY <1>2, <2>1, <2>2, <2>4, <2>6, <2>7, <2>8 DEF CInv, AllMatch
<1> QED
  BY <1>1, <1>2 DEF PlaceHit, Runs, Now, Here, Program, UnchangedEnergy

\* The renormalization.
LEMMA RenormStep ==
  ASSUME CellPrograms, CInv, KInv', Renormalize, Here("renorm"), Advanced, UNCHANGED e, tries' = 0,
         \A l \in Layers : HasE(l), pc <= Len(Program)
  PROVE  CInv' /\ (Runs("renorm") /\ ScalesAreWhole => AllMatch')
<1>1. Program' = Program /\ HitLayers' = HitLayers
  BY DEF Advanced, Program, HitLayers
<1>2. ~Passed("renorm") /\ Passed("renorm")' /\ pc' = pc + 1
  BY CellPlaces, PassedNext DEF CInv, KInv, Advanced
<1>3. \A c \in DOMAIN CellLayer : cells[c] \in Nat
  BY <1>2 DEF CInv
<1>4. \A l : SumOfCells(l) = SetSum(cells, CellsOf(l))
  BY DEF MapThenSumSet, MapThenFoldSet, SetSum, SumOfCells, CellsOf
<1>5. \A l \in Layers : e[l] \in Int
  BY DEF CInv, KInv, HasE
<1>6. ASSUME NEW l \in Layers
      PROVE  /\ IsFiniteSet(CellsOf(l)) /\ SetSum(cells, CellsOf(l)) \in Nat
             /\ \A c \in CellsOf(l) : c \in DOMAIN CellLayer /\ CellLayer[c] = l
                                      /\ cells[c] <= SetSum(cells, CellsOf(l))
  <2>1. CellsOf(l) \subseteq DOMAIN CellLayer /\ \A c \in CellsOf(l) : CellLayer[c] = l
    BY DEF CellsOf
  <2>2. IsFiniteSet(CellsOf(l))
    BY <2>1, FS_Subset DEF CellPrograms, EnergyPrograms, EnergiesAreNumbers
  <2> QED
    BY <1>3, <2>1, <2>2, SumAtLeast
<1>7. \A c \in DOMAIN CellLayer : cells'[c] \in Int
  <2> SUFFICES ASSUME NEW c \in DOMAIN CellLayer PROVE cells'[c] \in Int
    OBVIOUS
  <2>1. PICK l \in Layers : l = CellLayer[c]
    BY LayerAssumption
  <2>2. PICK s \in Nat : s = SumOfCells(l)
    BY <1>4, <1>6
  <2>3. cells'[c] = IF s = 0 THEN cells[c] ELSE (cells[c] * e[l]) \div s
    BY <2>1, <2>2 DEF Renormalize, Scaled
  <2>4. PICK z \in Int : z = cells[c] * e[l]
    BY <1>3, <1>5
  <2>5. s # 0 => z \div s \in Int
    OBVIOUS
  <2> QED
    BY <1>3, <2>3, <2>4, <2>5
<1>8. ASSUME NEW l \in HitLayers
      PROVE  /\ CellsMatch(l)'
             /\ Runs("renorm") /\ ScalesAreWhole => e'[l] = SetSum(cells', CellsOf(l))
  <2>1. PICK i \in 1 .. pc - 1 : l \in Layers /\ Program[i].kind = "hits" /\ Program[i].layer = l
    BY CellPlaces DEF CInv, KInv
  <2>2. HitOrEmpty(l)
    BY <1>2, <2>1 DEF CInv
  <2>3. PICK A : A = CellsOf(l) /\ A = CellsOf(l)'
    BY DEF CellsOf
  <2>4. PICK s \in Nat : s = SetSum(cells, A)
    BY <1>6, <2>1, <2>3
  <2>5. PICK t \in Int : t = e[l] /\ t = e'[l]
    BY <1>5, <2>1
  <2>6. PICK g : g = cells'
    OBVIOUS
  <2>7. \A c \in A : g[c] = IF s = 0 THEN cells[c] ELSE (cells[c] * t) \div s
    BY <1>4, <1>6, <2>1, <2>3, <2>4, <2>5, <2>6 DEF Renormalize, Scaled
  <2>8. IsFiniteSet(A) /\ Cardinality(A) \in Nat
    BY <1>6, <2>1, <2>3, FS_CardinalityType
  <2>9. CASE s = 0
    <3>1. \A c \in A : g[c] = cells[c]
      BY <2>7, <2>9
    <3>2. SetSum(g, A) = SetSum(cells, A)
      BY <2>8, <3>1, SumOfSame
    <3>3. t = 0
      <4>1. ~HasDeposit(l)
        <5>1. \A c \in A : cells[c] <= 0 /\ cells[c] \in Nat
          BY <1>3, <1>6, <2>1, <2>3, <2>4, <2>9
        <5> QED
          BY <2>3, <5>1 DEF HasDeposit
      <4> QED
        BY <2>2, <2>5, <4>1 DEF HitOrEmpty
    <3>6. SetSum(g, A) = 0
      BY <2>4, <2>9, <3>2
    <3>7. 0 - 0 \in 0 .. Cardinality(A)
      BY <2>8
    <3>4. t - SetSum(g, A) \in 0 .. Cardinality(A) /\ t = SetSum(g, A)
      BY <3>3, <3>6, <3>7
    <3>5. CellsMatch(l)'
      BY <2>3, <2>5, <2>6, <3>4 DEF CellsMatch
    <3> QED
      BY <2>3, <2>5, <2>6, <3>4, <3>5
  <2>10. CASE s # 0
    <3>1. \A c \in A : cells[c] \in Int /\ g[c] = (cells[c] * t) \div s
      BY <1>3, <1>6, <2>1, <2>3, <2>7, <2>10
    <3>2. /\ SetSum(g, A) \in Int /\ t - SetSum(g, A) \in 0 .. Cardinality(A)
          /\ (\A c \in A : (cells[c] * t) % s = 0) => SetSum(g, A) = t
      BY <2>4, <2>8, <2>10, <3>1, SharedAgain
    <3>3. CellsMatch(l)'
      BY <2>3, <2>5, <2>6, <3>2 DEF CellsMatch
    <3>4. ASSUME Runs("renorm"), ScalesAreWhole PROVE e'[l] = SetSum(cells', CellsOf(l))
      <4>1. \A c \in A : (cells[c] * t) % s = 0
        BY <1>4, <1>6, <2>1, <2>3, <2>4, <2>5, <2>10, <3>4 DEF ScalesAreWhole
      <4> QED
        BY <2>3, <2>5, <2>6, <3>2, <4>1
    <3> QED
      BY <3>3, <3>4
  <2> QED
    BY <2>9, <2>10
<1>9. cells' \in [DOMAIN CellLayer -> Int]
  BY <1>7 DEF Renormalize
<1>10. CInv'
  BY <1>1, <1>2, <1>8, <1>9 DEF CInv
<1>11. Runs("renorm") /\ ScalesAreWhole => AllMatch'
  BY <1>1, <1>8 DEF AllMatch, CellsOf
<1> QED
  BY <1>10, <1>11

\* They are those of all elements but hits and renormalization.
LEMMA SameCellsSteps ==
  ASSUME CellPrograms, CInv, \/ StartWithEkin \/ InterpolateEnergy \/ ChooseEnergyBin \/ DrawEnergy
                             \/ NoTables \/ PredictExtrapWeights \/ VoxelFluctuations
                             \/ LayerDone \/ NoLayerEnergy \/ Finish
  PROVE  SameCells
<1>1. Standing /\ pc \in Nat \ {0} /\ Len(Program) \in Nat /\ tries \in Nat
  BY Programs DEF CInv, KInv, Standing
<1>2. \A s : Fail(s) => SameCells
  <2> SUFFICES ASSUME NEW s, Fail(s) PROVE SameCells
    OBVIOUS
  <2>1. UNCHANGED <<particle, pc, tries, cells, e>>
    BY DEF Fail, stateVars
  <2>2. ~Advanced /\ Stays /\ tries' \in Nat
    BY <1>1, <2>1 DEF Advanced, Stays
  <2> QED
    BY <2>1, <2>2 DEF SameCells
<1>3. ASSUME Advance, UNCHANGED <<cells, e>>, pc <= Len(Program), ~Here("renorm"), ~Here("hits")
      PROVE  SameCells
  BY <1>3 DEF Advance, Advanced, SameCells
<1> USE DEF Runs, Now, Program, Here
<1>4. CASE StartWithEkin
  BY <1>3, <1>4 DEF StartWithEkin, InitWithEkin
<1>5. CASE InterpolateEnergy
  BY <1>3, <1>5 DEF InterpolateEnergy, Interpolate
<1>6. CASE ChooseEnergyBin
  BY <1>2, <1>3, <1>6 DEF ChooseEnergyBin, ChooseBin
<1>7. CASE NoTables
  BY <1>2, <1>7 DEF NoTables
<1>8. CASE PredictExtrapWeights
  BY <1>2, <1>3, <1>8 DEF PredictExtrapWeights, UnchangedEnergy
<1>9. CASE VoxelFluctuations
  BY <1>2, <1>3, <1>9 DEF VoxelFluctuations, UnchangedEnergy
<1>10. CASE NoLayerEnergy
  BY <1>2, <1>10 DEF NoLayerEnergy
<1>11. CASE Finish
  <2>1. UNCHANGED <<particle, pc, tries, cells, e>>
    BY <1>11 DEF Finish, stateVars
  <2>2. ~Advanced /\ Stays /\ tries' \in Nat
    BY <1>1, <2>1 DEF Advanced, Stays
  <2> QED
    BY <2>1, <2>2 DEF SameCells
<1>12. CASE LayerDone
  BY <1>12 DEF LayerDone, UnchangedEnergy, Advance, Advanced, SameCells
<1>13. CASE DrawEnergy
  <2>1. /\ pc <= Len(Program) /\ Here("pca") /\ UNCHANGED cells
        /\ \/ Advance
           \/ tries' = tries + 1 /\ UNCHANGED <<particle, pc>>
           \/ Fail("fatal")
    BY <1>13 DEF DrawEnergy, Fail, stateVars
  <2>2. ~Here("hits") /\ ~Here("renorm")
    BY <2>1
  <2>3. ~Passed("renorm") /\ \A i \in 1 .. pc - 1 : Program[i].kind # "hits"
    BY <1>1, <2>1, CellPlaces
  <2>4. ~\E i \in 1 .. pc - 1 : Program[i].kind = "hits"
    BY <2>3
  <2>5. CASE Advance
    <3>1. Advanced /\ tries' = 0
      BY <2>5 DEF Advance, Advanced
    <3> QED
      BY <2>1, <2>2, <2>3, <2>4, <3>1 DEF SameCells
  <2>6. CASE tries' = tries + 1 /\ UNCHANGED <<particle, pc>>
    <3>1. Stays /\ tries' \in Nat
      BY <1>1, <2>6 DEF Stays
    <3> QED
      BY <2>1, <2>2, <2>3, <2>4, <3>1 DEF SameCells
  <2> QED
    BY <1>2, <2>1, <2>5, <2>6
<1> QED
  BY <1>4, <1>5, <1>6, <1>7, <1>8, <1>9, <1>10, <1>11, <1>12, <1>13

LEMMA CellsBegin ==
  ASSUME CellPrograms, KInv', NEW p \in DOMAIN Particles, NewState(p) \/ SameState(p)
  PROVE  CInv' /\ AllMatch'
<1>1. pc' = 1 /\ tries' = 0 /\ cells' = [c \in DOMAIN CellLayer |-> 0]
  BY DEF NewState, SameState, NextParticle
<1>2. ~Passed("renorm")'
  BY <1>1 DEF Passed
<1>3. 1 .. pc' - 1 = {}
  BY <1>1
<1> QED
  BY <1>1, <1>2, <1>3 DEF CInv, AllMatch

LEMMA CellsInitially == CellPrograms /\ Init => CInv /\ AllMatch
<1> SUFFICES ASSUME CellPrograms, Init PROVE CInv /\ AllMatch
  OBVIOUS
<1>1. pc = 1 /\ tries = 0 /\ cells = [c \in DOMAIN CellLayer |-> 0]
  BY DEF Init, FreshState
<1>2. ~Passed("renorm") /\ 1 .. pc - 1 = {}
  BY <1>1, NotPassed
<1> QED
  BY <1>1, <1>2, KInitially DEF CInv, AllMatch

LEMMA CellsPreserved ==
  ASSUME CellPrograms, CInv, [Next]_vars
  PROVE  CInv' /\ (AllMatch /\ ScalesAreWhole => AllMatch')
<1>1. KInv'
  BY KPreserved DEF CInv, CellPrograms
<1>2. ASSUME UNCHANGED vars PROVE SameCells
  <2>1. UNCHANGED <<particle, pc, tries, cells, e>>
    BY <1>2 DEF vars, runVars, stateVars
  <2>2. ~Advanced /\ Stays /\ tries' \in Nat
    BY <2>1 DEF Advanced, Stays, CInv, KInv, Standing
  <2> QED
    BY <2>1, <2>2 DEF SameCells
<1>3. ASSUME RenormalizeCells PROVE CInv' /\ (AllMatch /\ ScalesAreWhole => AllMatch')
  <2>1. CASE Fail("thrown")
    <3>1. UNCHANGED <<particle, pc, tries, cells, e>>
      BY <2>1 DEF Fail, stateVars
    <3>2. ~Advanced /\ Stays /\ tries' \in Nat
      BY <3>1 DEF Advanced, Stays, CInv, KInv, Standing
    <3>3. SameCells
      BY <3>1, <3>2 DEF SameCells
    <3> QED
      BY <1>1, <3>3, SameCellsStep
  <2>2. CASE ~Fail("thrown")
    <3>1. /\ Renormalize /\ Here("renorm") /\ Advanced /\ UNCHANGED e /\ tries' = 0
          /\ (\A l \in Layers : HasE(l)) /\ pc <= Len(Program) /\ Runs("renorm")
      BY <1>3, <2>2 DEF RenormalizeCells, Runs, Now, Program, Here, Advance, Advanced, UnchangedEnergy
    <3> QED
      BY <1>1, <3>1, RenormStep
  <2> QED
    BY <2>1, <2>2
<1>4. ASSUME SameCells PROVE CInv' /\ (AllMatch => AllMatch')
  BY <1>1, <1>4, SameCellsStep
<1> QED
  BY <1>1, <1>2, <1>3, <1>4, SameCellsSteps, PlaceStep, CellsBegin DEF Next

\* After the renormalization the cells of every layer that was simulated have the
\* energy of the layer, but for a unit each: a layer with energy has had a hit, so
\* there is something to scale.
THEOREM CellsAreScaled ==
  ASSUME CellPrograms
  PROVE  Spec => [](Passed("renorm") => \A l \in HitLayers : CellsMatch(l))
<1>1. CInv => (Passed("renorm") => \A l \in HitLayers : CellsMatch(l))
  BY DEF CInv
<1>2. CInv /\ [Next]_vars => CInv'
  BY CellsPreserved
<1>3. Init => CInv
  BY CellsInitially
<1> QED
  BY <1>1, <1>2, <1>3, PTL DEF Spec

\* Where nothing is rounded they add up to it, however the hits have missed.
THEOREM CellsOfTheirLayers ==
  ASSUME CellPrograms
  PROVE  Spec /\ []ScalesAreWhole => []CellsMatchLayers
<1>1. CInv /\ AllMatch => CellsMatchLayers
  <2>1. \A l : SumOfCells(l) = SetSum(cells, CellsOf(l))
    BY DEF MapThenSumSet, MapThenFoldSet, SetSum, SumOfCells, CellsOf
  <2> QED
    BY <2>1 DEF AllMatch, CellsMatchLayers
<1>2. CInv /\ AllMatch /\ ScalesAreWhole /\ [Next]_vars => CInv' /\ AllMatch'
  BY CellsPreserved
<1>3. Init => CInv /\ AllMatch
  BY CellsInitially
<1> QED
  BY <1>1, <1>2, <1>3, PTL DEF Spec
=============================================================================
