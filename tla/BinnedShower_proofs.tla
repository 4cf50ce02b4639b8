------------------------ MODULE BinnedShower_proofs -------------------------
(***************************************************************************)
(* Proofs about BinnedShower and MLShower: for libraries, networks and      *)
(* geometries of any size and any sequence of showers, what is allocated is *)
(* what the state points to, the event picked is one of the library,        *)
(* filling a layer gives every voxel its hits and the layer its energy, and *)
(* what a network answers is in its layers and quarters.                    *)
(*                                                                          *)
(* What a layer's energy and hits add up to is defined by recursion over    *)
(* the voxels; the first part unfolds that recursion once, by induction,    *)
(* and the invariant then says where in the sum a hit stands.               *)
(***************************************************************************)
EXTENDS MLShower, FiniteSetTheorems, SequenceTheorems, TLAPS

-----------------------------------------------------------------------------
\* Induction: a set of numbers that is not empty has a least one, ...
LEMMA Least ==
  ASSUME NEW T, T \subseteq Nat, T # {}
  PROVE  \E m \in T : \A k \in T : m <= k
<1>1. \E x \in T : \A y \in T : ~(<<y, x>> \in OpToRel(<, Nat))
  BY WFMin, NatLessThanWellFounded
<1>2. \A x, y \in Nat : <<y, x>> \in OpToRel(<, Nat) <=> y < x
  BY DEF OpToRel
<1>3. PICK x \in T : \A y \in T : ~(y < x)
  BY <1>1, <1>2
<1> QED
  BY <1>3

\* ... so one that has 0 and with a number its successor has them all.
LEMMA NatInduct ==
  ASSUME NEW T, 0 \in T, \A k \in Nat : k \in T => k + 1 \in T
  PROVE  Nat \subseteq T
<1> SUFFICES ASSUME Nat \ T # {} PROVE FALSE
  OBVIOUS
<1>1. PICK m \in Nat \ T : \A k \in Nat \ T : m <= k
  BY Least
<1>2. m - 1 \in Nat /\ m - 1 \notin Nat \ T
  BY <1>1
<1> QED
  BY <1>1, <1>2

\* SumUpTo() is defined by a function that exists and is unique.
IsSum(s, n, f) == f = [i \in 0 .. n |-> IF i = 0 THEN 0 ELSE f[i - 1] + s[i]]

LEMMA SumExists ==
  ASSUME NEW s, NEW n \in Nat
  PROVE  \E f : IsSum(s, n, f)
<1> DEFINE T == {k \in Nat : \E f : IsSum(s, k, f)}
<1>1. 0 \in T
  <2>1. IsSum(s, 0, [i \in 0 .. 0 |-> 0])
    BY DEF IsSum
  <2> QED
    BY <2>1
<1>2. ASSUME NEW k \in Nat, k \in T PROVE k + 1 \in T
  <2>1. PICK g : IsSum(s, k, g)
    BY <1>2
  <2> DEFINE h == [i \in 0 .. k + 1 |-> IF i <= k THEN g[i] ELSE g[k] + s[k + 1]]
  <2>2. IsSum(s, k + 1, h)
    BY <2>1 DEF IsSum
  <2> QED
    BY <2>2
<1> HIDE DEF T
<1>3. Nat \subseteq T
  BY <1>1, <1>2, NatInduct
<1> QED
  BY <1>3 DEF T

LEMMA SumUnique ==
  ASSUME NEW s, NEW n \in Nat, NEW m \in Nat, m <= n, NEW f, NEW g,
         IsSum(s, n, f), IsSum(s, m, g)
  PROVE  \A i \in 0 .. m : f[i] = g[i]
<1> DEFINE T == {k \in Nat : k <= m => f[k] = g[k]}
<1>1. 0 \in T
  BY DEF IsSum
<1>2. ASSUME NEW k \in Nat, k \in T PROVE k + 1 \in T
  BY <1>2 DEF IsSum
<1> HIDE DEF T
<1>3. Nat \subseteq T
  BY <1>1, <1>2, NatInduct
<1> QED
  BY <1>3 DEF T

LEMMA SumIs ==
  ASSUME NEW s, NEW n \in Nat
  PROVE  \E f : IsSum(s, n, f) /\ SumUpTo(s, n) = f[n]
<1>1. SumUpTo(s, n) = (CHOOSE f : IsSum(s, n, f))[n]
  BY DEF SumUpTo, IsSum
<1> QED
  BY <1>1, SumExists

LEMMA SumZero == ASSUME NEW s PROVE SumUpTo(s, 0) = 0
<1>1. PICK f : IsSum(s, 0, f) /\ SumUpTo(s, 0) = f[0]
  BY SumIs
<1> QED
  BY <1>1 DEF IsSum

LEMMA SumStep ==
  ASSUME NEW s, NEW n \in Nat
  PROVE  SumUpTo(s, n + 1) = SumUpTo(s, n) + s[n + 1]
<1>1. PICK f : IsSum(s, n + 1, f) /\ SumUpTo(s, n + 1) = f[n + 1]
  BY SumIs
<1>2. PICK g : IsSum(s, n, g) /\ SumUpTo(s, n) = g[n]
  BY SumIs
<1>3. f[n] = g[n]
  BY <1>1, <1>2, SumUnique
<1>4. f[n + 1] = f[n] + s[n + 1]
  BY <1>1 DEF IsSum
<1> QED
  BY <1>1, <1>2, <1>3, <1>4

\* The sum of natural numbers is one, and grows.
LEMMA SumNat ==
  ASSUME NEW s, NEW N \in Nat, \A i \in 1 .. N : s[i] \in Nat
  PROVE  \A n \in 0 .. N : SumUpTo(s, n) \in Nat
<1> DEFINE T == {k \in Nat : k <= N => SumUpTo(s, k) \in Nat}
<1>1. 0 \in T
  BY SumZero
<1>2. ASSUME NEW k \in Nat, k \in T PROVE k + 1 \in T
  BY <1>2, SumStep
<1> HIDE DEF T
<1>3. Nat \subseteq T
  BY <1>1, <1>2, NatInduct
<1> QED
  BY <1>3 DEF T

LEMMA SumGrows ==
  ASSUME NEW s, NEW N \in Nat, \A i \in 1 .. N : s[i] \in Nat,
         NEW m \in 0 .. N, NEW n \in 0 .. N, m <= n
  PROVE  SumUpTo(s, m) <= SumUpTo(s, n)
<1> DEFINE T == {k \in Nat : m <= k /\ k <= N => SumUpTo(s, m) <= SumUpTo(s, k)}
<1>0. \A k \in 0 .. N : SumUpTo(s, k) \in Nat
  BY SumNat
<1>1. 0 \in T
  BY <1>0
<1>2. ASSUME NEW k \in Nat, k \in T PROVE k + 1 \in T
  <2>1. CASE m <= k /\ k + 1 <= N
    <3>1. SumUpTo(s, k + 1) = SumUpTo(s, k) + s[k + 1]
      BY SumStep
    <3>2. SumUpTo(s, m) <= SumUpTo(s, k)
      BY <1>2, <2>1
    <3>3. s[k + 1] \in Nat /\ SumUpTo(s, k) \in Nat /\ SumUpTo(s, m) \in Nat
      BY <1>0, <2>1
    <3> QED
      BY <3>1, <3>2, <3>3
  <2>2. CASE m = k + 1 \/ ~(m <= k + 1 /\ k + 1 <= N)
    BY <1>0, <2>2
  <2> QED
    BY <2>1, <2>2
<1> HIDE DEF T
<1>3. Nat \subseteq T
  BY <1>1, <1>2, NatInduct
<1> QED
  BY <1>3 DEF T

\* Zeros add nothing.
LEMMA SumOfZeros ==
  ASSUME NEW s, NEW m \in Nat, NEW n \in Nat, m <= n,
         SumUpTo(s, m) \in Int, \A i \in m + 1 .. n : s[i] = 0
  PROVE  SumUpTo(s, n) = SumUpTo(s, m)
<1> DEFINE T == {k \in Nat : m <= k /\ k <= n => SumUpTo(s, k) = SumUpTo(s, m)}
<1>1. 0 \in T
  OBVIOUS
<1>2. ASSUME NEW k \in Nat, k \in T PROVE k + 1 \in T
  <2>1. CASE m <= k /\ k + 1 <= n
    <3>1. SumUpTo(s, k + 1) = SumUpTo(s, k) + s[k + 1]
      BY SumStep
    <3>2. SumUpTo(s, k) = SumUpTo(s, m) /\ s[k + 1] = 0
      BY <1>2, <2>1
    <3> QED
      BY <3>1, <3>2
  <2>2. CASE m = k + 1 \/ ~(m <= k + 1 /\ k + 1 <= n)
    BY <2>2
  <2> QED
    BY <2>1, <2>2
<1> HIDE DEF T
<1>3. Nat \subseteq T
  BY <1>1, <1>2, NatInduct
<1> QED
  BY <1>3 DEF T

-----------------------------------------------------------------------------
\* The energies a layer's energy is added up from.
CountedEnergy(vox, e0) ==
  [v \in 1 .. Len(vox) |-> IF Counted(vox[v]) THEN vox[v] * e0 ELSE 0]

HitsUpTo(vox, e0, v) == SumUpTo(PerVoxel(vox, e0), v)
EnergyUpTo(vox, e0, v) == SumUpTo(CountedEnergy(vox, e0), v)

\* A voxel has hits if its energy counts, at most MaxHits.
LEMMA HitsOfVoxel ==
  ASSUME NEW e \in Int, NEW e0 \in Nat
  PROVE  /\ HitsOf(e, e0) \in 0 .. MaxHits
         /\ Counted(e) <=> HitsOf(e, e0) > 0
         /\ Counted(e) => e > 0
<1>1. MaxHits \in Nat \ {0} /\ Epsilon \in Nat /\ HitEnergy \in Nat \ {0}
  BY ShowerAssumption
<1>2. e * e0 \in Int
  OBVIOUS
<1>3. (e * e0) \div HitEnergy \in Int
  BY <1>1, <1>2
<1> DEFINE n == (e * e0) \div HitEnergy
<1>4. Clamped(n) \in 1 .. MaxHits
  <2>1. n \in Int
    BY <1>3
  <2> HIDE DEF n
  <2> QED
    BY <1>1, <2>1 DEF Clamped
<1> QED
  BY <1>1, <1>4 DEF HitsOf, Counted

LEMMA VoxelTypes ==
  ASSUME NEW vox \in Seq(Int), NEW e0 \in Nat
  PROVE  /\ Len(vox) \in Nat
         /\ DOMAIN PerVoxel(vox, e0) = 1 .. Len(vox)
         /\ \A v \in 1 .. Len(vox) :
              /\ vox[v] \in Int
              /\ PerVoxel(vox, e0)[v] = HitsOf(vox[v], e0)
              /\ PerVoxel(vox, e0)[v] \in 0 .. MaxHits
              /\ CountedEnergy(vox, e0)[v] \in Nat
              /\ PerVoxel(vox, e0)[v] = 0 => CountedEnergy(vox, e0)[v] = 0
<1>1. Len(vox) \in Nat /\ \A v \in 1 .. Len(vox) : vox[v] \in Int
  OBVIOUS
<1>2. ASSUME NEW v \in 1 .. Len(vox)
      PROVE  /\ vox[v] \in Int
             /\ PerVoxel(vox, e0)[v] = HitsOf(vox[v], e0)
             /\ PerVoxel(vox, e0)[v] \in 0 .. MaxHits
             /\ CountedEnergy(vox, e0)[v] \in Nat
             /\ PerVoxel(vox, e0)[v] = 0 => CountedEnergy(vox, e0)[v] = 0
  <2>1. vox[v] \in Int
    BY <1>1
  <2>2. PerVoxel(vox, e0)[v] = HitsOf(vox[v], e0)
    BY DEF PerVoxel
  <2>3. HitsOf(vox[v], e0) \in 0 .. MaxHits
    BY <2>1, HitsOfVoxel
  <2>4. Counted(vox[v]) => vox[v] > 0 /\ HitsOf(vox[v], e0) > 0
    BY <2>1, HitsOfVoxel
  <2>5. CountedEnergy(vox, e0)[v] = IF Counted(vox[v]) THEN vox[v] * e0 ELSE 0
    BY DEF CountedEnergy
  <2>6. \A x, y \in Nat : x * y \in Nat
    OBVIOUS
  <2>7. CountedEnergy(vox, e0)[v] \in Nat
    BY <2>1, <2>4, <2>5, <2>6
  <2> QED
    BY <2>1, <2>2, <2>3, <2>4, <2>5, <2>7
<1> QED
  BY <1>1, <1>2 DEF PerVoxel

LEMMA UpToTypes ==
  ASSUME NEW vox \in Seq(Int), NEW e0 \in Nat
  PROVE  /\ \A v \in 0 .. Len(vox) : HitsUpTo(vox, e0, v) \in Nat /\ EnergyUpTo(vox, e0, v) \in Nat
         /\ HitsUpTo(vox, e0, 0) = 0 /\ EnergyUpTo(vox, e0, 0) = 0
         /\ \A v, w \in 0 .. Len(vox) : v <= w =>
              /\ HitsUpTo(vox, e0, v) <= HitsUpTo(vox, e0, w)
              /\ EnergyUpTo(vox, e0, v) <= EnergyUpTo(vox, e0, w)
         /\ \A v \in 1 .. Len(vox) :
              /\ HitsUpTo(vox, e0, v) = HitsUpTo(vox, e0, v - 1) + PerVoxel(vox, e0)[v]
              /\ EnergyUpTo(vox, e0, v) = EnergyUpTo(vox, e0, v - 1) + CountedEnergy(vox, e0)[v]
<1> DEFINE p == PerVoxel(vox, e0)
           c == CountedEnergy(vox, e0)
           N == Len(vox)
<1>1. N \in Nat /\ \A v \in 1 .. N : p[v] \in Nat /\ c[v] \in Nat
  BY VoxelTypes
<1> HIDE DEF p, c, N
<1>2. \A v \in 0 .. N : SumUpTo(p, v) \in Nat /\ SumUpTo(c, v) \in Nat
  BY <1>1, SumNat
<1>3. SumUpTo(p, 0) = 0 /\ SumUpTo(c, 0) = 0
  BY SumZero
<1>4. \A v, w \in 0 .. N : v <= w => SumUpTo(p, v) <= SumUpTo(p, w) /\ SumUpTo(c, v) <= SumUpTo(c, w)
  BY <1>1, SumGrows
<1>5. \A v \in 1 .. N : SumUpTo(p, v) = SumUpTo(p, v - 1) + p[v] /\ SumUpTo(c, v) = SumUpTo(c, v - 1) + c[v]
  <2> TAKE v \in 1 .. N
  <2>1. v - 1 \in Nat /\ (v - 1) + 1 = v
    BY <1>1
  <2> QED
    BY <2>1, SumStep
<1> QED
  BY <1>2, <1>3, <1>4, <1>5 DEF HitsUpTo, EnergyUpTo, p, c, N

\* As long as energy is missing there is a voxel with hits, and up to it none.
LEMMA NextVoxel ==
  ASSUME NEW vox \in Seq(Int), NEW e0 \in Nat, NEW v \in 0 .. Len(vox),
         EnergyUpTo(vox, e0, v) # EnergyUpTo(vox, e0, Len(vox))
  PROVE  \E w \in v + 1 .. Len(vox) :
           /\ PerVoxel(vox, e0)[w] > 0
           /\ \A u \in v + 1 .. w - 1 : PerVoxel(vox, e0)[u] = 0
           /\ HitsUpTo(vox, e0, w - 1) = HitsUpTo(vox, e0, v)
           /\ EnergyUpTo(vox, e0, w - 1) = EnergyUpTo(vox, e0, v)
<1> DEFINE p == PerVoxel(vox, e0)
           c == CountedEnergy(vox, e0)
           N == Len(vox)
<1>1. N \in Nat /\ \A u \in 1 .. N : p[u] \in Nat /\ c[u] \in Nat /\ (p[u] = 0 => c[u] = 0)
  BY VoxelTypes
<1> HIDE DEF p, c, N
<1>2. \A u \in 0 .. N : SumUpTo(p, u) \in Nat /\ SumUpTo(c, u) \in Nat
  BY <1>1, SumNat
<1>3. v \in 0 .. N /\ SumUpTo(c, v) # SumUpTo(c, N)
  BY DEF EnergyUpTo, c, N
<1> DEFINE T == {w \in v + 1 .. N : p[w] > 0}
<1>4. T # {}
  <2> SUFFICES ASSUME T = {} PROVE FALSE
    OBVIOUS
  <2>1. \A w \in v + 1 .. N : c[w] = 0
    BY <1>1, <1>3
  <2> QED
    BY <1>1, <1>2, <1>3, <2>1, SumOfZeros
<1>5. T \subseteq Nat
  BY <1>3
<1>6. PICK w \in T : \A k \in T : w <= k
  BY <1>4, <1>5, Least
<1>7. w \in v + 1 .. N /\ p[w] > 0 /\ \A u \in v + 1 .. w - 1 : p[u] = 0 /\ c[u] = 0
  BY <1>1, <1>3, <1>6
<1>8. SumUpTo(p, w - 1) = SumUpTo(p, v) /\ SumUpTo(c, w - 1) = SumUpTo(c, v)
  <2>1. v \in Nat /\ w - 1 \in Nat /\ v <= w - 1
    BY <1>1, <1>3, <1>7
  <2> QED
    BY <1>2, <1>3, <1>7, <2>1, SumOfZeros
<1> QED
  BY <1>7, <1>8 DEF HitsUpTo, EnergyUpTo, p, c, N

\* get_energy_index() finds the voxel the hit with this index belongs to.
LEMMA VoxelOfHit ==
  ASSUME NEW vox \in Seq(Int), NEW e0 \in Nat, NEW v \in 1 .. Len(vox), NEW i \in Nat,
         HitsUpTo(vox, e0, v - 1) <= i, i < HitsUpTo(vox, e0, v)
  PROVE  Voxel(vox, e0, i) = v
<1> DEFINE n == NHits(vox, e0)
           passed == {w \in 1 .. Len(vox) : Passed(n[w], i)}
<1>1. Len(vox) \in Nat
  OBVIOUS
<1>2. \A w \in 1 .. Len(vox) : n[w] = HitsUpTo(vox, e0, w)
  BY DEF NHits, HitsUpTo
<1>3. passed = 1 .. v - 1
  <2> HIDE DEF n
  <2>1. ASSUME NEW w \in 1 .. Len(vox), w <= v - 1 PROVE n[w] <= i
    <3>1. HitsUpTo(vox, e0, w) <= HitsUpTo(vox, e0, v - 1)
      BY <1>1, <2>1, UpToTypes
    <3>2. w \in 0 .. Len(vox) /\ v - 1 \in 0 .. Len(vox)
      BY <1>1
    <3>3. HitsUpTo(vox, e0, w) \in Nat /\ HitsUpTo(vox, e0, v - 1) \in Nat
      BY <3>2, UpToTypes
    <3> QED
      BY <1>2, <3>1, <3>3
  <2>2. ASSUME NEW w \in 1 .. Len(vox), w >= v PROVE ~(n[w] <= i)
    <3>1. HitsUpTo(vox, e0, v) <= HitsUpTo(vox, e0, w)
      BY <1>1, <2>2, UpToTypes
    <3>2. HitsUpTo(vox, e0, w) \in Nat /\ HitsUpTo(vox, e0, v) \in Nat
      BY <1>1, UpToTypes
    <3> QED
      BY <1>2, <3>1, <3>2
  <2> QED
    BY <1>1, <2>1, <2>2 DEF Passed
<1>4. Cardinality(1 .. v - 1) = v - 1
  BY FS_Interval
<1>5. Voxel(vox, e0, i) = LET k == Cardinality(passed) + 1 IN IF k > Len(vox) THEN 1 ELSE k
  BY DEF Voxel
<1> HIDE DEF passed, n
<1> QED
  BY <1>1, <1>3, <1>4, <1>5

\* The hits of a voxel share its energy exactly.
LEMMA Divides ==
  ASSUME NEW n \in Nat \ {0}, NEW s \in Nat, s % n = 0, NEW x \in Nat
  PROVE  /\ (x * s) \div n \in Nat
         /\ n * ((x * s) \div n) = x * s
<1>1. s = n * (s \div n) /\ s \div n \in Nat
  OBVIOUS
<1>2. PICK q \in Nat : s = n * q
  BY <1>1
<1>3. x * s = n * (x * q) /\ x * q \in Nat
  BY <1>2
<1> DEFINE y == x * q
<1>4. (n * y) \div n = y
  <2> HIDE DEF y
  <2>1. y \in Nat
    BY <1>3 DEF y
  <2> QED
    BY <2>1
<1> QED
  BY <1>3, <1>4

LEMMA HitEnergies ==
  ASSUME NEW vox \in Seq(Int), NEW e0 \in Nat \ {0}, NEW v \in 1 .. Len(vox),
         PerVoxel(vox, e0)[v] > 0
  PROVE  /\ EnergyOfHit(vox, e0, v) \in Nat \ {0}
         /\ PerVoxel(vox, e0)[v] * EnergyOfHit(vox, e0, v) = Scale * CountedEnergy(vox, e0)[v]
         /\ CountedEnergy(vox, e0)[v] > 0
<1> DEFINE n == HitsOf(vox[v], e0)
           x == vox[v] * e0
<1>1. /\ vox[v] \in Int /\ PerVoxel(vox, e0)[v] = n /\ n \in 1 .. MaxHits
  BY VoxelTypes
<1>2. Counted(vox[v]) /\ vox[v] > 0
  BY <1>1, HitsOfVoxel
<1>3. CountedEnergy(vox, e0)[v] = x
  BY <1>2 DEF CountedEnergy
<1>4. x \in Nat /\ x > 0
  <2>1. \A a, b \in Nat \ {0} : a * b \in Nat \ {0}
    OBVIOUS
  <2> QED
    BY <1>1, <1>2, <2>1
<1>5. Scale \in Nat \ {0} /\ Scale % n = 0
  BY <1>1, ShowerAssumption
<1>6. EnergyOfHit(vox, e0, v) = (x * Scale) \div n
  BY <1>1 DEF EnergyOfHit
<1> HIDE DEF n, x
<1>7. EnergyOfHit(vox, e0, v) \in Nat /\ n * EnergyOfHit(vox, e0, v) = x * Scale
  <2>1. n \in Nat \ {0} /\ Scale \in Nat /\ Scale % n = 0 /\ x \in Nat
    BY <1>1, <1>4, <1>5
  <2>2. (x * Scale) \div n \in Nat /\ n * ((x * Scale) \div n) = x * Scale
    BY <2>1, Divides
  <2> QED
    BY <2>2, <1>6
<1>8. x * Scale = Scale * x /\ x * Scale > 0
  <2>1. \A a, b \in Nat \ {0} : a * b = b * a /\ a * b > 0
    OBVIOUS
  <2> QED
    BY <1>4, <1>5, <2>1
<1>9. EnergyOfHit(vox, e0, v) # 0
  BY <1>1, <1>7, <1>8
<1> QED
  BY <1>1, <1>3, <1>4, <1>7, <1>8, <1>9

-----------------------------------------------------------------------------
AnyLibrary == Seq(Seq(Seq(Int)))

SetupOK ==
  /\ library \in AnyLibrary /\ path \in BOOLEAN
  /\ saved \in [path : BOOLEAN, library : AnyLibrary]
StoreOK == aux \in [Keys -> Int] /\ showers \in Nat

\* The energy of a layer is that of the event the state points to.
EventOK ==
  /\ event \in Seq(Seq(Int)) /\ einit \in Nat
  /\ energy \in [Layers -> Int]
  /\ layer \in Nat \ {0}
  /\ \A l \in Layers : energy[l] # 0 =>
       aux["BSNHits"] > 0 /\ energy[l] = EnergyIn(event, l, einit)
  /\ pc \in {"cleared", "asked"} =>
       energy = [l \in Layers |-> 0] /\ total \in Nat

\* With idx hits made, those of the voxels before v are made, those of v in
\* part, none of the voxels behind it, and the energies follow.
AtVoxel(v) ==
  LET vox == event[layer]
      made == idx - HitsUpTo(vox, einit, v - 1)
  IN  /\ 0 <= made /\ made < PerVoxel(vox, einit)[v]
      /\ \A w \in 1 .. Len(vox) :
           got[w] = IF w < v THEN PerVoxel(vox, einit)[w] ELSE IF w = v THEN made ELSE 0
      /\ sum = Scale * EnergyUpTo(vox, einit, v - 1)
                 + made * EnergyOfHit(vox, einit, v)

FillingOK ==
  pc \in {"hit", "filled"} =>
    /\ layer \in Layers /\ energy[layer] # 0
    /\ idx \in Nat /\ got \in [1 .. Len(event[layer]) -> Nat]
    /\ pc = "hit" => \E v \in 1 .. Len(event[layer]) : AtVoxel(v)
    /\ pc = "filled" =>
         got = PerVoxel(event[layer], einit) /\ sum = energy[layer] * Scale

IInv ==
  SetupOK /\ StoreOK /\ OneEventAlive /\ EventOK /\ FillingOK /\ TotalIsSumOfLayers

\* A layer with energy is one the event has, and its energy is what the voxels
\* have.
LEMMA LayerWithEnergy ==
  ASSUME EventOK, NEW l \in Layers, energy[l] # 0
  PROVE  /\ l <= Len(event) /\ event[l] \in Seq(Int)
         /\ energy[l] = EnergyUpTo(event[l], einit, Len(event[l]))
         /\ einit # 0
<1>1. energy[l] = EnergyIn(event, l, einit) /\ EnergyIn(event, l, einit) # 0
  BY DEF EventOK
<1>2. l <= Len(event) /\ EnergyIn(event, l, einit) = LayerEnergy(event[l], einit)
  BY <1>1 DEF EnergyIn
<1>3. event[l] \in Seq(Int)
  BY <1>2 DEF EventOK, Layers
<1>4. LayerEnergy(event[l], einit) = EnergyUpTo(event[l], einit, Len(event[l]))
  BY DEF LayerEnergy, EnergyUpTo, CountedEnergy
<1>5. einit # 0
  <2> SUFFICES ASSUME einit = 0 PROVE FALSE
    OBVIOUS
  <2> DEFINE c == CountedEnergy(event[l], einit)
             N == Len(event[l])
  <2>1. N \in Nat /\ \A v \in 1 .. N : event[l][v] \in Int
    BY <1>3
  <2>2. \A v \in 1 .. N : c[v] = 0
    BY <2>1 DEF CountedEnergy
  <2>3. SumUpTo(c, 0) = 0
    BY SumZero
  <2> HIDE DEF c, N
  <2>4. SumUpTo(c, N) = 0
    BY <2>1, <2>2, <2>3, SumOfZeros
  <2> QED
    BY <1>1, <1>2, <1>4, <2>4 DEF EnergyUpTo, c, N
<1> QED
  BY <1>1, <1>2, <1>3, <1>4, <1>5

LEMMA HitsWhereEnergy == EventOK => LayersWithEnergyHaveHits
<1> SUFFICES ASSUME EventOK, NEW l \in Layers, energy[l] # 0
             PROVE  /\ aux["BSNHits"] > 0
                    /\ l <= Len(event) /\ event[l] # <<>>
                    /\ NHits(event[l], einit)[Len(event[l])] > 0
  BY DEF LayersWithEnergyHaveHits
<1> DEFINE vox == event[l]
<1>1. /\ l <= Len(event) /\ vox \in Seq(Int) /\ einit \in Nat
      /\ energy[l] = EnergyUpTo(vox, einit, Len(vox))
  BY LayerWithEnergy DEF EventOK
<1> HIDE DEF vox
<1>2. Len(vox) \in Nat /\ 0 \in 0 .. Len(vox)
  BY <1>1
<1>3. EnergyUpTo(vox, einit, 0) # EnergyUpTo(vox, einit, Len(vox))
  BY <1>1, UpToTypes
<1>4. PICK w \in 1 .. Len(vox) : PerVoxel(vox, einit)[w] > 0
  <2>1. \E w \in 0 + 1 .. Len(vox) : PerVoxel(vox, einit)[w] > 0
    BY <1>1, <1>2, <1>3, NextVoxel
  <2> QED
    BY <2>1
<1>5. HitsUpTo(vox, einit, w) = HitsUpTo(vox, einit, w - 1) + PerVoxel(vox, einit)[w]
  BY <1>1, UpToTypes
<1>6. HitsUpTo(vox, einit, w) <= HitsUpTo(vox, einit, Len(vox))
  BY <1>1, <1>2, UpToTypes
<1>7. /\ HitsUpTo(vox, einit, w) \in Nat /\ HitsUpTo(vox, einit, w - 1) \in Nat
      /\ HitsUpTo(vox, einit, Len(vox)) \in Nat /\ PerVoxel(vox, einit)[w] \in Nat
  <2>1. w \in 0 .. Len(vox) /\ w - 1 \in 0 .. Len(vox) /\ Len(vox) \in 0 .. Len(vox)
    BY <1>2
  <2>2. PerVoxel(vox, einit)[w] \in Nat
    BY <1>1, VoxelTypes
  <2> QED
    BY <1>1, <2>1, <2>2, UpToTypes
<1>8. HitsUpTo(vox, einit, Len(vox)) > 0
  BY <1>4, <1>5, <1>6, <1>7
<1>9. NHits(vox, einit)[Len(vox)] = HitsUpTo(vox, einit, Len(vox))
  BY <1>2, <1>4 DEF NHits, HitsUpTo
<1> QED
  BY <1>1, <1>4, <1>8, <1>9 DEF EventOK, vox

-----------------------------------------------------------------------------
\* A hit of voxel v, and what follows it: the next one of that voxel, the first
\* of the next voxel with hits, or the end of the layer.
LEMMA HitStep ==
  ASSUME IInv, SimulateHit
  PROVE  FillingOK'
<1> DEFINE vox == event[layer]
           N == Len(vox)
           p == PerVoxel(vox, einit)
           H(v) == HitsUpTo(vox, einit, v)
           E(v) == EnergyUpTo(vox, einit, v)
<1>1. /\ pc = "hit" /\ layer \in Layers /\ energy[layer] # 0
      /\ idx \in Nat /\ got \in [1 .. N -> Nat]
  BY DEF SimulateHit, IInv, FillingOK
<1>2. /\ vox \in Seq(Int) /\ einit \in Nat \ {0} /\ N \in Nat
      /\ energy[layer] = E(N)
  BY <1>1, LayerWithEnergy DEF IInv, EventOK
<1>3. PICK v \in 1 .. N : AtVoxel(v)
  BY <1>1 DEF IInv, FillingOK
<1> DEFINE made == idx - H(v - 1)
           e == EnergyOfHit(vox, einit, v)
<1> HIDE DEF vox, N, p, H, E, made, e
<1>4. /\ v \in 0 .. N /\ v - 1 \in 0 .. N /\ N \in 0 .. N
  BY <1>2
<1>5. /\ H(v) \in Nat /\ H(v - 1) \in Nat /\ E(v) \in Nat /\ E(v - 1) \in Nat /\ E(N) \in Nat
      /\ E(v) <= E(N) /\ H(v) = H(v - 1) + p[v]
      /\ E(v) = E(v - 1) + CountedEnergy(vox, einit)[v]
  <2>1. H(v) \in Nat /\ H(v - 1) \in Nat
    BY <1>2, <1>4, UpToTypes DEF N, H
  <2>2. E(v) \in Nat /\ E(v - 1) \in Nat /\ E(N) \in Nat
    BY <1>2, <1>4, UpToTypes DEF N, E
  <2>3. E(v) <= E(N)
    BY <1>2, <1>4, UpToTypes DEF N, E
  <2>4. /\ H(v) = H(v - 1) + p[v]
        /\ E(v) = E(v - 1) + CountedEnergy(vox, einit)[v]
    BY <1>2, UpToTypes DEF N, H, E, p
  <2> QED
    BY <2>1, <2>2, <2>3, <2>4
<1>6. /\ 0 <= made /\ made < p[v]
      /\ \A w \in 1 .. N : got[w] = IF w < v THEN p[w] ELSE IF w = v THEN made ELSE 0
      /\ sum = Scale * E(v - 1) + made * e
  BY <1>3 DEF AtVoxel, vox, N, p, H, E, made, e
<1>7. /\ p[v] \in Nat /\ p[v] > 0 /\ made \in Nat
      /\ CountedEnergy(vox, einit)[v] \in Nat
  <2>1. p[v] \in Nat /\ CountedEnergy(vox, einit)[v] \in Nat
    BY <1>2, VoxelTypes DEF p, N
  <2>2. made \in Int
    BY <1>1, <1>5 DEF made
  <2> QED
    BY <1>6, <2>1, <2>2
<1>8. /\ e \in Nat \ {0} /\ p[v] * e = Scale * CountedEnergy(vox, einit)[v]
  BY <1>2, <1>7, HitEnergies DEF p, N, e
<1>9. Voxel(vox, einit, idx) = v
  <2>1. H(v - 1) <= idx /\ idx < H(v)
    BY <1>1, <1>5, <1>6, <1>7 DEF made
  <2> QED
    BY <1>1, <1>2, <2>1, VoxelOfHit DEF H, N
<1>10. /\ sum' = sum + e /\ got' = [got EXCEPT ![v] = @ + 1] /\ idx' = idx + 1
       /\ pc' = IF sum' < E(N) * Scale THEN "hit" ELSE "filled"
       /\ UNCHANGED <<event, einit, energy, layer>>
  BY <1>2, <1>9 DEF SimulateHit, store, energies, vox, e
<1>11. Scale \in Nat \ {0}
  BY ShowerAssumption
<1>12. got' \in [1 .. N -> Nat] /\ idx' \in Nat
  BY <1>1, <1>10
<1>13. got'[v] = made + 1 /\ \A w \in 1 .. N : w # v => got'[w] = got[w]
  BY <1>1, <1>6, <1>10
<1>14. sum' = Scale * E(v - 1) + (made + 1) * e
  <2>1. made * e \in Nat /\ (made + 1) * e = made * e + e /\ Scale * E(v - 1) \in Nat
    BY <1>5, <1>7, <1>8, <1>11
  <2> QED
    BY <1>6, <1>8, <1>10, <2>1
<1>15. CASE made + 1 < p[v]
  <2>1. sum' < E(N) * Scale
    <3>1. (made + 1) * e < p[v] * e
      <4>1. \A a, b, c \in Nat : c > 0 /\ a < b => a * c < b * c
        OBVIOUS
      <4> QED
        BY <1>7, <1>8, <1>15, <4>1
    <3>2. Scale * E(v) = Scale * E(v - 1) + p[v] * e
      <4>1. \A a, b, c \in Nat : a * (b + c) = a * b + a * c
        OBVIOUS
      <4> QED
        BY <1>5, <1>7, <1>8, <1>11, <4>1
    <3>3. Scale * E(v) <= E(N) * Scale
      <4>1. \A a, b, c \in Nat : b <= c => a * b <= c * a
        OBVIOUS
      <4> QED
        BY <1>5, <1>11, <4>1
    <3>4. /\ (made + 1) * e \in Nat /\ p[v] * e \in Nat /\ Scale * E(v) \in Nat
          /\ Scale * E(v - 1) \in Nat /\ E(N) * Scale \in Nat
      <4>1. \A a, b \in Nat : a * b \in Nat
        OBVIOUS
      <4> QED
        BY <1>5, <1>7, <1>8, <1>11, <4>1
    <3> QED
      BY <1>14, <3>1, <3>2, <3>3, <3>4
  <2>2. idx' - H(v - 1) = made + 1
    BY <1>1, <1>5, <1>10 DEF made
  <2>3. AtVoxel(v)'
    <3>1. \A w \in 1 .. N : got'[w] = IF w < v THEN p[w] ELSE IF w = v THEN made + 1 ELSE 0
      BY <1>6, <1>13
    <3> QED
      BY <1>7, <1>10, <1>14, <1>15, <2>2, <3>1 DEF AtVoxel, vox, N, p, H, E, e
  <2> QED
    BY <1>1, <1>10, <1>12, <2>1, <2>3 DEF FillingOK, vox, N
<1>16. CASE made + 1 = p[v]
  <2>1. sum' = Scale * E(v)
    <3>1. \A a, b, c \in Nat : a * (b + c) = a * b + a * c
      OBVIOUS
    <3>2. Scale * E(v) = Scale * E(v - 1) + Scale * CountedEnergy(vox, einit)[v]
      BY <1>5, <1>7, <1>11, <3>1
    <3> QED
      BY <1>8, <1>14, <1>16, <3>2
  <2>2. idx' = H(v)
    BY <1>1, <1>5, <1>10, <1>16 DEF made
  <2>3. CASE E(v) = E(N)
    <3>1. pc' = "filled" /\ sum' = energy'[layer'] * Scale
      BY <1>2, <1>5, <1>10, <1>11, <2>1, <2>3
    <3>2. \A w \in 1 .. N : w > v => p[w] = 0
      <4> SUFFICES ASSUME NEW w \in 1 .. N, w > v, p[w] # 0 PROVE FALSE
        OBVIOUS
      <4>1. w \in 0 .. N /\ w - 1 \in 0 .. N /\ v <= w - 1 /\ w <= N
        BY <1>2
      <4>2. /\ E(w) = E(w - 1) + CountedEnergy(vox, einit)[w]
            /\ E(v) <= E(w - 1) /\ E(w) <= E(N)
            /\ E(w) \in Nat /\ E(w - 1) \in Nat
        BY <1>2, <1>4, <4>1, UpToTypes DEF E, N
      <4>3. p[w] > 0 /\ CountedEnergy(vox, einit)[w] \in Nat
        <5>1. p[w] \in 0 .. MaxHits /\ CountedEnergy(vox, einit)[w] \in Nat
          BY <1>2, VoxelTypes DEF p, N
        <5> QED
          BY <5>1
      <4>4. CountedEnergy(vox, einit)[w] > 0
        BY <1>2, <4>3, HitEnergies DEF p, N
      <4> QED
        BY <1>5, <2>3, <4>2, <4>3, <4>4
    <3>3. \A w \in 1 .. N : got'[w] = p[w]
      BY <1>6, <1>13, <1>16, <3>2
    <3>4. got' = p
      BY <1>2, <1>12, <3>3, VoxelTypes DEF p, N, PerVoxel
    <3> QED
      BY <1>1, <1>10, <1>12, <3>1, <3>4 DEF FillingOK, vox, N, p
  <2>4. CASE E(v) # E(N)
    <3>1. pc' = "hit"
      <4>1. \A a, b, c \in Nat : c > 0 /\ a < b => c * a < b * c
        OBVIOUS
      <4> QED
        BY <1>5, <1>10, <1>11, <2>1, <2>4, <4>1
    <3>2. PICK w \in v + 1 .. N :
            /\ p[w] > 0 /\ \A u \in v + 1 .. w - 1 : p[u] = 0
            /\ H(w - 1) = H(v) /\ E(w - 1) = E(v)
      BY <1>2, <1>4, <2>4, NextVoxel DEF H, E, p, N
    <3>3. w \in 1 .. N /\ idx' - H(w - 1) = 0
      BY <1>5, <2>2, <3>2
    <3>4. \A u \in 1 .. N : got'[u] = IF u < w THEN p[u] ELSE IF u = w THEN 0 ELSE 0
      BY <1>6, <1>13, <1>16, <3>2
    <3>5. EnergyOfHit(vox, einit, w) \in Nat
      BY <1>2, <3>2, <3>3, HitEnergies DEF p, N
    <3>6. sum' = Scale * E(w - 1) + 0 * EnergyOfHit(vox, einit, w)
      BY <1>5, <1>11, <2>1, <3>2, <3>5
    <3>7. AtVoxel(w)'
      BY <1>10, <3>2, <3>3, <3>4, <3>6 DEF AtVoxel, vox, N, p, H, E
    <3> QED
      BY <1>1, <1>10, <1>12, <3>1, <3>3, <3>7 DEF FillingOK, vox, N
  <2> QED
    BY <2>3, <2>4
<1> QED
  BY <1>6, <1>7, <1>15, <1>16

LEMMA StartLayerStep ==
  ASSUME IInv, StartLayer
  PROVE  FillingOK'
<1> DEFINE vox == event[layer]
           N == Len(vox)
<1>1. /\ layer \in Layers /\ energy[layer] # 0
  BY DEF StartLayer, IInv, EventOK, Layers
<1>2. /\ vox \in Seq(Int) /\ einit \in Nat \ {0} /\ N \in Nat
      /\ energy[layer] = EnergyUpTo(vox, einit, N)
  BY <1>1, LayerWithEnergy DEF IInv, EventOK
<1>3. /\ pc' = "hit" /\ idx' = 0 /\ sum' = 0 /\ got' = [v \in 1 .. N |-> 0]
      /\ UNCHANGED <<event, einit, energy, layer>>
  BY DEF StartLayer, store, energies
<1> HIDE DEF vox, N
<1>4. EnergyUpTo(vox, einit, 0) = 0 /\ HitsUpTo(vox, einit, 0) = 0
  BY <1>2, UpToTypes
<1>5. 0 \in 0 .. N /\ EnergyUpTo(vox, einit, 0) # EnergyUpTo(vox, einit, N)
  BY <1>1, <1>2, <1>4
<1>6. PICK w \in 0 + 1 .. N :
        /\ PerVoxel(vox, einit)[w] > 0
        /\ \A u \in 0 + 1 .. w - 1 : PerVoxel(vox, einit)[u] = 0
        /\ HitsUpTo(vox, einit, w - 1) = HitsUpTo(vox, einit, 0)
        /\ EnergyUpTo(vox, einit, w - 1) = EnergyUpTo(vox, einit, 0)
  BY <1>2, <1>5, NextVoxel DEF N
<1>7. EnergyOfHit(vox, einit, w) \in Nat /\ w \in 1 .. N
  BY <1>2, <1>6, HitEnergies DEF N
<1>8. sum' = Scale * EnergyUpTo(vox, einit, w - 1) + 0 * EnergyOfHit(vox, einit, w)
  BY <1>3, <1>4, <1>6, <1>7, ShowerAssumption
<1>9. AtVoxel(w)'
  BY <1>3, <1>4, <1>6, <1>7, <1>8 DEF AtVoxel, vox, N
<1> QED
  BY <1>1, <1>3, <1>7, <1>9 DEF FillingOK, vox, N

-----------------------------------------------------------------------------
LEMMA LibraryTypes ==
  FileLibrary \in AnyLibrary /\ \A lib \in Libraries : lib \in AnyLibrary
BY ShowerAssumption DEF AnyLibrary

\* Deleting what the keys point to leaves nothing.
LEMMA DeletingLeavesNothing == ASSUME OneEventAlive PROVE Kept = {}
BY DEF OneEventAlive, Kept, Deleted

LEMMA EnergyTypes ==
  ASSUME NEW ev \in Seq(Seq(Int)), NEW e0 \in Nat, NEW l \in Layers
  PROVE  EnergyIn(ev, l, e0) \in Nat
<1>1. CASE l <= Len(ev)
  <2>1. ev[l] \in Seq(Int)
    BY <1>1 DEF Layers
  <2>2. EnergyIn(ev, l, e0) = EnergyUpTo(ev[l], e0, Len(ev[l]))
    BY <1>1 DEF EnergyIn, LayerEnergy, EnergyUpTo, CountedEnergy
  <2>3. Len(ev[l]) \in 0 .. Len(ev[l])
    BY <2>1
  <2> QED
    BY <2>1, <2>2, <2>3, UpToTypes
<1>2. CASE ~(l <= Len(ev))
  BY <1>2 DEF EnergyIn
<1> QED
  BY <1>1, <1>2

\* A new event, from a library or a network, is a good start.
LEMMA NewEvent ==
  ASSUME IInv,
         event' \in Seq(Seq(Int)), einit' \in Nat,
         aux' = [k \in Keys |-> showers + 1],
         live' = Keys \X {showers + 1},
         energy' = [l \in Layers |-> EnergyIn(event', l, einit')],
         total' = TotalAfter(energy'),
         pc' = "layer", layer' = 1, showers' = showers + 1
  PROVE  StoreOK' /\ OneEventAlive' /\ EventOK' /\ FillingOK' /\ TotalIsSumOfLayers'
<1>1. showers \in Nat
  BY DEF IInv, StoreOK
<1>2. StoreOK' /\ OneEventAlive'
  BY <1>1 DEF StoreOK, OneEventAlive
<1>3. energy' \in [Layers -> Int]
  BY EnergyTypes
<1>4. EventOK'
  BY <1>1, <1>3 DEF EventOK, Keys
<1> QED
  BY <1>2, <1>4 DEF FillingOK, TotalIsSumOfLayers, TotalAfter

LEMMA SimulateStep ==
  ASSUME IInv, NEW e \in Energies, NEW r \in RequestSet, Simulate(e, r)
  PROVE  IInv'
<1>1. /\ aux' = [k \in Keys |-> showers + 1] /\ live' = Keys \X {showers + 1}
      /\ showers' = showers + 1
  BY DeletingLeavesNothing DEF Simulate, IInv
<1>2. PICK n \in Pick(r) : event' = At(n)
  BY DEF Simulate
<1>3. event' \in Seq(Seq(Int))
  <2>1. library \in Seq(Seq(Seq(Int)))
    BY DEF IInv, SetupOK, AnyLibrary
  <2>2. r.nr \in Int
    <3>1. Requests \subseteq Int
      BY ShowerAssumption
    <3>2. CASE r = NoRequest
      BY <3>2 DEF NoRequest
    <3>3. CASE r \in [some : {TRUE}, nr : Requests]
      BY <3>1, <3>3
    <3> QED
      BY <3>2, <3>3 DEF RequestSet
  <2>3. n \in Int
    BY <2>1, <2>2 DEF Pick
  <2> QED
    BY <1>2, <2>1, <2>3 DEF At
<1>4. einit' \in Nat
  BY ShowerAssumption DEF Simulate, StartEnergy, IInv, EventOK
<1>5. StoreOK' /\ OneEventAlive' /\ EventOK' /\ FillingOK' /\ TotalIsSumOfLayers'
  BY <1>1, <1>3, <1>4, NewEvent DEF Simulate
<1>6. SetupOK'
  BY DEF IInv, SetupOK, Simulate, setup
<1> QED
  BY <1>5, <1>6 DEF IInv

LEMMA SimulateNothingStep ==
  ASSUME IInv, SimulateNothing
  PROVE  IInv'
<1>1. aux' = [k \in Keys |-> 0] /\ live' = {} /\ showers' = showers + 1
  BY DeletingLeavesNothing DEF SimulateNothing, IInv, Null
<1>2. StoreOK' /\ OneEventAlive'
  BY <1>1 DEF IInv, StoreOK, OneEventAlive
<1>3. SetupOK'
  BY DEF IInv, SetupOK, SimulateNothing, setup
<1>4. EventOK' /\ FillingOK'
  BY DEF SimulateNothing, IInv, EventOK, FillingOK
<1>5. TotalIsSumOfLayers'
  <2>1. energy' = [l \in Layers |-> 0] /\ total' = 0
    BY DEF SimulateNothing
  <2>2. NLayers \in Nat
    BY ShowerAssumption
  <2>3. SumUpTo(energy', 0) = 0
    BY SumZero
  <2>4. SumUpTo(energy', NLayers) = 0
    BY <2>1, <2>2, <2>3, SumOfZeros DEF Layers
  <2> QED
    BY <2>1, <2>4 DEF TotalIsSumOfLayers
<1> QED
  BY <1>2, <1>3, <1>4, <1>5 DEF IInv

\* The other steps of a shower leave the store and the set-up alone.
LEMMA OtherSteps ==
  ASSUME IInv,
         \/ Clear \/ SimulateThrows \/ SkipLayer \/ StartLayer \/ SimulateHit
         \/ NextLayer \/ EndShower \/ UNCHANGED vars
  PROVE  IInv' /\ picked' = picked
<1>1. UNCHANGED <<library, path, saved, aux, live, showers, picked, event, einit>>
  BY DEF Clear, SimulateThrows, SkipLayer, StartLayer, SimulateHit, NextLayer,
         EndShower, vars, setup, store
<1>2. SetupOK' /\ StoreOK' /\ OneEventAlive'
  BY <1>1 DEF IInv, SetupOK, StoreOK, OneEventAlive
<1>3. EventOK' /\ FillingOK' /\ TotalIsSumOfLayers'
  <2>1. CASE Clear
    BY <1>1, <2>1, ShowerAssumption DEF Clear, IInv, EventOK, FillingOK, TotalIsSumOfLayers
  <2>2. CASE SimulateThrows \/ SkipLayer \/ EndShower
    BY <1>1, <2>2 DEF SimulateThrows, SkipLayer, EndShower, energies, IInv, EventOK,
                      FillingOK, TotalIsSumOfLayers
  <2>3. CASE StartLayer
    <3>1. EventOK' /\ TotalIsSumOfLayers'
      BY <1>1, <2>3 DEF StartLayer, energies, IInv, EventOK, TotalIsSumOfLayers
    <3> QED
      BY <2>3, <3>1, StartLayerStep
  <2>4. CASE SimulateHit
    <3>1. pc' \in {"hit", "filled"} /\ UNCHANGED <<energy, total, layer>>
      BY <2>4 DEF SimulateHit, energies
    <3>2. EventOK' /\ TotalIsSumOfLayers'
      BY <1>1, <2>4, <3>1 DEF SimulateHit, IInv, EventOK, TotalIsSumOfLayers
    <3> QED
      BY <2>4, <3>2, HitStep
  <2>5. CASE NextLayer
    BY <1>1, <2>5 DEF NextLayer, energies, IInv, EventOK, FillingOK, TotalIsSumOfLayers
  <2>6. CASE UNCHANGED vars
    BY <1>1, <2>6 DEF vars, energies, hits, IInv, EventOK, FillingOK, TotalIsSumOfLayers, AtVoxel
  <2> QED
    BY <2>1, <2>2, <2>3, <2>4, <2>5, <2>6
<1> QED
  BY <1>1, <1>2, <1>3 DEF IInv

LEMMA SetUpStep ==
  ASSUME IInv, SetUp
  PROVE  IInv' /\ picked' = picked
<1>1. /\ UNCHANGED <<aux, live, showers, picked, event, einit, energy, total, pc, layer>>
      /\ pc = "idle"
  BY DEF SetUp, LoadEventLibrary, SetHdf5Path, SetEventMatching, Save, Restore,
         SetEventLibrary, SameState, store, energies, Between
<1>2. SetupOK'
  <2>1. CASE LoadEventLibrary \/ \E lib \in Libraries : SetEventLibrary(lib)
    BY <2>1, LibraryTypes DEF LoadEventLibrary, SetEventLibrary, IInv, SetupOK
  <2>2. CASE SetHdf5Path \/ SetEventMatching
    BY <2>2 DEF SetHdf5Path, SetEventMatching, IInv, SetupOK
  <2>3. CASE Save
    <3>1. Written \in AnyLibrary
      BY DEF Written, IInv, SetupOK, AnyLibrary
    <3> QED
      BY <2>3, <3>1 DEF Save, IInv, SetupOK
  <2>4. CASE Restore
    BY <2>4, LibraryTypes DEF Restore, IInv, SetupOK
  <2> QED
    BY <2>1, <2>2, <2>3, <2>4 DEF SetUp
<1> QED
  BY <1>1, <1>2 DEF IInv, StoreOK, OneEventAlive, EventOK, FillingOK, TotalIsSumOfLayers

LEMMA Preserved == IInv /\ [Next]_vars => IInv'
BY SimulateStep, SimulateNothingStep, OtherSteps, SetUpStep DEF Next, Proceed

LEMMA Initially == Init => IInv
<1> SUFFICES ASSUME Init PROVE IInv
  OBVIOUS
<1>1. SetupOK
  <2>1. <<>> \in AnyLibrary
    BY DEF AnyLibrary
  <2> QED
    BY <2>1, LibraryTypes DEF Init, SetupOK
<1>2. PICK p \in Prepared : aux = [k \in Keys |-> IF p THEN Null ELSE Unset]
  BY DEF Init
<1>3. aux \in [Keys -> Int] /\ \A k \in Keys : aux[k] <= 0
  BY <1>2 DEF Null, Unset
<1>4. OneEventAlive
  BY <1>2, <1>3 DEF Init, OneEventAlive
<1>5. EventOK /\ FillingOK /\ TotalIsSumOfLayers
  BY DEF Init, EventOK, FillingOK, TotalIsSumOfLayers
<1> QED
  BY <1>1, <1>3, <1>4, <1>5 DEF Init, IInv, StoreOK

THEOREM Invariant == Spec => []IInv
BY Initially, Preserved, PTL DEF Spec

\* However many showers a state is used for, however the library changes in
\* between: what is allocated is exactly what the state points to.
THEOREM OneEventEver == Spec => []OneEventAlive
<1>1. IInv => OneEventAlive
  BY DEF IInv
<1> QED
  BY Invariant, <1>1, PTL

LEMMA Fills == IInv => VoxelsGetTheirHits
<1> SUFFICES ASSUME IInv, pc \in {"hit", "filled"}
             PROVE  LET worth == PerVoxel(event[layer], einit)
                    IN  /\ \A v \in DOMAIN got : got[v] <= worth[v]
                        /\ pc = "filled" => got = worth /\ sum = energy[layer] * Scale
  BY DEF VoxelsGetTheirHits
<1> DEFINE vox == event[layer]
           worth == PerVoxel(vox, einit)
<1>1. layer \in Layers /\ energy[layer] # 0 /\ got \in [1 .. Len(vox) -> Nat]
  BY DEF IInv, FillingOK
<1>2. vox \in Seq(Int) /\ einit \in Nat
  BY <1>1, LayerWithEnergy DEF IInv, EventOK
<1>3. \A v \in 1 .. Len(vox) : worth[v] \in Nat
  BY <1>2, VoxelTypes
<1>4. CASE pc = "filled"
  <2>1. got = worth /\ sum = energy[layer] * Scale
    BY <1>4 DEF IInv, FillingOK
  <2> HIDE DEF worth, vox
  <2>2. \A v \in DOMAIN got : got[v] <= worth[v]
    BY <1>1, <1>3, <2>1
  <2> QED
    BY <2>1, <2>2 DEF worth, vox
<1>5. CASE pc = "hit"
  <2>1. PICK v \in 1 .. Len(vox) : AtVoxel(v)
    BY <1>5 DEF IInv, FillingOK
  <2> DEFINE made == idx - HitsUpTo(vox, einit, v - 1)
  <2>2. /\ 0 <= made /\ made < worth[v]
        /\ \A w \in 1 .. Len(vox) :
             got[w] = IF w < v THEN worth[w] ELSE IF w = v THEN made ELSE 0
    BY <2>1 DEF AtVoxel
  <2> HIDE DEF worth, vox, made
  <2>3. \A w \in 1 .. Len(vox) : got[w] <= worth[w]
    BY <1>1, <1>3, <2>2
  <2> QED
    BY <1>1, <1>5, <2>3 DEF worth, vox
<1> QED
  BY <1>4, <1>5

LEMMA Spent == IInv => EventIsSpent
BY HitsWhereEnergy, Fills DEF IInv, EventIsSpent

\* The event is spent as it was divided: wherever there is energy there are
\* hits, each voxel gets as many as it is worth and the layer its energy, to
\* the last unit, and the total is the sum of the layers.
THEOREM EventSpent == Spec => []EventIsSpent
BY Invariant, Spent, PTL

\* get_event() never indexes outside the library, and heeds the event number.
Picks ==
  /\ picked'.index < Len(library)
  /\ matching /\ picked'.request.some
       /\ picked'.request.nr \in 0 .. Len(library) - 1
     => picked'.index = picked'.request.nr

LEMMA SimulatePicks ==
  ASSUME IInv, NEW e \in Energies, NEW r \in RequestSet, Simulate(e, r)
  PROVE  Picks
<1>1. PICK n \in Pick(r) : picked' = [index |-> n, request |-> r]
  BY DEF Simulate
<1>2. picked'.index = n /\ picked'.request = r
  BY <1>1
<1>3. Len(library) \in Nat
  BY LenProperties DEF IInv, SetupOK, AnyLibrary
<1>4. CASE matching /\ r.some /\ InLibrary(r.nr)
  <2>1. n = r.nr
    BY <1>4 DEF Pick
  <2> QED
    BY <1>2, <1>3, <1>4, <2>1 DEF InLibrary, Picks
<1>5. CASE ~(matching /\ r.some /\ InLibrary(r.nr))
  <2>1. n \in 0 .. Len(library) - 1
    BY <1>5 DEF Pick
  <2>2. ~(matching /\ r.some /\ r.nr \in 0 .. Len(library) - 1)
    BY <1>3, <1>5 DEF InLibrary
  <2> QED
    BY <1>2, <1>3, <2>1, <2>2 DEF Picks
<1> QED
  BY <1>4, <1>5

LEMMA PicksStep == IInv /\ [Next]_vars => [picked' # picked => Picks]_vars
<1> SUFFICES ASSUME IInv, Next, picked' # picked PROVE Picks
  OBVIOUS
<1>1. ~SimulateNothing
  BY DEF SimulateNothing
<1> QED
  BY <1>1, SimulatePicks, OtherSteps, SetUpStep DEF Next, Proceed

THEOREM AlwaysFromLibrary == Spec => PicksFromLibrary
<1>1. PicksFromLibrary <=> [][picked' # picked => Picks]_vars
  BY PTL DEF PicksFromLibrary, Picks
<1> QED
  BY Invariant, PicksStep, <1>1, PTL DEF Spec

-----------------------------------------------------------------------------
\* A layer's voxels are collected by a loop over all voxels.
IsFill(a, l, n, f) ==
  f = [v \in 0 .. n |->
         IF v = 0 THEN <<>>
         ELSE IF Holds(a, v - 1, l) THEN Append(f[v - 1], v - 1) ELSE f[v - 1]]

LEMMA FillExists ==
  ASSUME NEW a, NEW l, NEW n \in Nat
  PROVE  \E f : IsFill(a, l, n, f)
<1> DEFINE T == {k \in Nat : \E f : IsFill(a, l, k, f)}
<1>1. 0 \in T
  <2>1. IsFill(a, l, 0, [i \in 0 .. 0 |-> <<>>])
    BY DEF IsFill
  <2> QED
    BY <2>1
<1>2. ASSUME NEW k \in Nat, k \in T PROVE k + 1 \in T
  <2>1. PICK g : IsFill(a, l, k, g)
    BY <1>2
  <2> DEFINE more == IF Holds(a, k, l) THEN Append(g[k], k) ELSE g[k]
             h == [i \in 0 .. k + 1 |-> IF i <= k THEN g[i] ELSE more]
             next(f, v) == IF v = 0 THEN <<>>
                           ELSE IF Holds(a, v - 1, l) THEN Append(f[v - 1], v - 1) ELSE f[v - 1]
  <2>2. IsFill(a, l, k + 1, h)
    <3>1. \A v \in 0 .. k : h[v] = next(h, v)
      <4>1. \A v \in 0 .. k : h[v] = g[v] /\ (v # 0 => h[v - 1] = g[v - 1])
        OBVIOUS
      <4>2. \A v \in 0 .. k : g[v] = next(g, v)
        BY <2>1 DEF IsFill
      <4> QED
        BY <4>1, <4>2
    <3>2. h[k + 1] = next(h, k + 1)
      <4>1. (k + 1) - 1 = k /\ h[k] = g[k] /\ h[k + 1] = more /\ k + 1 # 0
        OBVIOUS
      <4> HIDE DEF h
      <4> QED
        BY <4>1
    <3>3. \A v \in 0 .. k + 1 : v \in 0 .. k \/ v = k + 1
      OBVIOUS
    <3>4. \A v \in 0 .. k + 1 : h[v] = next(h, v)
      BY <3>1, <3>2, <3>3
    <3>5. h = [v \in 0 .. k + 1 |-> h[v]]
      OBVIOUS
    <3> HIDE DEF h
    <3>6. h = [v \in 0 .. k + 1 |-> next(h, v)]
      BY <3>4, <3>5
    <3> QED
      BY <3>6 DEF IsFill
  <2> QED
    BY <2>2
<1> HIDE DEF T
<1>3. Nat \subseteq T
  BY <1>1, <1>2, NatInduct
<1> QED
  BY <1>3 DEF T

LEMMA FilledVoxels ==
  ASSUME NEW a \in Seq(Int), NEW l, NVoxels \in Nat
  PROVE  /\ Filled(a, l) \in Seq(0 .. NVoxels - 1)
         /\ Filled(a, l) # <<>> => Len(a) >= NVoxels
<1>1. CASE Len(a) < NVoxels
  BY <1>1 DEF Filled
<1>2. CASE ~(Len(a) < NVoxels)
  <2> DEFINE f == CHOOSE f : IsFill(a, l, NVoxels, f)
  <2>1. Filled(a, l) = f[NVoxels]
    BY <1>2 DEF Filled, IsFill
  <2>2. IsFill(a, l, NVoxels, f)
    BY FillExists
  <2> HIDE DEF f
  <2> DEFINE T == {k \in Nat : k <= NVoxels => f[k] \in Seq(0 .. NVoxels - 1)}
  <2>3. 0 \in T
    BY <2>2 DEF IsFill
  <2>4. ASSUME NEW k \in Nat, k \in T PROVE k + 1 \in T
    <3> SUFFICES ASSUME k + 1 <= NVoxels PROVE f[k + 1] \in Seq(0 .. NVoxels - 1)
      OBVIOUS
    <3>1. f[k] \in Seq(0 .. NVoxels - 1)
      BY <2>4
    <3>2. f[k + 1] = IF Holds(a, k, l) THEN Append(f[k], k) ELSE f[k]
      <4>1. k + 1 \in 0 .. NVoxels /\ (k + 1) - 1 = k /\ k + 1 # 0
        OBVIOUS
      <4>2. f[k + 1] = IF k + 1 = 0 THEN <<>>
                       ELSE IF Holds(a, (k + 1) - 1, l)
                            THEN Append(f[(k + 1) - 1], (k + 1) - 1) ELSE f[(k + 1) - 1]
        BY <2>2, <4>1 DEF IsFill
      <4> QED
        BY <4>1, <4>2
    <3>3. k \in 0 .. NVoxels - 1
      OBVIOUS
    <3>4. Append(f[k], k) \in Seq(0 .. NVoxels - 1)
      BY <3>1, <3>3
    <3> QED
      BY <3>1, <3>2, <3>4
  <2> HIDE DEF T
  <2>5. Nat \subseteq T
    BY <2>3, <2>4, NatInduct
  <2> QED
    BY <1>2, <2>1, <2>5 DEF T
<1> QED
  BY <1>1, <1>2

LEMMA LayersOfType ==
  ASSUME NEW a
  PROVE  LayersOf(a) \in Nat
<1> DEFINE filled == {l \in Layers : Filled(a, l) # <<>>}
<1>1. LayersOf(a) = IF filled = {} THEN 0 ELSE CHOOSE l \in filled : \A m \in filled : m <= l
  BY DEF LayersOf
<1>2. NLayers \in Nat /\ filled \subseteq 1 .. NLayers
  BY ShowerAssumption DEF Layers
<1>3. ASSUME filled # {} PROVE \E l \in filled : \A m \in filled : m <= l
  <2> HIDE DEF filled
  <2> DEFINE T == {NLayers - l : l \in filled}
  <2>1. T # {}
    BY <1>3
  <2>2. T \subseteq Nat
    BY <1>2
  <2> HIDE DEF T
  <2>3. PICK t \in T : \A k \in T : t <= k
    BY <2>1, <2>2, Least
  <2>4. PICK l \in filled : t = NLayers - l
    BY <2>3 DEF T
  <2>5. \A m \in filled : NLayers - l <= NLayers - m
    BY <2>3, <2>4 DEF T
  <2> QED
    BY <1>2, <2>5
<1> DEFINE last == CHOOSE l \in filled : \A m \in filled : m <= l
<1>4. filled # {} => last \in filled
  BY <1>3
<1>5. LayersOf(a) = IF filled = {} THEN 0 ELSE last
  BY <1>1
<1> HIDE DEF filled, last
<1>6. filled \subseteq Nat
  BY <1>2
<1>7. filled # {} => last \in Nat
  BY <1>4, <1>6
<1> QED
  BY <1>5, <1>7

LEMMA FractionTypes ==
  ASSUME NEW a \in Seq(Int), NEW e \in Nat \ {0}, NVoxels \in Nat
  PROVE  FractionsOf(a, e) \in Seq(Seq(Int))
<1>1. ASSUME NEW l PROVE
        [i \in 1 .. Len(Filled(a, l)) |-> a[Filled(a, l)[i] + 1] \div e] \in Seq(Int)
  <2> DEFINE vs == Filled(a, l)
  <2>1. vs \in Seq(0 .. NVoxels - 1) /\ (vs # <<>> => Len(a) >= NVoxels)
    BY FilledVoxels
  <2> HIDE DEF vs
  <2>2. Len(vs) \in Nat /\ \A i \in 1 .. Len(vs) : vs[i] \in 0 .. NVoxels - 1 /\ vs # <<>>
    BY <2>1
  <2>3. \A i \in 1 .. Len(vs) : a[vs[i] + 1] \in Int
    BY <2>1, <2>2
  <2>4. \A x \in Int : x \div e \in Int
    OBVIOUS
  <2>5. \A i \in 1 .. Len(vs) : a[vs[i] + 1] \div e \in Int
    BY <2>3, <2>4
  <2>6. [i \in 1 .. Len(vs) |-> a[vs[i] + 1] \div e] \in Seq(Int)
    BY <2>2, <2>5, IsASeq
  <2> QED
    BY <2>6 DEF vs
<1>2. LayersOf(a) \in Nat
  BY LayersOfType
<1> DEFINE F(l) == [i \in 1 .. Len(Filled(a, l)) |-> a[Filled(a, l)[i] + 1] \div e]
<1>3. FractionsOf(a, e) = [l \in 1 .. LayersOf(a) |-> F(l)]
  BY DEF FractionsOf
<1>4. \A l : F(l) \in Seq(Int)
  BY <1>1
<1> DEFINE S == Seq(Int)
           n == LayersOf(a)
<1> HIDE DEF F, S, n
<1>5. [l \in 1 .. n |-> F(l)] \in [1 .. n -> S]
  BY <1>4 DEF S
<1>6. Seq(S) = UNION {[1 .. k -> S] : k \in Nat}
  BY SeqDef
<1>7. [l \in 1 .. n |-> F(l)] \in Seq(S)
  BY <1>2, <1>5, <1>6, Zenon DEF n
<1> QED
  BY <1>3, <1>7 DEF n, S

-----------------------------------------------------------------------------
\* Between the question to the network and its answer the state points to no
\* event; the energy asked for is positive.
NetOK ==
  /\ shape \in Shapes /\ Accepted(shape)
  /\ network /\ pc = "cleared" /\ OnlyScale => total > 0
  /\ answer.voxels \in Seq(Int)
  /\ pc = "asked" => answer.for \in Nat \ {0} /\ aux = [k \in Keys |-> Null]

MLInv == IInv /\ NetOK

LEMMA VoxelCount == ASSUME NetOK PROVE NVoxels \in Nat
<1>1. shape.bounds \in Seq(Nat) /\ shape.used # <<>> /\ Len(shape.bounds) = Len(shape.used) + 1
      /\ shape.used \in Seq(Layers)
  BY SimulatorAssumption DEF NetOK, Accepted
<1>2. Len(shape.bounds) \in 1 .. Len(shape.bounds)
  BY <1>1
<1> QED
  BY <1>1, <1>2 DEF NVoxels, Last

LEMMA AskStep ==
  ASSUME MLInv, NEW a \in Answers, NEW e \in Energies \ {0}, Ask(e, a)
  PROVE  MLInv' /\ picked' = picked
<1>1. IInv /\ network /\ pc = "cleared"
  BY DEF MLInv, Ask
<1>2. live' = {} /\ aux' = [k \in Keys |-> 0]
  BY <1>1, DeletingLeavesNothing DEF Ask, IInv, Null
<1>3. UNCHANGED <<library, path, saved, event, einit, energy, layer, showers, picked, shape, network>>
      /\ total' = 0 /\ pc' = "asked"
  BY DEF Ask, setup, object
<1>4. IInv'
  BY <1>1, <1>2, <1>3 DEF IInv, SetupOK, StoreOK, OneEventAlive, EventOK, FillingOK,
                          TotalIsSumOfLayers
<1>5. a \in Seq(Int) /\ StartEnergy(e) \in Nat \ {0}
  BY <1>1, ShowerAssumption, SimulatorAssumption DEF StartEnergy, MLInv, NetOK, IInv, EventOK
<1>6. answer' = [for |-> StartEnergy(e), voxels |-> a]
  BY DEF Ask
<1>7. NetOK'
  BY <1>2, <1>3, <1>5, <1>6 DEF NetOK, Accepted, MLInv, Null
<1> QED
  BY <1>3, <1>4, <1>7 DEF MLInv

LEMMA TakeAnswerStep ==
  ASSUME MLInv, TakeAnswer
  PROVE  MLInv' /\ picked' = picked
<1>1. IInv /\ pc = "asked" /\ answer.for \in Nat \ {0} /\ answer.voxels \in Seq(Int)
      /\ aux = [k \in Keys |-> Null]
  BY DEF MLInv, NetOK, TakeAnswer
<1>2. live = {}
  BY <1>1 DEF IInv, OneEventAlive, Null
<1>3. event' \in Seq(Seq(Int))
  BY <1>1, FractionTypes, VoxelCount DEF TakeAnswer, MLInv
<1>4. StoreOK' /\ OneEventAlive' /\ EventOK' /\ FillingOK' /\ TotalIsSumOfLayers'
  BY <1>1, <1>2, <1>3, NewEvent DEF TakeAnswer, Stored
<1>5. UNCHANGED <<library, path, saved, picked, shape, answer>> /\ pc' = "layer"
  BY DEF TakeAnswer, setup, object, asked
<1>6. SetupOK'
  BY <1>1, <1>5 DEF IInv, SetupOK
<1>7. NetOK'
  BY <1>5 DEF MLInv, NetOK, Accepted
<1> QED
  BY <1>4, <1>5, <1>6, <1>7 DEF MLInv, IInv

\* All other steps are steps of BinnedShower, or leave what it has alone.
LEMMA NetSteps ==
  ASSUME MLInv,
         \/ NetClear \/ NetThrows \/ NetCrashes \/ NetLayer \/ NetHit \/ NetHitThrows
         \/ \E a \in Answers : AskAgain(a)
         \/ NetBetween
  PROVE  IInv' /\ picked' = picked
<1>1. CASE NetClear \/ NetThrows \/ NetLayer \/ NetHit
  BY <1>1, OtherSteps DEF NetClear, NetThrows, NetLayer, NetHit, MLInv
<1>2. CASE NetHitThrows \/ NetCrashes
  <2>1. UNCHANGED <<library, path, saved, aux, live, showers, picked, event, einit, energy, total, layer>>
        /\ pc' \in {"thrown", "crashed"}
    BY <1>2 DEF NetHitThrows, NetCrashes, setup, store, energies
  <2> QED
    BY <2>1 DEF MLInv, IInv, SetupOK, StoreOK, OneEventAlive, EventOK, FillingOK,
                TotalIsSumOfLayers
<1>3. CASE (\E a \in Answers : AskAgain(a)) \/ NetBetween
  <2>1. UNCHANGED vars
    BY <1>3 DEF AskAgain, NetBetween
  <2> QED
    BY <2>1, OtherSteps DEF MLInv
<1> QED
  BY <1>1, <1>2, <1>3

LEMMA NetOKStep ==
  ASSUME MLInv,
         \/ Library \/ NetClear \/ NetThrows \/ NetCrashes \/ NetLayer \/ NetHit \/ NetHitThrows
         \/ \E a \in Answers : AskAgain(a)
         \/ NetBetween
  PROVE  NetOK'
<1>1. CASE Library
  <2>1. UNCHANGED <<network, shape, answer>> /\ ~network
    BY <1>1 DEF Library, netvars, object, asked
  <2>2. pc' # "asked" \/ UNCHANGED <<pc, aux>>
    BY <1>1 DEF Library, Next, Proceed, Clear, SimulateThrows, SimulateNothing, Simulate,
                SkipLayer, StartLayer, SimulateHit, NextLayer, EndShower, SetUp,
                LoadEventLibrary, SetHdf5Path, SetEventMatching, Save, Restore,
                SetEventLibrary, SameState, store
  <2> QED
    BY <2>1, <2>2 DEF MLInv, NetOK, Accepted
<1>2. CASE NetClear
  BY <1>2 DEF NetClear, Clear, netvars, object, asked, MLInv, NetOK, Accepted
<1>3. CASE NetThrows \/ NetCrashes \/ NetLayer \/ NetHit \/ NetHitThrows
  <2>1. UNCHANGED <<network, shape, answer>> /\ pc' \notin {"asked", "cleared"}
    BY <1>3 DEF NetThrows, NetCrashes, NetLayer, NetHit, NetHitThrows, SimulateThrows, SkipLayer,
                StartLayer, SimulateHit, NextLayer, EndShower, netvars, object, asked
  <2> QED
    BY <2>1 DEF MLInv, NetOK, Accepted
<1>4. CASE \E a \in Answers : AskAgain(a)
  <2>1. PICK a \in Answers : AskAgain(a)
    BY <1>4
  <2>2. UNCHANGED <<network, shape, pc, aux, total>> /\ pc = "asked"
    BY <2>1 DEF AskAgain, vars, object, store, energies
  <2>3. a \in Seq(Int)
    BY SimulatorAssumption
  <2>4. answer' = [answer EXCEPT !.voxels = a]
    BY <2>1 DEF AskAgain
  <2> QED
    BY <2>2, <2>3, <2>4 DEF MLInv, NetOK, Accepted
<1>5. CASE NetBetween
  BY <1>5 DEF NetBetween, vars, store, energies, asked, MLInv, NetOK, Accepted
<1> QED
  BY <1>1, <1>2, <1>3, <1>4, <1>5

LEMMA MLStep ==
  ASSUME MLInv, [MLNext]_mlvars
  PROVE  MLInv' /\ (network => picked' = picked)
<1>1. CASE Library
  BY <1>1, Preserved, NetOKStep DEF Library, MLInv
<1>2. CASE \/ NetClear \/ NetThrows \/ NetCrashes \/ NetLayer \/ NetHit \/ NetHitThrows
           \/ \E a \in Answers : AskAgain(a)
           \/ NetBetween
  BY <1>2, NetSteps, NetOKStep DEF MLInv
<1>3. CASE TakeAnswer
  BY <1>3, TakeAnswerStep
<1>4. CASE \E a \in Answers : \E e \in Energies \ {0} : Ask(e, a)
  BY <1>4, AskStep
<1>5. CASE UNCHANGED mlvars
  <2>1. UNCHANGED vars /\ UNCHANGED <<network, shape, answer, pc, total, aux>>
    BY <1>5 DEF mlvars, vars, object, asked, store, energies
  <2> QED
    BY <2>1, OtherSteps DEF MLInv, NetOK, Accepted
<1>6. CASE \/ LoadSimulator \/ SetUpscaling
           \/ \E file \in MetaFiles, layers \in {Layers} \cup {{l} : l \in Layers} :
                LoadMetaData(file, layers)
           \/ \E l \in Layers : SetBinBoundaries(l, 1)
           \/ \E file \in SubBinFiles, read \in BOOLEAN : LoadSubBins(read, file)
  <2>1. NetBetween
    BY <1>6 DEF LoadSimulator, SetUpscaling, LoadMetaData, SetBinBoundaries, LoadSubBins
  <2> QED
    BY <1>2, <2>1
<1> QED
  BY <1>1, <1>2, <1>3, <1>4, <1>5, <1>6 DEF MLNext

LEMMA MLInitially == MLInit => MLInv
<1> SUFFICES ASSUME MLInit PROVE MLInv
  OBVIOUS
<1>1. IInv /\ pc = "idle"
  BY Initially DEF MLInit, Init
<1>2. shape \in Shapes /\ Accepted(shape) /\ answer = [for |-> 0, voxels |-> <<>>]
  BY DEF MLInit, Accepted
<1> QED
  BY <1>1, <1>2 DEF MLInv, NetOK

THEOREM MLInvariant == MLSpec => []MLInv
BY MLInitially, MLStep, PTL DEF MLSpec

\* All of this holds of the objects that ask a network instead of a library as
\* well, which share what is stored and how hits are made: ...
THEOREM NetworkEventSpent == MLSpec => []EventIsSpent
<1>1. MLInv => EventIsSpent
  BY Spent DEF MLInv
<1> QED
  BY MLInvariant, <1>1, PTL

\* ... however often the network is asked, one event is alive.
THEOREM NetworkOneEvent == MLSpec => []OneEventAlive
<1>1. MLInv => OneEventAlive
  BY DEF MLInv, IInv
<1> QED
  BY MLInvariant, <1>1, PTL

\* An object of the class that reads a library picks its events from there.
THEOREM NetworkOrLibrary == MLSpec => PicksFromLibrary
<1>1. PicksFromLibrary <=> [][picked' # picked => Picks]_vars
  BY PTL DEF PicksFromLibrary, Picks
<1>2. MLInv /\ [MLNext]_mlvars => [picked' # picked => Picks]_vars
  <2> SUFFICES ASSUME MLInv, [MLNext]_mlvars, picked' # picked PROVE Picks
    BY DEF vars
  <2>1. ~network
    BY MLStep
  <2>2. Library
    BY <2>1 DEF MLNext, NetClear, NetThrows, NetCrashes, TakeAnswer, NetLayer, NetHit, NetHitThrows,
                AskAgain, Ask, LoadSimulator, SetUpscaling, LoadMetaData, SetBinBoundaries,
                LoadSubBins, NetBetween, mlvars, vars
  <2> QED
    BY <2>2, PicksStep DEF Library, MLInv, vars
<1> QED
  BY MLInvariant, <1>1, <1>2, PTL DEF MLSpec

-----------------------------------------------------------------------------
\* The walk along the boundaries is defined by a function that exists.
IsWalk(b, n, f) ==
  f = [v \in 0 .. n |-> LET k == IF v = 0 THEN 1 ELSE f[v - 1]
                        IN  IF v = b[k + 1] THEN k + 1 ELSE k]

\* There is one, by induction.
LEMMA WalkExists ==
  ASSUME NEW b, NEW n \in Nat
  PROVE  \E f : IsWalk(b, n, f)
<1> DEFINE T == {m \in Nat : \E f : IsWalk(b, m, f)}
           on(v, k) == IF v = b[k + 1] THEN k + 1 ELSE k
           from(f, v) == IF v = 0 THEN 1 ELSE f[v - 1]
<1>1. \A m, f : IsWalk(b, m, f) <=> f = [v \in 0 .. m |-> on(v, from(f, v))]
  BY DEF IsWalk
<1>2. 0 \in T
  <2>1. PICK f : f = [v \in 0 .. 0 |-> on(0, 1)]
    OBVIOUS
  <2> HIDE DEF on
  <2>2. \A v \in 0 .. 0 : v = 0
    OBVIOUS
  <2>3. f = [v \in 0 .. 0 |-> on(v, from(f, v))]
    BY <2>1, <2>2
  <2> QED
    BY <1>1, <2>3
<1>3. ASSUME NEW m \in Nat, m \in T PROVE m + 1 \in T
  <2> HIDE DEF on
  <2>1. PICK g : g = [v \in 0 .. m |-> on(v, from(g, v))]
    BY <1>1, <1>3
  <2>2. PICK h : h = [v \in 0 .. m + 1 |-> IF v <= m THEN g[v] ELSE on(m + 1, g[m])]
    OBVIOUS
  <2>3. \A v \in 0 .. m : h[v] = on(v, from(h, v))
    <3>1. \A v \in 0 .. m : h[v] = g[v] /\ from(h, v) = from(g, v)
      BY <2>2
    <3>2. \A v \in 0 .. m : g[v] = on(v, from(g, v))
      BY <2>1
    <3> QED
      BY <3>1, <3>2
  <2>4. h[m + 1] = on(m + 1, from(h, m + 1))
    <3>1. (m + 1) - 1 = m /\ m + 1 # 0 /\ m \in 0 .. m + 1 /\ m + 1 \in 0 .. m + 1 /\ ~(m + 1 <= m)
      OBVIOUS
    <3>2. h[m + 1] = on(m + 1, g[m]) /\ h[m] = g[m]
      BY <2>2, <3>1
    <3>3. from(h, m + 1) = g[m]
      BY <3>1, <3>2
    <3> QED
      BY <3>2, <3>3
  <2>5. \A v \in 0 .. m + 1 : v \in 0 .. m \/ v = m + 1
    OBVIOUS
  <2>6. \A v \in 0 .. m + 1 : h[v] = on(v, from(h, v))
    BY <2>3, <2>4, <2>5
  <2>7. h = [v \in 0 .. m + 1 |-> h[v]]
    BY <2>2
  <2> HIDE DEF from
  <2>8. h = [v \in 0 .. m + 1 |-> on(v, from(h, v))]
    BY <2>6, <2>7
  <2> QED
    BY <1>1, <2>8
<1> HIDE DEF T
<1>4. Nat \subseteq T
  BY <1>2, <1>3, NatInduct
<1> QED
  BY <1>4 DEF T

\* Boundaries that rise from each to the next rise.
LEMMA BoundsRise ==
  ASSUME NEW n \in Nat, NEW b, \A k \in 1 .. n + 1 : b[k] \in Int,
         \A k \in 1 .. n : b[k] < b[k + 1],
         NEW j \in 1 .. n + 1, NEW k \in 1 .. n + 1, j < k
  PROVE  b[j] < b[k]
<1> DEFINE T == {m \in Nat : j + m + 1 <= n + 1 => b[j] < b[j + m + 1]}
<1>1. 0 \in T
  OBVIOUS
<1>2. ASSUME NEW m \in Nat, m \in T PROVE m + 1 \in T
  <2> SUFFICES ASSUME j + (m + 1) + 1 <= n + 1 PROVE b[j] < b[j + (m + 1) + 1]
    OBVIOUS
  <2>1. PICK i \in Nat : i = j + m + 1
    OBVIOUS
  <2>2. i \in 1 .. n /\ i + 1 \in 1 .. n + 1 /\ i \in 1 .. n + 1 /\ j + (m + 1) + 1 = i + 1
    BY <2>1
  <2>3. b[j] < b[i] /\ b[i] < b[i + 1]
    BY <1>2, <2>1, <2>2
  <2>4. b[j] \in Int /\ b[i] \in Int /\ b[i + 1] \in Int
    BY <2>2
  <2> QED
    BY <2>2, <2>3, <2>4
<1> HIDE DEF T
<1>3. Nat \subseteq T
  BY <1>1, <1>2, NatInduct
<1>4. PICK m \in Nat : m = k - j - 1
  OBVIOUS
<1>5. m \in T /\ j + m + 1 = k
  BY <1>3, <1>4
<1> QED
  BY <1>5 DEF T

\* The walk finds, for every voxel, the layer between whose boundaries it lies.
LEMMA WalkIs ==
  ASSUME NEW n \in Nat \ {0}, NEW b \in Seq(Nat), Len(b) = n + 1, b[1] = 0,
         \A k \in 1 .. n : b[k] < b[k + 1],
         NEW v \in 0 .. b[n + 1] - 1
  PROVE  /\ Walk(b)[v] \in 1 .. n
         /\ b[Walk(b)[v]] <= v /\ v < b[Walk(b)[v] + 1]
<1>1. \A k \in 1 .. n + 1 : b[k] \in Nat
  <2>1. \A k \in 1 .. Len(b) : b[k] \in Nat
    BY ElementOfSeq, Zenon
  <2> QED
    BY <2>1
<1>2. PICK N \in Nat : N = b[n + 1]
  BY <1>1
<1>3. 0 < N /\ N - 1 \in Nat
  BY <1>1, <1>2, BoundsRise
<1>4. PICK f : IsWalk(b, N - 1, f) /\ Walk(b) = f
  <2>1. Walk(b) = CHOOSE f : IsWalk(b, N - 1, f)
    BY <1>2 DEF Walk, IsWalk
  <2> QED
    BY <1>3, <2>1, WalkExists
<1> DEFINE Found(w) == f[w] \in 1 .. n /\ b[f[w]] <= w /\ w < b[f[w] + 1]
           T == {w \in Nat : w <= N - 1 => Found(w)}
<1>5. \A w \in 0 .. N - 1 : f[w] = LET k == IF w = 0 THEN 1 ELSE f[w - 1]
                                  IN  IF w = b[k + 1] THEN k + 1 ELSE k
  BY <1>4 DEF IsWalk
<1>6. 0 \in T
  <2>1. 0 \in 0 .. N - 1 /\ 1 \in 1 .. n /\ b[1] < b[1 + 1] /\ b[1 + 1] \in Nat
    BY <1>1, <1>3
  <2>2. f[0] = IF 0 = b[1 + 1] THEN 1 + 1 ELSE 1
    BY <1>5, <2>1
  <2>3. f[0] = 1
    BY <2>1, <2>2
  <2> QED
    BY <2>1, <2>3
<1>7. ASSUME NEW w \in Nat, w \in T PROVE w + 1 \in T
  <2> SUFFICES ASSUME w + 1 <= N - 1 PROVE Found(w + 1)
    OBVIOUS
  <2>1. PICK k \in 1 .. n : k = f[w] /\ b[k] <= w /\ w < b[k + 1]
    BY <1>7
  <2>2. w + 1 \in 0 .. N - 1 /\ w + 1 # 0 /\ (w + 1) - 1 = w
    OBVIOUS
  <2>3. f[w + 1] = IF w + 1 = b[k + 1] THEN k + 1 ELSE k
    BY <1>5, <2>1, <2>2
  <2>4. k \in 1 .. n + 1 /\ k + 1 \in 1 .. n + 1 /\ b[k] \in Nat /\ b[k + 1] \in Nat
    BY <1>1
  <2>5. CASE w + 1 = b[k + 1]
    <3>1. k # n
      BY <1>2, <2>5
    <3>2. k + 1 \in 1 .. n /\ b[k + 1] < b[(k + 1) + 1]
      BY <3>1
    <3>3. f[w + 1] = k + 1
      BY <2>3, <2>5
    <3> QED
      BY <2>4, <2>5, <3>2, <3>3
  <2>6. CASE w + 1 # b[k + 1]
    <3>1. f[w + 1] = k
      BY <2>3, <2>6
    <3>2. \A x, y \in Nat : y <= w /\ w < x /\ w + 1 # x => w + 1 < x /\ y <= w + 1
      OBVIOUS
    <3>3. w + 1 < b[k + 1] /\ b[k] <= w + 1
      BY <2>1, <2>4, <2>6, <3>2
    <3> QED
      BY <3>1, <3>3
  <2> QED
    BY <2>5, <2>6
<1> HIDE DEF T
<1>8. Nat \subseteq T
  BY <1>6, <1>7, NatInduct
<1>9. v \in T /\ v <= N - 1
  BY <1>2, <1>8
<1> QED
  BY <1>4, <1>9 DEF T

\* The layer of a voxel is the one the walk finds, and there is no other.
ShapeOK == shape \in Shapes /\ Accepted(shape)
LayerBetween(v) == CHOOSE k \in DOMAIN shape.used : shape.bounds[k] <= v /\ v < shape.bounds[k + 1]
Held(v) == shape.used[Walk(shape.bounds)[v]]

LEMMA LayerOfVoxel ==
  ASSUME ShapeOK, NEW v \in 0 .. NVoxels - 1
  PROVE  /\ NVoxels \in Nat
         /\ Walk(shape.bounds)[v] \in 1 .. Len(shape.used)
         /\ Walk(shape.bounds)[v] = LayerBetween(v)
         /\ Held(v) \in 1 .. NLayers
<1>1. PICK b \in Seq(Nat) : b = shape.bounds
  BY SimulatorAssumption DEF ShapeOK
<1>2. PICK u \in Seq(Layers) : u = shape.used
  BY SimulatorAssumption DEF ShapeOK
<1>3. PICK n \in Nat \ {0} : n = Len(u)
  BY <1>2 DEF ShapeOK, Accepted
<1>4. Len(b) = n + 1 /\ b[1] = 0 /\ \A k \in 1 .. n : b[k] < b[k + 1]
  BY <1>1, <1>2, <1>3, SimulatorAssumption DEF ShapeOK, Accepted
<1>5. \A k \in 1 .. n + 1 : b[k] \in Nat
  BY <1>4, ElementOfSeq, Zenon
<1>6. NVoxels = b[n + 1] /\ NVoxels \in Nat
  BY <1>1, <1>4, <1>5 DEF NVoxels, Last
<1>7. PICK k : k = Walk(b)[v]
  OBVIOUS
<1>8. k \in 1 .. n /\ b[k] <= v /\ v < b[k + 1]
  BY <1>4, <1>6, <1>7, WalkIs
<1>13. /\ v \in Int /\ b[k] \in Int /\ b[k + 1] \in Int
       /\ \A x, y \in Int : v < x /\ x <= y => ~(y <= v)
  <2>1. k \in 1 .. n + 1 /\ k + 1 \in 1 .. n + 1
    BY <1>8
  <2> QED
    BY <1>5, <1>6, <2>1
<1>9. ASSUME NEW j \in 1 .. n, b[j] <= v, v < b[j + 1] PROVE j = k
  <2>1. CASE j < k
    <3>1. j + 1 \in 1 .. n + 1 /\ k \in 1 .. n + 1 /\ (j + 1 = k \/ j + 1 < k)
      BY <1>8, <2>1
    <3>3. b[j + 1] \in Nat /\ b[k] \in Nat
      BY <1>5, <3>1
    <3>4. ASSUME j + 1 < k PROVE b[j + 1] < b[k]
      <4>1. \A i \in 1 .. n + 1 : b[i] \in Int
        BY <1>5
      <4> QED
        BY <4>1, <1>4, <3>1, <3>4, BoundsRise
    <3>2. b[j + 1] <= b[k]
      BY <3>1, <3>3, <3>4
    <3> QED
      BY <1>8, <1>9, <1>13, <3>2, <3>3
  <2>2. CASE k < j
    <3>1. k + 1 \in 1 .. n + 1 /\ j \in 1 .. n + 1 /\ (k + 1 = j \/ k + 1 < j)
      BY <1>8, <2>2
    <3>3. b[k + 1] \in Nat /\ b[j] \in Nat
      BY <1>5, <3>1
    <3>4. ASSUME k + 1 < j PROVE b[k + 1] < b[j]
      <4>1. \A i \in 1 .. n + 1 : b[i] \in Int
        BY <1>5
      <4> QED
        BY <4>1, <1>4, <3>1, <3>4, BoundsRise
    <3>2. b[k + 1] <= b[j]
      BY <3>1, <3>3, <3>4
    <3> QED
      BY <1>8, <1>9, <1>13, <3>2, <3>3
  <2> QED
    BY <1>8, <2>1, <2>2
<1>10. DOMAIN u = 1 .. n
  BY <1>3
<1>11. LayerBetween(v) = k
  <2>1. LayerBetween(v) = CHOOSE j \in 1 .. n : b[j] <= v /\ v < b[j + 1]
    BY <1>1, <1>2, <1>10 DEF LayerBetween
  <2> QED
    BY <1>8, <1>9, <2>1, Zenon
<1>12. u[k] \in Layers
  BY <1>3, <1>8, ElementOfSeq, Zenon
<1> QED
  BY <1>1, <1>2, <1>3, <1>6, <1>7, <1>8, <1>11, <1>12 DEF Held, Layers

\* The voxels that are collected for a layer are those with energy that lie in it,
\* each once.
Lit(a, l, n) == {v \in 0 .. n - 1 : Holds(a, v, l)}

\* They are finitely many,
LEMMA LitFinite ==
  ASSUME NEW a, NEW l, NEW n \in Nat
  PROVE  IsFiniteSet(Lit(a, l, n)) /\ Cardinality(Lit(a, l, n)) \in Nat
<1>1. IsFiniteSet(0 .. n - 1)
  BY FS_Interval
<1>2. IsFiniteSet(Lit(a, l, n))
  BY <1>1, FS_Subset DEF Lit
<1> QED
  BY <1>2, FS_CardinalityType

\* and the loop over all voxels finds them.
LEMMA FilledIs ==
  ASSUME NEW a, NEW l, NVoxels \in Nat, ~(Len(a) < NVoxels)
  PROVE  /\ Filled(a, l) \in Seq(Nat)
         /\ {Filled(a, l)[i] : i \in 1 .. Len(Filled(a, l))} = Lit(a, l, NVoxels)
         /\ Len(Filled(a, l)) = Cardinality(Lit(a, l, NVoxels))
<1> DEFINE f == CHOOSE f : IsFill(a, l, NVoxels, f)
<1>1. Filled(a, l) = f[NVoxels]
  BY DEF Filled, IsFill
<1>2. IsFill(a, l, NVoxels, f)
  BY FillExists
<1> HIDE DEF f
<1> DEFINE Lists(s, k) == /\ s \in Seq(Nat) /\ Len(s) = Cardinality(Lit(a, l, k))
                          /\ {s[i] : i \in 1 .. Len(s)} = Lit(a, l, k)
           Good(k) == Lists(f[k], k)
           T == {k \in Nat : k <= NVoxels => Good(k)}
<1>3. 0 \in T
  <2>1. f[0] = <<>>
    BY <1>2 DEF IsFill
  <2>2. Lit(a, l, 0) = {}
    BY DEF Lit
  <2>3. Cardinality({}) = 0
    BY FS_EmptySet
  <2>4. f[0] \in Seq(Nat) /\ Len(f[0]) = 0 /\ 1 .. 0 = {}
    BY <2>1
  <2>5. {f[0][i] : i \in 1 .. Len(f[0])} = {}
    BY <2>4
  <2> QED
    BY <2>2, <2>3, <2>4, <2>5
<1>4. ASSUME NEW k \in Nat, k \in T PROVE k + 1 \in T
  <2> SUFFICES ASSUME k + 1 <= NVoxels PROVE Good(k + 1)
    OBVIOUS
  <2>1. PICK s \in Seq(Nat) : s = f[k]
    BY <1>4
  <2>2. {s[i] : i \in 1 .. Len(s)} = Lit(a, l, k) /\ Len(s) = Cardinality(Lit(a, l, k))
    BY <1>4, <2>1
  <2>3. f[k + 1] = IF Holds(a, k, l) THEN Append(s, k) ELSE s
    <3>1. k + 1 \in 0 .. NVoxels /\ (k + 1) - 1 = k /\ k + 1 # 0
      OBVIOUS
    <3>2. f[k + 1] = IF k + 1 = 0 THEN <<>>
                     ELSE IF Holds(a, (k + 1) - 1, l)
                          THEN Append(f[(k + 1) - 1], (k + 1) - 1) ELSE f[(k + 1) - 1]
      BY <1>2, <3>1 DEF IsFill
    <3> QED
      BY <2>1, <3>1, <3>2
  <2>4. 0 .. (k + 1) - 1 = (0 .. k - 1) \cup {k} /\ k \notin 0 .. k - 1
    OBVIOUS
  <2>5. CASE Holds(a, k, l)
    <3>1. Lit(a, l, k + 1) = Lit(a, l, k) \cup {k} /\ k \notin Lit(a, l, k)
      BY <2>4, <2>5 DEF Lit
    <3>2. Cardinality(Lit(a, l, k + 1)) = Cardinality(Lit(a, l, k)) + 1
      BY <3>1, LitFinite, FS_AddElement
    <3>3. PICK t : t = Append(s, k)
      OBVIOUS
    <3>4. t \in Seq(Nat) /\ Len(t) = Len(s) + 1 /\ t[Len(s) + 1] = k
          /\ \A i \in 1 .. Len(s) : t[i] = s[i]
      BY <3>3
    <3>5. {t[i] : i \in 1 .. Len(t)} = {s[i] : i \in 1 .. Len(s)} \cup {k}
      <4>1. PICK n \in Nat : n = Len(s)
        OBVIOUS
      <4>2. 1 .. n + 1 = (1 .. n) \cup {n + 1}
        OBVIOUS
      <4>3. Len(t) = n + 1 /\ t[n + 1] = k /\ \A i \in 1 .. n : t[i] = s[i]
        BY <3>4, <4>1
      <4>4. {t[i] : i \in 1 .. n + 1} = {s[i] : i \in 1 .. n} \cup {k}
        BY <4>2, <4>3, Zenon
      <4> QED
        BY <4>1, <4>3, <4>4
    <3>6. f[k + 1] = t
      BY <2>3, <2>5, <3>3
    <3>7. Lists(t, k + 1)
      BY <2>2, <3>1, <3>2, <3>4, <3>5
    <3> HIDE DEF Lists
    <3> QED
      BY <3>6, <3>7
  <2>6. CASE ~Holds(a, k, l)
    <3>1. Lit(a, l, k + 1) = Lit(a, l, k)
      BY <2>4, <2>6 DEF Lit
    <3>2. f[k + 1] = s
      BY <2>3, <2>6
    <3>3. Lit(a, l, k + 1) = {s[i] : i \in 1 .. Len(s)} /\ Len(s) = Cardinality(Lit(a, l, k + 1))
      BY <2>2, <3>1, Zenon
    <3>4. Lists(s, k + 1)
      BY <3>3
    <3> HIDE DEF Lists
    <3> QED
      BY <3>2, <3>4
  <2> QED
    BY <2>5, <2>6
<1> HIDE DEF T
<1>5. Nat \subseteq T
  BY <1>3, <1>4, NatInduct
<1>6. NVoxels \in T
  BY <1>5
<1> QED
  BY <1>1, <1>6 DEF T

\* LayersOf() is the last layer with voxels.
LEMMA LayersOfIs ==
  ASSUME NEW a, NEW l \in 1 .. NLayers, Filled(a, l) # <<>>
  PROVE  l <= LayersOf(a)
<1> DEFINE filled == {m \in Layers : Filled(a, m) # <<>>}
<1>1. NLayers \in Nat /\ filled \subseteq 1 .. NLayers /\ l \in filled
  BY ShowerAssumption DEF Layers
<1>2. LayersOf(a) = CHOOSE i \in filled : \A m \in filled : m <= i
  BY <1>1 DEF LayersOf
<1> HIDE DEF filled
<1> DEFINE T == {NLayers - i : i \in filled}
<1>3. T # {} /\ T \subseteq Nat
  BY <1>1
<1> HIDE DEF T
<1>4. PICK t \in T : \A k \in T : t <= k
  BY <1>3, Least
<1>5. PICK i \in filled : t = NLayers - i
  BY <1>4 DEF T
<1>6. \A m \in filled : NLayers - i <= NLayers - m
  BY <1>4, <1>5 DEF T
<1>7. \A m \in filled : m <= i
  BY <1>1, <1>5, <1>6
<1>8. LayersOf(a) \in filled /\ \A m \in filled : m <= LayersOf(a)
  BY <1>2, <1>5, <1>7, Zenon
<1> QED
  BY <1>1, <1>8

\* Every voxel with energy is collected, in the layer where it lies.
Full(a) == {v \in 0 .. NVoxels - 1 : a[v + 1] > 0}

LEMMA FullIsHeld ==
  ASSUME ShapeOK, NEW a, ~(Len(a) < NVoxels), NEW v \in Full(a)
  PROVE  Held(v) \in 1 .. LayersOf(a) /\ v \in Lit(a, Held(v), NVoxels)
<1>1. v \in 0 .. NVoxels - 1 /\ a[v + 1] > 0
  BY DEF Full
<1>2. NVoxels \in Nat /\ Held(v) \in 1 .. NLayers
  BY <1>1, LayerOfVoxel
<1>3. v \in Lit(a, Held(v), NVoxels)
  BY <1>1 DEF Lit, Holds, Held
<1>4. Filled(a, Held(v)) # <<>>
  <2>1. {Filled(a, Held(v))[i] : i \in 1 .. Len(Filled(a, Held(v)))} = Lit(a, Held(v), NVoxels)
    BY <1>2, FilledIs
  <2>2. PICK i : i \in 1 .. Len(Filled(a, Held(v)))
    BY <1>3, <2>1
  <2>3. ASSUME Filled(a, Held(v)) = <<>> PROVE FALSE
    <3>1. i \in 1 .. 0
      BY <2>2, <2>3
    <3> QED
      BY <3>1
  <2> QED
    BY <2>3
<1>5. Held(v) <= LayersOf(a)
  BY <1>2, <1>4, LayersOfIs
<1>6. LayersOf(a) \in Nat
  BY LayersOfType
<1> QED
  BY <1>2, <1>3, <1>5, <1>6

\* The same seen from the voxel.
LEMMA LitIs ==
  ASSUME NEW a, NEW l, NEW v
  PROVE  v \in Lit(a, l, NVoxels) <=> v \in Full(a) /\ Held(v) = l
BY DEF Lit, Full, Holds, Held

\* So the voxels of the layers are together as many as have energy.
LEMMA AllCounted ==
  ASSUME ShapeOK, NVoxels \in Nat, NEW a, ~(Len(a) < NVoxels),
         NEW s, \A l \in 1 .. LayersOf(a) : s[l] = Len(Filled(a, l))
  PROVE  SumUpTo(s, LayersOf(a)) = Cardinality(Full(a))
<1>1. PICK n \in Nat : n = LayersOf(a)
  BY LayersOfType
<1> DEFINE Below(m) == {v \in Full(a) : Held(v) \in 1 .. m}
           T == {m \in Nat : m <= n => SumUpTo(s, m) = Cardinality(Below(m))}
<1>2. \A m \in Nat : IsFiniteSet(Below(m)) /\ Cardinality(Below(m)) \in Nat
  <2>1. IsFiniteSet(0 .. NVoxels - 1)
    BY FS_Interval
  <2>2. ASSUME NEW m \in Nat PROVE Below(m) \subseteq 0 .. NVoxels - 1
    BY DEF Full
  <2> HIDE DEF Below
  <2>3. \A m \in Nat : IsFiniteSet(Below(m))
    BY <2>1, <2>2, FS_Subset
  <2> QED
    BY <2>3, FS_CardinalityType
<1>3. 0 \in T
  <2>1. Below(0) = {}
    OBVIOUS
  <2>2. SumUpTo(s, 0) = 0 /\ Cardinality({}) = 0
    BY SumZero, FS_EmptySet
  <2> QED
    BY <2>1, <2>2
<1>4. ASSUME NEW m \in Nat, m \in T PROVE m + 1 \in T
  <2> SUFFICES ASSUME m + 1 <= n PROVE SumUpTo(s, m + 1) = Cardinality(Below(m + 1))
    OBVIOUS
  <2>1. SumUpTo(s, m) = Cardinality(Below(m))
    BY <1>4
  <2>2. PICK c : c = Lit(a, m + 1, NVoxels)
    OBVIOUS
  <2>3. SumUpTo(s, m + 1) = Cardinality(Below(m)) + Cardinality(c)
    <3>1. m + 1 \in 1 .. n
      OBVIOUS
    <3>2. s[m + 1] = Cardinality(c)
      BY <1>1, <2>2, <3>1, FilledIs
    <3>3. SumUpTo(s, m + 1) = SumUpTo(s, m) + s[m + 1]
      BY SumStep
    <3> QED
      BY <2>1, <3>2, <3>3
  <2>4. Below(m + 1) = Below(m) \cup c
    <3>1. 1 .. m + 1 = (1 .. m) \cup {m + 1}
      OBVIOUS
    <3>2. \A v : v \in c <=> v \in Full(a) /\ Held(v) = m + 1
      BY <2>2, LitIs
    <3> QED
      BY <3>1, <3>2, Zenon
  <2>5. Below(m) \cap c = {}
    <3>1. m + 1 \notin 1 .. m
      OBVIOUS
    <3>2. \A v \in c : Held(v) = m + 1
      BY <2>2, LitIs
    <3> QED
      BY <3>1, <3>2
  <2>6. IsFiniteSet(c) /\ Cardinality(c) \in Nat
    BY <2>2, LitFinite
  <2>7. IsFiniteSet(Below(m)) /\ Cardinality(Below(m)) \in Nat
    BY <1>2
  <2> HIDE DEF Below
  <2>8. Cardinality(Below(m) \cup c) = Cardinality(Below(m)) + Cardinality(c) - Cardinality({})
    BY <2>5, <2>6, <2>7, FS_Union
  <2>9. Cardinality({}) = 0
    BY FS_EmptySet
  <2>10. Cardinality(Below(m + 1)) = Cardinality(Below(m) \cup c)
    BY <2>4
  <2>11. PICK x, y \in Nat : x = Cardinality(Below(m)) /\ y = Cardinality(c)
    BY <2>6, <2>7
  <2>12. Cardinality(Below(m + 1)) = x + y
    BY <2>8, <2>9, <2>10, <2>11
  <2>13. SumUpTo(s, m + 1) = x + y
    BY <2>3, <2>11
  <2> QED
    BY <2>12, <2>13
<1>5. Below(n) = Full(a)
  BY <1>1, FullIsHeld
<1> HIDE DEF T, Below
<1>6. Nat \subseteq T
  BY <1>3, <1>4, NatInduct
<1>7. n \in T
  BY <1>6
<1>8. SumUpTo(s, n) = Cardinality(Below(n))
  BY <1>7 DEF T
<1> QED
  BY <1>1, <1>5, <1>8

\* The energies asked for divide those of the voxels, as fractions of floats would.
WholeShares ==
  \A a \in Answers : \A e \in Energies \ {0} : \A v \in DOMAIN a : a[v] > 0 => a[v] % e = 0

\* An energy in whole shares is worth its shares.
LEMMA WholeShare ==
  ASSUME NEW n \in Nat \ {0}, NEW s \in Nat, s % n = 0
  PROVE  (s \div n) * n = s
<1>1. s = n * (s \div n) /\ s \div n \in Nat
  OBVIOUS
<1>2. PICK q \in Nat : q = s \div n
  BY <1>1
<1> QED
  BY <1>1, <1>2

\* What is in the event is of a voxel with energy, and every such voxel is in it.
LEMMA EventHolds ==
  ASSUME ShapeOK, NVoxels \in Nat, NEW a \in Seq(Int), ~(Len(a) < NVoxels),
         NEW e \in Nat \ {0}, \A v \in 0 .. NVoxels - 1 : a[v + 1] > 0 => a[v + 1] % e = 0,
         event = FractionsOf(a, e), bins = BinsOf(a)
  PROVE  UNION {{<<l, bins[l][i], event[l][i] * e>> : i \in DOMAIN event[l]} : l \in DOMAIN event}
         = {<<shape.used[LayerBetween(v)], v - shape.bounds[LayerBetween(v)], a[v + 1]>> :
              v \in Full(a)}
<1>1. PICK n \in Nat : n = LayersOf(a)
  BY LayersOfType
<1> DEFINE Of(v) == <<Held(v), v - shape.bounds[Walk(shape.bounds)[v]], a[v + 1]>>
           vs(l) == Filled(a, l)
<1>2. ASSUME NEW l \in 1 .. n
      PROVE  /\ DOMAIN event[l] = 1 .. Len(vs(l))
             /\ \A i \in 1 .. Len(vs(l)) :
                  <<l, bins[l][i], event[l][i] * e>>
                    = <<l, vs(l)[i] - shape.bounds[Walk(shape.bounds)[vs(l)[i]]],
                        (a[vs(l)[i] + 1] \div e) * e>>
  <2>1. event[l] = [i \in 1 .. Len(vs(l)) |-> a[vs(l)[i] + 1] \div e]
    BY <1>1, <1>2 DEF FractionsOf
  <2>2. bins[l] = [i \in 1 .. Len(vs(l)) |->
                   vs(l)[i] - shape.bounds[Walk(shape.bounds)[vs(l)[i]]]]
    BY <1>1, <1>2 DEF BinsOf
  <2> HIDE DEF vs
  <2> QED
    BY <2>1, <2>2
<1>3. DOMAIN event = 1 .. n
  BY <1>1 DEF FractionsOf
<1>4. ASSUME NEW v \in Full(a)
      PROVE  (a[v + 1] \div e) * e = a[v + 1]
  <2>1. v \in 0 .. NVoxels - 1 /\ a[v + 1] > 0 /\ a[v + 1] % e = 0
    BY DEF Full
  <2>2. v + 1 \in 1 .. Len(a)
    BY <2>1
  <2>3. a[v + 1] \in Int
    BY <2>2, ElementOfSeq, Zenon
  <2>4. PICK x \in Nat \ {0} : x = a[v + 1] /\ x % e = 0
    BY <2>1, <2>3
  <2> QED
    BY <2>4, WholeShare
<1>5. ASSUME NEW l \in 1 .. n
      PROVE  {<<l, bins[l][i], event[l][i] * e>> : i \in DOMAIN event[l]}
             = {Of(v) : v \in {w \in Full(a) : Held(w) = l}}
  <2>1. PICK s \in Seq(Nat) : s = vs(l)
    BY FilledIs
  <2>2. {s[i] : i \in 1 .. Len(s)} = {w \in Full(a) : Held(w) = l}
    <3>1. {s[i] : i \in 1 .. Len(s)} = Lit(a, l, NVoxels)
      BY <2>1, FilledIs
    <3>2. \A v : v \in Lit(a, l, NVoxels) <=> v \in Full(a) /\ Held(v) = l
      BY LitIs
    <3> QED
      BY <3>1, <3>2, Zenon
  <2>3. ASSUME NEW i \in 1 .. Len(s)
        PROVE  <<l, bins[l][i], event[l][i] * e>> = Of(s[i])
    <3>1. s[i] \in Full(a) /\ Held(s[i]) = l
      BY <2>2
    <3>2. <<l, bins[l][i], event[l][i] * e>>
            = <<l, s[i] - shape.bounds[Walk(shape.bounds)[s[i]]], (a[s[i] + 1] \div e) * e>>
      BY <1>2, <2>1
    <3>3. (a[s[i] + 1] \div e) * e = a[s[i] + 1]
      BY <1>4, <3>1
    <3> QED
      BY <3>1, <3>2, <3>3, Zenon
  <2>4. DOMAIN event[l] = 1 .. Len(s)
    BY <1>2, <2>1
  <2> HIDE DEF Of
  <2>5. {<<l, bins[l][i], event[l][i] * e>> : i \in DOMAIN event[l]} = {Of(s[i]) : i \in 1 .. Len(s)}
    BY <2>3, <2>4, Zenon
  <2>6. {Of(s[i]) : i \in 1 .. Len(s)} = {Of(v) : v \in {s[i] : i \in 1 .. Len(s)}}
    OBVIOUS
  <2> QED
    BY <2>2, <2>5, <2>6
<1>6. UNION {{<<l, bins[l][i], event[l][i] * e>> : i \in DOMAIN event[l]} : l \in DOMAIN event}
        = UNION {{Of(v) : v \in {w \in Full(a) : Held(w) = l}} : l \in 1 .. n}
  <2> DEFINE L(l) == {<<l, bins[l][i], event[l][i] * e>> : i \in DOMAIN event[l]}
             R(l) == {Of(v) : v \in {w \in Full(a) : Held(w) = l}}
  <2>1. \A l \in 1 .. n : L(l) = R(l)
    BY <1>5
  <2> HIDE DEF L, R
  <2>2. {L(l) : l \in DOMAIN event} = {R(l) : l \in 1 .. n}
    BY <1>3, <2>1
  <2> QED
    BY <2>2 DEF L, R
<1>7. \A v \in Full(a) : Held(v) \in 1 .. n
  BY <1>1, FullIsHeld
<1>8. UNION {{Of(v) : v \in {w \in Full(a) : Held(w) = l}} : l \in 1 .. n}
        = {Of(v) : v \in Full(a)}
  <2> HIDE DEF Of
  <2> QED
    BY <1>7
<1>9. ASSUME NEW v \in Full(a)
      PROVE  Of(v) = <<shape.used[LayerBetween(v)], v - shape.bounds[LayerBetween(v)], a[v + 1]>>
  <2>1. v \in 0 .. NVoxels - 1
    BY DEF Full
  <2>2. Walk(shape.bounds)[v] = LayerBetween(v)
    BY <2>1, LayerOfVoxel
  <2> QED
    BY <2>2 DEF Held
<1>10. {Of(v) : v \in Full(a)}
         = {<<shape.used[LayerBetween(v)], v - shape.bounds[LayerBetween(v)], a[v + 1]>> :
              v \in Full(a)}
  <2> HIDE DEF Of
  <2> QED
    BY <1>9, Zenon
<1> QED
  BY <1>6, <1>8, <1>10

\* An event made of an answer is what is promised of it.
LEMMA EventPlaced ==
  ASSUME WholeShares, ShapeOK, NVoxels \in Nat,
         answer.voxels \in Answers, einit \in Energies \ {0},
         event = FractionsOf(answer.voxels, einit), bins = BinsOf(answer.voxels)
  PROVE  VoxelsInTheirBins
<1> DEFINE a == answer.voxels
           e == einit
<1>1. /\ a \in Seq(Int) /\ a \in Answers /\ e \in Nat \ {0} /\ e \in Energies \ {0}
      /\ event = FractionsOf(a, e) /\ bins = BinsOf(a)
  BY SimulatorAssumption, ShowerAssumption
<1> DEFINE whole == Len(a) >= NVoxels
           full == {v \in 0 .. NVoxels - 1 : whole /\ a[v + 1] > 0}
           s == [l \in DOMAIN event |-> Len(event[l])]
           Of(v) == <<shape.used[LayerBetween(v)], v - shape.bounds[LayerBetween(v)], a[v + 1]>>
           InEvent == UNION {{<<l, bins[l][i], event[l][i] * e>> : i \in DOMAIN event[l]} :
                               l \in DOMAIN event}
<1>2. SumUpTo(s, Len(event)) = Cardinality(full) /\ InEvent = {Of(v) : v \in full}
      => VoxelsInTheirBins
  BY Zenon DEF VoxelsInTheirBins, LayerBetween
<1> HIDE DEF a, e
<1>3. PICK n \in Nat : n = LayersOf(a)
  BY LayersOfType
<1>4. Len(event) = n /\ DOMAIN event = 1 .. n
      /\ \A l \in 1 .. n : Len(event[l]) = Len(Filled(a, l))
  <2>1. event = [l \in 1 .. n |-> [i \in 1 .. Len(Filled(a, l)) |-> a[Filled(a, l)[i] + 1] \div e]]
    BY <1>1, <1>3 DEF FractionsOf
  <2>2. event \in Seq(Seq(Int))
    BY <1>1, FractionTypes
  <2>3. DOMAIN event = 1 .. n
    BY <2>1
  <2>4. Len(event) = n
    BY <2>2, <2>3
  <2>5. \A l : Len(Filled(a, l)) \in Nat
    BY <1>1, FilledVoxels
  <2>6. \A l \in 1 .. n : Len(event[l]) = Len(Filled(a, l))
    BY <2>1, <2>5
  <2> QED
    BY <2>3, <2>4, <2>6
<1>5. CASE ~whole
  <2>1. \A l : Filled(a, l) = <<>>
    BY <1>1, <1>5 DEF Filled
  <2>2. n = 0
    BY <1>3, <2>1 DEF LayersOf
  <2>3. full = {}
    BY <1>5
  <2>4. SumUpTo(s, Len(event)) = 0 /\ Cardinality({}) = 0
    BY <1>4, <2>2, SumZero, FS_EmptySet
  <2>5. DOMAIN event = {}
    BY <1>4, <2>2
  <2>6. InEvent = {}
    BY <2>5
  <2> QED
    BY <1>2, <2>3, <2>4, <2>6
<1>6. CASE whole
  <2>1. ~(Len(a) < NVoxels) /\ full = Full(a)
    BY <1>1, <1>6 DEF Full
  <2>2. \A v \in 0 .. NVoxels - 1 : a[v + 1] > 0 => a[v + 1] % e = 0
    BY <1>1, <1>6 DEF WholeShares
  <2>3. \A l \in 1 .. n : s[l] = Len(Filled(a, l))
    BY <1>4
  <2> HIDE DEF s
  <2>4. SumUpTo(s, Len(event)) = Cardinality(full)
    BY <1>3, <1>4, <2>1, <2>3, AllCounted
  <2>5. InEvent = {Of(v) : v \in full}
    <3>1. UNION {{<<l, bins[l][i], event[l][i] * e>> : i \in DOMAIN event[l]} :
                   l \in DOMAIN event}
          = {<<shape.used[LayerBetween(v)], v - shape.bounds[LayerBetween(v)], a[v + 1]>> :
               v \in Full(a)}
      BY <1>1, <2>1, <2>2, EventHolds, Zenon
    <3> QED
      BY <2>1, <3>1, Zenon
  <2> QED
    BY <1>2, <2>4, <2>5
<1> QED
  BY <1>5, <1>6

\* Until the first layer of a network's event is begun, the event is that of the last
\* answer.
EventOfAnswer ==
  /\ answer.voxels \in Answers /\ answer.for \in Energies \ {0}
  /\ event = FractionsOf(answer.voxels, answer.for) /\ bins = BinsOf(answer.voxels)
  /\ einit = answer.for
PlacedInv ==
  /\ network /\ pc = "cleared" => total \in Energies \cup {0}
  /\ network /\ pc = "asked" => answer \in [for : Energies \ {0}, voxels : Answers]
  /\ network /\ pc = "layer" /\ layer = 1 => EventOfAnswer

\* Every step keeps that.
LEMMA PlacedStep ==
  ASSUME MLInv, PlacedInv, [MLNext]_mlvars
  PROVE  PlacedInv'
<1>1. layer \in Nat \ {0}
  BY DEF MLInv, IInv, EventOK
<1>2. CASE Library
  BY <1>2 DEF Library, netvars, object, PlacedInv
<1>3. CASE NetClear
  BY <1>3 DEF NetClear, Clear, PlacedInv
<1>4. CASE NetThrows \/ NetCrashes \/ NetHit \/ NetHitThrows
  <2>1. pc' \notin {"cleared", "asked", "layer"}
    BY <1>4 DEF NetThrows, NetCrashes, SimulateThrows, NetHit, SimulateHit, NetHitThrows
  <2> QED
    BY <2>1 DEF PlacedInv
<1>5. CASE NetLayer
  <2>1. pc' \notin {"cleared", "asked"} /\ ~(pc' = "layer" /\ layer' = 1)
    BY <1>1, <1>5 DEF NetLayer, SkipLayer, StartLayer, NextLayer, EndShower
  <2> QED
    BY <2>1 DEF PlacedInv
<1>6. CASE \E a \in Answers : \E e \in Energies \ {0} : Ask(e, a)
  <2>1. PICK a \in Answers, e \in Energies \ {0} : Ask(e, a)
    BY <1>6
  <2>2. pc' = "asked" /\ answer' = [for |-> StartEnergy(e), voxels |-> a]
    BY <2>1 DEF Ask
  <2>3. StartEnergy(e) \in Energies \ {0}
    BY <2>1, ShowerAssumption DEF Ask, StartEnergy, MLInv, NetOK, PlacedInv
  <2> QED
    BY <2>2, <2>3 DEF PlacedInv
<1>7. CASE \E a \in Answers : AskAgain(a)
  <2>1. PICK a \in Answers : AskAgain(a)
    BY <1>7
  <2>2. UNCHANGED <<network, pc>> /\ network /\ pc = "asked"
        /\ answer' = [answer EXCEPT !.voxels = a]
    BY <2>1 DEF AskAgain, vars, object
  <2>3. answer \in [for : Energies \ {0}, voxels : Answers]
    BY <2>2 DEF PlacedInv
  <2>4. answer' \in [for : Energies \ {0}, voxels : Answers]
    BY <2>2, <2>3
  <2> QED
    BY <2>2, <2>4 DEF PlacedInv
<1>8. CASE TakeAnswer
  <2>1. network /\ pc = "asked" /\ pc' = "layer" /\ UNCHANGED <<shape, answer>>
    BY <1>8 DEF TakeAnswer, object, asked
  <2>2. answer.voxels \in Answers /\ answer.for \in Energies \ {0}
    BY <2>1 DEF PlacedInv
  <2>3. bins' = BinsOf(answer.voxels) /\ event' = FractionsOf(answer.voxels, answer.for)
        /\ einit' = answer.for
    BY <1>8 DEF TakeAnswer, Stored
  <2>4. FractionsOf(answer.voxels, answer.for)' = FractionsOf(answer.voxels, answer.for)
        /\ BinsOf(answer.voxels)' = BinsOf(answer.voxels)
    BY <2>1 DEF FractionsOf, BinsOf, LayersOf, Filled, Holds, NVoxels
  <2> QED
    BY <2>1, <2>2, <2>3, <2>4 DEF PlacedInv, EventOfAnswer
<1>9. CASE NetBetween
  <2>1. pc' = "idle"
    BY <1>9 DEF NetBetween, Between, vars
  <2> QED
    BY <2>1 DEF PlacedInv
<1>10. CASE UNCHANGED mlvars
  <2>1. UNCHANGED <<network, pc, total, layer, event, einit, bins, answer, shape>>
    BY <1>10 DEF mlvars, vars, object, asked, store, energies
  <2>2. FractionsOf(answer.voxels, answer.for)' = FractionsOf(answer.voxels, answer.for)
        /\ BinsOf(answer.voxels)' = BinsOf(answer.voxels)
    BY <2>1 DEF FractionsOf, BinsOf, LayersOf, Filled, Holds, NVoxels
  <2> QED
    BY <2>1, <2>2 DEF PlacedInv, EventOfAnswer
<1>11. CASE \/ LoadSimulator \/ SetUpscaling
            \/ \E file \in MetaFiles, layers \in {Layers} \cup {{l} : l \in Layers} :
                 LoadMetaData(file, layers)
            \/ \E l \in Layers : SetBinBoundaries(l, 1)
            \/ \E file \in SubBinFiles, read \in BOOLEAN : LoadSubBins(read, file)
  <2>1. NetBetween
    BY <1>11 DEF LoadSimulator, SetUpscaling, LoadMetaData, SetBinBoundaries, LoadSubBins
  <2> QED
    BY <1>9, <2>1
<1> QED
  BY <1>2, <1>3, <1>4, <1>5, <1>6, <1>7, <1>8, <1>10, <1>11 DEF MLNext

\* For every network, its layers and boundaries, and whatever it answers, NaN and too
\* few voxels included: the event holds every voxel with energy of the last answer,
\* once, in the layer between whose boundaries it lies and at its place there, and
\* nothing else (TFCSMLCalorimeterSimulator.cxx, getEvent()).
THEOREM VoxelsPlaced == ASSUME WholeShares PROVE MLSpec => []VoxelsInTheirBins
<1>1. MLInit => PlacedInv
  BY DEF MLInit, Init, PlacedInv
<1>2. MLInv /\ PlacedInv /\ [MLNext]_mlvars => PlacedInv'
  BY PlacedStep
<1>3. MLInv /\ PlacedInv => VoxelsInTheirBins
  <2> SUFFICES ASSUME MLInv, PlacedInv, network /\ pc = "layer" /\ layer = 1
               PROVE  VoxelsInTheirBins
    BY DEF VoxelsInTheirBins
  <2>1. EventOfAnswer
    BY DEF PlacedInv
  <2>2. ShapeOK /\ NVoxels \in Nat
    BY VoxelCount DEF MLInv, NetOK, ShapeOK
  <2> QED
    BY <2>1, <2>2, EventPlaced DEF EventOfAnswer
<1> QED
  BY MLInvariant, <1>1, <1>2, <1>3, PTL DEF MLSpec

-----------------------------------------------------------------------------
\* Of the random numbers that are drawn, those below a probability of whole numbers of
\* them are as many as it says.
LEMMA DrawsBelow ==
  ASSUME NEW p \in Nat, NEW w \in Nat \ {0}, p <= w, (p * Grid) % w = 0
  PROVE  \E k \in 0 .. Grid :
           /\ k * w = p * Grid
           /\ \A j \in 0 .. Grid - 1 : /\ (2 * j + 1) * w < p * 2 * Grid <=> j < k
                                       /\ (2 * j + 1) * w <= p * 2 * Grid <=> j < k
<1>1. PICK g \in Nat \ {0} : g = Grid
  BY SimulatorAssumption
<1>2. PICK y \in Nat : y = p * g /\ y = p * Grid
  BY <1>1
<1>3. (y \div w) * w = y
  BY <1>1, <1>2, WholeShare
<1>4. PICK k \in Nat : k = y \div w
  BY <1>2
<1>5. k * w = p * g
  BY <1>2, <1>3, <1>4
<1>6. k <= g
  <2>1. p * g <= w * g
    OBVIOUS
  <2>2. ASSUME k >= g + 1 PROVE FALSE
    <3>1. k * w >= (g + 1) * w
      BY <2>2
    <3>2. (g + 1) * w = w * g + w
      OBVIOUS
    <3> QED
      BY <1>5, <2>1, <3>1, <3>2
  <2> QED
    BY <2>2
<1>7. p * 2 * g = (2 * k) * w
  <2>1. p * 2 * g = 2 * (p * g) /\ (2 * k) * w = 2 * (k * w)
    OBVIOUS
  <2> QED
    BY <1>5, <2>1
<1>8. ASSUME NEW x \in Nat, NEW z \in Nat, x < z PROVE x * w < z * w
  <2>1. PICK c \in Nat : z = x + 1 + c
    <3>1. z = x + 1 + (z - x - 1) /\ z - x - 1 \in Nat
      BY <1>8
    <3> QED
      BY <3>1
  <2>2. z * w = x * w + w + c * w /\ c * w \in Nat /\ x * w \in Nat
    BY <2>1
  <2> QED
    BY <2>2
<1>9. ASSUME NEW j \in 0 .. g - 1
      PROVE  /\ (2 * j + 1) * w < p * 2 * g <=> j < k
             /\ (2 * j + 1) * w <= p * 2 * g <=> j < k
  <2>1. PICK x \in Nat : x = 2 * j + 1
    OBVIOUS
  <2>2. PICK z \in Nat : z = 2 * k
    OBVIOUS
  <2>3. (j < k <=> x < z) /\ (~(j < k) => z < x)
    BY <2>1, <2>2
  <2>4. x * w \in Nat /\ z * w \in Nat
    OBVIOUS
  <2>5. CASE j < k
    BY <1>7, <1>8, <2>1, <2>2, <2>3, <2>4, <2>5
  <2>6. CASE ~(j < k)
    BY <1>7, <1>8, <2>1, <2>2, <2>3, <2>4, <2>6
  <2> QED
    BY <2>5, <2>6
<1>10. k \in 0 .. g
  BY <1>6
<1> QED
  BY <1>1, <1>5, <1>9, <1>10

\* A table rises, and its probabilities are of whole numbers of draws.
Low(t) == t[3] - t[2] + t[1]
Fine(t) ==
  /\ \A k \in 1 .. 3 : t[k] \in Nat
  /\ t[1] <= t[2] /\ t[2] <= t[3] /\ t[3] <= Unit
  /\ (Low(t) * Grid) % Unit = 0
  /\ Low(t) > 0 => (t[1] * Grid) % Low(t) = 0
  /\ Low(t) < Unit => ((t[2] - t[1]) * Grid) % (Unit - Low(t)) = 0

\* The draws of a half in angle, and among them those of a half in radius.
LEMMA HalfOfDraws ==
  ASSUME NEW p \in Nat, NEW w \in Nat, p <= w, w > 0 => (p * Grid) % w = 0
  PROVE  \E k \in 0 .. Grid :
           /\ k * w = p * Grid
           /\ w > 0 => \A j \in 0 .. Grid - 1 : /\ (2 * j + 1) * w < p * 2 * Grid <=> j < k
                                                /\ (2 * j + 1) * w <= p * 2 * Grid <=> j < k
<1>1. CASE w > 0
  BY <1>1, DrawsBelow
<1>2. CASE w = 0
  <2>1. p = 0 /\ 0 \in 0 .. Grid /\ 0 * w = p * Grid
    BY <1>2, SimulatorAssumption
  <2> QED
    BY <1>2, <2>1
<1> QED
  BY <1>1, <1>2

\* How many there are of the draws below k and from k on.
Side(below, k) == IF below THEN 0 .. k - 1 ELSE k .. Grid - 1

\* What is on a side, and how much.
LEMMA SideCount ==
  ASSUME NEW below \in BOOLEAN, NEW k \in 0 .. Grid
  PROVE  /\ IsFiniteSet(Side(below, k))
         /\ Cardinality(Side(below, k)) = IF below THEN k ELSE Grid - k
         /\ Side(below, k) = {j \in 0 .. Grid - 1 : below <=> j < k}
<1>1. PICK g \in Nat \ {0} : g = Grid
  BY SimulatorAssumption
<1>2. CASE below
  <2>1. Side(below, k) = 0 .. k - 1
    BY <1>2 DEF Side
  <2>2. IsFiniteSet(0 .. k - 1) /\ Cardinality(0 .. k - 1) = IF 0 > k - 1 THEN 0 ELSE (k - 1) - 0 + 1
    BY <1>1, FS_Interval
  <2>3. Cardinality(0 .. k - 1) = k
    BY <1>1, <2>2
  <2>4. 0 .. k - 1 = {j \in 0 .. Grid - 1 : j < k}
    BY <1>1
  <2>5. 0 .. k - 1 = {j \in 0 .. Grid - 1 : below <=> j < k}
    BY <1>2, <2>4, Zenon
  <2> QED
    BY <1>2, <2>1, <2>2, <2>3, <2>5
<1>3. CASE ~below
  <2>1. Side(below, k) = k .. Grid - 1
    BY <1>3 DEF Side
  <2>2. IsFiniteSet(k .. Grid - 1)
        /\ Cardinality(k .. Grid - 1) = IF k > Grid - 1 THEN 0 ELSE (Grid - 1) - k + 1
    BY <1>1, FS_Interval
  <2>3. Cardinality(k .. Grid - 1) = Grid - k
    BY <1>1, <2>2
  <2>4. k .. Grid - 1 = {j \in 0 .. Grid - 1 : ~(j < k)}
    BY <1>1
  <2>5. k .. Grid - 1 = {j \in 0 .. Grid - 1 : below <=> j < k}
    BY <1>3, <2>4, Zenon
  <2> QED
    BY <1>3, <2>1, <2>2, <2>3, <2>5
<1> QED
  BY <1>2, <1>3

\* How many draws hit a quarter: the half in angle by its probability, and in it the
\* half in radius by the probability it has there.
ShareOf(t, q) ==
  CASE q.r /\ q.alpha -> t[1] [] q.r /\ ~q.alpha -> t[2] - t[1]
    [] ~q.r /\ q.alpha -> t[3] - t[2] [] OTHER -> Unit - t[3]

\* Both halves together give the quarter its share.
LEMMA DrawsShared ==
  ASSUME NEW t, Fine(t), NEW l, Attains(l, t), NEW q \in [alpha : BOOLEAN, r : BOOLEAN]
  PROVE  Cardinality({d \in Draws : Quarter(t, l, d[1], d[2]) = q}) * Unit
         = ShareOf(t, q) * Grid * Grid
<1>1. PICK g \in Nat \ {0}, u \in Nat \ {0} : g = Grid /\ u = Unit
  BY SimulatorAssumption
<1>2. PICK t1, t2, t3 \in Nat : t1 = t[1] /\ t2 = t[2] /\ t3 = t[3]
  <2>1. 1 \in 1 .. 3 /\ 2 \in 1 .. 3 /\ 3 \in 1 .. 3
    OBVIOUS
  <2> QED
    BY <2>1 DEF Fine
<1>3. PICK low \in Nat : low = t3 - t2 + t1 /\ low = Low(t)
  BY <1>2 DEF Fine, Low
<1>4. t1 <= t2 /\ t2 <= t3 /\ t3 <= u /\ low <= u
  BY <1>1, <1>2, <1>3 DEF Fine
<1>5. PICK m \in 0 .. g :
        m * u = low * g /\ \A i \in 0 .. g - 1 : (2 * i + 1) * u < low * 2 * g <=> i < m
  BY <1>1, <1>3, <1>4, DrawsBelow DEF Fine
<1>6. PICK al \in BOOLEAN, ra \in BOOLEAN : al = q.alpha /\ ra = q.r /\ q = [alpha |-> al, r |-> ra]
  OBVIOUS
<1>7. PICK w \in Nat : w = IF al THEN low ELSE u - low
  <2>1. low \in Nat /\ u - low \in Nat
    BY <1>4
  <2> QED
    BY <2>1, Zenon
<1>8. PICK p \in Nat : p = IF al THEN t1 ELSE t2 - t1
  <2>1. t1 \in Nat /\ t2 - t1 \in Nat
    BY <1>4
  <2> QED
    BY <2>1, Zenon
<1>9. p <= w /\ (w > 0 => (p * g) % w = 0)
  <2>1. CASE al
    <3>1. p = t1 /\ w = low
      BY <1>7, <1>8, <2>1
    <3>2. low > 0 => (t1 * g) % low = 0
      BY <1>1, <1>2, <1>3 DEF Fine
    <3>3. t1 <= low
      BY <1>3, <1>4
    <3> QED
      BY <3>1, <3>2, <3>3
  <2>2. CASE ~al
    <3>1. p = t2 - t1 /\ w = u - low
      BY <1>7, <1>8, <2>2
    <3>2. low < u => ((t2 - t1) * g) % (u - low) = 0
      BY <1>1, <1>2, <1>3 DEF Fine
    <3>3. t2 - t1 <= u - low /\ (u - low > 0 => low < u)
      BY <1>3, <1>4
    <3> QED
      BY <3>1, <3>2, <3>3
  <2> QED
    BY <2>1, <2>2
<1>10. PICK k \in 0 .. g :
         /\ k * w = p * g
         /\ w > 0 => \A j \in 0 .. g - 1 : (2 * j + 1) * w <= p * 2 * g <=> j < k
  BY <1>1, <1>9, HalfOfDraws
<1>11. PICK X : X = Side(al, m)
  OBVIOUS
<1>12. /\ IsFiniteSet(X) /\ Cardinality(X) = IF al THEN m ELSE g - m
       /\ X = {j \in 0 .. g - 1 : al <=> j < m}
  BY <1>1, <1>5, <1>11, SideCount
<1>13. PICK Y : Y = Side(ra, k)
  OBVIOUS
<1>14. /\ IsFiniteSet(Y) /\ Cardinality(Y) = IF ra THEN k ELSE g - k
       /\ Y = {j \in 0 .. g - 1 : ra <=> j < k}
  BY <1>1, <1>10, <1>13, SideCount
<1>15. PICK x \in Nat, y \in Nat : x = Cardinality(X) /\ y = Cardinality(Y)
  <2>1. m \in Nat /\ g - m \in Nat /\ k \in Nat /\ g - k \in Nat
    OBVIOUS
  <2> QED
    BY <1>12, <1>14, <2>1
<1>16. PICK n \in Nat : n = IF ra THEN p ELSE w - p
  <2>1. p \in Nat /\ w - p \in Nat
    BY <1>9
  <2> QED
    BY <2>1, Zenon
<1>17. x * u = w * g
  <2>1. CASE al
    BY <1>5, <1>7, <1>12, <1>15, <2>1
  <2>2. CASE ~al
    <3>1. x = g - m /\ w = u - low
      BY <1>7, <1>12, <1>15, <2>2
    <3>2. (g - m) * u = g * u - m * u /\ (u - low) * g = u * g - low * g
      OBVIOUS
    <3> QED
      BY <1>5, <3>1, <3>2
  <2> QED
    BY <2>1, <2>2
<1>18. y * w = n * g
  <2>1. CASE ra
    BY <1>10, <1>14, <1>15, <1>16, <2>1
  <2>2. CASE ~ra
    <3>1. y = g - k /\ n = w - p
      BY <1>14, <1>15, <1>16, <2>2
    <3>2. (g - k) * w = g * w - k * w /\ (w - p) * g = w * g - p * g
      OBVIOUS
    <3> QED
      BY <1>10, <3>1, <3>2
  <2> QED
    BY <2>1, <2>2
<1>19. ShareOf(t, q) = n
  <2>1. CASE al /\ ra
    BY <1>1, <1>2, <1>6, <1>7, <1>8, <1>16, <2>1 DEF ShareOf
  <2>2. CASE al /\ ~ra
    <3>1. n = t3 - t2
      BY <1>3, <1>7, <1>8, <1>16, <2>2
    <3> QED
      BY <1>2, <1>6, <2>2, <3>1 DEF ShareOf
  <2>3. CASE ~al /\ ra
    BY <1>1, <1>2, <1>6, <1>7, <1>8, <1>16, <2>3 DEF ShareOf
  <2>4. CASE ~al /\ ~ra
    <3>1. n = u - t3
      BY <1>3, <1>7, <1>8, <1>16, <2>4
    <3> QED
      BY <1>1, <1>2, <1>6, <2>4, <3>1 DEF ShareOf
  <2> QED
    BY <2>1, <2>2, <2>3, <2>4
<1>20. (x * y) * u = n * g * g
  <2>1. (x * y) * u = (x * u) * y /\ (w * g) * y = (y * w) * g
    OBVIOUS
  <2> QED
    BY <1>17, <1>18, <2>1
<1>21. Cardinality({d \in Draws : Quarter(t, l, d[1], d[2]) = q}) = x * y
  <2> DEFINE S == {d \in Draws : Quarter(t, l, d[1], d[2]) = q}
  <2>1. ASSUME NEW i \in 0 .. g - 1, NEW j \in 0 .. g - 1
        PROVE  Quarter(t, l, i, j) = q <=> i \in X /\ j \in Y
    <3>1. PICK A \in BOOLEAN : A <=> (2 * i + 1) * u < low * 2 * g
      OBVIOUS
    <3>2. PICK d \in Nat : d = IF A THEN low ELSE u - low
      <4>1. low \in Nat /\ u - low \in Nat
        BY <1>4
      <4> QED
        BY <4>1, Zenon
    <3>3. PICK c \in Nat : c = IF A THEN t1 ELSE t2 - t1
      <4>1. t1 \in Nat /\ t2 - t1 \in Nat
        BY <1>4
      <4> QED
        BY <4>1, Zenon
    <3>4. PICK R \in BOOLEAN : R <=> (2 * j + 1) * d <= c * 2 * g
      OBVIOUS
    <3>5. Quarter(t, l, i, j) = [alpha |-> A, r |-> R]
      <4> DEFINE P == (2 * i + 1) * Unit < Low(t) * 2 * Grid
                 d0 == IF P THEN Low(t) ELSE Unit - Low(t)
                 c0 == IF P THEN t[1] ELSE t[2] - t[1]
                 Q == (2 * j + 1) * d0 <= c0 * 2 * Grid
      <4>0. Inner(l, c0, d0) = <<c0, d0>>
        BY Zenon DEF Attains, Low
      <4>1. Quarter(t, l, i, j) = [alpha |-> P, r |-> Q]
        <5>1. Inner(l, c0, d0)[1] = c0 /\ Inner(l, c0, d0)[2] = d0
          <6>1. PICK c1, d1 : c1 = c0 /\ d1 = d0
            OBVIOUS
          <6>2. <<c1, d1>>[1] = c1 /\ <<c1, d1>>[2] = d1
            OBVIOUS
          <6>3. Inner(l, c0, d0) = <<c1, d1>>
            BY <4>0, <6>1, Zenon
          <6> QED
            BY <6>1, <6>2, <6>3, Zenon
        <5>2. Quarter(t, l, i, j)
              = [alpha |-> P, r |-> (2 * j + 1) * Inner(l, c0, d0)[2] <= Inner(l, c0, d0)[1] * 2 * Grid]
          BY Zenon DEF Quarter, Low
        <5> QED
          BY <5>1, <5>2, Zenon
      <4>2. P <=> A
        BY <1>1, <1>3, <3>1
      <4>3. d0 = d
        BY <1>1, <1>3, <3>2, <4>2, Zenon
      <4>4. c0 = c
        BY <1>2, <3>3, <4>2, Zenon
      <4> HIDE DEF P, d0, c0
      <4>5. Q <=> R
        BY <1>1, <3>4, <4>3, <4>4, Zenon
      <4>6. P = A
        <5>1. PICK x0, z0 \in Int : x0 = (2 * i + 1) * Unit /\ z0 = Low(t) * 2 * Grid
          BY <1>1, <1>3
        <5> QED
          BY <4>2, <5>1 DEF P
      <4>7. Q = R
        <5>1. PICK x0, z0 \in Int : x0 = (2 * j + 1) * d /\ z0 = c * 2 * g
          OBVIOUS
        <5>2. R = (x0 <= z0)
          BY <3>4, <5>1
        <5>3. Q = (x0 <= z0)
          BY <1>1, <4>3, <4>4, <5>1, Zenon
        <5> QED
          BY <5>2, <5>3
      <4> HIDE DEF Q
      <4> QED
        BY <4>1, <4>6, <4>7, Zenon
    <3>6. Quarter(t, l, i, j) = q <=> A = al /\ R = ra
      BY <1>6, <3>5
    <3>7. A <=> i < m
      BY <1>5, <3>1
    <3>8. i \in X <=> A = al
      BY <1>12, <3>7, Zenon
    <3>9. ASSUME A = al PROVE R = ra <=> j \in Y
      <4>1. d = w /\ c = p
        BY <1>7, <1>8, <3>2, <3>3, <3>9, Zenon
      <4>2. w > 0
        <5>1. i \in X
          BY <3>8, <3>9
        <5>2. x # 0
          BY <5>1, <1>12, <1>15, FS_EmptySet
        <5>3. PICK z \in Nat \ {0} : z = x
          BY <5>2
        <5>4. z * u > 0
          OBVIOUS
        <5> QED
          BY <1>17, <5>3, <5>4
      <4>3. R <=> j < k
        BY <1>10, <3>4, <4>1, <4>2
      <4> QED
        BY <1>14, <4>3, Zenon
    <3> QED
      BY <3>6, <3>8, <3>9, Zenon
  <2>2. X \subseteq 0 .. g - 1 /\ Y \subseteq 0 .. g - 1
    BY <1>12, <1>14
  <2>3. S = X \X Y
    <3>1. Draws = (0 .. g - 1) \X (0 .. g - 1)
      BY <1>1 DEF Draws
    <3> QED
      BY <2>1, <2>2, <3>1
  <2>4. Cardinality(X \X Y) = Cardinality(X) * Cardinality(Y)
    BY <1>12, <1>14, FS_Product
  <2> QED
    BY <1>15, <2>3, <2>4
<1> QED
  BY <1>1, <1>19, <1>20, <1>21

\* The tables asked for while hits are made in the voxels of the event are of whole
\* numbers of draws.
TablesAreFine ==
  network /\ upscaling /\ pc = "filled" =>
    \A b \in ToSet(bins[layer]) : Fine(Probabilities(layer, b, einit))

\* So the quarters get what the tables say.
LEMMA QuartersAsDistributed == TablesAreFine => SubBinsAsDistributed
<1> SUFFICES ASSUME TablesAreFine, network /\ upscaling /\ pc = "filled",
                    NEW b \in {c \in ToSet(bins[layer]) : Attains(layer, Probabilities(layer, c, einit))},
                    NEW q \in [alpha : BOOLEAN, r : BOOLEAN]
             PROVE  LET t == Probabilities(layer, b, einit)
                    IN  Cardinality({d \in Draws : Quarter(t, layer, d[1], d[2]) = q}) * Unit
                          = ShareOf(t, q) * Grid * Grid
  BY Zenon DEF SubBinsAsDistributed, ShareOf
<1>1. PICK t : t = Probabilities(layer, b, einit)
  OBVIOUS
<1>2. Fine(t)
  BY <1>1 DEF TablesAreFine
<1> QED
  BY <1>1, <1>2, DrawsShared

\* And for every grid of random numbers and tables that are of whole numbers of them:
\* the hits of a voxel go into its quarters as the average showers of the energies
\* around are distributed, though angle and radius are drawn one after the other
\* (TFCSBinnedShowerONNX.cxx, upscale()).
THEOREM AnswerPlaced ==
  ASSUME WholeShares PROVE MLSpec /\ []TablesAreFine => []AnswerIsPlaced
<1>1. VoxelsInTheirBins /\ SubBinsAsDistributed => AnswerIsPlaced
  BY DEF AnswerIsPlaced
<1> QED
  BY VoxelsPlaced, QuartersAsDistributed, <1>1, PTL
=============================================================================
