-------------------------- MODULE ParamTree_proofs --------------------------
(***************************************************************************)
(* Proofs about ParamTree, for every number of objects, every tree that     *)
(* push_back() can build of them, every set of equal leaves and every       *)
(* choice of split chains: removing duplicates leaves no deleted object in  *)
(* the tree and changes nothing of what it runs, a chain's range is that of *)
(* its daughters, and a tree comes back from a file as it was written.      *)
(*                                                                          *)
(* First the induction along a tree and the functions defined along it,     *)
(* then lists, slots and ranges, then one lemma per action.                 *)
(***************************************************************************)
EXTENDS ParamTree, FiniteSetTheorems, SequenceTheorems, WellFoundedInduction, TLAPS

-----------------------------------------------------------------------------
\* A tree whose chains have chains with a higher number only.
TreeShape(ks) ==
  /\ ks \in [Chains -> Seq(Objects)]
  /\ \A c \in Chains : \A i \in 1 .. Len(ks[c]) : ks[c][i] \in Chains => ks[c][i] > c

IsSlot(s) == s \in Chains \X Nat /\ s[2] \in 1 .. Len(kids[s[1]])
Hangs(o) == \E c \in Chains : \E i \in 1 .. Len(kids[c]) : kids[c][i] = o
Has(s, e) == \E k \in 1 .. Len(s) : s[k] = e
ToDo(e) == Has(todo, e)

\* Leaves that are written alike run alike.
Twins(o, p) == o = p \/ ({o, p} \subseteq Leaves /\ Leaf[o] = Leaf[p])

TreeTypes ==
  /\ TreeShape(kids)
  /\ range = [c \in Chains |-> range[c]]
  /\ \A c \in Chains : range[c].ekin \in Interval /\ range[c].eta \in Interval
  /\ alive \subseteq Objects /\ Root \in alive
  /\ phase \in {"ready", "find", "replace", "refind"}
  /\ seen \subseteq Objects \ {Root}
  /\ dellist \subseteq Objects \ {Root}
  /\ replace \in [Objects -> Objects \cup {None}]
  /\ places \in [Objects -> SUBSET (Chains \X Nat)]

\* Daughters exist; while duplicates are removed every chain that has daughters
\* is one of the tree.
AliveInv ==
  /\ \A c \in Chains : \A i \in 1 .. Len(kids[c]) : kids[c][i] \in alive
  /\ phase # "ready" => copy = NoCopy /\ \A c \in Chains : kids[c] # <<>> => c \in Reach

\* A search has seen what hangs in the chains it has seen, or still has it to
\* visit.
SearchInv ==
  phase \in {"find", "refind"} =>
    /\ todo \in Seq(Chains \X Nat)
    /\ \A k \in 1 .. Len(todo) : IsSlot(todo[k]) /\ todo[k][1] \in Reach
    /\ seen \subseteq Reach
    /\ \A c \in Chains \cap (seen \cup {Root}) : \A i \in 1 .. Len(kids[c]) :
         kids[c][i] \in seen \/ ToDo(<<c, i>>)

\* What is to be replaced is replaced by an equal object that stays, and no two
\* that stay are equal.
OriginalsInv ==
  phase \in {"find", "replace"} =>
    /\ \A o \in Objects : replace[o] # None =>
         /\ {o, replace[o]} \subseteq seen /\ o # replace[o]
         /\ replace[replace[o]] = None /\ SameContent(o, replace[o])
    /\ \A o, p \in seen : replace[o] = None /\ replace[p] = None /\ SameContent(o, p) => o = p
    /\ \A ref \in Objects : places[ref] # {} => ref \in seen /\ replace[ref] = None

\* Each place of a duplicate that was visited is listed with the original.
FindInv ==
  phase = "find" =>
    /\ before.objects = Reach
    /\ \A ref \in Objects : \A s \in places[ref] : IsSlot(s) /\ replace[At(s)] = ref
    /\ \A c \in Chains \cap (seen \cup {Root}) : \A i \in 1 .. Len(kids[c]) :
         \/ replace[kids[c][i]] = None
         \/ <<c, i>> \in places[replace[kids[c][i]]]
         \/ ToDo(<<c, i>>)

\* A place of a duplicate still has its replacement to come; what was seen hangs
\* somewhere or is to be deleted.
ReplaceInv ==
  phase = "replace" =>
    /\ seen \subseteq alive /\ before.objects \subseteq seen \cup {Root}
    /\ \A c \in Chains : \A i \in 1 .. Len(kids[c]) : kids[c][i] \in seen
    /\ \A o \in seen : o \in dellist \/ Hangs(o)
    /\ todo \in Seq(Objects \X (Chains \X Nat))
    /\ \A k \in 1 .. Len(todo) :
         LET ref == todo[k][1]
             s == todo[k][2]
         IN  IsSlot(s) /\ s \in places[ref] /\ (At(s) = ref \/ replace[At(s)] = ref)
    /\ \A c \in Chains : \A i \in 1 .. Len(kids[c]) :
         replace[kids[c][i]] # None => ToDo(<<replace[kids[c][i]], <<c, i>>>>)

\* In the end no two objects of the tree are equal, and those that left it are
\* deleted or about to be.
RefindInv ==
  phase = "refind" =>
    /\ \A o, p \in Objects : Hangs(o) /\ Hangs(p) /\ SameContent(o, p) => o = p
    /\ \A o \in before.objects \cap alive : o = Root \/ o \in dellist \/ Hangs(o)

RangeFrom(rg, o) == IF o \in Chains THEN rg[o] ELSE Leaf[o]
RecalcFrom(rg, c, ks) ==
  LET ids == [i \in 1 .. Len(ks) |-> RangeFrom(rg, ks[i]).pdgids]
      es == [i \in 1 .. Len(ks) |-> RangeFrom(rg, ks[i]).ekin]
      etas == [i \in 1 .. Len(ks) |-> RangeFrom(rg, ks[i]).eta]
  IN  [pdgids |-> IF Kind[c] = "pdgid" THEN PdgidUnion(ids) ELSE PdgidIntersect(ids),
       all |-> FALSE,
       ekin |-> IF Kind[c] = "ekin" THEN Joined(es) ELSE Intersected(es),
       eta |-> IF Kind[c] = "eta" THEN Joined(etas) ELSE Intersected(etas)]

\* The ranges that no later addition left behind are those recalc() gives.
RangeInv ==
  \A c \in Chains \ stale : Kind[c] # "hits" /\ kids[c] # <<>> =>
    range[c] = RecalcFrom(range, c, kids[c])

SearchedInv == OriginalsInv /\ FindInv /\ ReplaceInv /\ RefindInv
TreeInv == TreeTypes /\ AliveInv /\ SearchInv /\ SearchedInv /\ RangeInv /\ SameSimulation

-----------------------------------------------------------------------------
\* A set of numbers has a least one, and what holds of 0 and with k of k + 1
\* holds of all numbers.
LEMMA Least ==
  ASSUME NEW T, T \subseteq Nat, T # {}
  PROVE  \E m \in T : \A k \in T : m <= k
<1>1. \E x \in T : \A y \in T : ~(<<y, x>> \in OpToRel(<, Nat))
  BY WFMin, NatLessThanWellFounded
<1>2. \A x, y \in Nat : <<y, x>> \in OpToRel(<, Nat) <=> y < x
  BY DEF OpToRel
<1>3. PICK x \in T : \A y \in T : ~(y < x)
  BY <1>1, <1>2
<1> QED
  BY <1>3

LEMMA NatInduct ==
  ASSUME NEW T, 0 \in T, \A k \in Nat : k \in T => k + 1 \in T
  PROVE  Nat \subseteq T
<1> SUFFICES ASSUME Nat \ T # {} PROVE FALSE
  OBVIOUS
<1>1. PICK m \in Nat \ T : \A k \in Nat \ T : m <= k
  BY Least
<1>2. m - 1 \in Nat /\ m - 1 \notin Nat \ T
  BY <1>1
<1> QED
  BY <1>1, <1>2

\* The objects are numbers; each is a chain or a leaf.
LEMMA NumbersOfObjects ==
  /\ Cardinality(Objects) \in Nat /\ Objects = 1 .. Cardinality(Objects)
  /\ Chains \subseteq Objects /\ Leaves \subseteq Objects
  /\ Root \in Chains /\ None \notin Objects
  /\ \A o \in Objects : o \in Nat /\ (o \in Leaves <=> o \notin Chains)
<1>1. Cardinality(Objects) \in Nat /\ Objects = 1 .. Cardinality(Objects)
  BY TreeAssumption, FS_CardinalityType
<1>2. Chains \subseteq Objects /\ Leaves \subseteq Objects /\ Root \in Chains
  BY TreeAssumption
<1>3. \A o \in Objects : o \in Leaves <=> o \notin Chains
  BY TreeAssumption
<1>4. \A o \in Objects : o \in Nat
  BY <1>1
<1>5. None \notin Objects
  BY <1>1 DEF None
<1> QED
  BY <1>1, <1>2, <1>3, <1>4, <1>5

\* Induction from the leaves up.
LEMMA FromTheLeaves ==
  ASSUME NEW T, Leaves \subseteq T,
         \A c \in Chains : (\A d \in Chains : d > c => d \in T) => c \in T
  PROVE  Objects \subseteq T
<1> DEFINE n == Cardinality(Objects)
           left == {k \in Nat : n - k \in Chains \ T}
<1> SUFFICES ASSUME Objects \ T # {} PROVE FALSE
  OBVIOUS
<1>1. n \in Nat /\ Objects = 1 .. n /\ Chains \subseteq Objects
  BY NumbersOfObjects
<1>2. PICK o \in Chains : o \notin T
  BY NumbersOfObjects
<1>3. n - o \in left
  BY <1>1, <1>2
<1>4. PICK m \in left : \A k \in left : m <= k
  BY <1>3, Least
<1>5. \A d \in Chains : d > n - m => d \in T
  <2> SUFFICES ASSUME NEW d \in Chains, d > n - m, d \notin T PROVE FALSE
    OBVIOUS
  <2>1. d \in 1 .. n /\ m \in Nat
    BY <1>1
  <2>2. \A x \in Nat : \A y \in 1 .. x : x - y \in Nat /\ x - (x - y) = y
    OBVIOUS
  <2>3. n - d \in left
    BY <1>1, <2>1, <2>2
  <2> QED
    BY <1>4, <1>1, <2>1, <2>3
<1> QED
  BY <1>4, <1>5

\* The function that is defined along the tree ks: a leaf runs itself, a chain
\* what its slots hold -- a value V from elsewhere for the slots of Q.
RunOf(ks, Q, V, f, o) ==
  IF o \in Leaves THEN Simulates(o)
  ELSE RunsIn([i \in 1 .. Len(ks[o]) |->
                 IF <<o, i>> \in Q THEN V[<<o, i>>] ELSE f[ks[o][i]]])
IsRun(ks, Q, V, f) == f = [o \in Objects |-> RunOf(ks, Q, V, f, o)]

\* There is such a function, built from the highest number down ...
LEMMA RunExists ==
  ASSUME NEW ks, TreeShape(ks), NEW Q, NEW V
  PROVE  \E f : IsRun(ks, Q, V, f)
<1> DEFINE n == Cardinality(Objects)
           Part(f, m) == /\ f = [o \in Objects |-> f[o]]
                         /\ \A o \in Objects : o \in Leaves \/ o >= m => f[o] = RunOf(ks, Q, V, f, o)
           T == {k \in Nat : \E f : Part(f, n + 1 - k)}
<1>1. n \in Nat /\ Objects = 1 .. n /\ Chains \subseteq Objects
  BY NumbersOfObjects
<1>2. 0 \in T
  <2> DEFINE f == [o \in Objects |-> Simulates(o)]
  <2>1. Part(f, n + 1)
    BY <1>1 DEF RunOf
  <2>2. n + 1 - 0 = n + 1
    BY <1>1
  <2> HIDE DEF Part
  <2> QED
    BY <2>1, <2>2
<1>3. ASSUME NEW k \in Nat, k \in T PROVE k + 1 \in T
  <2> DEFINE m == n + 1 - k
  <2>1. PICK f : Part(f, m)
    BY <1>3
  <2>2. m \in Int /\ n + 1 - (k + 1) = m - 1
    BY <1>1
  <2> HIDE DEF m
  <2>3. CASE m - 1 \notin Chains
    <3>1. \A o \in Objects : o \in Leaves \/ o >= m - 1 => o \in Leaves \/ o >= m
      BY <1>1, <2>2, <2>3, NumbersOfObjects
    <3>2. Part(f, m - 1)
      BY <2>1, <3>1
    <3> QED
      BY <2>2, <3>2
  <2>4. CASE m - 1 \in Chains
    <3> DEFINE g == [f EXCEPT ![m - 1] = RunOf(ks, Q, V, f, m - 1)]
    <3>1. m - 1 \in Objects /\ m - 1 \notin Leaves
      BY <1>1, <2>4, NumbersOfObjects
    <3>2. g = [o \in Objects |-> g[o]] /\ \A o \in Objects : o # m - 1 => g[o] = f[o]
      BY <2>1, <3>1
    <3>3. g[m - 1] = RunOf(ks, Q, V, f, m - 1)
      BY <2>1, <3>1
    <3>4. ASSUME NEW o \in Objects, o \in Leaves \/ o >= m - 1
          PROVE  RunOf(ks, Q, V, g, o) = RunOf(ks, Q, V, f, o)
      <4>1. CASE o \in Leaves
        BY <4>1 DEF RunOf
      <4>2. CASE o \notin Leaves
        <5>1. o \in Chains /\ o >= m - 1
          BY <3>4, <4>2, NumbersOfObjects
        <5>2. \A i \in 1 .. Len(ks[o]) : ks[o][i] \in Objects /\ ks[o][i] # m - 1
          BY <5>1, <2>2, <2>4, <1>1 DEF TreeShape
        <5>3. \A i \in 1 .. Len(ks[o]) : g[ks[o][i]] = f[ks[o][i]]
          BY <5>2, <3>2
        <5> HIDE DEF g
        <5> QED
          BY <4>2, <5>3 DEF RunOf
      <4> QED
        BY <4>1, <4>2
    <3>5. ASSUME NEW o \in Objects, o \in Leaves \/ o >= m - 1
          PROVE  g[o] = RunOf(ks, Q, V, g, o)
      <4>1. CASE o = m - 1
        BY <3>3, <3>4, <3>5, <4>1
      <4>2. CASE o # m - 1
        <5>1. o \in Leaves \/ o >= m
          BY <4>2, <3>5, <2>2, <1>1
        <5> QED
          BY <2>1, <3>2, <3>4, <3>5, <4>2, <5>1
      <4> QED
        BY <4>1, <4>2
    <3> HIDE DEF g
    <3>6. Part(g, m - 1)
      BY <3>2, <3>5
    <3> QED
      BY <2>2, <3>6
  <2> QED
    BY <2>3, <2>4
<1> HIDE DEF T
<1>4. n \in T
  BY <1>1, <1>2, <1>3, NatInduct
<1>5. PICK f : Part(f, 1)
  BY <1>1, <1>4 DEF T
<1>6. \A o \in Objects : o >= 1
  BY <1>1
<1>7. IsRun(ks, Q, V, f)
  BY <1>5, <1>6 DEF IsRun
<1> QED
  BY <1>7

\* ... and only one.
LEMMA RunUnique ==
  ASSUME NEW ks, TreeShape(ks), NEW Q, NEW V, NEW f, NEW g, IsRun(ks, Q, V, f), IsRun(ks, Q, V, g)
  PROVE  f = g
<1> DEFINE T == {o \in Objects : f[o] = g[o]}
<1>1. \A o \in Objects : f[o] = RunOf(ks, Q, V, f, o) /\ g[o] = RunOf(ks, Q, V, g, o)
  BY DEF IsRun
<1>2. Leaves \subseteq T
  BY <1>1, NumbersOfObjects DEF RunOf
<1>3. ASSUME NEW c \in Chains, \A d \in Chains : d > c => d \in T PROVE c \in T
  <2>1. c \in Objects /\ c \notin Leaves
    BY NumbersOfObjects
  <2>2. \A i \in 1 .. Len(ks[c]) : ks[c][i] \in T
    <3> SUFFICES ASSUME NEW i \in 1 .. Len(ks[c]) PROVE ks[c][i] \in T
      OBVIOUS
    <3>1. ks[c][i] \in Objects /\ (ks[c][i] \in Chains => ks[c][i] > c)
      BY DEF TreeShape
    <3> QED
      BY <3>1, <1>2, <1>3, NumbersOfObjects
  <2>3. \A i \in 1 .. Len(ks[c]) : f[ks[c][i]] = g[ks[c][i]]
    BY <2>2
  <2>4. RunOf(ks, Q, V, f, c) = RunOf(ks, Q, V, g, c)
    BY <2>1, <2>3 DEF RunOf
  <2> QED
    BY <1>1, <2>1, <2>4
<1> HIDE DEF T
<1>4. Objects \subseteq T
  BY <1>2, <1>3, FromTheLeaves
<1>5. \A o \in Objects : f[o] = g[o]
  BY <1>4 DEF T
<1>6. f = [o \in Objects |-> f[o]] /\ g = [o \in Objects |-> g[o]]
  BY DEF IsRun
<1> QED
  BY <1>5, <1>6

\* What a tree simulates is one of these functions.
LEMMA SimulatedRun ==
  ASSUME NEW ks, TreeShape(ks)
  PROVE  IsRun(ks, {}, <<>>, Simulated(ks))
<1>1. PICK f : IsRun(ks, {}, <<>>, f)
  BY RunExists
<1>2. \A g : IsRun(ks, {}, <<>>, g) <=>
        g = [o \in Objects |-> IF o \in Leaves THEN Simulates(o)
                               ELSE RunsIn([i \in 1 .. Len(ks[o]) |-> g[ks[o][i]]])]
  BY DEF IsRun, RunOf
<1> QED
  BY <1>1, <1>2 DEF Simulated

LEMMA SimulatedIs ==
  ASSUME NEW ks, TreeShape(ks)
  PROVE  /\ Simulated(ks) = [o \in Objects |-> Simulated(ks)[o]]
         /\ \A o \in Leaves : Simulated(ks)[o] = Simulates(o)
         /\ \A c \in Chains :
              Simulated(ks)[c] = RunsIn([i \in 1 .. Len(ks[c]) |-> Simulated(ks)[ks[c][i]]])
<1>1. IsRun(ks, {}, <<>>, Simulated(ks))
  BY SimulatedRun
<1>2. \A o \in Objects : Simulated(ks)[o] = RunOf(ks, {}, <<>>, Simulated(ks), o)
  BY <1>1 DEF IsRun
<1>3. \A c \in Chains : c \in Objects /\ c \notin Leaves
  BY NumbersOfObjects
<1>4. Simulated(ks) = [o \in Objects |-> Simulated(ks)[o]]
  BY <1>1 DEF IsRun
<1>5. \A o \in Leaves : Simulated(ks)[o] = Simulates(o)
  BY <1>2, NumbersOfObjects DEF RunOf
<1>6. \A c \in Chains :
        Simulated(ks)[c] = RunsIn([i \in 1 .. Len(ks[c]) |-> Simulated(ks)[ks[c][i]]])
  BY <1>2, <1>3 DEF RunOf
<1> QED
  BY <1>4, <1>5, <1>6

-----------------------------------------------------------------------------
\* What hangs below an object is the least set that has it and with a chain its
\* daughters.
Closed(ks, S) == \A c \in Chains \cap S : \A i \in 1 .. Len(ks[c]) : ks[c][i] \in S
LeastClosed(ks) ==
  [o \in Objects |-> {p \in Objects : \A S \in SUBSET Objects : o \in S /\ Closed(ks, S) => p \in S}]
IsBelow(ks, f) ==
  f = [o \in Objects |->
         {o} \cup IF o \in Leaves THEN {} ELSE UNION {f[ks[o][i]] : i \in 1 .. Len(ks[o])}]

\* The least closed set is what Below() defines, and nothing else is.
LEMMA LeastClosedIsBelow ==
  ASSUME NEW ks, TreeShape(ks)
  PROVE  IsBelow(ks, LeastClosed(ks))
<1> DEFINE B == LeastClosed(ks)
<1>5. B = [o \in Objects |-> B[o]]
  BY DEF LeastClosed
<1>0. \A o \in Objects : \A p : p \in B[o] <=>
        p \in Objects /\ \A S \in SUBSET Objects : o \in S /\ Closed(ks, S) => p \in S
  BY DEF LeastClosed
<1> HIDE DEF B
<1>1. \A o \in Objects : B[o] \subseteq Objects /\ o \in B[o]
  BY <1>0
<1>4. \A c \in Chains : \A i \in 1 .. Len(ks[c]) : c \in Objects /\ ks[c][i] \in Objects
  BY NumbersOfObjects DEF TreeShape
<1>2. \A o \in Objects : Closed(ks, B[o])
  <2> SUFFICES ASSUME NEW o \in Objects, NEW c \in Chains \cap B[o], NEW i \in 1 .. Len(ks[c])
               PROVE  ks[c][i] \in B[o]
    BY DEF Closed
  <2>1. ASSUME NEW S \in SUBSET Objects, o \in S, Closed(ks, S) PROVE ks[c][i] \in S
    <3>1. c \in S
      BY <1>0, <2>1
    <3> QED
      BY <2>1, <3>1 DEF Closed
  <2> QED
    BY <1>0, <1>4, <2>1
<1>3. \A o \in Objects : \A S \in SUBSET Objects : o \in S /\ Closed(ks, S) => B[o] \subseteq S
  BY <1>0
<1>6. ASSUME NEW o \in Leaves PROVE B[o] = {o}
  <2>1. o \in Objects /\ o \notin Chains
    BY NumbersOfObjects
  <2>2. Closed(ks, {o})
    BY <2>1 DEF Closed
  <2> QED
    BY <1>1, <1>3, <2>1, <2>2
<1>7. ASSUME NEW c \in Chains
      PROVE  B[c] = {c} \cup UNION {B[ks[c][i]] : i \in 1 .. Len(ks[c])}
  <2> DEFINE U == {c} \cup UNION {B[ks[c][i]] : i \in 1 .. Len(ks[c])}
  <2>1. \A i \in 1 .. Len(ks[c]) : B[ks[c][i]] \subseteq B[c]
    <3> SUFFICES ASSUME NEW i \in 1 .. Len(ks[c]) PROVE B[ks[c][i]] \subseteq B[c]
      OBVIOUS
    <3>1. ks[c][i] \in B[c]
      BY <1>1, <1>2, <1>4 DEF Closed
    <3> QED
      BY <1>1, <1>2, <1>3, <1>4, <3>1
  <2>2. U \subseteq B[c]
    <3> SUFFICES ASSUME NEW x \in U, x # c PROVE x \in B[c]
      BY <1>1, NumbersOfObjects
    <3>1. PICK i \in 1 .. Len(ks[c]) : x \in B[ks[c][i]]
      OBVIOUS
    <3> QED
      BY <2>1, <3>1
  <2>3. Closed(ks, U)
    <3> SUFFICES ASSUME NEW d \in Chains \cap U, NEW j \in 1 .. Len(ks[d]) PROVE ks[d][j] \in U
      BY DEF Closed
    <3>1. CASE d = c
      BY <1>1, <1>4, <3>1
    <3>2. CASE d # c
      <4>1. PICK i \in 1 .. Len(ks[c]) : d \in B[ks[c][i]]
        BY <3>2
      <4>2. ks[d][j] \in B[ks[c][i]]
        BY <1>2, <1>4, <4>1 DEF Closed
      <4> QED
        BY <4>2
    <3> QED
      BY <3>1, <3>2
  <2>4. U \in SUBSET Objects /\ c \in U
    <3>1. c \in Objects /\ B[c] \subseteq Objects
      BY <1>1, NumbersOfObjects
    <3> QED
      BY <2>2, <3>1
  <2>5. B[c] \subseteq U
    BY <1>3, <1>4, <2>3, <2>4, NumbersOfObjects
  <2> QED
    BY <2>2, <2>5
<1>8. \A o \in Objects : B[o] = {o} \cup IF o \in Leaves THEN {}
                                         ELSE UNION {B[ks[o][i]] : i \in 1 .. Len(ks[o])}
  BY <1>6, <1>7, NumbersOfObjects
<1>9. IsBelow(ks, B)
  BY <1>5, <1>8 DEF IsBelow
<1> QED
  BY <1>9 DEF B

LEMMA BelowUnique ==
  ASSUME NEW ks, TreeShape(ks), NEW f, NEW g, IsBelow(ks, f), IsBelow(ks, g)
  PROVE  f = g
<1> DEFINE T == {o \in Objects : f[o] = g[o]}
           Of(h, o) == {o} \cup IF o \in Leaves THEN {} ELSE UNION {h[ks[o][i]] : i \in 1 .. Len(ks[o])}
<1>1. \A o \in Objects : f[o] = Of(f, o) /\ g[o] = Of(g, o)
  BY DEF IsBelow
<1>2. Leaves \subseteq T
  BY <1>1, NumbersOfObjects
<1>3. ASSUME NEW c \in Chains, \A d \in Chains : d > c => d \in T PROVE c \in T
  <2>1. c \in Objects /\ c \notin Leaves
    BY NumbersOfObjects
  <2>2. \A i \in 1 .. Len(ks[c]) : ks[c][i] \in T
    <3> SUFFICES ASSUME NEW i \in 1 .. Len(ks[c]) PROVE ks[c][i] \in T
      OBVIOUS
    <3>1. ks[c][i] \in Objects /\ (ks[c][i] \in Chains => ks[c][i] > c)
      BY DEF TreeShape
    <3> HIDE DEF T
    <3> QED
      BY <3>1, <1>2, <1>3, NumbersOfObjects
  <2>3. \A i \in 1 .. Len(ks[c]) : f[ks[c][i]] = g[ks[c][i]]
    BY <2>2
  <2>4. {f[ks[c][i]] : i \in 1 .. Len(ks[c])} = {g[ks[c][i]] : i \in 1 .. Len(ks[c])}
    BY <2>3
  <2>5. Of(f, c) = Of(g, c)
    BY <2>1, <2>4
  <2> HIDE DEF Of
  <2> QED
    BY <1>1, <2>1, <2>5
<1> HIDE DEF T
<1>4. Objects \subseteq T
  BY <1>2, <1>3, FromTheLeaves
<1>5. \A o \in Objects : f[o] = g[o]
  BY <1>4 DEF T
<1>6. f = [o \in Objects |-> f[o]] /\ g = [o \in Objects |-> g[o]]
  BY DEF IsBelow
<1> QED
  BY <1>5, <1>6

LEMMA BelowIs ==
  ASSUME NEW ks, TreeShape(ks)
  PROVE  Below(ks) = LeastClosed(ks)
<1>1. IsBelow(ks, LeastClosed(ks))
  BY LeastClosedIsBelow
<1>2. IsBelow(ks, Below(ks))
  BY <1>1 DEF Below, IsBelow
<1> QED
  BY <1>1, <1>2, BelowUnique

\* The tree of the root.
InTree(ks) == Below(ks)[Root]
LEMMA InTreeIs ==
  ASSUME NEW ks, TreeShape(ks)
  PROVE  /\ InTree(ks) \subseteq Objects /\ Root \in InTree(ks) /\ Closed(ks, InTree(ks))
         /\ \A S \in SUBSET Objects : Root \in S /\ Closed(ks, S) => InTree(ks) \subseteq S
         /\ \A c \in Chains : \A i \in 1 .. Len(ks[c]) : ks[c][i] \in Objects \ {Root}
<1>1. Root \in Objects
  BY NumbersOfObjects
<1>2. InTree(ks) =
        {p \in Objects : \A S \in SUBSET Objects : Root \in S /\ Closed(ks, S) => p \in S}
  BY <1>1, BelowIs DEF InTree, LeastClosed
<1>3. ASSUME NEW c \in Chains, NEW i \in 1 .. Len(ks[c]) PROVE ks[c][i] \in Objects \ {Root}
  <2>1. ks[c][i] \in Objects /\ c \in 1 .. Cardinality(Objects) /\ (ks[c][i] \in Chains => ks[c][i] > c)
    BY NumbersOfObjects DEF TreeShape
  <2> QED
    BY <2>1, NumbersOfObjects DEF Root
<1>4. Closed(ks, InTree(ks))
  <2> SUFFICES ASSUME NEW c \in Chains \cap InTree(ks), NEW i \in 1 .. Len(ks[c]),
                      NEW S \in SUBSET Objects, Root \in S, Closed(ks, S)
               PROVE  ks[c][i] \in S
    BY <1>2, <1>3 DEF Closed
  <2> QED
    BY <1>2 DEF Closed
<1>5. InTree(ks) \subseteq Objects /\ Root \in InTree(ks)
  BY <1>1, <1>2
<1>6. \A S \in SUBSET Objects : Root \in S /\ Closed(ks, S) => InTree(ks) \subseteq S
  BY <1>2
<1> QED
  BY <1>3, <1>4, <1>5, <1>6

\* Everything in the tree but its root hangs in a chain of it.
Hanging(ks) == UNION {{ks[c][i] : i \in 1 .. Len(ks[c])} : c \in Chains}
LEMMA TreeHangs ==
  ASSUME NEW ks, TreeShape(ks)
  PROVE  InTree(ks) \subseteq {Root} \cup Hanging(ks)
<1> DEFINE S == {Root} \cup Hanging(ks)
<1>1. S \in SUBSET Objects
  BY InTreeIs, NumbersOfObjects DEF Hanging
<1>2. Closed(ks, S)
  BY DEF Closed, Hanging
<1> QED
  BY <1>1, <1>2, InTreeIs

\* An object is given another place's object that runs alike: the tree runs the
\* same, has the same chains, and no range changes.
Swapped(ks, kt) ==
  /\ DOMAIN kt = DOMAIN ks /\ \A c \in Chains : Len(kt[c]) = Len(ks[c])
  /\ \A c \in Chains : \A i \in 1 .. Len(ks[c]) : Twins(ks[c][i], kt[c][i])

LEMMA SwapRunsAlike ==
  ASSUME NEW ks, TreeShape(ks), NEW kt, TreeShape(kt), Swapped(ks, kt)
  PROVE  Simulated(kt) = Simulated(ks)
<1> DEFINE f == Simulated(ks)
<1>1. \A o, p \in Objects : Twins(o, p) => f[o] = f[p]
  <2>1. \A o \in Leaves : f[o] = Simulates(o)
    BY SimulatedIs
  <2> HIDE DEF f
  <2> QED
    BY <2>1 DEF Twins, Simulates
<1>2. ASSUME NEW o \in Objects
      PROVE  f[o] = RunOf(kt, {}, <<>>, f, o)
  <2>1. CASE o \in Leaves
    BY <2>1, SimulatedIs DEF RunOf
  <2>2. CASE o \notin Leaves
    <3>1. o \in Chains
      BY <2>2, NumbersOfObjects
    <3>2. \A i \in 1 .. Len(ks[o]) : f[kt[o][i]] = f[ks[o][i]]
      <4> SUFFICES ASSUME NEW i \in 1 .. Len(ks[o]) PROVE f[kt[o][i]] = f[ks[o][i]]
        OBVIOUS
      <4>1. ks[o][i] \in Objects /\ kt[o][i] \in Objects
        BY <3>1 DEF TreeShape, Swapped
      <4> QED
        BY <1>1, <3>1, <4>1 DEF Swapped
    <3>3. f[o] = RunsIn([i \in 1 .. Len(ks[o]) |-> f[ks[o][i]]])
      BY <3>1, SimulatedIs
    <3> HIDE DEF f
    <3>4. [i \in 1 .. Len(ks[o]) |-> f[ks[o][i]]] = [i \in 1 .. Len(kt[o]) |-> f[kt[o][i]]]
      BY <3>1, <3>2 DEF Swapped
    <3> QED
      BY <2>2, <3>3, <3>4 DEF RunOf
  <2> QED
    BY <2>1, <2>2
<1>3. f = [o \in Objects |-> f[o]]
  BY SimulatedIs
<1> HIDE DEF f
<1>4. IsRun(kt, {}, <<>>, f)
  BY <1>2, <1>3 DEF IsRun
<1>5. IsRun(kt, {}, <<>>, Simulated(kt))
  BY SimulatedRun
<1>6. Simulated(kt) = f
  BY <1>4, <1>5, RunUnique
<1> QED
  BY <1>6 DEF f

LEMMA SwapSameChains ==
  ASSUME NEW ks, TreeShape(ks), NEW kt, TreeShape(kt), Swapped(ks, kt)
  PROVE  Chains \cap InTree(kt) = Chains \cap InTree(ks)
<1>1. \A c \in Chains : \A i \in 1 .. Len(ks[c]) :
        kt[c][i] \in Objects /\ (kt[c][i] = ks[c][i] \/ {ks[c][i], kt[c][i]} \subseteq Leaves)
  BY DEF Swapped, Twins, TreeShape
<1>2. ASSUME NEW k1, TreeShape(k1), NEW k2, TreeShape(k2),
             \A c \in Chains : Len(k1[c]) = Len(k2[c]),
             \A c \in Chains : \A i \in 1 .. Len(k1[c]) :
               k1[c][i] = k2[c][i] \/ {k1[c][i], k2[c][i]} \subseteq Leaves
      PROVE  Chains \cap InTree(k1) \subseteq InTree(k2)
  <2> DEFINE S == InTree(k2) \cup Leaves
  <2>1. S \in SUBSET Objects /\ Root \in S
    BY InTreeIs, NumbersOfObjects, <1>2
  <2>2. Closed(k1, S)
    <3> SUFFICES ASSUME NEW c \in Chains \cap S, NEW i \in 1 .. Len(k1[c]) PROVE k1[c][i] \in S
      BY DEF Closed
    <3>1. c \in InTree(k2)
      BY NumbersOfObjects
    <3>2. k2[c][i] \in InTree(k2)
      BY <1>2, <3>1, InTreeIs DEF Closed
    <3> QED
      BY <1>2, <3>2
  <2>3. InTree(k1) \subseteq S
    BY <1>2, <2>1, <2>2, InTreeIs
  <2> QED
    BY <2>3, NumbersOfObjects
<1>3. \A c \in Chains : Len(ks[c]) = Len(kt[c])
  BY DEF Swapped
<1>4. Chains \cap InTree(ks) \subseteq InTree(kt)
  BY <1>1, <1>2, <1>3
<1>5. Chains \cap InTree(kt) \subseteq InTree(ks)
  BY <1>1, <1>2, <1>3
<1> QED
  BY <1>4, <1>5

-----------------------------------------------------------------------------
\* What is in a list.
LEMMA HasRest ==
  ASSUME NEW S, NEW s \in Seq(S), s # <<>>
  PROVE  /\ Head(s) \in S /\ Head(s) = s[1] /\ Tail(s) \in Seq(S)
         /\ \A e : Has(s, e) <=> e = Head(s) \/ Has(Tail(s), e)
<1>1. Len(s) \in Nat \ {0} /\ Head(s) = s[1] /\ s[1] \in S /\ Tail(s) \in Seq(S)
      /\ Len(Tail(s)) = Len(s) - 1 /\ \A k \in 1 .. Len(s) - 1 : Tail(s)[k] = s[k + 1]
  BY HeadTailProperties
<1>2. ASSUME NEW e, Has(s, e), e # Head(s) PROVE Has(Tail(s), e)
  <2>1. PICK k \in 1 .. Len(s) : s[k] = e
    BY <1>2 DEF Has
  <2>2. k # 1 /\ k - 1 \in 1 .. Len(s) - 1 /\ (k - 1) + 1 = k
    BY <1>1, <1>2, <2>1
  <2> QED
    BY <1>1, <2>1, <2>2 DEF Has
<1>3. ASSUME NEW e, Has(Tail(s), e) PROVE Has(s, e)
  <2>1. PICK k \in 1 .. Len(s) - 1 : Tail(s)[k] = e
    BY <1>1, <1>3 DEF Has
  <2>2. k + 1 \in 1 .. Len(s) /\ s[k + 1] = e
    BY <1>1, <2>1
  <2> QED
    BY <2>2 DEF Has
<1>4. Has(s, Head(s))
  BY <1>1 DEF Has
<1> QED
  BY <1>1, <1>2, <1>3, <1>4

\* ... and of two lists joined.
LEMMA HasBoth ==
  ASSUME NEW S, NEW s \in Seq(S), NEW t \in Seq(S)
  PROVE  s \o t \in Seq(S) /\ \A e : Has(s \o t, e) <=> Has(s, e) \/ Has(t, e)
<1>1. /\ s \o t \in Seq(S) /\ Len(s) \in Nat /\ Len(t) \in Nat /\ Len(s \o t) = Len(s) + Len(t)
      /\ \A k \in 1 .. Len(s) + Len(t) : (s \o t)[k] = IF k <= Len(s) THEN s[k] ELSE t[k - Len(s)]
  BY ConcatProperties
<1>2. ASSUME NEW e, Has(s \o t, e) PROVE Has(s, e) \/ Has(t, e)
  <2>1. PICK k \in 1 .. Len(s) + Len(t) : (s \o t)[k] = e
    BY <1>1, <1>2 DEF Has
  <2>2. CASE k <= Len(s)
    BY <1>1, <2>1, <2>2 DEF Has
  <2>3. CASE k > Len(s)
    <3>1. k - Len(s) \in 1 .. Len(t) /\ t[k - Len(s)] = e
      BY <1>1, <2>1, <2>3
    <3> QED
      BY <3>1 DEF Has
  <2> QED
    BY <1>1, <2>1, <2>2, <2>3
<1>3. ASSUME NEW e, Has(s, e) PROVE Has(s \o t, e)
  <2>1. PICK k \in 1 .. Len(s) : s[k] = e
    BY <1>3 DEF Has
  <2>2. k \in 1 .. Len(s) + Len(t) /\ (s \o t)[k] = e
    BY <1>1, <2>1
  <2> QED
    BY <1>1, <2>2 DEF Has
<1>4. ASSUME NEW e, Has(t, e) PROVE Has(s \o t, e)
  <2>1. PICK k \in 1 .. Len(t) : t[k] = e
    BY <1>4 DEF Has
  <2>2. /\ k + Len(s) \in 1 .. Len(s) + Len(t) /\ ~(k + Len(s) <= Len(s))
        /\ (k + Len(s)) - Len(s) = k
    BY <1>1, <2>1
  <2>3. (s \o t)[k + Len(s)] = e
    BY <1>1, <2>1, <2>2
  <2> QED
    BY <1>1, <2>2, <2>3 DEF Has
<1> QED
  BY <1>1, <1>2, <1>3, <1>4

\* A finite set listed has its elements.
LEMMA ListedSet ==
  ASSUME NEW S, IsFiniteSet(S)
  PROVE  SetToSeq(S) \in Seq(S) /\ \A e : Has(SetToSeq(S), e) <=> e \in S
<1> DEFINE n == Cardinality(S)
           f == SetToSeq(S)
<1>1. n \in Nat /\ ExistsBijection(1 .. n, S)
  BY FS_CardinalityType
<1>2. \E g \in [1 .. n -> S] : IsInjective(g)
  BY <1>1 DEF ExistsBijection, Bijection, Injection
<1>3. f \in [1 .. n -> S] /\ IsInjective(f)
  BY <1>2 DEF SetToSeq
<1>4. f \in Injection(1 .. n, S)
  BY <1>3 DEF Injection
<1>5. Cardinality(1 .. n) = n
  BY <1>1, FS_Interval
<1>6. f \in Surjection(1 .. n, S)
  BY <1>4, <1>5, FS_Injection
<1>7. f \in Seq(S) /\ Len(f) = n
  BY <1>1, <1>3
<1>8. \A e : e \in S => \E k \in 1 .. n : f[k] = e
  BY <1>6 DEF Surjection
<1>9. \A k \in 1 .. n : f[k] \in S
  BY <1>3
<1> HIDE DEF f, n
<1>10. \A e : Has(f, e) <=> e \in S
  BY <1>7, <1>8, <1>9 DEF Has
<1> QED
  BY <1>7, <1>10 DEF f

\* Equal content is an equivalence, and equal objects run alike.
LEMMA EqualContent ==
  /\ \A o, p : SameContent(o, p) => SameContent(p, o) /\ Twins(o, p)
  /\ \A o, p, q : SameContent(o, p) /\ SameContent(p, q) => SameContent(o, q)
BY DEF SameContent, Twins

\* The slots of a chain, as a list and in it.
LEMMA SlotList ==
  ASSUME TreeShape(kids), NEW c \in Chains
  PROVE  /\ Slots(c) \in Seq(Chains \X Nat)
         /\ \A e : Has(Slots(c), e) <=> \E i \in 1 .. Len(kids[c]) : e = <<c, i>>
         /\ \A k \in 1 .. Len(Slots(c)) : Slots(c)[k] = <<c, k>> /\ IsSlot(<<c, k>>)
<1>1. kids[c] \in Seq(Objects) /\ Len(kids[c]) \in Nat
  BY DEF TreeShape
<1>2. /\ Slots(c) \in [1 .. Len(kids[c]) -> Chains \X Nat]
      /\ \A k \in 1 .. Len(kids[c]) : Slots(c)[k] = <<c, k>>
  BY <1>1 DEF Slots
<1>3. Slots(c) \in Seq(Chains \X Nat) /\ Len(Slots(c)) = Len(kids[c])
  BY <1>1, <1>2 DEF Slots
<1>4. \A k \in 1 .. Len(kids[c]) : IsSlot(<<c, k>>)
  BY <1>1 DEF IsSlot
<1> QED
  BY <1>2, <1>3, <1>4 DEF Has

\* A slot is a place in a chain, and there are finitely many.
LEMMA SlotOf ==
  ASSUME TreeShape(kids), NEW s, IsSlot(s)
  PROVE  /\ s[1] \in Chains /\ s[2] \in 1 .. Len(kids[s[1]]) /\ s = <<s[1], s[2]>>
         /\ At(s) \in Objects \ {Root} /\ Hangs(At(s))
<1>1. s[1] \in Chains /\ s[2] \in 1 .. Len(kids[s[1]]) /\ s = <<s[1], s[2]>>
  BY DEF IsSlot
<1>2. At(s) \in Objects \ {Root}
  BY <1>1, InTreeIs DEF At
<1> QED
  BY <1>1, <1>2 DEF Hangs, At

LEMMA FiniteSlots ==
  ASSUME TreeShape(kids)
  PROVE  IsFiniteSet({s \in Chains \X Nat : IsSlot(s)})
<1> DEFINE f == [c \in Chains |-> {c} \X (1 .. Len(kids[c]))]
           F == {f[c] : c \in Chains}
<1>1. IsFiniteSet(Chains)
  BY TreeAssumption, NumbersOfObjects, FS_Subset
<1>2. f \in Surjection(Chains, F)
  BY DEF Surjection
<1>3. IsFiniteSet(F)
  BY <1>1, <1>2, FS_Surjection
<1>4. \A c \in Chains : IsFiniteSet(f[c])
  <2> SUFFICES ASSUME NEW c \in Chains PROVE IsFiniteSet({c} \X (1 .. Len(kids[c])))
    OBVIOUS
  <2>1. Len(kids[c]) \in Int
    BY DEF TreeShape
  <2>2. IsFiniteSet({c})
    BY FS_Singleton
  <2>3. 1 \in Int
    OBVIOUS
  <2>4. IsFiniteSet(1 .. Len(kids[c]))
    BY <2>1, <2>3, FS_Interval
  <2> QED
    BY <2>2, <2>4, FS_Product
<1>5. IsFiniteSet(UNION F)
  BY <1>3, <1>4, FS_UNION
<1>6. {s \in Chains \X Nat : IsSlot(s)} \subseteq UNION F
  BY DEF IsSlot
<1> QED
  BY <1>5, <1>6, FS_Subset

-----------------------------------------------------------------------------
\* A loop over 1 .. n whose step is the function f of the range so far.
StepOf(n, f) == f \in [Interval \X (1 .. n) -> Interval]
LoopOf(n, a, f, F) ==
  /\ F \in [1 .. n -> Interval]
  /\ \A i \in 1 .. n : F[i] = f[<<IF i = 1 THEN a ELSE F[i - 1], i>>]

LEMMA LoopRuns ==
  ASSUME NEW n \in Nat, NEW a \in Interval, NEW f, StepOf(n, f)
  PROVE  \E F : LoopOf(n, a, f, F)
<1>0. f \in [Interval \X (1 .. n) -> Interval]
  BY DEF StepOf
<1> DEFINE Upto(k, F) == F \in [1 .. n -> Interval] /\ \A i \in 1 .. n :
                           i <= k => F[i] = f[<<IF i = 1 THEN a ELSE F[i - 1], i>>]
           T == {k \in Nat : \E F : Upto(k, F)}
<1>1. 0 \in T
  <2>1. Upto(0, [i \in 1 .. n |-> a])
    OBVIOUS
  <2> HIDE DEF Upto
  <2> QED
    BY <2>1
<1>2. ASSUME NEW k \in Nat, k \in T PROVE k + 1 \in T
  <2>1. PICK F : Upto(k, F)
    BY <1>2
  <2> DEFINE b == IF k + 1 = 1 THEN a ELSE F[k]
             G == [F EXCEPT ![k + 1] = f[<<b, k + 1>>]]
  <2>2. CASE k + 1 \in 1 .. n
    <3>1. b \in Interval
      BY <2>1, <2>2
    <3>2. f[<<b, k + 1>>] \in Interval
      BY <1>0, <2>2, <3>1
    <3> HIDE DEF b
    <3>3. G \in [1 .. n -> Interval] /\ G[k + 1] = f[<<b, k + 1>>] /\ \A i \in 1 .. n : i # k + 1 => G[i] = F[i]
      BY <2>1, <2>2, <3>2
    <3> HIDE DEF G
    <3>4. ASSUME NEW i \in 1 .. n, i <= k + 1
          PROVE  G[i] = f[<<IF i = 1 THEN a ELSE G[i - 1], i>>]
      <4>1. CASE i = k + 1
        <5>1. b = IF i = 1 THEN a ELSE G[i - 1]
          <6>1. CASE k = 0
            BY <4>1, <6>1 DEF b
          <6>2. CASE k # 0
            <7>1. k \in 1 .. n /\ k # k + 1 /\ i - 1 = k /\ i # 1
              BY <4>1, <6>2, <2>2
            <7> QED
              BY <7>1, <3>3 DEF b
          <6> QED
            BY <6>1, <6>2
        <5> QED
          BY <3>3, <4>1, <5>1
      <4>2. CASE i # k + 1
        <5>1. i <= k /\ (i # 1 => i - 1 \in 1 .. n /\ i - 1 # k + 1)
          BY <3>4, <4>2
        <5> QED
          BY <2>1, <3>3, <4>2, <5>1
      <4> QED
        BY <4>1, <4>2
    <3>5. Upto(k + 1, G)
      BY <3>3, <3>4
    <3> HIDE DEF Upto
    <3> QED
      BY <3>5
  <2>3. CASE k + 1 \notin 1 .. n
    <3>1. \A i \in 1 .. n : i <= k + 1 => i <= k
      BY <2>3
    <3>2. Upto(k + 1, F)
      BY <2>1, <3>1
    <3> HIDE DEF Upto
    <3> QED
      BY <3>2
  <2> QED
    BY <2>2, <2>3
<1> HIDE DEF T
<1>3. n \in T
  BY <1>1, <1>2, NatInduct
<1>4. PICK F : Upto(n, F)
  BY <1>3 DEF T
<1> QED
  BY <1>4 DEF LoopOf

\* What one step of a loop makes of a range.
LEMMA NarrowIs ==
  ASSUME NEW r \in Interval, NEW p \in Interval
  PROVE  /\ Narrow(r, p) \in Interval
         /\ \A v \in Int : InRange(Narrow(r, p), v) <=> InRange(r, v) /\ InRange(p, v)
BY DEF Interval, Narrow, KeepNominal, InRange

LEMMA WidenIs ==
  ASSUME NEW r \in Interval, NEW p \in Interval
  PROVE  /\ Widen(r, p) \in Interval
         /\ \A v \in Int : InRange(r, v) \/ InRange(p, v) => InRange(Widen(r, p), v)
BY DEF Interval, Widen, KeepNominal, InRange

LEMMA SettledIs ==
  ASSUME NEW r \in Interval
  PROVE  /\ Settled(r) \in Interval
         /\ \A v \in Int : InRange(Settled(r), v) <=> InRange(r, v)
         /\ LET s == Settled(r) IN s.lo <= s.hi => s.lo <= s.nom /\ s.nom <= s.hi
<1> DEFINE s == Settled(r)
<1>1. r.lo \in Int /\ r.hi \in Int /\ r.nom \in Int /\ r = [lo |-> r.lo, hi |-> r.hi, nom |-> r.nom]
  BY DEF Interval
<1>2. s = [lo |-> r.lo, hi |-> r.hi, nom |-> KeepNominal(r.lo, r.hi, r.nom, (r.lo + r.hi) \div 2)]
  BY <1>1 DEF Settled
<1>3. KeepNominal(r.lo, r.hi, r.nom, (r.lo + r.hi) \div 2) \in Int
  BY <1>1 DEF KeepNominal
<1>4. r.lo <= r.hi => r.lo <= (r.lo + r.hi) \div 2 /\ (r.lo + r.hi) \div 2 <= r.hi
  BY <1>1
<1>5. s.lo <= s.hi => s.lo <= s.nom /\ s.nom <= s.hi
  BY <1>1, <1>2, <1>4 DEF KeepNominal
<1>6. s \in Interval
  BY <1>1, <1>2, <1>3 DEF Interval
<1>7. \A v \in Int : InRange(s, v) <=> InRange(r, v)
  BY <1>1, <1>2 DEF InRange
<1> QED
  BY <1>5, <1>6, <1>7

\* A chain's interval is in all of its daughters' ...
LEMMA IntersectedIs ==
  ASSUME NEW n \in Nat \ {0}, NEW rs, rs \in [1 .. n -> Interval], Len(rs) = n
  PROVE  /\ Intersected(rs) \in Interval
         /\ \A v \in Int : InRange(Intersected(rs), v) <=> \A i \in 1 .. n : InRange(rs[i], v)
         /\ LET s == Intersected(rs) IN s.lo <= s.hi => s.lo <= s.nom /\ s.nom <= s.hi
<1> DEFINE Is(F) == F = [i \in 1 .. Len(rs) |-> Narrow(IF i = 1 THEN rs[1] ELSE F[i - 1], rs[i])]
           f == [e \in Interval \X (1 .. n) |-> Narrow(e[1], rs[e[2]])]
<1>1. n \in Nat
  OBVIOUS
<1>2. f \in [Interval \X (1 .. n) -> Interval]
  <2>1. \A e \in Interval \X (1 .. n) : e[1] \in Interval /\ rs[e[2]] \in Interval
    OBVIOUS
  <2> QED
    BY <2>1, NarrowIs
<1>3. rs[1] \in Interval
  OBVIOUS
<1> HIDE DEF f
<1>4. PICK a \in Interval : a = rs[1]
  BY <1>3
<1>5. StepOf(n, f)
  BY <1>2 DEF StepOf
<1>6. PICK F : LoopOf(n, a, f, F)
  BY <1>1, <1>5, LoopRuns
<1>7. F \in [1 .. n -> Interval] /\ \A i \in 1 .. n : F[i] = f[<<IF i = 1 THEN a ELSE F[i - 1], i>>]
  BY <1>6 DEF LoopOf
<1>8. \A i \in 1 .. n : (IF i = 1 THEN rs[1] ELSE F[i - 1]) \in Interval
  BY <1>3, <1>7
<1>9. \A i \in 1 .. n : F[i] = Narrow(IF i = 1 THEN rs[1] ELSE F[i - 1], rs[i])
  BY <1>7, <1>8, <1>4 DEF f
<1>10. Is(F)
  BY <1>7, <1>9
<1> DEFINE U == CHOOSE G : Is(G)
<1>11. Is(U)
  BY <1>10
<1>12. Intersected(rs) = Settled(U[n])
  BY DEF Intersected
<1>13. \A i \in 1 .. n : U[i] = Narrow(IF i = 1 THEN rs[1] ELSE U[i - 1], rs[i])
  BY <1>11
<1> HIDE DEF U
<1> DEFINE Good(i) == U[i] \in Interval /\ \A v \in Int : InRange(U[i], v) <=> \A j \in 1 .. i : InRange(rs[j], v)
           T == {k \in Nat : k + 1 \in 1 .. n => Good(k + 1)}
<1>14. Good(1)
  <2>1. 1 \in 1 .. n /\ U[1] = Narrow(rs[1], rs[1])
    BY <1>13
  <2> QED
    BY <1>3, <2>1, NarrowIs
<1>15. ASSUME NEW k \in Nat, k \in T PROVE k + 1 \in T
  <2> SUFFICES ASSUME k + 2 \in 1 .. n PROVE Good(k + 2)
    <3>1. (k + 1) + 1 = k + 2
      OBVIOUS
    <3> HIDE DEF Good
    <3> QED
      BY <3>1
  <2>1. k + 1 \in 1 .. n /\ k + 2 # 1 /\ (k + 2) - 1 = k + 1
    OBVIOUS
  <2>2. Good(k + 1)
    BY <1>15, <2>1
  <2>3. U[k + 2] = Narrow(U[k + 1], rs[k + 2])
    BY <1>13, <2>1
  <2>4. rs[k + 2] \in Interval
    OBVIOUS
  <2>5. \A j \in 1 .. k + 2 : j \in 1 .. k + 1 \/ j = k + 2
    OBVIOUS
  <2>6. \A j \in 1 .. k + 1 : j \in 1 .. k + 2
    OBVIOUS
  <2>7. k + 2 \in 1 .. k + 2
    OBVIOUS
  <2>8. \A v \in Int : InRange(U[k + 2], v) <=> InRange(U[k + 1], v) /\ InRange(rs[k + 2], v)
    BY <2>2, <2>3, <2>4, NarrowIs
  <2>9. U[k + 2] \in Interval
    BY <2>2, <2>3, <2>4, NarrowIs
  <2>10. \A v \in Int : InRange(U[k + 1], v) <=> \A j \in 1 .. k + 1 : InRange(rs[j], v)
    BY <2>2
  <2>11. \A v \in Int : InRange(U[k + 2], v) <=> \A j \in 1 .. k + 2 : InRange(rs[j], v)
    BY <2>5, <2>6, <2>7, <2>8, <2>10
  <2> QED
    BY <2>9, <2>11
<1>16. n - 1 \in Nat /\ (n - 1) + 1 = n /\ n \in 1 .. n
  OBVIOUS
<1>17. Good(n)
  <2>1. 0 \in T
    BY <1>14
  <2> HIDE DEF T
  <2>2. n - 1 \in T
    BY <1>15, <1>16, <2>1, NatInduct
  <2> HIDE DEF Good
  <2> QED
    BY <1>16, <2>2 DEF T
<1> QED
  BY <1>12, <1>17, SettledIs

\* ... and that of a selecting chain has all of theirs.
LEMMA JoinedIs ==
  ASSUME NEW n \in Nat \ {0}, NEW rs, rs \in [1 .. n -> Interval], Len(rs) = n
  PROVE  /\ Joined(rs) \in Interval
         /\ \A v \in Int : (\E i \in 1 .. n : InRange(rs[i], v)) => InRange(Joined(rs), v)
         /\ LET s == Joined(rs) IN s.lo <= s.hi => s.lo <= s.nom /\ s.nom <= s.hi
<1> DEFINE Is(F) == F = [i \in 1 .. Len(rs) |-> Widen(IF i = 1 THEN rs[1] ELSE F[i - 1], rs[i])]
           f == [e \in Interval \X (1 .. n) |-> Widen(e[1], rs[e[2]])]
<1>1. n \in Nat
  OBVIOUS
<1>2. f \in [Interval \X (1 .. n) -> Interval]
  <2>1. \A e \in Interval \X (1 .. n) : e[1] \in Interval /\ rs[e[2]] \in Interval
    OBVIOUS
  <2> QED
    BY <2>1, WidenIs
<1>3. rs[1] \in Interval
  OBVIOUS
<1> HIDE DEF f
<1>4. PICK a \in Interval : a = rs[1]
  BY <1>3
<1>5. StepOf(n, f)
  BY <1>2 DEF StepOf
<1>6. PICK F : LoopOf(n, a, f, F)
  BY <1>1, <1>5, LoopRuns
<1>7. F \in [1 .. n -> Interval] /\ \A i \in 1 .. n : F[i] = f[<<IF i = 1 THEN a ELSE F[i - 1], i>>]
  BY <1>6 DEF LoopOf
<1>8. \A i \in 1 .. n : (IF i = 1 THEN rs[1] ELSE F[i - 1]) \in Interval
  BY <1>3, <1>7
<1>9. \A i \in 1 .. n : F[i] = Widen(IF i = 1 THEN rs[1] ELSE F[i - 1], rs[i])
  BY <1>7, <1>8, <1>4 DEF f
<1>10. Is(F)
  BY <1>7, <1>9
<1> DEFINE U == CHOOSE G : Is(G)
<1>11. Is(U)
  BY <1>10
<1>12. Joined(rs) = Settled(U[n])
  BY DEF Joined
<1>13. \A i \in 1 .. n : U[i] = Widen(IF i = 1 THEN rs[1] ELSE U[i - 1], rs[i])
  BY <1>11
<1> HIDE DEF U
<1> DEFINE Good(i) == U[i] \in Interval /\ \A v \in Int : \A j \in 1 .. i : InRange(rs[j], v) => InRange(U[i], v)
           T == {k \in Nat : k + 1 \in 1 .. n => Good(k + 1)}
<1>14. Good(1)
  <2>1. 1 \in 1 .. n /\ U[1] = Widen(rs[1], rs[1])
    BY <1>13
  <2> QED
    BY <1>3, <2>1, WidenIs
<1>15. ASSUME NEW k \in Nat, k \in T PROVE k + 1 \in T
  <2> SUFFICES ASSUME k + 2 \in 1 .. n PROVE Good(k + 2)
    <3>1. (k + 1) + 1 = k + 2
      OBVIOUS
    <3> HIDE DEF Good
    <3> QED
      BY <3>1
  <2>1. k + 1 \in 1 .. n /\ k + 2 # 1 /\ (k + 2) - 1 = k + 1
    OBVIOUS
  <2>2. Good(k + 1)
    BY <1>15, <2>1
  <2>3. U[k + 2] = Widen(U[k + 1], rs[k + 2])
    BY <1>13, <2>1
  <2>4. rs[k + 2] \in Interval
    OBVIOUS
  <2>5. \A j \in 1 .. k + 2 : j \in 1 .. k + 1 \/ j = k + 2
    OBVIOUS
  <2>8. \A v \in Int : InRange(U[k + 1], v) \/ InRange(rs[k + 2], v) => InRange(U[k + 2], v)
    BY <2>2, <2>3, <2>4, WidenIs
  <2>9. U[k + 2] \in Interval
    BY <2>2, <2>3, <2>4, WidenIs
  <2>10. \A v \in Int : \A j \in 1 .. k + 1 : InRange(rs[j], v) => InRange(U[k + 1], v)
    BY <2>2
  <2>11. \A v \in Int : \A j \in 1 .. k + 2 : InRange(rs[j], v) => InRange(U[k + 2], v)
    BY <2>5, <2>8, <2>10
  <2> QED
    BY <2>9, <2>11
<1>16. n - 1 \in Nat /\ (n - 1) + 1 = n /\ n \in 1 .. n
  OBVIOUS
<1>17. Good(n)
  <2>1. 0 \in T
    BY <1>14
  <2> HIDE DEF T
  <2>2. n - 1 \in T
    BY <1>15, <1>16, <2>1, NatInduct
  <2> HIDE DEF Good
  <2> QED
    BY <1>16, <2>2 DEF T
<1> QED
  BY <1>12, <1>17, SettledIs

-----------------------------------------------------------------------------
\* The tree of the state, in this and the next.
LEMMA ReachIs == Reach = InTree(kids)
BY DEF Reach, InTree

LEMMA ReachStays ==
  ASSUME kids' = kids
  PROVE  Reach' = Reach
BY DEF Reach

LEMMA ReachPrimed ==
  ASSUME NEW kt, kids' = kt
  PROVE  Reach' = InTree(kt)
BY DEF Reach, InTree

LEMMA TreePrimed ==
  ASSUME NEW kt, kids' = kt
  PROVE  Tree' = Simulated(kt)[Root]
BY DEF Tree

Ranged == \A c \in Chains : range[c].ekin \in Interval /\ range[c].eta \in Interval

\* What recalc() computes of the daughters' ranges.
LEMMA RecalcHere ==
  ASSUME NEW c, NEW ks
  PROVE  Recalc(c, ks) = RecalcFrom(range, c, ks)
BY DEF Recalc, RecalcFrom, RangeOf, RangeFrom

LEMMA RecalcIs ==
  ASSUME NEW c \in Chains, NEW ks \in Seq(Objects), ks # <<>>, Ranged
  PROVE  LET r == Recalc(c, ks)
             OkE(i, v) == InRange(RangeOf(ks[i]).ekin, v)
             OkEta(i, v) == InRange(RangeOf(ks[i]).eta, v)
         IN  /\ r.ekin \in Interval /\ r.eta \in Interval /\ r.all = FALSE
             /\ r.ekin.lo <= r.ekin.hi => r.ekin.lo <= r.ekin.nom /\ r.ekin.nom <= r.ekin.hi
             /\ IF Kind[c] = "ekin"
                THEN \A v \in Int : (\E i \in 1 .. Len(ks) : OkE(i, v)) => InRange(r.ekin, v)
                ELSE \A v \in Int : InRange(r.ekin, v) <=> \A i \in 1 .. Len(ks) : OkE(i, v)
             /\ IF Kind[c] = "eta"
                THEN \A v \in Int : (\E i \in 1 .. Len(ks) : OkEta(i, v)) => InRange(r.eta, v)
                ELSE \A v \in Int : InRange(r.eta, v) <=> \A i \in 1 .. Len(ks) : OkEta(i, v)
<1> DEFINE n == Len(ks)
           es == [i \in 1 .. n |-> RangeOf(ks[i]).ekin]
           etas == [i \in 1 .. n |-> RangeOf(ks[i]).eta]
           r == Recalc(c, ks)
<1>1. n \in Nat \ {0} /\ \A i \in 1 .. n : ks[i] \in Objects
  BY EmptySeq
<1>2. \A o \in Objects : RangeOf(o).ekin \in Interval /\ RangeOf(o).eta \in Interval
  BY TreeAssumption DEF RangeOf, Ranged
<1>3. es \in [1 .. n -> Interval] /\ etas \in [1 .. n -> Interval]
  BY <1>1, <1>2
<1>4. Len(es) = n /\ Len(etas) = n
  BY <1>1
<1>5. /\ r.ekin = IF Kind[c] = "ekin" THEN Joined(es) ELSE Intersected(es)
      /\ r.eta = IF Kind[c] = "eta" THEN Joined(etas) ELSE Intersected(etas)
      /\ r.all = FALSE
  BY DEF Recalc
<1>6. \A i \in 1 .. n : es[i] = RangeOf(ks[i]).ekin /\ etas[i] = RangeOf(ks[i]).eta
  OBVIOUS
<1> HIDE DEF n, es, etas, r
<1>7. /\ Intersected(es) \in Interval
      /\ \A v \in Int : InRange(Intersected(es), v) <=> \A i \in 1 .. n : InRange(es[i], v)
      /\ Intersected(es).lo <= Intersected(es).hi =>
           Intersected(es).lo <= Intersected(es).nom /\ Intersected(es).nom <= Intersected(es).hi
  BY <1>1, <1>3, <1>4, IntersectedIs
<1>8. /\ Joined(es) \in Interval
      /\ \A v \in Int : (\E i \in 1 .. n : InRange(es[i], v)) => InRange(Joined(es), v)
      /\ Joined(es).lo <= Joined(es).hi =>
           Joined(es).lo <= Joined(es).nom /\ Joined(es).nom <= Joined(es).hi
  BY <1>1, <1>3, <1>4, JoinedIs
<1>9. /\ Intersected(etas) \in Interval
      /\ \A v \in Int : InRange(Intersected(etas), v) <=> \A i \in 1 .. n : InRange(etas[i], v)
  BY <1>1, <1>3, <1>4, IntersectedIs
<1>10. /\ Joined(etas) \in Interval
       /\ \A v \in Int : (\E i \in 1 .. n : InRange(etas[i], v)) => InRange(Joined(etas), v)
  BY <1>1, <1>3, <1>4, JoinedIs
<1>11. IF Kind[c] = "ekin"
       THEN \A v \in Int : (\E i \in 1 .. n : InRange(RangeOf(ks[i]).ekin, v)) => InRange(r.ekin, v)
       ELSE \A v \in Int : InRange(r.ekin, v) <=> \A i \in 1 .. n : InRange(RangeOf(ks[i]).ekin, v)
  BY <1>5, <1>6, <1>7, <1>8
<1>12. IF Kind[c] = "eta"
       THEN \A v \in Int : (\E i \in 1 .. n : InRange(RangeOf(ks[i]).eta, v)) => InRange(r.eta, v)
       ELSE \A v \in Int : InRange(r.eta, v) <=> \A i \in 1 .. n : InRange(RangeOf(ks[i]).eta, v)
  BY <1>5, <1>6, <1>9, <1>10
<1>13. /\ r.ekin \in Interval /\ r.eta \in Interval /\ r.all = FALSE
       /\ r.ekin.lo <= r.ekin.hi => r.ekin.lo <= r.ekin.nom /\ r.ekin.nom <= r.ekin.hi
  BY <1>5, <1>7, <1>8, <1>9, <1>10
<1> QED
  BY <1>11, <1>12, <1>13 DEF n, r

-----------------------------------------------------------------------------
\* The invariant holds of a tree without daughters; one lemma per action follows.
LEMMA InvInit == Init => TreeInv
<1> SUFFICES ASSUME Init PROVE TreeInv
  OBVIOUS
<1>1. TreeShape(kids)
  BY DEF Init, TreeShape
<1>2. Ranged
  BY TreeAssumption DEF Init, Ranged, Unset
<1>3. TreeTypes
  BY <1>1, <1>2, NumbersOfObjects DEF Init, TreeTypes, Ranged, None
<1>4. AliveInv
  BY DEF Init, AliveInv
<1>5. SearchInv /\ SearchedInv /\ SameSimulation
  BY DEF Init, SearchInv, SearchedInv, OriginalsInv, FindInv, ReplaceInv, RefindInv, SameSimulation
<1>6. RangeInv
  BY DEF Init, RangeInv
<1> QED
  BY <1>3, <1>4, <1>5, <1>6 DEF TreeInv

\* In its own or another call, a step that leaves the tree alone.
LEMMA SameTree ==
  ASSUME TreeTypes, RangeInv, UNCHANGED <<kids, range, stale>>
  PROVE  TreeShape(kids') /\ Ranged' /\ RangeInv'
<1>1. TreeShape(kids')
  BY DEF TreeTypes
<1>2. Ranged'
  BY DEF TreeTypes, Ranged
<1>3. RangeInv'
  BY DEF RangeInv
<1> QED
  BY <1>1, <1>2, <1>3

\* A chain that gets a daughter leaves the ranges of the chains it hangs in behind,
\* and hangs in none of the others.
LEMMA PushKeeps ==
  ASSUME TreeInv, NEW c \in Chains, NEW o \in Objects, PushBack(c, o) \/ PushHit(c, o)
  PROVE  TreeInv'
<1>1. TreeTypes /\ AliveInv /\ RangeInv
  BY DEF TreeInv
<1>2. MayPush(c, o) /\ kids' = [kids EXCEPT ![c] = Append(@, o)] /\ phase' = "ready"
      /\ UNCHANGED <<name, alive, before, dupVars>>
  BY DEF PushBack, PushHit, MayPush, Ready
<1>3. o \in Nat /\ c \in Nat /\ o > c /\ o \in alive
  BY <1>2, NumbersOfObjects DEF MayPush
<1>4. kids \in [Chains -> Seq(Objects)]
  BY <1>1 DEF TreeTypes, TreeShape
<1>5. kids[c] \in Seq(Objects) /\ Len(kids[c]) \in Nat
  BY <1>4
<1>6. /\ Append(kids[c], o) \in Seq(Objects) /\ Len(Append(kids[c], o)) = Len(kids[c]) + 1
      /\ \A i \in 1 .. Len(kids[c]) + 1 :
           Append(kids[c], o)[i] = IF i = Len(kids[c]) + 1 THEN o ELSE kids[c][i]
  BY <1>5, AppendProperties
<1>7. /\ kids' \in [Chains -> Seq(Objects)] /\ kids'[c] = Append(kids[c], o)
      /\ \A d \in Chains : d # c => kids'[d] = kids[d]
  BY <1>2, <1>4, <1>6
<1>8. ASSUME NEW d \in Chains, NEW i \in 1 .. Len(kids'[d])
      PROVE  kids'[d][i] \in alive /\ (kids'[d][i] \in Chains => kids'[d][i] > d)
  <2>1. CASE d = c
    <3>1. i \in 1 .. Len(kids[c]) + 1
      BY <1>6, <1>7, <1>8, <2>1
    <3>2. CASE i = Len(kids[c]) + 1
      BY <1>3, <1>6, <1>7, <2>1, <3>1, <3>2
    <3>3. CASE i # Len(kids[c]) + 1
      <4>1. i \in 1 .. Len(kids[c])
        BY <1>5, <3>1, <3>3
      <4>2. kids'[d][i] = kids[c][i]
        BY <1>6, <1>7, <2>1, <3>1, <3>3
      <4> QED
        BY <1>1, <4>1, <4>2, <2>1 DEF AliveInv, TreeTypes, TreeShape
    <3> QED
      BY <3>2, <3>3
  <2>2. CASE d # c
    BY <1>1, <1>7, <2>2 DEF AliveInv, TreeTypes, TreeShape
  <2> QED
    BY <2>1, <2>2
<1>9. TreeShape(kids')
  BY <1>7, <1>8 DEF TreeShape
<1>10. kids'[c] # <<>>
  BY <1>6, <1>7, <1>5, EmptySeq
<1>11. Ranged
  BY <1>1 DEF TreeTypes, Ranged
<1>12. range' = [range EXCEPT ![c] = range'[c]]
  BY <1>1 DEF PushBack, PushHit, RangeBecomes, TreeTypes
<1>13. range'[c].ekin \in Interval /\ range'[c].eta \in Interval
       /\ (Kind[c] # "hits" => range'[c] = Recalc(c, kids'[c]))
  <2>0. range = [d \in Chains |-> range[d]]
    BY <1>1 DEF TreeTypes
  <2>1. CASE PushBack(c, o)
    <3>1. range'[c] = Recalc(c, kids'[c])
      BY <2>0, <2>1 DEF PushBack, RangeBecomes
    <3> QED
      BY <1>7, <1>10, <1>11, <3>1, RecalcIs
  <2>2. CASE PushHit(c, o)
    <3>1. Kind[c] = "hits" /\ o \in Leaves /\ (range'[c] = FirstHit(o) \/ range'[c] = range[c])
      BY <2>0, <2>2 DEF PushHit, RangeBecomes
    <3> QED
      BY <3>1, <1>11, TreeAssumption DEF FirstHit, Ranged
  <2> QED
    BY <2>1, <2>2
<1>14. /\ range' = [d \in Chains |-> range'[d]]
       /\ \A d \in Chains : d # c => range'[d] = range[d]
  BY <1>1, <1>12 DEF TreeTypes
<1>15. TreeTypes'
  BY <1>1, <1>2, <1>9, <1>11, <1>13, <1>14 DEF TreeTypes, Ranged, dupVars
<1>16. AliveInv'
  BY <1>2, <1>8 DEF AliveInv
<1>17. RangeInv'
  <2> SUFFICES ASSUME NEW d \in Chains, d \notin stale', Kind[d] # "hits", kids'[d] # <<>>
               PROVE  range'[d] = RecalcFrom(range', d, kids'[d])
    BY DEF RangeInv
  <2>1. /\ range' = range /\ stale' = stale
        \/ stale' = (stale \ {c}) \cup Mothers(c)
    BY DEF PushBack, PushHit, RangeBecomes
  <2>2. ASSUME range' # range, NEW i \in 1 .. Len(kids'[d]) PROVE kids'[d][i] # c
    <3>1. CASE d = c
      BY <1>3, <1>8, <3>1
    <3>2. CASE d # c
      BY <1>7, <2>1, <2>2, <3>2 DEF Mothers, Daughters
    <3> QED
      BY <3>1, <3>2
  <2>3. \A i \in 1 .. Len(kids'[d]) : RangeFrom(range', kids'[d][i]) = RangeFrom(range, kids'[d][i])
    BY <1>14, <2>2 DEF RangeFrom
  <2>4. RecalcFrom(range', d, kids'[d]) = RecalcFrom(range, d, kids'[d])
    <3> DEFINE n == Len(kids'[d])
    <3>1. /\ [i \in 1 .. n |-> RangeFrom(range', kids'[d][i]).pdgids]
             = [i \in 1 .. n |-> RangeFrom(range, kids'[d][i]).pdgids]
          /\ [i \in 1 .. n |-> RangeFrom(range', kids'[d][i]).ekin]
             = [i \in 1 .. n |-> RangeFrom(range, kids'[d][i]).ekin]
          /\ [i \in 1 .. n |-> RangeFrom(range', kids'[d][i]).eta]
             = [i \in 1 .. n |-> RangeFrom(range, kids'[d][i]).eta]
      BY <2>3
    <3> QED
      BY <3>1 DEF RecalcFrom
  <2>5. CASE d = c
    BY <1>13, <2>4, <2>5, RecalcHere
  <2>6. CASE d # c
    BY <1>1, <1>7, <1>14, <2>1, <2>4, <2>6 DEF RangeInv
  <2> QED
    BY <2>5, <2>6
<1>18. SearchInv' /\ SearchedInv' /\ SameSimulation'
  BY <1>2 DEF SearchInv, SearchedInv, OriginalsInv, FindInv, ReplaceInv, RefindInv, SameSimulation
<1> QED
  BY <1>15, <1>16, <1>17, <1>18 DEF TreeInv

-----------------------------------------------------------------------------
\* Between calls the searches' results do not count.
LEMMA BetweenCalls ==
  ASSUME TreeInv, Ready, phase' = phase,
         UNCHANGED <<kids, range, stale, alive, seen, dellist, replace, places>>
  PROVE  TreeInv'
<1>1. phase' = "ready"
  BY DEF Ready
<1>2. TreeTypes /\ AliveInv /\ RangeInv
  BY DEF TreeInv
<1>3. TreeShape(kids') /\ RangeInv'
  BY <1>2, SameTree
<1>4. TreeTypes'
  BY <1>1, <1>2, <1>3 DEF TreeTypes
<1>5. AliveInv'
  BY <1>1, <1>2 DEF AliveInv
<1>6. SearchInv' /\ SearchedInv' /\ SameSimulation'
  BY <1>1 DEF SearchInv, SearchedInv, OriginalsInv, FindInv, ReplaceInv, RefindInv, SameSimulation
<1> QED
  BY <1>3, <1>4, <1>5, <1>6 DEF TreeInv

\* What a search starts with: the slots of the root.
LEMMA SearchStarts ==
  ASSUME TreeTypes, UNCHANGED kids, StartFinding
  PROVE  /\ SearchInv'
         /\ \A i \in 1 .. Len(kids[Root]) : ToDo(<<Root, i>>)'
<1>1. TreeShape(kids) /\ Root \in Chains /\ Root \in Reach
  BY NumbersOfObjects, InTreeIs, ReachIs DEF TreeTypes
<1>2. todo' = Slots(Root) /\ seen' = {} /\ Reach' = Reach
  BY ReachStays DEF StartFinding
<1>3. \A i \in 1 .. Len(kids[Root]) : Has(todo', <<Root, i>>)
  BY <1>1, <1>2, SlotList
<1>4. todo' \in Seq(Chains \X Nat)
  BY <1>1, <1>2, SlotList
<1>5. \A k \in 1 .. Len(todo') : todo'[k] = <<Root, k>> /\ IsSlot(<<Root, k>>)
  BY <1>1, <1>2, SlotList
<1>6. \A k \in 1 .. Len(todo') :
        /\ todo'[k] \in Chains \X Nat /\ todo'[k][2] \in 1 .. Len(kids'[todo'[k][1]])
        /\ todo'[k][1] \in Reach'
  <2> SUFFICES ASSUME NEW k \in 1 .. Len(todo')
               PROVE  /\ todo'[k] \in Chains \X Nat /\ todo'[k][2] \in 1 .. Len(kids'[todo'[k][1]])
                      /\ todo'[k][1] \in Reach'
    OBVIOUS
  <2>1. todo'[k] = <<Root, k>>
    BY <1>5
  <2>3. todo'[k][1] = Root
    BY <2>1
  <2>2. todo'[k] \in Chains \X Nat /\ todo'[k][2] \in 1 .. Len(kids[todo'[k][1]])
    BY <1>5, <2>1 DEF IsSlot
  <2> QED
    BY <1>1, <1>2, <2>2, <2>3
<1>7. SearchInv'
  BY <1>2, <1>3, <1>4, <1>6 DEF SearchInv, ToDo, IsSlot
<1> QED
  BY <1>3, <1>7 DEF ToDo

\* The search begins.
LEMMA RemoveDuplicatesKeeps ==
  ASSUME TreeInv, RemoveDuplicates
  PROVE  TreeInv'
<1>1. TreeTypes /\ AliveInv /\ RangeInv
  BY DEF TreeInv
<1>2. phase' = "find" /\ StartFinding /\ UNCHANGED <<kids, range, stale, name, alive, dellist>>
      /\ copy' = NoCopy /\ before' = [tree |-> Tree, objects |-> Reach]
      /\ replace' = [o \in Objects |-> None] /\ places' = [o \in Objects |-> {}]
  BY DEF RemoveDuplicates
<1>3. TreeShape(kids') /\ RangeInv'
  BY <1>1, <1>2, SameTree
<1>4. SearchInv' /\ \A i \in 1 .. Len(kids[Root]) : ToDo(<<Root, i>>)'
  BY <1>1, <1>2, SearchStarts
<1>5. Reach' = Reach /\ seen' = {}
  BY <1>2, ReachStays DEF StartFinding
<1>6. TreeTypes'
  BY <1>1, <1>2, <1>3, <1>5 DEF TreeTypes
<1>7. AliveInv'
  BY <1>1, <1>2, <1>5 DEF AliveInv, RemoveDuplicates
<1>8. OriginalsInv'
  BY <1>2, <1>5 DEF OriginalsInv
<1>9. FindInv'
  <2>1. before'.objects = Reach'
    BY <1>2, <1>5
  <2>2. \A ref \in Objects : places'[ref] = {}
    BY <1>2
  <2>3. \A c \in Chains \cap (seen' \cup {Root}) : \A i \in 1 .. Len(kids'[c]) :
          replace'[kids'[c][i]] = None
    BY <1>2, <1>3 DEF TreeShape
  <2> QED
    BY <2>1, <2>2, <2>3 DEF FindInv
<1>10. ReplaceInv' /\ RefindInv'
  BY <1>2 DEF ReplaceInv, RefindInv
<1>11. SameSimulation'
  <2>1. Tree' = Tree
    BY <1>2, TreePrimed DEF Tree
  <2> QED
    BY <1>2, <2>1 DEF SameSimulation
<1> QED
  BY <1>3, <1>4, <1>6, <1>7, <1>8, <1>9, <1>10, <1>11 DEF TreeInv, SearchedInv

\* A search that is over has seen the tree, and while duplicates are removed
\* whatever hangs in a chain hangs in the tree.
LEMMA SearchOver ==
  ASSUME TreeTypes, AliveInv, SearchInv, phase \in {"find", "refind"}, todo = <<>>
  PROVE  /\ Reach = seen \cup {Root}
         /\ \A o \in seen : Hangs(o)
         /\ \A c \in Chains : \A i \in 1 .. Len(kids[c]) : kids[c][i] \in seen
<1>1. TreeShape(kids) /\ Reach = InTree(kids) /\ seen \subseteq Objects \ {Root}
  BY ReachIs DEF TreeTypes
<1>2. \A e : ~ToDo(e)
  BY EmptySeq DEF ToDo, Has
<1>3. Closed(kids, seen \cup {Root})
  BY <1>2 DEF SearchInv, Closed
<1>4. Reach \subseteq seen \cup {Root}
  BY <1>1, <1>3, InTreeIs, NumbersOfObjects
<1>5. seen \subseteq Reach /\ Root \in Reach
  BY <1>1, InTreeIs DEF SearchInv
<1>6. \A o \in seen : Hangs(o)
  <2>1. \A o \in seen : o \in Hanging(kids)
    BY <1>1, <1>5, TreeHangs
  <2> QED
    BY <2>1 DEF Hanging, Hangs
<1>7. \A c \in Chains : \A i \in 1 .. Len(kids[c]) : kids[c][i] \in seen
  <2> SUFFICES ASSUME NEW c \in Chains, NEW i \in 1 .. Len(kids[c]) PROVE kids[c][i] \in seen
    OBVIOUS
  <2>1. kids[c] \in Seq(Objects) /\ kids[c] # <<>>
    BY <1>1, EmptySeq DEF TreeShape
  <2>2. c \in Reach
    BY <2>1 DEF AliveInv
  <2>3. kids[c][i] \in Reach \ {Root}
    BY <1>1, <2>2, InTreeIs DEF Closed
  <2> QED
    BY <1>4, <2>3
<1> QED
  BY <1>4, <1>5, <1>6, <1>7

\* When every place of a duplicate has its replacement no two objects are equal.
LEMMA FindAgainKeeps ==
  ASSUME TreeInv, FindAgain
  PROVE  TreeInv'
<1>1. TreeTypes /\ AliveInv /\ RangeInv /\ SameSimulation /\ OriginalsInv /\ ReplaceInv
  BY DEF TreeInv, SearchedInv
<1>2. phase = "replace" /\ todo = <<>> /\ phase' = "refind" /\ StartFinding
      /\ UNCHANGED <<kids, range, stale, name, alive, dellist, before, copy>>
      /\ replace' = [o \in Objects |-> None] /\ places' = [o \in Objects |-> {}]
  BY DEF FindAgain
<1>3. TreeShape(kids') /\ RangeInv'
  BY <1>1, <1>2, SameTree
<1>4. SearchInv'
  BY <1>1, <1>2, SearchStarts
<1>5. Reach' = Reach /\ seen' = {} /\ Tree' = Tree
  BY <1>2, ReachStays, TreePrimed DEF StartFinding, Tree
<1>6. TreeTypes'
  BY <1>1, <1>2, <1>3, <1>5 DEF TreeTypes
<1>7. AliveInv'
  BY <1>1, <1>2, <1>5 DEF AliveInv
<1>8. OriginalsInv' /\ FindInv' /\ ReplaceInv'
  BY <1>2 DEF OriginalsInv, FindInv, ReplaceInv
<1>9. RefindInv'
  <2>1. \A e : ~ToDo(e)
    BY <1>2, EmptySeq DEF ToDo, Has
  <2>2. \A o : Hangs(o) => o \in seen /\ replace[o] = None
    <3> SUFFICES ASSUME NEW o, NEW c \in Chains, NEW i \in 1 .. Len(kids[c]), kids[c][i] = o
                 PROVE  o \in seen /\ replace[o] = None
      BY DEF Hangs
    <3> QED
      BY <1>1, <1>2, <2>1 DEF ReplaceInv
  <2>3. \A o, p : SameContent(o, p)' <=> SameContent(o, p)
    BY <1>2 DEF SameContent
  <2>4. \A o : Hangs(o)' <=> Hangs(o)
    BY <1>2 DEF Hangs
  <2>5. \A o, p \in Objects : Hangs(o) /\ Hangs(p) /\ SameContent(o, p) => o = p
    BY <1>1, <1>2, <2>2 DEF OriginalsInv
  <2>6. \A o \in before.objects : o = Root \/ o \in dellist \/ Hangs(o)
    BY <1>1, <1>2 DEF ReplaceInv
  <2> QED
    BY <1>2, <2>3, <2>4, <2>5, <2>6 DEF RefindInv
<1>10. SameSimulation'
  BY <1>1, <1>2, <1>5 DEF SameSimulation
<1> QED
  BY <1>3, <1>4, <1>6, <1>7, <1>8, <1>9, <1>10 DEF TreeInv, SearchedInv

\* What is deleted was not seen, so it hangs nowhere.
LEMMA DeleteOneKeeps ==
  ASSUME TreeInv, DeleteOne
  PROVE  TreeInv'
<1>1. TreeTypes /\ AliveInv /\ SearchInv /\ RangeInv /\ SameSimulation /\ RefindInv
  BY DEF TreeInv, SearchedInv
<1>2. PICK gone \in dellist :
        /\ phase = "refind" /\ todo = <<>> /\ dellist' = dellist \ {gone}
        /\ alive' = IF gone \in seen THEN alive ELSE alive \ {gone}
        /\ UNCHANGED <<kids, range, stale, name, phase, todo, seen, replace, places, before, copy>>
  BY DEF DeleteOne
<1>3. TreeShape(kids') /\ RangeInv' /\ Reach' = Reach /\ Tree' = Tree
  BY <1>1, <1>2, SameTree, ReachStays, TreePrimed DEF Tree
<1>4. /\ \A o \in seen : Hangs(o)
      /\ \A c \in Chains : \A i \in 1 .. Len(kids[c]) : kids[c][i] \in seen
  BY <1>1, <1>2, SearchOver
<1>5. TreeTypes'
  BY <1>1, <1>2, <1>3 DEF TreeTypes
<1>6. AliveInv'
  BY <1>1, <1>2, <1>3, <1>4 DEF AliveInv
<1>7. SearchInv'
  <2>1. \A s : IsSlot(s)' <=> IsSlot(s)
    BY <1>2 DEF IsSlot
  <2>2. \A e : ToDo(e)' <=> ToDo(e)
    BY <1>2 DEF ToDo
  <2> QED
    BY <1>1, <1>2, <1>3, <2>1, <2>2 DEF SearchInv
<1>8. OriginalsInv' /\ FindInv' /\ ReplaceInv'
  BY <1>2 DEF OriginalsInv, FindInv, ReplaceInv
<1>9. RefindInv'
  <2>3. \A o, p : SameContent(o, p)' <=> SameContent(o, p)
    BY <1>2 DEF SameContent
  <2>4. \A o : Hangs(o)' <=> Hangs(o)
    BY <1>2 DEF Hangs
  <2>5. \A o \in before.objects \cap alive' : o = Root \/ o \in dellist' \/ Hangs(o)
    BY <1>1, <1>2, <1>4 DEF RefindInv
  <2> QED
    BY <1>1, <1>2, <2>3, <2>4, <2>5 DEF RefindInv
<1>10. SameSimulation'
  BY <1>1, <1>2, <1>3 DEF SameSimulation
<1> QED
  BY <1>3, <1>5, <1>6, <1>7, <1>8, <1>9, <1>10 DEF TreeInv, SearchedInv

\* The end of the call.
LEMMA RemoveDoneKeeps ==
  ASSUME TreeInv, RemoveDone
  PROVE  TreeInv'
<1>1. TreeTypes /\ AliveInv /\ RangeInv
  BY DEF TreeInv
<1>2. phase' = "ready" /\ UNCHANGED <<kids, range, stale, name, alive, todo, dellist, before, copy>>
      /\ seen' = {}
      /\ replace' = [o \in Objects |-> None] /\ places' = [o \in Objects |-> {}]
  BY DEF RemoveDone
<1>3. TreeShape(kids') /\ RangeInv'
  BY <1>1, <1>2, SameTree
<1>4. TreeTypes'
  BY <1>1, <1>2, <1>3 DEF TreeTypes
<1>5. AliveInv'
  BY <1>1, <1>2 DEF AliveInv
<1>6. SearchInv' /\ SearchedInv' /\ SameSimulation'
  BY <1>2 DEF SearchInv, SearchedInv, OriginalsInv, FindInv, ReplaceInv, RefindInv, SameSimulation
<1> QED
  BY <1>3, <1>4, <1>5, <1>6 DEF TreeInv

-----------------------------------------------------------------------------
\* What is visited, and what is left to visit.
LEMMA Visited ==
  ASSUME TreeTypes, SearchInv, Visit
  PROVE  LET slot == Head(todo)
             rest == Tail(todo)
         IN  /\ IsSlot(slot) /\ At(slot) \in (Objects \ {Root}) \cap Reach
             /\ rest \in Seq(Chains \X Nat)
             /\ \A k \in 1 .. Len(rest) : IsSlot(rest[k]) /\ rest[k][1] \in Reach
             /\ \A e : ToDo(e) <=> e = slot \/ Has(rest, e)
<1> DEFINE slot == Head(todo)
           rest == Tail(todo)
<1>1. phase \in {"find", "refind"} /\ todo # <<>> /\ todo \in Seq(Chains \X Nat)
  BY DEF Visit, SearchInv
<1>2. slot = todo[1] /\ rest \in Seq(Chains \X Nat) /\ \A e : Has(todo, e) <=> e = slot \/ Has(rest, e)
  BY <1>1, HasRest
<1>3. \A e : Has(todo, e) => IsSlot(e) /\ e[1] \in Reach
  BY <1>1 DEF SearchInv, Has
<1>4. IsSlot(slot) /\ slot[1] \in Reach
  BY <1>2, <1>3
<1>5. \A k \in 1 .. Len(rest) : IsSlot(rest[k]) /\ rest[k][1] \in Reach
  <2>1. \A k \in 1 .. Len(rest) : Has(rest, rest[k])
    BY DEF Has
  <2> HIDE DEF slot, rest
  <2> QED
    BY <1>2, <1>3, <2>1
<1>6. TreeShape(kids)
  BY DEF TreeTypes
<1>7. At(slot) \in Objects \ {Root}
  BY <1>4, <1>6, SlotOf
<1>8. At(slot) \in Reach
  <2>1. Closed(kids, Reach)
    BY <1>6, InTreeIs, ReachIs
  <2>2. slot[1] \in Chains /\ slot[2] \in 1 .. Len(kids[slot[1]])
    BY <1>4, <1>6, SlotOf
  <2> HIDE DEF slot
  <2> QED
    BY <1>4, <2>1, <2>2 DEF Closed, At
<1> QED
  BY <1>2, <1>4, <1>5, <1>7, <1>8 DEF ToDo

\* A visit goes on with the search: the daughters of a new chain are visited next.
LEMMA VisitSearches ==
  ASSUME TreeTypes, SearchInv, Visit
  PROVE  TreeTypes' /\ SearchInv'
<1> DEFINE slot == Head(todo)
           rest == Tail(todo)
           o == At(slot)
<1>1. /\ IsSlot(slot) /\ o \in (Objects \ {Root}) \cap Reach
      /\ rest \in Seq(Chains \X Nat)
      /\ \A k \in 1 .. Len(rest) : IsSlot(rest[k]) /\ rest[k][1] \in Reach
      /\ \A e : ToDo(e) <=> e = slot \/ Has(rest, e)
  BY Visited
<1>2. /\ phase \in {"find", "refind"} /\ (VisitAgain(slot) \/ VisitNew(slot))
      /\ UNCHANGED <<kids, range, stale, name, alive, phase, dellist, before, copy>>
  BY DEF Visit
<1>3. TreeShape(kids) /\ seen \subseteq Objects \ {Root} /\ replace \in [Objects -> Objects \cup {None}]
      /\ places \in [Objects -> SUBSET (Chains \X Nat)]
  BY DEF TreeTypes
<1>4. slot \in Chains \X Nat /\ slot[1] \in Chains /\ slot[2] \in 1 .. Len(kids[slot[1]])
      /\ o = kids[slot[1]][slot[2]]
  BY <1>1 DEF IsSlot, At
<1> HIDE DEF slot, rest, o
<1>5. /\ \A s : IsSlot(s)' <=> IsSlot(s)
      /\ Reach' = Reach
  BY <1>2, ReachStays DEF IsSlot
<1>6. seen \subseteq Reach /\ \A c \in Chains \cap (seen \cup {Root}) : \A i \in 1 .. Len(kids[c]) :
        kids[c][i] \in seen \/ ToDo(<<c, i>>)
  BY <1>2 DEF SearchInv
<1>7. CASE VisitAgain(slot)
  <2>1. o \in seen /\ todo' = rest /\ seen' = seen /\ replace' = replace
        /\ (places' = places \/ places' = [places EXCEPT ![replace[o]] = @ \cup {slot}])
    BY <1>7 DEF VisitAgain, o, rest, slot
  <2>2. places' \in [Objects -> SUBSET (Chains \X Nat)]
    BY <1>3, <1>4, <2>1
  <2>3. TreeTypes'
    BY <1>2, <1>3, <2>1, <2>2 DEF TreeTypes
  <2>4. ASSUME NEW c \in Chains \cap (seen \cup {Root}), NEW i \in 1 .. Len(kids[c]), kids[c][i] \notin seen
        PROVE  Has(rest, <<c, i>>)
    <3>1. ToDo(<<c, i>>) /\ kids[c][i] # o
      BY <1>6, <2>1, <2>4
    <3>2. <<c, i>> # slot
      BY <1>4, <3>1
    <3> QED
      BY <1>1, <3>1, <3>2
  <2>5. SearchInv'
    BY <1>1, <1>2, <1>5, <1>6, <2>1, <2>4 DEF SearchInv, ToDo
  <2> QED
    BY <2>3, <2>5
<1>8. CASE VisitNew(slot)
  <2>1. /\ o \notin seen /\ seen' = seen \cup {o}
        /\ todo' = IF o \in Chains THEN Slots(o) \o rest ELSE rest
    BY <1>8 DEF VisitNew, o, rest
  <2>2. \/ UNCHANGED <<replace, places>>
        \/ \E ref \in seen : /\ replace' = [replace EXCEPT ![o] = ref]
                             /\ places' = [places EXCEPT ![ref] = @ \cup {slot}]
    BY <1>8 DEF VisitNew, Originals, o
  <2>3. replace' \in [Objects -> Objects \cup {None}] /\ places' \in [Objects -> SUBSET (Chains \X Nat)]
    BY <1>1, <1>3, <1>4, <2>2
  <2>4. TreeTypes'
    BY <1>1, <1>2, <1>3, <2>1, <2>3 DEF TreeTypes
  <2>5. /\ todo' \in Seq(Chains \X Nat)
        /\ \A e : Has(todo', e) <=> Has(rest, e) \/ (o \in Chains /\ \E i \in 1 .. Len(kids[o]) : e = <<o, i>>)
    <3>1. CASE o \in Chains
      <4>1. Slots(o) \in Seq(Chains \X Nat) /\ \A e : Has(Slots(o), e) <=> \E i \in 1 .. Len(kids[o]) : e = <<o, i>>
        BY <1>3, <3>1, SlotList
      <4>2. todo' = Slots(o) \o rest
        BY <2>1, <3>1
      <4>3. todo' \in Seq(Chains \X Nat) /\ \A e : Has(todo', e) <=> Has(Slots(o), e) \/ Has(rest, e)
        BY <1>1, <4>1, <4>2, HasBoth
      <4> QED
        BY <3>1, <4>1, <4>3
    <3>2. CASE o \notin Chains
      BY <1>1, <2>1, <3>2
    <3> QED
      BY <3>1, <3>2
  <2>6. ASSUME NEW k \in 1 .. Len(todo')
        PROVE  IsSlot(todo'[k]) /\ todo'[k][1] \in Reach
    <3>1. Has(todo', todo'[k])
      BY DEF Has
    <3>2. CASE Has(rest, todo'[k])
      BY <1>1, <3>2 DEF Has
    <3>3. CASE o \in Chains /\ \E i \in 1 .. Len(kids[o]) : todo'[k] = <<o, i>>
      <4>1. PICK i \in 1 .. Len(kids[o]) : todo'[k] = <<o, i>>
        BY <3>3
      <4>2. Len(kids[o]) \in Nat
        BY <1>3, <3>3 DEF TreeShape
      <4>3. IsSlot(<<o, i>>)
        BY <3>3, <4>2 DEF IsSlot
      <4>4. todo'[k][1] = o
        BY <4>1
      <4> QED
        BY <1>1, <4>1, <4>3, <4>4
    <3> QED
      BY <2>5, <3>1, <3>2, <3>3
  <2>7. ASSUME NEW c \in Chains \cap (seen' \cup {Root}), NEW i \in 1 .. Len(kids[c]), kids[c][i] \notin seen'
        PROVE  Has(todo', <<c, i>>)
    <3>1. CASE c = o
      BY <2>5, <3>1
    <3>2. CASE c # o
      <4>1. ToDo(<<c, i>>) /\ kids[c][i] # o
        BY <1>6, <2>1, <2>7, <3>2
      <4>2. <<c, i>> # slot
        BY <1>4, <4>1
      <4> QED
        BY <1>1, <2>5, <4>1, <4>2
    <3> QED
      BY <3>1, <3>2
  <2>8. \A k \in 1 .. Len(todo') : IsSlot(todo'[k])
    BY <2>6
  <2>9. \A k \in 1 .. Len(todo') :
          todo'[k] \in Chains \X Nat /\ todo'[k][2] \in 1 .. Len(kids'[todo'[k][1]])
    BY <1>2, <2>8 DEF IsSlot
  <2>10. seen' \subseteq Reach'
    BY <1>1, <1>5, <1>6, <2>1
  <2>11. SearchInv'
    BY <1>2, <1>5, <2>5, <2>6, <2>7, <2>9, <2>10 DEF SearchInv, ToDo, IsSlot
  <2> QED
    BY <2>4, <2>11
<1> QED
  BY <1>2, <1>7, <1>8

\* A visit finds an original or makes one, and lists the place of a duplicate: its
\* other places are still to be visited.
LEMMA VisitKeeps ==
  ASSUME TreeInv, Visit
  PROVE  TreeInv'
<1> DEFINE slot == Head(todo)
           rest == Tail(todo)
           o == At(slot)
<1>1. TreeTypes /\ AliveInv /\ SearchInv /\ RangeInv /\ SameSimulation
      /\ OriginalsInv /\ FindInv /\ RefindInv
  BY DEF TreeInv, SearchedInv
<1>2. /\ phase \in {"find", "refind"} /\ (VisitAgain(slot) \/ VisitNew(slot))
      /\ UNCHANGED <<kids, range, stale, name, alive, phase, dellist, before, copy>>
  BY DEF Visit
<1>3. TreeTypes' /\ SearchInv'
  BY <1>1, VisitSearches
<1>4. /\ IsSlot(slot) /\ o \in (Objects \ {Root}) \cap Reach
      /\ rest \in Seq(Chains \X Nat)
      /\ \A e : ToDo(e) <=> e = slot \/ Has(rest, e)
  BY <1>1, Visited
<1>5. TreeShape(kids') /\ RangeInv' /\ Reach' = Reach /\ Tree' = Tree
  BY <1>1, <1>2, SameTree, ReachStays, TreePrimed DEF Tree
<1>6. AliveInv'
  BY <1>1, <1>2, <1>5 DEF AliveInv
<1>7. SameSimulation'
  BY <1>1, <1>2, <1>5 DEF SameSimulation
<1>8. RefindInv' /\ ReplaceInv'
  <2>1. \A p, q : SameContent(p, q)' <=> SameContent(p, q)
    BY <1>2 DEF SameContent
  <2>2. \A p : Hangs(p)' <=> Hangs(p)
    BY <1>2 DEF Hangs
  <2> QED
    BY <1>1, <1>2, <2>1, <2>2 DEF RefindInv, ReplaceInv
<1>9. OriginalsInv' /\ FindInv'
  <2>1. CASE phase # "find"
    BY <1>2, <2>1 DEF OriginalsInv, FindInv
  <2>2. CASE phase = "find"
    <3>1. /\ TreeShape(kids) /\ seen \subseteq Objects \ {Root}
          /\ replace \in [Objects -> Objects \cup {None}] /\ places \in [Objects -> SUBSET (Chains \X Nat)]
      BY <1>1 DEF TreeTypes
    <3>2. /\ \A p \in Objects : replace[p] # None =>
               /\ {p, replace[p]} \subseteq seen /\ p # replace[p]
               /\ replace[replace[p]] = None /\ SameContent(p, replace[p])
          /\ \A p, q \in seen : replace[p] = None /\ replace[q] = None /\ SameContent(p, q) => p = q
          /\ \A ref \in Objects : places[ref] # {} => ref \in seen /\ replace[ref] = None
      BY <1>1, <2>2 DEF OriginalsInv
    <3>3. /\ before.objects = Reach
          /\ \A ref \in Objects : \A s \in places[ref] : IsSlot(s) /\ replace[At(s)] = ref
          /\ \A c \in Chains \cap (seen \cup {Root}) : \A i \in 1 .. Len(kids[c]) :
               \/ replace[kids[c][i]] = None
               \/ <<c, i>> \in places[replace[kids[c][i]]]
               \/ ToDo(<<c, i>>)
      BY <1>1, <2>2 DEF FindInv
    <3>4. \A c \in Chains \cap (seen \cup {Root}) : \A i \in 1 .. Len(kids[c]) :
            kids[c][i] \in seen \/ ToDo(<<c, i>>)
      BY <1>1, <2>2 DEF SearchInv
    <3>5. slot \in Chains \X Nat /\ slot[1] \in Chains /\ slot[2] \in 1 .. Len(kids[slot[1]])
          /\ o = kids[slot[1]][slot[2]] /\ slot = <<slot[1], slot[2]>>
      BY <1>4 DEF IsSlot, At
    <3>6. \A c \in Chains : \A i \in 1 .. Len(kids[c]) : kids[c][i] \in Objects
      BY <3>1 DEF TreeShape
    <3>7. \A s : IsSlot(s) => At(s) \in Objects
      BY <3>1, SlotOf
    <3>8. /\ \A p, q : SameContent(p, q)' <=> SameContent(p, q)
          /\ \A s : IsSlot(s)' <=> IsSlot(s)
          /\ \A s : At(s)' = At(s)
          /\ None \notin Objects
      BY <1>2, NumbersOfObjects DEF SameContent, IsSlot, At
    <3>9. o \in Objects /\ o = At(slot)
      BY <1>4
    <3> HIDE DEF slot, rest, o
    <3>10. CASE VisitAgain(slot)
      <4>1. o \in seen /\ todo' = rest /\ seen' = seen /\ replace' = replace
            /\ places' = IF replace[o] = None THEN places
                         ELSE [places EXCEPT ![replace[o]] = @ \cup {slot}]
        BY <3>10 DEF VisitAgain, o, rest, slot
      <4>2. \A ref \in Objects : places'[ref] = IF ref = replace[o] THEN places[ref] \cup {slot} ELSE places[ref]
        BY <3>1, <3>8, <3>9, <4>1
      <4>3. OriginalsInv'
        <5>1. \A ref \in Objects : places'[ref] # {} => ref \in seen /\ replace[ref] = None
          <6> SUFFICES ASSUME NEW ref \in Objects, places'[ref] # {} PROVE ref \in seen /\ replace[ref] = None
            OBVIOUS
          <6>1. CASE ref = replace[o]
            <7>1. replace[o] # None
              BY <3>8, <6>1
            <7> QED
              BY <3>2, <3>9, <6>1, <7>1
          <6>2. CASE ref # replace[o]
            BY <3>2, <4>2, <6>2
          <6> QED
            BY <6>1, <6>2
        <5> QED
          BY <3>2, <3>8, <4>1, <5>1 DEF OriginalsInv
      <4>4. \A ref \in Objects : \A s \in places'[ref] : IsSlot(s) /\ replace[At(s)] = ref
        <5> SUFFICES ASSUME NEW ref \in Objects, NEW s \in places'[ref] PROVE IsSlot(s) /\ replace[At(s)] = ref
          OBVIOUS
        <5>1. CASE s \in places[ref]
          BY <3>3, <5>1
        <5>2. CASE s \notin places[ref]
          <6>1. s = slot /\ ref = replace[o]
            BY <4>2, <5>2
          <6> QED
            BY <1>4, <3>9, <6>1
        <5> QED
          BY <5>1, <5>2
      <4>5. ASSUME NEW c \in Chains \cap (seen \cup {Root}), NEW i \in 1 .. Len(kids[c]),
                   replace[kids[c][i]] # None
            PROVE  <<c, i>> \in places'[replace[kids[c][i]]] \/ Has(rest, <<c, i>>)
        <5>1. kids[c][i] \in Objects /\ replace[kids[c][i]] \in Objects
          BY <3>1, <3>6, <4>5
        <5>2. CASE <<c, i>> = slot
          <6>1. kids[c][i] = o
            BY <3>5, <5>2
          <6> QED
            BY <4>2, <5>1, <5>2, <6>1
        <5>3. CASE <<c, i>> # slot
          BY <1>4, <3>3, <4>2, <4>5, <5>1, <5>3
        <5> QED
          BY <5>2, <5>3
      <4>6. FindInv'
        BY <1>2, <1>5, <3>3, <3>8, <4>1, <4>4, <4>5 DEF FindInv, ToDo
      <4> QED
        BY <4>3, <4>6
    <3>11. CASE VisitNew(slot)
      <4>1. /\ o \notin seen /\ seen' = seen \cup {o} /\ o # Root
            /\ todo' = IF o \in Chains THEN Slots(o) \o rest ELSE rest
        BY <1>4, <3>11 DEF VisitNew, o, rest
      <4>2. replace[o] = None
        BY <3>2, <3>9, <4>1
      <4>3. \A e : Has(todo', e) <=> Has(rest, e) \/ (o \in Chains /\ \E i \in 1 .. Len(kids[o]) : e = <<o, i>>)
        <5>1. CASE o \in Chains
          <6>1. Slots(o) \in Seq(Chains \X Nat) /\ \A e : Has(Slots(o), e) <=> \E i \in 1 .. Len(kids[o]) : e = <<o, i>>
            BY <3>1, <5>1, SlotList
          <6>2. todo' = Slots(o) \o rest
            BY <4>1, <5>1
          <6>3. \A e : Has(todo', e) <=> Has(Slots(o), e) \/ Has(rest, e)
            BY <1>4, <6>1, <6>2, HasBoth
          <6> QED
            BY <5>1, <6>1, <6>3
        <5>2. CASE o \notin Chains
          BY <4>1, <5>2
        <5> QED
          BY <5>1, <5>2
      <4>4. \A c \in Chains \cap (seen' \cup {Root}) : \A i \in 1 .. Len(kids[c]) :
              <<c, i>> # slot => \/ replace[kids[c][i]] = None /\ kids[c][i] # o
                                 \/ replace[kids[c][i]] # None /\ <<c, i>> \in places[replace[kids[c][i]]]
                                 \/ Has(todo', <<c, i>>)
        <5> SUFFICES ASSUME NEW c \in Chains \cap (seen' \cup {Root}), NEW i \in 1 .. Len(kids[c]),
                            <<c, i>> # slot, ~Has(todo', <<c, i>>)
                     PROVE  \/ replace[kids[c][i]] = None /\ kids[c][i] # o
                            \/ replace[kids[c][i]] # None /\ <<c, i>> \in places[replace[kids[c][i]]]
          OBVIOUS
        <5>1. c # o
          BY <4>3
        <5>2. ~ToDo(<<c, i>>)
          BY <1>4, <4>3
        <5>3. c \in seen \cup {Root}
          BY <4>1, <5>1
        <5> QED
          BY <3>3, <3>4, <4>1, <5>2, <5>3
      <4>5. CASE Originals(o) = {} /\ UNCHANGED <<replace, places>>
        <5>1. \A p, q \in seen' : replace[p] = None /\ replace[q] = None /\ SameContent(p, q) => p = q
          <6>1. \A p \in seen : ~(replace[p] = None /\ SameContent(o, p))
            BY <4>5 DEF Originals
          <6>2. \A p, q : SameContent(p, q) => SameContent(q, p)
            BY EqualContent
          <6> QED
            BY <3>2, <4>1, <6>1, <6>2
        <5>2. OriginalsInv'
          BY <3>2, <3>8, <4>1, <4>5, <5>1 DEF OriginalsInv
        <5>3. ASSUME NEW c \in Chains \cap (seen' \cup {Root}), NEW i \in 1 .. Len(kids[c])
              PROVE  \/ replace[kids[c][i]] = None
                     \/ <<c, i>> \in places[replace[kids[c][i]]]
                     \/ Has(todo', <<c, i>>)
          <6>1. CASE <<c, i>> = slot
            <7>1. kids[c][i] = o
              BY <3>5, <6>1
            <7> QED
              BY <4>2, <7>1
          <6>2. CASE <<c, i>> # slot
            BY <4>4, <6>2
          <6> QED
            BY <6>1, <6>2
        <5>4. FindInv'
          BY <1>2, <1>5, <3>3, <3>8, <4>5, <5>3 DEF FindInv, ToDo
        <5> QED
          BY <5>2, <5>4
      <4>6. ASSUME NEW ref \in Originals(o),
                   replace' = [replace EXCEPT ![o] = ref], places' = [places EXCEPT ![ref] = @ \cup {slot}]
            PROVE  OriginalsInv' /\ FindInv'
        <5>1. ref \in seen /\ replace[ref] = None /\ SameContent(o, ref) /\ ref # o /\ ref \in Objects
          BY <3>1, <4>1 DEF Originals
        <5>2. \A p \in Objects : replace'[p] = IF p = o THEN ref ELSE replace[p]
          BY <3>1, <3>9, <4>6
        <5>3. \A r \in Objects : places'[r] = IF r = ref THEN places[r] \cup {slot} ELSE places[r]
          BY <3>1, <5>1, <4>6
        <5>4. \A p \in Objects : replace[p] # None => p # o /\ replace[p] # o /\ replace[p] \in Objects
          BY <3>1, <3>2, <4>1
        <5>5. ASSUME NEW p \in Objects, replace'[p] # None
              PROVE  /\ {p, replace'[p]} \subseteq seen' /\ p # replace'[p]
                     /\ replace'[replace'[p]] = None /\ SameContent(p, replace'[p])
          <6>1. CASE p = o
            BY <4>1, <5>1, <5>2, <6>1
          <6>2. CASE p # o
            BY <3>2, <4>1, <5>2, <5>4, <5>5, <6>2
          <6> QED
            BY <6>1, <6>2
        <5>6. ASSUME NEW p \in seen', NEW q \in seen', replace'[p] = None, replace'[q] = None, SameContent(p, q)
              PROVE  p = q
          <6>1. p \in Objects /\ q \in Objects
            BY <3>1, <3>9, <4>1
          <6>2. p # o /\ q # o
            BY <3>8, <5>1, <5>2, <5>6, <6>1
          <6> QED
            BY <3>2, <4>1, <5>2, <5>6, <6>1, <6>2
        <5>7. \A r \in Objects : places'[r] # {} => r \in seen' /\ replace'[r] = None
          BY <3>2, <4>1, <5>1, <5>2, <5>3
        <5>8. OriginalsInv'
          BY <3>8, <5>5, <5>6, <5>7 DEF OriginalsInv
        <5>9. ASSUME NEW r \in Objects, NEW s \in places'[r]
              PROVE  IsSlot(s) /\ replace'[At(s)] = r
          <6>1. CASE s \in places[r]
            <7>1. IsSlot(s) /\ replace[At(s)] = r /\ At(s) \in Objects
              BY <3>3, <3>7, <6>1
            <7>2. At(s) # o
              BY <3>8, <4>2, <7>1
            <7> QED
              BY <5>2, <7>1, <7>2
          <6>2. CASE s \notin places[r]
            <7>1. s = slot /\ r = ref
              BY <5>3, <5>9, <6>2
            <7> QED
              BY <1>4, <3>9, <5>2, <7>1
          <6> QED
            BY <6>1, <6>2
        <5>10. ASSUME NEW c \in Chains \cap (seen' \cup {Root}), NEW i \in 1 .. Len(kids[c]),
                      replace'[kids[c][i]] # None
               PROVE  <<c, i>> \in places'[replace'[kids[c][i]]] \/ Has(todo', <<c, i>>)
          <6>1. kids[c][i] \in Objects
            BY <3>6
          <6>2. CASE <<c, i>> = slot
            <7>1. kids[c][i] = o
              BY <3>5, <6>2
            <7> QED
              BY <5>1, <5>2, <5>3, <6>1, <6>2, <7>1
          <6>3. CASE <<c, i>> # slot
            <7>1. CASE kids[c][i] = o
              BY <4>2, <4>4, <6>3, <7>1
            <7>2. CASE kids[c][i] # o
              <8>1. replace'[kids[c][i]] = replace[kids[c][i]] /\ replace[kids[c][i]] \in Objects
                BY <5>2, <5>4, <5>10, <6>1, <7>2
              <8> QED
                BY <4>4, <5>3, <5>10, <6>3, <8>1
            <7> QED
              BY <7>1, <7>2
          <6> QED
            BY <6>2, <6>3
        <5>11. FindInv'
          BY <1>2, <1>5, <3>3, <3>8, <5>9, <5>10 DEF FindInv, ToDo
        <5> QED
          BY <5>8, <5>11
      <4> QED
        BY <3>11, <4>5, <4>6 DEF VisitNew, o
    <3> QED
      BY <1>2, <3>10, <3>11
  <2> QED
    BY <2>1, <2>2
<1> QED
  BY <1>3, <1>5, <1>6, <1>7, <1>8, <1>9 DEF TreeInv, SearchedInv

\* After the search each place of a duplicate is in the list of replacements.
LEMMA FoundKeeps ==
  ASSUME TreeInv, Found
  PROVE  TreeInv'
<1> DEFINE P == UNION {{<<ref, slot>> : slot \in places[ref]} : ref \in Objects}
<1>1. TreeTypes /\ AliveInv /\ SearchInv /\ RangeInv /\ SameSimulation /\ OriginalsInv /\ FindInv
  BY DEF TreeInv, SearchedInv
<1>2. /\ phase = "find" /\ todo = <<>> /\ phase' = "replace" /\ todo' = SetToSeq(P)
      /\ UNCHANGED <<kids, range, stale, name, alive, seen, replace, places, dellist, before, copy>>
  BY DEF Found
<1>3. TreeShape(kids') /\ RangeInv' /\ Reach' = Reach /\ Tree' = Tree
  BY <1>1, <1>2, SameTree, ReachStays, TreePrimed DEF Tree
<1>4. TreeShape(kids) /\ replace \in [Objects -> Objects \cup {None}]
  BY <1>1 DEF TreeTypes
<1>5. \A ref \in Objects : \A s \in places[ref] : s \in Chains \X Nat /\ IsSlot(s) /\ replace[At(s)] = ref
  BY <1>1, <1>2 DEF FindInv, IsSlot
<1>6. todo' \in Seq(P) /\ \A e : Has(todo', e) <=> e \in P
  <2>1. P \subseteq Objects \X {s \in Chains \X Nat : IsSlot(s)}
    BY <1>5
  <2>2. IsFiniteSet(Objects)
    BY TreeAssumption
  <2>3. IsFiniteSet({s \in Chains \X Nat : IsSlot(s)})
    BY <1>4, FiniteSlots
  <2>4. IsFiniteSet(Objects \X {s \in Chains \X Nat : IsSlot(s)})
    BY <2>2, <2>3, FS_Product
  <2> HIDE DEF P
  <2>5. IsFiniteSet(P)
    BY <2>1, <2>4, FS_Subset
  <2> QED
    BY <1>2, <2>5, ListedSet
<1>7. \A e : e \in P <=> \E ref \in Objects : \E s \in places[ref] : e = <<ref, s>>
  OBVIOUS
<1> HIDE DEF P
<1>8. todo' \in Seq(Objects \X (Chains \X Nat))
  <2>1. \A e \in P : e \in Objects \X (Chains \X Nat)
    BY <1>5, <1>7
  <2>2. todo' \in [1 .. Len(todo') -> P] /\ Len(todo') \in Nat
    BY <1>6
  <2>3. todo' \in [1 .. Len(todo') -> Objects \X (Chains \X Nat)]
    BY <2>1, <2>2
  <2> QED
    BY <2>2, <2>3
<1>9. TreeTypes'
  BY <1>1, <1>2, <1>3 DEF TreeTypes
<1>10. AliveInv'
  BY <1>1, <1>2, <1>3 DEF AliveInv
<1>11. SearchInv' /\ FindInv' /\ RefindInv'
  BY <1>2 DEF SearchInv, FindInv, RefindInv
<1>12. OriginalsInv'
  <2>1. \A p, q : SameContent(p, q)' <=> SameContent(p, q)
    BY <1>2 DEF SameContent
  <2> QED
    BY <1>1, <1>2, <2>1 DEF OriginalsInv
<1>13. ReplaceInv'
  <2>1. /\ Reach = seen \cup {Root} /\ \A p \in seen : Hangs(p)
        /\ \A c \in Chains : \A i \in 1 .. Len(kids[c]) : kids[c][i] \in seen
    BY <1>1, <1>2, SearchOver
  <2>2. seen \subseteq alive
    BY <1>1, <2>1 DEF AliveInv, Hangs
  <2>3. ASSUME NEW k \in 1 .. Len(todo')
        PROVE  /\ IsSlot(todo'[k][2]) /\ todo'[k][2] \in places[todo'[k][1]]
               /\ replace[At(todo'[k][2])] = todo'[k][1]
    <3>1. Has(todo', todo'[k])
      BY DEF Has
    <3>2. PICK ref \in Objects : \E s \in places[ref] : todo'[k] = <<ref, s>>
      BY <1>6, <1>7, <3>1
    <3>3. PICK s \in places[ref] : todo'[k] = <<ref, s>>
      BY <3>2
    <3>4. todo'[k][1] = ref /\ todo'[k][2] = s
      BY <3>3
    <3> QED
      BY <1>5, <3>4
  <2>4. ASSUME NEW c \in Chains, NEW i \in 1 .. Len(kids[c]), replace[kids[c][i]] # None
        PROVE  Has(todo', <<replace[kids[c][i]], <<c, i>>>>)
    <3>1. kids[c][i] \in Objects /\ replace[kids[c][i]] \in Objects
      BY <1>4, <2>4 DEF TreeShape
    <3>2. c \in seen \cup {Root}
      <4>1. kids[c] \in Seq(Objects) /\ kids[c] # <<>>
        BY <1>4, EmptySeq DEF TreeShape
      <4> QED
        BY <1>1, <1>2, <2>1, <4>1 DEF AliveInv
    <3>3. ~ToDo(<<c, i>>)
      BY <1>2, EmptySeq DEF ToDo, Has
    <3>4. <<c, i>> \in places[replace[kids[c][i]]]
      BY <1>1, <1>2, <2>4, <3>2, <3>3 DEF FindInv
    <3> QED
      BY <1>6, <1>7, <3>1, <3>4
  <2>5. \A s : IsSlot(s)' <=> IsSlot(s)
    BY <1>2 DEF IsSlot
  <2>6. \A s : At(s)' = At(s)
    BY <1>2 DEF At
  <2>7. \A p : Hangs(p)' <=> Hangs(p)
    BY <1>2 DEF Hangs
  <2>8. before.objects = Reach
    BY <1>1, <1>2 DEF FindInv
  <2> QED
    BY <1>2, <1>8, <2>1, <2>2, <2>3, <2>4, <2>5, <2>6, <2>7, <2>8 DEF ReplaceInv, ToDo, IsSlot, At
<1>14. SameSimulation'
  BY <1>1, <1>2, <1>3 DEF SameSimulation
<1> QED
  BY <1>3, <1>9, <1>10, <1>11, <1>12, <1>13, <1>14 DEF TreeInv, SearchedInv

\* A replacement puts in a leaf that equals the old one, so the tree runs the same;
\* the object replaced is to be deleted, whether or not it still hangs elsewhere.
LEMMA ReplaceOneKeeps ==
  ASSUME TreeInv, ReplaceOne
  PROVE  TreeInv'
<1> DEFINE e == Head(todo)
           rest == Tail(todo)
           ref == e[1]
           slot == e[2]
           old == At(slot)
<1>1. TreeTypes /\ AliveInv /\ RangeInv /\ SameSimulation /\ OriginalsInv /\ ReplaceInv
  BY DEF TreeInv, SearchedInv
<1>2. /\ phase = "replace" /\ phase' = "replace" /\ todo # <<>> /\ todo' = rest
      /\ UNCHANGED <<alive, range, stale, name, seen, replace, places, before, copy>>
      /\ IF places[old] = {}
         THEN kids' = [kids EXCEPT ![slot[1]][slot[2]] = ref] /\ dellist' = dellist \cup {old}
         ELSE UNCHANGED <<kids, dellist>>
  BY DEF ReplaceOne, Replace
<1>3. TreeShape(kids) /\ replace \in [Objects -> Objects \cup {None}] /\ seen \subseteq Objects \ {Root}
      /\ places \in [Objects -> SUBSET (Chains \X Nat)]
  BY <1>1 DEF TreeTypes
<1>4. /\ e = todo[1] /\ rest \in Seq(Objects \X (Chains \X Nat)) /\ e \in Objects \X (Chains \X Nat)
      /\ \A x : Has(todo, x) <=> x = e \/ Has(rest, x)
  BY <1>1, <1>2, HasRest DEF ReplaceInv
<1>5. \A x : Has(todo, x) => IsSlot(x[2]) /\ x[2] \in places[x[1]] /\ (At(x[2]) = x[1] \/ replace[At(x[2])] = x[1])
  BY <1>1, <1>2 DEF ReplaceInv, Has
<1>6. /\ IsSlot(slot) /\ slot \in places[ref] /\ (old = ref \/ replace[old] = ref) /\ ref \in Objects
      /\ e = <<ref, slot>>
  BY <1>4, <1>5
<1> HIDE DEF e, rest, ref, slot, old
<1>7. /\ slot[1] \in Chains /\ slot[2] \in 1 .. Len(kids[slot[1]]) /\ slot = <<slot[1], slot[2]>>
      /\ old \in Objects /\ old = kids[slot[1]][slot[2]]
  BY <1>3, <1>6, SlotOf DEF At, old
<1>8. ref \in seen /\ replace[ref] = None
  BY <1>1, <1>2, <1>6 DEF OriginalsInv
<1>9. \A c \in Chains : \A i \in 1 .. Len(kids[c]) :
        /\ kids[c][i] \in seen
        /\ replace[kids[c][i]] # None => Has(todo, <<replace[kids[c][i]], <<c, i>>>>)
  BY <1>1, <1>2 DEF ReplaceInv, ToDo
<1>10. \A x : Has(rest, x) => Has(todo, x)
  BY <1>4
<1>11. /\ seen \subseteq alive /\ before.objects \subseteq seen \cup {Root}
       /\ \A p \in seen : p \in dellist \/ Hangs(p)
  BY <1>1, <1>2 DEF ReplaceInv
<1>12. OriginalsInv'
  <2>1. \A p, q : SameContent(p, q)' <=> SameContent(p, q)
    BY <1>2 DEF SameContent
  <2> QED
    BY <1>1, <1>2, <2>1 DEF OriginalsInv
<1>13. SearchInv' /\ FindInv' /\ RefindInv'
  BY <1>2 DEF SearchInv, FindInv, RefindInv
<1>14. CASE places[old] # {}
  <2>1. UNCHANGED <<kids, dellist>> /\ old = ref
    BY <1>1, <1>2, <1>6, <1>7, <1>14, NumbersOfObjects DEF OriginalsInv
  <2>2. TreeShape(kids') /\ RangeInv' /\ Reach' = Reach /\ Tree' = Tree
    BY <1>1, <1>2, <2>1, SameTree, ReachStays, TreePrimed DEF Tree
  <2>3. TreeTypes'
    BY <1>1, <1>2, <2>1, <2>2 DEF TreeTypes
  <2>4. AliveInv'
    BY <1>1, <1>2, <2>1, <2>2 DEF AliveInv
  <2>5. ReplaceInv'
    <3>1. \A k \in 1 .. Len(rest) : Has(rest, rest[k])
      BY DEF Has
    <3>2. \A k \in 1 .. Len(rest) :
            /\ IsSlot(rest[k][2]) /\ rest[k][2] \in places[rest[k][1]]
            /\ At(rest[k][2]) = rest[k][1] \/ replace[At(rest[k][2])] = rest[k][1]
      BY <1>5, <1>10, <3>1
    <3>3. ASSUME NEW c \in Chains, NEW i \in 1 .. Len(kids[c]), replace[kids[c][i]] # None
          PROVE  Has(rest, <<replace[kids[c][i]], <<c, i>>>>)
      <4>1. <<c, i>> # slot
        <5> SUFFICES ASSUME <<c, i>> = slot PROVE FALSE
          OBVIOUS
        <5>1. slot[1] = c /\ slot[2] = i
          OBVIOUS
        <5>2. kids[c][i] = ref
          BY <1>7, <2>1, <5>1
        <5> QED
          BY <1>8, <3>3, <5>2
      <4>2. <<replace[kids[c][i]], <<c, i>>>> # e
        BY <1>6, <4>1
      <4> QED
        BY <1>4, <1>9, <3>3, <4>2
    <3>4. \A p : Hangs(p)' <=> Hangs(p)
      BY <2>1 DEF Hangs
    <3> QED
      BY <1>2, <1>4, <1>9, <1>11, <2>1, <3>2, <3>3, <3>4 DEF ReplaceInv, ToDo, IsSlot, At
  <2>6. SameSimulation'
    BY <1>1, <1>2, <2>2 DEF SameSimulation
  <2> QED
    BY <1>12, <1>13, <2>2, <2>3, <2>4, <2>5, <2>6 DEF TreeInv, SearchedInv
<1>15. CASE places[old] = {}
  <2>1. kids' = [kids EXCEPT ![slot[1]][slot[2]] = ref] /\ dellist' = dellist \cup {old}
    BY <1>2, <1>15
  <2>2. old # ref /\ replace[old] = ref /\ old # None /\ replace[old] # None
    BY <1>6, <1>7, <1>15, NumbersOfObjects
  <2>3. SameContent(old, ref) /\ Twins(old, ref) /\ {old, ref} \subseteq Leaves
    BY <1>1, <1>2, <1>7, <2>2, EqualContent DEF OriginalsInv, Twins
  <2>4. kids \in [Chains -> Seq(Objects)]
    BY <1>3 DEF TreeShape
  <2>5. /\ kids' \in [Chains -> Seq(Objects)]
        /\ \A c \in Chains : Len(kids'[c]) = Len(kids[c])
        /\ \A c \in Chains : \A i \in 1 .. Len(kids[c]) :
             kids'[c][i] = IF <<c, i>> = slot THEN ref ELSE kids[c][i]
    <3>1. kids[slot[1]] \in Seq(Objects) /\ Len(kids[slot[1]]) \in Nat
      BY <1>7, <2>4
    <3>2. DEFINE w == [kids[slot[1]] EXCEPT ![slot[2]] = ref]
    <3>3. /\ w \in Seq(Objects) /\ Len(w) = Len(kids[slot[1]])
          /\ \A i \in 1 .. Len(kids[slot[1]]) : w[i] = IF i = slot[2] THEN ref ELSE kids[slot[1]][i]
      BY <1>6, <1>7, <3>1
    <3>4. kids' = [kids EXCEPT ![slot[1]] = w]
      BY <2>1
    <3> HIDE DEF w
    <3>5. /\ kids' \in [Chains -> Seq(Objects)] /\ kids'[slot[1]] = w
          /\ \A c \in Chains : c # slot[1] => kids'[c] = kids[c]
      BY <1>7, <2>4, <3>3, <3>4
    <3>6. \A c \in Chains : \A i : <<c, i>> = slot <=> c = slot[1] /\ i = slot[2]
      BY <1>7
    <3> QED
      BY <3>3, <3>5, <3>6
  <2>6. \A c \in Chains : \A i \in 1 .. Len(kids[c]) :
          /\ kids'[c][i] \in seen /\ kids'[c][i] \in Objects
          /\ kids'[c][i] = kids[c][i] \/ (kids'[c][i] = ref /\ kids[c][i] = old)
    <3> SUFFICES ASSUME NEW c \in Chains, NEW i \in 1 .. Len(kids[c])
                 PROVE  /\ kids'[c][i] \in seen /\ kids'[c][i] \in Objects
                        /\ kids'[c][i] = kids[c][i] \/ (kids'[c][i] = ref /\ kids[c][i] = old)
      OBVIOUS
    <3>1. CASE <<c, i>> = slot
      <4>1. kids[c][i] = old
        BY <1>7, <3>1
      <4> QED
        BY <1>3, <1>8, <2>5, <3>1, <4>1
    <3>2. CASE <<c, i>> # slot
      BY <1>3, <1>9, <2>5, <3>2
    <3> QED
      BY <3>1, <3>2
  <2>7. TreeShape(kids')
    <3>1. ref \notin Chains
      BY <2>3, NumbersOfObjects
    <3> QED
      BY <1>3, <2>5, <2>6, <3>1 DEF TreeShape
  <2>8. Swapped(kids, kids')
    <3>1. DOMAIN kids' = DOMAIN kids
      BY <2>4, <2>5
    <3>2. \A p \in Objects : Twins(p, p)
      BY DEF Twins
    <3>3. \A c \in Chains : \A i \in 1 .. Len(kids[c]) : Twins(kids[c][i], kids'[c][i])
      BY <2>3, <2>6, <3>2
    <3> QED
      BY <2>5, <3>1, <3>3 DEF Swapped
  <2>9. PICK kt : kt = kids'
    OBVIOUS
  <2>10. TreeShape(kt) /\ Swapped(kids, kt)
    BY <2>7, <2>8, <2>9
  <2>11. Tree' = Tree
    <3>1. Simulated(kt) = Simulated(kids)
      BY <1>3, <2>10, SwapRunsAlike
    <3> QED
      BY <2>9, <3>1, TreePrimed DEF Tree
  <2>12. Chains \cap Reach' = Chains \cap Reach
    <3>1. Chains \cap InTree(kt) = Chains \cap InTree(kids)
      BY <1>3, <2>10, SwapSameChains
    <3> QED
      BY <2>9, <3>1, ReachIs, ReachPrimed
  <2>13. old \in Objects \ {Root}
    BY <1>3, <1>7, <1>9
  <2>14. TreeTypes'
    BY <1>1, <1>2, <2>1, <2>7, <2>13 DEF TreeTypes
  <2>15. AliveInv'
    <3>1. \A c \in Chains : \A i \in 1 .. Len(kids'[c]) : kids'[c][i] \in alive'
      BY <1>2, <1>11, <2>5, <2>6
    <3>2. \A c \in Chains : kids'[c] # <<>> => c \in Reach'
      <4>1. \A c \in Chains : kids'[c] # <<>> => kids[c] # <<>>
        <5> SUFFICES ASSUME NEW c \in Chains, kids[c] = <<>> PROVE kids'[c] = <<>>
          OBVIOUS
        <5>1. Len(kids'[c]) = 0 /\ kids'[c] \in Seq(Objects)
          BY <2>5, EmptySeq
        <5> QED
          BY <5>1, EmptySeq
      <4> QED
        BY <1>1, <1>2, <2>12, <4>1 DEF AliveInv
    <3> QED
      BY <1>1, <1>2, <3>1, <3>2 DEF AliveInv
  <2>16. RangeInv'
    <3>1. range' = range /\ stale' = stale
      BY <1>2
    <3> SUFFICES ASSUME NEW c \in Chains \ stale, Kind[c] # "hits", kids'[c] # <<>>
                 PROVE  range'[c] = RecalcFrom(range', c, kids'[c])
      BY <3>1 DEF RangeInv
    <3>2. kids[c] # <<>> /\ Len(kids'[c]) = Len(kids[c])
      <4>1. Len(kids'[c]) = Len(kids[c]) /\ kids'[c] \in Seq(Objects) /\ kids[c] \in Seq(Objects)
        BY <2>4, <2>5
      <4> QED
        BY <4>1, EmptySeq
    <3>3. \A i \in 1 .. Len(kids[c]) : RangeFrom(range, kids'[c][i]) = RangeFrom(range, kids[c][i])
      <4>1. RangeFrom(range, ref) = RangeFrom(range, old)
        BY <2>2, <2>3, NumbersOfObjects, <1>7, <1>6 DEF Twins, RangeFrom
      <4> QED
        BY <2>6, <4>1
    <3>4. RecalcFrom(range, c, kids'[c]) = RecalcFrom(range, c, kids[c])
      <4> DEFINE n == Len(kids[c])
      <4>1. /\ [i \in 1 .. n |-> RangeFrom(range, kids'[c][i]).pdgids]
               = [i \in 1 .. n |-> RangeFrom(range, kids[c][i]).pdgids]
            /\ [i \in 1 .. n |-> RangeFrom(range, kids'[c][i]).ekin]
               = [i \in 1 .. n |-> RangeFrom(range, kids[c][i]).ekin]
            /\ [i \in 1 .. n |-> RangeFrom(range, kids'[c][i]).eta]
               = [i \in 1 .. n |-> RangeFrom(range, kids[c][i]).eta]
        BY <3>3
      <4> QED
        BY <3>2, <4>1 DEF RecalcFrom
    <3> QED
      BY <1>1, <3>1, <3>2, <3>4 DEF RangeInv
  <2>17. ReplaceInv'
    <3>1. \A k \in 1 .. Len(rest) : Has(rest, rest[k])
      BY DEF Has
    <3>2. ASSUME NEW k \in 1 .. Len(rest)
          PROVE  /\ rest[k][2] \in Chains \X Nat /\ rest[k][2][2] \in 1 .. Len(kids'[rest[k][2][1]])
                 /\ rest[k][2] \in places[rest[k][1]]
                 /\ \/ kids'[rest[k][2][1]][rest[k][2][2]] = rest[k][1]
                    \/ replace[kids'[rest[k][2][1]][rest[k][2][2]]] = rest[k][1]
      <4>1. PICK r, s : r = rest[k][1] /\ s = rest[k][2]
        OBVIOUS
      <4>2. IsSlot(s) /\ s \in places[r] /\ (At(s) = r \/ replace[At(s)] = r)
        BY <1>5, <1>10, <3>1, <4>1
      <4>3. s[1] \in Chains /\ s[2] \in 1 .. Len(kids[s[1]]) /\ s = <<s[1], s[2]>> /\ s \in Chains \X Nat
            /\ At(s) = kids[s[1]][s[2]]
        BY <1>3, <4>2, SlotOf DEF IsSlot, At
      <4>4. kids'[s[1]][s[2]] = IF s = slot THEN ref ELSE At(s)
        BY <2>5, <4>3
      <4>5. CASE s = slot
        <5>1. At(s) = old
          BY <4>5 DEF old
        <5>2. r = ref
          BY <1>15, <2>2, <4>2, <5>1
        <5> QED
          BY <2>5, <4>1, <4>2, <4>3, <4>4, <4>5, <5>2
      <4>6. CASE s # slot
        BY <2>5, <4>1, <4>2, <4>3, <4>4, <4>6
      <4> QED
        BY <4>5, <4>6
    <3>3. ASSUME NEW c \in Chains, NEW i \in 1 .. Len(kids'[c]), replace[kids'[c][i]] # None
          PROVE  Has(rest, <<replace[kids'[c][i]], <<c, i>>>>)
      <4>1. i \in 1 .. Len(kids[c])
        BY <2>5
      <4>2. <<c, i>> # slot
        BY <1>8, <2>5, <3>3, <4>1
      <4>3. kids'[c][i] = kids[c][i]
        BY <2>5, <4>1, <4>2
      <4>4. <<replace[kids[c][i]], <<c, i>>>> # e
        BY <1>6, <4>2
      <4> QED
        BY <1>4, <1>9, <3>3, <4>1, <4>3, <4>4
    <3>4. ASSUME NEW p \in seen PROVE p \in dellist' \/ Hangs(p)'
      <4>1. CASE p = old
        BY <2>1, <4>1
      <4>2. CASE p # old
        <5>1. CASE p \in dellist
          BY <2>1, <5>1
        <5>2. CASE Hangs(p)
          <6>1. PICK c \in Chains : \E i \in 1 .. Len(kids[c]) : kids[c][i] = p
            BY <5>2 DEF Hangs
          <6>4. PICK i \in 1 .. Len(kids[c]) : kids[c][i] = p
            BY <6>1
          <6>2. <<c, i>> # slot
            BY <1>7, <4>2, <6>4
          <6>3. kids'[c][i] = p /\ i \in 1 .. Len(kids'[c])
            BY <2>5, <6>4, <6>2
          <6> QED
            BY <6>3 DEF Hangs
        <5> QED
          BY <1>11, <5>1, <5>2
      <4> QED
        BY <4>1, <4>2
    <3>5. seen' \subseteq alive' /\ before'.objects \subseteq seen' \cup {Root}
      BY <1>2, <1>11
    <3>6. \A c \in Chains : \A i \in 1 .. Len(kids'[c]) : kids'[c][i] \in seen'
      BY <1>2, <2>5, <2>6
    <3> QED
      BY <1>2, <1>4, <3>2, <3>3, <3>4, <3>5, <3>6 DEF ReplaceInv, ToDo, IsSlot, At
  <2>18. SameSimulation'
    BY <1>1, <1>2, <2>11 DEF SameSimulation
  <2> QED
    BY <1>12, <1>13, <2>14, <2>15, <2>16, <2>17, <2>18 DEF TreeInv, SearchedInv
<1> QED
  BY <1>14, <1>15

-----------------------------------------------------------------------------
\* The invariant, and what it says: the tree is whole, runs the same and is rid
\* of duplicates.
LEMMA WriteLeaves ==
  ASSUME TreeInv, NEW split \in Splits, WriteAndRead(split)
  PROVE  TreeInv'
<1>1. Ready /\ UNCHANGED <<kids, range, stale, alive, phase, seen, dellist, replace, places>>
  BY DEF WriteAndRead, dupVars
<1> QED
  BY <1>1, BetweenCalls

\* All actions together.
LEMMA TreeInvStep == TreeInv /\ [Next]_vars => TreeInv'
<1> SUFFICES ASSUME TreeInv, [Next]_vars PROVE TreeInv'
  OBVIOUS
<1>1. CASE \E c \in Chains, o \in Objects : PushBack(c, o) \/ PushHit(c, o)
  <2>1. PICK c \in Chains : \E o \in Objects : PushBack(c, o) \/ PushHit(c, o)
    BY <1>1
  <2>2. PICK o \in Objects : PushBack(c, o) \/ PushHit(c, o)
    BY <2>1
  <2> QED
    BY <2>2, PushKeeps
<1>2. CASE RemoveNameTitle
  <2>1. Ready /\ UNCHANGED <<kids, range, stale, alive, phase, seen, dellist, replace, places>>
    BY <1>2 DEF RemoveNameTitle, dupVars
  <2> QED
    BY <2>1, BetweenCalls
<1>3. CASE RemoveDuplicates
  BY <1>3, RemoveDuplicatesKeeps
<1>4. CASE Visit
  BY <1>4, VisitKeeps
<1>5. CASE Found
  BY <1>5, FoundKeeps
<1>6. CASE ReplaceOne
  BY <1>6, ReplaceOneKeeps
<1>7. CASE FindAgain
  BY <1>7, FindAgainKeeps
<1>8. CASE DeleteOne
  BY <1>8, DeleteOneKeeps
<1>9. CASE RemoveDone
  BY <1>9, RemoveDoneKeeps
<1>10. CASE \E split \in Splits : WriteAndRead(split)
  BY <1>10, WriteLeaves
<1>11. CASE UNCHANGED vars
  <2>1. /\ UNCHANGED <<kids, range, stale, name, alive, phase, todo, seen, replace, places>>
        /\ UNCHANGED <<dellist, before, copy>>
    BY <1>11 DEF vars
  <2>2. TreeTypes /\ AliveInv /\ SearchInv /\ RangeInv /\ SameSimulation
        /\ OriginalsInv /\ FindInv /\ ReplaceInv /\ RefindInv
    BY DEF TreeInv, SearchedInv
  <2>3. TreeShape(kids') /\ RangeInv' /\ Reach' = Reach /\ Tree' = Tree
    BY <2>1, <2>2, SameTree, ReachStays, TreePrimed DEF Tree
  <2>4. \A p, q : SameContent(p, q)' <=> SameContent(p, q)
    BY <2>1 DEF SameContent
  <2>5. /\ \A s : IsSlot(s)' <=> IsSlot(s)
        /\ \A s : At(s)' = At(s)
        /\ \A p : Hangs(p)' <=> Hangs(p)
        /\ \A e : ToDo(e)' <=> ToDo(e)
    BY <2>1 DEF IsSlot, At, Hangs, ToDo
  <2>6. TreeTypes' /\ AliveInv' /\ SameSimulation'
    BY <2>1, <2>2, <2>3 DEF TreeTypes, AliveInv, SameSimulation
  <2>7. SearchInv'
    BY <2>1, <2>2, <2>3, <2>5 DEF SearchInv
  <2>8. OriginalsInv' /\ RefindInv'
    BY <2>1, <2>2, <2>4, <2>5 DEF OriginalsInv, RefindInv
  <2>9. FindInv'
    BY <2>1, <2>2, <2>3, <2>5 DEF FindInv
  <2>10. ReplaceInv'
    BY <2>1, <2>2, <2>5 DEF ReplaceInv
  <2> QED
    BY <2>3, <2>6, <2>7, <2>8, <2>9, <2>10 DEF TreeInv, SearchedInv
<1> QED
  BY <1>1, <1>2, <1>3, <1>4, <1>5, <1>6, <1>7, <1>8, <1>9, <1>10, <1>11 DEF Next

LEMMA TreeInvAlways == Spec => []TreeInv
<1>1. TreeInv /\ [Next]_vars => TreeInv'
  BY TreeInvStep
<1> QED
  BY <1>1, InvInit, PTL DEF Spec

\* Of equal objects one is left and everything else is deleted, and at no point
\* of RemoveDuplicates() is a deleted object in the tree, however often and
\* under however many chains a duplicate hangs.
THEOREM OneIsLeft == Spec => []DuplicatesReplaced
<1>1. TreeInv => DuplicatesReplaced
  <2> SUFFICES ASSUME TreeInv PROVE DuplicatesReplaced
    OBVIOUS
  <2>1. TreeTypes /\ AliveInv /\ SearchInv /\ RefindInv
    BY DEF TreeInv, SearchedInv
  <2>2. TreeShape(kids) /\ Reach = InTree(kids) /\ Root \in alive
    BY <2>1, ReachIs DEF TreeTypes
  <2>3. \A o \in Reach : o = Root \/ Hangs(o)
    BY <2>2, TreeHangs DEF Hanging, Hangs
  <2>4. NoDangling
    BY <2>1, <2>2, <2>3 DEF NoDangling, AliveInv, Hangs
  <2>5. NothingTwice
    <3> SUFFICES ASSUME phase = "refind", todo = <<>>
                 PROVE  /\ \A o, p \in Reach \ {Root} : SameContent(o, p) => o = p
                        /\ (before.objects \cap alive) \ Reach \subseteq dellist
      BY DEF NothingTwice
    <3>1. Reach \subseteq Objects /\ Root \in Reach
      BY <2>2, InTreeIs
    <3>2. \A o, p \in Reach \ {Root} : SameContent(o, p) => o = p
      BY <2>1, <2>3, <3>1 DEF RefindInv
    <3>3. \A o : Hangs(o) => o \in Reach
      <4>1. \A c \in Chains : \A i \in 1 .. Len(kids[c]) : kids[c][i] \in seen
        BY <2>1, SearchOver
      <4> QED
        BY <2>1, <4>1 DEF Hangs, SearchInv
    <3> QED
      BY <2>1, <3>1, <3>2, <3>3 DEF RefindInv
  <2> QED
    BY <2>4, <2>5 DEF DuplicatesReplaced
<1> QED
  BY <1>1, TreeInvAlways, PTL

\* RemoveDuplicates() changes nothing of what the tree simulates, nor the order
\* in which it does: at each of its steps the tree runs as it did before the
\* call.
THEOREM RunsAsBefore == Spec => []SameSimulation
<1>1. TreeInv => SameSimulation
  BY DEF TreeInv
<1> QED
  BY <1>1, TreeInvAlways, PTL

\* A chain accepts the particles its daughters accept, all of them or, in the
\* variable it selects by, one of them, and its nominal energy lies in its range,
\* after any sequence of push_back()s to chains that hang in others or do not,
\* RemoveDuplicates() and RemoveNameTitle().  The one exception is a chain one of
\* whose daughters got a daughter after it had been put there
\* (TFCSParametrizationChain.h:58-62), until its own next push_back().
THEOREM RangesOfDaughters == Spec => []MatchesWhatDaughtersMatch
<1>1. TreeInv => MatchesWhatDaughtersMatch
  <2> SUFFICES ASSUME TreeInv, NEW c \in Chains \ stale, kids[c] # <<>>, Kind[c] # "hits"
               PROVE  /\ \A v \in Points :
                           /\ Accepts(c, v[1], v[2], v[3]) => Matches(c, v[1], v[2], v[3])
                           /\ Matches(c, v[1], v[2], v[3]) /\ Kind[c] \in {"plain", "pdgid"} =>
                                Accepts(c, v[1], v[2], v[3])
                      /\ LET r == range[c].ekin IN r.lo <= r.hi => r.lo <= r.nom /\ r.nom <= r.hi
    BY DEF MatchesWhatDaughtersMatch
  <2>1. TreeTypes /\ RangeInv
    BY DEF TreeInv
  <2>2. Ranged /\ kids[c] \in Seq(Objects)
    BY <2>1 DEF TreeTypes, Ranged, TreeShape
  <2> DEFINE n == Len(kids[c])
             r == Recalc(c, kids[c])
             D(i) == RangeOf(kids[c][i])
  <2>3. range[c] = r
    BY <2>1, RecalcHere DEF RangeInv
  <2>4. n \in Nat \ {0}
    BY <2>2, EmptySeq
  <2>5. /\ r.ekin \in Interval /\ r.eta \in Interval /\ r.all = FALSE
        /\ r.ekin.lo <= r.ekin.hi => r.ekin.lo <= r.ekin.nom /\ r.ekin.nom <= r.ekin.hi
        /\ IF Kind[c] = "ekin"
           THEN \A v \in Int : (\E i \in 1 .. n : InRange(D(i).ekin, v)) => InRange(r.ekin, v)
           ELSE \A v \in Int : InRange(r.ekin, v) <=> \A i \in 1 .. n : InRange(D(i).ekin, v)
        /\ IF Kind[c] = "eta"
           THEN \A v \in Int : (\E i \in 1 .. n : InRange(D(i).eta, v)) => InRange(r.eta, v)
           ELSE \A v \in Int : InRange(r.eta, v) <=> \A i \in 1 .. n : InRange(D(i).eta, v)
    BY <2>2, RecalcIs
  <2>6. \A id : id \in r.pdgids <=> IF Kind[c] = "pdgid" THEN \E i \in 1 .. n : id \in D(i).pdgids
                                                          ELSE \A i \in 1 .. n : id \in D(i).pdgids
    <3> DEFINE ids == [i \in 1 .. n |-> D(i).pdgids]
    <3>1. r.pdgids = IF Kind[c] = "pdgid" THEN PdgidUnion(ids) ELSE PdgidIntersect(ids)
      BY DEF Recalc
    <3>2. Len(ids) = n /\ \A i \in 1 .. n : ids[i] = D(i).pdgids
      BY <2>4
    <3>3. 1 \in 1 .. n
      BY <2>4
    <3> HIDE DEF ids, D, r, n
    <3> QED
      BY <3>1, <3>2, <3>3 DEF PdgidUnion, PdgidIntersect
  <2>7. RangeOf(c) = r
    BY <2>3 DEF RangeOf
  <2>8. /\ \A o \in Daughters(c) : \E i \in 1 .. n : o = kids[c][i]
        /\ \A i \in 1 .. n : kids[c][i] \in Daughters(c)
    BY DEF Daughters
  <2> HIDE DEF n, r
  <2>9. ASSUME NEW v \in Points
        PROVE  /\ Accepts(c, v[1], v[2], v[3]) => Matches(c, v[1], v[2], v[3])
               /\ Matches(c, v[1], v[2], v[3]) /\ Kind[c] \in {"plain", "pdgid"} =>
                    Accepts(c, v[1], v[2], v[3])
    <3>1. v[2] \in Int /\ v[3] \in Int
      <4>1. WholeEkin.lo \in Int /\ WholeEkin.hi \in Int /\ WholeEta.lo \in Int /\ WholeEta.hi \in Int
        BY TreeAssumption DEF Interval
      <4> QED
        BY <4>1 DEF Points
    <3> DEFINE id == v[1]
               okId == IF Kind[c] = "pdgid" THEN \E i \in 1 .. n : id \in D(i).pdgids
                                            ELSE \A i \in 1 .. n : id \in D(i).pdgids
               okE == IF Kind[c] = "ekin" THEN \E i \in 1 .. n : InRange(D(i).ekin, v[2])
                                          ELSE \A i \in 1 .. n : InRange(D(i).ekin, v[2])
               okEta == IF Kind[c] = "eta" THEN \E i \in 1 .. n : InRange(D(i).eta, v[3])
                                           ELSE \A i \in 1 .. n : InRange(D(i).eta, v[3])
    <3>2. Accepts(c, v[1], v[2], v[3]) <=> okId /\ okE /\ okEta
      <4>1. (IF Kind[c] = "pdgid" THEN \E o \in Daughters(c) : id \in RangeOf(o).pdgids
                                  ELSE \A o \in Daughters(c) : id \in RangeOf(o).pdgids) <=> okId
        BY <2>8
      <4>2. (IF Kind[c] = "ekin" THEN \E o \in Daughters(c) : InRange(RangeOf(o).ekin, v[2])
                                 ELSE \A o \in Daughters(c) : InRange(RangeOf(o).ekin, v[2])) <=> okE
        BY <2>8
      <4>3. (IF Kind[c] = "eta" THEN \E o \in Daughters(c) : InRange(RangeOf(o).eta, v[3])
                                ELSE \A o \in Daughters(c) : InRange(RangeOf(o).eta, v[3])) <=> okEta
        BY <2>8
      <4> HIDE DEF okId, okE, okEta
      <4> QED
        BY <4>1, <4>2, <4>3 DEF Accepts
    <3>3. okId <=> id \in r.pdgids
      BY <2>6
    <3>4. okE => InRange(r.ekin, v[2])
      BY <2>5, <3>1
    <3>5. okEta => InRange(r.eta, v[3])
      BY <2>5, <3>1
    <3>6. Kind[c] \in {"plain", "pdgid"} =>
            (okE <=> InRange(r.ekin, v[2])) /\ (okEta <=> InRange(r.eta, v[3]))
      BY <2>5, <3>1
    <3>7. Matches(c, v[1], v[2], v[3]) <=> id \in r.pdgids /\ InRange(r.ekin, v[2]) /\ InRange(r.eta, v[3])
      BY <2>5, <2>7 DEF Matches
    <3> HIDE DEF okId, okE, okEta
    <3> QED
      BY <3>2, <3>3, <3>4, <3>5, <3>6, <3>7
  <2> QED
    BY <2>3, <2>5, <2>9
<1> QED
  BY <1>1, TreeInvAlways, PTL

-----------------------------------------------------------------------------
\* What is read back.
LEMMA MostOf ==
  ASSUME NEW S, S \subseteq Objects, S # {}
  PROVE  Max(S) \in S /\ Min(S) \in S
<1> DEFINE n == Cardinality(Objects)
           left == {k \in Nat : n - k \in S}
<1>1. n \in Nat /\ S \subseteq 1 .. n
  BY NumbersOfObjects
<1>2. PICK x \in S : TRUE
  OBVIOUS
<1>3. n - x \in left
  BY <1>1, <1>2
<1>4. PICK m \in left : \A k \in left : m <= k
  BY <1>3, Least
<1>5. \A y \in S : n - m >= y
  <2> SUFFICES ASSUME NEW y \in S PROVE n - m >= y
    OBVIOUS
  <2>1. n - y \in left
    BY <1>1
  <2> QED
    BY <1>1, <1>4, <2>1
<1>6. n - m \in S
  BY <1>4
<1>7. \E z \in S : \A y \in S : z >= y
  BY <1>5, <1>6
<1>8. \E z \in S : \A y \in S : z =< y
  <2>1. S \subseteq Nat
    BY <1>1
  <2>2. PICK z \in S : \A y \in S : z <= y
    BY <2>1, Least
  <2> QED
    BY <2>2
<1> QED
  BY <1>7, <1>8 DEF Max, Min

\* Under a name an object written with it is found, whenever there is one.
LEMMA GetFinds ==
  ASSUME TreeShape(kids), NEW split, split \subseteq Chains, NEW last \in BOOLEAN, NEW o \in Objects
  PROVE  LET found == Get(split, last)[name[o]]
             written == WrittenAs(split, name[o])
         IN  /\ written = {} => found = None
             /\ written # {} => found # None /\ found \in written
             /\ written \subseteq SplitDaughters(split) /\ SplitDaughters(split) \subseteq Objects \cap Reach
<1> DEFINE written == WrittenAs(split, name[o])
<1>1. SplitDaughters(split) \subseteq Objects \cap Reach
  <2> SUFFICES ASSUME NEW c \in split \cap Reach, NEW i \in 1 .. Len(kids[c])
               PROVE  kids[c][i] \in Objects \cap Reach
    BY DEF SplitDaughters
  <2> QED
    BY InTreeIs, ReachIs DEF Closed
<1>2. written \subseteq SplitDaughters(split)
  BY DEF WrittenAs
<1>3. Get(split, last)[name[o]] = IF written = {} THEN None ELSE IF last THEN Max(written) ELSE Min(written)
  BY DEF Get
<1> HIDE DEF written
<1>4. written # {} => Max(written) \in written /\ Min(written) \in written
  BY <1>1, <1>2, MostOf
<1>5. None \notin written
  BY <1>1, <1>2, NumbersOfObjects
<1> QED
  BY <1>1, <1>2, <1>3, <1>4, <1>5 DEF written

\* The function Streamer() follows, reading: a slot of a chain that is split
\* holds what is found under its name.
ReadIn(split, get, g, o) ==
  IF o \in Leaves THEN Simulates(o)
  ELSE RunsIn([i \in 1 .. Len(kids[o]) |->
         IF o \notin split THEN g[kids[o][i]]
         ELSE LET found == get[PlaceholderName(o, i)]
              IN  IF found = None THEN Placeholder ELSE g[found]])
IsRead(split, get, g) == g = [o \in Objects |-> ReadIn(split, get, g, o)]

\* What names tell apart is found again.
LEMMA FoundAlike ==
  ASSUME TreeShape(kids), NEW split, split \subseteq Chains, NEW last \in BOOLEAN, NamesTell(split),
         NEW c \in split \cap Reach, NEW i \in 1 .. Len(kids[c])
  PROVE  LET found == Get(split, last)[PlaceholderName(c, i)]
         IN  found # None /\ found \in Objects \cap Reach /\ Simulated(kids)[found] = Simulated(kids)[kids[c][i]]
<1> DEFINE o == kids[c][i]
           found == Get(split, last)[name[o]]
<1>1. PlaceholderName(c, i) = name[o]
  BY DEF PlaceholderName
<1>2. o \in SplitDaughters(split) /\ o \in Objects
  BY InTreeIs DEF SplitDaughters
<1>3. name[o] # NoName
  BY <1>2 DEF NamesTell
<1>4. o \in WrittenAs(split, name[o])
  BY <1>2, <1>3 DEF WrittenAs
<1>5. found # None /\ found \in WrittenAs(split, name[o]) /\ found \in SplitDaughters(split)
      /\ found \in Objects \cap Reach
  BY <1>2, <1>4, GetFinds
<1>6. name[found] = name[o]
  BY <1>5 DEF WrittenAs
<1>7. Simulated(kids)[found] = Simulated(kids)[o]
  BY <1>2, <1>5, <1>6 DEF NamesTell
<1> QED
  BY <1>1, <1>5, <1>7

\* There is such a function: with the slots of split chains filled from the
\* tree that was written, it is that of the tree.
LEMMA ReadExists ==
  ASSUME TreeShape(kids), NEW split, split \subseteq Chains, NEW last \in BOOLEAN, NamesTell(split)
  PROVE  \E g : IsRead(split, Get(split, last), g)
<1> DEFINE S == Simulated(kids)
           get == Get(split, last)
           Q == split \X Nat
           Held(c, i) == IF get[PlaceholderName(c, i)] = None THEN Placeholder ELSE S[get[PlaceholderName(c, i)]]
           V == [s \in Q |-> Held(s[1], s[2])]
<1>1. PICK f : IsRun(kids, Q, V, f)
  BY RunExists
<1>2. \A c \in split : \A i \in Nat : <<c, i>> \in Q /\ V[<<c, i>>] = Held(c, i)
  OBVIOUS
<1>3. \A c \in Chains : \A i \in 1 .. Len(kids[c]) : i \in Nat /\ (<<c, i>> \in Q <=> c \in split)
  <2>1. \A c \in Chains : Len(kids[c]) \in Nat
    BY DEF TreeShape
  <2> QED
    BY <2>1
<1> HIDE DEF Q, V
<1>4. \A o \in Objects : f[o] = RunOf(kids, Q, V, f, o)
  BY <1>1 DEF IsRun
<1>5. \A o \in Leaves : f[o] = Simulates(o)
  BY <1>4, NumbersOfObjects DEF RunOf
<1>6. \A c \in Chains :
        f[c] = RunsIn([i \in 1 .. Len(kids[c]) |-> IF c \in split THEN Held(c, i) ELSE f[kids[c][i]]])
  <2> SUFFICES ASSUME NEW c \in Chains
               PROVE  f[c] = RunsIn([i \in 1 .. Len(kids[c]) |-> IF c \in split THEN Held(c, i) ELSE f[kids[c][i]]])
    OBVIOUS
  <2>1. f[c] = RunsIn([i \in 1 .. Len(kids[c]) |-> IF <<c, i>> \in Q THEN V[<<c, i>>] ELSE f[kids[c][i]]])
    BY <1>4, NumbersOfObjects DEF RunOf
  <2>2. \A i \in 1 .. Len(kids[c]) :
          (IF <<c, i>> \in Q THEN V[<<c, i>>] ELSE f[kids[c][i]])
          = IF c \in split THEN Held(c, i) ELSE f[kids[c][i]]
    BY <1>2, <1>3
  <2> HIDE DEF Held
  <2>3. [i \in 1 .. Len(kids[c]) |-> IF <<c, i>> \in Q THEN V[<<c, i>>] ELSE f[kids[c][i]]]
        = [i \in 1 .. Len(kids[c]) |-> IF c \in split THEN Held(c, i) ELSE f[kids[c][i]]]
    BY <2>2
  <2> QED
    BY <2>1, <2>3
<1> DEFINE Alike == {o \in Objects : o \in Reach => f[o] = S[o]}
<1>7. Leaves \subseteq Alike
  BY <1>5, SimulatedIs, NumbersOfObjects
<1>8. ASSUME NEW c \in Chains, \A d \in Chains : d > c => d \in Alike PROVE c \in Alike
  <2> SUFFICES ASSUME c \in Reach PROVE f[c] = S[c]
    BY NumbersOfObjects
  <2>1. \A i \in 1 .. Len(kids[c]) : kids[c][i] \in Objects /\ kids[c][i] \in Reach /\ kids[c][i] \in Alike
    <3> SUFFICES ASSUME NEW i \in 1 .. Len(kids[c])
                 PROVE  kids[c][i] \in Objects /\ kids[c][i] \in Reach /\ kids[c][i] \in Alike
      OBVIOUS
    <3>1. kids[c][i] \in Objects /\ kids[c][i] \in Reach /\ (kids[c][i] \in Chains => kids[c][i] > c)
      BY InTreeIs, ReachIs DEF Closed, TreeShape
    <3> HIDE DEF Alike
    <3> QED
      BY <1>7, <1>8, <3>1, NumbersOfObjects
  <2>2. \A i \in 1 .. Len(kids[c]) : (IF c \in split THEN Held(c, i) ELSE f[kids[c][i]]) = S[kids[c][i]]
    <3> SUFFICES ASSUME NEW i \in 1 .. Len(kids[c])
                 PROVE  (IF c \in split THEN Held(c, i) ELSE f[kids[c][i]]) = S[kids[c][i]]
      OBVIOUS
    <3>1. CASE c \in split
      BY <3>1, FoundAlike
    <3>2. CASE c \notin split
      BY <2>1, <3>2
    <3> QED
      BY <3>1, <3>2
  <2>3. S[c] = RunsIn([i \in 1 .. Len(kids[c]) |-> S[kids[c][i]]])
    BY SimulatedIs
  <2> HIDE DEF S, Held
  <2>4. [i \in 1 .. Len(kids[c]) |-> IF c \in split THEN Held(c, i) ELSE f[kids[c][i]]]
        = [i \in 1 .. Len(kids[c]) |-> S[kids[c][i]]]
    BY <2>2
  <2> QED
    BY <1>6, <2>3, <2>4
<1>9. Objects \subseteq Alike
  <2> HIDE DEF Alike
  <2> QED
    BY <1>7, <1>8, FromTheLeaves
<1>10. \A c \in split : \A i \in 1 .. Len(kids[c]) :
         Held(c, i) = LET found == get[PlaceholderName(c, i)]
                      IN  IF found = None THEN Placeholder ELSE f[found]
  <2> SUFFICES ASSUME NEW c \in split, NEW i \in 1 .. Len(kids[c]), get[PlaceholderName(c, i)] # None
               PROVE  S[get[PlaceholderName(c, i)]] = f[get[PlaceholderName(c, i)]]
    OBVIOUS
  <2>1. kids[c][i] \in Objects /\ PlaceholderName(c, i) = name[kids[c][i]]
    BY InTreeIs DEF PlaceholderName
  <2>2. get[name[kids[c][i]]] # None
    BY <2>1
  <2>3. get[name[kids[c][i]]] \in SplitDaughters(split) /\ SplitDaughters(split) \subseteq Objects \cap Reach
    BY <2>1, <2>2, GetFinds
  <2>4. get[PlaceholderName(c, i)] \in Objects \cap Reach
    BY <2>1, <2>3
  <2> QED
    BY <1>9, <2>4
<1>11. \A o \in Objects : f[o] = ReadIn(split, get, f, o)
  <2> SUFFICES ASSUME NEW o \in Objects PROVE f[o] = ReadIn(split, get, f, o)
    OBVIOUS
  <2>1. CASE o \in Leaves
    BY <1>5, <2>1 DEF ReadIn
  <2>2. CASE o \notin Leaves
    <3>1. o \in Chains
      BY <2>2, NumbersOfObjects
    <3>2. \A i \in 1 .. Len(kids[o]) :
            (IF o \in split THEN Held(o, i) ELSE f[kids[o][i]])
            = IF o \notin split THEN f[kids[o][i]]
              ELSE LET found == get[PlaceholderName(o, i)] IN IF found = None THEN Placeholder ELSE f[found]
      BY <1>10
    <3> HIDE DEF Held, get
    <3>3. [i \in 1 .. Len(kids[o]) |-> IF o \in split THEN Held(o, i) ELSE f[kids[o][i]]]
          = [i \in 1 .. Len(kids[o]) |->
              IF o \notin split THEN f[kids[o][i]]
              ELSE LET found == get[PlaceholderName(o, i)] IN IF found = None THEN Placeholder ELSE f[found]]
      BY <3>2
    <3> QED
      BY <1>6, <2>2, <3>1, <3>3 DEF ReadIn
  <2> QED
    BY <2>1, <2>2
<1>12. f = [o \in Objects |-> f[o]]
  BY <1>1 DEF IsRun
<1> HIDE DEF get
<1>13. IsRead(split, get, f)
  BY <1>11, <1>12 DEF IsRead
<1> QED
  BY <1>13 DEF get

\* What such a function reads for the root is the tree: from the leaves up, for
\* all that simulate the same.
LEMMA ReadsTheTree ==
  ASSUME TreeShape(kids), NEW split, split \subseteq Chains, NEW last \in BOOLEAN, NamesTell(split),
         NEW g, IsRead(split, Get(split, last), g)
  PROVE  g[Root] = Simulated(kids)[Root]
<1> DEFINE S == Simulated(kids)
           get == Get(split, last)
           T == {o \in Objects : \A p \in Objects \cap Reach : S[p] = S[o] => g[p] = S[p]}
<1>1. /\ \A o \in Leaves : S[o] = Simulates(o)
      /\ \A c \in Chains : S[c] = RunsIn([i \in 1 .. Len(kids[c]) |-> S[kids[c][i]]])
  BY SimulatedIs
<1>2. \A o \in Objects : g[o] = ReadIn(split, get, g, o)
  BY DEF IsRead
<1>3. \A o \in Leaves : g[o] = Simulates(o)
  BY <1>2, NumbersOfObjects DEF ReadIn
<1>4. \A c \in split : c \in Chains
  OBVIOUS
<1>5. \A c \in split \cap Reach : \A i \in 1 .. Len(kids[c]) :
        LET found == get[PlaceholderName(c, i)]
        IN  found # None /\ found \in Objects \cap Reach /\ S[found] = S[kids[c][i]]
  BY FoundAlike
<1>6. \A o \in Leaves, c \in Chains : S[o] # S[c]
  <2> SUFFICES ASSUME NEW o \in Leaves, NEW c \in Chains, S[o] = S[c] PROVE FALSE
    OBVIOUS
  <2>1. PICK x, y : S[o] = [leaf |-> x] /\ S[c] = [elements |-> y]
    BY <1>1 DEF Simulates, RunsIn
  <2>2. DOMAIN [leaf |-> x] = {"leaf"} /\ DOMAIN [elements |-> y] = {"elements"}
    OBVIOUS
  <2> HIDE DEF S
  <2> QED
    BY <2>1, <2>2
<1> HIDE DEF S, get
<1>7. Leaves \subseteq T
  BY <1>1, <1>3, <1>6, NumbersOfObjects
<1>8. ASSUME NEW c \in Chains, \A d \in Chains : d > c => d \in T PROVE c \in T
  <2> SUFFICES ASSUME NEW p \in Objects \cap Reach, S[p] = S[c] PROVE g[p] = S[p]
    BY NumbersOfObjects
  <2>1. p \in Chains /\ p \notin Leaves
    BY <1>6, NumbersOfObjects
  <2>2. [i \in 1 .. Len(kids[p]) |-> S[kids[p][i]]] = [i \in 1 .. Len(kids[c]) |-> S[kids[c][i]]]
    <3>1. PICK x, y : x = [i \in 1 .. Len(kids[p]) |-> S[kids[p][i]]] /\ y = [i \in 1 .. Len(kids[c]) |-> S[kids[c][i]]]
      OBVIOUS
    <3>2. RunsIn(x) = RunsIn(y)
      BY <1>1, <2>1, <3>1
    <3>3. RunsIn(x).elements = x /\ RunsIn(y).elements = y
      BY DEF RunsIn
    <3> QED
      BY <3>1, <3>2, <3>3
  <2>3. 1 .. Len(kids[p]) = 1 .. Len(kids[c]) /\ \A i \in 1 .. Len(kids[p]) : S[kids[p][i]] = S[kids[c][i]]
    <3>1. PICK x, y : x = [i \in 1 .. Len(kids[p]) |-> S[kids[p][i]]] /\ y = [i \in 1 .. Len(kids[c]) |-> S[kids[c][i]]]
      OBVIOUS
    <3>2. DOMAIN x = 1 .. Len(kids[p]) /\ DOMAIN y = 1 .. Len(kids[c]) /\ x = y
      BY <2>2, <3>1
    <3>3. \A i \in 1 .. Len(kids[p]) : x[i] = S[kids[p][i]] /\ y[i] = S[kids[c][i]]
      BY <3>1, <3>2
    <3> QED
      BY <3>2, <3>3
  <2>4. \A i \in 1 .. Len(kids[c]) : kids[c][i] \in T
    <3> SUFFICES ASSUME NEW i \in 1 .. Len(kids[c]) PROVE kids[c][i] \in T
      OBVIOUS
    <3>1. kids[c][i] \in Objects /\ (kids[c][i] \in Chains => kids[c][i] > c)
      BY DEF TreeShape
    <3> HIDE DEF T
    <3> QED
      BY <1>7, <1>8, <3>1, NumbersOfObjects
  <2>5. \A i \in 1 .. Len(kids[p]) : \A q \in Objects \cap Reach : S[q] = S[kids[p][i]] => g[q] = S[kids[p][i]]
    BY <2>3, <2>4
  <2>6. \A i \in 1 .. Len(kids[p]) : kids[p][i] \in Objects \cap Reach
    BY <2>1, InTreeIs, ReachIs DEF Closed
  <2> HIDE DEF T
  <2>7. ASSUME NEW i \in 1 .. Len(kids[p])
        PROVE  (IF p \notin split THEN g[kids[p][i]]
                ELSE LET found == get[PlaceholderName(p, i)] IN IF found = None THEN Placeholder ELSE g[found])
               = S[kids[p][i]]
    <3>1. CASE p \notin split
      BY <2>5, <2>6, <3>1
    <3>2. CASE p \in split
      BY <1>5, <2>5, <3>2
    <3> QED
      BY <3>1, <3>2
  <2>8. [i \in 1 .. Len(kids[p]) |->
           IF p \notin split THEN g[kids[p][i]]
           ELSE LET found == get[PlaceholderName(p, i)] IN IF found = None THEN Placeholder ELSE g[found]]
        = [i \in 1 .. Len(kids[p]) |-> S[kids[p][i]]]
    BY <2>7
  <2>9. g[p] = RunsIn([i \in 1 .. Len(kids[p]) |-> S[kids[p][i]]])
    BY <1>2, <2>1, <2>8 DEF ReadIn
  <2> QED
    BY <1>1, <2>1, <2>9
<1>9. Objects \subseteq T
  <2> HIDE DEF T
  <2> QED
    BY <1>7, <1>8, FromTheLeaves
<1>10. Root \in Objects \cap Reach
  BY InTreeIs, ReachIs, NumbersOfObjects
<1>11. g[Root] = S[Root]
  BY <1>9, <1>10
<1> QED
  BY <1>11 DEF S

\* So what is read back is the tree that was written.
LEMMA ReadBackIs ==
  ASSUME TreeShape(kids), NEW split, split \subseteq Chains, NEW last \in BOOLEAN, NamesTell(split)
  PROVE  ReadBack(split, Get(split, last)) = Tree
<1> DEFINE get == Get(split, last)
<1>1. PICK g : IsRead(split, get, g)
  BY ReadExists
<1> HIDE DEF get
<1> DEFINE read == CHOOSE h : IsRead(split, get, h)
<1>2. IsRead(split, get, read)
  BY <1>1
<1>3. ReadBack(split, get) = read[Root]
  BY DEF ReadBack, IsRead, ReadIn
<1> HIDE DEF read
<1>4. read[Root] = Simulated(kids)[Root]
  BY <1>2, ReadsTheTree DEF get
<1> QED
  BY <1>3, <1>4 DEF get, Tree

\* A tree read back from a file simulates what was written, whichever chains are
\* split, as long as objects written under one name simulate the same.
THEOREM FilesKeepTheTree == Spec => []ReadsWhatWasWritten
<1>1. Init => ReadsWhatWasWritten
  BY DEF Init, ReadsWhatWasWritten
<1>2. TreeInv /\ ReadsWhatWasWritten /\ [Next]_vars => ReadsWhatWasWritten'
  <2> SUFFICES ASSUME TreeInv, ReadsWhatWasWritten, [Next]_vars PROVE ReadsWhatWasWritten'
    OBVIOUS
  <2>1. TreeShape(kids) /\ (phase # "ready" => copy = NoCopy)
    BY DEF TreeInv, TreeTypes, AliveInv
  <2>2. CASE copy' = NoCopy
    BY <2>2 DEF ReadsWhatWasWritten
  <2>3. CASE UNCHANGED <<kids, name, copy>>
    <3>1. Reach' = Reach /\ Tree' = Tree
      BY <2>3, ReachStays, TreePrimed DEF Tree
    <3>2. PICK split : split = copy.split
      OBVIOUS
    <3>3. NamesTell(split)' => NamesTell(split)
      BY <2>3, <3>1 DEF NamesTell, SplitDaughters
    <3> QED
      BY <2>3, <3>1, <3>2, <3>3 DEF ReadsWhatWasWritten
  <2>4. ASSUME NEW split \in Splits, WriteAndRead(split) PROVE ReadsWhatWasWritten'
    <3>1. PICK last \in BOOLEAN : copy' = [split |-> split, tree |-> <<ReadBack(split, Get(split, last))>>]
      BY <2>4 DEF WriteAndRead
    <3>2. UNCHANGED <<kids, name>>
      BY <2>4 DEF WriteAndRead
    <3>3. Reach' = Reach /\ Tree' = Tree
      BY <3>2, ReachStays, TreePrimed DEF Tree
    <3>4. NamesTell(split)' => NamesTell(split)
      BY <3>2, <3>3 DEF NamesTell, SplitDaughters
    <3>5. split \subseteq Chains
      BY TreeAssumption
    <3>6. NamesTell(split) => ReadBack(split, Get(split, last)) = Tree
      BY <2>1, <3>5, ReadBackIs
    <3>7. copy'.split = split /\ copy'.tree = <<ReadBack(split, Get(split, last))>>
      BY <3>1
    <3> QED
      BY <3>3, <3>4, <3>6, <3>7 DEF ReadsWhatWasWritten
  <2>5. copy' = NoCopy \/ UNCHANGED <<kids, name, copy>> \/ \E split \in Splits : WriteAndRead(split)
    BY <2>1 DEF Next, vars, PushBack, PushHit, RemoveNameTitle, RemoveDuplicates, Visit, Found,
                ReplaceOne, FindAgain, DeleteOne, RemoveDone
  <2> QED
    BY <2>2, <2>3, <2>4, <2>5
<1> QED
  BY <1>1, <1>2, TreeInvAlways, PTL DEF Spec
=============================================================================
