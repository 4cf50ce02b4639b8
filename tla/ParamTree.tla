------------------------------- MODULE ParamTree -------------------------------
(***************************************************************************)
(* The tree of parametrizations: how a chain's range of validity follows    *)
(* from its daughters (recalc()), how daughters of equal content are merged *)
(* (RemoveDuplicates()), and how the tree goes to a file and comes back     *)
(* (TFCSParametrizationChain::Streamer()).                                  *)
(*                                                                          *)
(* Objects are numbered so that a chain only has daughters with a higher    *)
(* number; kids[c] is what size() and operator[] of chain c show, for a hit *)
(* chain with the parametrization of the number of hits in front.           *)
(***************************************************************************)
EXTENDS Integers, Sequences, FiniteSets, SequencesExt

CONSTANTS
  Objects,         \* 1 .. n; 1 is the root
  Kind,            \* of each chain: "plain", "ekin", "eta", "pdgid" or "hits"
  Leaf,            \* of each other object: [class, pdgids, all, ekin, eta, data]
  NameOf,          \* the name an object is created with
  ContentClasses,  \* classes whose operator== compares the content
  HitClasses,      \* classes that simulate hits, for a hit chain
  WholeEkin, WholeEta,  \* the range of a parametrization that has none set
  Splits,          \* sets of chains with the bit kSplitChainObjects
  MaxSlots         \* bound: slots filled at most

Chains == DOMAIN Kind
Leaves == DOMAIN Leaf
Root == 1
None == 0
NoName == "none"
NoCopy == [split |-> {}, tree |-> <<>>]

Interval == [lo : Int, hi : Int, nom : Int]

ASSUME TreeAssumption ==
  /\ IsFiniteSet(Objects) /\ Objects = 1 .. Cardinality(Objects)
  /\ Root \in Chains
  /\ Chains \cup Leaves = Objects /\ Chains \cap Leaves = {}
  /\ \A o \in Leaves : Leaf[o].ekin \in Interval /\ Leaf[o].eta \in Interval
  /\ WholeEkin \in Interval /\ WholeEta \in Interval
  /\ Splits \subseteq SUBSET Chains

VARIABLES
  kids,      \* m_chain of each chain (and m_number_of_hits_simul)
  range,     \* m_pdgid, m_Ekin_*, m_eta_* of each chain
  stale,     \* history: chains whose range a later push_back() to a daughter left behind
  name,      \* GetName(); the title goes with it
  alive,     \* objects not deleted
  phase,     \* "ready" between calls, else the part of RemoveDuplicates()
  todo,      \* FindDuplicates(): slots still to visit, in order
  seen,      \* FindDuplicates(): objects in the duplication list
  replace,   \* FindDuplicates(): Duplicate_t::replace
  places,    \* FindDuplicates(): Duplicate_t::mother and index
  dellist,   \* objects replaced somewhere, to be deleted
  before,    \* history: the tree when the call began
  copy       \* history: what was read back from a file

vars == <<kids, range, stale, name, alive, phase, todo, seen, replace, places,
          dellist, before, copy>>
dupVars == <<todo, seen, replace, places, dellist>>

Slots(c) == [i \in 1 .. Len(kids[c]) |-> <<c, i>>]
At(slot) == kids[slot[1]][slot[2]]

\* The daughters below an object, itself included, in the tree ks.
Below(ks) ==
  LET below[o \in Objects] ==
        {o} \cup IF o \in Leaves THEN {} ELSE UNION {below[ks[o][i]] : i \in 1 .. Len(ks[o])}
  IN  below
Reach == Below(kids)[Root]

RangeOf(o) == IF o \in Chains THEN range[o] ELSE Leaf[o]

-----------------------------------------------------------------------------
\* The range of a chain from those of its daughters, for the kinetic energy and
\* for eta alike.
KeepNominal(lo, hi, nom, other) == IF nom < lo \/ nom > hi THEN other ELSE nom

Narrow(r, p) ==
  LET lo == IF p.lo > r.lo THEN p.lo ELSE r.lo
      hi == IF p.hi < r.hi THEN p.hi ELSE r.hi
  IN  [lo |-> lo, hi |-> hi, nom |-> KeepNominal(lo, hi, r.nom, p.nom)]

Widen_LowOnly(r, p) ==
  LET lo == IF p.lo < r.lo THEN p.lo ELSE r.lo
  IN  [lo |-> lo, hi |-> r.hi, nom |-> KeepNominal(lo, r.hi, r.nom, p.nom)]
Widen(r, p) ==
  LET lo == IF p.lo < r.lo THEN p.lo ELSE r.lo
      hi == IF p.hi > r.hi THEN p.hi ELSE r.hi
  IN  [lo |-> lo, hi |-> hi, nom |-> KeepNominal(lo, hi, r.nom, p.nom)]

Settled(r) ==
  [r EXCEPT !.nom = KeepNominal(r.lo, r.hi, r.nom, (r.lo + r.hi) \div 2)]

\* The loops over m_chain, which begin with the range of its first element.
Intersected(rs) ==
  LET upTo[i \in 1 .. Len(rs)] == Narrow(IF i = 1 THEN rs[1] ELSE upTo[i - 1], rs[i])
  IN  Settled(upTo[Len(rs)])
Joined(rs) ==
  LET upTo[i \in 1 .. Len(rs)] == Widen(IF i = 1 THEN rs[1] ELSE upTo[i - 1], rs[i])
  IN  Settled(upTo[Len(rs)])

PdgidIntersect(rs) == {id \in rs[1] : \A i \in 1 .. Len(rs) : id \in rs[i]}
PdgidUnion(rs) == UNION {rs[i] : i \in 1 .. Len(rs)}

\* recalc() of the class of chain c, with daughters ks.
Recalc(c, ks) ==
  LET ids == [i \in 1 .. Len(ks) |-> RangeOf(ks[i]).pdgids]
      es == [i \in 1 .. Len(ks) |-> RangeOf(ks[i]).ekin]
      etas == [i \in 1 .. Len(ks) |-> RangeOf(ks[i]).eta]
  IN  [pdgids |-> IF Kind[c] = "pdgid" THEN PdgidUnion(ids) ELSE PdgidIntersect(ids),
       all |-> FALSE,
       ekin |-> IF Kind[c] = "ekin" THEN Joined(es) ELSE Intersected(es),
       eta |-> IF Kind[c] = "eta" THEN Joined(etas) ELSE Intersected(etas)]

Unset == [pdgids |-> {}, all |-> FALSE, ekin |-> WholeEkin, eta |-> WholeEta]

\* is_match_pdgid(), is_match_Ekin(), is_match_eta().
InRange(r, v) == r.lo <= v /\ v < r.hi
Matches(o, id, e, eta) ==
  LET r == RangeOf(o)
  IN  (r.all \/ id \in r.pdgids) /\ InRange(r.ekin, e) /\ InRange(r.eta, eta)

\* What an object simulates: its class, range and data, and those of its
\* daughters, in order.
Placeholder == [placeholder |-> TRUE]
Simulates(o) == [leaf |-> Leaf[o]]
RunsIn(elements) == [elements |-> elements]
Simulated(ks) ==
  LET tree[o \in Objects] ==
        IF o \in Leaves THEN Simulates(o)
        ELSE RunsIn([i \in 1 .. Len(ks[o]) |-> tree[ks[o][i]]])
  IN  tree
Tree == Simulated(kids)[Root]

-----------------------------------------------------------------------------
Ready == phase = "ready"

Init ==
  /\ kids = [c \in Chains |-> <<>>]
  /\ range = [c \in Chains |-> Unset] /\ stale = {}
  /\ name = NameOf
  /\ alive = Objects
  /\ phase = "ready" /\ todo = <<>> /\ seen = {}
  /\ replace = [o \in Objects |-> None]
  /\ places = [o \in Objects |-> {}]
  /\ dellist = {} /\ before = [tree |-> RunsIn(<<>>), objects |-> {}] /\ copy = NoCopy

Filled == MapThenSumSet(LAMBDA c : Len(kids[c]), Chains)

Daughters(c) == {kids[c][i] : i \in 1 .. Len(kids[c])}
Mothers(o) == {c \in Chains : o \in Daughters(c)}

\* A chain may get a daughter, an empty chain too, wherever it hangs itself.
MayPush(c, o) == Ready /\ o > c /\ Filled < MaxSlots /\ {c, o} \subseteq alive

\* recalc() goes no further up than the chain itself: the chains it hangs in
\* keep the range they had.
RangeBecomes(c, r) ==
  /\ range' = [range EXCEPT ![c] = r]
  /\ stale' = (stale \ {c}) \cup Mothers(c)

\* TFCSParametrizationChain::push_back().
PushBack(c, o) ==
  /\ MayPush(c, o) /\ Kind[c] # "hits"
  /\ kids' = [kids EXCEPT ![c] = Append(@, o)]
  /\ RangeBecomes(c, Recalc(c, kids'[c]))
  /\ copy' = NoCopy
  /\ UNCHANGED <<name, alive, phase, before, dupVars>>

\* A hit chain takes its range from the first hit, and keeps it.
FirstHit(o) ==
  [pdgids |-> Leaf[o].pdgids, all |-> FALSE, ekin |-> Leaf[o].ekin, eta |-> Leaf[o].eta]
PushHit(c, o) ==
  /\ MayPush(c, o) /\ Kind[c] = "hits" /\ o \in Leaves /\ Leaf[o].class \in HitClasses
  /\ kids' = [kids EXCEPT ![c] = Append(@, o)]
  /\ IF kids[c] = <<>> THEN RangeBecomes(c, FirstHit(o)) ELSE UNCHANGED <<range, stale>>
  /\ copy' = NoCopy
  /\ UNCHANGED <<name, alive, phase, before, dupVars>>

\* RemoveNameTitle(): of everything below the root, not of the root.
RemoveNameTitle ==
  /\ Ready
  /\ name' = [o \in Objects |-> IF o \in Reach \ {Root} THEN NoName ELSE name[o]]
  /\ copy' = NoCopy
  /\ UNCHANGED <<kids, range, stale, alive, phase, before, dupVars>>

-----------------------------------------------------------------------------
\* operator==: an object equals itself; some classes compare class, name, range
\* and data.
SameContent_NoData(o, p) ==
  \/ o = p
  \/ /\ {o, p} \subseteq Leaves
     /\ Leaf[o].class = Leaf[p].class /\ Leaf[o].class \in ContentClasses
     /\ name[o] = name[p] /\ [Leaf[o] EXCEPT !.data = None] = [Leaf[p] EXCEPT !.data = None]
SameContent(o, p) ==
  \/ o = p
  \/ /\ {o, p} \subseteq Leaves
     /\ Leaf[o].class \in ContentClasses
     /\ name[o] = name[p] /\ Leaf[o] = Leaf[p]

\* RemoveDuplicates() of the root.  Another tree that holds objects of this one
\* is not looked at and would be left with deleted ones: there is none.
StartFinding == todo' = Slots(Root) /\ seen' = {}
RemoveDuplicates ==
  /\ Ready /\ \A c \in Chains : kids[c] # <<>> => c \in Reach
  /\ phase' = "find" /\ StartFinding
  /\ replace' = [o \in Objects |-> None]
  /\ places' = [o \in Objects |-> {}]
  /\ before' = [tree |-> Tree, objects |-> Reach]
  /\ copy' = NoCopy
  /\ UNCHANGED <<kids, range, stale, name, alive, dellist>>

\* FindDuplicates(): a daughter met before; if it is to be replaced, in this
\* place as well.
VisitAgain(slot) ==
  LET ref == replace[At(slot)]
  IN  /\ At(slot) \in seen
      /\ places' = IF ref = None THEN places
                   ELSE [places EXCEPT ![ref] = @ \cup {slot}]
      /\ todo' = Tail(todo)
      /\ UNCHANGED <<seen, replace>>

\* FindDuplicates(): a new daughter; a duplicate of one that stays is to be
\* replaced by it.
Originals(o) == {ref \in seen : replace[ref] = None /\ SameContent(o, ref)}
VisitNew(slot) ==
  LET o == At(slot)
  IN  /\ o \notin seen
      /\ seen' = seen \cup {o}
      /\ \/ Originals(o) = {} /\ UNCHANGED <<replace, places>>
         \/ \E ref \in Originals(o) :
              /\ replace' = [replace EXCEPT ![o] = ref]
              /\ places' = [places EXCEPT ![ref] = @ \cup {slot}]
      /\ todo' = IF o \in Chains THEN Slots(o) \o Tail(todo) ELSE Tail(todo)

Visit ==
  /\ phase \in {"find", "refind"} /\ todo # <<>>
  /\ VisitAgain(Head(todo)) \/ VisitNew(Head(todo))
  /\ UNCHANGED <<kids, range, stale, name, alive, phase, dellist, before, copy>>

Found ==
  /\ phase = "find" /\ todo = <<>>
  /\ phase' = "replace"
  /\ todo' = SetToSeq(UNION {{<<ref, slot>> : slot \in places[ref]} : ref \in Objects})
  /\ UNCHANGED <<kids, range, stale, name, alive, seen, replace, places, dellist, before, copy>>

\* One place of a duplicate is given the original, unless the object in it has
\* replacements of its own attached.
Replace_DeleteAtOnce(ref, slot) ==
  /\ kids' = [kids EXCEPT ![slot[1]][slot[2]] = ref]
  /\ alive' = alive \ {At(slot)}
  /\ UNCHANGED dellist
Replace(ref, slot) ==
  LET old == At(slot)
  IN  /\ IF places[old] = {}
         THEN /\ kids' = [kids EXCEPT ![slot[1]][slot[2]] = ref]
              /\ dellist' = dellist \cup {old}
         ELSE UNCHANGED <<kids, dellist>>
      /\ UNCHANGED alive

ReplaceOne ==
  /\ phase = "replace" /\ todo # <<>>
  /\ Replace(Head(todo)[1], Head(todo)[2])
  /\ todo' = Tail(todo)
  /\ UNCHANGED <<range, stale, name, phase, seen, replace, places, before, copy>>

\* The tree is searched again, with an empty list, to see what it still holds.
FindAgain ==
  /\ phase = "replace" /\ todo = <<>>
  /\ phase' = "refind" /\ StartFinding
  /\ replace' = [o \in Objects |-> None]
  /\ places' = [o \in Objects |-> {}]
  /\ UNCHANGED <<kids, range, stale, name, alive, dellist, before, copy>>

DeleteOne ==
  /\ phase = "refind" /\ todo = <<>>
  /\ \E o \in dellist :
       /\ dellist' = dellist \ {o}
       /\ alive' = IF o \in seen THEN alive ELSE alive \ {o}
  /\ UNCHANGED <<kids, range, stale, name, phase, todo, seen, replace, places, before, copy>>

RemoveDone ==
  /\ phase = "refind" /\ todo = <<>> /\ dellist = {}
  /\ phase' = "ready" /\ seen' = {}
  /\ replace' = [o \in Objects |-> None]
  /\ places' = [o \in Objects |-> {}]
  /\ UNCHANGED <<kids, range, stale, name, alive, todo, dellist, before, copy>>

-----------------------------------------------------------------------------
\* Streamer(): a chain with the split bit, written to a file, writes each
\* daughter under its name and leaves a placeholder; otherwise the daughters
\* themselves.  What is found under a name that several objects were written
\* with is the first or the last of them; nothing is found under an empty name.
SplitDaughters(split) ==
  UNION {{kids[c][i] : i \in 1 .. Len(kids[c])} : c \in split \cap Reach}
WrittenAs(split, n) == {o \in SplitDaughters(split) : name[o] = n /\ n # NoName}

\* What is read from the buffer for the placeholder number i that was written:
\* placeholders are objects of their own, though they had the same address.
PlaceholderName_SameAddress(c, i) == name[kids[c][1]]
PlaceholderName(c, i) == name[kids[c][i]]

ReadBack(split, get) ==
  LET read[o \in Objects] ==
        IF o \in Leaves THEN Simulates(o)
        ELSE RunsIn([i \in 1 .. Len(kids[o]) |->
               IF o \notin split THEN read[kids[o][i]]
               ELSE LET found == get[PlaceholderName(o, i)]
                    IN  IF found = None THEN Placeholder ELSE read[found]])
  IN  read[Root]

Get(split, last) ==
  [n \in {name[o] : o \in Objects} |->
     LET written == WrittenAs(split, n)
     IN  IF written = {} THEN None ELSE IF last THEN Max(written) ELSE Min(written)]
WriteAndRead(split) ==
  /\ Ready /\ copy = NoCopy
  /\ \E last \in BOOLEAN : copy' = [split |-> split, tree |-> <<ReadBack(split, Get(split, last))>>]
  /\ UNCHANGED <<kids, range, stale, name, alive, phase, before, dupVars>>

Next ==
  \/ \E c \in Chains, o \in Objects : PushBack(c, o) \/ PushHit(c, o)
  \/ RemoveNameTitle \/ RemoveDuplicates
  \/ Visit \/ Found \/ ReplaceOne \/ FindAgain \/ DeleteOne \/ RemoveDone
  \/ \E split \in Splits : WriteAndRead(split)

Spec == Init /\ [][Next]_vars

-----------------------------------------------------------------------------
\* No deleted object is left in the tree, at any point of RemoveDuplicates(): a
\* duplicate may hang in several places, under several chains.
NoDangling == Reach \subseteq alive

\* RemoveDuplicates() changes nothing of what the tree simulates, in what order.
SameSimulation == phase # "ready" => Tree = before.tree

\* When RemoveDuplicates() has searched the tree again, no two objects of it are
\* equal, and those it has replaced are about to be deleted: none is leaked.
NothingTwice ==
  phase = "refind" /\ todo = <<>> =>
    /\ \A o, p \in Reach \ {Root} : SameContent(o, p) => o = p
    /\ (before.objects \cap alive) \ Reach \subseteq dellist

\* A tree read back from a file simulates what was written, whichever chains are
\* split, when objects written under one name simulate the same: a name that
\* RemoveNameTitle() has taken away leaves a placeholder.
NamesTell(split) ==
  LET written == SplitDaughters(split)
      simulates == Simulated(kids)
  IN  \A o \in written :
        /\ name[o] # NoName
        /\ \A p \in written : name[o] = name[p] => simulates[o] = simulates[p]
ReadsWhatWasWritten ==
  copy # NoCopy => (NamesTell(copy.split) => copy.tree = <<Tree>>)

\* A chain accepts exactly the particles that its daughters accept -- all of
\* them, or for a selecting chain one of them in the selecting variable (where
\* it may accept more, between their ranges) -- and its nominal energy lies in
\* its range.  (A daughter for every particle species lists none, and so makes
\* the chain refuse all.)  Writing a tree and merging duplicates change no
\* range.  Only a chain one of whose daughters got a daughter after it had been
\* put there does not, until it gets another daughter itself.
Accepts(c, id, e, eta) ==
  LET okId(o) == id \in RangeOf(o).pdgids
      okE(o) == InRange(RangeOf(o).ekin, e)
      okEta(o) == InRange(RangeOf(o).eta, eta)
      ds == Daughters(c)
  IN  /\ IF Kind[c] = "pdgid" THEN \E o \in ds : okId(o) ELSE \A o \in ds : okId(o)
      /\ IF Kind[c] = "ekin" THEN \E o \in ds : okE(o) ELSE \A o \in ds : okE(o)
      /\ IF Kind[c] = "eta" THEN \E o \in ds : okEta(o) ELSE \A o \in ds : okEta(o)
Points == (UNION {RangeOf(o).pdgids : o \in Objects})
          \X (WholeEkin.lo .. WholeEkin.hi) \X (WholeEta.lo .. WholeEta.hi)
MatchesWhatDaughtersMatch ==
  \A c \in Chains \ stale :
   Ready /\ copy = NoCopy /\ kids[c] # <<>> /\ Kind[c] # "hits" =>
    /\ \A v \in Points :
         /\ Accepts(c, v[1], v[2], v[3]) => Matches(c, v[1], v[2], v[3])
         /\ Matches(c, v[1], v[2], v[3]) /\ Kind[c] \in {"plain", "pdgid"} =>
              Accepts(c, v[1], v[2], v[3])
    /\ LET r == range[c].ekin IN r.lo <= r.hi => r.lo <= r.nom /\ r.nom <= r.hi

\* Of equal objects one is left, everything else is deleted, and at no time is
\* a deleted one in the tree.
DuplicatesReplaced == NoDangling /\ NothingTwice
=============================================================================
