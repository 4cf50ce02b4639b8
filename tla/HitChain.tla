------------------------------ MODULE HitChain ------------------------------
(***************************************************************************)
(* The hit loop of TFCSLateralShapeParametrizationHitChain::simulate() and  *)
(* of its subclass TFCSLateralShapeParametrizationFixedHitChain, run for    *)
(* the layers of one shower, one after the other, on one                    *)
(* TFCSSimulationState.                                                     *)
(*                                                                          *)
(* A chain fills a calorimeter layer with hits until the layer's energy is  *)
(* used up (plain chain) or the requested number of hits was made (fixed    *)
(* chain).  Each hit is passed through the elements of m_chain; an element  *)
(* may ask for the hit to be tried again or stop the simulation.            *)
(*                                                                          *)
(* Energies are integers, counted in a unit of which the energy of a hit,   *)
(* Elayer / (maxWeight * nhits), is a multiple.                             *)
(***************************************************************************)
EXTENDS Sums, Sequences

CONSTANTS
  NLayers,      \* layers simulated one after the other
  Chain,        \* kinds of the elements of m_chain, in order
  NInit,        \* m_ninit: how many of them run once, before the hit loop
  FixedKinds,   \* {FALSE} the plain chain, {TRUE} its FixedHitChain subclass
  RawCounts,    \* answers of the element that is asked for the hit number
  HitEs,        \* nominal hit energies; 0 stands for an empty layer
  Tiny,         \* those so small that the float Ehit * Elayer is zero
  MaxWeight,    \* getMaxWeight(), 1 when no element has a weight
  Weights,      \* the weights an element draws for a hit
  RetryCounts,  \* the n of the FCSRetry + n a cell mapping returns
  Cutoff        \* the 1000 of the hit loop's abort condition

\* What the elements of a chain do to a hit: place it (the lateral shapes),
\* scale its energy (the weights, the voxels of a binned shower), match it to
\* a cell (TFCSHitCellMapping), or the FCal matching that may ask to retry.
Kinds == {"shape", "weight", "map", "fcal"}

ASSUME ChainAssumption ==
  /\ NLayers \in Nat \ {0}
  /\ Chain \in Seq(Kinds)
  /\ NInit \in 0 .. Len(Chain)
  /\ FixedKinds \subseteq BOOLEAN
\* A hit is matched to a cell by the last element, and by no other.
ASSUME MapLast ==
  /\ NInit < Len(Chain)
  /\ \A i \in 1 .. Len(Chain) :
       Chain[i] \in {"map", "fcal"} <=> i = Len(Chain)
ASSUME EnergyAssumption ==
  /\ RawCounts \subseteq Int
  /\ HitEs \subseteq Int
  /\ Tiny \subseteq HitEs
  /\ MaxWeight \in Nat \ {0}
  /\ Weights \subseteq Int
ASSUME LoopAssumption ==
  /\ RetryCounts \subseteq Nat
  /\ Cutoff \in Nat \ {0}

Layers == 1 .. NLayers

VARIABLES
  fixed,     \* the class of the chain
  pc,        \* where simulate() is
  cs,        \* calosample(): the layer being simulated
  draw,      \* per layer, the hit number and hit energy its draws give
  layerE,    \* TFCSSimulationState::m_E
  totalE,    \* TFCSSimulationState::E(), less its value at the start
  deposit,   \* per layer, the energy deposited in cells
  hasSum,    \* whether the energy-sum aux-info was ever set,
  auxSum,    \* and its value (FCSHitChainEnergySum/FCSFixedHitChainEnergySum)
  pos,       \* the element of m_chain that runs next
  idx,       \* hit.idx()
  hitE,      \* hit.E()
  sumE,      \* the local sumEhit
  ifail,     \* failed attempts of the current hit
  retry,     \* the number of retries the last failure granted
  result     \* per layer, what simulate() returned

event  == <<draw, layerE, totalE, deposit, hasSum, auxSum>>
attempt == <<pos, idx, hitE, sumE, ifail, retry>>
vars == <<fixed, pc, cs, event, attempt, result>>

AbsVal(x) == IF x < 0 THEN -x ELSE x

\* TFCSLateralShapeParametrizationHitChain::get_number_of_hits(): at least 1.
NumberOfHits(raw) == IF raw < 1 THEN 1 ELSE raw

\* Elayer / (maxWeight * nhits) read backwards: the energy of a layer whose
\* hit number and hit energy are d.
LayerEnergy(d) == d.e * MaxWeight * d.n

Draws == [n: {NumberOfHits(r) : r \in RawCounts}, e: HitEs]

\* get_E_hit() and the local nhit = Nint(Elayer / Ehit), at least 1.
Ehit == draw[cs].e
NHits == draw[cs].n
Nhit == IF MaxWeight * NHits < 1 THEN 1 ELSE MaxWeight * NHits

-----------------------------------------------------------------------------
\* Leave simulate() with status r.
Return(r) ==
  /\ pc' = "returned"
  /\ result' = [result EXCEPT ![cs] = r]

\* The head of the hit loop: hit.reset(); hit.set_E(Ehit).
NextAttempt ==
  /\ pc' = "element"
  /\ pos' = NInit + 1
  /\ hitE' = Ehit
  /\ UNCHANGED result

\* The energy of the hits before hit i, as the aux-info has it: the first hit
\* of a layer must not see what an earlier layer left there.
SumBefore_Stale(i) == IF hasSum /\ i > 0 THEN auxSum ELSE 0
SumBefore(i) == IF hasSum /\ i > 1 THEN auxSum ELSE 0

\* Whether the energy s fills the layer.
Fills_Strict(s) == AbsVal(s) > AbsVal(layerE[cs])
Fills(s) == AbsVal(s) >= AbsVal(layerE[cs])

\* check_all_hits_simulated(hit, ..., success) of the plain chain, where i and
\* e are hit.idx() and hit.E().
CheckPlain(i, e, success) ==
  LET s == SumBefore(i) + e
  IN  IF ~success
        THEN NextAttempt /\ UNCHANGED event
        ELSE /\ hasSum' = TRUE
             /\ auxSum' = s
             /\ UNCHANGED <<draw, layerE, totalE, deposit>>
             /\ IF Fills(s)
                  THEN Return("Success") /\ UNCHANGED <<pos, hitE>>
                  ELSE NextAttempt

\* Whether the fixed chain has its hits, and E() when E(layer) becomes new.
HitsMissing_OneMore(i) == i <= NHits
HitsMissing(i) == i < NHits

NewTotal(new) == totalE + (new - layerE[cs])

\* The override of the fixed chain: success is ignored.  get_E_hit() has always
\* stored a number of hits that is at least 1, so its two error exits are never
\* taken; the share of E() it notes with the layer (set_Efrac()) is read by
\* nobody in the loop and left out.
CheckFixed(i, e) ==
  IF HitsMissing(i)
    THEN /\ hasSum' = TRUE
         /\ auxSum' = (IF hasSum /\ i > 0 THEN auxSum ELSE 0) + e
         /\ NextAttempt
         /\ UNCHANGED <<draw, layerE, totalE, deposit>>
    ELSE LET new == IF hasSum THEN auxSum ELSE 0
         IN  /\ totalE' = NewTotal(new)
             /\ layerE' = [layerE EXCEPT ![cs] = new]
             /\ hasSum' = TRUE
             /\ auxSum' = 0
             /\ Return("Success")
             /\ UNCHANGED <<draw, deposit, pos, hitE>>

CheckAllHitsSimulated(i, e, success) ==
  IF fixed THEN CheckFixed(i, e) ELSE CheckPlain(i, e, success)

-----------------------------------------------------------------------------
\* A shower whose energy was already distributed over the layers.
Init ==
  /\ fixed \in FixedKinds
  /\ draw \in [Layers -> Draws]
  /\ layerE = [l \in Layers |-> LayerEnergy(draw[l])]
  /\ totalE = 0
  /\ deposit = [l \in Layers |-> 0]
  /\ hasSum = FALSE /\ auxSum = 0
  /\ pc = "init" /\ cs = 1 /\ pos = 1
  /\ idx = 0 /\ hitE = 0 /\ sumE = 0 /\ ifail = 0 /\ retry = 0
  /\ result = [l \in Layers |-> "none"]

\* init_hit(): the first NInit elements run once; anything but success is fatal.
\* They place the shower's centre and leave the hit's energy alone.
InitElement ==
  /\ pc = "init" /\ pos <= NInit
  /\ \/ pos' = pos + 1 /\ UNCHANGED <<pc, result>>
     \/ Return("Fatal") /\ UNCHANGED pos
  /\ UNCHANGED <<cs, event, idx, hitE, sumE, ifail, retry>>

\* From the read of Elayer to the head of the hit loop: an empty layer is done,
\* a hit energy whose product with Elayer is not positive is an error.
Setup ==
  /\ pc = "init" /\ pos > NInit
  /\ IF layerE[cs] = 0
       THEN Return("Success") /\ UNCHANGED attempt
     ELSE IF Ehit \in Tiny
       THEN Return("Fatal") /\ UNCHANGED attempt
       ELSE /\ NextAttempt
            /\ idx' = 0 /\ sumE' = 0 /\ ifail' = 0 /\ retry' = 0
  /\ UNCHANGED <<cs, event>>

\* A hit that is too far from the nearest cell loses its energy.
FarFromCell == hitE' = 0 /\ UNCHANGED deposit

\* simulate_hit() of the element at pos succeeds.
ElementSuccess ==
  /\ pc = "element" /\ pos <= Len(Chain)
  /\ \/ /\ Chain[pos] = "shape"
        /\ UNCHANGED <<hitE, deposit>>
     \/ /\ Chain[pos] = "weight"
        /\ \E w \in Weights : hitE' = w * hitE
        /\ UNCHANGED deposit
     \/ /\ Chain[pos] \in {"map", "fcal"}     \* near enough to a cell, or not
        /\ \/ /\ deposit' = [deposit EXCEPT ![cs] = @ + hitE]
              /\ UNCHANGED hitE
           \/ FarFromCell
  /\ pos' = pos + 1
  /\ UNCHANGED <<pc, cs, draw, layerE, totalE, hasSum, auxSum>>
  /\ UNCHANGED <<idx, sumE, ifail, retry, result>>

\* simulate_hit() returns FCSFatal (no random engine, no shower centre).
ElementFatal ==
  /\ pc = "element" /\ pos <= Len(Chain)
  /\ Chain[pos] \in {"shape", "weight"}
  /\ Return("Fatal")
  /\ UNCHANGED <<cs, event, attempt>>

\* ++ifail
Failures == ifail + 1

\* simulate_hit() returns FCSRetry + n: give up when ifail reaches n, else try
\* the hit again.
ElementRetry ==
  /\ pc = "element" /\ pos <= Len(Chain)
  /\ Chain[pos] = "fcal"
  /\ \E n \in RetryCounts :
       /\ ifail' = Failures
       /\ retry' = n
       /\ IF Failures >= n
            THEN /\ Return("Fatal")
                 /\ UNCHANGED <<event, pos, hitE>>
            ELSE CheckAllHitsSimulated(idx, hitE, FALSE)
  /\ UNCHANGED <<cs, idx, sumE>>

\* hit.set_idx(hit.idx() + 1), and the abort condition after i hits.
CountHit_NonZero == IF hitE = 0 THEN idx ELSE idx + 1
CountHit == idx + 1

TooManyHits_NoFactor(i) == i >= Nhit
TooManyHits(i) == i >= Cutoff * Nhit /\ i >= Cutoff

\* All elements succeeded: count the hit, abort after too many of them, else
\* see whether the layer is done.
HitDone ==
  /\ pc = "element" /\ pos > Len(Chain)
  /\ ifail' = 0
  /\ sumE' = sumE + hitE
  /\ idx' = CountHit
  /\ IF TooManyHits(CountHit)
       THEN Return("Success") /\ UNCHANGED <<event, pos, hitE>>
       ELSE CheckAllHitsSimulated(CountHit, hitE, TRUE)
  /\ UNCHANGED <<cs, retry>>

\* The chain of the next layer runs on the same simulation state, unless this
\* one failed.
NextLayer ==
  /\ pc = "returned" /\ result[cs] = "Success" /\ cs < NLayers
  /\ pc' = "init" /\ cs' = cs + 1 /\ pos' = 1
  /\ idx' = 0 /\ hitE' = 0 /\ sumE' = 0 /\ ifail' = 0 /\ retry' = 0
  /\ UNCHANGED <<event, result>>

Step ==
  \/ InitElement \/ Setup \/ NextLayer
  \/ ElementSuccess \/ ElementFatal \/ ElementRetry \/ HitDone

Next == Step /\ UNCHANGED fixed

Spec == Init /\ [][Next]_vars

\* The program is sequential: as long as it can take a step, it takes one.
FairSpec == Spec /\ WF_vars(Next)

-----------------------------------------------------------------------------
\* Every variable has its type.
TypeOK ==
  /\ fixed \in BOOLEAN
  /\ pc \in {"init", "element", "returned"}
  /\ cs \in Layers
  /\ draw \in [Layers -> Draws]
  /\ layerE \in [Layers -> Int] /\ totalE \in Int
  /\ deposit \in [Layers -> Int]
  /\ hasSum \in BOOLEAN /\ auxSum \in Int
  /\ pos \in 1 .. Len(Chain) + 1
  /\ idx \in Nat /\ hitE \in Int /\ sumE \in Int
  /\ ifail \in Nat /\ retry \in Nat
  /\ result \in [Layers -> {"none", "Success", "Fatal"}]

AttemptStarts == pc = "element" /\ pos = NInit + 1
Succeeded == pc = "returned" /\ result[cs] = "Success"

\* The energy the loop believes it has placed is the energy in the cells of
\* the layer, whenever an attempt starts and when the chain succeeds: a retried
\* attempt, a hit too far from every cell or an earlier layer leave no trace in
\* sumEhit or, for the plain chain, in the FCSHitChainEnergySum aux-info.
SumMatchesDeposit ==
  /\ AttemptStarts \/ Succeeded => deposit[cs] = sumE
  /\ AttemptStarts /\ ~fixed /\ idx > 0 => hasSum /\ auxSum = sumE

\* A plain chain that succeeds has placed the layer's energy, or has given up
\* after Cutoff times the expected number of hits.
LayerFilled ==
  ~fixed /\ Succeeded =>
    \/ AbsVal(deposit[cs]) >= AbsVal(layerE[cs])
    \/ idx >= Cutoff * Nhit

\* What the weights among the first k elements make of a hit of energy e.
WeightedOf(es) == {w * e : w \in Weights, e \in es}
Weighted(e, k) ==
  LET f[i \in NInit .. k] ==
        IF i = NInit THEN {e}
        ELSE IF Chain[i] = "weight" THEN WeightedOf(f[i - 1])
        ELSE f[i - 1]
  IN  f[k]

\* A plain chain stops at the first hit that fills the layer: it exceeds the
\* layer's energy by less than one hit, as the weights of the chain can make it.
NoOvershoot ==
  ~fixed => \A l \in Layers :
    layerE[l] # 0 =>
      \E e \in Weighted(draw[l].e, Len(Chain)) \cup {0} :
        AbsVal(deposit[l]) < AbsVal(layerE[l]) + AbsVal(e)

\* A fixed chain that succeeds on a layer with energy made exactly the
\* requested number of hits, however many attempts were retried.
FixedHitCount ==
  fixed /\ Succeeded /\ LayerEnergy(draw[cs]) # 0 => idx = NHits

Gained == [l \in Layers |-> layerE[l] - LayerEnergy(draw[l])]

\* E() stays the sum over the layers when a fixed chain rewrites E(layer).
TotalFollowsLayers == totalE = SumUpTo(Gained, NLayers)

\* What is counted is what is there: a fixed chain made its number of hits, a
\* plain one did not go past the hit that fills the layer, and the total energy
\* is still the sum of the layers.
CountsAndTotals == FixedHitCount /\ NoOvershoot /\ TotalFollowsLayers

\* simulate() always returns, in the last layer at the latest: retries are
\* bounded, and so is the number of hits that carry no energy.
Returns ==
  <>(pc = "returned" /\ (cs = NLayers \/ result[cs] = "Fatal"))

\* The plain chain implements the abstract filling of layers.  Energy counts
\* as filled when the hit is completed.
Fill == INSTANCE LayerFill WITH
  target <- layerE,
  filled <- [l \in Layers |->
               IF l = cs /\ pc = "element" THEN sumE ELSE deposit[l]],
  status <- [l \in Layers |->
               CASE result[l] = "none" -> "open"
                 [] result[l] = "Fatal" -> "failed"
                 [] result[l] = "Success" ->
                      IF AbsVal(deposit[l]) >= AbsVal(layerE[l])
                        THEN "full" ELSE "cut"],
  cur <- cs,
  hits <- idx

ImplementsLayerFill ==
  /\ fixed \/ Fill!FillInit
  /\ [][fixed \/ Fill!FillNext]_(Fill!fillVars)
=============================================================================
