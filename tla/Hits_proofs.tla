----------------------------- MODULE Hits_proofs -----------------------------
(***************************************************************************)
(* Theorems about HitChain, for every chain, shower and bound: what the     *)
(* hit loop believes is in the cells is there, it makes the hits it is to   *)
(* make and no more, the total follows the layers, and the plain chain      *)
(* implements LayerFill.                                                    *)
(*                                                                         *)
(* Theorems about Shapes, what the links of a hit chain draw from and do to *)
(* a hit: a hit keeps its shape and gets the modulation of its file, and a  *)
(* function follows the histogram it was made from.                         *)
(***************************************************************************)
EXTENDS HitChain, Shapes, FiniteSetTheorems, WellFoundedInduction, TLAPS

\* A hit number is at least 1, and the draws have integer components.
LEMMA DrawsType ==
  ASSUME NEW d \in Draws
  PROVE  d.n \in Nat \ {0} /\ d.e \in Int /\ LayerEnergy(d) \in Int
<1>1. d.n \in {NumberOfHits(r) : r \in RawCounts} /\ d.e \in HitEs
  BY DEF Draws
<1>2. \A r \in RawCounts : NumberOfHits(r) \in Nat \ {0}
  BY EnergyAssumption DEF NumberOfHits
<1>3. d.n \in Nat \ {0} /\ d.e \in Int
  BY <1>1, <1>2, EnergyAssumption
<1>4. d.e * MaxWeight \in Int
  BY <1>3, EnergyAssumption
<1>5. QED
  BY <1>3, <1>4 DEF LayerEnergy

LEMMA LenType == Len(Chain) \in Nat /\ NInit \in Nat /\ NInit < Len(Chain)
<1>1. Len(Chain) \in Nat
  BY ChainAssumption
<1>2. QED
  BY <1>1, ChainAssumption, MapLast

LEMMA AbsValType == ASSUME NEW x \in Int PROVE AbsVal(x) \in Nat
  BY DEF AbsVal

\* What NextAttempt and Return do to the variables they set.
LEMMA NextAttemptType ==
  ASSUME TypeOK, NextAttempt
  PROVE  /\ pc' = "element" /\ pos' = NInit + 1 /\ pos' \in 1 .. Len(Chain) + 1
         /\ hitE' = Ehit /\ hitE' \in Int /\ result' = result
  BY ChainAssumption, DrawsType DEF NextAttempt, TypeOK, Ehit

LEMMA ReturnType ==
  ASSUME TypeOK, NEW r \in {"Success", "Fatal"}, Return(r)
  PROVE  /\ pc' = "returned" /\ result'[cs] = r
         /\ result' \in [Layers -> {"none", "Success", "Fatal"}]
  BY DEF Return, TypeOK

\* The two versions of the check keep the types of the variables they set.
LEMMA CheckType ==
  ASSUME TypeOK, NEW i \in Nat, NEW e \in Int, NEW ok \in BOOLEAN,
         CheckAllHitsSimulated(i, e, ok)
  PROVE  /\ pc' \in {"element", "returned"}
         /\ draw' = draw /\ deposit' = deposit
         /\ layerE' \in [Layers -> Int] /\ totalE' \in Int
         /\ hasSum' \in BOOLEAN /\ auxSum' \in Int
         /\ pos' \in 1 .. Len(Chain) + 1 /\ hitE' \in Int
         /\ result' \in [Layers -> {"none", "Success", "Fatal"}]
<1>1. CASE NextAttempt /\ UNCHANGED event
  BY <1>1, NextAttemptType DEF TypeOK, event
<1>2. CASE ~fixed /\ ~(NextAttempt /\ UNCHANGED event)
  <2>1. SumBefore(i) + e \in Int
    BY DEF TypeOK, SumBefore
  <2>2. /\ hasSum' = TRUE
        /\ auxSum' = SumBefore(i) + e
        /\ UNCHANGED <<draw, layerE, totalE, deposit>>
        /\ \/ Return("Success") /\ UNCHANGED <<pos, hitE>>
           \/ NextAttempt
    BY <1>2 DEF CheckAllHitsSimulated, CheckPlain
  <2>3. QED
    BY <2>1, <2>2, NextAttemptType DEF TypeOK, Return
<1>3. CASE fixed
  <2>1. CASE HitsMissing(i)
    BY <1>3, <2>1, NextAttemptType DEF CheckAllHitsSimulated, CheckFixed, TypeOK
  <2>2. CASE ~HitsMissing(i)
    <3> DEFINE new == IF hasSum THEN auxSum ELSE 0
    <3>1. new \in Int /\ cs \in Layers /\ layerE[cs] \in Int
      BY DEF TypeOK
    <3>2. /\ totalE' = totalE + (new - layerE[cs])
          /\ layerE' = [layerE EXCEPT ![cs] = new]
          /\ hasSum' = TRUE /\ auxSum' = 0
          /\ Return("Success")
          /\ UNCHANGED <<draw, deposit, pos, hitE>>
      BY <1>3, <2>2 DEF CheckAllHitsSimulated, CheckFixed, NewTotal
    <3>3. QED
      BY <3>1, <3>2 DEF TypeOK, Return
  <2>3. QED
    BY <2>1, <2>2
<1>4. QED
  BY <1>1, <1>2, <1>3

-----------------------------------------------------------------------------
LEMMA InitTypeOK == Init => TypeOK
<1> SUFFICES ASSUME Init PROVE TypeOK
  OBVIOUS
<1>1. layerE \in [Layers -> Int]
  <2>1. draw \in [Layers -> Draws] /\ layerE = [l \in Layers |-> LayerEnergy(draw[l])]
    BY DEF Init
  <2>2. \A l \in Layers : LayerEnergy(draw[l]) \in Int
    BY <2>1, DrawsType
  <2>3. QED
    BY <2>1, <2>2
<1>2. 1 \in Layers /\ 1 \in 1 .. Len(Chain) + 1
  BY LenType, ChainAssumption DEF Layers
<1>3. deposit \in [Layers -> Int]
  BY DEF Init
<1>4. result \in [Layers -> {"none", "Success", "Fatal"}]
  BY DEF Init
<1>5. draw \in [Layers -> Draws] /\ totalE \in Int
  BY DEF Init
<1>6. /\ pc = "init" /\ cs = 1 /\ pos = 1 /\ idx = 0 /\ hitE = 0 /\ sumE = 0
      /\ ifail = 0 /\ retry = 0 /\ auxSum = 0
      /\ hasSum \in BOOLEAN /\ fixed \in BOOLEAN
  BY ChainAssumption DEF Init
<1>7. QED
  BY <1>1, <1>2, <1>3, <1>4, <1>5, <1>6 DEF TypeOK

LEMMA NextTypeOK == TypeOK /\ [Next]_vars => TypeOK'
<1> SUFFICES ASSUME TypeOK, [Next]_vars PROVE TypeOK'
  OBVIOUS
<1>0. fixed' = fixed
  BY DEF Next, vars
<1> USE <1>0
<1>1. CASE InitElement
  <2>1. CASE pos' = pos + 1 /\ UNCHANGED <<pc, result>>
    BY <1>1, <2>1, LenType DEF InitElement, TypeOK, event
  <2>2. CASE Return("Fatal") /\ UNCHANGED pos
    BY <1>1, <2>2, ReturnType DEF InitElement, TypeOK, event
  <2>3. QED
    BY <1>1, <2>1, <2>2 DEF InitElement
<1>2. CASE Setup
  <2>1. CASE NextAttempt /\ idx' = 0 /\ sumE' = 0 /\ ifail' = 0 /\ retry' = 0
    BY <1>2, <2>1, NextAttemptType DEF Setup, TypeOK, event
  <2>2. CASE /\ Return("Success") \/ Return("Fatal")
             /\ UNCHANGED attempt
    <3>1. result' \in [Layers -> {"none", "Success", "Fatal"}]
      BY <2>2, ReturnType
    <3>2. QED
      BY <1>2, <2>2, <3>1 DEF Setup, TypeOK, event, attempt, Return
  <2>3. QED
    BY <1>2, <2>1, <2>2 DEF Setup
<1>3. CASE NextLayer
  BY <1>3, ChainAssumption DEF NextLayer, TypeOK, event, Layers
<1>4. CASE ElementSuccess
  <2>1. hitE' \in Int
    BY <1>4, EnergyAssumption DEF ElementSuccess, FarFromCell, TypeOK
  <2>2. deposit' \in [Layers -> Int]
    BY <1>4 DEF ElementSuccess, FarFromCell, TypeOK
  <2>3. QED
    BY <1>4, <2>1, <2>2, ChainAssumption DEF ElementSuccess, FarFromCell, TypeOK
<1>5. CASE ElementFatal
  BY <1>5 DEF ElementFatal, TypeOK, Return, event, attempt
<1>6. CASE ElementRetry
  <2>1. PICK n \in RetryCounts :
          /\ ifail' = ifail + 1 /\ retry' = n
          /\ \/ /\ Return("Fatal")
                /\ UNCHANGED <<event, pos, hitE>>
             \/ CheckAllHitsSimulated(idx, hitE, FALSE)
    BY <1>6 DEF ElementRetry, Failures
  <2>2. UNCHANGED <<cs, idx, sumE>>
    BY <1>6 DEF ElementRetry, Failures
  <2>3. n \in Nat
    BY LoopAssumption
  <2>4. CASE CheckAllHitsSimulated(idx, hitE, FALSE)
    <3>1. idx \in Nat /\ hitE \in Int /\ FALSE \in BOOLEAN
      BY DEF TypeOK
    <3>2. /\ pc' \in {"element", "returned"}
          /\ draw' = draw /\ deposit' = deposit
          /\ layerE' \in [Layers -> Int] /\ totalE' \in Int
          /\ hasSum' \in BOOLEAN /\ auxSum' \in Int
          /\ pos' \in 1 .. Len(Chain) + 1 /\ hitE' \in Int
          /\ result' \in [Layers -> {"none", "Success", "Fatal"}]
      BY <2>4, <3>1, CheckType
    <3>3. QED
      BY <2>1, <2>2, <2>3, <2>4, <3>1, <3>2 DEF TypeOK
  <2>5. CASE /\ Return("Fatal")
             /\ UNCHANGED <<event, pos, hitE>>
    BY <2>1, <2>2, <2>3, <2>5, ReturnType DEF TypeOK, event
  <2>6. QED
    BY <2>1, <2>4, <2>5
<1>7. CASE HitDone
  <2>1. /\ ifail' = 0 /\ sumE' = sumE + hitE /\ idx' = idx + 1
        /\ UNCHANGED <<cs, retry>>
        /\ \/ Return("Success") /\ UNCHANGED <<event, pos, hitE>>
           \/ CheckAllHitsSimulated(idx + 1, hitE, TRUE)
    BY <1>7 DEF HitDone, CountHit
  <2>2. idx + 1 \in Nat /\ hitE \in Int
    BY DEF TypeOK
  <2>3. CASE CheckAllHitsSimulated(idx + 1, hitE, TRUE)
    <3>1. /\ pc' \in {"element", "returned"}
          /\ draw' = draw /\ deposit' = deposit
          /\ layerE' \in [Layers -> Int] /\ totalE' \in Int
          /\ hasSum' \in BOOLEAN /\ auxSum' \in Int
          /\ pos' \in 1 .. Len(Chain) + 1 /\ hitE' \in Int
          /\ result' \in [Layers -> {"none", "Success", "Fatal"}]
      BY <2>2, <2>3, CheckType
    <3>2. QED
      BY <2>1, <2>2, <3>1 DEF TypeOK
  <2>4. CASE Return("Success") /\ UNCHANGED <<event, pos, hitE>>
    BY <2>1, <2>2, <2>4, ReturnType DEF TypeOK, event
  <2>5. QED
    BY <2>1, <2>3, <2>4
<1>8. CASE UNCHANGED vars
  BY <1>8 DEF vars, event, attempt, TypeOK
<1>9. QED
  BY <1>1, <1>2, <1>3, <1>4, <1>5, <1>6, <1>7, <1>8 DEF Next, Step

\* Every reachable state is well typed.
THEOREM TypeCorrect == Spec => []TypeOK
  BY InitTypeOK, NextTypeOK, PTL DEF Spec

-----------------------------------------------------------------------------
\* The loop invariant: what has been deposited in the current layer is what the
\* completed hits carried, plus the hit that was matched to a cell but is not
\* counted yet; the aux-info follows; later layers are untouched.
LoopInv ==
  /\ TypeOK
  /\ pc = "init" => deposit[cs] = 0 /\ sumE = 0 /\ idx = 0
  /\ \A l \in Layers : l > cs => deposit[l] = 0
  /\ \A l \in Layers :
       l > cs \/ (l = cs /\ pc # "returned") => layerE[l] = LayerEnergy(draw[l])
  /\ pc = "element" =>
       /\ pos > NInit
       /\ deposit[cs] = IF pos > Len(Chain) THEN sumE + hitE ELSE sumE
       /\ idx = 0 => sumE = 0
       /\ ~fixed /\ idx > 0 => hasSum /\ auxSum = sumE
       /\ fixed => idx < NHits
  /\ Succeeded => deposit[cs] = sumE
  /\ LayerFilled
  /\ FixedHitCount

LEMMA NHitsType == ASSUME TypeOK PROVE NHits \in Nat \ {0} /\ Ehit \in Int
  BY DrawsType DEF TypeOK, NHits, Ehit

LEMMA NhitType == ASSUME TypeOK PROVE Nhit \in Nat \ {0} /\ Nhit >= NHits
<1>1. NHits \in Nat \ {0}
  BY NHitsType
<1>2. \A m, n \in Nat \ {0} : m * n \in Nat \ {0} /\ m * n >= n
  OBVIOUS
<1>3. QED
  BY <1>1, <1>2, EnergyAssumption DEF Nhit

\* The abort condition of the hit loop never holds before NHits hits.
LEMMA CutoffBound ==
  ASSUME TypeOK, NEW i \in Nat, i >= Cutoff * Nhit
  PROVE  i >= NHits
<1>1. \A m, n \in Nat \ {0} : m * n \in Nat \ {0} /\ m * n >= n
  OBVIOUS
<1>2. NHits \in Nat \ {0} /\ Nhit \in Nat \ {0} /\ Nhit >= NHits
  BY NHitsType, NhitType
<1>3. Cutoff * Nhit \in Nat /\ Cutoff * Nhit >= Nhit
  BY <1>1, <1>2, LoopAssumption
<1>4. QED
  BY <1>2, <1>3

LEMMA InitLoopInv == Init => LoopInv
<1> SUFFICES ASSUME Init PROVE LoopInv
  OBVIOUS
<1>1. TypeOK
  BY InitTypeOK
<1>2. pc = "init" /\ sumE = 0 /\ idx = 0 /\ (\A l \in Layers : deposit[l] = 0)
  BY DEF Init
<1>3. \A l \in Layers : layerE[l] = LayerEnergy(draw[l])
  BY DEF Init
<1>4. cs \in Layers
  BY <1>1 DEF TypeOK
<1>5. QED
  BY <1>1, <1>2, <1>3, <1>4 DEF LoopInv, Succeeded, LayerFilled, FixedHitCount

\* A step that leaves simulate() with a fatal error keeps the invariant.
LEMMA FatalLoopInv ==
  ASSUME LoopInv, TypeOK', fixed' = fixed,
         Return("Fatal"), pc # "returned",
         UNCHANGED <<cs, draw, layerE, deposit>>
  PROVE  LoopInv'
<1>1. result'[cs'] = "Fatal" /\ pc' = "returned"
  BY ReturnType DEF LoopInv, Return
<1>2. \A l \in Layers : l > cs' => deposit'[l] = 0
  BY DEF LoopInv
<1>3. \A l \in Layers : l > cs' => layerE'[l] = LayerEnergy(draw'[l])
  BY DEF LoopInv
<1>4. QED
  BY <1>1, <1>2, <1>3 DEF LoopInv, Succeeded, LayerFilled, FixedHitCount

\* A step to the head of the hit loop keeps it when the hits counted so far are
\* the ones deposited and summed up.
LEMMA AttemptLoopInv ==
  ASSUME LoopInv, TypeOK', fixed' = fixed,
         NextAttempt, pc # "returned",
         UNCHANGED <<cs, draw, layerE, deposit>>,
         deposit[cs] = sumE',
         idx' = 0 => sumE' = 0,
         ~fixed /\ idx' > 0 => hasSum' /\ auxSum' = sumE',
         fixed => idx' < NHits
  PROVE  LoopInv'
<1>1. pc' = "element" /\ pos' = NInit + 1
  BY NextAttemptType DEF LoopInv
<1>2. pos' > NInit /\ ~(pos' > Len(Chain))
  BY <1>1, LenType
<1>3. deposit'[cs'] = IF pos' > Len(Chain) THEN sumE' + hitE' ELSE sumE'
  BY <1>2
<1>4. fixed => idx' < NHits'
  BY DEF NHits
<1>5. \A l \in Layers : l > cs' => deposit'[l] = 0
  BY DEF LoopInv
<1>6. \A l \in Layers :
        l > cs' \/ (l = cs' /\ pc' # "returned") => layerE'[l] = LayerEnergy(draw'[l])
  BY DEF LoopInv
<1>7. QED
  BY <1>1, <1>2, <1>3, <1>4, <1>5, <1>6
     DEF LoopInv, Succeeded, LayerFilled, FixedHitCount

\* A step that returns success keeps it when the layer is filled or, in a fixed
\* chain, the hits are complete.
LEMMA SuccessLoopInv ==
  ASSUME LoopInv, TypeOK', fixed' = fixed,
         Return("Success"), pc # "returned",
         UNCHANGED <<cs, draw, deposit>>,
         \A l \in Layers : l # cs => layerE'[l] = layerE[l],
         deposit[cs] = sumE',
         LayerFilled', FixedHitCount'
  PROVE  LoopInv'
<1>1. pc' = "returned"
  BY DEF Return
<1>2. \A l \in Layers : l > cs' => deposit'[l] = 0
  BY DEF LoopInv
<1>3. cs \in Layers /\ cs \in Int /\ \A l \in Layers : l > cs => l # cs
  BY DEF LoopInv, TypeOK, Layers
<1>4. \A l \in Layers : l > cs' => layerE'[l] = LayerEnergy(draw'[l])
  BY <1>3 DEF LoopInv
<1>5. QED
  BY <1>1, <1>2, <1>4 DEF LoopInv

LEMMA SetupLoopInv == ASSUME LoopInv, TypeOK', fixed' = fixed, Setup PROVE LoopInv'
<1>1. /\ pc = "init" /\ deposit[cs] = 0 /\ sumE = 0 /\ idx = 0
      /\ layerE[cs] = LayerEnergy(draw[cs]) /\ TypeOK
      /\ UNCHANGED <<cs, event>>
  BY DEF Setup, LoopInv, TypeOK
<1>2. CASE layerE[cs] = 0
  <2>1. Return("Success") /\ UNCHANGED attempt
    BY <1>2 DEF Setup
  <2>2. LayerFilled'
    <3>1. deposit'[cs'] = 0 /\ layerE'[cs'] = 0
      BY <1>1, <1>2 DEF event
    <3>2. AbsVal(deposit'[cs']) >= AbsVal(layerE'[cs'])
      BY <3>1 DEF AbsVal
    <3>3. QED
      BY <3>2 DEF LayerFilled, AbsVal
  <2>3. FixedHitCount'
    BY <1>1, <1>2 DEF FixedHitCount, event
  <2>4. QED
    BY <1>1, <2>1, <2>2, <2>3, SuccessLoopInv DEF event, attempt
<1>3. CASE layerE[cs] # 0 /\ Ehit \in Tiny
  BY <1>1, <1>3, FatalLoopInv DEF Setup, event
<1>4. CASE layerE[cs] # 0 /\ ~(Ehit \in Tiny)
  <2>1. NextAttempt /\ idx' = 0 /\ sumE' = 0
    BY <1>4 DEF Setup
  <2>2. fixed => idx' < NHits
    BY <1>1, <2>1, NHitsType
  <2>3. QED
    BY <1>1, <2>1, <2>2, AttemptLoopInv DEF event
<1>5. QED
  BY <1>2, <1>3, <1>4

LEMMA ElementSuccessLoopInv ==
  ASSUME LoopInv, TypeOK', fixed' = fixed, ElementSuccess PROVE LoopInv'
<1>1. /\ pc = "element" /\ pos > NInit /\ pos <= Len(Chain)
      /\ deposit[cs] = sumE /\ TypeOK /\ pos' = pos + 1
      /\ UNCHANGED <<pc, cs, draw, layerE, hasSum, auxSum, idx, sumE, result>>
  BY LenType DEF ElementSuccess, LoopInv, TypeOK
<1>2. deposit'[cs] = IF pos' > Len(Chain) THEN sumE' + hitE' ELSE sumE'
  <2>1. CASE Chain[pos] \in {"shape", "weight"}
    <3>1. pos # Len(Chain)
      BY <2>1, LenType, MapLast
    <3>2. pos \in Nat /\ ~(pos' > Len(Chain))
      BY <1>1, <3>1, LenType DEF TypeOK
    <3>3. deposit' = deposit
      BY <2>1 DEF ElementSuccess
    <3>4. QED
      BY <1>1, <3>2, <3>3
  <2>2. CASE Chain[pos] \in {"map", "fcal"}
    <3>1. pos = Len(Chain) /\ pos' > Len(Chain)
      BY <2>2, <1>1, LenType, MapLast DEF TypeOK
    <3>2. \/ deposit' = [deposit EXCEPT ![cs] = @ + hitE] /\ hitE' = hitE
          \/ deposit' = deposit /\ hitE' = 0
      BY <2>2 DEF ElementSuccess, FarFromCell
    <3>3. /\ deposit \in [Layers -> Int] /\ cs \in Layers
          /\ sumE \in Int /\ hitE \in Int /\ deposit[cs] = sumE /\ sumE' = sumE
      BY <1>1 DEF TypeOK
    <3>4. deposit'[cs] = sumE' + hitE'
      BY <3>2, <3>3
    <3>5. QED
      BY <3>1, <3>4
  <2>3. QED
    BY <2>1, <2>2 DEF ElementSuccess
<1>3. \A l \in Layers : l > cs' => deposit'[l] = 0
  <2>1. \A l \in Layers : l # cs => deposit'[l] = deposit[l]
    BY <1>1 DEF ElementSuccess, FarFromCell, TypeOK
  <2>2. \A l \in Layers : l > cs => l # cs
    BY <1>1 DEF TypeOK, Layers
  <2>3. QED
    BY <1>1, <2>1, <2>2 DEF LoopInv
<1>4. pos' > NInit
  BY <1>1, LenType DEF TypeOK
<1>5. QED
  BY <1>1, <1>2, <1>3, <1>4
     DEF LoopInv, Succeeded, LayerFilled, FixedHitCount, NHits

LEMMA ElementRetryLoopInv ==
  ASSUME LoopInv, TypeOK', fixed' = fixed, ElementRetry PROVE LoopInv'
<1>1. /\ pc = "element" /\ pos <= Len(Chain) /\ deposit[cs] = sumE /\ TypeOK
      /\ UNCHANGED <<cs, idx, sumE>>
  <2>1. pc = "element" /\ pos <= Len(Chain) /\ UNCHANGED <<cs, idx, sumE>>
    BY DEF ElementRetry
  <2>2. TypeOK /\ deposit[cs] = IF pos > Len(Chain) THEN sumE + hitE ELSE sumE
    BY <2>1 DEF LoopInv
  <2>3. pos \in Int /\ Len(Chain) \in Int
    BY <2>2, LenType DEF TypeOK
  <2> QED
    BY <2>1, <2>2, <2>3
<1>2. CASE Return("Fatal") /\ UNCHANGED event
  BY <1>1, <1>2, FatalLoopInv DEF event
<1>3. CASE CheckAllHitsSimulated(idx, hitE, FALSE)
  <2>1. NextAttempt /\ UNCHANGED <<draw, layerE, deposit>>
        /\ (~fixed => UNCHANGED event)
    <3>1. fixed => idx < NHits
      BY <1>1 DEF LoopInv
    <3>2. QED
      BY <1>3, <3>1 DEF CheckAllHitsSimulated, CheckPlain, CheckFixed, HitsMissing, event
  <2>2. QED
    BY <1>1, <2>1, AttemptLoopInv DEF LoopInv, event
<1>4. QED
  BY <1>2, <1>3 DEF ElementRetry, Failures

LEMMA HitDoneLoopInv == ASSUME LoopInv, TypeOK', fixed' = fixed, HitDone PROVE LoopInv'
<1>1. /\ pc = "element" /\ pos > Len(Chain) /\ TypeOK
      /\ sumE' = sumE + hitE /\ idx' = idx + 1 /\ idx \in Nat /\ idx' \in Nat
      /\ UNCHANGED cs
      /\ hitE \in Int /\ sumE \in Int /\ layerE[cs] = LayerEnergy(draw[cs])
  BY DEF HitDone, CountHit, LoopInv, TypeOK
<1>2. deposit[cs] = sumE' /\ (fixed => idx < NHits)
      /\ (~fixed /\ idx > 0 => hasSum /\ auxSum = sumE) /\ (idx = 0 => sumE = 0)
  BY <1>1 DEF LoopInv
<1>3. CASE /\ idx + 1 >= Cutoff * Nhit
           /\ Return("Success") /\ UNCHANGED <<event, pos, hitE>>
  <2>1. LayerFilled'
    BY <1>1, <1>3 DEF LayerFilled, Nhit, NHits, event
  <2>2. FixedHitCount'
    <3>1. idx + 1 >= NHits /\ NHits \in Nat /\ NHits' = NHits
      BY <1>1, <1>3, CutoffBound, NHitsType DEF event, NHits
    <3>2. QED
      BY <1>1, <1>2, <3>1 DEF FixedHitCount
  <2>3. QED
    BY <1>1, <1>2, <1>3, <2>1, <2>2, SuccessLoopInv DEF event
<1>4. CASE CheckAllHitsSimulated(idx + 1, hitE, TRUE) /\ ~fixed
  <2>1. SumBefore(idx + 1) + hitE = sumE'
    BY <1>1, <1>2, <1>4 DEF SumBefore
  <2>2. /\ hasSum' = TRUE /\ auxSum' = sumE'
        /\ UNCHANGED <<draw, layerE, totalE, deposit>>
        /\ IF AbsVal(sumE') >= AbsVal(layerE[cs])
             THEN Return("Success") /\ UNCHANGED <<pos, hitE>>
             ELSE NextAttempt
    BY <1>4, <2>1 DEF CheckAllHitsSimulated, CheckPlain, Fills
  <2>3. CASE Return("Success") /\ AbsVal(sumE') >= AbsVal(layerE[cs])
    <3>1. LayerFilled'
      BY <1>1, <1>2, <2>2, <2>3 DEF LayerFilled, AbsVal
    <3>2. FixedHitCount'
      BY <1>4 DEF FixedHitCount
    <3>3. QED
      BY <1>1, <1>2, <2>2, <2>3, <3>1, <3>2, SuccessLoopInv
  <2>4. CASE NextAttempt
    BY <1>1, <1>2, <1>4, <2>2, <2>4, AttemptLoopInv
  <2>5. QED
    BY <2>2, <2>3, <2>4
<1>5. CASE CheckAllHitsSimulated(idx + 1, hitE, TRUE) /\ fixed
  <2>1. CASE idx + 1 < NHits
    <3>1. NextAttempt /\ UNCHANGED <<draw, layerE, deposit>>
      BY <1>5, <2>1 DEF CheckAllHitsSimulated, CheckFixed, HitsMissing
    <3>2. QED
      BY <1>1, <1>2, <1>5, <2>1, <3>1, AttemptLoopInv
  <2>2. CASE ~(idx + 1 < NHits)
    <3>1. Return("Success") /\ UNCHANGED <<draw, deposit>>
          /\ \A l \in Layers : l # cs => layerE'[l] = layerE[l]
      BY <1>1, <1>5, <2>2 DEF CheckAllHitsSimulated, CheckFixed, HitsMissing, TypeOK
    <3>2. FixedHitCount'
      <4>1. NHits \in Nat /\ NHits' = NHits
        BY <1>1, <3>1, NHitsType DEF NHits
      <4>2. QED
        BY <1>1, <1>2, <1>5, <2>2, <4>1 DEF FixedHitCount
    <3>3. LayerFilled'
      BY <1>5 DEF LayerFilled
    <3>4. QED
      BY <1>1, <1>2, <3>1, <3>2, <3>3, SuccessLoopInv
  <2>3. QED
    BY <2>1, <2>2
<1>6. QED
  BY <1>3, <1>4, <1>5 DEF HitDone, CountHit, TooManyHits

LEMMA NextLoopInv == LoopInv /\ [Next]_vars => LoopInv'
<1> SUFFICES ASSUME LoopInv, [Next]_vars PROVE LoopInv'
  OBVIOUS
<1>0. fixed' = fixed
  BY DEF Next, vars
<1> USE <1>0
<1>1. TypeOK /\ TypeOK'
  BY NextTypeOK DEF LoopInv
<1>2. CASE InitElement
  <2>1. CASE pos' = pos + 1 /\ UNCHANGED <<pc, result>>
    BY <1>1, <1>2, <2>1
       DEF InitElement, LoopInv, event, Succeeded, LayerFilled, FixedHitCount
  <2>2. CASE Return("Fatal")
    BY <1>1, <1>2, <2>2, FatalLoopInv DEF InitElement, event
  <2>3. QED
    BY <1>2, <2>1, <2>2 DEF InitElement
<1>3. CASE Setup
  BY <1>1, <1>3, SetupLoopInv
<1>4. CASE NextLayer
  <2>1. /\ pc' = "init" /\ cs' = cs + 1 /\ sumE' = 0 /\ idx' = 0
        /\ UNCHANGED <<draw, layerE, deposit>>
        /\ cs \in Int /\ cs' \in Layers
    BY <1>1, <1>4 DEF NextLayer, event, TypeOK, Layers
  <2>2. \A l \in Layers : l >= cs' => l > cs /\ l \in Int
    BY <2>1 DEF Layers
  <2>3. \A l \in Layers :
          l >= cs' => deposit'[l] = 0 /\ layerE'[l] = LayerEnergy(draw'[l])
    BY <2>1, <2>2 DEF LoopInv
  <2>4. \A l \in Layers : l > cs' \/ l = cs' => l >= cs'
    BY <2>1 DEF Layers
  <2>5. cs' >= cs'
    BY <2>1
  <2>6. QED
    BY <1>1, <2>1, <2>3, <2>4, <2>5
       DEF LoopInv, Succeeded, LayerFilled, FixedHitCount
<1>5. CASE ElementSuccess
  BY <1>1, <1>5, ElementSuccessLoopInv
<1>6. CASE ElementFatal
  BY <1>1, <1>6, FatalLoopInv DEF ElementFatal, event
<1>7. CASE ElementRetry
  BY <1>1, <1>7, ElementRetryLoopInv
<1>8. CASE HitDone
  BY <1>1, <1>8, HitDoneLoopInv
<1>9. CASE UNCHANGED vars
  BY <1>1, <1>9 DEF vars, event, attempt, LoopInv, Succeeded, LayerFilled,
                    FixedHitCount, Nhit, NHits
<1>10. QED
  BY <1>2, <1>3, <1>4, <1>5, <1>6, <1>7, <1>8, <1>9 DEF Next, Step

\* What the hit loop believes it placed is what lies in the cells, for every
\* chain that ends in its cell mapping, every shower and every retry count.
THEOREM DepositIsWhatWasCounted == Spec => []SumMatchesDeposit
<1>1. LoopInv => SumMatchesDeposit
  BY LenType DEF LoopInv, SumMatchesDeposit, AttemptStarts, Succeeded
<1>2. QED
  BY InitLoopInv, NextLoopInv, <1>1, PTL DEF Spec

\* A plain chain succeeds only with the layer's energy placed or after the
\* cutoff.
THEOREM LayerIsFilled == Spec => []LayerFilled
<1>1. LoopInv => LayerFilled
  BY DEF LoopInv
<1>2. QED
  BY InitLoopInv, NextLoopInv, <1>1, PTL DEF Spec

\* A fixed chain that succeeds made the requested number of hits.
THEOREM FixedHitsCounted == Spec => []FixedHitCount
<1>1. LoopInv => FixedHitCount
  BY DEF LoopInv
<1>2. QED
  BY InitLoopInv, NextLoopInv, <1>1, PTL DEF Spec
-----------------------------------------------------------------------------
\* Induction: a set of numbers that is not empty has a least one, ...
LEMMA Least ==
  ASSUME NEW T, T \subseteq Nat, T # {}
  PROVE  \E m \in T : \A k \in T : m <= k
<1>1. \E x \in T : \A y \in T : ~(<<y, x>> \in OpToRel(<, Nat))
  BY WFMin, NatLessThanWellFounded
<1>2. \A x, y \in Nat : <<y, x>> \in OpToRel(<, Nat) <=> y < x
  BY DEF OpToRel
<1>3. PICK x \in T : \A y \in T : ~(y < x)
  BY <1>1, <1>2
<1> QED
  BY <1>3

\* ... so one that has 0 and with a number its successor has them all.
LEMMA NatInduct ==
  ASSUME NEW T, 0 \in T, \A k \in Nat : k \in T => k + 1 \in T
  PROVE  Nat \subseteq T
<1> SUFFICES ASSUME Nat \ T # {} PROVE FALSE
  OBVIOUS
<1>1. PICK m \in Nat \ T : \A k \in Nat \ T : m <= k
  BY Least
<1>2. m - 1 \in Nat /\ m - 1 \notin Nat \ T
  BY <1>1
<1> QED
  BY <1>1, <1>2

\* SumUpTo() is defined by a function that exists and is unique.
IsSum(s, n, f) == f = [i \in 0 .. n |-> IF i = 0 THEN 0 ELSE f[i - 1] + s[i]]

LEMMA SumExists ==
  ASSUME NEW s, NEW n \in Nat
  PROVE  \E f : IsSum(s, n, f)
<1> DEFINE T == {k \in Nat : \E f : IsSum(s, k, f)}
<1>1. 0 \in T
  <2>1. IsSum(s, 0, [i \in 0 .. 0 |-> 0])
    BY DEF IsSum
  <2> QED
    BY <2>1
<1>2. ASSUME NEW k \in Nat, k \in T PROVE k + 1 \in T
  <2>1. PICK g : IsSum(s, k, g)
    BY <1>2
  <2> DEFINE h == [i \in 0 .. k + 1 |-> IF i <= k THEN g[i] ELSE g[k] + s[k + 1]]
  <2>2. IsSum(s, k + 1, h)
    BY <2>1 DEF IsSum
  <2> QED
    BY <2>2
<1> HIDE DEF T
<1>3. Nat \subseteq T
  BY <1>1, <1>2, NatInduct
<1> QED
  BY <1>3 DEF T

LEMMA SumUnique ==
  ASSUME NEW s, NEW n \in Nat, NEW m \in Nat, m <= n, NEW f, NEW g,
         IsSum(s, n, f), IsSum(s, m, g)
  PROVE  \A i \in 0 .. m : f[i] = g[i]
<1> DEFINE T == {k \in Nat : k <= m => f[k] = g[k]}
<1>1. 0 \in T
  BY DEF IsSum
<1>2. ASSUME NEW k \in Nat, k \in T PROVE k + 1 \in T
  BY <1>2 DEF IsSum
<1> HIDE DEF T
<1>3. Nat \subseteq T
  BY <1>1, <1>2, NatInduct
<1> QED
  BY <1>3 DEF T

LEMMA SumIs ==
  ASSUME NEW s, NEW n \in Nat
  PROVE  \E f : IsSum(s, n, f) /\ SumUpTo(s, n) = f[n]
<1>1. SumUpTo(s, n) = (CHOOSE f : IsSum(s, n, f))[n]
  BY DEF SumUpTo, IsSum
<1> QED
  BY <1>1, SumExists

LEMMA SumZero == ASSUME NEW s PROVE SumUpTo(s, 0) = 0
<1>1. PICK f : IsSum(s, 0, f) /\ SumUpTo(s, 0) = f[0]
  BY SumIs
<1> QED
  BY <1>1 DEF IsSum

LEMMA SumStep ==
  ASSUME NEW s, NEW n \in Nat
  PROVE  SumUpTo(s, n + 1) = SumUpTo(s, n) + s[n + 1]
<1>1. PICK f : IsSum(s, n + 1, f) /\ SumUpTo(s, n + 1) = f[n + 1]
  BY SumIs
<1>2. PICK g : IsSum(s, n, g) /\ SumUpTo(s, n) = g[n]
  BY SumIs
<1>3. f[n] = g[n]
  BY <1>1, <1>2, SumUnique
<1>4. f[n + 1] = f[n] + s[n + 1]
  BY <1>1 DEF IsSum
<1> QED
  BY <1>1, <1>2, <1>3, <1>4

LEMMA SumInt ==
  ASSUME NEW s, NEW N \in Nat, \A i \in 1 .. N : s[i] \in Int
  PROVE  \A n \in 0 .. N : SumUpTo(s, n) \in Int
<1> DEFINE T == {k \in Nat : k <= N => SumUpTo(s, k) \in Int}
<1>1. 0 \in T
  BY SumZero
<1>2. ASSUME NEW k \in Nat, k \in T PROVE k + 1 \in T
  BY <1>2, SumStep
<1> HIDE DEF T
<1>3. Nat \subseteq T
  BY <1>1, <1>2, NatInduct
<1> QED
  BY <1>3 DEF T

LEMMA SumOfZeros ==
  ASSUME NEW s, NEW N \in Nat, \A i \in 1 .. N : s[i] = 0
  PROVE  SumUpTo(s, N) = 0
<1> DEFINE T == {k \in Nat : k <= N => SumUpTo(s, k) = 0}
<1>1. 0 \in T
  BY SumZero
<1>2. ASSUME NEW k \in Nat, k \in T PROVE k + 1 \in T
  BY <1>2, SumStep
<1> HIDE DEF T
<1>3. Nat \subseteq T
  BY <1>1, <1>2, NatInduct
<1> QED
  BY <1>3 DEF T

\* A sum follows when one of its terms changes.
LEMMA SumChange ==
  ASSUME NEW s, NEW t, NEW N \in Nat, NEW c \in 1 .. N,
         \A i \in 1 .. N : s[i] \in Int /\ t[i] \in Int,
         \A i \in 1 .. N : i # c => t[i] = s[i]
  PROVE  SumUpTo(t, N) = SumUpTo(s, N) + (t[c] - s[c])
<1> DEFINE T == {k \in Nat : k <= N =>
                   SumUpTo(t, k) = SumUpTo(s, k) + (IF k < c THEN 0 ELSE t[c] - s[c])}
<1>0. \A n \in 0 .. N : SumUpTo(s, n) \in Int /\ SumUpTo(t, n) \in Int
  BY SumInt
<1>1. 0 \in T
  BY SumZero
<1>2. ASSUME NEW k \in Nat, k \in T PROVE k + 1 \in T
  <2> SUFFICES ASSUME k + 1 <= N
               PROVE  SumUpTo(t, k + 1)
                        = SumUpTo(s, k + 1) + (IF k + 1 < c THEN 0 ELSE t[c] - s[c])
    OBVIOUS
  <2>1. SumUpTo(t, k) = SumUpTo(s, k) + (IF k < c THEN 0 ELSE t[c] - s[c])
    BY <1>2
  <2>2. SumUpTo(t, k + 1) = SumUpTo(t, k) + t[k + 1] /\ SumUpTo(s, k + 1) = SumUpTo(s, k) + s[k + 1]
    BY SumStep
  <2>3. SumUpTo(s, k) \in Int /\ s[k + 1] \in Int /\ t[k + 1] \in Int /\ t[c] \in Int /\ s[c] \in Int
    BY <1>0
  <2>4. k + 1 # c => t[k + 1] = s[k + 1]
    OBVIOUS
  <2> QED
    BY <2>1, <2>2, <2>3, <2>4
<1> HIDE DEF T
<1>3. Nat \subseteq T
  BY <1>1, <1>2, NatInduct
<1>4. N \in T /\ ~(N < c)
  BY <1>3
<1> QED
  BY <1>4 DEF T

-----------------------------------------------------------------------------
\* The total follows the energies of the layers.
LEMMA GainedType ==
  ASSUME TypeOK
  PROVE  \A l \in 1 .. NLayers : Gained[l] = layerE[l] - LayerEnergy(draw[l]) /\ Gained[l] \in Int
<1>1. \A l \in Layers : LayerEnergy(draw[l]) \in Int /\ layerE[l] \in Int
  BY DrawsType DEF TypeOK
<1> QED
  BY <1>1 DEF Gained, Layers

LEMMA InitTotal == Init => TotalFollowsLayers
<1> SUFFICES ASSUME Init PROVE TotalFollowsLayers
  OBVIOUS
<1>1. TypeOK
  BY InitTypeOK
<1>2. \A l \in Layers : layerE[l] = LayerEnergy(draw[l])
  BY DEF Init
<1>3. \A l \in 1 .. NLayers : Gained[l] = 0
  BY <1>1, <1>2, GainedType DEF Layers, TypeOK
<1>4. NLayers \in Nat
  BY ChainAssumption
<1> QED
  BY <1>3, <1>4, SumOfZeros DEF Init, TotalFollowsLayers

LEMMA NextTotal ==
  ASSUME TypeOK, TypeOK', TotalFollowsLayers, [Next]_vars
  PROVE  TotalFollowsLayers'
<1>1. draw' = draw
  BY DEF Next, Step, InitElement, Setup, NextLayer, ElementSuccess, ElementFatal,
         ElementRetry, HitDone, event, vars, CheckAllHitsSimulated, CheckPlain, CheckFixed
<1>2. CASE UNCHANGED <<layerE, totalE>>
  <2>1. Gained' = Gained
    BY <1>1, <1>2 DEF Gained
  <2> QED
    BY <1>2, <2>1 DEF TotalFollowsLayers
<1>3. CASE \E new \in Int : totalE' = NewTotal(new) /\ layerE' = [layerE EXCEPT ![cs] = new]
  <2>1. PICK new \in Int : totalE' = NewTotal(new) /\ layerE' = [layerE EXCEPT ![cs] = new]
    BY <1>3
  <2>2. NLayers \in Nat /\ cs \in 1 .. NLayers
    BY ChainAssumption DEF TypeOK, Layers
  <2>3. \A l \in 1 .. NLayers : Gained[l] \in Int /\ Gained'[l] \in Int
    <3>1. \A l \in Layers : layerE'[l] \in Int /\ LayerEnergy(draw[l]) \in Int
      BY DrawsType DEF TypeOK
    <3>2. \A l \in Layers : Gained'[l] = layerE'[l] - LayerEnergy(draw[l])
      BY <1>1 DEF Gained
    <3> QED
      BY <3>1, <3>2, GainedType DEF Layers
  <2>4. \A l \in 1 .. NLayers : l # cs => Gained'[l] = Gained[l]
    BY <1>1, <2>1 DEF Gained, TypeOK, Layers
  <2>5. Gained'[cs] - Gained[cs] = new - layerE[cs]
    <3>1. LayerEnergy(draw[cs]) \in Int /\ layerE[cs] \in Int
      BY DrawsType DEF TypeOK
    <3>2. Gained'[cs] = new - LayerEnergy(draw[cs]) /\ Gained[cs] = layerE[cs] - LayerEnergy(draw[cs])
      BY <1>1, <2>1 DEF Gained, TypeOK
    <3> QED
      BY <3>1, <3>2
  <2>6. SumUpTo(Gained', NLayers) = SumUpTo(Gained, NLayers) + (Gained'[cs] - Gained[cs])
    BY <2>2, <2>3, <2>4, SumChange
  <2> QED
    BY <2>1, <2>5, <2>6 DEF TotalFollowsLayers, NewTotal
<1>4. UNCHANGED <<layerE, totalE>>
      \/ \E new \in Int : totalE' = NewTotal(new) /\ layerE' = [layerE EXCEPT ![cs] = new]
  <2>1. CASE ElementRetry \/ HitDone
    <3>1. CASE UNCHANGED event
      BY <3>1 DEF event
    <3>2. CASE \E i \in {idx, idx + 1}, ok \in BOOLEAN : CheckAllHitsSimulated(i, hitE, ok)
      <4>1. (IF hasSum THEN auxSum ELSE 0) \in Int
        BY DEF TypeOK
      <4> QED
        BY <3>2, <4>1 DEF CheckAllHitsSimulated, CheckPlain, CheckFixed, event
    <3> QED
      BY <2>1, <3>1, <3>2 DEF ElementRetry, HitDone, CountHit
  <2> QED
    BY <2>1 DEF Next, Step, InitElement, Setup, NextLayer, ElementSuccess, ElementFatal,
                event, vars
<1> QED
  BY <1>2, <1>3, <1>4

-----------------------------------------------------------------------------
\* What LayerFill sees of the hit loop: the substitutions of Fill, by name.
FilledNow ==
  [l \in Layers |-> IF l = cs /\ pc = "element" THEN sumE ELSE deposit[l]]
StatusOf(l) ==
  CASE result[l] = "none" -> "open"
    [] result[l] = "Fatal" -> "failed"
    [] result[l] = "Success" ->
         IF AbsVal(deposit[l]) >= AbsVal(layerE[l]) THEN "full" ELSE "cut"
StatusNow == [l \in Layers |-> StatusOf(l)]

\* A layer has no result before its chain returns, and while hits are made the
\* energy counted does not fill it.
Pending ==
  /\ \A l \in Layers : l > cs \/ (l = cs /\ pc # "returned") => result[l] = "none"
  /\ ~fixed /\ pc = "element" => ~Fills(sumE)

RInv == LoopInv /\ Pending

-----------------------------------------------------------------------------
\* The actions of LayerFill, in terms of the hit loop.
LEMMA DoesFail ==
  ASSUME StatusNow[cs] = "open", StatusNow' = [StatusNow EXCEPT ![cs] = "failed"],
         FilledNow' = FilledNow, UNCHANGED <<layerE, cs, idx>>
  PROVE  Fill!FillNext
BY DEF Fill!FillNext, Fill!Fail, StatusNow, StatusOf, FilledNow

LEMMA DoesSkip ==
  ASSUME StatusNow[cs] = "open", layerE[cs] = 0,
         StatusNow' = [StatusNow EXCEPT ![cs] = "full"],
         FilledNow' = FilledNow, UNCHANGED <<layerE, cs, idx>>
  PROVE  Fill!FillNext
BY DEF Fill!FillNext, Fill!SkipEmpty, StatusNow, StatusOf, FilledNow

LEMMA DoesAdvance ==
  ASSUME StatusNow[cs] \in {"full", "cut"}, cs < NLayers, cs' = cs + 1, idx' = 0,
         StatusNow' = StatusNow, FilledNow' = FilledNow, UNCHANGED layerE
  PROVE  Fill!FillNext
BY DEF Fill!FillNext, Fill!Advance, StatusNow, StatusOf, FilledNow

LEMMA DoesNothing ==
  ASSUME StatusNow' = StatusNow, FilledNow' = FilledNow, UNCHANGED <<layerE, cs, idx>>
  PROVE  UNCHANGED Fill!fillVars
BY DEF Fill!fillVars, StatusNow, StatusOf, FilledNow

\* The hit that is counted takes an open layer to full, cut or open again.
LEMMA DoesAddHit ==
  ASSUME TypeOK, StatusNow[cs] = "open", ~(AbsVal(FilledNow[cs]) >= AbsVal(layerE[cs])),
         NEW s \in Int, FilledNow' = [FilledNow EXCEPT ![cs] = s],
         NEW new \in {"full", "cut", "open"},
         StatusNow' = [StatusNow EXCEPT ![cs] = new],
         new = "full" <=> AbsVal(s) >= AbsVal(layerE[cs]),
         new = "cut" => idx + 1 >= Cutoff,
         idx' = idx + 1, UNCHANGED <<layerE, cs>>
  PROVE  Fill!FillNext
<1>1. cs \in Layers /\ FilledNow'[cs] = s /\ StatusNow'[cs] = new
  BY DEF TypeOK, FilledNow, StatusNow
<1>2. Fill!Reached(cs, FilledNow[cs]) <=> AbsVal(FilledNow[cs]) >= AbsVal(layerE[cs])
  BY DEF Fill!Reached, Fill!Magnitude, AbsVal
<1>3. Fill!Reached(cs, s) <=> AbsVal(s) >= AbsVal(layerE[cs])
  BY DEF Fill!Reached, Fill!Magnitude, AbsVal
<1> QED
  BY <1>1, <1>2, <1>3
     DEF Fill!FillNext, Fill!AddHit, StatusNow, StatusOf, FilledNow

-----------------------------------------------------------------------------
\* What the mapping shows does not change where its parts do not.
LEMMA SameStatus ==
  ASSUME UNCHANGED <<result, layerE>>,
         \A l \in Layers : result[l] # "none" => deposit'[l] = deposit[l]
  PROVE  StatusNow' = StatusNow
<1>1. ASSUME NEW l \in Layers
      PROVE  StatusOf(l)' = StatusOf(l)
  BY DEF StatusOf
<1> QED
  BY <1>1 DEF StatusNow

LEMMA IsOpen ==
  ASSUME RInv, pc # "returned"
  PROVE  StatusNow[cs] = "open" /\ result[cs] = "none"
BY DEF RInv, LoopInv, TypeOK, Pending, StatusNow, StatusOf

LEMMA Completed ==
  ASSUME RInv, pc = "element", pos <= Len(Chain)
  PROVE  deposit[cs] = sumE
BY LenType DEF RInv, LoopInv, TypeOK

\* While the energy summed up is that in the cells, leaving the loop is not seen.
LEMMA SameFilled ==
  ASSUME cs' = cs, deposit' = deposit,
         pc = "element" => sumE = deposit[cs],
         pc' = "element" => sumE' = deposit[cs]
  PROVE  FilledNow' = FilledNow
BY DEF FilledNow

LEMMA Fails ==
  ASSUME RInv, pc # "returned", Return("Fatal"),
         UNCHANGED <<cs, layerE, deposit, idx>>,
         pc = "element" => sumE = deposit[cs]
  PROVE  Fill!FillNext
<1>1. result' = [result EXCEPT ![cs] = "Fatal"] /\ pc' = "returned"
  BY DEF Return
<1>2. StatusNow' = [StatusNow EXCEPT ![cs] = "failed"]
  BY <1>1 DEF StatusNow, StatusOf, RInv, LoopInv, TypeOK
<1>3. FilledNow' = FilledNow
  BY <1>1, SameFilled
<1> QED
  BY <1>2, <1>3, IsOpen, DoesFail

\* A hit that does not fill its layer leads to the next, one that does, or is too
\* many, closes it.
LEMMA CountsHit ==
  ASSUME RInv, TypeOK', ~fixed, HitDone
  PROVE  Fill!FillNext
<1>1. /\ TypeOK /\ pc = "element" /\ pos > Len(Chain)
      /\ deposit[cs] = sumE' /\ sumE' = sumE + hitE /\ idx' = idx + 1 /\ cs' = cs
      /\ idx \in Nat /\ sumE \in Int /\ hitE \in Int
      /\ cs \in Layers /\ layerE[cs] \in Int
      /\ idx > 0 => hasSum /\ auxSum = sumE
      /\ idx = 0 => sumE = 0
  BY DEF HitDone, CountHit, RInv, LoopInv, TypeOK
<1>2. FilledNow[cs] = sumE /\ ~(AbsVal(sumE) >= AbsVal(layerE[cs]))
  BY <1>1 DEF FilledNow, RInv, Pending, Fills
<1>3. SumBefore(idx + 1) + hitE = sumE'
  BY <1>1 DEF SumBefore
<1>4. /\ UNCHANGED <<layerE, deposit>>
      /\ \/ Return("Success") /\ idx + 1 >= Cutoff
         \/ Return("Success") /\ AbsVal(sumE') >= AbsVal(layerE[cs])
         \/ NextAttempt /\ ~(AbsVal(sumE') >= AbsVal(layerE[cs]))
  BY <1>1, <1>3 DEF HitDone, CountHit, TooManyHits, CheckAllHitsSimulated, CheckPlain,
                    Fills, event
<1>5. FilledNow' = [FilledNow EXCEPT ![cs] = sumE']
  BY <1>1, <1>4 DEF FilledNow
<1>6. sumE' \in Int
  BY <1>1
<1>7. CASE Return("Success")
  <2> DEFINE new == IF AbsVal(sumE') >= AbsVal(layerE[cs]) THEN "full" ELSE "cut"
  <2>1. result' = [result EXCEPT ![cs] = "Success"] /\ result'[cs] = "Success"
    BY <1>1, <1>7 DEF Return, TypeOK
  <2>2. StatusNow' = [StatusNow EXCEPT ![cs] = new]
    <3>1. ASSUME NEW l \in Layers, l # cs
          PROVE  StatusOf(l)' = StatusOf(l)
      BY <1>1, <1>4, <2>1, <3>1 DEF StatusOf, TypeOK
    <3>2. StatusOf(cs)' = new
      BY <1>1, <1>4, <2>1 DEF StatusOf
    <3> QED
      BY <1>1, <3>1, <3>2 DEF StatusNow
  <2>3. new = "cut" => idx + 1 >= Cutoff
    BY <1>4, <1>7 DEF Return, NextAttempt
  <2>4. new \in {"full", "cut", "open"} /\ (new = "full" <=> AbsVal(sumE') >= AbsVal(layerE[cs]))
    OBVIOUS
  <2> HIDE DEF new
  <2> QED
    BY <1>1, <1>2, <1>4, <1>5, <1>6, <2>2, <2>3, <2>4, IsOpen, DoesAddHit
<1>8. CASE NextAttempt /\ ~(AbsVal(sumE') >= AbsVal(layerE[cs]))
  <2>1. StatusNow' = StatusNow
    BY <1>4, <1>8, SameStatus DEF NextAttempt
  <2>2. StatusNow' = [StatusNow EXCEPT ![cs] = "open"]
    BY <1>1, <2>1, IsOpen DEF StatusNow
  <2> QED
    BY <1>1, <1>2, <1>4, <1>5, <1>6, <1>8, <2>2, IsOpen, DoesAddHit
<1> QED
  BY <1>4, <1>7, <1>8

-----------------------------------------------------------------------------
\* The invariant.
LEMMA InitPending == Init => Pending
<1> SUFFICES ASSUME Init PROVE Pending
  OBVIOUS
<1> QED
  BY DEF Init, Pending

LEMMA ReturnPending ==
  ASSUME RInv, NEW r \in {"Success", "Fatal"}, Return(r), cs' = cs
  PROVE  Pending'
<1>1. \A l \in Layers : l > cs => l # cs
  BY DEF RInv, LoopInv, TypeOK, Layers
<1> QED
  BY <1>1 DEF Return, Pending, RInv

LEMMA AttemptPending ==
  ASSUME RInv, pc # "returned", NextAttempt, UNCHANGED <<cs, layerE, fixed>>,
         ~fixed => ~Fills(sumE')
  PROVE  Pending'
BY DEF NextAttempt, Pending, RInv, Fills

LEMMA SetupPending == ASSUME RInv, UNCHANGED fixed, Setup PROVE Pending'
<1>1. pc = "init" /\ cs' = cs /\ layerE' = layerE /\ layerE[cs] \in Int
  BY DEF Setup, event, RInv, LoopInv, TypeOK
<1>2. CASE NextAttempt /\ sumE' = 0 /\ layerE[cs] # 0
  <2>1. ~Fills(sumE')
    BY <1>1, <1>2 DEF Fills, AbsVal
  <2> QED
    BY <1>1, <1>2, <2>1, AttemptPending
<1>3. CASE Return("Success") \/ Return("Fatal")
  BY <1>1, <1>3, ReturnPending
<1> QED
  BY <1>2, <1>3 DEF Setup

LEMMA HitDonePending == ASSUME RInv, UNCHANGED fixed, HitDone PROVE Pending'
<1>1. pc = "element" /\ cs' = cs
  BY DEF HitDone
<1>2. CASE Return("Success")
  BY <1>1, <1>2, ReturnPending
<1>3. CASE NextAttempt
  <2>1. layerE' = layerE
    BY <1>3 DEF HitDone, CountHit, CheckAllHitsSimulated, CheckPlain, CheckFixed, event,
                NextAttempt, Return
  <2>2. ASSUME ~fixed
        PROVE  ~Fills(sumE')
    <3>1. SumBefore(idx + 1) + hitE = sumE' /\ idx + 1 > 0
      BY <1>1, <2>2 DEF HitDone, SumBefore, RInv, LoopInv, TypeOK
    <3> QED
      BY <1>3, <2>2, <3>1 DEF HitDone, CountHit, CheckAllHitsSimulated, CheckPlain,
                              NextAttempt, Return
  <2> QED
    BY <1>1, <1>3, <2>1, <2>2, AttemptPending
<1> QED
  BY <1>2, <1>3 DEF HitDone, CountHit, CheckAllHitsSimulated, CheckPlain, CheckFixed

LEMMA RetryPending == ASSUME RInv, UNCHANGED fixed, ElementRetry PROVE Pending'
<1>1. pc = "element" /\ cs' = cs /\ sumE' = sumE
  BY DEF ElementRetry
<1>2. CASE Return("Fatal")
  BY <1>1, <1>2, ReturnPending
<1>3. CASE CheckAllHitsSimulated(idx, hitE, FALSE)
  <2>1. NextAttempt /\ layerE' = layerE
    BY <1>1, <1>3 DEF CheckAllHitsSimulated, CheckPlain, CheckFixed, HitsMissing, event,
                      RInv, LoopInv
  <2> QED
    BY <1>1, <2>1, AttemptPending DEF RInv, Pending
<1> QED
  BY <1>2, <1>3 DEF ElementRetry

LEMMA NextPending == ASSUME RInv, [Next]_vars PROVE Pending'
<1>0. fixed' = fixed
  BY DEF Next, vars
<1>1. CASE InitElement
  <2>1. CASE Return("Fatal")
    BY <1>1, <2>1, ReturnPending DEF InitElement
  <2>2. CASE UNCHANGED <<pc, result>>
    BY <1>0, <1>1, <2>2 DEF InitElement, event, Pending, RInv
  <2> QED
    BY <1>1, <2>1, <2>2 DEF InitElement
<1>2. CASE Setup
  BY <1>0, <1>2, SetupPending
<1>3. CASE NextLayer
  <2>1. cs \in Int /\ cs' = cs + 1 /\ result' = result /\ pc' = "init"
    BY <1>3 DEF NextLayer, RInv, LoopInv, TypeOK, Layers
  <2>2. \A l \in Layers : l > cs' \/ l = cs' => l > cs
    BY <2>1 DEF Layers
  <2> QED
    BY <2>1, <2>2 DEF Pending, RInv
<1>4. CASE ElementSuccess
  BY <1>0, <1>4 DEF ElementSuccess, Pending, RInv, Fills
<1>5. CASE ElementFatal
  BY <1>5, ReturnPending DEF ElementFatal
<1>6. CASE ElementRetry
  BY <1>0, <1>6, RetryPending
<1>7. CASE HitDone
  BY <1>0, <1>7, HitDonePending
<1>8. CASE UNCHANGED vars
  BY <1>8 DEF vars, event, attempt, Pending, RInv, Fills
<1> QED
  BY <1>1, <1>2, <1>3, <1>4, <1>5, <1>6, <1>7, <1>8 DEF Next, Step

-----------------------------------------------------------------------------
\* The first state of LayerFill, and each step.
LEMMA InitMaps == Init => Fill!FillInit
<1> SUFFICES ASSUME Init PROVE Fill!FillInit
  OBVIOUS
<1>1. TypeOK
  BY InitTypeOK
<1>2. FilledNow = [l \in Layers |-> 0]
  BY DEF Init, FilledNow
<1>3. StatusNow = [l \in Layers |-> "open"]
  BY DEF Init, StatusNow, StatusOf
<1>4. DOMAIN layerE = Layers /\ (\A l \in Layers : layerE[l] \in Int) /\ cs = 1 /\ idx = 0
  BY <1>1 DEF Init, TypeOK
<1>5. Fill!Layers = Layers
  BY DEF Fill!Layers, Layers
<1> QED
  BY <1>2, <1>3, <1>4, <1>5 DEF Fill!FillInit, FilledNow, StatusNow, StatusOf

LEMMA StepMaps ==
  ASSUME RInv, TypeOK', ~fixed, [Next]_vars
  PROVE  Fill!FillNext \/ UNCHANGED Fill!fillVars
<1>1. CASE InitElement
  <2>1. pc = "init" /\ UNCHANGED <<cs, layerE, deposit, idx, sumE>>
    BY <1>1 DEF InitElement, event
  <2>2. CASE Return("Fatal")
    BY <2>1, <2>2, Fails
  <2>3. CASE UNCHANGED <<pc, result>>
    BY <2>1, <2>3, SameStatus, SameFilled, DoesNothing
  <2> QED
    BY <1>1, <2>2, <2>3 DEF InitElement
<1>2. CASE Setup
  <2>1. /\ pc = "init" /\ deposit[cs] = 0 /\ idx = 0 /\ TypeOK
        /\ UNCHANGED <<cs, layerE, deposit>>
    BY <1>2 DEF Setup, event, RInv, LoopInv
  <2>2. CASE Return("Success") /\ layerE[cs] = 0 /\ UNCHANGED attempt
    <3>1. result' = [result EXCEPT ![cs] = "Success"] /\ pc' = "returned"
      BY <2>2 DEF Return
    <3>2. ASSUME NEW l \in Layers, l # cs
          PROVE  StatusOf(l)' = StatusOf(l)
      BY <2>1, <3>1, <3>2 DEF StatusOf, TypeOK
    <3>3. StatusOf(cs)' = "full"
      BY <2>1, <2>2, <3>1 DEF StatusOf, TypeOK, AbsVal
    <3>4. StatusNow' = [StatusNow EXCEPT ![cs] = "full"]
      BY <2>1, <3>2, <3>3 DEF StatusNow
    <3>5. FilledNow' = FilledNow /\ idx' = idx
      BY <2>1, <2>2, <3>1, SameFilled DEF attempt
    <3> QED
      BY <2>1, <2>2, <3>4, <3>5, IsOpen, DoesSkip
  <2>3. CASE Return("Fatal") /\ UNCHANGED attempt
    BY <2>1, <2>3, Fails DEF attempt
  <2>4. CASE NextAttempt /\ idx' = 0 /\ sumE' = 0
    BY <2>1, <2>4, SameStatus, SameFilled, DoesNothing DEF NextAttempt
  <2> QED
    BY <1>2, <2>2, <2>3, <2>4 DEF Setup
<1>3. CASE NextLayer
  <2>1. /\ pc = "returned" /\ pc' = "init" /\ result[cs] = "Success" /\ cs < NLayers
        /\ cs' = cs + 1 /\ idx' = 0 /\ UNCHANGED <<result, layerE, deposit>>
        /\ cs \in Layers
    BY <1>3 DEF NextLayer, event, RInv, LoopInv, TypeOK
  <2>2. StatusNow[cs] \in {"full", "cut"}
    BY <2>1 DEF StatusNow, StatusOf
  <2>3. FilledNow' = FilledNow
    BY <2>1 DEF FilledNow
  <2> QED
    BY <2>1, <2>2, <2>3, SameStatus, DoesAdvance
<1>4. CASE ElementSuccess
  <2>1. /\ pc = "element" /\ pc' = "element" /\ UNCHANGED <<cs, layerE, idx, sumE, result>>
        /\ \A l \in Layers : l # cs => deposit'[l] = deposit[l]
    BY <1>4 DEF ElementSuccess, FarFromCell, RInv, LoopInv, TypeOK
  <2>2. StatusNow' = StatusNow
    BY <2>1, IsOpen, SameStatus
  <2>3. FilledNow' = FilledNow
    BY <2>1 DEF FilledNow
  <2> QED
    BY <2>1, <2>2, <2>3, DoesNothing
<1>5. CASE ElementFatal
  BY <1>5, Completed, Fails DEF ElementFatal, event, attempt
<1>6. CASE ElementRetry
  <2>1. pc = "element" /\ deposit[cs] = sumE /\ UNCHANGED <<cs, idx, sumE>>
    BY <1>6, Completed DEF ElementRetry
  <2>2. CASE Return("Fatal") /\ UNCHANGED event
    BY <2>1, <2>2, Fails DEF event
  <2>3. CASE NextAttempt /\ UNCHANGED event
    BY <2>1, <2>3, SameStatus, SameFilled, DoesNothing DEF NextAttempt, event
  <2> QED
    BY <1>6, <2>2, <2>3 DEF ElementRetry, CheckAllHitsSimulated, CheckPlain, event
<1>7. CASE HitDone
  BY <1>7, CountsHit
<1>8. CASE UNCHANGED vars
  BY <1>8, SameStatus DEF vars, event, attempt, Fill!fillVars
<1> QED
  BY <1>1, <1>2, <1>3, <1>4, <1>5, <1>6, <1>7, <1>8 DEF Next, Step

-----------------------------------------------------------------------------
\* The plain chain does not overshoot.
IsWeighted(e, n, f) ==
  f = [i \in NInit .. n |->
         IF i = NInit THEN {e}
         ELSE IF Chain[i] = "weight" THEN WeightedOf(f[i - 1])
         ELSE f[i - 1]]

LEMMA WeightedUnfold ==
  ASSUME NEW e, NEW n \in Nat, NEW f, IsWeighted(e, n, f),
         NEW k \in Nat, k >= NInit, k + 1 <= n
  PROVE  f[k + 1] = IF Chain[k + 1] = "weight" THEN WeightedOf(f[k]) ELSE f[k]
<1>1. /\ NInit \in Nat /\ k + 1 \in NInit .. n
      /\ (k + 1) - 1 = k /\ k + 1 # NInit
  BY LenType
<1>2. f[k + 1] = IF k + 1 = NInit THEN {e}
                 ELSE IF Chain[k + 1] = "weight" THEN WeightedOf(f[(k + 1) - 1])
                 ELSE f[(k + 1) - 1]
  BY <1>1 DEF IsWeighted
<1> QED
  BY <1>1, <1>2

\* What is drawn before the first weight is the energy of the hit, ...
LEMMA WeightedExists ==
  ASSUME NEW e, NEW n \in Nat, n >= NInit
  PROVE  \E f : IsWeighted(e, n, f)
<1> DEFINE T == {k \in Nat : \E f : IsWeighted(e, NInit + k, f)}
<1>0. NInit \in Nat
  BY LenType
<1>1. 0 \in T
  <2>1. IsWeighted(e, NInit, [i \in NInit .. NInit |-> {e}])
    BY <1>0 DEF IsWeighted
  <2> QED
    BY <1>0, <2>1
<1>2. ASSUME NEW k \in Nat, k \in T PROVE k + 1 \in T
  <2> DEFINE m == NInit + k
  <2>1. PICK g : IsWeighted(e, m, g)
    BY <1>2
  <2>2. m \in Nat /\ m >= NInit /\ NInit + (k + 1) = m + 1
    BY <1>0
  <2> HIDE DEF m
  <2> DEFINE more == IF Chain[m + 1] = "weight" THEN WeightedOf(g[m]) ELSE g[m]
             h == [i \in NInit .. m + 1 |-> IF i <= m THEN g[i] ELSE more]
             next(f, i) == IF i = NInit THEN {e}
                           ELSE IF Chain[i] = "weight" THEN WeightedOf(f[i - 1])
                           ELSE f[i - 1]
  <2>3. IsWeighted(e, m + 1, h)
    <3>1. \A i \in NInit .. m : h[i] = next(h, i)
      <4>1. \A i \in NInit .. m : h[i] = g[i] /\ (i # NInit => h[i - 1] = g[i - 1])
        BY <1>0, <2>2
      <4>2. \A i \in NInit .. m : g[i] = next(g, i)
        BY <2>1 DEF IsWeighted
      <4> QED
        BY <4>1, <4>2
    <3>2. h[m + 1] = next(h, m + 1)
      <4>1. (m + 1) - 1 = m /\ h[m] = g[m] /\ h[m + 1] = more /\ m + 1 # NInit
        BY <1>0, <2>2
      <4> HIDE DEF h
      <4> QED
        BY <4>1
    <3>3. \A i \in NInit .. m + 1 : i \in NInit .. m \/ i = m + 1
      BY <1>0, <2>2
    <3>4. \A i \in NInit .. m + 1 : h[i] = next(h, i)
      BY <3>1, <3>2, <3>3
    <3>5. h = [i \in NInit .. m + 1 |-> h[i]]
      OBVIOUS
    <3> HIDE DEF h
    <3>6. h = [i \in NInit .. m + 1 |-> next(h, i)]
      BY <3>4, <3>5
    <3> QED
      BY <3>6 DEF IsWeighted
  <2> QED
    BY <2>2, <2>3
<1> HIDE DEF T
<1>3. Nat \subseteq T
  BY <1>1, <1>2, NatInduct
<1>4. n - NInit \in T /\ NInit + (n - NInit) = n
  BY <1>0, <1>3
<1> QED
  BY <1>4 DEF T

LEMMA WeightedUnique ==
  ASSUME NEW e, NEW n \in Nat, NEW m \in Nat, m <= n, m >= NInit, NEW f, NEW g,
         IsWeighted(e, n, f), IsWeighted(e, m, g)
  PROVE  f[m] = g[m]
<1>0. NInit \in Nat
  BY LenType
<1> DEFINE T == {k \in Nat : k >= NInit /\ k <= m => f[k] = g[k]}
<1>1. 0 \in T
  BY <1>0 DEF IsWeighted
<1>2. ASSUME NEW k \in Nat, k \in T PROVE k + 1 \in T
  <2>1. CASE k >= NInit /\ k + 1 <= m
    <3>1. f[k] = g[k] /\ k + 1 <= n
      BY <1>2, <2>1
    <3>2. f[k + 1] = IF Chain[k + 1] = "weight" THEN WeightedOf(f[k]) ELSE f[k]
      BY <2>1, <3>1, WeightedUnfold
    <3>3. g[k + 1] = IF Chain[k + 1] = "weight" THEN WeightedOf(g[k]) ELSE g[k]
      BY <2>1, WeightedUnfold
    <3> QED
      BY <3>1, <3>2, <3>3
  <2>2. CASE k + 1 = NInit
    BY <1>0, <2>2 DEF IsWeighted
  <2> QED
    BY <1>0, <2>1, <2>2
<1> HIDE DEF T
<1>3. Nat \subseteq T
  BY <1>1, <1>2, NatInduct
<1> QED
  BY <1>3 DEF T

LEMMA WeightedIs ==
  ASSUME NEW e, NEW n \in Nat, n >= NInit
  PROVE  \E f : IsWeighted(e, n, f) /\ Weighted(e, n) = f[n]
<1>1. Weighted(e, n) = (CHOOSE f : IsWeighted(e, n, f))[n]
  BY DEF Weighted, IsWeighted
<1> QED
  BY <1>1, WeightedExists

LEMMA WeightedStart == ASSUME NEW e PROVE Weighted(e, NInit) = {e}
<1>0. NInit \in Nat
  BY LenType
<1>1. PICK f : IsWeighted(e, NInit, f) /\ Weighted(e, NInit) = f[NInit]
  BY <1>0, WeightedIs
<1> QED
  BY <1>0, <1>1 DEF IsWeighted

\* ... and an element multiplies it by one of the weights if it is one.
LEMMA WeightedStep ==
  ASSUME NEW e, NEW n \in Nat, n >= NInit
  PROVE  Weighted(e, n + 1) =
           IF Chain[n + 1] = "weight" THEN WeightedOf(Weighted(e, n))
           ELSE Weighted(e, n)
<1>0. NInit \in Nat
  BY LenType
<1>1. PICK f : IsWeighted(e, n + 1, f) /\ Weighted(e, n + 1) = f[n + 1]
  BY <1>0, WeightedIs
<1>2. PICK g : IsWeighted(e, n, g) /\ Weighted(e, n) = g[n]
  BY WeightedIs
<1>3. f[n] = g[n]
  BY <1>1, <1>2, WeightedUnique
<1>4. f[n + 1] = IF Chain[n + 1] = "weight" THEN WeightedOf(f[n]) ELSE f[n]
  BY <1>1, WeightedUnfold
<1> QED
  BY <1>1, <1>2, <1>3, <1>4

\* The hit has the energy its weights give it until it is matched to a cell.
Close(l) ==
  \E e \in Weighted(draw[l].e, Len(Chain)) \cup {0} :
    AbsVal(deposit[l]) < AbsVal(layerE[l]) + AbsVal(e)
OverInv ==
  ~fixed =>
    /\ \A l \in Layers : layerE[l] # 0 => Close(l)
    /\ pc = "element" /\ pos <= Len(Chain) => hitE \in Weighted(draw[cs].e, pos - 1)
    /\ pc = "element" => layerE[cs] # 0

LEMMA SameCloseness ==
  ASSUME OverInv, ~fixed, NEW l \in Layers, UNCHANGED draw, deposit'[l] = deposit[l],
         layerE'[l] = layerE[l]
  PROVE  (layerE[l] # 0 => Close(l))'
BY DEF OverInv, Close

LEMMA SameOver ==
  ASSUME OverInv, UNCHANGED <<fixed, draw, deposit, layerE>>,
         pc' = "element" => pc = "element" /\ UNCHANGED <<cs, pos, hitE>>
  PROVE  OverInv'
<1>1. ~fixed => (\A l \in Layers : layerE[l] # 0 => Close(l))'
  BY SameCloseness
<1> QED
  BY <1>1 DEF OverInv

LEMMA AttemptOver ==
  ASSUME OverInv, NextAttempt, UNCHANGED <<fixed, cs, draw, deposit, layerE>>,
         layerE[cs] # 0
  PROVE  OverInv'
<1>1. ~fixed => (\A l \in Layers : layerE[l] # 0 => Close(l))'
  BY SameCloseness
<1>2. pos' - 1 = NInit /\ hitE' = draw[cs].e /\ pos' = NInit + 1
  BY LenType DEF NextAttempt, Ehit
<1>3. hitE' \in Weighted(draw'[cs'].e, pos' - 1)
  BY <1>2, WeightedStart
<1> QED
  BY <1>1, <1>3 DEF OverInv

LEMMA ElementSuccessOver ==
  ASSUME RInv, OverInv, ElementSuccess, UNCHANGED fixed
  PROVE  OverInv'
<1> SUFFICES ASSUME ~fixed PROVE OverInv'
  BY DEF OverInv
<1>1. /\ pc = "element" /\ pos <= Len(Chain) /\ pos > NInit /\ pos \in Nat /\ pos' = pos + 1
      /\ UNCHANGED <<pc, cs, draw, layerE, sumE>>
      /\ cs \in Layers /\ layerE[cs] # 0 /\ sumE \in Int /\ hitE \in Int /\ layerE[cs] \in Int
      /\ deposit \in [Layers -> Int]
      /\ hitE \in Weighted(draw[cs].e, pos - 1)
  BY LenType DEF ElementSuccess, RInv, LoopInv, TypeOK, OverInv
<1>2. deposit[cs] = sumE
  BY <1>1, Completed
<1>3. AbsVal(sumE) < AbsVal(layerE[cs])
  <2>1. ~(AbsVal(sumE) >= AbsVal(layerE[cs]))
    BY <1>1 DEF RInv, Pending, Fills
  <2>2. AbsVal(sumE) \in Nat /\ AbsVal(layerE[cs]) \in Nat
    BY <1>1, AbsValType
  <2> QED
    BY <2>1, <2>2
<1>4. Weighted(draw[cs].e, pos) =
        IF Chain[pos] = "weight" THEN WeightedOf(Weighted(draw[cs].e, pos - 1))
        ELSE Weighted(draw[cs].e, pos - 1)
  <2>1. pos - 1 \in Nat /\ pos - 1 >= NInit /\ (pos - 1) + 1 = pos
    BY <1>1, LenType
  <2> QED
    BY <2>1, WeightedStep
<1>5. CASE Chain[pos] \in {"shape", "weight"}
  <2>1. deposit' = deposit
    BY <1>5 DEF ElementSuccess
  <2>2. hitE' \in Weighted(draw[cs].e, pos)
    <3>1. CASE Chain[pos] = "shape"
      BY <1>1, <1>4, <3>1 DEF ElementSuccess
    <3>2. CASE Chain[pos] = "weight"
      BY <1>1, <1>4, <3>2 DEF ElementSuccess, WeightedOf
    <3> QED
      BY <1>5, <3>1, <3>2
  <2>3. pos' - 1 = pos
    BY <1>1
  <2>4. (\A l \in Layers : layerE[l] # 0 => Close(l))'
    BY <1>1, <2>1, SameCloseness
  <2> QED
    BY <1>1, <2>2, <2>3, <2>4 DEF OverInv
<1>6. CASE Chain[pos] \in {"map", "fcal"}
  <2>1. pos = Len(Chain) /\ pos' > Len(Chain)
    BY <1>1, <1>6, LenType, MapLast
  <2>2. hitE \in Weighted(draw[cs].e, Len(Chain))
    BY <1>4, <1>6, <1>1, <2>1
  <2>3. \/ deposit' = [deposit EXCEPT ![cs] = @ + hitE]
        \/ deposit' = deposit
    BY <1>6 DEF ElementSuccess, FarFromCell
  <2>4. AbsVal(deposit'[cs]) < AbsVal(layerE[cs]) + AbsVal(hitE)
    <3>1. deposit'[cs] = sumE + hitE \/ deposit'[cs] = sumE
      BY <1>1, <1>2, <2>3
    <3>2. \A x, y, z \in Int : AbsVal(x) < AbsVal(z) =>
            /\ AbsVal(x + y) < AbsVal(z) + AbsVal(y)
            /\ AbsVal(x) < AbsVal(z) + AbsVal(y)
      BY DEF AbsVal
    <3> QED
      BY <1>1, <1>3, <3>1, <3>2
  <2>5. (\A l \in Layers : layerE[l] # 0 => Close(l))'
    <3>1. Close(cs)'
      BY <1>1, <2>2, <2>4 DEF Close
    <3>2. ASSUME NEW l \in Layers, l # cs PROVE (layerE[l] # 0 => Close(l))'
      <4>1. deposit'[l] = deposit[l]
        BY <1>1, <2>3, <3>2
      <4> QED
        BY <1>1, <4>1, SameCloseness
    <3> QED
      BY <1>1, <3>1, <3>2
  <2> QED
    BY <1>1, <2>1, <2>5 DEF OverInv
<1> QED
  BY <1>5, <1>6 DEF ElementSuccess

LEMMA InitOver == Init => OverInv
<1> SUFFICES ASSUME Init PROVE OverInv
  OBVIOUS
<1>1. pc = "init" /\ deposit = [l \in Layers |-> 0] /\ TypeOK
  BY InitTypeOK DEF Init
<1>2. ASSUME NEW l \in Layers, layerE[l] # 0 PROVE Close(l)
  <2>1. AbsVal(deposit[l]) < AbsVal(layerE[l]) + AbsVal(0)
    BY <1>1, <1>2 DEF AbsVal, TypeOK
  <2> QED
    BY <2>1 DEF Close
<1> QED
  BY <1>1, <1>2 DEF OverInv

LEMMA NextOver ==
  ASSUME RInv, OverInv, [Next]_vars
  PROVE  OverInv'
<1>0. fixed' = fixed
  BY DEF Next, vars
<1> SUFFICES ASSUME ~fixed PROVE OverInv'
  BY <1>0 DEF OverInv
<1>1. CASE InitElement \/ ElementFatal \/ NextLayer
  BY <1>0, <1>1, SameOver DEF InitElement, ElementFatal, NextLayer, Return, event, attempt
<1>2. CASE Setup
  <2>1. CASE NextAttempt /\ layerE[cs] # 0
    BY <1>0, <1>2, <2>1, AttemptOver DEF Setup, event
  <2>2. CASE Return("Success") \/ Return("Fatal")
    BY <1>0, <1>2, <2>2, SameOver DEF Setup, Return, event
  <2> QED
    BY <1>2, <2>1, <2>2 DEF Setup
<1>3. CASE ElementSuccess
  BY <1>0, <1>3, ElementSuccessOver
<1>4. CASE ElementRetry \/ HitDone
  <2>1. pc = "element" /\ layerE[cs] # 0 /\ cs' = cs /\ UNCHANGED <<draw, deposit, layerE>>
    BY <1>4 DEF ElementRetry, HitDone, CheckAllHitsSimulated, CheckPlain, event, OverInv
  <2>2. CASE Return("Fatal") \/ Return("Success")
    BY <1>0, <2>1, <2>2, SameOver DEF Return
  <2>3. CASE NextAttempt
    BY <1>0, <2>1, <2>3, AttemptOver
  <2> QED
    BY <1>4, <2>2, <2>3 DEF ElementRetry, HitDone, CheckAllHitsSimulated, CheckPlain
<1>5. CASE UNCHANGED vars
  BY <1>5, SameOver DEF vars, event, attempt
<1> QED
  BY <1>1, <1>2, <1>3, <1>4, <1>5 DEF Next, Step

\* What is counted is what is there, in a chain with any number of weights: the
\* fixed chain makes its hits, the plain one ends with the hit that fills the
\* layer, and the total is still the sum of the layers.
THEOREM CountsAreRight == Spec => []CountsAndTotals
<1> DEFINE CInv == RInv /\ OverInv /\ TotalFollowsLayers
<1>1. Init => CInv
  BY InitLoopInv, InitPending, InitOver, InitTotal DEF RInv
<1>2. CInv /\ [Next]_vars => CInv'
  <2> SUFFICES ASSUME CInv, [Next]_vars PROVE CInv'
    OBVIOUS
  <2>1. RInv'
    BY NextLoopInv, NextPending DEF RInv
  <2>2. OverInv'
    BY NextOver
  <2>3. TotalFollowsLayers'
    BY <2>1, NextTotal DEF RInv, LoopInv
  <2> QED
    BY <2>1, <2>2, <2>3
<1>3. CInv => CountsAndTotals
  BY DEF CountsAndTotals, RInv, LoopInv, NoOvershoot, OverInv, Close
<1> QED
  BY <1>1, <1>2, <1>3, PTL DEF Spec

\* The plain hit chain is a LayerFill: what it promises for the layers of a shower
\* is kept by the loop with its retries, its weights and its aux-info.
THEOREM Implements == Spec => ImplementsLayerFill
<1>1. Init => RInv
  BY InitLoopInv, InitPending DEF RInv
<1>2. RInv /\ [Next]_vars => RInv'
  BY NextLoopInv, NextPending DEF RInv
<1>3. RInv /\ [Next]_vars => [fixed \/ Fill!FillNext]_(Fill!fillVars)
  BY NextTypeOK, StepMaps DEF RInv, LoopInv
<1>4. Init => fixed \/ Fill!FillInit
  BY InitMaps
<1> QED
  BY <1>1, <1>2, <1>3, <1>4, PTL DEF Spec, ImplementsLayerFill

-----------------------------------------------------------------------------
(***************************************************************************)
(* What is done to a hit on its way: the modulation of its energy in phi.  *)
(***************************************************************************)
\* Ascending borders.
Ascends(s) == \A k, m \in 1 .. Len(s) : k < m => s[k] < s[m]

\* The place found in ascending borders is that of the last border not above the
\* value: upper_bound() - 1.
LEMMA IndexOfValue ==
  ASSUME NEW s \in Seq(Int), Ascends(s), NEW x \in Int
  PROVE  /\ IndexIn(s, x) \in 0 .. Len(s)
         /\ \A k \in 1 .. Len(s) : k <= IndexIn(s, x) <=> s[k] <= x
<1> DEFINE T == {n \in 0 .. Len(s) : \A k \in 1 .. Len(s) : k > n => s[k] > x}
<1>1. T \subseteq Nat /\ Len(s) \in T
  OBVIOUS
<1>2. PICK n \in T : \A m \in T : n <= m
  BY <1>1, Least
<1>3. n \in 0 .. Len(s) /\ \A k \in 1 .. Len(s) : k > n => s[k] > x
  BY <1>2
<1>4. ASSUME NEW k \in 1 .. Len(s), k <= n, s[k] > x
      PROVE  FALSE
  <2>1. n - 1 \in 0 .. Len(s)
    BY <1>3, <1>4
  <2>2. ASSUME NEW m \in 1 .. Len(s), m > n - 1
        PROVE  s[m] > x
    <3>1. CASE m > n
      BY <3>1, <1>3
    <3>2. CASE m = n
      <4>1. s[k] <= s[m] /\ s[k] \in Int /\ s[m] \in Int
        BY <3>2, <1>4 DEF Ascends
      <4> QED
        BY <4>1, <1>4
    <3>3. m \in Int /\ n \in Int /\ m > n - 1
      BY <2>2, <1>3
    <3>4. m > n \/ m = n
      BY <3>3
    <3> QED
      BY <3>1, <3>2, <3>4
  <2>3. n - 1 \in T
    BY <2>1, <2>2
  <2>4. n <= n - 1
    BY <2>3, <1>2
  <2> QED
    BY <2>4, <1>3
<1>5. \A k \in 1 .. Len(s) : k <= n <=> s[k] <= x
  BY <1>3, <1>4
<1>6. {k \in 1 .. Len(s) : s[k] <= x} = 1 .. n
  BY <1>3, <1>5
<1>7. Cardinality(1 .. n) = n
  BY <1>3, FS_Interval
<1> QED
  BY <1>3, <1>5, <1>6, <1>7 DEF IndexIn

\* What is put at a place moves what was there, and all behind it, by one.
LEMMA InsertedAt ==
  ASSUME NEW S, NEW s \in Seq(S), NEW p \in 1 .. Len(s) + 1, NEW x \in S
  PROVE  /\ InsertAt(s, p, x) \in Seq(S)
         /\ Len(InsertAt(s, p, x)) = Len(s) + 1
         /\ \A k \in 1 .. Len(s) + 1 :
              InsertAt(s, p, x)[k] = IF k < p THEN s[k] ELSE IF k = p THEN x ELSE s[k - 1]
<1> DEFINE a == SubSeq(s, 1, p - 1)
           b == SubSeq(s, p, Len(s))
<1>1. a \in Seq(S) /\ Len(a) = p - 1 /\ \A k \in 1 .. p - 1 : a[k] = s[k]
  OBVIOUS
<1>2. b \in Seq(S) /\ Len(b) = Len(s) - p + 1 /\ \A k \in 1 .. Len(s) - p + 1 : b[k] = s[p + k - 1]
  OBVIOUS
<1>3. InsertAt(s, p, x) = a \o <<x>> \o b
  BY DEF InsertAt
<1> HIDE DEF a, b
<1>4. a \o <<x>> \in Seq(S) /\ Len(a \o <<x>>) = p
      /\ \A k \in 1 .. p : (a \o <<x>>)[k] = IF k < p THEN s[k] ELSE x
  BY <1>1
<1> DEFINE c == a \o <<x>>
<1>5. c \in Seq(S) /\ Len(c) = p /\ \A k \in 1 .. p : c[k] = IF k < p THEN s[k] ELSE x
  BY <1>4
<1> HIDE DEF c
<1>6. c \o b \in Seq(S) /\ Len(c \o b) = Len(s) + 1
      /\ \A k \in 1 .. Len(s) + 1 : (c \o b)[k] = IF k <= p THEN c[k] ELSE b[k - p]
  <2>1. b \in Seq(S) /\ Len(b) = Len(s) - p + 1
    BY <1>2
  <2>2. c \o b \in Seq(S) /\ Len(c \o b) = Len(c) + Len(b)
        /\ \A k \in 1 .. Len(c) + Len(b) : (c \o b)[k] = IF k <= Len(c) THEN c[k] ELSE b[k - Len(c)]
    BY <1>5, <2>1, SMTT(30)
  <2>3. Len(c) + Len(b) = Len(s) + 1
    BY <1>5, <2>1
  <2> QED
    BY <2>2, <2>3, <1>5
<1>7. \A k \in p + 1 .. Len(s) + 1 : b[k - p] = s[k - 1]
  <2> TAKE k \in p + 1 .. Len(s) + 1
  <2>1. k - p \in 1 .. Len(s) - p + 1 /\ p + (k - p) - 1 = k - 1
    OBVIOUS
  <2> QED
    BY <2>1, <1>2
<1>8. InsertAt(s, p, x) = c \o b
  BY <1>3 DEF c
<1>9. ASSUME NEW k \in 1 .. Len(s) + 1
      PROVE  (c \o b)[k] = IF k < p THEN s[k] ELSE IF k = p THEN x ELSE s[k - 1]
  <2>1. CASE k <= p
    BY <2>1, <1>5, <1>6
  <2>2. CASE k > p
    <3>1. k \in p + 1 .. Len(s) + 1
      BY <2>2
    <3>2. b[k - p] = s[k - 1]
      BY <3>1, <1>7
    <3>3. (c \o b)[k] = b[k - p]
      BY <1>6, <2>2
    <3> QED
      <4>1. k \in Int /\ p \in Int /\ ~(k < p) /\ k # p
        BY <2>2
      <4> QED
        BY <3>2, <3>3, <4>1
  <2>3. k <= p \/ k > p
    <3>1. k \in Int /\ p \in Int
      OBVIOUS
    <3> QED
      BY <3>1
  <2> QED
    BY <2>1, <2>2, <2>3, Zenon
<1> QED
  BY <1>6, <1>8, <1>9

\* A whole turn does not change a remainder.
LEMMA ModTurn ==
  ASSUME NEW x \in Int, NEW c \in Nat \ {0}
  PROVE  (x + c) % c = x % c /\ x % c \in 0 .. c - 1
<1>1. x = c * (x \div c) + (x % c) /\ x % c \in 0 .. c - 1 /\ x \div c \in Int
  OBVIOUS
<1>2. PICK q \in Int, r \in 0 .. c - 1 : q = x \div c /\ r = x % c /\ x = c * q + r
  BY <1>1
<1>3. x + c = c * ((x + c) \div c) + ((x + c) % c) /\ (x + c) % c \in 0 .. c - 1
      /\ (x + c) \div c \in Int
  OBVIOUS
<1>4. PICK t \in Int, u \in 0 .. c - 1 : t = (x + c) \div c /\ u = (x + c) % c /\ x + c = c * t + u
  BY <1>3
<1>5. c * q + r + c = c * t + u
  BY <1>2, <1>4
<1>6. c * (q + 1 - t) = u - r
  BY <1>5
<1>7. q + 1 - t = 0
  <2> DEFINE z == q + 1 - t
  <2>1. z \in Int /\ c * z = u - r
    BY <1>6
  <2> HIDE DEF z
  <2>2. CASE z >= 1
    <3>1. c * z >= c
      BY <2>1, <2>2
    <3> QED
      BY <3>1, <2>1
  <2>3. CASE z <= -1
    <3>1. c * z <= -c
      BY <2>1, <2>3
    <3> QED
      BY <3>1, <2>1
  <2>4. z = 0
    BY <2>1, <2>2, <2>3
  <2> QED
    BY <2>4 DEF z
<1>8. u = r
  <2>1. c * (q + 1 - t) = 0
    BY <1>7
  <2> QED
    BY <2>1, <1>6
<1> QED
  BY <1>2, <1>4, <1>8

\* The four parallel vectors of the correction, as load_phi_modulation() works on them.
Loaded == [eta |-> etaMins, phi |-> phiMins, mod |-> modulation, shift |-> shifts]
\* They are equally long, and the borders ascend.
Shaped(v) ==
  /\ v.eta \in Seq(Int) /\ v.phi \in Seq(Seq(Int)) /\ v.mod \in Seq(Seq(Int))
  /\ v.shift \in Seq(Int)
  /\ Len(v.phi) = Len(v.eta) /\ Len(v.mod) = Len(v.eta) /\ Len(v.shift) = Len(v.eta)
  /\ Ascends(v.eta)
\* The k-th interval is the range of a load, and holds what was in its file.
RangeAt(v, k, l) == k < Len(v.eta) /\ v.eta[k] = l.min /\ v.eta[k + 1] = l.max
HoldsAt(v, k, l) == v.phi[k] = l.edges /\ v.mod[k] = l.values /\ v.shift[k] = l.shift
\* Every load has an interval of its range, with its bins if its file was read; an
\* interval with bins has them from a load; a border is there for a load.
LoadsHaveRanges(v, ls) ==
  \A j \in 1 .. Len(ls) :
    \E k \in 1 .. Len(v.eta) : RangeAt(v, k, ls[j]) /\ (ls[j].opens => HoldsAt(v, k, ls[j]))
RangesHaveLoads(v, ls) ==
  \A k \in 1 .. Len(v.eta) :
    \/ v.phi[k] = <<>> /\ v.mod[k] = <<>>
    \/ \E j \in 1 .. Len(ls) : ls[j].opens /\ RangeAt(v, k, ls[j]) /\ HoldsAt(v, k, ls[j])
BordersHaveLoads(v, ls) ==
  \A k \in 1 .. Len(v.eta) :
    \E j \in 1 .. Len(ls) : v.eta[k] = ls[j].min \/ v.eta[k] = ls[j].max
\* What is true of the loads ls while the borders for a further one are put in.
Kept(v, ls, more) ==
  LoadsHaveRanges(v, ls) /\ RangesHaveLoads(v, ls) /\ BordersHaveLoads(v, more)
\* The inductive invariant of the modulation: as long as the loads do not overlap.
ModulationInv ==
  /\ loads \in Seq(Loads) /\ Shaped(Loaded)
  /\ loads = <<>> <=> etaMins = <<>>
  /\ Apart =>
       /\ LoadsHaveRanges(Loaded, loads) /\ RangesHaveLoads(Loaded, loads)
       /\ BordersHaveLoads(Loaded, loads)
  /\ ModulationOfItsRange

\* A load goes with the earlier ones.
ApartFrom(ls, l) ==
  \A j \in 1 .. Len(ls) :
    \/ ls[j].max <= l.min \/ l.max <= ls[j].min
    \/ SameRange(ls[j], l) /\ ~ls[j].opens

\* Where the k-th entry is after one was put at p.
MovedBy(p, k) == IF k < p THEN k ELSE k + 1
\* A border put between its neighbours keeps the vectors in order and in step.
LEMMA InsertShaped ==
  ASSUME NEW v, Shaped(v), NEW p \in 1 .. Len(v.eta) + 1, NEW x \in Int,
         p > 1 => v.eta[p - 1] < x, p <= Len(v.eta) => x < v.eta[p],
         NEW w, w = InsertBorder(v, p, x)
  PROVE  /\ Shaped(w) /\ Len(w.eta) = Len(v.eta) + 1
         /\ w.eta[p] = x /\ w.phi[p] = <<>> /\ w.mod[p] = <<>>
         /\ \A k \in 1 .. Len(v.eta) :
              /\ w.eta[MovedBy(p, k)] = v.eta[k] /\ w.phi[MovedBy(p, k)] = v.phi[k]
              /\ w.mod[MovedBy(p, k)] = v.mod[k] /\ w.shift[MovedBy(p, k)] = v.shift[k]
<1> DEFINE n == Len(v.eta)
<1>1. /\ v.eta \in Seq(Int) /\ v.phi \in Seq(Seq(Int)) /\ v.mod \in Seq(Seq(Int))
      /\ v.shift \in Seq(Int)
      /\ Len(v.phi) = n /\ Len(v.mod) = n /\ Len(v.shift) = n /\ Ascends(v.eta)
  BY DEF Shaped
<1>2. /\ w.eta = InsertAt(v.eta, p, x) /\ w.phi = InsertAt(v.phi, p, <<>>)
      /\ w.mod = InsertAt(v.mod, p, <<>>) /\ w.shift = InsertAt(v.shift, p, -1)
  BY DEF InsertBorder
<1>3. PICK e \in Seq(Int) : e = v.eta
  BY <1>1
<1>4. PICK f \in Seq(Seq(Int)) : f = v.phi
  BY <1>1
<1>5. PICK g \in Seq(Seq(Int)) : g = v.mod
  BY <1>1
<1>6. PICK h \in Seq(Int) : h = v.shift
  BY <1>1
<1>7. /\ Len(e) = n /\ Len(f) = n /\ Len(g) = n /\ Len(h) = n
      /\ n \in Nat /\ p \in 1 .. n + 1 /\ p \in Int
  BY <1>1, <1>3, <1>4, <1>5, <1>6
<1>8. /\ Ascends(e)
      /\ p > 1 => e[p - 1] < x
      /\ p <= n => x < e[p]
  BY <1>1, <1>3
<1>14. /\ w.eta = InsertAt(e, p, x) /\ w.phi = InsertAt(f, p, <<>>)
       /\ w.mod = InsertAt(g, p, <<>>) /\ w.shift = InsertAt(h, p, -1)
  BY <1>2, <1>3, <1>4, <1>5, <1>6
<1> HIDE DEF n
<1>20. <<>> \in Seq(Int)
  OBVIOUS
<1>15. /\ w.eta \in Seq(Int) /\ Len(w.eta) = n + 1
       /\ \A k \in 1 .. n + 1 : w.eta[k] = IF k < p THEN e[k] ELSE IF k = p THEN x ELSE e[k - 1]
  <2>1. p \in 1 .. Len(e) + 1 /\ e \in Seq(Int) /\ x \in Int
    BY <1>7, <1>20
  <2>2. /\ InsertAt(e, p, x) \in Seq(Int) /\ Len(InsertAt(e, p, x)) = Len(e) + 1
        /\ \A k \in 1 .. Len(e) + 1 :
             InsertAt(e, p, x)[k] = IF k < p THEN e[k] ELSE IF k = p THEN x ELSE e[k - 1]
    <3>1. PICK S : S = Int
      OBVIOUS
    <3>4. PICK y \in S : y = x
      BY <2>1, <3>1
    <3>2. e \in Seq(S)
      BY <2>1, <3>1
    <3>3. /\ InsertAt(e, p, y) \in Seq(S) /\ Len(InsertAt(e, p, y)) = Len(e) + 1
          /\ \A k \in 1 .. Len(e) + 1 :
               InsertAt(e, p, y)[k] = IF k < p THEN e[k] ELSE IF k = p THEN y ELSE e[k - 1]
      BY <2>1, <3>2, InsertedAt
    <3> QED
      BY <3>1, <3>3, <3>4
  <2> QED
    BY <2>2, <1>7, <1>14
<1>16. /\ w.phi \in Seq(Seq(Int)) /\ Len(w.phi) = n + 1
       /\ \A k \in 1 .. n + 1 : w.phi[k] = IF k < p THEN f[k] ELSE IF k = p THEN <<>> ELSE f[k - 1]
  <2>1. p \in 1 .. Len(f) + 1 /\ f \in Seq(Seq(Int)) /\ <<>> \in Seq(Int)
    BY <1>7, <1>20
  <2>2. /\ InsertAt(f, p, <<>>) \in Seq(Seq(Int)) /\ Len(InsertAt(f, p, <<>>)) = Len(f) + 1
        /\ \A k \in 1 .. Len(f) + 1 :
             InsertAt(f, p, <<>>)[k] = IF k < p THEN f[k] ELSE IF k = p THEN <<>> ELSE f[k - 1]
    <3>1. PICK S : S = Seq(Int)
      OBVIOUS
    <3>4. PICK y \in S : y = <<>>
      BY <2>1, <3>1
    <3>2. f \in Seq(S)
      BY <2>1, <3>1
    <3>3. /\ InsertAt(f, p, y) \in Seq(S) /\ Len(InsertAt(f, p, y)) = Len(f) + 1
          /\ \A k \in 1 .. Len(f) + 1 :
               InsertAt(f, p, y)[k] = IF k < p THEN f[k] ELSE IF k = p THEN y ELSE f[k - 1]
      BY <2>1, <3>2, InsertedAt
    <3> QED
      BY <3>1, <3>3, <3>4
  <2> QED
    BY <2>2, <1>7, <1>14
<1>17. /\ w.mod \in Seq(Seq(Int)) /\ Len(w.mod) = n + 1
       /\ \A k \in 1 .. n + 1 : w.mod[k] = IF k < p THEN g[k] ELSE IF k = p THEN <<>> ELSE g[k - 1]
  <2>1. p \in 1 .. Len(g) + 1 /\ g \in Seq(Seq(Int)) /\ <<>> \in Seq(Int)
    BY <1>7, <1>20
  <2>2. /\ InsertAt(g, p, <<>>) \in Seq(Seq(Int)) /\ Len(InsertAt(g, p, <<>>)) = Len(g) + 1
        /\ \A k \in 1 .. Len(g) + 1 :
             InsertAt(g, p, <<>>)[k] = IF k < p THEN g[k] ELSE IF k = p THEN <<>> ELSE g[k - 1]
    <3>1. PICK S : S = Seq(Int)
      OBVIOUS
    <3>4. PICK y \in S : y = <<>>
      BY <2>1, <3>1
    <3>2. g \in Seq(S)
      BY <2>1, <3>1
    <3>3. /\ InsertAt(g, p, y) \in Seq(S) /\ Len(InsertAt(g, p, y)) = Len(g) + 1
          /\ \A k \in 1 .. Len(g) + 1 :
               InsertAt(g, p, y)[k] = IF k < p THEN g[k] ELSE IF k = p THEN y ELSE g[k - 1]
      BY <2>1, <3>2, InsertedAt
    <3> QED
      BY <3>1, <3>3, <3>4
  <2> QED
    BY <2>2, <1>7, <1>14
<1>18. /\ w.shift \in Seq(Int) /\ Len(w.shift) = n + 1
       /\ \A k \in 1 .. n + 1 : w.shift[k] = IF k < p THEN h[k] ELSE IF k = p THEN -1 ELSE h[k - 1]
  <2>1. p \in 1 .. Len(h) + 1 /\ h \in Seq(Int) /\ -1 \in Int
    BY <1>7, <1>20
  <2>2. /\ InsertAt(h, p, -1) \in Seq(Int) /\ Len(InsertAt(h, p, -1)) = Len(h) + 1
        /\ \A k \in 1 .. Len(h) + 1 :
             InsertAt(h, p, -1)[k] = IF k < p THEN h[k] ELSE IF k = p THEN -1 ELSE h[k - 1]
    <3>1. PICK S : S = Int
      OBVIOUS
    <3>4. PICK y \in S : y = -1
      BY <2>1, <3>1
    <3>2. h \in Seq(S)
      BY <2>1, <3>1
    <3>3. /\ InsertAt(h, p, y) \in Seq(S) /\ Len(InsertAt(h, p, y)) = Len(h) + 1
          /\ \A k \in 1 .. Len(h) + 1 :
               InsertAt(h, p, y)[k] = IF k < p THEN h[k] ELSE IF k = p THEN y ELSE h[k - 1]
      BY <2>1, <3>2, InsertedAt
    <3> QED
      BY <3>1, <3>3, <3>4
  <2> QED
    BY <2>2, <1>7, <1>14
<1>9. \A k \in 1 .. n : e[k] \in Int /\ (k < p => e[k] < x) /\ (k >= p => x < e[k])
  <2> TAKE k \in 1 .. n
  <2>1. e[k] \in Int
    BY <1>7
  <2>2. ASSUME k < p PROVE e[k] < x
    <3>1. p - 1 \in 1 .. n /\ p > 1
      BY <2>2, <1>7
    <3>2. e[p - 1] \in Int /\ e[p - 1] < x
      BY <3>1, <1>7, <1>8
    <3>3. k = p - 1 \/ k < p - 1
      BY <2>2, <1>7
    <3>4. k < p - 1 => e[k] < e[p - 1]
      BY <3>1, <1>7, <1>8 DEF Ascends
    <3> QED
      BY <3>2, <3>3, <3>4, <2>1
  <2>3. ASSUME k >= p PROVE x < e[k]
    <3>1. p \in 1 .. n /\ p <= n
      BY <2>3, <1>7
    <3>2. e[p] \in Int /\ x < e[p]
      BY <3>1, <1>7, <1>8
    <3>3. k = p \/ p < k
      BY <2>3, <1>7
    <3>4. p < k => e[p] < e[k]
      BY <3>1, <1>7, <1>8 DEF Ascends
    <3> QED
      BY <3>2, <3>3, <3>4, <2>1
  <2> QED
    BY <2>1, <2>2, <2>3
<1>10. Ascends(w.eta)
  <2> SUFFICES ASSUME NEW k \in 1 .. n + 1, NEW m \in 1 .. n + 1, k < m
               PROVE  w.eta[k] < w.eta[m]
    BY <1>15 DEF Ascends
  <2>5. /\ k \in Int /\ m \in Int /\ p \in Int /\ n \in Nat /\ k < m
        /\ 1 <= k /\ k <= n + 1 /\ 1 <= m /\ m <= n + 1 /\ 1 <= p /\ p <= n + 1
    BY <1>7
  <2>1. CASE m < p
    <3>1. k \in 1 .. n /\ m \in 1 .. n /\ k < p
      BY <2>1, <2>5, SMTT(30)
    <3>2. w.eta[k] = e[k] /\ w.eta[m] = e[m]
      BY <3>1, <2>1, <1>15
    <3> QED
      BY <3>1, <3>2, <1>7, <1>8 DEF Ascends
  <2>2. CASE m = p
    <3>1. k \in 1 .. n /\ k < p
      BY <2>2, <1>7
    <3>3. ~(m < p) /\ k \in 1 .. n + 1
      BY <2>2, <1>7
    <3>2. w.eta[k] = e[k] /\ w.eta[m] = x
      BY <3>1, <3>3, <2>2, <1>15
    <3> QED
      BY <3>1, <3>2, <1>9
  <2>3. CASE m > p
    <3>1. m - 1 \in 1 .. n /\ m - 1 >= p /\ ~(m < p) /\ m # p
      BY <2>3, <1>7
    <3>2. w.eta[m] = e[m - 1]
      BY <3>1, <1>15
    <3>3. CASE k < p
      <4>4. k \in 1 .. n
        BY <3>3, <2>5
      <4>1. k \in 1 .. n /\ w.eta[k] = e[k]
        BY <3>3, <4>4, <1>15
      <4>2. e[k] \in Int /\ e[k] < x
        BY <4>1, <3>3, <1>9
      <4>3. e[m - 1] \in Int /\ x < e[m - 1]
        BY <3>1, <1>9
      <4> QED
        BY <4>1, <4>2, <4>3, <3>2
    <3>4. CASE k = p
      <4>2. ~(k < p)
        BY <3>4, <1>7
      <4>1. w.eta[k] = x
        BY <3>4, <4>2, <1>15
      <4> QED
        BY <4>1, <3>1, <3>2, <1>9
    <3>5. CASE k > p
      <4>1. k - 1 \in 1 .. n /\ k - 1 < m - 1 /\ ~(k < p) /\ k # p
        BY <3>5, <2>5, SMTT(30)
      <4>2. w.eta[k] = e[k - 1]
        BY <4>1, <1>15
      <4> QED
        BY <4>1, <4>2, <3>1, <3>2, <1>7, <1>8 DEF Ascends
    <3>6. k < p \/ k = p \/ k > p
      BY <1>7
    <3> QED
      BY <3>3, <3>4, <3>5, <3>6
  <2>4. m < p \/ m = p \/ m > p
    BY <1>7
  <2> QED
    BY <2>1, <2>2, <2>3, <2>4
<1>11. Shaped(w)
  BY <1>15, <1>16, <1>17, <1>18, <1>10 DEF Shaped
<1>12. w.eta[p] = x /\ w.phi[p] = <<>> /\ w.mod[p] = <<>>
  <2>1. ~(p < p) /\ p \in 1 .. n + 1
    BY <1>7
  <2>2. w.eta[p] = x
    BY <2>1, <1>15
  <2>3. w.phi[p] = <<>>
    BY <2>1, <1>16
  <2>4. w.mod[p] = <<>>
    BY <2>1, <1>17
  <2> QED
    BY <2>2, <2>3, <2>4
<1>13. ASSUME NEW k \in 1 .. n
       PROVE  /\ w.eta[MovedBy(p, k)] = e[k] /\ w.phi[MovedBy(p, k)] = f[k]
              /\ w.mod[MovedBy(p, k)] = g[k] /\ w.shift[MovedBy(p, k)] = h[k]
  <2>1. CASE k < p
    <3>1. k \in 1 .. n + 1
      BY <1>7
    <3> QED
      BY <3>1, <2>1, <1>15, <1>16, <1>17, <1>18 DEF MovedBy
  <2>2. CASE ~(k < p)
    <3>1. k + 1 \in 1 .. n + 1 /\ ~(k + 1 < p) /\ k + 1 # p /\ (k + 1) - 1 = k
      BY <2>2, <1>7
    <3> QED
      BY <3>1, <2>2, <1>15, <1>16, <1>17, <1>18 DEF MovedBy
  <2> QED
    BY <2>1, <2>2
<1> QED
  BY <1>3, <1>4, <1>5, <1>6, <1>15, <1>11, <1>12, <1>13 DEF n

\* ... and splits no range when its interval is none.
LEMMA InsertKept ==
  ASSUME NEW v, Shaped(v), NEW p \in 1 .. Len(v.eta) + 1, NEW x \in Int,
         p > 1 => v.eta[p - 1] < x, p <= Len(v.eta) => x < v.eta[p],
         NEW ls, NEW more, Kept(v, ls, more),
         \E j \in 1 .. Len(more) : x = more[j].min \/ x = more[j].max,
         p > 1 => \A j \in 1 .. Len(ls) : ~RangeAt(v, p - 1, ls[j]),
         NEW w, w = InsertBorder(v, p, x)
  PROVE  Kept(w, ls, more)
<1> DEFINE n == Len(v.eta)
           Moved(k) == MovedBy(p, k)
<1>1. /\ Shaped(w) /\ Len(w.eta) = n + 1
      /\ w.eta[p] = x /\ w.phi[p] = <<>> /\ w.mod[p] = <<>>
      /\ \A k \in 1 .. n :
           /\ w.eta[Moved(k)] = v.eta[k] /\ w.phi[Moved(k)] = v.phi[k]
           /\ w.mod[Moved(k)] = v.mod[k] /\ w.shift[Moved(k)] = v.shift[k]
  BY InsertShaped
<1>2. n \in Nat /\ p \in 1 .. n + 1 /\ p \in Int
  BY DEF Shaped
<1> HIDE DEF n
<1>8. \A k \in 1 .. n : Moved(k) = IF k < p THEN k ELSE k + 1
  BY DEF MovedBy
<1> HIDE DEF Moved
<1>3. ASSUME NEW k \in 1 .. n, NEW j \in 1 .. Len(ls), RangeAt(v, k, ls[j])
      PROVE  /\ Moved(k) \in 1 .. n + 1 /\ RangeAt(w, Moved(k), ls[j])
             /\ HoldsAt(v, k, ls[j]) => HoldsAt(w, Moved(k), ls[j])
  <2>1. k + 1 \in 1 .. n /\ v.eta[k] = ls[j].min /\ v.eta[k + 1] = ls[j].max
    BY <1>2, <1>3 DEF RangeAt, n
  <2>2. k # p - 1
    BY <1>3, <2>1, <1>2
  <2>3. Moved(k + 1) = Moved(k) + 1 /\ Moved(k) \in 1 .. n + 1 /\ Moved(k) < n + 1
    <3>1. /\ Moved(k) = IF k < p THEN k ELSE k + 1
          /\ Moved(k + 1) = IF k + 1 < p THEN k + 1 ELSE (k + 1) + 1
      BY <2>1, <1>8
    <3>2. k \in Int /\ p \in Int /\ n \in Nat /\ 1 <= k /\ k + 1 <= n /\ k # p - 1
      BY <2>1, <2>2, <1>2
    <3>3. CASE k < p
      <4>1. k + 1 < p
        BY <3>2, <3>3
      <4> QED
        BY <4>1, <3>1, <3>2, <3>3
    <3>4. CASE ~(k < p)
      <4>1. ~(k + 1 < p)
        BY <3>2, <3>4
      <4> QED
        BY <4>1, <3>1, <3>2, <3>4
    <3> QED
      BY <3>3, <3>4
  <2>4. w.eta[Moved(k)] = ls[j].min /\ w.eta[Moved(k + 1)] = ls[j].max
    BY <2>1, <1>1
  <2>5. RangeAt(w, Moved(k), ls[j])
    BY <2>3, <2>4, <1>1 DEF RangeAt
  <2>6. HoldsAt(v, k, ls[j]) => HoldsAt(w, Moved(k), ls[j])
    BY <1>1 DEF HoldsAt
  <2> QED
    BY <2>3, <2>5, <2>6
<1>4. LoadsHaveRanges(w, ls)
  <2> SUFFICES ASSUME NEW j \in 1 .. Len(ls)
               PROVE  \E k \in 1 .. n + 1 : RangeAt(w, k, ls[j]) /\ (ls[j].opens => HoldsAt(w, k, ls[j]))
    BY <1>1 DEF LoadsHaveRanges
  <2>1. PICK k \in 1 .. n : RangeAt(v, k, ls[j]) /\ (ls[j].opens => HoldsAt(v, k, ls[j]))
    BY DEF Kept, LoadsHaveRanges, n
  <2>2. /\ Moved(k) \in 1 .. n + 1 /\ RangeAt(w, Moved(k), ls[j])
        /\ HoldsAt(v, k, ls[j]) => HoldsAt(w, Moved(k), ls[j])
    BY <1>3, <2>1
  <2> QED
    BY <2>1, <2>2
<1>5. ASSUME NEW m \in 1 .. n + 1
      PROVE  m = p \/ \E k \in 1 .. n : m = Moved(k)
  <2>1. CASE m < p
    <3>1. m \in 1 .. n /\ Moved(m) = m
      BY <2>1, <1>2, <1>8
    <3> QED
      BY <3>1
  <2>2. CASE m > p
    <3>1. m - 1 \in 1 .. n /\ Moved(m - 1) = m
      BY <2>2, <1>2, <1>8
    <3> QED
      BY <3>1
  <2>3. m < p \/ m = p \/ m > p
    BY <1>2
  <2> QED
    BY <2>1, <2>2, <2>3, Zenon
<1>6. RangesHaveLoads(w, ls)
  <2> SUFFICES ASSUME NEW m \in 1 .. n + 1
               PROVE  \/ w.phi[m] = <<>> /\ w.mod[m] = <<>>
                      \/ \E j \in 1 .. Len(ls) : ls[j].opens /\ RangeAt(w, m, ls[j]) /\ HoldsAt(w, m, ls[j])
    BY <1>1 DEF RangesHaveLoads
  <2>1. CASE m = p
    BY <2>1, <1>1
  <2>2. ASSUME NEW k \in 1 .. n, m = Moved(k)
        PROVE  \/ w.phi[m] = <<>> /\ w.mod[m] = <<>>
               \/ \E j \in 1 .. Len(ls) : ls[j].opens /\ RangeAt(w, m, ls[j]) /\ HoldsAt(w, m, ls[j])
    <3>1. CASE v.phi[k] = <<>> /\ v.mod[k] = <<>>
      BY <3>1, <2>2, <1>1
    <3>2. ASSUME NEW j \in 1 .. Len(ls), ls[j].opens, RangeAt(v, k, ls[j]), HoldsAt(v, k, ls[j])
          PROVE  RangeAt(w, m, ls[j]) /\ HoldsAt(w, m, ls[j])
      BY <3>2, <2>2, <1>3
    <3> QED
      BY <3>1, <3>2 DEF Kept, RangesHaveLoads, n
  <2> QED
    BY <2>1, <2>2, <1>5
<1>7. BordersHaveLoads(w, more)
  <2> SUFFICES ASSUME NEW m \in 1 .. n + 1
               PROVE  \E j \in 1 .. Len(more) : w.eta[m] = more[j].min \/ w.eta[m] = more[j].max
    BY <1>1 DEF BordersHaveLoads
  <2>1. CASE m = p
    BY <2>1, <1>1
  <2>2. ASSUME NEW k \in 1 .. n, m = Moved(k)
        PROVE  \E j \in 1 .. Len(more) : w.eta[m] = more[j].min \/ w.eta[m] = more[j].max
    <3>1. w.eta[m] = v.eta[k]
      BY <2>2, <1>1
    <3> QED
      BY <3>1 DEF Kept, BordersHaveLoads, n
  <2> QED
    BY <2>1, <2>2, <1>5
<1> QED
  BY <1>4, <1>6, <1>7 DEF Kept

\* One of the loads.
HasLoad(more, l) == \E j \in 1 .. Len(more) : more[j] = l

\* The first borders, and one below the first.
LEMMA StartedKept ==
  ASSUME NEW v, Shaped(v), NEW l, LoadAssumption(l), NEW ls, NEW more,
         NEW u, u = Started(v, l)
  PROVE  /\ Shaped(u) /\ Len(u.eta) >= 1 /\ u.eta[1] <= l.min
         /\ /\ Kept(v, ls, more) /\ HasLoad(more, l)
            /\ v.eta = <<>> => Len(ls) = 0
            => Kept(u, ls, more)
<1>1. l.min \in Int /\ l.max \in Int /\ l.min < l.max
  BY DEF LoadAssumption
<1>2. v.eta \in Seq(Int)
  BY DEF Shaped
<1>3. HasLoad(more, l) =>
        /\ \E j \in 1 .. Len(more) : l.min = more[j].min \/ l.min = more[j].max
        /\ \E j \in 1 .. Len(more) : l.max = more[j].min \/ l.max = more[j].max
  BY DEF HasLoad
<1>4. CASE v.eta = <<>>
  <2>1. PICK a : a = InsertBorder(v, 1, l.min)
    OBVIOUS
  <2>2. 1 \in 1 .. Len(v.eta) + 1 /\ ~(1 > 1) /\ ~(1 <= Len(v.eta)) /\ Len(v.eta) = 0
    BY <1>4
  <2>3. Shaped(a) /\ Len(a.eta) = 1 /\ a.eta[1] = l.min
    <3>1. PICK p \in 1 .. Len(v.eta) + 1 : p = 1
      BY <2>2
    <3>2. a = InsertBorder(v, p, l.min) /\ ~(p > 1) /\ ~(p <= Len(v.eta))
      BY <2>1, <2>2, <3>1
    <3>3. Shaped(a) /\ Len(a.eta) = Len(v.eta) + 1 /\ a.eta[p] = l.min
      BY <1>1, <3>2, InsertShaped
    <3> QED
      BY <3>1, <3>3, <2>2
  <2>4. PICK b : b = InsertBorder(a, 2, l.max)
    OBVIOUS
  <2>5. 2 \in 1 .. Len(a.eta) + 1 /\ a.eta[2 - 1] < l.max /\ ~(2 <= Len(a.eta))
    BY <1>1, <2>3
  <2>6. Shaped(b) /\ Len(b.eta) = 2 /\ b.eta[MovedBy(2, 1)] = a.eta[1]
    <3>1. PICK p \in 1 .. Len(a.eta) + 1 : p = 2
      BY <2>5
    <3>2. b = InsertBorder(a, p, l.max) /\ a.eta[p - 1] < l.max /\ ~(p <= Len(a.eta))
      BY <2>4, <2>5, <3>1
    <3>3. /\ Shaped(b) /\ Len(b.eta) = Len(a.eta) + 1
          /\ \A k \in 1 .. Len(a.eta) : b.eta[MovedBy(p, k)] = a.eta[k]
      <4>1. p <= Len(a.eta) => l.max < a.eta[p]
        BY <3>2
      <4>2. p > 1 => a.eta[p - 1] < l.max
        BY <3>2
      <4>3. Shaped(a) /\ l.max \in Int
        BY <1>1, <2>3
      <4> QED
        BY <3>2, <4>1, <4>2, <4>3, InsertShaped
    <3>4. 1 \in 1 .. Len(a.eta)
      BY <2>3
    <3> QED
      BY <3>1, <3>3, <3>4, <2>3
  <2>7. b.eta[1] = l.min
    BY <2>3, <2>6 DEF MovedBy
  <2>8. u = b
    <3>1. AppendBorder(v, l.min) = a
      BY <2>1, <2>2 DEF AppendBorder
    <3>2. AppendBorder(a, l.max) = b
      BY <2>3, <2>4 DEF AppendBorder
    <3> QED
      BY <3>1, <3>2, <1>1, <1>4, <2>7 DEF Started
  <2>9. ASSUME Kept(v, ls, more), HasLoad(more, l), Len(ls) = 0
        PROVE  Kept(u, ls, more)
    <3>1. Kept(a, ls, more)
      BY <1>1, <1>3, <2>1, <2>2, <2>9, InsertKept
    <3>2. \A j \in 1 .. Len(ls) : FALSE
      BY <2>9
    <3>3. Kept(b, ls, more)
      BY <1>1, <1>3, <2>3, <2>4, <2>5, <2>9, <3>1, <3>2, InsertKept
    <3> QED
      BY <3>3, <2>8
  <2> QED
    BY <1>1, <1>4, <2>6, <2>7, <2>8, <2>9
<1>5. CASE v.eta # <<>> /\ v.eta[1] > l.min
  <2>1. u = InsertBorder(v, 1, l.min)
    BY <1>5 DEF Started
  <2>2. 1 \in 1 .. Len(v.eta) + 1 /\ ~(1 > 1) /\ l.min < v.eta[1] /\ Len(v.eta) \in Nat
        /\ Len(v.eta) >= 1
    BY <1>1, <1>2, <1>5
  <2>3. Shaped(u) /\ Len(u.eta) = Len(v.eta) + 1 /\ u.eta[1] = l.min
    BY <1>1, <2>1, <2>2, InsertShaped
  <2>4. ASSUME Kept(v, ls, more), HasLoad(more, l)
        PROVE  Kept(u, ls, more)
    BY <1>1, <1>3, <2>1, <2>2, <2>4, InsertKept
  <2> QED
    BY <1>1, <2>2, <2>3, <2>4
<1>6. CASE v.eta # <<>> /\ ~(v.eta[1] > l.min)
  <2>1. u = v
    BY <1>6 DEF Started
  <2>2. Len(v.eta) >= 1 /\ v.eta[1] \in Int
    BY <1>2, <1>6
  <2> QED
    BY <1>1, <1>6, <2>1, <2>2
<1> QED
  BY <1>4, <1>5, <1>6

\* The lower border of the range: apart from the others, it splits none.
LEMMA LowerKept ==
  ASSUME NEW u, Shaped(u), NEW l, LoadAssumption(l), NEW ls, NEW more,
         Len(u.eta) >= 1, u.eta[1] <= l.min,
         NEW i, i = IndexIn(u.eta, l.min),
         NEW c, c = IF u.eta[i] < l.min THEN InsertBorder(u, i + 1, l.min) ELSE u,
         NEW at, at = IF u.eta[i] < l.min THEN i + 1 ELSE i
  PROVE  /\ Shaped(c) /\ at \in 1 .. Len(c.eta) /\ c.eta[at] = l.min
         /\ /\ Kept(u, ls, more) /\ HasLoad(more, l) /\ ApartFrom(ls, l)
            /\ \A j \in 1 .. Len(ls) : LoadAssumption(ls[j])
            => Kept(c, ls, more)
<1>1. l.min \in Int /\ l.max \in Int /\ l.min < l.max
  BY DEF LoadAssumption
<1>2. u.eta \in Seq(Int) /\ Ascends(u.eta) /\ Len(u.eta) \in Nat
  BY DEF Shaped
<1>3. i \in 0 .. Len(u.eta) /\ \A k \in 1 .. Len(u.eta) : k <= i <=> u.eta[k] <= l.min
  <2>1. PICK s \in Seq(Int) : s = u.eta
    BY <1>2
  <2>2. PICK x \in Int : x = l.min
    BY <1>1
  <2>3. IndexIn(s, x) \in 0 .. Len(s) /\ \A k \in 1 .. Len(s) : k <= IndexIn(s, x) <=> s[k] <= x
    BY <2>1, <1>2, IndexOfValue
  <2> QED
    BY <2>1, <2>2, <2>3
<1>4. i \in 1 .. Len(u.eta) /\ u.eta[i] \in Int /\ u.eta[i] <= l.min
  <2>1. 1 \in 1 .. Len(u.eta)
    BY <1>2
  <2>2. 1 <= i
    BY <2>1, <1>3
  <2>3. i \in 1 .. Len(u.eta)
    BY <2>2, <1>3
  <2>4. i <= i
    BY <2>3
  <2> QED
    BY <2>3, <2>4, <1>2, <1>3
<1>5. i + 1 <= Len(u.eta) => u.eta[i + 1] \in Int /\ l.min < u.eta[i + 1]
  <2> SUFFICES ASSUME i + 1 <= Len(u.eta)
               PROVE  u.eta[i + 1] \in Int /\ l.min < u.eta[i + 1]
    OBVIOUS
  <2>1. i + 1 \in 1 .. Len(u.eta) /\ ~(i + 1 <= i)
    BY <1>4
  <2>2. u.eta[i + 1] \in Int /\ ~(u.eta[i + 1] <= l.min)
    BY <2>1, <1>2, <1>3
  <2> QED
    BY <2>2, <1>1
<1>6. CASE u.eta[i] < l.min
  <2>1. c = InsertBorder(u, i + 1, l.min) /\ at = i + 1
    BY <1>6
  <2>2. i + 1 \in 1 .. Len(u.eta) + 1 /\ i + 1 > 1 /\ u.eta[(i + 1) - 1] < l.min
    BY <1>4, <1>6
  <2>3. Shaped(c) /\ Len(c.eta) = Len(u.eta) + 1 /\ c.eta[i + 1] = l.min
    BY <1>1, <1>5, <2>1, <2>2, InsertShaped
  <2>4. ASSUME Kept(u, ls, more), HasLoad(more, l), ApartFrom(ls, l),
               \A j \in 1 .. Len(ls) : LoadAssumption(ls[j])
        PROVE  Kept(c, ls, more)
    <3>1. ASSUME NEW j \in 1 .. Len(ls), RangeAt(u, (i + 1) - 1, ls[j])
          PROVE  FALSE
      <4>1. (i + 1) - 1 = i
        BY <1>4
      <4>2. i < Len(u.eta) /\ u.eta[i] = ls[j].min /\ u.eta[i + 1] = ls[j].max
        BY <3>1, <4>1 DEF RangeAt
      <4>3. ls[j].min < l.min /\ l.min < ls[j].max
        BY <4>2, <1>4, <1>5, <1>6
      <4>4. ls[j].min \in Int /\ ls[j].max \in Int
        BY <2>4 DEF LoadAssumption
      <4>5. ls[j].max <= l.min \/ l.max <= ls[j].min \/ ls[j].min = l.min
        BY <2>4 DEF ApartFrom, SameRange
      <4> QED
        BY <1>1, <4>3, <4>4, <4>5
    <3>2. \E j \in 1 .. Len(more) : l.min = more[j].min \/ l.min = more[j].max
      BY <2>4 DEF HasLoad
    <3>3. \A j \in 1 .. Len(ls) : ~RangeAt(u, (i + 1) - 1, ls[j])
      BY <3>1
    <3> QED
      BY <1>1, <1>5, <2>1, <2>2, <2>4, <3>2, <3>3, InsertKept
  <2> QED
    BY <1>2, <2>1, <2>2, <2>3, <2>4
<1>7. CASE ~(u.eta[i] < l.min)
  <2>1. c = u /\ at = i
    BY <1>7
  <2>2. u.eta[i] = l.min
    BY <1>1, <1>4, <1>7
  <2> QED
    BY <2>1, <2>2, <1>4
<1> QED
  BY <1>6, <1>7

\* The upper border: it splits none either, and when it is not put in, it is there,
\* since no border of another load lies inside the range.
LEMMA UpperKept ==
  ASSUME NEW c, Shaped(c), NEW l, LoadAssumption(l), NEW ls, NEW more,
         NEW at \in 1 .. Len(c.eta), c.eta[at] = l.min,
         NEW d, d = IF at = Len(c.eta) \/ c.eta[at + 1] > l.max
                    THEN InsertBorder(c, at + 1, l.max) ELSE c
  PROVE  /\ Shaped(d) /\ at \in 1 .. Len(d.eta)
         /\ /\ Kept(c, ls, more) /\ HasLoad(more, l) /\ ApartFrom(ls, l)
            /\ \A j \in 1 .. Len(ls) : LoadAssumption(ls[j])
            /\ \A j \in 1 .. Len(more) : more[j] = l \/ HasLoad(ls, more[j])
            => Kept(d, ls, more) /\ RangeAt(d, at, l)
<1>1. l.min \in Int /\ l.max \in Int /\ l.min < l.max
  BY DEF LoadAssumption
<1>2. c.eta \in Seq(Int) /\ Ascends(c.eta) /\ Len(c.eta) \in Nat /\ at \in Nat \ {0}
      /\ at <= Len(c.eta)
  <2>1. c.eta \in Seq(Int) /\ Ascends(c.eta)
    BY DEF Shaped
  <2>2. Len(c.eta) \in Nat
    BY <2>1
  <2> QED
    BY <2>1, <2>2
<1>3. at < Len(c.eta) => at + 1 \in 1 .. Len(c.eta) /\ c.eta[at + 1] \in Int /\ l.min < c.eta[at + 1]
  <2> SUFFICES ASSUME at < Len(c.eta)
               PROVE  at + 1 \in 1 .. Len(c.eta) /\ c.eta[at + 1] \in Int /\ l.min < c.eta[at + 1]
    OBVIOUS
  <2>1. at + 1 \in 1 .. Len(c.eta) /\ at < at + 1
    BY <1>2
  <2>2. c.eta[at] < c.eta[at + 1]
    BY <2>1, <1>2 DEF Ascends
  <2> QED
    BY <2>1, <2>2, <1>2
<1>4. CASE at = Len(c.eta) \/ c.eta[at + 1] > l.max
  <2>1. d = InsertBorder(c, at + 1, l.max)
    BY <1>4
  <2>2. at + 1 \in 1 .. Len(c.eta) + 1 /\ at + 1 > 1 /\ (at + 1) - 1 = at /\ c.eta[(at + 1) - 1] < l.max
    BY <1>1, <1>2
  <2>3. at + 1 <= Len(c.eta) => l.max < c.eta[at + 1]
    <3> SUFFICES ASSUME at + 1 <= Len(c.eta) PROVE l.max < c.eta[at + 1]
      OBVIOUS
    <3>1. at < Len(c.eta) /\ at # Len(c.eta)
      BY <1>2
    <3> QED
      BY <3>1, <1>1, <1>3, <1>4
  <2>4. /\ Shaped(d) /\ Len(d.eta) = Len(c.eta) + 1 /\ d.eta[at + 1] = l.max
        /\ d.eta[MovedBy(at + 1, at)] = c.eta[at]
    BY <1>1, <2>1, <2>2, <2>3, InsertShaped
  <2>5. d.eta[at] = l.min
    <3>1. MovedBy(at + 1, at) = at
      BY <1>2 DEF MovedBy
    <3> QED
      BY <3>1, <2>4
  <2>6. RangeAt(d, at, l)
    BY <1>2, <2>4, <2>5 DEF RangeAt
  <2>7. ASSUME Kept(c, ls, more), HasLoad(more, l), ApartFrom(ls, l),
               \A j \in 1 .. Len(ls) : LoadAssumption(ls[j])
        PROVE  Kept(d, ls, more)
    <3>1. ASSUME NEW j \in 1 .. Len(ls), RangeAt(c, (at + 1) - 1, ls[j])
          PROVE  FALSE
      <4>2. at < Len(c.eta) /\ c.eta[at] = ls[j].min /\ c.eta[at + 1] = ls[j].max
        BY <3>1, <2>2 DEF RangeAt
      <4>3. ls[j].min = l.min /\ l.max < ls[j].max
        <5>1. at # Len(c.eta)
          BY <4>2, <1>2
        <5> QED
          BY <5>1, <4>2, <1>3, <1>4
      <4>4. ls[j].min \in Int /\ ls[j].max \in Int
        BY <2>7 DEF LoadAssumption
      <4>5. ls[j].max <= l.min \/ l.max <= ls[j].min \/ ls[j].max = l.max
        BY <2>7 DEF ApartFrom, SameRange
      <4> QED
        BY <1>1, <4>3, <4>4, <4>5
    <3>2. \E j \in 1 .. Len(more) : l.max = more[j].min \/ l.max = more[j].max
      BY <2>7 DEF HasLoad
    <3>3. \A j \in 1 .. Len(ls) : ~RangeAt(c, (at + 1) - 1, ls[j])
      BY <3>1
    <3> QED
      BY <1>1, <2>1, <2>2, <2>3, <2>7, <3>2, <3>3, InsertKept
  <2>8. at \in 1 .. Len(d.eta)
    BY <1>2, <2>4
  <2> QED
    BY <2>4, <2>6, <2>7, <2>8
<1>5. CASE ~(at = Len(c.eta) \/ c.eta[at + 1] > l.max)
  <2>1. d = c /\ at < Len(c.eta)
    BY <1>2, <1>5
  <2>2. at + 1 \in 1 .. Len(c.eta) /\ c.eta[at + 1] \in Int /\ l.min < c.eta[at + 1]
        /\ c.eta[at + 1] <= l.max
    BY <1>1, <1>3, <1>5, <2>1
  <2>3. ASSUME Kept(c, ls, more), ApartFrom(ls, l),
               \A j \in 1 .. Len(ls) : LoadAssumption(ls[j]),
               \A j \in 1 .. Len(more) : more[j] = l \/ HasLoad(ls, more[j])
        PROVE  c.eta[at + 1] = l.max
    <3>1. PICK j \in 1 .. Len(more) : c.eta[at + 1] = more[j].min \/ c.eta[at + 1] = more[j].max
      BY <2>2, <2>3 DEF Kept, BordersHaveLoads
    <3>2. CASE more[j] = l
      BY <3>1, <3>2, <2>2, <1>1
    <3>3. ASSUME NEW i \in 1 .. Len(ls), ls[i] = more[j]
          PROVE  c.eta[at + 1] = l.max
      <4>1. ls[i].min \in Int /\ ls[i].max \in Int /\ ls[i].min < ls[i].max
        BY <2>3 DEF LoadAssumption
      <4>2. ls[i].max <= l.min \/ l.max <= ls[i].min \/ (ls[i].max = l.max /\ ls[i].min = l.min)
        BY <2>3 DEF ApartFrom, SameRange
      <4>3. c.eta[at + 1] = ls[i].min \/ c.eta[at + 1] = ls[i].max
        BY <3>1, <3>3
      <4> QED
        BY <1>1, <2>2, <4>1, <4>2, <4>3
    <3> QED
      BY <3>2, <3>3, <2>3 DEF HasLoad
  <2> QED
    BY <2>1, <2>2, <2>3 DEF RangeAt
<1> QED
  BY <1>4, <1>5

\* What load_phi_modulation() appends to the vectors at the interval.
FilledBy(d, at, l) ==
  [eta |-> d.eta,
   phi |-> IF l.opens THEN [d.phi EXCEPT ![at] = @ \o l.edges] ELSE d.phi,
   mod |-> IF l.opens THEN [d.mod EXCEPT ![at] = @ \o l.values] ELSE d.mod,
   shift |-> [d.shift EXCEPT ![at] = l.shift]]

\* A sequence with one member replaced.
LEMMA OneReplaced ==
  ASSUME NEW Q, NEW s \in Seq(Q), NEW at \in 1 .. Len(s), NEW y \in Q,
         NEW t, t = [s EXCEPT ![at] = y]
  PROVE  /\ t \in Seq(Q) /\ Len(t) = Len(s) /\ t[at] = y
         /\ \A k \in 1 .. Len(s) : k # at => t[k] = s[k]
OBVIOUS

\* Only the interval of the load changes.
LEMMA FilledShaped ==
  ASSUME NEW d, Shaped(d), NEW l, LoadAssumption(l), NEW at \in 1 .. Len(d.eta),
         NEW e, e = FilledBy(d, at, l)
  PROVE  /\ Shaped(e) /\ e.eta = d.eta
         /\ e.shift[at] = l.shift
         /\ e.phi[at] = IF l.opens THEN d.phi[at] \o l.edges ELSE d.phi[at]
         /\ e.mod[at] = IF l.opens THEN d.mod[at] \o l.values ELSE d.mod[at]
         /\ \A k \in 1 .. Len(d.eta) :
              k # at => e.phi[k] = d.phi[k] /\ e.mod[k] = d.mod[k] /\ e.shift[k] = d.shift[k]
<1> DEFINE n == Len(d.eta)
<1>1. /\ e.eta = d.eta
      /\ e.phi = IF l.opens THEN [d.phi EXCEPT ![at] = @ \o l.edges] ELSE d.phi
      /\ e.mod = IF l.opens THEN [d.mod EXCEPT ![at] = @ \o l.values] ELSE d.mod
      /\ e.shift = [d.shift EXCEPT ![at] = l.shift]
  BY DEF FilledBy
<1>2. l.edges \in Seq(Int) /\ l.values \in Seq(Int) /\ l.shift \in Int
  BY DEF LoadAssumption
<1>3. /\ d.phi \in Seq(Seq(Int)) /\ d.mod \in Seq(Seq(Int)) /\ d.shift \in Seq(Int)
      /\ Len(d.phi) = n /\ Len(d.mod) = n /\ Len(d.shift) = n
  BY DEF Shaped
<1> HIDE DEF n
<1>4. at \in 1 .. n
  BY DEF n
<1>6. /\ e.phi \in Seq(Seq(Int)) /\ Len(e.phi) = n
      /\ e.phi[at] = IF l.opens THEN d.phi[at] \o l.edges ELSE d.phi[at]
      /\ \A k \in 1 .. n : k # at => e.phi[k] = d.phi[k]
  <2>1. CASE l.opens
    <3>1. e.phi = [d.phi EXCEPT ![at] = @ \o l.edges]
      BY <2>1, <1>1
    <3>2. PICK s \in Seq(Seq(Int)) : s = d.phi
      BY <1>3
    <3>3. PICK x \in Seq(Int) : x = l.edges
      BY <1>2
    <3>4. PICK t : t = e.phi
      OBVIOUS
    <3>5. s[at] \in Seq(Int) /\ Len(s) = n
      BY <3>2, <1>3, <1>4
    <3>6. PICK y : y = s[at] \o x
      OBVIOUS
    <3>7. y \in Seq(Int)
      BY <3>5, <3>6
    <3>8. PICK Q : Q = Seq(Int)
      OBVIOUS
    <3>9. s \in Seq(Q) /\ y \in Q /\ at \in 1 .. Len(s)
      BY <3>5, <3>7, <3>8, <1>4
    <3>10. t = [s EXCEPT ![at] = y]
      BY <3>1, <3>2, <3>3, <3>4, <3>6
    <3>11. t \in Seq(Q) /\ Len(t) = n /\ t[at] = y /\ \A k \in 1 .. n : k # at => t[k] = s[k]
      BY <3>5, <3>9, <3>10, OneReplaced
    <3> QED
      BY <3>2, <3>3, <3>4, <3>6, <3>8, <3>11, <2>1
  <2>2. CASE ~l.opens
    BY <2>2, <1>1, <1>3
  <2> QED
    BY <2>1, <2>2
<1>7. /\ e.mod \in Seq(Seq(Int)) /\ Len(e.mod) = n
      /\ e.mod[at] = IF l.opens THEN d.mod[at] \o l.values ELSE d.mod[at]
      /\ \A k \in 1 .. n : k # at => e.mod[k] = d.mod[k]
  <2>1. CASE l.opens
    <3>1. e.mod = [d.mod EXCEPT ![at] = @ \o l.values]
      BY <2>1, <1>1
    <3>2. PICK s \in Seq(Seq(Int)) : s = d.mod
      BY <1>3
    <3>3. PICK x \in Seq(Int) : x = l.values
      BY <1>2
    <3>4. PICK t : t = e.mod
      OBVIOUS
    <3>5. s[at] \in Seq(Int) /\ Len(s) = n
      BY <3>2, <1>3, <1>4
    <3>6. PICK y : y = s[at] \o x
      OBVIOUS
    <3>7. y \in Seq(Int)
      BY <3>5, <3>6
    <3>8. PICK Q : Q = Seq(Int)
      OBVIOUS
    <3>9. s \in Seq(Q) /\ y \in Q /\ at \in 1 .. Len(s)
      BY <3>5, <3>7, <3>8, <1>4
    <3>10. t = [s EXCEPT ![at] = y]
      BY <3>1, <3>2, <3>3, <3>4, <3>6
    <3>11. t \in Seq(Q) /\ Len(t) = n /\ t[at] = y /\ \A k \in 1 .. n : k # at => t[k] = s[k]
      BY <3>5, <3>9, <3>10, OneReplaced
    <3> QED
      BY <3>2, <3>3, <3>4, <3>6, <3>8, <3>11, <2>1
  <2>2. CASE ~l.opens
    BY <2>2, <1>1, <1>3
  <2> QED
    BY <2>1, <2>2
<1>8. /\ e.shift \in Seq(Int) /\ Len(e.shift) = n /\ e.shift[at] = l.shift
      /\ \A k \in 1 .. n : k # at => e.shift[k] = d.shift[k]
  <2>1. PICK h \in Seq(Int) : h = d.shift
    BY <1>3
  <2>2. PICK x \in Int : x = l.shift
    BY <1>2
  <2>3. e.shift = [h EXCEPT ![at] = x] /\ Len(h) = n
    BY <1>1, <1>3, <2>1, <2>2
  <2>4. /\ e.shift \in Seq(Int) /\ Len(e.shift) = n /\ e.shift[at] = x
        /\ \A k \in 1 .. n : k # at => e.shift[k] = h[k]
    BY <2>3, <1>4
  <2> QED
    BY <2>1, <2>2, <2>4
<1>9. Shaped(e)
  BY <1>1, <1>6, <1>7, <1>8 DEF Shaped, n
<1> QED
  BY <1>1, <1>6, <1>7, <1>8, <1>9 DEF n

\* The interval was empty, or an earlier file for the range had been read.
LEMMA FilledKept ==
  ASSUME NEW d, Shaped(d), NEW l, LoadAssumption(l), NEW at \in 1 .. Len(d.eta),
         NEW ls \in Seq(Loads), l \in Loads, Kept(d, ls, Append(ls, l)), RangeAt(d, at, l),
         ApartFrom(ls, l), \A j \in 1 .. Len(ls) : LoadAssumption(ls[j]),
         NEW e, e = FilledBy(d, at, l)
  PROVE  Kept(e, Append(ls, l), Append(ls, l))
<1> DEFINE more == Append(ls, l)
<1>1. Len(more) = Len(ls) + 1 /\ more[Len(ls) + 1] = l /\ Len(ls) \in Nat
      /\ \A j \in 1 .. Len(ls) : more[j] = ls[j]
  OBVIOUS
<1> HIDE DEF more
<1>2. /\ Shaped(e) /\ e.eta = d.eta
      /\ e.shift[at] = l.shift
      /\ e.phi[at] = IF l.opens THEN d.phi[at] \o l.edges ELSE d.phi[at]
      /\ e.mod[at] = IF l.opens THEN d.mod[at] \o l.values ELSE d.mod[at]
      /\ \A k \in 1 .. Len(d.eta) :
           k # at => e.phi[k] = d.phi[k] /\ e.mod[k] = d.mod[k] /\ e.shift[k] = d.shift[k]
  BY FilledShaped
<1>3. ASSUME NEW j \in 1 .. Len(ls), ls[j].opens
      PROVE  ~RangeAt(d, at, ls[j])
  <2> SUFFICES ASSUME RangeAt(d, at, ls[j]) PROVE FALSE
    OBVIOUS
  <2>1. ls[j].min = l.min /\ ls[j].max = l.max
    BY DEF RangeAt
  <2>2. l.min \in Int /\ l.max \in Int /\ l.min < l.max
    BY DEF LoadAssumption
  <2>3. ls[j].max <= l.min \/ l.max <= ls[j].min
    BY <1>3 DEF ApartFrom
  <2> QED
    BY <2>1, <2>2, <2>3
<1>4. d.phi[at] = <<>> /\ d.mod[at] = <<>>
  BY <1>3 DEF Kept, RangesHaveLoads
<1>5. l.opens => HoldsAt(e, at, l)
  <2>1. l.edges \in Seq(Int) /\ l.values \in Seq(Int)
    BY DEF LoadAssumption
  <2>2. <<>> \o l.edges = l.edges /\ <<>> \o l.values = l.values
    BY <2>1
  <2> QED
    BY <1>2, <1>4, <2>2 DEF HoldsAt
<1>6. RangeAt(e, at, l)
  BY <1>2 DEF RangeAt
<1>7. \A k \in 1 .. Len(d.eta), j \in 1 .. Len(ls) :
        /\ RangeAt(d, k, ls[j]) => RangeAt(e, k, ls[j])
        /\ k # at /\ HoldsAt(d, k, ls[j]) => HoldsAt(e, k, ls[j])
  BY <1>2 DEF RangeAt, HoldsAt
<1>8. LoadsHaveRanges(e, more)
  <2> SUFFICES ASSUME NEW j \in 1 .. Len(ls) + 1
               PROVE  \E k \in 1 .. Len(d.eta) :
                        RangeAt(e, k, more[j]) /\ (more[j].opens => HoldsAt(e, k, more[j]))
    BY <1>1, <1>2 DEF LoadsHaveRanges
  <2>1. CASE j = Len(ls) + 1
    BY <2>1, <1>1, <1>5, <1>6
  <2>2. CASE j # Len(ls) + 1
    <3>1. j \in 1 .. Len(ls) /\ more[j] = ls[j]
      BY <2>2, <1>1
    <3>2. PICK k \in 1 .. Len(d.eta) : RangeAt(d, k, ls[j]) /\ (ls[j].opens => HoldsAt(d, k, ls[j]))
      BY <3>1 DEF Kept, LoadsHaveRanges
    <3>3. ls[j].opens => k # at
      BY <3>1, <3>2, <1>3
    <3> QED
      BY <3>1, <3>2, <3>3, <1>7
  <2> QED
    BY <2>1, <2>2
<1>9. RangesHaveLoads(e, more)
  <2> SUFFICES ASSUME NEW k \in 1 .. Len(d.eta)
               PROVE  \/ e.phi[k] = <<>> /\ e.mod[k] = <<>>
                      \/ \E j \in 1 .. Len(ls) + 1 :
                           more[j].opens /\ RangeAt(e, k, more[j]) /\ HoldsAt(e, k, more[j])
    BY <1>1, <1>2 DEF RangesHaveLoads
  <2>1. CASE k = at /\ l.opens
    <3>1. Len(ls) + 1 \in 1 .. Len(ls) + 1
      BY <1>1
    <3> QED
      BY <3>1, <2>1, <1>1, <1>5, <1>6
  <2>2. CASE k = at /\ ~l.opens
    BY <2>2, <1>2, <1>4
  <2>3. CASE k # at
    <3>1. CASE d.phi[k] = <<>> /\ d.mod[k] = <<>>
      BY <3>1, <2>3, <1>2
    <3>2. ASSUME NEW j \in 1 .. Len(ls), ls[j].opens, RangeAt(d, k, ls[j]), HoldsAt(d, k, ls[j])
          PROVE  \E i \in 1 .. Len(ls) + 1 :
                   more[i].opens /\ RangeAt(e, k, more[i]) /\ HoldsAt(e, k, more[i])
      <4>1. j \in 1 .. Len(ls) + 1 /\ more[j] = ls[j]
        BY <1>1
      <4> QED
        BY <4>1, <3>2, <2>3, <1>7
    <3> QED
      BY <3>1, <3>2 DEF Kept, RangesHaveLoads
  <2> QED
    BY <2>1, <2>2, <2>3
<1>10. BordersHaveLoads(e, more)
  <2>1. BordersHaveLoads(d, more)
    BY DEF Kept, more
  <2> QED
    BY <2>1, <1>2 DEF BordersHaveLoads
<1> QED
  BY <1>8, <1>9, <1>10 DEF Kept, more

\* load_phi_modulation() as a whole.
LEMMA LoadKept ==
  ASSUME ModulationInv, NEW l \in Loads, LoadPhiModulation(l)
  PROVE  ModulationInv'
<1>1. LoadAssumption(l) /\ \A j \in 1 .. Len(loads) : LoadAssumption(loads[j])
  BY HitShapeAssumption DEF ModulationInv
<1>2. PICK v : v = Started(Loaded, l)
  OBVIOUS
<1>3. PICK b : b = WithBorders(v, l)
  OBVIOUS
<1>4. PICK i : i = IndexIn(v.eta, l.min)
  OBVIOUS
<1>5. PICK at : at = IF v.eta[i] < l.min THEN i + 1 ELSE i
  OBVIOUS
<1>6. PICK c : c = IF v.eta[i] < l.min THEN InsertBorder(v, i + 1, l.min) ELSE v
  OBVIOUS
<1>7. PICK d : d = IF at = Len(c.eta) \/ c.eta[at + 1] > l.max
                   THEN InsertBorder(c, at + 1, l.max) ELSE c
  OBVIOUS
<1>8. b = [v |-> d, at |-> at]
  BY <1>3, <1>4, <1>5, <1>6, <1>7, Zenon DEF WithBorders
<1>9. PICK e : e = FilledBy(d, at, l)
  OBVIOUS
<1>10. /\ loads' = Append(loads, l) /\ hit' = NoHit
       /\ etaMins' = e.eta /\ phiMins' = e.phi /\ modulation' = e.mod /\ shifts' = e.shift
  <2>1. /\ loads' = Append(loads, l) /\ hit' = NoHit
        /\ etaMins' = b.v.eta
        /\ phiMins' = IF l.opens THEN [b.v.phi EXCEPT ![b.at] = @ \o l.edges] ELSE b.v.phi
        /\ modulation' = IF l.opens THEN [b.v.mod EXCEPT ![b.at] = @ \o l.values] ELSE b.v.mod
        /\ shifts' = [b.v.shift EXCEPT ![b.at] = l.shift]
    BY <1>2, <1>3 DEF LoadPhiModulation, Loaded
  <2>2. b.v = d /\ b.at = at
    BY <1>8
  <2> QED
    BY <2>1, <2>2, <1>9 DEF FilledBy
<1>11. Loaded' = [eta |-> e.eta, phi |-> e.phi, mod |-> e.mod, shift |-> e.shift]
  BY <1>10 DEF Loaded
<1>12. Loaded' = e
  BY <1>9, <1>11 DEF FilledBy
<1>13. Shaped(Loaded) /\ loads \in Seq(Loads)
  BY DEF ModulationInv
<1> DEFINE more == Append(loads, l)
<1>14. more \in Seq(Loads) /\ Len(more) = Len(loads) + 1 /\ more[Len(loads) + 1] = l
       /\ Len(loads) \in Nat /\ \A j \in 1 .. Len(loads) : more[j] = loads[j]
  BY <1>13
<1> HIDE DEF more
<1>15. /\ Shaped(v) /\ Len(v.eta) >= 1 /\ v.eta[1] <= l.min
       /\ Kept(Loaded, loads, more) /\ HasLoad(more, l)
          /\ (Loaded.eta = <<>> => Len(loads) = 0) => Kept(v, loads, more)
  BY <1>1, <1>2, <1>13, StartedKept
<1>16. /\ Shaped(c) /\ at \in 1 .. Len(c.eta) /\ c.eta[at] = l.min
       /\ Kept(v, loads, more) /\ HasLoad(more, l) /\ ApartFrom(loads, l)
            => Kept(c, loads, more)
  BY <1>1, <1>4, <1>5, <1>6, <1>15, LowerKept
<1>17. /\ Shaped(d) /\ at \in 1 .. Len(d.eta)
       /\ /\ Kept(c, loads, more) /\ HasLoad(more, l) /\ ApartFrom(loads, l)
          /\ \A j \in 1 .. Len(more) : more[j] = l \/ HasLoad(loads, more[j])
          => Kept(d, loads, more) /\ RangeAt(d, at, l)
  BY <1>1, <1>7, <1>16, UpperKept
<1>18. Shaped(e) /\ e.eta = d.eta
  BY <1>1, <1>9, <1>17, FilledShaped
<1>19. HasLoad(more, l)
  <2>1. Len(loads) + 1 \in 1 .. Len(more)
    BY <1>14
  <2> QED
    BY <2>1, <1>14 DEF HasLoad
<1>20. \A j \in 1 .. Len(more) : more[j] = l \/ HasLoad(loads, more[j])
  <2> TAKE j \in 1 .. Len(more)
  <2>1. j = Len(loads) + 1 \/ j \in 1 .. Len(loads)
    BY <1>14
  <2> QED
    BY <2>1, <1>14 DEF HasLoad
<1>21. Apart' => Apart /\ ApartFrom(loads, l)
  <2> SUFFICES ASSUME Apart' PROVE Apart /\ ApartFrom(loads, l)
    OBVIOUS
  <2>1. \A j \in 1 .. Len(more), k \in 1 .. Len(more) :
          k < j => \/ more[k].max <= more[j].min \/ more[j].max <= more[k].min
                   \/ SameRange(more[k], more[j]) /\ ~more[k].opens
    BY <1>10 DEF Apart, more, SameRange
  <2>2. Apart
    <3> SUFFICES ASSUME NEW j \in 1 .. Len(loads), NEW k \in 1 .. Len(loads), k < j
                 PROVE  \/ loads[k].max <= loads[j].min \/ loads[j].max <= loads[k].min
                        \/ SameRange(loads[k], loads[j]) /\ ~loads[k].opens
      BY DEF Apart
    <3>1. j \in 1 .. Len(more) /\ k \in 1 .. Len(more) /\ more[j] = loads[j] /\ more[k] = loads[k]
      BY <1>14
    <3>2. \/ more[k].max <= more[j].min \/ more[j].max <= more[k].min
          \/ SameRange(more[k], more[j]) /\ ~more[k].opens
      BY <3>1, <2>1
    <3> QED
      BY <3>1, <3>2
  <2>3. ApartFrom(loads, l)
    <3> SUFFICES ASSUME NEW k \in 1 .. Len(loads)
                 PROVE  \/ loads[k].max <= l.min \/ l.max <= loads[k].min
                        \/ SameRange(loads[k], l) /\ ~loads[k].opens
      BY DEF ApartFrom
    <3> DEFINE j == Len(loads) + 1
    <3>1. j \in 1 .. Len(more) /\ k \in 1 .. Len(more) /\ k < j /\ more[j] = l /\ more[k] = loads[k]
      BY <1>14
    <3> HIDE DEF j
    <3>2. \/ more[k].max <= more[j].min \/ more[j].max <= more[k].min
          \/ SameRange(more[k], more[j]) /\ ~more[k].opens
      BY <3>1, <2>1
    <3> QED
      BY <3>1, <3>2
  <2> QED
    BY <2>2, <2>3
<1>22. ASSUME Apart' PROVE Kept(e, more, more)
  <2>1. Apart /\ ApartFrom(loads, l)
    BY <1>21, <1>22
  <2>2. LoadsHaveRanges(Loaded, loads) /\ RangesHaveLoads(Loaded, loads)
        /\ BordersHaveLoads(Loaded, loads)
    BY <2>1 DEF ModulationInv
  <2>3. BordersHaveLoads(Loaded, more)
    <3> SUFFICES ASSUME NEW k \in 1 .. Len(Loaded.eta)
                 PROVE  \E j \in 1 .. Len(more) :
                          Loaded.eta[k] = more[j].min \/ Loaded.eta[k] = more[j].max
      BY DEF BordersHaveLoads
    <3>1. PICK j \in 1 .. Len(loads) : Loaded.eta[k] = loads[j].min \/ Loaded.eta[k] = loads[j].max
      BY <2>2 DEF BordersHaveLoads
    <3>2. j \in 1 .. Len(more) /\ more[j] = loads[j]
      BY <1>14
    <3> QED
      BY <3>1, <3>2
  <2>4. Loaded.eta = <<>> => Len(loads) = 0
    BY DEF ModulationInv, Loaded
  <2>5. Kept(v, loads, more)
    BY <2>2, <2>3, <2>4, <1>15, <1>19 DEF Kept
  <2>6. Kept(d, loads, more) /\ RangeAt(d, at, l)
    BY <2>1, <2>5, <1>16, <1>17, <1>19, <1>20
  <2> QED
    BY <2>1, <2>6, <1>1, <1>9, <1>13, <1>17, FilledKept DEF more
<1>23. loads' \in Seq(Loads) /\ Shaped(Loaded')
  BY <1>10, <1>12, <1>14, <1>18 DEF more
<1>24. loads' # <<>> /\ etaMins' # <<>>
  <2>1. Len(e.eta) >= 1
    BY <1>17, <1>18 DEF Shaped
  <2> QED
    BY <2>1, <1>10, <1>14 DEF more
<1>25. ModulationOfItsRange'
  BY <1>10 DEF ModulationOfItsRange, NoHit
<1>26. Apart' => /\ LoadsHaveRanges(Loaded', loads') /\ RangesHaveLoads(Loaded', loads')
                 /\ BordersHaveLoads(Loaded', loads')
  BY <1>10, <1>12, <1>22 DEF Kept, more
<1> QED
  BY <1>23, <1>24, <1>25, <1>26 DEF ModulationInv, Loaded, Shaped, LoadsHaveRanges, RangesHaveLoads, BordersHaveLoads, RangeAt, HoldsAt

\* get_eta_and_phi_index() finds the place of the hit in its cell.
LEMMA PlaceInCell ==
  ASSUME NEW phi \in Int
  PROVE  /\ ((phi % CellSize) + CellSize - CellSize \div 2) % CellSize
              = WithinCell(phi - CellPhi(phi))
         /\ WithinCell(phi - CellPhi(phi)) \in Int
<1>1. PICK c \in Nat \ {0} : c = CellSize
  BY HitShapeAssumption
<1>2. phi = c * (phi \div c) + (phi % c) /\ phi % c \in 0 .. c - 1 /\ phi \div c \in Int
  OBVIOUS
<1>3. PICK r \in Int, q \in Int : r = phi % c /\ q = phi \div c /\ phi = c * q + r
  BY <1>2
<1>4. PICK h \in Int : h = c \div 2
  OBVIOUS
<1>5. phi - (q * c + h) = r - h
  BY <1>3
<1>6. r + c - h = (r - h) + c /\ r - h \in Int
  OBVIOUS
<1>7. ((r - h) + c) % c = (r - h) % c /\ (r - h) % c \in 0 .. c - 1
  BY <1>6, ModTurn
<1>8. CellPhi(phi) = q * c + h
  BY <1>1, <1>3, <1>4 DEF CellPhi
<1>9. WithinCell(phi - CellPhi(phi)) = (r - h) % c
  BY <1>1, <1>5, <1>8 DEF WithinCell
<1>10. ((phi % CellSize) + CellSize - CellSize \div 2) % CellSize = (r + c - h) % c
  BY <1>1, <1>3, <1>4
<1> QED
  BY <1>6, <1>7, <1>9, <1>10

\* The interval found is the range of the file for the hit's eta, the bin found that
\* of its place, and when there is no such file or bin nothing is found.
LEMMA FactorOfLoad ==
  ASSUME ModulationInv, Apart, NEW eta \in Int, NEW phi \in Int, NEW scale \in Int, scale > 0,
         NEW factor, factor = IF Modulated(eta, phi)
                              THEN Scaled(modulation[EtaIndex(eta)][PhiIndex(eta, phi)], scale)
                                     * shifts[EtaIndex(eta)]
                              ELSE 1
  PROVE  factor = FactorFor(eta, phi, scale)
<1>12. PICK place : place = PlaceOf(phi)
  OBVIOUS
<1>13. PICK fits : fits = LoadsFor(eta)
  OBVIOUS
<1>14. ~(scale <= 0)
  OBVIOUS
<1>1. Shaped(Loaded) /\ LoadsHaveRanges(Loaded, loads) /\ RangesHaveLoads(Loaded, loads)
      /\ loads \in Seq(Loads)
  BY DEF ModulationInv
<1>2. PICK v : v = Loaded
  OBVIOUS
<1>3. v.eta = etaMins /\ v.phi = phiMins /\ v.mod = modulation /\ v.shift = shifts
  BY <1>2 DEF Loaded
<1>4. PICK s \in Seq(Int) : s = etaMins /\ Ascends(s)
  BY <1>1, <1>2, <1>3 DEF Shaped
<1>5. PICK e : e = EtaIndex(eta)
  OBVIOUS
<1>6. e \in 0 .. Len(s) /\ \A k \in 1 .. Len(s) : k <= e <=> s[k] <= eta
  BY <1>4, <1>5, IndexOfValue DEF EtaIndex
<1>7. \A j \in 1 .. Len(loads) : LoadAssumption(loads[j])
  BY <1>1, HitShapeAssumption, SMTT(30)
<1>8. ASSUME NEW i \in fits
      PROVE  e \in 1 .. Len(s) /\ e < Len(s) /\ HoldsAt(v, e, loads[i])
  <2>1. i \in 1 .. Len(loads) /\ loads[i].opens /\ loads[i].min <= eta /\ eta < loads[i].max
    BY <1>8, <1>13 DEF LoadsFor
  <2>2. PICK k \in 1 .. Len(s) : RangeAt(v, k, loads[i]) /\ (loads[i].opens => HoldsAt(v, k, loads[i]))
    BY <2>1, <1>1, <1>2, <1>3, <1>4 DEF LoadsHaveRanges
  <2>3. k < Len(s) /\ s[k] <= eta /\ eta < s[k + 1]
    BY <2>1, <2>2, <1>3, <1>4 DEF RangeAt
  <2>4. k + 1 \in 1 .. Len(s) /\ s[k + 1] \in Int
    BY <2>3, <1>4
  <2>5. k <= e /\ ~(k + 1 <= e)
    BY <2>3, <2>4, <1>6
  <2>6. k = e
    BY <2>5, <1>6
  <2> QED
    BY <2>1, <2>2, <2>3, <2>6
<1>9. EtaFails(eta) <=> e = 0 \/ e >= Len(s)
  BY <1>4, <1>5 DEF EtaFails
<1>10. CASE EtaFails(eta)
  <2>1. fits = {}
    BY <1>6, <1>8, <1>9, <1>10
  <2>2. factor = 1
    BY <1>10 DEF Modulated
  <2> QED
    BY <2>1, <2>2, <1>13 DEF FactorFor
<1>11. CASE ~EtaFails(eta)
  <2>1. e \in 1 .. Len(s) /\ e < Len(s)
    BY <1>6, <1>9, <1>11
  <2>2. etaMins # <<>>
    BY <2>1, <1>4
  <2>3. CASE phiMins[e] = <<>>
    <3>1. ASSUME NEW i \in fits PROVE FALSE
      <4>1. loads[i].edges = <<>>
        BY <3>1, <2>3, <1>3, <1>8 DEF HoldsAt
      <4>2. i \in 1 .. Len(loads)
        BY <3>1, <1>13 DEF LoadsFor
      <4>3. loads[i].values \in Seq(Int) /\ Len(loads[i].edges) = Len(loads[i].values) + 1
        BY <4>2, <1>7 DEF LoadAssumption
      <4> QED
        BY <4>1, <4>3
    <3>2. factor = 1
      BY <2>3, <1>5 DEF Modulated
    <3> QED
      BY <3>1, <3>2, <1>13 DEF FactorFor
  <2>4. CASE phiMins[e] # <<>>
    <3>1. PICK j \in 1 .. Len(loads) : loads[j].opens /\ RangeAt(v, e, loads[j]) /\ HoldsAt(v, e, loads[j])
      BY <2>1, <2>4, <1>1, <1>2, <1>3, <1>4 DEF RangesHaveLoads
    <3>2. j \in fits
      <4>1. loads[j].min = s[e] /\ loads[j].max = s[e + 1]
        BY <3>1, <1>3, <1>4 DEF RangeAt
      <4>2. e <= e /\ e + 1 \in 1 .. Len(s) /\ ~(e + 1 <= e) /\ s[e + 1] \in Int
        BY <2>1, <1>4
      <4>3. s[e] <= eta /\ eta < s[e + 1]
        BY <2>1, <4>2, <1>6
      <4> QED
        BY <3>1, <4>1, <4>3, <1>13 DEF LoadsFor
    <3>3. PICK i \in fits : i = CHOOSE k \in LoadsFor(eta) : TRUE
      BY <3>2, <1>13
    <3>4. PICK load : load = loads[i]
      OBVIOUS
    <3>5. LoadAssumption(load) /\ phiMins[e] = load.edges /\ modulation[e] = load.values
          /\ shifts[e] = load.shift
      <4>1. i \in 1 .. Len(loads)
        BY <3>3, <1>13 DEF LoadsFor
      <4> QED
        BY <4>1, <3>4, <1>3, <1>7, <1>8 DEF HoldsAt
    <3>6. PICK g \in Seq(Int) : g = load.edges /\ Ascends(g)
      BY <3>5 DEF LoadAssumption, Ascends
    <3>7. PICK w \in Seq(Int) : w = load.values /\ Len(g) = Len(w) + 1
      BY <3>5, <3>6 DEF LoadAssumption
    <3>8. place \in Int /\ place = WithinCell(phi - CellPhi(phi))
      BY <1>12, PlaceInCell DEF PlaceOf
    <3>9. PICK q : q = PhiIndex(eta, phi)
      OBVIOUS
    <3>10. q \in 0 .. Len(g) /\ \A k \in 1 .. Len(g) : k <= q <=> g[k] <= place
      BY <3>5, <3>6, <3>8, <3>9, <1>5, IndexOfValue DEF PhiIndex
    <3>11. PICK b : b = {k \in 1 .. Len(w) : g[k] <= place /\ place < g[k + 1]}
      OBVIOUS
    <3>17. FactorFor(eta, phi, scale) =
             IF fits = {} \/ b = {} THEN 1 ELSE Scaled(w[CHOOSE k \in b : TRUE], scale) * load.shift
      <4>1. load = loads[CHOOSE k \in LoadsFor(eta) : TRUE]
        BY <3>3, <3>4, Zenon
      <4>2. b = BinsAt(load, PlaceOf(phi))
        BY <3>6, <3>7, <3>11, <1>12, Zenon DEF BinsAt
      <4>3. OfBins(load, b, scale) =
              IF b = {} THEN 1 ELSE Scaled(w[CHOOSE k \in b : TRUE], scale) * load.shift
        BY <3>7 DEF OfBins
      <4>4. FactorFor(eta, phi, scale) =
              IF scale <= 0 \/ LoadsFor(eta) = {} THEN 1 ELSE OfBins(load, b, scale)
        BY <4>1, <4>2 DEF FactorFor
      <4> QED
        BY <1>13, <1>14, <4>3, <4>4, Zenon
    <3>12. \A k \in 1 .. Len(w) : k \in b <=> k = q
      <4>10. Len(w) \in Nat
        BY <3>7
      <4>1. PICK n \in Nat : n = Len(w) /\ Len(g) = n + 1
        BY <3>7, <4>10, Zenon
      <4>2. PICK x \in Int : x = place
        BY <3>8
      <4> SUFFICES ASSUME NEW k \in 1 .. n PROVE k \in b <=> k = q
        BY <4>1
      <4>3. k \in 1 .. n + 1 /\ k + 1 \in 1 .. n + 1 /\ k \in Int
        OBVIOUS
      <4>4. g[k] \in Int /\ g[k + 1] \in Int
        BY <4>1, <4>3
      <4>5. (k <= q <=> g[k] <= x) /\ (k + 1 <= q <=> g[k + 1] <= x)
        BY <4>1, <4>2, <4>3, <3>10
      <4>6. g[k + 1] <= x <=> ~(x < g[k + 1])
        BY <4>4, SMTT(30)
      <4>7. k \in b <=> k <= q /\ ~(k + 1 <= q)
        BY <4>1, <4>2, <4>5, <4>6, <3>11
      <4>8. q \in Int
        BY <3>10
      <4>9. k <= q /\ ~(k + 1 <= q) <=> k = q
        BY <4>3, <4>8
      <4> QED
        BY <4>7, <4>9
    <3>13. b \subseteq 1 .. Len(w)
      BY <3>11
    <3>14. Modulated(eta, phi) <=> q \in 1 .. Len(w)
      BY <2>2, <2>4, <1>5, <1>11, <3>5, <3>7, <3>9 DEF Modulated
    <3>15. CASE q \in 1 .. Len(w)
      <4>1. b = {q}
        BY <3>12, <3>13, <3>15
      <4>2. factor = Scaled(w[q], scale) * load.shift
        BY <3>14, <3>15, <3>5, <3>7, <3>9, <1>5
      <4>3. (CHOOSE k \in b : TRUE) = q
        BY <4>1
      <4> QED
        BY <4>1, <4>2, <4>3, <3>2, <3>17
    <3>16. CASE q \notin 1 .. Len(w)
      <4>1. b = {}
        BY <3>12, <3>13, <3>16
      <4>2. factor = 1
        BY <3>14, <3>16
      <4> QED
        BY <4>1, <4>2, <3>17
    <3> QED
      BY <3>15, <3>16
  <2> QED
    BY <2>3, <2>4
<1> QED
  BY <1>10, <1>11

\* What does not touch the vectors keeps what is known of them.
LEMMA ModulationUnchanged ==
  ASSUME ModulationInv, UNCHANGED modVars
  PROVE  /\ loads' \in Seq(Loads) /\ Shaped(Loaded)'
         /\ (loads' = <<>> <=> etaMins' = <<>>)
         /\ Apart' => /\ LoadsHaveRanges(Loaded, loads)' /\ RangesHaveLoads(Loaded, loads)'
                      /\ BordersHaveLoads(Loaded, loads)'
<1>1. /\ etaMins' = etaMins /\ phiMins' = phiMins /\ modulation' = modulation /\ shifts' = shifts
      /\ loads' = loads
  BY DEF modVars
<1>2. Loaded' = Loaded
  BY <1>1 DEF Loaded
<1>3. Shaped(Loaded)' <=> Shaped(Loaded)
  BY <1>2 DEF Shaped
<1>4. LoadsHaveRanges(Loaded, loads)' <=> LoadsHaveRanges(Loaded, loads)
  BY <1>1, <1>2 DEF LoadsHaveRanges, RangeAt, HoldsAt
<1>5. RangesHaveLoads(Loaded, loads)' <=> RangesHaveLoads(Loaded, loads)
  BY <1>1, <1>2 DEF RangesHaveLoads, RangeAt, HoldsAt
<1>6. BordersHaveLoads(Loaded, loads)' <=> BordersHaveLoads(Loaded, loads)
  BY <1>1, <1>2 DEF BordersHaveLoads
<1>7. Apart' <=> Apart
  BY <1>1 DEF Apart
<1> QED
  BY <1>1, <1>3, <1>4, <1>5, <1>6, <1>7 DEF ModulationInv

\* add_phi_modulation().
LEMMA AddKept ==
  ASSUME ModulationInv, NEW e \in Etas, NEW phi \in Phis, NEW s \in Scales,
         AddPhiModulation(e, phi, s)
  PROVE  ModulationInv'
<1>1. UNCHANGED modVars
  BY DEF AddPhiModulation
<1>2. e \in Int /\ phi \in Int /\ s \in Int
  BY HitShapeAssumption, ShapesAssumption
<1>3. PICK factor : factor = IF s > 0 /\ Modulated(e, phi)
                              THEN Scaled(modulation[EtaIndex(e)][PhiIndex(e, phi)], s)
                                     * shifts[EtaIndex(e)]
                              ELSE 1
  OBVIOUS
<1>4. hit' = [done |-> "modulated", eta |-> e, phi |-> phi, scale |-> s, factor |-> factor]
  BY <1>3 DEF AddPhiModulation
<1>5. hit'.eta = e /\ hit'.phi = phi /\ hit'.scale = s /\ hit'.factor = factor
  BY <1>4
<1>6. loads' = loads /\ (Apart' <=> Apart)
  BY <1>1 DEF modVars, Apart
<1>7. ModulationOfItsRange'
  <2>1. FactorFor(e, phi, s)' = FactorFor(e, phi, s)
    BY <1>6 DEF FactorFor, LoadsFor
  <2>2. CASE s > 0
    <3>1. factor = IF Modulated(e, phi)
                   THEN Scaled(modulation[EtaIndex(e)][PhiIndex(e, phi)], s) * shifts[EtaIndex(e)]
                   ELSE 1
      BY <2>2, <1>3
    <3>2. Apart => factor = FactorFor(e, phi, s)
      BY <2>2, <3>1, <1>2, FactorOfLoad
    <3> QED
      BY <3>2, <1>5, <1>6, <2>1 DEF ModulationOfItsRange
  <2>3. CASE ~(s > 0)
    <3>1. s <= 0
      BY <2>3, <1>2
    <3>2. factor = FactorFor(e, phi, s)
      BY <2>3, <3>1, <1>3, Zenon DEF FactorFor
    <3> QED
      BY <3>2, <1>5, <1>6, <2>1 DEF ModulationOfItsRange
  <2> QED
    BY <2>2, <2>3
<1> QED
  BY <1>1, <1>7, ModulationUnchanged DEF ModulationInv

\* The invariant at first and with every step.
LEMMA ModulationInit == ShapesInit => ModulationInv
<1> SUFFICES ASSUME ShapesInit PROVE ModulationInv
  OBVIOUS
<1>1. /\ etaMins = <<>> /\ phiMins = <<>> /\ modulation = <<>> /\ shifts = <<>>
      /\ loads = <<>> /\ hit = NoHit
  BY DEF ShapesInit, ShapeInit
<1>2. Shaped(Loaded)
  BY <1>1 DEF Loaded, Shaped, Ascends
<1>3. LoadsHaveRanges(Loaded, loads) /\ RangesHaveLoads(Loaded, loads)
      /\ BordersHaveLoads(Loaded, loads)
  BY <1>1 DEF Loaded, LoadsHaveRanges, RangesHaveLoads, BordersHaveLoads
<1>4. ModulationOfItsRange
  BY <1>1 DEF ModulationOfItsRange, NoHit
<1> QED
  BY <1>1, <1>2, <1>3, <1>4 DEF ModulationInv

LEMMA ModulationStep == ModulationInv /\ [ShapesNext]_shapesVars => ModulationInv'
<1> SUFFICES ASSUME ModulationInv, [ShapesNext]_shapesVars
             PROVE  ModulationInv'
  OBVIOUS
<1>1. ASSUME UNCHANGED shapeVars PROVE ModulationInv'
  <2>1. UNCHANGED modVars /\ hit' = hit /\ loads' = loads
    BY <1>1 DEF shapeVars, modVars
  <2>2. ModulationOfItsRange'
    BY <2>1, ZenonT(30) DEF ModulationInv, ModulationOfItsRange, Apart, FactorFor, LoadsFor
  <2> QED
    BY <2>1, <2>2, ModulationUnchanged DEF ModulationInv
<1>2. ASSUME UNCHANGED modVars, hit'.done # "modulated" PROVE ModulationInv'
  <2>1. ModulationOfItsRange'
    BY <1>2 DEF ModulationOfItsRange
  <2> QED
    BY <2>1, <1>2, ModulationUnchanged DEF ModulationInv
<1>3. CASE MakeFunction \/ DrawOnce \/ FitHistogram \/ InvertOnce \/ FitSpline
  BY <1>1, <1>3 DEF MakeFunction, DrawOnce, FitHistogram, InvertOnce, FitSpline
<1>4. CASE LoadOrClear
  <2>1. CASE ClearModulation
    <3>1. /\ etaMins' = <<>> /\ phiMins' = <<>> /\ modulation' = <<>> /\ shifts' = <<>>
          /\ loads' = <<>> /\ hit' = NoHit
      BY <2>1 DEF ClearModulation
    <3>2. Shaped(Loaded)'
      BY <3>1 DEF Loaded, Shaped, Ascends
    <3>3. LoadsHaveRanges(Loaded, loads)' /\ RangesHaveLoads(Loaded, loads)'
          /\ BordersHaveLoads(Loaded, loads)'
      BY <3>1 DEF Loaded, LoadsHaveRanges, RangesHaveLoads, BordersHaveLoads
    <3>4. ModulationOfItsRange'
      BY <3>1 DEF ModulationOfItsRange, NoHit
    <3> QED
      BY <3>1, <3>2, <3>3, <3>4 DEF ModulationInv
  <2>2. ASSUME NEW l \in Loads, LoadPhiModulation(l) PROVE ModulationInv'
    BY <2>2, LoadKept
  <2> QED
    BY <2>1, <2>2, <1>4 DEF LoadOrClear
<1>5. CASE ModulateOnce
  <2>1. PICK e \in Etas, phi \in Phis, s \in Scales : AddPhiModulation(e, phi, s)
    BY <1>5 DEF ModulateOnce
  <2> QED
    BY <2>1, AddKept
<1>6. CASE ShapeOnce
  <2>1. UNCHANGED modVars /\ hit'.done \in {"placed", "weighed", "wiggled", "wiggledEMB"}
    <3>1. ASSUME NEW p, NEW s, NEW fcal, NEW sym, NEW r, ShapeHit(p, s, fcal, sym, r)
          PROVE  UNCHANGED modVars /\ hit'.done \in {"placed", "weighed", "wiggled", "wiggledEMB"}
      BY <3>1 DEF ShapeHit
    <3>2. ASSUME NEW c, NEW h, NEW b, NEW f, NEW r, WeighHit(c, h, b, f, r)
          PROVE  UNCHANGED modVars /\ hit'.done \in {"placed", "weighed", "wiggled", "wiggledEMB"}
      BY <3>2 DEF WeighHit
    <3>3. ASSUME NEW e, NEW phi, WiggleHit(e, phi)
          PROVE  UNCHANGED modVars /\ hit'.done \in {"placed", "weighed", "wiggled", "wiggledEMB"}
      BY <3>3 DEF WiggleHit
    <3>4. ASSUME NEW l, NEW phi, NEW r, WiggleEMB(l, phi, r)
          PROVE  UNCHANGED modVars /\ hit'.done \in {"placed", "weighed", "wiggled", "wiggledEMB"}
      BY <3>4 DEF WiggleEMB
    <3> QED
      BY <3>1, <3>2, <3>3, <3>4, <1>6 DEF ShapeOnce
  <2> QED
    BY <2>1, <1>2
<1>7. CASE UNCHANGED shapesVars
  BY <1>1, <1>7 DEF shapesVars
<1> QED
  BY <1>3, <1>4, <1>5, <1>6, <1>7 DEF ShapesNext

\* Whatever files for ranges that do not overlap were loaded, in whatever order and
\* however often unread, a hit gets the modulation and the shift of the file for its
\* eta at its place in the cell, and is left alone elsewhere: for all files, borders,
\* cells and hits (TFCSPhiModulationCorrection.cxx:51-117).
THEOREM HitsAreModulatedByTheirRange == ShapesSpec => []ModulationOfItsRange
<1>1. ModulationInv => ModulationOfItsRange
  BY DEF ModulationInv
<1> QED
  BY <1>1, ModulationInit, ModulationStep, PTL DEF ShapesSpec

\* A quotient does not fall when what is divided rises.
LEMMA QuotientsRise ==
  ASSUME NEW a \in Int, NEW b \in Int, a <= b, NEW c \in Nat \ {0}
  PROVE  a \div c <= b \div c /\ a \div c \in Int /\ b \div c \in Int
<1>1. a = c * (a \div c) + (a % c) /\ a % c \in 0 .. c - 1 /\ a \div c \in Int
  OBVIOUS
<1>2. b = c * (b \div c) + (b % c) /\ b % c \in 0 .. c - 1 /\ b \div c \in Int
  OBVIOUS
<1>3. PICK q \in Int, r \in 0 .. c - 1 : q = a \div c /\ a = c * q + r
  BY <1>1
<1>4. PICK t \in Int, u \in 0 .. c - 1 : t = b \div c /\ b = c * t + u
  BY <1>2
<1>5. q <= t
  <2> SUFFICES ASSUME q >= t + 1 PROVE FALSE
    BY <1>3, <1>4
  <2>1. PICK k \in Nat : k = q - t - 1
    BY <1>3, <1>4
  <2>2. q = t + 1 + k
    BY <2>1
  <2>3. c * q = c * t + c + c * k
    BY <2>2
  <2>4. c * k >= 0 /\ c * k \in Int /\ c * t \in Int /\ c * q \in Int
    BY <2>1
  <2> QED
    BY <2>3, <2>4, <1>3, <1>4
<1> QED
  BY <1>3, <1>4, <1>5

\* A product divided by one of its factors is the other.
LEMMA QuotientOfProduct ==
  ASSUME NEW q \in Int, NEW c \in Nat \ {0}
  PROVE  (c * q) \div c = q
<1>1. PICK a \in Int : a = c * q
  OBVIOUS
<1>2. a = c * (a \div c) + (a % c) /\ a % c \in 0 .. c - 1 /\ a \div c \in Int
  OBVIOUS
<1>3. PICK t \in Int, u \in 0 .. c - 1 : t = a \div c /\ a = c * t + u
  BY <1>2
<1>4. c * (q - t) = u
  BY <1>1, <1>3
<1>5. PICK k \in Int : k = q - t
  OBVIOUS
<1>6. c * k = u
  BY <1>4, <1>5
<1>7. CASE k >= 1
  <2>1. c * k >= c
    BY <1>7
  <2> QED
    BY <2>1, <1>6
<1>8. CASE k <= -1
  <2>1. c * k <= -c
    BY <1>8
  <2> QED
    BY <2>1, <1>6
<1>9. CASE k = 0
  BY <1>1, <1>3, <1>5, <1>9
<1> QED
  BY <1>5, <1>7, <1>8, <1>9

\* The inductive invariant of the splines.  Knots are in order, those that may be gone
\* back to as well; the smallest penalty seen is the lower of the best of this stage
\* and of what was kept; a best has as many knots as are tried, and exists once
\* one was tried.
InSteps == {"spline", "distance", "probability"}
Ordered(knots) == knots \in Seq(0 .. Whole) /\ InOrder(knots)
Lowest(p, q) == IF p < 0 THEN q ELSE IF q < 0 \/ p <= q THEN p ELSE q
SplineInv ==
  /\ stage \in InSteps \cup {"idle", "compare", "done"}
  /\ np \in Nat /\ np >= 2
  /\ Ordered(try) /\ Ordered(best.knots) /\ Ordered(kept.knots)
  /\ best.penalty \in Nat \cup {-1} /\ kept.penalty \in Nat \cup {-1}
  /\ seen = Lowest(kept.penalty, best.penalty)
  /\ step.loop \in Nat /\ step.now \in Nat /\ tries \in Nat
  /\ best.penalty >= 0 => Len(best.knots) = Len(try)
  /\ try # <<>> => stage \in InSteps /\ (tries > 0 => best.penalty >= 0)
  /\ try = <<>> => best.penalty = -1

\* The inductive invariant of rebinning.  Whatever is merged has borders of the input,
\* among them its first and its last two, because the last bin is never merged; so
\* no centre but the last lies in its last bin, whose content is set to Whole.
MergedFrom(h) ==
  /\ IsCumulative(h)
  /\ \A b \in 1 .. Len(h.border) : \E c \in 1 .. Len(input.border) : h.border[b] = input.border[c]
  /\ h.border[1] = input.border[1]
  /\ h.border[Size(h)] = input.border[Size(input)]
  /\ h.border[Size(h) + 1] = input.border[Size(input) + 1]
RebinInv ==
  /\ doing \in {"rebin", "inverse"} => input # NoFit
  /\ merges \in Nat /\ cut \in Int
  /\ input # NoFit =>
       /\ IsCumulative(input) /\ MergedFrom(rebinned)
       /\ merges > 0 => \A i \in 1 .. Size(input) - 1 : Deviation(rebinned, i) < cut
       /\ IF merges > 0 THEN Size(rebinned) > 5 ELSE Size(rebinned) = Size(input)
  /\ doing = "inverse" => rebinned.content[Size(rebinned)] = Whole
  /\ InverseInItsPiece

\* In ordered knots, those below a place are the first ones.
LEMMA CountBelow ==
  ASSUME NEW s, Ordered(s), NEW p \in Int,
         NEW below, below = Cardinality({j \in 1 .. Len(s) : s[j] < p})
  PROVE  below \in 0 .. Len(s) /\ \A j \in 1 .. Len(s) : j <= below <=> s[j] < p
<1>1. PICK n \in Nat : n = Len(s)
  BY DEF Ordered
<1>2. \A j \in 1 .. n : s[j] \in Int
  BY <1>1, FitAssumption DEF Ordered
<1>3. \A j \in 2 .. n : s[j - 1] <= s[j]
  BY <1>1 DEF Ordered, InOrder
<1> DEFINE T == {j \in 1 .. n : ~(s[j] < p)}
<1>4. CASE T = {}
  <2>1. {j \in 1 .. n : s[j] < p} = 1 .. n
    BY <1>4
  <2>2. Cardinality(1 .. n) = n
    BY FS_Interval
  <2>3. below = n
    BY <2>1, <2>2, <1>1
  <2>4. \A j \in 1 .. n : s[j] < p /\ j <= n
    BY <1>4
  <2>5. below \in 0 .. n
    BY <2>3
  <2>6. \A j \in 1 .. n : j <= below <=> s[j] < p
    BY <2>3, <2>4
  <2> QED
    BY <2>5, <2>6, <1>1
<1>5. CASE T # {}
  <2>1. T \subseteq Nat
    BY <1>1
  <2>2. PICK m \in T : \A k \in T : m <= k
    BY <2>1, <1>5, Least
  <2>3. m \in 1 .. n /\ m - 1 \in 0 .. n
    BY <2>2
  <2> DEFINE U == {j \in 1 .. n : j >= m /\ s[j] < p}
  <2>4. U = {}
    <3> SUFFICES ASSUME U # {} PROVE FALSE
      OBVIOUS
    <3>1. U \subseteq Nat
      BY <1>1
    <3>2. PICK k \in U : \A j \in U : k <= j
      BY <3>1, Least
    <3>3. k \in 1 .. n /\ k >= m /\ s[k] < p
      BY <3>2
    <3>4. k # m
      BY <2>2, <3>3
    <3>5. k \in 2 .. n /\ k - 1 \in 1 .. n /\ k - 1 >= m
      BY <2>3, <3>3, <3>4
    <3>6. s[k - 1] <= s[k] /\ s[k - 1] \in Int /\ s[k] \in Int
      BY <3>5, <3>3, <1>2, <1>3
    <3>7. k - 1 \in U
      BY <3>5, <3>6, <3>3
    <3> HIDE DEF U
    <3>8. k <= k - 1
      BY <3>2, <3>7
    <3> QED
      BY <3>8, <3>3
  <2>5. \A j \in 1 .. n : j <= m - 1 <=> s[j] < p
    <3> TAKE j \in 1 .. n
    <3>1. CASE j >= m
      <4>1. ~(j <= m - 1)
        BY <3>1, <2>3
      <4> QED
        BY <3>1, <2>4, <4>1
    <3>2. CASE j < m
      <4>1. j \notin T
        BY <3>2, <2>2, <2>3
      <4>2. j <= m - 1
        BY <3>2, <2>3
      <4> QED
        BY <4>1, <4>2
    <3> QED
      BY <3>1, <3>2, <2>3
  <2>6. {j \in 1 .. n : s[j] < p} = 1 .. m - 1
    BY <2>3, <2>5
  <2>7. Cardinality(1 .. m - 1) = m - 1
    BY <2>3, FS_Interval
  <2>8. below = m - 1
    BY <2>6, <2>7, <1>1
  <2> QED
    BY <2>3, <2>5, <2>8, <1>1
<1> QED
  BY <1>4, <1>5

\* InitializeFromSpline() puts its knot between those it lies between, so the knots
\* stay in order.
LEMMA InsertedOrdered ==
  ASSUME NEW knots, Ordered(knots), NEW p \in Int
  PROVE  Ordered(Inserted(knots, p))
<1>1. PICK n \in Nat : n = Len(knots)
  BY DEF Ordered
<1>2. knots \in Seq(0 .. Whole) /\ \A j \in 1 .. n : knots[j] \in 0 .. Whole
  <2>1. PICK S : S = 0 .. Whole
    OBVIOUS
  <2>2. knots \in Seq(S)
    BY <2>1 DEF Ordered
  <2>3. \A j \in 1 .. n : knots[j] \in S
    BY <2>2, <1>1
  <2> QED
    BY <2>1, <2>2, <2>3
<1>3. \A j \in 2 .. n : knots[j - 1] <= knots[j]
  BY <1>1 DEF Ordered, InOrder
<1>4. PICK below : below = Cardinality({j \in 1 .. n : knots[j] < p})
  OBVIOUS
<1>5. below \in 0 .. n
  BY <1>1, <1>4, CountBelow
<1>6. PICK left : left = IF below = 0 THEN 0 ELSE knots[below]
  OBVIOUS
<1>7. PICK right : right = IF below = n THEN Whole ELSE knots[below + 1]
  OBVIOUS
<1>8. left \in 0 .. Whole
  <2>1. below # 0 => below \in 1 .. n
    BY <1>5
  <2>2. 0 \in 0 .. Whole
    BY FitAssumption
  <2> QED
    BY <2>1, <2>2, <1>2, <1>6
<1>9. right \in 0 .. Whole
  <2>1. below # n => below + 1 \in 1 .. n
    BY <1>5
  <2>2. Whole \in 0 .. Whole
    BY FitAssumption
  <2> QED
    BY <2>1, <2>2, <1>2, <1>7
<1>10. left <= right
  <2>1. CASE below = 0
    BY <2>1, <1>6, <1>9
  <2>2. CASE below = n
    BY <2>2, <1>7, <1>8
  <2>3. CASE below # 0 /\ below # n
    <3>1. below + 1 \in 2 .. n /\ (below + 1) - 1 = below
      BY <2>3, <1>5
    <3>2. knots[(below + 1) - 1] <= knots[below + 1]
      BY <3>1, <1>3
    <3> QED
      BY <3>1, <3>2, <2>3, <1>6, <1>7
  <2> QED
    BY <2>1, <2>2, <2>3
<1>11. PICK mid : mid = (left + right) \div 2
  OBVIOUS
<1>12. mid \in 0 .. Whole /\ left <= mid /\ mid <= right
  BY <1>8, <1>9, <1>10, <1>11, FitAssumption
<1>13. CASE \E j \in 1 .. n : knots[j] = p
  BY <1>13, <1>1 DEF Inserted
<1>14. CASE ~\E j \in 1 .. n : knots[j] = p
  <2>1. PICK r : r = InsertAt(knots, below + 1, mid)
    OBVIOUS
  <2>2. Inserted(knots, p) = r
    BY <1>1, <1>4, <1>6, <1>7, <1>11, <1>14, <2>1 DEF Inserted
  <2>3. PICK q \in 1 .. n + 1 : q = below + 1
    BY <1>5
  <2>4. /\ r \in Seq(0 .. Whole) /\ Len(r) = n + 1
        /\ \A k \in 1 .. n + 1 :
             r[k] = IF k < q THEN knots[k] ELSE IF k = q THEN mid ELSE knots[k - 1]
    <3>1. q \in 1 .. Len(knots) + 1
      BY <1>1
    <3>2. PICK S : S = 0 .. Whole
      OBVIOUS
    <3>3. knots \in Seq(S)
      BY <1>2, <3>2
    <3>5. PICK y \in S : y = mid
      BY <1>12, <3>2
    <3>4. /\ InsertAt(knots, q, y) \in Seq(S) /\ Len(InsertAt(knots, q, y)) = Len(knots) + 1
          /\ \A k \in 1 .. Len(knots) + 1 :
               InsertAt(knots, q, y)[k]
                 = IF k < q THEN knots[k] ELSE IF k = q THEN y ELSE knots[k - 1]
      BY <3>1, <3>3, InsertedAt
    <3> QED
      BY <3>2, <3>4, <3>5, <2>1, <2>3, <1>1
  <2>5. ASSUME NEW i \in 2 .. n + 1
        PROVE  r[i - 1] <= r[i]
    <3>1. i \in 1 .. n + 1 /\ i - 1 \in 1 .. n + 1 /\ i \in Int /\ q \in Int
      BY <2>3
    <3>2. CASE i < q
      <4>1. i \in 2 .. n /\ i - 1 < q
        BY <3>1, <3>2, <2>3
      <4>2. r[i] = knots[i] /\ r[i - 1] = knots[i - 1]
        BY <4>1, <3>1, <3>2, <2>4
      <4> QED
        BY <4>1, <4>2, <1>3
    <3>3. CASE i = q
      <4>1. ~(i < q) /\ i - 1 < q /\ below # 0 /\ i - 1 = below
        BY <3>1, <3>3, <2>3, <1>5
      <4>2. r[i] = mid /\ r[i - 1] = knots[i - 1]
        BY <4>1, <3>1, <3>3, <2>4
      <4> QED
        BY <4>1, <4>2, <1>6, <1>12
    <3>4. CASE i = q + 1
      <4>1. ~(i < q) /\ i # q /\ i - 1 = q /\ ~(i - 1 < q) /\ below # n /\ i - 1 = below + 1
        BY <3>1, <3>4, <2>3, <1>5
      <4>2. r[i] = knots[i - 1] /\ r[i - 1] = mid
        BY <4>1, <3>1, <2>4
      <4> QED
        BY <4>1, <4>2, <1>7, <1>12
    <3>5. CASE i > q + 1
      <4>1. ~(i < q) /\ i # q /\ ~(i - 1 < q) /\ i - 1 # q /\ i - 1 \in 2 .. n
        BY <3>1, <3>5, <2>3
      <4>2. r[i] = knots[i - 1] /\ r[i - 1] = knots[(i - 1) - 1]
        BY <4>1, <3>1, <2>4
      <4> QED
        BY <4>1, <4>2, <1>3
    <3>6. i < q \/ i = q \/ i = q + 1 \/ i > q + 1
      BY <3>1
    <3> QED
      BY <3>2, <3>3, <3>4, <3>5, <3>6
  <2>6. \A i \in DOMAIN r : r[i] \in 0 .. Whole
    <3>1. PICK S : S = 0 .. Whole
      OBVIOUS
    <3>2. r \in Seq(S)
      BY <2>4, <3>1
    <3>3. \A i \in DOMAIN r : r[i] \in S
      BY <3>2
    <3> QED
      BY <3>1, <3>3
  <2> QED
    BY <2>2, <2>4, <2>5, <2>6 DEF Ordered, InOrder
<1> QED
  BY <1>13, <1>14

\* The members of ordered knots.
LEMMA KnotsIn ==
  ASSUME NEW s, Ordered(s)
  PROVE  /\ Len(s) \in Nat /\ \A i \in 1 .. Len(s) : s[i] \in 0 .. Whole /\ s[i] \in Int
         /\ \A i \in 2 .. Len(s) : s[i - 1] <= s[i]
<1>1. PICK S : S = 0 .. Whole
  OBVIOUS
<1>2. s \in Seq(S)
  BY <1>1 DEF Ordered
<1>3. Len(s) \in Nat /\ \A i \in 1 .. Len(s) : s[i] \in S
  BY <1>2
<1> QED
  BY <1>1, <1>3, FitAssumption DEF Ordered, InOrder

\* Ordered knots, from a function that rises.
LEMMA OrderedIf ==
  ASSUME NEW n \in Nat, NEW s \in [1 .. n -> 0 .. Whole], \A i \in 2 .. n : s[i - 1] <= s[i]
  PROVE  Ordered(s) /\ Len(s) = n
<1>1. PICK S : S = 0 .. Whole
  OBVIOUS
<1>2. s \in [1 .. n -> S]
  BY <1>1
<1>3. s \in Seq(S) /\ Len(s) = n /\ DOMAIN s = 1 .. n
  BY <1>2
<1>4. \A i \in 1 .. n : s[i] \in S
  BY <1>2
<1> QED
  BY <1>1, <1>3, <1>4 DEF Ordered, InOrder

\* The knots at equal distances rise, ties included.
LEMMA EqualDistanceOrdered ==
  ASSUME NEW n \in Nat, NEW k \in EqualDistance(n)
  PROVE  Ordered(k)
<1>1. {0, Whole \div 4, Whole \div 2, Whole} \subseteq 0 .. Whole
  BY FitAssumption
<1>2. k \in [1 .. n -> {0, Whole \div 4, Whole \div 2, Whole}] /\ \A i \in 2 .. n : k[i - 1] <= k[i]
  BY DEF EqualDistance
<1>3. k \in [1 .. n -> 0 .. Whole]
  BY <1>1, <1>2
<1> QED
  BY <1>2, <1>3, OrderedIf

\* So do those at equal probabilities.
LEMMA EqualProbabilityOrdered ==
  ASSUME NEW n \in Nat, n >= 2, NEW k \in EqualProbability(n)
  PROVE  Ordered(k)
<1>1. k = [i \in 1 .. n |-> ((i - 1) * Whole) \div (n - 1)]
  BY DEF EqualProbability
<1>2. PICK w \in Nat : w = Whole
  BY FitAssumption
<1>3. PICK c \in Nat \ {0} : c = n - 1
  OBVIOUS
<1>4. ASSUME NEW i \in 1 .. n
      PROVE  /\ (i - 1) * w \in Int /\ 0 <= (i - 1) * w /\ (i - 1) * w <= c * w
             /\ i > 1 => ((i - 1) - 1) * w <= (i - 1) * w
  <2>1. PICK d \in Nat : d = i - 1 /\ d <= c
    BY <1>3
  <2>2. PICK r \in Nat : c = d + r
    BY <2>1
  <2>3. c * w = d * w + r * w /\ r * w \in Nat /\ d * w \in Nat
    BY <2>2
  <2>4. (d - 1) * w = d * w - w
    OBVIOUS
  <2> QED
    BY <2>1, <2>3, <2>4
<1>5. (c * w) \div c = w /\ (c * 0) \div c = 0
  BY QuotientOfProduct
<1>6. ASSUME NEW i \in 1 .. n
      PROVE  k[i] \in 0 .. Whole /\ k[i] = ((i - 1) * w) \div c
  <2>1. PICK a \in Int : a = (i - 1) * w /\ 0 <= a /\ a <= c * w
    BY <1>4
  <2>2. k[i] = a \div c
    BY <1>1, <1>2, <1>3, <2>1
  <2>3. c * w \in Int /\ c * 0 = 0
    OBVIOUS
  <2>4. a \div c <= (c * w) \div c /\ a \div c \in Int
    BY <2>1, <2>3, QuotientsRise
  <2>5. 0 \div c <= a \div c
    BY <2>1, QuotientsRise
  <2> QED
    BY <2>1, <2>2, <2>3, <2>4, <2>5, <1>2, <1>5
<1>7. ASSUME NEW i \in 2 .. n
      PROVE  k[i - 1] <= k[i]
  <2>1. i \in 1 .. n /\ i - 1 \in 1 .. n /\ i > 1
    OBVIOUS
  <2>2. PICK a \in Int : a = ((i - 1) - 1) * w
    BY <2>1, <1>4
  <2>3. PICK b \in Int : b = (i - 1) * w
    BY <2>1, <1>4
  <2>4. a <= b
    BY <2>1, <2>2, <2>3, <1>4
  <2>5. k[i - 1] = a \div c /\ k[i] = b \div c
    BY <2>1, <2>2, <2>3, <1>6
  <2> QED
    BY <2>4, <2>5, QuotientsRise
<1>8. k \in [1 .. n -> 0 .. Whole]
  BY <1>1, <1>6
<1> QED
  BY <1>7, <1>8, OrderedIf

\* optimize(): a proposed knot is no lower than its left neighbour and no higher than
\* its right one, and clamping to 0 and 1 keeps that: whatever the step, the knots
\* stay in order.
LEMMA MovedOrdered ==
  ASSUME NEW from, Ordered(from), NEW i \in 2 .. Len(from), NEW d \in Int, NEW now \in Nat,
         NEW q, q = Proposed(from, i, d, now)
  PROVE  /\ q.now \in Nat
         /\ Ordered([from EXCEPT ![i] = q.at]) /\ Len([from EXCEPT ![i] = q.at]) = Len(from)
<1>1. PICK n \in Nat : n = Len(from)
  BY KnotsIn
<1>2. \A j \in 1 .. n : from[j] \in Int /\ from[j] \in 0 .. Whole
  BY <1>1, KnotsIn
<1>3. \A j \in 2 .. n : from[j - 1] <= from[j]
  BY <1>1, KnotsIn
<1>4. PICK x \in Int : x = from[i] /\ 0 <= x /\ x <= Whole
  BY <1>1, <1>2
<1>5. PICK l \in Int : l = from[i - 1] /\ 0 <= l /\ l <= Whole /\ l <= x
  <2>1. i - 1 \in 1 .. n /\ i \in 2 .. n
    BY <1>1
  <2> QED
    BY <2>1, <1>2, <1>3, <1>4
<1>6. PICK u \in Int : (i < n => u = from[i + 1]) /\ u <= Whole /\ x <= u
  <2>1. CASE i < n
    <3>1. i + 1 \in 2 .. n /\ i + 1 \in 1 .. n /\ (i + 1) - 1 = i
      BY <2>1, <1>1
    <3>2. from[i + 1] \in Int /\ from[i + 1] <= Whole /\ x <= from[i + 1]
      BY <3>1, <1>2, <1>3, <1>4
    <3> QED
      BY <3>2
  <2>2. CASE ~(i < n)
    BY <2>2, <1>4, FitAssumption
  <2> QED
    BY <2>1, <2>2
<1>7. PICK p0 : p0 = [at |-> x + d, now |-> now]
  OBVIOUS
<1>8. PICK p1 : p1 = IF l + p0.now \div 2 > p0.at THEN [at |-> x, now |-> p0.now \div 2] ELSE p0
  OBVIOUS
<1>9. p1.at \in Int /\ p1.now \in Nat /\ l <= p1.at
  BY <1>4, <1>5, <1>7, <1>8, SMTT(30)
<1>10. PICK p2 : p2 = IF i < n /\ p1.at > from[i + 1] - p1.now \div 2
                      THEN [at |-> x, now |-> p1.now \div 2] ELSE p1
  OBVIOUS
<1>11. p2.at \in Int /\ p2.now \in Nat /\ l <= p2.at /\ (i < n => p2.at <= u)
  <2>1. CASE i < n /\ p1.at > from[i + 1] - p1.now \div 2
    <3>1. p2.at = x /\ p2.now = p1.now \div 2
      BY <2>1, <1>10
    <3> QED
      BY <3>1, <1>4, <1>5, <1>6, <1>9, SMTT(30)
  <2>2. CASE ~(i < n /\ p1.at > from[i + 1] - p1.now \div 2)
    <3>1. p2 = p1
      BY <2>2, <1>10
    <3>2. i < n => p1.at <= u - p1.now \div 2
      BY <2>2, <1>6, <1>9
    <3> QED
      BY <3>1, <3>2, <1>6, <1>9
  <2> QED
    BY <2>1, <2>2
<1>12. q = [at |-> IF p2.at < 0 THEN 0 ELSE IF p2.at > Whole THEN Whole ELSE p2.at,
            now |-> IF p2.at < 0 \/ p2.at > Whole THEN p2.now \div 2 ELSE p2.now]
  BY <1>1, <1>4, <1>5, <1>7, <1>8, <1>10 DEF Proposed
<1>13. /\ q.at = IF p2.at < 0 THEN 0 ELSE IF p2.at > Whole THEN Whole ELSE p2.at
       /\ q.now = IF p2.at < 0 \/ p2.at > Whole THEN p2.now \div 2 ELSE p2.now
  BY <1>12
<1>14. q.now \in Nat
  BY <1>11, <1>13, FitAssumption
<1>15. PICK y \in 0 .. Whole : y = q.at /\ l <= y /\ (i < n => y <= u)
  BY <1>5, <1>6, <1>11, <1>13, FitAssumption
<1>16. PICK r : r = [from EXCEPT ![i] = q.at]
  OBVIOUS
<1>17. r \in [1 .. n -> 0 .. Whole] /\ r[i] = y /\ \A j \in 1 .. n : j # i => r[j] = from[j]
  <2>1. from \in [1 .. n -> 0 .. Whole]
    <3>1. PICK S : S = 0 .. Whole
      OBVIOUS
    <3>2. from \in Seq(S)
      BY <3>1 DEF Ordered
    <3>3. from \in [1 .. n -> S]
      BY <3>2, <1>1
    <3> QED
      BY <3>1, <3>3
  <2>2. i \in 1 .. n
    BY <1>1
  <2>3. r = [from EXCEPT ![i] = y]
    BY <1>15, <1>16
  <2> QED
    BY <2>1, <2>2, <2>3
<1>18. ASSUME NEW j \in 2 .. n
       PROVE  r[j - 1] <= r[j]
  <2>1. j \in 1 .. n /\ j - 1 \in 1 .. n /\ j \in Int /\ i \in Int /\ n \in Int /\ y \in Int
    BY <1>1
  <2>2. CASE j = i
    <3>1. j - 1 # i
      BY <2>1, <2>2
    <3>2. r[j - 1] = from[j - 1] /\ r[j] = y
      BY <2>1, <2>2, <3>1, <1>17
    <3> QED
      BY <2>2, <3>2, <1>5, <1>15
  <2>3. CASE j - 1 = i
    <3>1. j # i /\ i < n /\ j = i + 1
      BY <2>1, <2>3
    <3>2. r[j - 1] = y /\ r[j] = from[i + 1]
      BY <2>1, <2>3, <3>1, <1>17
    <3> QED
      BY <3>1, <3>2, <1>6, <1>15
  <2>4. CASE j # i /\ j - 1 # i
    <3>1. r[j - 1] = from[j - 1] /\ r[j] = from[j]
      BY <2>1, <2>4, <1>17
    <3> QED
      BY <3>1, <1>3
  <2> QED
    BY <2>2, <2>3, <2>4
<1> QED
  BY <1>1, <1>14, <1>16, <1>17, <1>18, OrderedIf

\* No knots are ordered.
LEMMA EmptyOrdered == Ordered(<<>>)
BY DEF Ordered, InOrder

\* A spline starts with nothing kept.
LEMMA SplineStarts ==
  ASSUME NEW a \in BOOLEAN, NEW b \in BOOLEAN, FitInit(a, b)
  PROVE  SplineInv
<1>1. /\ stage = (IF b THEN "spline" ELSE "idle") /\ np = 3 /\ try = <<>>
      /\ best = NoSpline /\ kept = NoSpline
      /\ step = [loop |-> 0, now |-> 0] /\ tries = 0 /\ seen = -1
  BY DEF FitInit
<1>2. stage \in InSteps \cup {"idle", "compare", "done"}
  BY <1>1 DEF InSteps
<1>3. /\ best.knots = <<>> /\ best.penalty = -1 /\ kept.knots = <<>> /\ kept.penalty = -1
      /\ step.loop = 0 /\ step.now = 0
  BY <1>1 DEF NoSpline
<1>4. seen = Lowest(kept.penalty, best.penalty)
  BY <1>1, <1>3 DEF Lowest
<1> QED
  BY <1>1, <1>2, <1>3, <1>4, EmptyOrdered DEF SplineInv

\* Every step of Initialize() and optimize() keeps the knots in order, and the smallest
\* penalty seen is that of the best of this stage or of what was kept before.
LEMMA SplineStep ==
  ASSUME SplineInv,
         \/ StartStage \/ SkipStage \/ SmallerStep \/ FinishStage \/ MoreKnots \/ TakeSpline
         \/ \E p \in Penalties, b, up \in BOOLEAN, i \in 2 .. Len(try) : TryKnots(p, b, i, up)
         \/ \E p \in Penalties : GiveUp(p)
  PROVE  SplineInv'
<1> USE DEF SplineInv
<1>1. CASE StartStage
  <2>1. Ordered(try')
    <3>1. try' \in StartKnots /\ np \in Nat /\ np >= 2 /\ Ordered(kept.knots)
      BY <1>1 DEF StartStage
    <3>2. CASE stage = "spline"
      <4>1. PICK p \in {0, Whole \div 8, Whole \div 2 + 1, Whole} : try' = Inserted(kept.knots, p)
        BY <3>1, <3>2 DEF StartKnots, FromSpline
      <4>2. p \in Int
        BY FitAssumption
      <4> QED
        BY <4>1, <4>2, <3>1, InsertedOrdered
    <3>3. CASE stage = "distance"
      <4>1. try' \in EqualDistance(np)
        BY <3>1, <3>3 DEF StartKnots
      <4> QED
        BY <4>1, <3>1, EqualDistanceOrdered
    <3>4. CASE stage = "probability"
      <4>1. try' \in EqualProbability(np)
        BY <3>1, <3>4 DEF StartKnots
      <4> QED
        BY <4>1, <3>1, EqualProbabilityOrdered
    <3> QED
      BY <3>2, <3>3, <3>4, <1>1 DEF StartStage
  <2>2. /\ best' = NoSpline /\ step' = [loop |-> FirstStep, now |-> FirstStep] /\ tries' = 0
        /\ stage' = stage /\ np' = np /\ kept' = kept /\ seen' = seen /\ stage \in InSteps
        /\ try = <<>>
    BY <1>1 DEF StartStage, InSteps
  <2>3. Ordered(best'.knots) /\ best'.penalty = -1 /\ step'.loop \in Nat /\ step'.now \in Nat
    BY <2>2, EmptyOrdered, FitAssumption DEF NoSpline
  <2>4. seen' = Lowest(kept'.penalty, best'.penalty)
    BY <2>2, <2>3
  <2> QED
    BY <2>1, <2>2, <2>3, <2>4
<1>2. CASE SkipStage
  BY <1>2 DEF SkipStage, InSteps
<1>3. CASE SmallerStep
  <2>1. /\ try # <<>> /\ tries = MaxTries /\ try' = best.knots
        /\ step' = [loop |-> step.loop \div 2, now |-> step.loop \div 2] /\ tries' = 0
        /\ stage' = stage /\ np' = np /\ best' = best /\ kept' = kept /\ seen' = seen
    BY <1>3 DEF SmallerStep
  <2>2. tries > 0 /\ best.penalty >= 0 /\ stage \in InSteps
    BY <2>1, FitAssumption
  <2>3. try' # <<>>
    <3>1. Len(try') = Len(try) /\ Len(try) # 0
      <4>1. Len(try) \in Nat
        BY KnotsIn
      <4>2. try \in Seq(0 .. Whole)
        BY DEF Ordered
      <4>3. Len(try) # 0
        BY <4>2, <2>1
      <4> QED
        BY <4>3, <2>1, <2>2
    <3> QED
      BY <3>1
  <2>4. step'.loop \in Nat /\ step'.now \in Nat
    BY <2>1
  <2>5. seen' = Lowest(kept'.penalty, best'.penalty)
    BY <2>1
  <2>6. Ordered(try') /\ Ordered(best'.knots) /\ Ordered(kept'.knots) /\ Len(best'.knots) = Len(try')
    BY <2>1
  <2>7. /\ best'.penalty \in Nat \cup {-1} /\ kept'.penalty \in Nat \cup {-1} /\ best'.penalty >= 0
        /\ np' \in Nat /\ np' >= 2 /\ tries' \in Nat /\ tries' = 0 /\ stage' \in InSteps
    BY <2>1, <2>2
  <2>8. /\ best'.penalty >= 0 => Len(best'.knots) = Len(try')
        /\ try' # <<>> => stage' \in InSteps /\ (tries' > 0 => best'.penalty >= 0)
        /\ try' = <<>> => best'.penalty = -1
    BY <2>3, <2>6, <2>7
  <2>9. stage' \in InSteps \cup {"idle", "compare", "done"}
    BY <2>7
  <2> QED
    BY <2>4, <2>5, <2>6, <2>7, <2>8, <2>9
<1>4. CASE FinishStage
  <2>1. /\ try # <<>> /\ tries = MaxTries
        /\ kept' = IF kept.penalty < 0 \/ best.penalty < kept.penalty THEN best ELSE kept
        /\ stage' = Stages[CHOOSE k \in 2 .. 4 : Stages[k - 1] = stage]
        /\ try' = <<>> /\ best' = NoSpline
        /\ np' = np /\ step' = step /\ tries' = tries /\ seen' = seen
    BY <1>4 DEF FinishStage
  <2>2. tries > 0 /\ best.penalty >= 0 /\ stage \in InSteps
    BY <2>1, FitAssumption
  <2>3. stage' \in {"distance", "probability", "compare"}
    <3>1. PICK k \in 2 .. 4 : k = CHOOSE j \in 2 .. 4 : Stages[j - 1] = stage
      <4>1. \E j \in 2 .. 4 : Stages[j - 1] = stage
        <5>1. Stages[2 - 1] = "spline" /\ Stages[3 - 1] = "distance" /\ Stages[4 - 1] = "probability"
          BY DEF Stages
        <5> QED
          BY <5>1, <2>2 DEF InSteps
      <4> QED
        BY <4>1
    <3>2. k = 2 \/ k = 3 \/ k = 4
      OBVIOUS
    <3>3. Stages[2] = "distance" /\ Stages[3] = "probability" /\ Stages[4] = "compare"
      BY DEF Stages
    <3>4. stage' = Stages[k]
      BY <2>1, <3>1
    <3> QED
      BY <3>2, <3>3, <3>4
  <2>4. Ordered(best'.knots) /\ best'.penalty = -1 /\ Ordered(try')
    BY <2>1, EmptyOrdered DEF NoSpline
  <2>5. seen' = Lowest(kept'.penalty, best'.penalty)
    <3>1. kept'.penalty = seen /\ seen >= 0
      BY <2>1, <2>2 DEF Lowest
    <3> QED
      BY <3>1, <2>1, <2>4 DEF Lowest
  <2>6. Ordered(kept'.knots) /\ kept'.penalty \in Nat \cup {-1}
    BY <2>1
  <2>7. /\ best'.penalty >= 0 => Len(best'.knots) = Len(try')
        /\ try' # <<>> => stage' \in InSteps /\ (tries' > 0 => best'.penalty >= 0)
        /\ try' = <<>> => best'.penalty = -1
    BY <2>1, <2>4
  <2>8. stage' \in InSteps \cup {"idle", "compare", "done"}
    BY <2>3 DEF InSteps
  <2>9. np' \in Nat /\ np' >= 2 /\ step'.loop \in Nat /\ step'.now \in Nat /\ tries' \in Nat
    BY <2>1
  <2> QED
    BY <2>4, <2>5, <2>6, <2>7, <2>8, <2>9
<1>5. CASE MoreKnots
  BY <1>5 DEF MoreKnots, InSteps
<1>6. CASE TakeSpline
  BY <1>6 DEF TakeSpline, InSteps
<1>7. ASSUME NEW penalty \in Penalties, NEW goBack \in BOOLEAN, NEW up \in BOOLEAN,
             NEW i \in 2 .. Len(try), TryKnots(penalty, goBack, i, up)
      PROVE  SplineInv'
  <2>1. PICK better : better = Better(penalty)
    OBVIOUS
  <2>2. PICK from : from = IF ~better /\ goBack THEN best.knots ELSE try
    OBVIOUS
  <2>3. PICK d \in Int : d = IF up THEN step.now ELSE -step.now
    OBVIOUS
  <2>4. PICK q : q = Proposed(from, i, d, step.now)
    OBVIOUS
  <2>5. /\ try # <<>>
        /\ best' = IF better THEN [knots |-> try, penalty |-> penalty] ELSE best
        /\ seen' = IF seen < 0 \/ penalty < seen THEN penalty ELSE seen
        /\ try' = [from EXCEPT ![i] = q.at]
        /\ step' = [step EXCEPT !.now = q.now]
        /\ tries' = tries + 1 /\ tries < MaxTries
        /\ stage' = stage /\ np' = np /\ kept' = kept
    BY <1>7, <2>1, <2>2, <2>3, <2>4 DEF TryKnots
  <2>6. penalty \in Nat
    BY FitAssumption
  <2>7. better <=> best.penalty < 0 \/ penalty < best.penalty
    BY <2>1 DEF Better
  <2>8. ~better => best.penalty >= 0 /\ Len(best.knots) = Len(try)
    BY <2>6, <2>7
  <2>9. Ordered(from) /\ Len(from) = Len(try)
    BY <2>2, <2>8
  <2>10. q.now \in Nat /\ Ordered(try') /\ Len(try') = Len(from)
    <3>1. i \in 2 .. Len(from) /\ step.now \in Nat
      BY <2>9
    <3>2. PICK now \in Nat : now = step.now
      BY <3>1
    <3>3. q = Proposed(from, i, d, now)
      BY <3>2, <2>4
    <3>4. /\ q.now \in Nat /\ Ordered([from EXCEPT ![i] = q.at])
          /\ Len([from EXCEPT ![i] = q.at]) = Len(from)
      BY <3>1, <3>3, <2>9, MovedOrdered
    <3> QED
      BY <3>4, <2>5
  <2>11. best'.penalty \in Nat /\ Ordered(best'.knots) /\ Len(best'.knots) = Len(try)
    <3>1. CASE better
      BY <3>1, <2>5, <2>6
    <3>2. CASE ~better
      BY <3>2, <2>5, <2>8
    <3> QED
      BY <3>1, <3>2
  <2>12. seen' = Lowest(kept'.penalty, best'.penalty)
    <3>1. CASE better
      <4>1. best'.penalty = penalty
        BY <3>1, <2>5
      <4> QED
        BY <4>1, <3>1, <2>5, <2>6, <2>7, SMTT(30) DEF Lowest
    <3>2. CASE ~better
      BY <3>2, <2>5, <2>6, <2>7, <2>8 DEF Lowest
    <3> QED
      BY <3>1, <3>2
  <2>13. try' # <<>> /\ Len(try') = Len(try)
    <3>1. Len(try) \in Nat /\ i \in 2 .. Len(try)
      BY KnotsIn
    <3>2. Len(try') >= 2
      BY <3>1, <2>9, <2>10
    <3> QED
      BY <3>2, <2>9, <2>10
  <2>14. step'.loop \in Nat /\ step'.now \in Nat
    <3>1. step'.loop = step.loop /\ step'.now = q.now
      BY <2>5
    <3> QED
      BY <3>1, <2>10
  <2> QED
    BY <2>5, <2>10, <2>11, <2>12, <2>13, <2>14
<1>8. ASSUME NEW penalty \in Penalties, GiveUp(penalty)
      PROVE  SplineInv'
  <2>1. /\ best.penalty >= 0 /\ penalty \in Nat /\ penalty >= best.penalty
        /\ seen' = IF penalty < seen THEN penalty ELSE seen
        /\ tries' = MaxTries /\ MaxTries \in Nat
        /\ UNCHANGED <<stage, np, try, best, kept, step>>
    BY <1>8, FitAssumption DEF GiveUp, Better
  <2>2. seen' = seen
    BY <2>1 DEF Lowest
  <2> QED
    BY <2>1, <2>2 DEF Ordered, InOrder, Lowest
<1> QED
  BY <1>1, <1>2, <1>3, <1>4, <1>5, <1>6, <1>7, <1>8

\* Min and Max of a set of numbers that has a least and, being bounded, a greatest.
LEMMA MinOf ==
  ASSUME NEW S, S \subseteq Nat, S # {}, NEW m, m = Min(S)
  PROVE  m \in S /\ \A x \in S : m <= x
<1>1. \E x \in S : \A y \in S : x <= y
  BY Least
<1> QED
  BY <1>1 DEF Min

LEMMA MaxOf ==
  ASSUME NEW N \in Nat, NEW S, S \subseteq 0 .. N, S # {}, NEW m, m = Max(S)
  PROVE  m \in S /\ \A x \in S : x <= m
<1>1. PICK T : T = {N - x : x \in S}
  OBVIOUS
<1>2. T \subseteq Nat /\ T # {}
  <2>1. \A x \in S : N - x \in Nat
    OBVIOUS
  <2> QED
    BY <2>1, <1>1
<1>3. PICK t \in T : \A y \in T : t <= y
  BY <1>2, Least
<1>4. PICK x \in S : t = N - x
  BY <1>1, <1>3
<1>5. \A y \in S : x >= y
  <2> TAKE y \in S
  <2>1. N - y \in T
    BY <1>1
  <2>2. N - x <= N - y /\ x \in Int /\ y \in Int
    BY <2>1, <1>3, <1>4
  <2> QED
    BY <2>2
<1>6. m \in S /\ \A y \in S : m >= y
  BY <1>5 DEF Max
<1>7. \A y \in S : y \in Int
  OBVIOUS
<1> QED
  BY <1>6, <1>7

\* What is behind the element removed moves down by one.
LEMMA RemovedAt ==
  ASSUME NEW S, NEW s \in Seq(S), NEW p \in 1 .. Len(s)
  PROVE  /\ RemoveAt(s, p) \in Seq(S) /\ Len(RemoveAt(s, p)) = Len(s) - 1
         /\ \A k \in 1 .. Len(s) - 1 : RemoveAt(s, p)[k] = IF k < p THEN s[k] ELSE s[k + 1]
<1>0. PICK r : r = RemoveAt(s, p)
  OBVIOUS
<1>1. PICK n \in Nat : n = Len(s)
  OBVIOUS
<1>2. PICK a \in Seq(S) : a = SubSeq(s, 1, p - 1) /\ Len(a) = p - 1
                          /\ \A k \in 1 .. p - 1 : a[k] = s[k]
  <2>1. PICK z : z = SubSeq(s, 1, p - 1)
    OBVIOUS
  <2>2. z \in Seq(S) /\ Len(z) = p - 1 /\ \A k \in 1 .. p - 1 : z[k] = s[k]
    BY <2>1, <1>1
  <2> QED
    BY <2>1, <2>2
<1>3. PICK b \in Seq(S) : b = SubSeq(s, p + 1, n) /\ Len(b) = n - p
                          /\ \A k \in 1 .. n - p : b[k] = s[p + k]
  <2>1. PICK z : z = SubSeq(s, p + 1, n)
    OBVIOUS
  <2>2. z \in Seq(S) /\ Len(z) = n - p
    BY <2>1, <1>1
  <2>3. ASSUME NEW k \in 1 .. n - p
        PROVE  z[k] = s[p + k]
    <3>1. z[k] = s[(p + 1) + k - 1] /\ (p + 1) + k - 1 = p + k
      BY <2>1, <1>1
    <3> QED
      BY <3>1
  <2> QED
    BY <2>1, <2>2, <2>3
<1>4. r = a \o b
  BY <1>0, <1>1, <1>2, <1>3 DEF RemoveAt
<1>5. /\ r \in Seq(S) /\ Len(r) = Len(a) + Len(b)
      /\ \A k \in 1 .. Len(a) + Len(b) : r[k] = IF k <= Len(a) THEN a[k] ELSE b[k - Len(a)]
  BY <1>2, <1>3, <1>4
<1>6. Len(r) = n - 1 /\ Len(a) + Len(b) = n - 1
  <2>1. Len(a) = p - 1 /\ Len(b) = n - p /\ p \in Int
    BY <1>2, <1>3
  <2> QED
    BY <2>1, <1>5
<1>7. ASSUME NEW k \in 1 .. n - 1
      PROVE  r[k] = IF k < p THEN s[k] ELSE s[k + 1]
  <2>1. CASE k < p
    <3>1. k <= p - 1 /\ k \in 1 .. p - 1
      BY <2>1
    <3> QED
      BY <3>1, <2>1, <1>2, <1>5, <1>6
  <2>2. CASE ~(k < p)
    <3>1. ~(k <= p - 1) /\ k - (p - 1) \in 1 .. n - p /\ p + (k - (p - 1)) = k + 1
      BY <2>2, <1>1
    <3>2. r[k] = b[k - (p - 1)]
      BY <3>1, <1>2, <1>5, <1>6
    <3>3. b[k - (p - 1)] = s[k + 1]
      BY <3>1, <1>3
    <3> QED
      BY <3>2, <3>3, <2>2
  <2> QED
    BY <2>1, <2>2
<1> QED
  BY <1>0, <1>1, <1>5, <1>6, <1>7

\* A mean is between what it is the mean of.
LEMMA MeanBetween ==
  ASSUME NEW x \in Int, NEW y \in Int, x <= y, NEW v \in Nat \ {0}, NEW w \in Nat \ {0}
  PROVE  LET m == (x * v + y * w) \div (v + w) IN m \in Int /\ x <= m /\ m <= y
<1>1. PICK c \in Nat \ {0} : c = v + w
  OBVIOUS
<1>2. PICK r \in Nat : y = x + r
  OBVIOUS
<1>3. r * w \in Nat /\ r * v \in Nat /\ x * v \in Int /\ x * w \in Int
  BY <1>2
<1>4. y * w = x * w + r * w /\ y * v = x * v + r * v
  BY <1>2
<1>5. c * x = x * v + x * w /\ c * y = y * v + y * w
  BY <1>1
<1>6. PICK s \in Int : s = x * v + y * w
  BY <1>3, <1>4
<1>7. c * x <= s /\ s <= c * y /\ c * x \in Int /\ c * y \in Int
  BY <1>3, <1>4, <1>5, <1>6
<1>8. (c * x) \div c <= s \div c /\ s \div c <= (c * y) \div c /\ s \div c \in Int
  BY <1>7, QuotientsRise
<1>9. (c * x) \div c = x /\ (c * y) \div c = y
  BY QuotientOfProduct
<1> QED
  BY <1>1, <1>6, <1>8, <1>9

\* The members of a histogram.
LEMMA HistIn ==
  ASSUME NEW h, IsCumulative(h)
  PROVE  /\ Size(h) \in Nat \ {0} /\ Len(h.border) = Size(h) + 1
         /\ \A b \in 1 .. Size(h) + 1 : h.border[b] \in Int
         /\ \A b \in 1 .. Size(h) : h.content[b] \in 0 .. Whole /\ h.content[b] \in Int
<1>1. PICK S : S = 0 .. Whole
  OBVIOUS
<1>2. h.content \in Seq(S) /\ h.border \in Seq(Int)
  BY <1>1 DEF IsCumulative
<1>3. Len(h.content) \in Nat /\ \A b \in 1 .. Len(h.content) : h.content[b] \in S
  BY <1>2
<1>4. \A b \in 1 .. Len(h.border) : h.border[b] \in Int
  BY <1>2
<1> QED
  BY <1>1, <1>3, <1>4, FitAssumption DEF IsCumulative, Size

\* Merging two neighbours, neither of them the last bin, keeps what rises rising and
\* takes one border out.
LEMMA MergeKeeps ==
  ASSUME NEW h, IsCumulative(h), NEW b \in 1 .. Size(h) - 2, NEW g, g = MergePair(h, b)
  PROVE  /\ IsCumulative(g) /\ Size(g) = Size(h) - 1
         /\ \A k \in 1 .. Size(h) : g.border[k] = IF k < b + 1 THEN h.border[k] ELSE h.border[k + 1]
<1>1. PICK n \in Nat \ {0} : n = Size(h) /\ Len(h.border) = n + 1
  BY HistIn
<1>2. /\ \A k \in 1 .. n + 1 : h.border[k] \in Int
      /\ \A k \in 1 .. n : h.content[k] \in 0 .. Whole /\ h.content[k] \in Int
  BY <1>1, HistIn
<1>3. /\ \A k, c \in 1 .. n + 1 : k < c => h.border[k] < h.border[c]
      /\ \A k \in 2 .. n : h.content[k - 1] <= h.content[k]
  BY <1>1 DEF IsCumulative, Size
<1>4. b \in 1 .. n - 2 /\ b \in Int /\ b + 1 \in 1 .. n /\ n >= 3
  BY <1>1
<1>5. PICK e : e = RemoveAt(h.border, b + 1)
  OBVIOUS
<1>6. e \in Seq(Int) /\ Len(e) = n /\ \A k \in 1 .. n : e[k] = IF k < b + 1 THEN h.border[k] ELSE h.border[k + 1]
  <2>1. h.border \in Seq(Int) /\ b + 1 \in 1 .. Len(h.border)
    BY <1>1, <1>4 DEF IsCumulative
  <2>2. PICK s \in Seq(Int) : s = h.border
    BY <2>1
  <2>3. PICK p \in 1 .. Len(s) : p = b + 1
    BY <2>1, <2>2
  <2>4. e = RemoveAt(s, p)
    BY <2>2, <2>3, <1>5
  <2>5. e \in Seq(Int) /\ Len(e) = Len(s) - 1
        /\ \A k \in 1 .. Len(s) - 1 : e[k] = IF k < p THEN s[k] ELSE s[k + 1]
    <3>1. /\ RemoveAt(s, p) \in Seq(Int) /\ Len(RemoveAt(s, p)) = Len(s) - 1
          /\ \A k \in 1 .. Len(s) - 1 : RemoveAt(s, p)[k] = IF k < p THEN s[k] ELSE s[k + 1]
      BY RemovedAt
    <3> QED
      BY <3>1, <2>4
  <2>6. Len(s) - 1 = n
    <3>1. Len(s) = n + 1 /\ n \in Nat
      BY <1>1, <2>2
    <3> QED
      BY <3>1
  <2> QED
    BY <2>2, <2>3, <2>5, <2>6
<1>7. PICK d : d = RemoveAt(h.content, b + 1)
  OBVIOUS
<1>8. PICK S : S = 0 .. Whole
  OBVIOUS
<1>9. /\ d \in Seq(S) /\ Len(d) = n - 1
      /\ \A k \in 1 .. n - 1 : d[k] = IF k < b + 1 THEN h.content[k] ELSE h.content[k + 1]
  <2>1. h.content \in Seq(S) /\ Len(h.content) = n /\ b + 1 \in 1 .. Len(h.content)
    BY <1>1, <1>4, <1>8 DEF IsCumulative, Size
  <2>2. PICK s \in Seq(S) : s = h.content
    BY <2>1
  <2>3. PICK p \in 1 .. Len(s) : p = b + 1
    BY <2>1, <2>2
  <2>4. d = RemoveAt(s, p)
    BY <2>2, <2>3, <1>7
  <2>5. d \in Seq(S) /\ Len(d) = Len(s) - 1
        /\ \A k \in 1 .. Len(s) - 1 : d[k] = IF k < p THEN s[k] ELSE s[k + 1]
    <3>1. /\ RemoveAt(s, p) \in Seq(S) /\ Len(RemoveAt(s, p)) = Len(s) - 1
          /\ \A k \in 1 .. Len(s) - 1 : RemoveAt(s, p)[k] = IF k < p THEN s[k] ELSE s[k + 1]
      BY RemovedAt
    <3> QED
      BY <3>1, <2>4
  <2> QED
    BY <2>1, <2>2, <2>3, <2>5
<1>10. PICK m \in 0 .. Whole : m = Mean(h, b) /\ h.content[b] <= m /\ m <= h.content[b + 1]
  <2>1. PICK x \in 0 .. Whole : x = h.content[b]
    BY <1>2, <1>4
  <2>2. PICK y \in 0 .. Whole : y = h.content[b + 1]
    BY <1>2, <1>4
  <2>3. x <= y
    <3>1. b + 1 \in 2 .. n /\ (b + 1) - 1 = b
      BY <1>4
    <3> QED
      BY <3>1, <2>1, <2>2, <1>3
  <2>4. b \in 1 .. n + 1 /\ b + 1 \in 1 .. n + 1 /\ (b + 1) + 1 \in 1 .. n + 1 /\ b < b + 1
        /\ b + 1 < (b + 1) + 1
    BY <1>4
  <2>5. PICK v \in Nat \ {0} : v = h.border[b + 1] - h.border[b]
    <3>1. h.border[b] < h.border[b + 1] /\ h.border[b] \in Int /\ h.border[b + 1] \in Int
      BY <2>4, <1>2, <1>3
    <3> QED
      BY <3>1
  <2>6. PICK w \in Nat \ {0} : w = h.border[(b + 1) + 1] - h.border[b + 1]
    <3>1. h.border[b + 1] < h.border[(b + 1) + 1] /\ h.border[b + 1] \in Int /\ h.border[(b + 1) + 1] \in Int
      BY <2>4, <1>2, <1>3
    <3> QED
      BY <3>1
  <2>7. Mean(h, b) = (x * v + y * w) \div (v + w)
    BY <2>1, <2>2, <2>5, <2>6 DEF Mean
  <2>8. Mean(h, b) \in Int /\ x <= Mean(h, b) /\ Mean(h, b) <= y
    <3>1. x \in Int /\ y \in Int
      BY FitAssumption
    <3> QED
      BY <3>1, <2>3, <2>7, MeanBetween
  <2> QED
    BY <2>1, <2>2, <2>8, FitAssumption
<1>11. PICK f : f = [d EXCEPT ![b] = m]
  OBVIOUS
<1>12. /\ f \in Seq(S) /\ Len(f) = n - 1 /\ f[b] = m
       /\ \A k \in 1 .. n - 1 : k < b => f[k] = h.content[k]
       /\ \A k \in 1 .. n - 1 : k > b => f[k] = h.content[k + 1]
  <2>1. b \in 1 .. n - 1 /\ m \in S
    BY <1>4, <1>8
  <2>2. f \in Seq(S) /\ Len(f) = n - 1 /\ f[b] = m /\ \A k \in 1 .. n - 1 : k # b => f[k] = d[k]
    BY <2>1, <1>9, <1>11
  <2>3. \A k \in 1 .. n - 1 : k < b => k # b /\ k < b + 1
    BY <1>4
  <2>4. \A k \in 1 .. n - 1 : k > b => k # b /\ ~(k < b + 1)
    BY <1>4
  <2> QED
    BY <2>2, <2>3, <2>4, <1>9
<1>13. g = [border |-> e, content |-> f]
  BY <1>5, <1>7, <1>10, <1>11 DEF MergePair
<1>14. Size(g) = n - 1 /\ g.border = e /\ g.content = f
  BY <1>12, <1>13 DEF Size
<1>15. ASSUME NEW k \in 1 .. n, NEW c \in 1 .. n, k < c
       PROVE  e[k] < e[c]
  <2>1. k \in 1 .. n + 1 /\ k + 1 \in 1 .. n + 1 /\ c \in 1 .. n + 1 /\ c + 1 \in 1 .. n + 1
        /\ k < c + 1 /\ k + 1 < c + 1
    BY <1>15, <1>4
  <2>2. /\ h.border[k] < h.border[c] /\ h.border[k] < h.border[c + 1]
        /\ h.border[k + 1] < h.border[c + 1]
    BY <2>1, <1>3, <1>15
  <2>3. /\ e[k] = IF k < b + 1 THEN h.border[k] ELSE h.border[k + 1]
        /\ e[c] = IF c < b + 1 THEN h.border[c] ELSE h.border[c + 1]
    BY <1>6
  <2>4. ~(k < b + 1) => ~(c < b + 1)
    BY <1>4, <1>15
  <2> QED
    BY <2>2, <2>3, <2>4
<1>16. ASSUME NEW k \in 2 .. n - 1
       PROVE  f[k - 1] <= f[k]
  <2>1. k \in 1 .. n - 1 /\ k - 1 \in 1 .. n - 1 /\ k \in 2 .. n /\ k + 1 \in 2 .. n
        /\ (k + 1) - 1 = k /\ (k - 1) + 1 = k /\ k \in Int
    BY <1>4
  <2>2. CASE k < b
    <3>1. k - 1 < b
      BY <2>1, <2>2, <1>4
    <3> QED
      BY <3>1, <2>1, <2>2, <1>3, <1>12
  <2>3. CASE k = b
    <3>1. k - 1 < b
      BY <2>1, <2>3, <1>4
    <3>2. f[k - 1] = h.content[k - 1] /\ f[k] = m
      BY <3>1, <2>1, <2>3, <1>12
    <3>3. h.content[k - 1] <= h.content[b] /\ h.content[k - 1] \in Int /\ h.content[b] \in Int /\ m \in Int
      BY <2>1, <2>3, <1>2, <1>3, <1>4
    <3> QED
      BY <3>2, <3>3, <1>10
  <2>4. CASE k - 1 = b
    <3>1. k > b
      BY <2>1, <2>4, <1>4
    <3>2. f[k - 1] = m /\ f[k] = h.content[k + 1]
      BY <3>1, <2>1, <2>4, <1>12
    <3>3. /\ h.content[k] <= h.content[k + 1] /\ m <= h.content[k] /\ m \in Int
          /\ h.content[k] \in Int /\ h.content[k + 1] \in Int
      BY <2>1, <2>4, <1>2, <1>3, <1>10
    <3> QED
      BY <3>2, <3>3
  <2>5. CASE k - 1 > b
    <3>1. k > b
      BY <2>1, <2>5, <1>4
    <3>2. f[k - 1] = h.content[k] /\ f[k] = h.content[k + 1]
      BY <3>1, <2>1, <2>5, <1>12
    <3>3. h.content[k] <= h.content[k + 1]
      BY <2>1, <1>3
    <3> QED
      BY <3>2, <3>3
  <2>6. k < b \/ k = b \/ k - 1 = b \/ k - 1 > b
    BY <2>1, <1>4
  <2> QED
    BY <2>2, <2>3, <2>4, <2>5, <2>6
<1>17. IsCumulative(g)
  <2>1. /\ e \in Seq(Int) /\ f \in Seq(0 .. Whole) /\ Len(f) = n - 1 /\ Len(e) = n
        /\ n - 1 >= 1 /\ n = (n - 1) + 1
    BY <1>4, <1>6, <1>8, <1>12
  <2>2. g \in [border : Seq(Int), content : Seq(0 .. Whole)]
    BY <2>1, <1>13
  <2> QED
    BY <2>1, <2>2, <1>14, <1>15, <1>16 DEF IsCumulative
<1> QED
  BY <1>1, <1>6, <1>14, <1>17

\* smart_rebin() keeps the borders a choice of the input's with its first and its last
\* two, and the contents rising.
LEMMA MergedStays ==
  ASSUME NEW h, IsCumulative(input), MergedFrom(h)
  PROVE  MergedFrom(SmartRebin(h))
<1>1. CASE Pairs(h) = {}
  BY <1>1 DEF SmartRebin
<1>2. CASE Pairs(h) # {}
  <2>1. PICK n \in Nat \ {0} : n = Size(h) /\ Len(h.border) = n + 1
    BY HistIn DEF MergedFrom
  <2>2. Pairs(h) \subseteq Nat
    BY <2>1 DEF Pairs
  <2>3. PICK b \in Pairs(h) : b = Min(Pairs(h))
    BY <2>2, <1>2, MinOf
  <2>4. b \in 1 .. Size(h) - 2
    BY DEF Pairs
  <2>5. PICK g : g = MergePair(h, b)
    OBVIOUS
  <2>6. SmartRebin(h) = g
    BY <2>3, <2>5, <1>2 DEF SmartRebin
  <2>7. IsCumulative(h)
    BY DEF MergedFrom
  <2>8. /\ IsCumulative(g) /\ Size(g) = Size(h) - 1
        /\ \A k \in 1 .. Size(h) : g.border[k] = IF k < b + 1 THEN h.border[k] ELSE h.border[k + 1]
    BY <2>4, <2>5, <2>7, MergeKeeps
  <2>9. Len(g.border) = n /\ Size(g) = n - 1
    BY <2>1, <2>8, HistIn
  <2>10. ASSUME NEW k \in 1 .. n
         PROVE  \E c \in 1 .. Len(input.border) : g.border[k] = input.border[c]
    <3>1. k \in 1 .. n + 1 /\ k + 1 \in 1 .. n + 1
      BY <2>1
    <3>2. g.border[k] = h.border[k] \/ g.border[k] = h.border[k + 1]
      BY <2>1, <2>8
    <3> QED
      BY <3>1, <3>2, <2>1 DEF MergedFrom
  <2>11. /\ g.border[1] = h.border[1] /\ g.border[n - 1] = h.border[n]
         /\ g.border[n] = h.border[n + 1]
    <3>1. b \in 1 .. n - 2 /\ b \in Int /\ n \in Int
      BY <2>1, <2>4
    <3>2. 1 < b + 1 /\ ~(n - 1 < b + 1) /\ ~(n < b + 1) /\ 1 \in 1 .. n /\ n - 1 \in 1 .. n
          /\ n \in 1 .. n /\ (n - 1) + 1 = n
      BY <3>1
    <3> QED
      BY <3>2, <2>1, <2>8
  <2>12. MergedFrom(g)
    <3>1. /\ h.border[1] = input.border[1] /\ h.border[n] = input.border[Size(input)]
          /\ h.border[n + 1] = input.border[Size(input) + 1]
      BY <2>1 DEF MergedFrom
    <3>2. Size(g) + 1 = n
      BY <2>1, <2>9
    <3> QED
      BY <3>1, <3>2, <2>8, <2>9, <2>10, <2>11 DEF MergedFrom
  <2> QED
    BY <2>6, <2>12
<1> QED
  BY <1>1, <1>2

\* The bin that holds the centre of a bin of the input; but for the centre of the last
\* one it is not the last.
LEMMA CentreIsIn ==
  ASSUME NEW h, IsCumulative(input), MergedFrom(h), NEW i \in 1 .. Size(input),
         NEW t, t = BinAt(h, input.border[i] + input.border[i + 1])
  PROVE  t \in 1 .. Size(h) /\ (i < Size(input) => t < Size(h))
<1>1. PICK n \in Nat \ {0} : n = Size(h) /\ Len(h.border) = n + 1
  BY HistIn DEF MergedFrom
<1>2. PICK m \in Nat \ {0} : m = Size(input) /\ Len(input.border) = m + 1
  BY HistIn
<1>3. i \in 1 .. m /\ i \in 1 .. m + 1 /\ i + 1 \in 1 .. m + 1 /\ 1 \in 1 .. m + 1 /\ i \in Int
  BY <1>2
<1>4. /\ \A k \in 1 .. m + 1 : input.border[k] \in Int
      /\ \A k, c \in 1 .. m + 1 : k < c => input.border[k] < input.border[c]
  BY <1>2, HistIn DEF IsCumulative
<1>5. \A k \in 1 .. n + 1 : h.border[k] \in Int
  BY <1>1, HistIn DEF MergedFrom
<1>6. PICK x \in Int : x = input.border[i]
  BY <1>3, <1>4
<1>7. PICK y \in Int : y = input.border[i + 1]
  BY <1>3, <1>4
<1>8. x < y /\ input.border[1] <= x /\ input.border[1] \in Int
  <2>1. i < i + 1 /\ (i = 1 \/ 1 < i)
    BY <1>3
  <2> QED
    BY <2>1, <1>3, <1>4, <1>6, <1>7
<1>9. PICK T : T = {b \in 1 .. n : 2 * h.border[b] <= x + y}
  OBVIOUS
<1>10. t = Max(T)
  BY <1>1, <1>6, <1>7, <1>9 DEF BinAt
<1>11. 1 \in T
  <2>1. h.border[1] = input.border[1] /\ 1 \in 1 .. n
    BY <1>1 DEF MergedFrom
  <2>2. 2 * h.border[1] <= x + y
    BY <2>1, <1>8
  <2> QED
    BY <2>1, <2>2, <1>9
<1>12. T \subseteq 0 .. n /\ T # {}
  BY <1>9, <1>11
<1>13. t \in T
  BY <1>10, <1>12, MaxOf
<1>14. t \in 1 .. n /\ 2 * h.border[t] <= x + y
  BY <1>9, <1>13
<1>15. ASSUME i < m, t = n PROVE FALSE
  <2>1. h.border[n] = input.border[m] /\ m \in 1 .. m + 1
    <3>1. h.border[Size(h)] = input.border[Size(input)]
      BY DEF MergedFrom
    <3>2. m \in 1 .. m + 1
      OBVIOUS
    <3> QED
      BY <3>1, <3>2, <1>1, <1>2
  <2>2. y <= input.border[m] /\ input.border[m] \in Int
    <3>1. i + 1 = m \/ i + 1 < m
      BY <1>15, <1>3
    <3> QED
      BY <3>1, <2>1, <1>3, <1>4, <1>7
  <2> QED
    BY <2>1, <2>2, <1>8, <1>14, <1>15
<1> QED
  <2>1. i < m => t # n
    BY <1>15
  <2>2. t \in Int /\ t <= n
    BY <1>14
  <2> QED
    BY <2>1, <2>2, <1>1, <1>2, <1>14

\* A histogram closer than the cut is so in every bin.
LEMMA CloseEverywhere ==
  ASSUME NEW h, IsCumulative(input), MergedFrom(h), MaxDev(h) < cut,
         NEW i \in 1 .. Size(input), cut \in Int
  PROVE  Deviation(h, i) < cut
<1>1. PICK w \in Nat : w = Whole
  BY FitAssumption
<1>2. ASSUME NEW j \in 1 .. Size(input)
      PROVE  Deviation(h, j) \in 0 .. w
  <2>1. PICK t : t = BinAt(h, input.border[j] + input.border[j + 1])
    OBVIOUS
  <2>2. t \in 1 .. Size(h)
    BY <2>1, CentreIsIn
  <2>3. PICK a \in 0 .. w : a = h.content[t]
    BY <2>2, <1>1, HistIn DEF MergedFrom
  <2>4. PICK b \in 0 .. w : b = input.content[j]
    BY <1>1, HistIn
  <2>5. Deviation(h, j) = IF a > b THEN a - b ELSE b - a
    BY <2>1, <2>3, <2>4 DEF Deviation
  <2> QED
    BY <2>5
<1>3. PICK T : T = {Deviation(h, j) : j \in 1 .. Size(input)}
  OBVIOUS
<1>4. T \subseteq 0 .. w /\ Deviation(h, i) \in T
  BY <1>2, <1>3
<1>5. PICK m : m = Max(T)
  OBVIOUS
<1>6. m \in T /\ Deviation(h, i) <= m
  BY <1>4, <1>5, MaxOf
<1>7. m < cut
  BY <1>3, <1>5 DEF MaxDev
<1>8. m \in Int /\ Deviation(h, i) \in Int
  <2>1. m \in 0 .. w /\ Deviation(h, i) \in 0 .. w
    BY <1>2, <1>4, <1>6
  <2> QED
    BY <2>1
<1> QED
  BY <1>6, <1>7, <1>8

\* Raising the last content to the whole moves no deviation but the last one's.
LEMMA LastRaised ==
  ASSUME NEW h, IsCumulative(input), MergedFrom(h),
         NEW g, g = [h EXCEPT !.content[Size(h)] = Whole]
  PROVE  /\ MergedFrom(g) /\ g.content[Size(g)] = Whole
         /\ \A i \in 1 .. Size(input) - 1 : Deviation(g, i) = Deviation(h, i)
<1>1. PICK n \in Nat \ {0} : n = Size(h) /\ Len(h.border) = n + 1
  BY HistIn DEF MergedFrom
<1>2. PICK S : S = 0 .. Whole
  OBVIOUS
<1>3. h.content \in Seq(S) /\ Len(h.content) = n /\ IsCumulative(h)
  BY <1>1, <1>2 DEF MergedFrom, IsCumulative, Size
<1>4. Whole \in S
  BY <1>2, FitAssumption
<1>5. PICK c : c = [h.content EXCEPT ![n] = Whole]
  OBVIOUS
<1>6. c \in Seq(S) /\ Len(c) = n /\ c[n] = Whole /\ \A k \in 1 .. n : k # n => c[k] = h.content[k]
  <2>1. n \in 1 .. n
    OBVIOUS
  <2> QED
    BY <2>1, <1>3, <1>4, <1>5
<1>7. g = [border |-> h.border, content |-> c]
  <2>1. h = [border |-> h.border, content |-> h.content]
    BY <1>3 DEF IsCumulative
  <2> QED
    BY <2>1, <1>1, <1>5
<1>8. g.border = h.border /\ g.content = c /\ Size(g) = n
  BY <1>6, <1>7 DEF Size
<1>9. ASSUME NEW k \in 2 .. n
      PROVE  c[k - 1] <= c[k]
  <2>1. k - 1 \in 1 .. n /\ k \in 1 .. n /\ k - 1 # n /\ k \in Int
    OBVIOUS
  <2>2. c[k - 1] = h.content[k - 1] /\ h.content[k - 1] \in Int /\ h.content[k - 1] <= Whole
    BY <2>1, <1>1, <1>3, <1>6, HistIn
  <2>3. CASE k = n
    BY <2>2, <2>3, <1>6
  <2>4. CASE k # n
    <3>1. h.content[k - 1] <= h.content[k] /\ c[k] = h.content[k]
      BY <2>1, <2>4, <1>3, <1>6 DEF IsCumulative
    <3> QED
      BY <3>1, <2>2
  <2> QED
    BY <2>3, <2>4
<1>10. IsCumulative(g)
  <2>1. g \in [border : Seq(Int), content : Seq(0 .. Whole)] /\ Len(g.content) = n
        /\ Len(g.content) >= 1 /\ Len(g.border) = Len(g.content) + 1
    BY <1>1, <1>2, <1>3, <1>6, <1>7, <1>8 DEF IsCumulative
  <2>2. \A b, d \in 1 .. Len(g.border) : b < d => g.border[b] < g.border[d]
    BY <1>3, <1>8 DEF IsCumulative
  <2>3. \A b \in 2 .. Len(g.content) : g.content[b - 1] <= g.content[b]
    BY <2>1, <1>8, <1>9
  <2> QED
    BY <2>1, <2>2, <2>3 DEF IsCumulative
<1>11. MergedFrom(g)
  BY <1>1, <1>8, <1>10 DEF MergedFrom
<1>12. ASSUME NEW i \in 1 .. Size(input) - 1
       PROVE  Deviation(g, i) = Deviation(h, i)
  <2>0. PICK j \in 1 .. Size(input) : j = i /\ j < Size(input)
    <3>1. Size(input) \in Nat
      BY HistIn
    <3> QED
      BY <3>1
  <2>1. PICK t : t = BinAt(h, input.border[j] + input.border[j + 1])
    OBVIOUS
  <2>2. t = BinAt(g, input.border[j] + input.border[j + 1])
    BY <2>1, <1>1, <1>8 DEF BinAt
  <2>3. t \in 1 .. Size(h) /\ t < Size(h)
    BY <2>0, <2>1, CentreIsIn
  <2>4. t \in 1 .. n /\ t # n
    BY <2>3, <1>1
  <2>5. g.content[t] = h.content[t]
    BY <2>4, <1>6, <1>8
  <2> QED
    BY <2>0, <2>1, <2>2, <2>5 DEF Deviation
<1> QED
  BY <1>6, <1>8, <1>11, <1>12

\* The piece a number falls in, when the last content is the whole.
LEMMA InItsPiece ==
  ASSUME NEW h, IsCumulative(h), h.content[Size(h)] = Whole, NEW rnd \in 0 .. Whole - 1,
         NEW p, p = Piece(h, rnd)
  PROVE  p.y1 <= p.rnd /\ p.rnd < p.y2 /\ p.x1 < p.x2
<1>1. PICK n \in Nat \ {0} : n = Size(h) /\ Len(h.border) = n + 1
  BY HistIn
<1>2. PICK w \in Nat \ {0} : w = Whole
  BY FitAssumption
<1>3. /\ \A k \in 1 .. n : h.content[k] \in 0 .. w /\ h.content[k] \in Int
      /\ \A k, c \in 1 .. n + 1 : k < c => h.border[k] < h.border[c]
      /\ \A k \in 1 .. n + 1 : h.border[k] \in Int
  BY <1>1, <1>2, HistIn DEF IsCumulative
<1>4. PICK T : T = {j \in 1 .. n : h.content[j] > rnd}
  OBVIOUS
<1>5. n \in T /\ T \subseteq Nat /\ rnd \in Int /\ 0 <= rnd /\ rnd < w
  BY <1>1, <1>2, <1>4
<1>6. PICK i : i = Min(T)
  OBVIOUS
<1>7. i \in T /\ \A j \in T : i <= j
  BY <1>5, <1>6, MinOf
<1>8. i \in 1 .. n /\ h.content[i] > rnd /\ i \in Int
  BY <1>4, <1>7
<1>9. PICK toEnd \in BOOLEAN : toEnd = (i > 1 /\ i + 1 = n)
  OBVIOUS
<1>10. p = [rnd |-> rnd,
            x1 |-> h.border[i],
            x2 |-> IF toEnd THEN h.border[n + 1] ELSE h.border[i + 1],
            y1 |-> IF i = 1 THEN 0 ELSE h.content[i - 1],
            y2 |-> IF toEnd THEN h.content[n] ELSE h.content[i]]
  <2>1. \E j \in 1 .. Size(h) : h.content[j] > rnd
    BY <1>1, <1>8
  <2>2. i = Min({j \in 1 .. Size(h) : h.content[j] > rnd})
    BY <1>1, <1>4, <1>6
  <2> QED
    BY <2>1, <2>2, <1>1, <1>9 DEF Piece
<1>11. p.y1 <= p.rnd
  <2>1. CASE i = 1
    BY <2>1, <1>5, <1>10
  <2>2. CASE i # 1
    <3>1. i - 1 \in 1 .. n /\ ~(i <= i - 1)
      BY <2>2, <1>8
    <3>2. i - 1 \notin T
      BY <3>1, <1>7
    <3>3. ~(h.content[i - 1] > rnd) /\ h.content[i - 1] \in Int
      BY <3>1, <3>2, <1>3, <1>4
    <3> QED
      BY <3>3, <2>2, <1>5, <1>10
  <2> QED
    BY <2>1, <2>2
<1>12. p.rnd < p.y2
  <2>1. h.content[n] = w
    BY <1>1, <1>2
  <2>2. h.content[i] \in Int
    BY <1>3, <1>8
  <2> QED
    BY <2>1, <2>2, <1>5, <1>8, <1>10
<1>13. p.x1 < p.x2
  <2>1. i \in 1 .. n + 1 /\ i + 1 \in 1 .. n + 1 /\ n + 1 \in 1 .. n + 1 /\ i < i + 1 /\ i < n + 1
    BY <1>8
  <2>2. h.border[i] < h.border[i + 1] /\ h.border[i] < h.border[n + 1]
    BY <2>1, <1>3
  <2> QED
    BY <2>2, <1>10
<1> QED
  BY <1>11, <1>12, <1>13

\* Before it is merged, a histogram is the input.
LEMMA RebinStarts ==
  ASSUME ShapesInit
  PROVE  RebinInv
<1>1. PICK a, b \in BOOLEAN : FitInit(a, b) /\ (doing \in {"rebin", "inverse"} => a)
  BY DEF ShapesInit
<1>2. /\ input \in (IF a THEN Cumulative ELSE {NoFit}) /\ cut \in (IF a THEN Cuts ELSE {0})
      /\ rebinned = input /\ merges = 0 /\ piece = NoPiece
  BY <1>1 DEF FitInit
<1>3. doing # "inverse"
  BY DEF ShapesInit
<1>4. cut \in Int
  BY <1>2, FitAssumption
<1>5. InverseInItsPiece
  BY <1>2 DEF InverseInItsPiece
<1>6. CASE a
  <2>1. IsCumulative(input)
    BY <1>2, <1>6, FitAssumption
  <2>2. input # NoFit
    <3>1. Len(input.content) >= 1 /\ Len(<<>>) = 0
      BY <2>1 DEF IsCumulative
    <3>2. input.content # <<>>
      BY <3>1
    <3> QED
      BY <3>2 DEF NoFit
  <2>3. MergedFrom(rebinned)
    <3>1. Size(input) + 1 = Len(input.border)
      BY <2>1, HistIn
    <3> QED
      BY <3>1, <2>1, <1>2 DEF MergedFrom
  <2> QED
    BY <2>1, <2>2, <2>3, <1>2, <1>3, <1>4, <1>5 DEF RebinInv
<1>7. CASE ~a
  BY <1>1, <1>2, <1>3, <1>4, <1>5, <1>7 DEF RebinInv
<1> QED
  BY <1>6, <1>7

\* What does not touch the histogram keeps it.
LEMMA RebinSame ==
  ASSUME RebinInv, UNCHANGED rebinVars,
         doing' = doing \/ doing' \notin {"rebin", "inverse"}
  PROVE  RebinInv'
<1>1. /\ input' = input /\ cut' = cut /\ rebinned' = rebinned /\ merges' = merges
      /\ piece' = piece
  BY DEF rebinVars
<1>2. InverseInItsPiece'
  BY <1>1 DEF RebinInv, InverseInItsPiece
<1>3. MergedFrom(rebinned) => MergedFrom(rebinned)'
  BY <1>1 DEF MergedFrom
<1>4. \A i : Deviation(rebinned, i)' = Deviation(rebinned, i)
  BY <1>1 DEF Deviation
<1>5. Size(rebinned)' = Size(rebinned) /\ Size(input)' = Size(input)
  BY <1>1 DEF Size
<1> QED
  BY <1>1, <1>2, <1>3, <1>4, <1>5 DEF RebinInv

\* smart_rebin_loop(): what is taken is close to the input in every bin, and what is
\* stored ends at the whole.
LEMMA FitKeeps ==
  ASSUME RebinInv, FitHistogram
  PROVE  RebinInv'
<1>1. input # NoFit /\ IsCumulative(input) /\ MergedFrom(rebinned) /\ merges \in Nat /\ cut \in Int
  BY DEF FitHistogram, RebinInv
<1>2. input' = input /\ cut' = cut /\ piece' = piece /\ InverseInItsPiece'
  BY DEF FitHistogram, Rebin, StoreRebinned, RebinInv, InverseInItsPiece
<1>3. ASSUME NEW out, out = IF merges = 0 THEN rebinned ELSE SmartRebin(rebinned),
             MaxDev(out) < cut, Size(out) > 5, rebinned' = out, merges' = merges + 1, doing' = doing,
             doing = "rebin"
      PROVE  RebinInv'
  <2>1. MergedFrom(out)
    BY <1>1, <1>3, MergedStays
  <2>2. \A i \in 1 .. Size(input) : Deviation(out, i) < cut
    BY <2>1, <1>1, <1>3, CloseEverywhere
  <2>3. \A i \in 1 .. Size(input) - 1 : i \in 1 .. Size(input)
    <3>1. Size(input) \in Nat
      BY <1>1, HistIn
    <3> QED
      BY <3>1
  <2>4. MergedFrom(rebinned)'
    BY <2>1, <1>2, <1>3 DEF MergedFrom
  <2>5. \A i : Deviation(rebinned, i)' = Deviation(out, i)
    BY <1>2, <1>3 DEF Deviation
  <2>6. (IF merges > 0 THEN Size(rebinned) > 5 ELSE Size(rebinned) = Size(input))'
    BY <1>1, <1>3 DEF Size
  <2> QED
    BY <2>2, <2>3, <2>4, <2>5, <2>6, <1>1, <1>2, <1>3 DEF RebinInv
<1>4. ASSUME rebinned' = [rebinned EXCEPT !.content[Size(rebinned)] = Whole],
             merges' = merges, doing' = "inverse"
      PROVE  RebinInv'
  <2>1. PICK g : g = [rebinned EXCEPT !.content[Size(rebinned)] = Whole]
    OBVIOUS
  <2>2. /\ MergedFrom(g) /\ g.content[Size(g)] = Whole
        /\ \A i \in 1 .. Size(input) - 1 : Deviation(g, i) = Deviation(rebinned, i)
    BY <2>1, <1>1, LastRaised
  <2>3. rebinned' = g
    BY <2>1, <1>4
  <2>4. MergedFrom(rebinned)' /\ (rebinned.content[Size(rebinned)] = Whole)'
    BY <2>2, <2>3, <1>2 DEF MergedFrom
  <2>5. \A i : Deviation(rebinned, i)' = Deviation(g, i)
    BY <2>3, <1>2 DEF Deviation
  <2>6. /\ merges > 0 => \A i \in 1 .. Size(input) - 1 : Deviation(rebinned, i) < cut
        /\ IF merges > 0 THEN Size(rebinned) > 5 ELSE Size(rebinned) = Size(input)
    BY <1>1 DEF RebinInv
  <2>7. Size(g) = Size(rebinned)
    BY <2>1, <1>1 DEF Size, MergedFrom, IsCumulative
  <2>8. (IF merges > 0 THEN Size(rebinned) > 5 ELSE Size(rebinned) = Size(input))'
    BY <2>3, <2>6, <2>7, <1>2, <1>4 DEF Size
  <2> QED
    BY <2>2, <2>4, <2>5, <2>6, <2>8, <1>1, <1>2, <1>4 DEF RebinInv
<1>5. CASE Rebin /\ UNCHANGED doing
  <2>1. PICK out : out = IF merges = 0 THEN rebinned ELSE SmartRebin(rebinned)
    OBVIOUS
  <2> QED
    BY <2>1, <1>3, <1>5 DEF Rebin, Acceptable, FitHistogram
<1>6. CASE StoreRebinned /\ doing' = "inverse"
  BY <1>4, <1>6 DEF StoreRebinned
<1> QED
  BY <1>5, <1>6 DEF FitHistogram

\* get_inverse() on what was stored.
LEMMA InvertKeeps ==
  ASSUME RebinInv, InvertOnce
  PROVE  RebinInv'
<1>1. PICK rnd \in 0 .. Whole - 1 : GetInverse(rnd)
  BY DEF InvertOnce
<1>2. /\ piece' = Piece(rebinned, rnd) /\ input' = input /\ cut' = cut
      /\ rebinned' = rebinned /\ merges' = merges /\ doing' = doing /\ doing = "inverse"
  BY <1>1 DEF InvertOnce, GetInverse
<1>3. IsCumulative(rebinned) /\ rebinned.content[Size(rebinned)] = Whole
  BY <1>2 DEF RebinInv, MergedFrom
<1>4. InverseInItsPiece'
  <2>1. PICK p : p = Piece(rebinned, rnd)
    OBVIOUS
  <2>2. p.y1 <= p.rnd /\ p.rnd < p.y2 /\ p.x1 < p.x2
    BY <2>1, <1>3, InItsPiece
  <2> QED
    BY <2>1, <2>2, <1>2 DEF InverseInItsPiece
<1>5. MergedFrom(rebinned) => MergedFrom(rebinned)'
  BY <1>2 DEF MergedFrom
<1>6. \A i : Deviation(rebinned, i)' = Deviation(rebinned, i)
  BY <1>2 DEF Deviation
<1>7. Size(rebinned)' = Size(rebinned) /\ Size(input)' = Size(input)
  BY <1>2 DEF Size
<1> QED
  BY <1>2, <1>3, <1>4, <1>5, <1>6, <1>7 DEF RebinInv

\* The inductive invariant of the fits.
FitInv == SplineInv /\ RebinInv

\* It holds of every start ...
LEMMA FitStarts == ShapesInit => FitInv
<1> SUFFICES ASSUME ShapesInit PROVE FitInv
  OBVIOUS
<1>1. PICK a, b \in BOOLEAN : FitInit(a, b)
  BY DEF ShapesInit
<1>2. SplineInv
  BY <1>1, SplineStarts
<1> QED
  BY <1>2, RebinStarts DEF FitInv

\* What does not touch the spline keeps it.
LEMMA SplineSame ==
  ASSUME SplineInv, UNCHANGED splineVars
  PROVE  SplineInv'
BY DEF SplineInv, splineVars, Ordered, InOrder, Lowest

\* ... every step keeps it ...
LEMMA FitStep == FitInv /\ [ShapesNext]_shapesVars => FitInv'
<1> SUFFICES ASSUME FitInv, [ShapesNext]_shapesVars PROVE FitInv'
  OBVIOUS
<1>1. SplineInv /\ RebinInv
  BY DEF FitInv
<1>2. CASE MakeFunction
  <2>1. UNCHANGED splineVars /\ UNCHANGED rebinVars
    BY <1>2 DEF MakeFunction, fitVars
  <2>2. doing' \notin {"rebin", "inverse"}
    BY <1>2 DEF MakeFunction, Check1D, MergeBin, Resize, Check2D, Check1DPlain, Check2DPlain
  <2> QED
    BY <2>1, <2>2, <1>1, SplineSame, RebinSame DEF FitInv
<1>3. CASE DrawOnce \/ LoadOrClear \/ ModulateOnce \/ ShapeOnce
  <2>1. UNCHANGED splineVars /\ UNCHANGED rebinVars
    BY <1>3 DEF DrawOnce, LoadOrClear, ModulateOnce, ShapeOnce, fitVars
  <2>2. doing' = doing
    BY <1>3 DEF DrawOnce, LoadOrClear, ModulateOnce, ShapeOnce, DrawEmpty, Draw1D, Draw2D,
                DrawPlain, DrawPlain2D
  <2> QED
    BY <2>1, <2>2, <1>1, SplineSame, RebinSame DEF FitInv
<1>4. CASE FitHistogram
  <2>1. UNCHANGED splineVars
    BY <1>4 DEF FitHistogram, Rebin, StoreRebinned
  <2> QED
    BY <2>1, <1>1, <1>4, SplineSame, FitKeeps DEF FitInv
<1>5. CASE InvertOnce
  <2>1. UNCHANGED splineVars
    BY <1>5 DEF InvertOnce, GetInverse
  <2> QED
    BY <2>1, <1>1, <1>5, SplineSame, InvertKeeps DEF FitInv
<1>6. CASE FitSpline
  <2>1. UNCHANGED rebinVars /\ doing' = doing
    BY <1>6 DEF FitSpline, StartStage, SkipStage, SmallerStep, FinishStage, MoreKnots,
                TakeSpline, TryKnots, GiveUp
  <2>2. SplineInv'
    BY <1>1, <1>6, SplineStep DEF FitSpline
  <2> QED
    BY <2>1, <2>2, <1>1, RebinSame DEF FitInv
<1>7. CASE UNCHANGED shapesVars
  <2>1. UNCHANGED splineVars /\ UNCHANGED rebinVars /\ doing' = doing
    BY <1>7 DEF shapesVars, fitVars
  <2> QED
    BY <2>1, <1>1, SplineSame, RebinSame DEF FitInv
<1> QED
  BY <1>2, <1>3, <1>4, <1>5, <1>6, <1>7 DEF ShapesNext

\* ... and it says what a fit must.
LEMMA FitsFollow == FitInv => FitsFollowTheInput
<1> SUFFICES ASSUME FitInv PROVE FitsFollowTheInput
  OBVIOUS
<1>1. SplineInv /\ RebinInv
  BY DEF FitInv
<1>2. KnotsStayOrdered
  BY <1>1 DEF SplineInv, Ordered, KnotsStayOrdered
<1>3. KeptIsTheBest
  <2> SUFFICES ASSUME stage \in {"compare", "done"} PROVE kept.penalty = seen
    BY DEF KeptIsTheBest
  <2>1. try = <<>>
    BY <1>1 DEF SplineInv, InSteps
  <2>2. best.penalty = -1 /\ kept.penalty \in Nat \cup {-1} /\ seen = Lowest(kept.penalty, best.penalty)
    BY <2>1, <1>1 DEF SplineInv
  <2> QED
    BY <2>2 DEF Lowest
<1>4. RebinnedWithinCut
  <2> SUFFICES ASSUME input # NoFit
               PROVE  /\ \A b \in DOMAIN rebinned.border :
                           \E c \in DOMAIN input.border : rebinned.border[b] = input.border[c]
                      /\ rebinned.border[1] = input.border[1]
                      /\ rebinned.border[Len(rebinned.border)] = input.border[Len(input.border)]
                      /\ \A b \in 1 .. Size(rebinned) :
                           /\ rebinned.border[b] < rebinned.border[b + 1]
                           /\ b > 1 => rebinned.content[b - 1] <= rebinned.content[b]
                      /\ Size(rebinned) > 5 \/ Size(rebinned) = Size(input)
                      /\ merges > 1 =>
                           \A i \in 1 .. Size(input) - 1 : Deviation(rebinned, i) < cut
    BY DEF RebinnedWithinCut
  <2>1. IsCumulative(input) /\ MergedFrom(rebinned) /\ IsCumulative(rebinned) /\ merges \in Nat
    BY <1>1 DEF RebinInv, MergedFrom
  <2>2. /\ merges > 0 => \A i \in 1 .. Size(input) - 1 : Deviation(rebinned, i) < cut
        /\ IF merges > 0 THEN Size(rebinned) > 5 ELSE Size(rebinned) = Size(input)
    BY <1>1 DEF RebinInv
  <2>3. PICK n \in Nat \ {0} : n = Size(rebinned) /\ Len(rebinned.border) = n + 1
    BY <2>1, HistIn
  <2>4. Len(input.border) = Size(input) + 1
    BY <2>1, HistIn
  <2>5. DOMAIN rebinned.border = 1 .. Len(rebinned.border) /\ DOMAIN input.border = 1 .. Len(input.border)
    BY <2>1 DEF IsCumulative
  <2>6. \A b \in 1 .. n : rebinned.border[b] < rebinned.border[b + 1]
    <3> TAKE b \in 1 .. n
    <3>1. b \in 1 .. n + 1 /\ b + 1 \in 1 .. n + 1 /\ b < b + 1
      OBVIOUS
    <3> QED
      BY <3>1, <2>1, <2>3 DEF IsCumulative
  <2>7. \A b \in 1 .. n : b > 1 => rebinned.content[b - 1] <= rebinned.content[b]
    <3> TAKE b \in 1 .. n
    <3>1. b > 1 => b \in 2 .. n
      OBVIOUS
    <3> QED
      BY <3>1, <2>1, <2>3 DEF IsCumulative, Size
  <2>8. \A b \in DOMAIN rebinned.border :
          \E c \in DOMAIN input.border : rebinned.border[b] = input.border[c]
    BY <2>1, <2>5 DEF MergedFrom
  <2>9. /\ rebinned.border[1] = input.border[1]
        /\ rebinned.border[Len(rebinned.border)] = input.border[Len(input.border)]
    BY <2>1, <2>3, <2>4 DEF MergedFrom
  <2>10. merges > 1 => merges > 0
    BY <2>1
  <2>11. \A b \in 1 .. Size(rebinned) :
           /\ rebinned.border[b] < rebinned.border[b + 1]
           /\ b > 1 => rebinned.content[b - 1] <= rebinned.content[b]
    BY <2>3, <2>6, <2>7
  <2> QED
    BY <2>2, <2>8, <2>9, <2>10, <2>11
<1> QED
  BY <1>1, <1>2, <1>3, <1>4 DEF FitsFollowTheInput, RebinInv

\* For every cumulated histogram and cut, and for every number of knots, step and
\* penalty: the rebinned histogram keeps to the borders and the rise of its input and,
\* once it was merged, to within the cut of it in all bins but the last; its inverse
\* is taken in the piece that holds the random number; the knots of a spline stay in
\* order, and the one kept is the best seen (TFCS1DFunctionHistogram.cxx:83-235,
\* 280-318, TFCS1DFunctionSpline.cxx:17-65, 296-323).
THEOREM FitsFollowTheirInput == ShapesSpec => []FitsFollowTheInput
BY FitStarts, FitStep, FitsFollow, PTL DEF ShapesSpec

\* A shower is placed as the mirror image of its antiparticle's.
LEMMA PlacedMirrors ==
  ASSUME NEW pid \in DOMAIN Charge, NEW side \in {-1, 1}, NEW forward,
         NEW symmetric \in BOOLEAN, NEW rnd \in 0 .. Rolls - 1,
         ShapeHit(pid, side, forward, symmetric, rnd)
  PROVE  MirrorImages'
<1>1. PICK half \in Nat : Rolls = 2 * half
  <2>1. Rolls \in Nat /\ Rolls % 2 = 0
    BY HitShapeAssumption
  <2> QED
    BY <2>1
<1>2. PICK at : at = Placed(pid, side, forward, symmetric, rnd)
  OBVIOUS
<1>3. /\ hit' = [done |-> "placed", pid |-> pid, side |-> side, forward |-> forward,
                 symmetric |-> symmetric, rnd |-> rnd, at |-> at]
  BY <1>2 DEF ShapeHit
<1>4. PICK alpha \in Int : alpha = IF symmetric THEN Folded(rnd) ELSE rnd
  <2>1. rnd \in Int /\ Folded(rnd) \in Int
    BY <1>1 DEF Folded, Neg
  <2> QED
    BY <2>1
<1>5. /\ at.phi = IF Mirrored(pid) THEN Neg(alpha) ELSE alpha
      /\ at.eta = IF side < 0 /\ ~forward THEN -1 ELSE 1
  BY <1>2, <1>4 DEF Placed
<1>6. Charge[pid] # 0 => Placed(Neg(pid), side, forward, symmetric, rnd).phi = Neg(at.phi)
  <2> SUFFICES ASSUME Charge[pid] # 0
               PROVE  Placed(Neg(pid), side, forward, symmetric, rnd).phi = Neg(at.phi)
    OBVIOUS
  <2>1. PICK p \in Int : p = pid
    BY HitShapeAssumption DEF ChargeAssumption
  <2>2. PICK c \in Int : c = Charge[p] /\ c # 0 /\ Charge[0 - p] = 0 - c
    BY <2>1, HitShapeAssumption DEF ChargeAssumption, Neg
  <2>3. Mirrored(0 - p) <=> ~Mirrored(p)
    <3>1. Mirrored(p) <=> (c < 0 /\ p # 11) \/ p = 0 - 11
      BY <2>2 DEF Mirrored, Neg
    <3>2. Mirrored(0 - p) <=> (0 - c < 0 /\ 0 - p # 11) \/ 0 - p = 0 - 11
      BY <2>2 DEF Mirrored, Neg
    <3> QED
      BY <3>1, <3>2, <2>2
  <2>4. Placed(0 - p, side, forward, symmetric, rnd).phi
          = IF Mirrored(0 - p) THEN Neg(alpha) ELSE alpha
    BY <1>4 DEF Placed
  <2>5. CASE Mirrored(p)
    BY <2>1, <2>3, <2>4, <2>5, <1>5 DEF Neg
  <2>6. CASE ~Mirrored(p)
    BY <2>1, <2>3, <2>4, <2>6, <1>5 DEF Neg
  <2> QED
    BY <2>5, <2>6
<1>7. Placed(pid, Neg(side), forward, symmetric, rnd).eta = IF forward THEN at.eta ELSE Neg(at.eta)
  <2>1. Placed(pid, Neg(side), forward, symmetric, rnd).eta
          = IF Neg(side) < 0 /\ ~forward THEN -1 ELSE 1
    BY DEF Placed
  <2>2. CASE forward
    BY <2>1, <2>2, <1>5
  <2>3. CASE ~forward
    <3>1. side = -1 \/ side = 1
      OBVIOUS
    <3> QED
      BY <3>1, <2>1, <2>3, <1>5 DEF Neg
  <2> QED
    BY <2>2, <2>3
<1>8. symmetric =>
        Placed(pid, side, forward, symmetric, (rnd + Rolls \div 2) % Rolls).phi = Neg(at.phi)
  <2> SUFFICES ASSUME symmetric
               PROVE  Placed(pid, side, forward, symmetric, (rnd + Rolls \div 2) % Rolls).phi
                        = Neg(at.phi)
    OBVIOUS
  <2>1. Rolls \div 2 = half
    BY <1>1
  <2>2. PICK s \in Nat : s = (rnd + Rolls \div 2) % Rolls
                         /\ s = IF rnd < half THEN rnd + half ELSE rnd - half
    <3>1. half > 0 /\ Rolls \in Nat \ {0}
      BY <1>1, HitShapeAssumption
    <3>2. CASE rnd < half
      <4>1. rnd + half \in 0 .. Rolls - 1
        BY <3>2, <1>1
      <4>2. (rnd + half) % Rolls = rnd + half
        BY <4>1, <3>1
      <4> QED
        BY <4>1, <4>2, <3>2, <2>1
    <3>3. CASE ~(rnd < half)
      <4>1. PICK x \in 0 .. Rolls - 1 : x = rnd - half
        BY <3>3, <1>1
      <4>2. x % Rolls = x
        BY <4>1, <3>1
      <4>3. (x + Rolls) % Rolls = x % Rolls
        <5>1. PICK R \in Nat \ {0} : R = Rolls
          BY <3>1
        <5>2. PICK z \in Int : z = x
          BY <4>1
        <5>3. (z + R) % R = z % R
          BY ModTurn
        <5> QED
          BY <5>1, <5>2, <5>3
      <4>4. rnd + half = x + Rolls
        BY <4>1, <1>1
      <4> QED
        BY <4>1, <4>2, <4>3, <4>4, <3>3, <2>1
    <3> QED
      BY <3>2, <3>3
  <2>3. Folded(s) = Neg(Folded(rnd))
    <3>1. rnd \in Int /\ 0 <= rnd /\ rnd < 2 * half
      BY <1>1
    <3>2. CASE rnd < half
      <4>1. ~(rnd >= half) /\ s >= half /\ s - half = rnd
        BY <3>1, <3>2, <2>2
      <4>2. Folded(rnd) = 2 * rnd /\ Folded(s) = Neg(2 * rnd)
        BY <4>1, <2>1 DEF Folded
      <4> QED
        BY <4>2
    <3>3. CASE ~(rnd < half)
      <4>1. rnd >= half /\ ~(s >= half) /\ s = rnd - half
        BY <3>1, <3>3, <2>2
      <4>2. Folded(rnd) = Neg(2 * (rnd - half)) /\ Folded(s) = 2 * (rnd - half)
        BY <4>1, <2>1 DEF Folded
      <4> QED
        BY <4>2, <3>1 DEF Neg
    <3> QED
      BY <3>2, <3>3
  <2>4. alpha = Folded(rnd)
    BY <1>4
  <2>5. Placed(pid, side, forward, symmetric, s).phi
          = IF Mirrored(pid) THEN Neg(Folded(s)) ELSE Folded(s)
    BY DEF Placed
  <2>6. CASE Mirrored(pid)
    BY <2>2, <2>3, <2>4, <2>5, <2>6, <1>5
  <2>7. CASE ~Mirrored(pid)
    BY <2>2, <2>3, <2>4, <2>5, <2>7, <1>5
  <2> QED
    BY <2>6, <2>7
<1> QED
  BY <1>3, <1>6, <1>7, <1>8 DEF MirrorImages

\* Phi_mpi_pi() turns an angle by whole turns to one between -Pi and Pi.
LEMMA ProperAngle ==
  ASSUME NEW x \in Int, NEW m, m = MpiPi(x)
  PROVE  m \in Int /\ -Pi <= m /\ m < Pi /\ (m - x) % (2 * Pi) = 0
<1>1. PICK c \in Nat \ {0} : c = 2 * Pi /\ Pi \in Int
  BY HitShapeAssumption
<1>2. PICK y \in Int : y = x + Pi
  BY <1>1
<1>3. y = c * (y \div c) + (y % c) /\ y % c \in 0 .. c - 1 /\ y \div c \in Int
  OBVIOUS
<1>4. PICK q \in Int, r \in 0 .. c - 1 : q = y \div c /\ r = y % c /\ y = c * q + r
  BY <1>3
<1>5. m = r - Pi
  BY <1>1, <1>2, <1>4 DEF MpiPi
<1>6. PICK k \in Int : k = 0 - q
  OBVIOUS
<1>7. m - x = c * k
  <2>1. c * k = 0 - c * q
    BY <1>6
  <2>2. c * q \in Int /\ c * k \in Int
    OBVIOUS
  <2>3. x = y - Pi /\ m = r - Pi /\ y = c * q + r
    BY <1>1, <1>2, <1>4, <1>5
  <2> QED
    BY <2>1, <2>2, <2>3, <1>1
<1>8. (c * k) % c = 0
  <2>1. PICK a \in Int : a = c * k
    OBVIOUS
  <2>2. a = c * (a \div c) + (a % c) /\ a % c \in 0 .. c - 1
    OBVIOUS
  <2>3. a \div c = k
    BY <2>1, QuotientOfProduct
  <2> QED
    BY <2>1, <2>2, <2>3
<1> QED
  BY <1>1, <1>5, <1>7, <1>8

\* How many members of a sequence are not above a value.
LEMMA CountedBelow ==
  ASSUME NEW s, NEW n \in Nat, NEW x
  PROVE  Cardinality({i \in 1 .. n : s[i] <= x}) \in 0 .. n
<1>1. IsFiniteSet(1 .. n) /\ Cardinality(1 .. n) = n
  <2>1. 1 \in Int /\ n \in Int
    OBVIOUS
  <2>2. IsFiniteSet(1 .. n) /\ Cardinality(1 .. n) = IF 1 > n THEN 0 ELSE n - 1 + 1
    BY <2>1, FS_Interval
  <2> QED
    BY <2>2
<1>2. PICK T : T = {i \in 1 .. n : s[i] <= x}
  OBVIOUS
<1>3. T \subseteq 1 .. n
  BY <1>2
<1>4. IsFiniteSet(T) /\ Cardinality(T) <= n
  BY <1>1, <1>3, FS_Subset
<1>5. Cardinality(T) \in Nat
  BY <1>4, FS_CardinalityType
<1> QED
  BY <1>2, <1>4, <1>5

\* doWiggle(): the centre of a bin is less than half a cell from 0.
LEMMA WiggleWithin ==
  ASSUME NEW rnd \in 0 .. Rolls - 1, NEW w, w = DoWiggle(rnd)
  PROVE  w \in Int /\ 2 * w < CellSize /\ -CellSize < 2 * w
<1>1. PICK n \in Nat \ {0} : n = Len(Accordion) /\ Accordion[n] = Rolls
  BY HitShapeAssumption
<1>2. PICK i \in Nat : i = IndexIn(Accordion, rnd) /\ i < n
  <2>1. PICK T : T = {j \in 1 .. n : Accordion[j] <= rnd}
    OBVIOUS
  <2>2. PICK U : U = {j \in 1 .. n - 1 : Accordion[j] <= rnd}
    OBVIOUS
  <2>3. ~(Accordion[n] <= rnd)
    BY <1>1, HitShapeAssumption
  <2>4. T = U
    <3>1. \A j \in 1 .. n : j \in 1 .. n - 1 \/ j = n
      OBVIOUS
    <3>2. \A j \in 1 .. n - 1 : j \in 1 .. n
      OBVIOUS
    <3> QED
      BY <3>1, <3>2, <2>1, <2>2, <2>3
  <2>5. n - 1 \in Nat
    OBVIOUS
  <2>6. Cardinality(U) \in 0 .. n - 1
    BY <2>2, <2>5, CountedBelow
  <2>7. IndexIn(Accordion, rnd) = Cardinality(U)
    BY <1>1, <2>1, <2>4 DEF IndexIn
  <2> QED
    BY <2>6, <2>7
<1>3. PICK d \in Nat \ {0} : d = 2 * n
  OBVIOUS
<1>4. PICK c \in Nat \ {0} : c = CellSize /\ c % d = 0
  BY <1>1, <1>3, HitShapeAssumption
<1>5. PICK q \in Nat \ {0} : c = d * q
  <2>1. c = d * (c \div d) + (c % d) /\ c \div d \in Int
    BY <1>4
  <2>2. PICK q \in Int : c = d * q
    BY <2>1, <1>4
  <2>3. q > 0
    <3> SUFFICES ASSUME q <= 0 PROVE FALSE
      OBVIOUS
    <3>1. d * q <= 0
      OBVIOUS
    <3> QED
      BY <3>1, <2>2
  <2> QED
    BY <2>2, <2>3
<1>6. PICK k \in Int : k = 2 * i - n + 1 /\ -n < k /\ k < n
  BY <1>2
<1>7. w = (k * c) \div d
  BY <1>1, <1>2, <1>3, <1>4, <1>6 DEF DoWiggle, ChosenBin
<1>8. k * c = d * (k * q) /\ k * q \in Int
  BY <1>5
<1>9. w = k * q
  BY <1>7, <1>8, QuotientOfProduct
<1>10. 2 * n * q = c /\ n * q \in Int
  BY <1>3, <1>5
<1>11. k * q < n * q /\ -(n * q) < k * q
  <2>1. PICK a \in Nat \ {0} : a = n - k
    BY <1>6
  <2>2. PICK b \in Nat \ {0} : b = n + k
    BY <1>6
  <2>3. a * q = n * q - k * q /\ b * q = n * q + k * q /\ a * q > 0 /\ b * q > 0
    BY <2>1, <2>2
  <2> QED
    BY <2>3, <1>8, <1>10
<1> QED
  BY <1>4, <1>8, <1>9, <1>10, <1>11

\* A sequence that has one value up to a place and nothing behind it.
LEMMA SumOfFirst ==
  ASSUME NEW s, NEW N \in Nat, NEW q \in 0 .. N, NEW v \in Int,
         \A i \in 1 .. N : s[i] = IF i <= q THEN v ELSE 0
  PROVE  SumUpTo(s, N) = q * v
<1> DEFINE T == {k \in Nat : k <= N => SumUpTo(s, k) = IF k <= q THEN k * v ELSE q * v}
<1>1. 0 \in T
  <2>1. SumUpTo(s, 0) = 0 /\ 0 * v = 0 /\ 0 <= q
    BY SumZero
  <2> QED
    BY <2>1
<1>2. ASSUME NEW k \in Nat, k \in T PROVE k + 1 \in T
  <2> SUFFICES ASSUME k + 1 <= N
               PROVE  SumUpTo(s, k + 1) = IF k + 1 <= q THEN (k + 1) * v ELSE q * v
    OBVIOUS
  <2>1. k <= N /\ k + 1 \in 1 .. N
    OBVIOUS
  <2>2. SumUpTo(s, k) = IF k <= q THEN k * v ELSE q * v
    BY <1>2, <2>1
  <2>3. SumUpTo(s, k + 1) = SumUpTo(s, k) + s[k + 1]
    BY SumStep
  <2>4. s[k + 1] = IF k + 1 <= q THEN v ELSE 0
    BY <2>1
  <2>5. k * v \in Int /\ q * v \in Int /\ (k + 1) * v = k * v + v
    OBVIOUS
  <2>6. CASE k + 1 <= q
    BY <2>2, <2>3, <2>4, <2>5, <2>6
  <2>7. CASE k = q
    <3>1. ~(k + 1 <= q) /\ k <= q
      BY <2>7
    <3> QED
      BY <3>1, <2>2, <2>3, <2>4, <2>5, <2>7
  <2>8. CASE k > q
    <3>1. ~(k + 1 <= q) /\ ~(k <= q)
      BY <2>8
    <3> QED
      BY <3>1, <2>2, <2>3, <2>4, <2>5
  <2>9. k + 1 <= q \/ k = q \/ k > q
    OBVIOUS
  <2> QED
    BY <2>6, <2>7, <2>8, <2>9
<1> HIDE DEF T
<1>3. Nat \subseteq T
  BY <1>1, <1>2, NatInduct
<1>4. SumUpTo(s, N) = IF N <= q THEN N * v ELSE q * v
  BY <1>3 DEF T
<1>5. N <= q => N = q
  OBVIOUS
<1> QED
  BY <1>4, <1>5

\* The random numbers below a probability that is a whole number of them.
LEMMA BelowFirst ==
  ASSUME NEW num \in Nat, NEW mean \in Int, num < mean, (num * Rolls) % mean = 0
  PROVE  \E q \in 0 .. Rolls : /\ q * mean = Rolls * num
                              /\ \A rnd \in 0 .. Rolls - 1 : Below(rnd, num, mean) <=> rnd < q
<1>1. PICK m \in Nat \ {0} : m = mean
  OBVIOUS
<1>2. PICK R \in Nat \ {0} : R = Rolls
  BY HitShapeAssumption
<1>3. PICK a \in Nat : a = num * R
  BY <1>2
<1>4. a = m * (a \div m) + (a % m) /\ a \div m \in Int /\ a % m = 0
  BY <1>1, <1>2, <1>3
<1>5. PICK q \in Int : a = m * q
  BY <1>4
<1>6. q >= 0
  <2> SUFFICES ASSUME q <= -1 PROVE FALSE
    OBVIOUS
  <2>1. m * q <= -m
    OBVIOUS
  <2> QED
    BY <2>1, <1>5
<1>7. q <= R
  <2> SUFFICES ASSUME q > R PROVE FALSE
    OBVIOUS
  <2>1. PICK d \in Nat \ {0} : q = R + d
    OBVIOUS
  <2>2. PICK e \in Nat \ {0} : m = num + e
    BY <1>1
  <2>3. m * q = m * R + m * d /\ m * R = num * R + e * R /\ m * d > 0 /\ e * R > 0
    BY <2>1, <2>2
  <2>4. m * d \in Int /\ e * R \in Int /\ num * R \in Int /\ m * R \in Int
    OBVIOUS
  <2> QED
    BY <2>3, <2>4, <1>3, <1>5
<1>8. ASSUME NEW rnd \in 0 .. Rolls - 1
      PROVE  Below(rnd, num, mean) <=> rnd < q
  <2>1. PICK x \in Nat : x = rnd
    OBVIOUS
  <2>2. Below(rnd, num, mean) <=> x * m < m * q
    BY <2>1, <1>1, <1>2, <1>3, <1>5 DEF Below
  <2>3. CASE x < q
    <3>1. PICK d \in Nat \ {0} : q = x + d
      BY <2>3
    <3>2. m * q = x * m + m * d /\ m * d > 0 /\ x * m \in Int /\ m * d \in Int
      BY <3>1
    <3> QED
      BY <3>2, <2>1, <2>2, <2>3
  <2>4. CASE ~(x < q)
    <3>1. PICK d \in Nat : x = q + d
      BY <2>4
    <3>2. x * m = m * q + m * d /\ m * d >= 0 /\ m * q \in Int /\ m * d \in Int
      BY <3>1
    <3> QED
      BY <3>2, <2>1, <2>2, <2>4
  <2> QED
    BY <2>3, <2>4
<1>9. q \in 0 .. Rolls
  BY <1>2, <1>6, <1>7
<1>10. q * mean = Rolls * num
  BY <1>1, <1>2, <1>3, <1>5
<1> QED
  BY <1>8, <1>9, <1>10

\* The weights of all random numbers, by class: one for all, or one for those below a
\* probability.
LEMMA WeightsSum ==
  ASSUME NEW class \in WeightClasses, NEW mean \in Int,
         mean > One => (One * Rolls) % mean = 0,
         WeightRange.min < mean /\ mean < WeightRange.max => (WeightRange.min * Rolls) % mean = 0
  PROVE  SumUpTo([i \in 1 .. Rolls |-> WeightOf(class, mean, 1, i - 1)], Rolls)
           = Rolls * ExpectedWeight(class, mean)
<1>1. PICK s : s = [i \in 1 .. Rolls |-> WeightOf(class, mean, 1, i - 1)]
  OBVIOUS
<1>2. PICK R \in Nat \ {0} : R = Rolls
  BY HitShapeAssumption
<1>3. \A i \in 1 .. R : s[i] = WeightOf(class, mean, 1, i - 1) /\ i - 1 \in 0 .. Rolls - 1
  BY <1>1, <1>2
<1>4. mean * 1 = mean
  OBVIOUS
<1>5. ASSUME NEW v \in Int, v = ExpectedWeight(class, mean), \A i \in 1 .. R : s[i] = v
      PROVE  SumUpTo(s, R) = R * v
  <2>1. \A i \in 1 .. R : s[i] = IF i <= R THEN v ELSE 0
    BY <1>5
  <2>2. R \in 0 .. R
    OBVIOUS
  <2> QED
    BY <2>1, <2>2, SumOfFirst
<1>6. ASSUME NEW num \in Nat, num < mean, (num * Rolls) % mean = 0,
             num = ExpectedWeight(class, mean),
             \A i \in 1 .. R : s[i] = IF Below(i - 1, num, mean) THEN mean ELSE 0
      PROVE  SumUpTo(s, R) = R * num
  <2>1. PICK q \in 0 .. Rolls : /\ q * mean = Rolls * num
                                /\ \A rnd \in 0 .. Rolls - 1 : Below(rnd, num, mean) <=> rnd < q
    BY <1>6, BelowFirst
  <2>2. ASSUME NEW i \in 1 .. R
        PROVE  s[i] = IF i <= q THEN mean ELSE 0
    <3>1. i - 1 \in 0 .. Rolls - 1
      BY <1>3
    <3>2. Below(i - 1, num, mean) <=> i - 1 < q
      BY <3>1, <2>1
    <3>3. i - 1 < q <=> i <= q
      BY <1>2
    <3> QED
      BY <3>2, <3>3, <1>6
  <2>3. q \in 0 .. R
    BY <1>2
  <2>4. SumUpTo(s, R) = q * mean
    BY <2>2, <2>3, SumOfFirst
  <2> QED
    BY <2>1, <2>4, <1>2
<1>7. WeightRange.min \in Nat /\ WeightRange.max \in Int /\ One \in Nat
  BY HitShapeAssumption
<1>8. CASE class \in {"Weight", "GausLogWeight"}
  <2>1. ExpectedWeight(class, mean) = mean /\ \A i \in 1 .. R : s[i] = mean
    BY <1>3, <1>4, <1>8 DEF ExpectedWeight, WeightOf
  <2> QED
    BY <2>1, <1>1, <1>2, <1>5
<1>9. CASE class = "GausLogWeightHitAndMiss"
  <2>1. ASSUME NEW r PROVE WeightOf(class, mean, 1, r) = IF mean <= One \/ Below(r, One, mean) THEN mean ELSE 0
    BY <1>4, <1>9 DEF WeightOf, HitAndMiss
  <2>2. ExpectedWeight(class, mean) = IF mean > One THEN One ELSE mean
    BY <1>9 DEF ExpectedWeight
  <2>3. CASE mean > One
    <3>1. ~(mean <= One) /\ ExpectedWeight(class, mean) = One
      BY <2>2, <2>3, <1>7
    <3>2. \A i \in 1 .. R : s[i] = IF Below(i - 1, One, mean) THEN mean ELSE 0
      BY <3>1, <2>1, <1>3
    <3>3. SumUpTo(s, R) = R * One
      BY <3>1, <3>2, <2>3, <1>6, <1>7
    <3> QED
      BY <3>1, <3>3, <1>1, <1>2
  <2>4. CASE ~(mean > One)
    <3>1. mean <= One /\ ExpectedWeight(class, mean) = mean
      BY <2>2, <2>4, <1>7
    <3>2. \A i \in 1 .. R : s[i] = mean
      BY <3>1, <2>1, <1>3
    <3> QED
      BY <3>1, <3>2, <1>1, <1>2, <1>5
  <2> QED
    BY <2>3, <2>4
<1>10. CASE class = "WeightHitAndMiss"
  <2>1. ASSUME NEW r
        PROVE  WeightOf(class, mean, 1, r)
                 = IF mean >= WeightRange.max THEN WeightRange.max
                   ELSE IF mean > WeightRange.min /\ ~Below(r, WeightRange.min, mean) THEN 0
                   ELSE mean
    BY <1>4, <1>10 DEF WeightOf
  <2>2. ExpectedWeight(class, mean)
          = IF mean >= WeightRange.max THEN WeightRange.max
            ELSE IF mean > WeightRange.min THEN WeightRange.min ELSE mean
    BY <1>10 DEF ExpectedWeight
  <2>3. CASE mean >= WeightRange.max
    <3>1. ExpectedWeight(class, mean) = WeightRange.max /\ \A i \in 1 .. R : s[i] = WeightRange.max
      BY <2>1, <2>2, <2>3, <1>3
    <3> QED
      BY <3>1, <1>1, <1>2, <1>5, <1>7
  <2>4. CASE ~(mean >= WeightRange.max) /\ mean > WeightRange.min
    <3>1. WeightRange.min < mean /\ mean < WeightRange.max
      BY <2>4, <1>7
    <3>2. ExpectedWeight(class, mean) = WeightRange.min
      BY <2>2, <2>4
    <3>3. \A i \in 1 .. R : s[i] = IF Below(i - 1, WeightRange.min, mean) THEN mean ELSE 0
      BY <2>1, <2>4, <1>3
    <3>4. SumUpTo(s, R) = R * WeightRange.min
      BY <3>1, <3>2, <3>3, <1>6, <1>7
    <3> QED
      BY <3>2, <3>4, <1>1, <1>2
  <2>5. CASE ~(mean >= WeightRange.max) /\ ~(mean > WeightRange.min)
    <3>1. ExpectedWeight(class, mean) = mean /\ \A i \in 1 .. R : s[i] = mean
      BY <2>1, <2>2, <2>5, <1>3
    <3> QED
      BY <3>1, <1>1, <1>2, <1>5
  <2> QED
    BY <2>3, <2>4, <2>5
<1> QED
  BY <1>8, <1>9, <1>10 DEF WeightClasses

\* So over all random numbers a hit gets the mean it is to get.
LEMMA WeighedKeepsMean ==
  ASSUME NEW class \in WeightClasses, NEW h \in MeanWeights, NEW bin \in Int, NEW factor, NEW rnd,
         WeighHit(class, h, bin, factor, rnd)
  PROVE  MeanWeightKept'
<1>1. PICK mean : mean = h[BinAtDistance(h, bin)]
  OBVIOUS
<1>2. hit'.class = class /\ hit'.mean = mean
  BY <1>1 DEF WeighHit
<1>3. h \in Seq(Int) /\ Len(h) >= 1 /\ Len(h) \in Nat
  BY HitShapeAssumption DEF WeightAssumption
<1>4. PICK b \in 1 .. Len(h) : b = BinAtDistance(h, bin)
  BY <1>3 DEF BinAtDistance
<1>5. mean \in Int
  BY <1>1, <1>3, <1>4
<1>6. /\ mean > One => (One * Rolls) % mean = 0
      /\ WeightRange.min < mean /\ mean < WeightRange.max => (WeightRange.min * Rolls) % mean = 0
  BY <1>1, <1>4, HitShapeAssumption DEF WeightAssumption
<1>7. SumUpTo([i \in 1 .. Rolls |-> WeightOf(class, mean, 1, i - 1)], Rolls)
        = Rolls * ExpectedWeight(class, mean)
  BY <1>5, <1>6, WeightsSum
<1> QED
  BY <1>2, <1>7 DEF MeanWeightKept

\* The functions and the accordion leave a proper angle, moved by what they say.
LEMMA WiggledBy ==
  ASSUME NEW eta \in Int, NEW phi \in Int, WiggleHit(eta, phi)
  PROVE  WiggledInsideItsCell'
<1>1. PICK f : f = FunctionAt(eta)
  OBVIOUS
<1>2. hit' = [done |-> "wiggled", by |-> f, phi |-> phi,
              to |-> IF f = NoFunction THEN phi ELSE MpiPi(phi + f)]
  BY <1>1 DEF WiggleHit
<1>3. f \in Int
  <2>1. CASE eta < FunctionEdges[1] \/ eta >= FunctionEdges[Len(FunctionEdges)]
    BY <2>1, <1>1 DEF FunctionAt, NoFunction
  <2>2. CASE ~(eta < FunctionEdges[1] \/ eta >= FunctionEdges[Len(FunctionEdges)])
    <3>1. PICK n \in Nat : n = Len(Functions) /\ Len(FunctionEdges) = n + 1
      BY HitShapeAssumption
    <3>2. \A i \in 1 .. n + 1 : FunctionEdges[i] \in Int
      BY <3>1, HitShapeAssumption
    <3>3. PICK T : T = {i \in 1 .. n + 1 : FunctionEdges[i] <= eta}
      OBVIOUS
    <3>4. PICK U : U = {i \in 1 .. n : FunctionEdges[i] <= eta}
      OBVIOUS
    <3>5. FunctionEdges[1] <= eta /\ ~(FunctionEdges[n + 1] <= eta)
      <4>1. 1 \in 1 .. n + 1 /\ n + 1 \in 1 .. n + 1
        OBVIOUS
      <4> QED
        BY <4>1, <3>1, <3>2, <2>2
    <3>6. T = U /\ 1 \in U
      <4>1. \A i \in 1 .. n + 1 : i \in 1 .. n \/ i = n + 1
        OBVIOUS
      <4>2. \A i \in 1 .. n : i \in 1 .. n + 1
        OBVIOUS
      <4>3. n # 0
        BY <3>5
      <4>4. 1 \in 1 .. n
        BY <4>3
      <4> QED
        BY <4>1, <4>2, <4>4, <3>3, <3>4, <3>5
    <3>7. Cardinality(U) \in 0 .. n
      BY <3>4, CountedBelow
    <3>8. Cardinality(U) # 0
      <4>1. IsFiniteSet(1 .. n)
        <5>1. 1 \in Int /\ n \in Int
          OBVIOUS
        <5> QED
          BY <5>1, FS_Interval
      <4>2. IsFiniteSet(U)
        BY <4>1, <3>4, FS_Subset
      <4> QED
        BY <4>2, <3>6, FS_EmptySet
    <3>9. IndexIn(FunctionEdges, eta) \in 1 .. n
      <4>1. IndexIn(FunctionEdges, eta) = Cardinality(T)
        BY <3>1, <3>3 DEF IndexIn
      <4>2. IndexIn(FunctionEdges, eta) = Cardinality(U)
        BY <4>1, <3>6
      <4> QED
        BY <4>2, <3>7, <3>8
    <3>10. f = Functions[IndexIn(FunctionEdges, eta)]
      BY <2>2, <1>1 DEF FunctionAt
    <3> QED
      BY <3>1, <3>9, <3>10, HitShapeAssumption
  <2> QED
    BY <2>1, <2>2
<1>4. CASE f # NoFunction
  <2>1. PICK x \in Int : x = phi + f
    BY <1>3
  <2>2. PICK m : m = MpiPi(x)
    OBVIOUS
  <2>3. m \in Int /\ -Pi <= m /\ m < Pi /\ (m - x) % (2 * Pi) = 0
    BY <2>2, ProperAngle
  <2>4. hit'.done = "wiggled" /\ hit'.by = f /\ hit'.phi = phi /\ hit'.to = m
    BY <2>1, <2>2, <1>2, <1>4
  <2>5. m - phi - f = m - x
    BY <2>1, <2>3, <1>3
  <2> QED
    BY <2>3, <2>4, <2>5 DEF WiggledInsideItsCell
<1>5. CASE f = NoFunction
  BY <1>2, <1>5 DEF WiggledInsideItsCell
<1> QED
  BY <1>4, <1>5

\* The same of the accordion, which moves a hit by less than half a cell.
LEMMA WiggledEMB ==
  ASSUME NEW layer, NEW phi \in Int, NEW rnd \in 0 .. Rolls - 1, WiggleEMB(layer, phi, rnd)
  PROVE  WiggledInsideItsCell'
<1>1. PICK w : w = IF layer \in {1, 2, 3} THEN DoWiggle(rnd) ELSE 0
  OBVIOUS
<1>2. hit' = [done |-> "wiggledEMB", by |-> Neg(w), phi |-> phi, to |-> MpiPi(phi - w)]
  BY <1>1 DEF WiggleEMB
<1>3. w \in Int /\ 2 * w < CellSize /\ -CellSize < 2 * w /\ CellSize \in Int
  <2>1. CellSize \in Nat \ {0}
    BY HitShapeAssumption
  <2>2. CASE layer \in {1, 2, 3}
    <3>1. w = DoWiggle(rnd)
      BY <2>2, <1>1
    <3> QED
      BY <3>1, <2>1, WiggleWithin
  <2>3. CASE layer \notin {1, 2, 3}
    <3>1. w = 0
      BY <2>3, <1>1
    <3> QED
      BY <3>1, <2>1
  <2> QED
    BY <2>2, <2>3
<1>4. PICK x \in Int : x = phi - w
  BY <1>3
<1>5. PICK m : m = MpiPi(x)
  OBVIOUS
<1>6. m \in Int /\ -Pi <= m /\ m < Pi /\ (m - x) % (2 * Pi) = 0
  BY <1>5, ProperAngle
<1>7. PICK b \in Int : b = Neg(w) /\ b = 0 - w
  BY <1>3 DEF Neg
<1>8. hit'.done = "wiggledEMB" /\ hit'.by = b /\ hit'.phi = phi /\ hit'.to = m
  BY <1>2, <1>4, <1>5, <1>7
<1>9. m - phi - b = m - x
  BY <1>3, <1>4, <1>6, <1>7
<1>10. 2 * b < CellSize /\ -CellSize < 2 * b
  BY <1>3, <1>7
<1> QED
  BY <1>6, <1>8, <1>9, <1>10 DEF WiggledInsideItsCell

\* What is said of a hit is said of one that was placed, weighed or wiggled.
LEMMA NoHitKeepsShape ==
  ASSUME hit' = NoHit \/ hit'.done = "modulated"
  PROVE  HitsKeepTheirShape'
<1>1. hit'.done \in {"nothing", "modulated"}
  BY DEF NoHit
<1> QED
  BY <1>1 DEF HitsKeepTheirShape, MirrorImages, MeanWeightKept, WiggledInsideItsCell

\* It stays true of a hit that stays.
LEMMA SameHitKeepsShape ==
  ASSUME HitsKeepTheirShape, hit' = hit
  PROVE  HitsKeepTheirShape'
<1>1. MirrorImages'
  BY DEF HitsKeepTheirShape, MirrorImages
<1>2. MeanWeightKept'
  BY DEF HitsKeepTheirShape, MeanWeightKept
<1>3. WiggledInsideItsCell'
  BY DEF HitsKeepTheirShape, WiggledInsideItsCell
<1> QED
  BY <1>1, <1>2, <1>3 DEF HitsKeepTheirShape

\* Every step leaves hits that keep their shape.
LEMMA ShapeKept == HitsKeepTheirShape /\ [ShapesNext]_shapesVars => HitsKeepTheirShape'
<1> SUFFICES ASSUME HitsKeepTheirShape, [ShapesNext]_shapesVars PROVE HitsKeepTheirShape'
  OBVIOUS
<1>1. CASE MakeFunction \/ DrawOnce \/ FitHistogram \/ InvertOnce \/ FitSpline \/ UNCHANGED shapesVars
  <2>1. hit' = hit
    BY <1>1 DEF MakeFunction, DrawOnce, FitHistogram, InvertOnce, FitSpline, shapesVars, shapeVars
  <2> QED
    BY <2>1, SameHitKeepsShape
<1>2. CASE LoadOrClear
  <2>1. hit' = NoHit
    BY <1>2 DEF LoadOrClear, ClearModulation, LoadPhiModulation
  <2> QED
    BY <2>1, NoHitKeepsShape
<1>3. CASE ModulateOnce
  <2>1. hit'.done = "modulated"
    BY <1>3 DEF ModulateOnce, AddPhiModulation
  <2> QED
    BY <2>1, NoHitKeepsShape
<1>4. ASSUME NEW p \in DOMAIN Charge, NEW s \in {-1, 1}, NEW fcal \in BOOLEAN,
             NEW sym \in BOOLEAN, NEW r \in 0 .. Rolls - 1, ShapeHit(p, s, fcal, sym, r)
      PROVE  HitsKeepTheirShape'
  <2>1. MirrorImages'
    BY <1>4, PlacedMirrors
  <2>2. hit'.done = "placed"
    BY <1>4 DEF ShapeHit
  <2>3. MeanWeightKept' /\ WiggledInsideItsCell'
    BY <2>2 DEF MeanWeightKept, WiggledInsideItsCell
  <2> QED
    BY <2>1, <2>3 DEF HitsKeepTheirShape
<1>5. ASSUME NEW c \in WeightClasses, NEW h \in MeanWeights, NEW b \in 0 .. 5, NEW f \in 1 .. 2,
             NEW r \in 0 .. Rolls - 1, WeighHit(c, h, b, f, r)
      PROVE  HitsKeepTheirShape'
  <2>0. b \in Int
    OBVIOUS
  <2>1. MeanWeightKept'
    BY <2>0, <1>5, WeighedKeepsMean
  <2>2. hit'.done = "weighed"
    BY <1>5 DEF WeighHit
  <2>3. MirrorImages' /\ WiggledInsideItsCell'
    BY <2>2 DEF MirrorImages, WiggledInsideItsCell
  <2> QED
    BY <2>1, <2>3 DEF HitsKeepTheirShape
<1>6. ASSUME NEW e \in Etas, NEW phi \in Phis, WiggleHit(e, phi)
      PROVE  HitsKeepTheirShape'
  <2>0. e \in Int /\ phi \in Int
    BY HitShapeAssumption, ShapesAssumption
  <2>1. WiggledInsideItsCell'
    BY <2>0, <1>6, WiggledBy
  <2>2. hit'.done = "wiggled"
    BY <1>6 DEF WiggleHit
  <2>3. MirrorImages' /\ MeanWeightKept'
    BY <2>2 DEF MirrorImages, MeanWeightKept
  <2> QED
    BY <2>1, <2>3 DEF HitsKeepTheirShape
<1>7. ASSUME NEW l \in 0 .. 4, NEW phi \in Phis, NEW r \in 0 .. Rolls - 1, WiggleEMB(l, phi, r)
      PROVE  HitsKeepTheirShape'
  <2>0. phi \in Int
    BY ShapesAssumption
  <2>1. WiggledInsideItsCell'
    BY <2>0, <1>7, WiggledEMB
  <2>2. hit'.done = "wiggledEMB"
    BY <1>7 DEF WiggleEMB
  <2>3. MirrorImages' /\ MeanWeightKept'
    BY <2>2 DEF MirrorImages, MeanWeightKept
  <2> QED
    BY <2>1, <2>3 DEF HitsKeepTheirShape
<1>8. CASE ShapeOnce
  BY <1>4, <1>5, <1>6, <1>7, <1>8 DEF ShapeOnce
<1> QED
  BY <1>1, <1>2, <1>3, <1>8 DEF ShapesNext

\* For all particles, sides, symmetries, weights, functions and angles, and random
\* numbers fine enough for the probabilities and cells: a shower of the antiparticle
\* and one to the other side are mirror images, refusing hits keeps the mean
\* weight, and a wiggle leaves a proper angle less than half a cell away
\* (TFCS2DFunctionLateralShapeParametrization.cxx:94-136,
\* TFCSHistoLateralShapeGausLogWeightHitAndMiss.cxx:63-81,
\* TFCSHistoLateralShapeWeightHitAndMiss.cxx:82-89,
\* TFCSHitCellMappingWiggleEMB.cxx:69-120).
THEOREM HitsKeepShape == ShapesSpec => []HitsKeepTheirShape
<1>1. ShapesInit => HitsKeepTheirShape
  <2> SUFFICES ASSUME ShapesInit PROVE HitsKeepTheirShape
    OBVIOUS
  <2>1. hit = NoHit
    BY DEF ShapesInit, ShapeInit
  <2>2. hit.done = "nothing"
    BY <2>1 DEF NoHit
  <2> QED
    BY <2>2 DEF HitsKeepTheirShape, MirrorImages, MeanWeightKept, WiggledInsideItsCell
<1> QED
  BY <1>1, ShapeKept, PTL DEF ShapesSpec

-----------------------------------------------------------------------------
\* A quotient of less than a product is less than its factor.
LEMMA QuotientBelow ==
  ASSUME NEW a \in Int, NEW q \in Int, NEW c \in Nat \ {0}, a < c * q
  PROVE  a \div c < q
<1>1. a = c * (a \div c) + (a % c) /\ a % c \in 0 .. c - 1 /\ a \div c \in Int
  OBVIOUS
<1>2. PICK t \in Int, r \in 0 .. c - 1 : t = a \div c /\ a = c * t + r
  BY <1>1
<1> SUFFICES ASSUME t >= q PROVE FALSE
  BY <1>2
<1>3. PICK k \in Nat : t = q + k
  OBVIOUS
<1>4. c * t = c * q + c * k /\ c * k \in Int /\ c * k >= 0 /\ c * q \in Int /\ c * t \in Int
  BY <1>3
<1> QED
  BY <1>2, <1>4

\* What rises from each place to the next rises.
LEMMA RisesAlong ==
  ASSUME NEW N \in Nat, NEW f, \A i \in 0 .. N : f[i] \in Int,
         \A i \in 1 .. N : f[i - 1] <= f[i]
  PROVE  \A i, j \in 0 .. N : i <= j => f[i] <= f[j]
<1> SUFFICES ASSUME NEW i \in 0 .. N PROVE \A j \in 0 .. N : i <= j => f[i] <= f[j]
  OBVIOUS
<1> DEFINE T == {k \in Nat : i + k <= N => f[i] <= f[i + k]}
<1>1. 0 \in T
  <2>1. i + 0 = i /\ f[i] \in Int
    OBVIOUS
  <2> QED
    BY <2>1
<1>2. ASSUME NEW k \in Nat, k \in T PROVE k + 1 \in T
  <2> SUFFICES ASSUME i + (k + 1) <= N PROVE f[i] <= f[i + (k + 1)]
    OBVIOUS
  <2>1. i + k <= N /\ i + k \in 0 .. N /\ i + (k + 1) \in 1 .. N /\ i + (k + 1) \in 0 .. N
        /\ (i + (k + 1)) - 1 = i + k
    OBVIOUS
  <2>2. f[i] <= f[i + k]
    BY <1>2, <2>1
  <2>3. f[i + k] <= f[i + (k + 1)]
    <3>1. f[(i + (k + 1)) - 1] <= f[i + (k + 1)]
      BY <2>1
    <3> QED
      BY <3>1, <2>1
  <2>4. f[i] \in Int /\ f[i + k] \in Int /\ f[i + (k + 1)] \in Int
    BY <2>1
  <2> QED
    BY <2>2, <2>3, <2>4
<1> HIDE DEF T
<1>3. Nat \subseteq T
  BY <1>1, <1>2, NatInduct
<1>4. ASSUME NEW j \in 0 .. N, i <= j PROVE f[i] <= f[j]
  <2>1. PICK k \in Nat : k = j - i
    BY <1>4
  <2>2. k \in T /\ i + k = j
    BY <1>3, <2>1
  <2> QED
    BY <2>2 DEF T
<1> QED
  BY <1>4

\* Cumulated() gives the sums of the contents above 0.
IsCumulated(f, c, n) ==
  /\ f \in [0 .. n - 1 -> Nat]
  /\ f[0] = Positive(c[0])
  /\ \A i \in 1 .. n - 1 : f[i] = f[i - 1] + Positive(c[i])
CumulatedBy(f, c, n) == f = [i \in 0 .. n - 1 |-> Positive(c[i]) + IF i = 0 THEN 0 ELSE f[i - 1]]

\* There is a function that cumulates the contents,
LEMMA CumulatedExists ==
  ASSUME NEW c, NEW n \in Nat \ {0}, \A i \in 0 .. n - 1 : c[i] \in Int
  PROVE  \E f : CumulatedBy(f, c, n)
<1>1. PICK s : s = [k \in 1 .. n |-> Positive(c[k - 1])]
  OBVIOUS
<1>2. \A k \in 1 .. n : s[k] = Positive(c[k - 1]) /\ s[k] \in Int
  <2> TAKE k \in 1 .. n
  <2>1. k - 1 \in 0 .. n - 1
    OBVIOUS
  <2>2. c[k - 1] \in Int
    BY <2>1
  <2> QED
    BY <2>2, <1>1 DEF Positive
<1>3. PICK f : f = [i \in 0 .. n - 1 |-> SumUpTo(s, i + 1)]
  OBVIOUS
<1>4. \A k \in 0 .. n : SumUpTo(s, k) \in Int
  BY <1>2, SumInt
<1>5. ASSUME NEW i \in 0 .. n - 1
      PROVE  f[i] = Positive(c[i]) + IF i = 0 THEN 0 ELSE f[i - 1]
  <2>1. i \in Nat /\ i + 1 \in 1 .. n /\ (i + 1) - 1 = i /\ i \in 0 .. n
    OBVIOUS
  <2>2. SumUpTo(s, i + 1) = SumUpTo(s, i) + s[i + 1]
    BY <2>1, SumStep
  <2>3. f[i] = SumUpTo(s, i + 1) /\ s[i + 1] = Positive(c[i]) /\ s[i + 1] \in Int
    BY <2>1, <1>2, <1>3
  <2>4. SumUpTo(s, i) = IF i = 0 THEN 0 ELSE f[i - 1]
    <3>1. CASE i = 0
      BY <3>1, SumZero
    <3>2. CASE i # 0
      <4>1. i - 1 \in 0 .. n - 1 /\ (i - 1) + 1 = i
        BY <3>2
      <4> QED
        BY <4>1, <3>2, <1>3
    <3> QED
      BY <3>1, <3>2
  <2>5. SumUpTo(s, i) \in Int
    BY <2>1, <1>4
  <2> QED
    BY <2>2, <2>3, <2>4, <2>5
<1>6. f = [i \in 0 .. n - 1 |-> Positive(c[i]) + IF i = 0 THEN 0 ELSE f[i - 1]]
  BY <1>3, <1>5
<1> QED
  BY <1>6 DEF CumulatedBy

\* so Cumulated() is it, though it is written by recursion,
LEMMA CumulatedIs ==
  ASSUME NEW c, NEW n \in Nat \ {0}, \A i \in 0 .. n - 1 : c[i] \in Int,
         NEW f, f = Cumulated(c, n)
  PROVE  IsCumulated(f, c, n)
<1>1. f = CHOOSE g : CumulatedBy(g, c, n)
  BY DEF Cumulated, CumulatedBy
<1>2. CumulatedBy(f, c, n)
  BY <1>1, CumulatedExists
<1>3. \A i \in 0 .. n - 1 : f[i] = Positive(c[i]) + IF i = 0 THEN 0 ELSE f[i - 1]
  BY <1>2 DEF CumulatedBy
<1>4. \A i \in 0 .. n - 1 : Positive(c[i]) \in Nat
  BY DEF Positive
<1> DEFINE T == {k \in Nat : k <= n - 1 => f[k] \in Nat}
<1>5. 0 \in T
  <2>1. 0 \in 0 .. n - 1
    OBVIOUS
  <2>2. f[0] = Positive(c[0]) + 0
    BY <2>1, <1>3
  <2> QED
    BY <2>1, <2>2, <1>4
<1>6. ASSUME NEW k \in Nat, k \in T PROVE k + 1 \in T
  <2> SUFFICES ASSUME k + 1 <= n - 1 PROVE f[k + 1] \in Nat
    OBVIOUS
  <2>1. k + 1 \in 0 .. n - 1 /\ k + 1 # 0 /\ (k + 1) - 1 = k /\ k <= n - 1
    OBVIOUS
  <2>2. f[k + 1] = Positive(c[k + 1]) + f[k]
    BY <2>1, <1>3
  <2> QED
    BY <2>1, <2>2, <1>4, <1>6
<1> HIDE DEF T
<1>7. Nat \subseteq T
  BY <1>5, <1>6, NatInduct
<1>8. \A k \in 0 .. n - 1 : f[k] \in Nat
  BY <1>7 DEF T
<1>9. f \in [0 .. n - 1 -> Nat]
  BY <1>2, <1>8 DEF CumulatedBy
<1>10. f[0] = Positive(c[0])
  <2>1. 0 \in 0 .. n - 1
    OBVIOUS
  <2> QED
    BY <2>1, <1>3, <1>4
<1>11. ASSUME NEW i \in 1 .. n - 1 PROVE f[i] = f[i - 1] + Positive(c[i])
  <2>1. i \in 0 .. n - 1 /\ i - 1 \in 0 .. n - 1 /\ i # 0
    OBVIOUS
  <2>2. f[i - 1] \in Nat /\ Positive(c[i]) \in Nat
    BY <2>1, <1>4, <1>8
  <2> QED
    BY <2>1, <2>2, <1>3
<1> QED
  BY <1>9, <1>10, <1>11 DEF IsCumulated

\* and it rises from bin to bin.
LEMMA CumulatedRises ==
  ASSUME NEW c, NEW n \in Nat \ {0}, \A i \in 0 .. n - 1 : c[i] \in Int,
         NEW f, IsCumulated(f, c, n)
  PROVE  \A i, j \in 0 .. n - 1 : i <= j => f[i] <= f[j]
<1>1. PICK N \in Nat : N = n - 1
  OBVIOUS
<1>2. \A i \in 0 .. N : f[i] \in Int
  BY <1>1 DEF IsCumulated
<1>3. ASSUME NEW i \in 1 .. N PROVE f[i - 1] <= f[i]
  <2>1. i - 1 \in 0 .. N /\ i \in 0 .. n - 1
    BY <1>1
  <2>2. f[i] = f[i - 1] + Positive(c[i]) /\ c[i] \in Int /\ f[i - 1] \in Int
    BY <2>1, <1>1, <1>2 DEF IsCumulated
  <2> QED
    BY <2>2 DEF Positive
<1> QED
  BY <1>1, <1>2, <1>3, RisesAlong

\* Contents rounded up to parts of their total: they rise with the content, from
\* 1 of the first that is not 0 to the whole of the total.
LEMMA CeilRises ==
  ASSUME NEW M \in Nat \ {0}, NEW T \in Nat \ {0}
  PROVE  /\ \A s \in Nat : CeilDiv(M * s, T) \in Int
         /\ \A s, t \in Nat : s <= t => CeilDiv(M * s, T) <= CeilDiv(M * t, T)
         /\ CeilDiv(M * T, T) = M
         /\ \A s \in Nat : s > 0 => CeilDiv(M * s, T) > 0
<1>1. ASSUME NEW s \in Nat, NEW t \in Nat, s <= t
      PROVE  CeilDiv(M * s, T) <= CeilDiv(M * t, T) /\ CeilDiv(M * s, T) \in Int
  <2>1. PICK k \in Nat : t = s + k
    BY <1>1
  <2>2. M * t = M * s + M * k /\ M * k >= 0 /\ M * s \in Int /\ M * k \in Int
    BY <2>1
  <2>3. PICK a \in Int : a = M * s + T - 1
    BY <2>2
  <2>4. PICK b \in Int : b = M * t + T - 1
    BY <2>2
  <2>5. a <= b
    BY <2>2, <2>3, <2>4
  <2>6. a \div T <= b \div T /\ a \div T \in Int
    BY <2>5, QuotientsRise
  <2> QED
    BY <2>3, <2>4, <2>6 DEF CeilDiv
<1>2. CeilDiv(M * T, T) = M
  <2>1. PICK a \in Int : a = M * T + T - 1
    OBVIOUS
  <2>2. PICK b \in Int : b = T * M /\ b <= a /\ a < b + T
    BY <2>1
  <2>3. M = b \div T
    BY <2>2, QuotientOfProduct
  <2>4. b \div T <= a \div T /\ a \div T \in Int
    BY <2>2, QuotientsRise
  <2>5. PICK q \in Int : q = M + 1 /\ a < T * q
    BY <2>2
  <2>6. a \div T < q
    BY <2>5, QuotientBelow
  <2>7. a \div T = M
    BY <2>3, <2>4, <2>5, <2>6
  <2> QED
    BY <2>1, <2>7 DEF CeilDiv
<1>3. ASSUME NEW s \in Nat, s > 0 PROVE CeilDiv(M * s, T) > 0
  <2>1. M * s >= 1 /\ M * s \in Int
    <3>1. PICK k \in Nat : s = k + 1
      BY <1>3
    <3>2. M * s = M * k + M /\ M * k >= 0 /\ M * k \in Int
      BY <3>1
    <3> QED
      BY <3>2
  <2>2. PICK a \in Int : a = M * s + T - 1 /\ T <= a
    BY <2>1
  <2>3. PICK o \in Int : o = 1
    OBVIOUS
  <2>4. (T * o) \div T = 1 /\ T * o = T
    BY <2>3, QuotientOfProduct
  <2>5. T \div T <= a \div T /\ a \div T \in Int
    BY <2>2, QuotientsRise
  <2> QED
    BY <2>2, <2>4, <2>5 DEF CeilDiv
<1>4. \A s \in Nat : CeilDiv(M * s, T) \in Int
  <2> TAKE s \in Nat
  <2>1. s <= s
    OBVIOUS
  <2> QED
    BY <2>1, <1>1
<1> QED
  BY <1>1, <1>2, <1>3, <1>4

\* The inductive invariant of the functions made from histograms.  A bin i of a template
\* function stands for a bin b of its histogram: b has entries, low[i] is the border of b,
\* and what is stored before i is what was cumulated before b.
Stands(i, b) ==
  /\ hist.cont[b] > 0 /\ low[i] = StoredLevel(b)
  /\ i > 0 => b > FirstBin /\ frac[i - 1] = StoredContent(b - 1)
StoredUpTo(n, last) ==
  /\ \A i \in 0 .. n - 1 : \E b \in FirstBin .. last : Stands(i, b)
  /\ \A i \in 1 .. n - 1 : low[i - 1] < low[i]
  /\ \A i \in 0 .. n - 2 : BaseOf(i) < frac[i] /\ frac[i] < MaxValue(cls.z)
Summed == sum = Cumulated(hist.cont, Count(hist)) /\ Total > 0
\* While bins are taken over, the last content written is that cumulated up to the bin
\* before the next.
Merging ==
  /\ Summed /\ nbins = Count(hist)
  /\ DOMAIN low = 0 .. nbins - 1 /\ DOMAIN frac = 0 .. nbins - 1
  /\ ibin \in FirstBin .. LastBin /\ ihist \in 0 .. ibin - FirstBin
  /\ ihist = 0 => ibin = FirstBin
  /\ ihist > 0 =>
       frac[ihist - 1] = StoredContent(ibin - 1) /\ BaseOf(ihist - 1) < frac[ihist - 1]
  /\ StoredUpTo(ihist, ibin - 1)
Resizing == Summed /\ ihist \in Nat \ {0} /\ StoredUpTo(ihist, LastBin)
Merged ==
  /\ Summed /\ nbins \in Nat \ {0} /\ DOMAIN frac = 0 .. nbins - 2
  /\ StoredUpTo(nbins, LastBin)
\* The other functions have every bin of the histogram, and one that can be drawn has
\* entries.
EntriesOf(i) ==
  CASE cls.form = "two" -> hist.cont[Bin2D(i)]
    [] cls.form = "plain" -> hist.cont[i]
    [] cls.form = "plain2" -> hist.cont[Bin2DPlain(i)]
UpperEnd(i) == IF cls.form = "two" THEN FullOf(i) ELSE frac[i]
AsFilled ==
  /\ nbins = IF cls.form = "plain" THEN Count(hist) ELSE Nx * Ny
  /\ frac \in [0 .. nbins - (IF cls.form = "two" THEN 2 ELSE 1) -> Int]
  /\ \A i \in 0 .. nbins - 1 : BaseOf(i) < UpperEnd(i) => EntriesOf(i) > 0
  /\ UpperEnd(nbins - 1) = Unit
MadeFrom ==
  \/ cls \in Classes1D /\ hist \in Histograms1D
  \/ cls \in Classes2D /\ hist \in Histograms2D
\* A value is drawn with a number below the largest content.
AsDrawn(rnd) ==
  LET i == UpperBound(rnd)
      j == Clamped(i)
  IN  /\ cls.form = "template" =>
           drawn = Drawn(rnd, <<i>>, Rest(i, rnd, FullOf(i)),
                         IF cls.draw = "linear" THEN Slope1D(i) ELSE <<>>)
      /\ cls.form = "two" =>
           drawn = Drawn(rnd, Decode(i), Rest(i, rnd, FullOf(i)),
                         IF cls.draw = "flat" THEN <<>> ELSE Slope2D(i))
      /\ cls.form = "plain" => drawn = Drawn(rnd, <<j>>, Rest(j, rnd, frac[j]), <<>>)
      /\ cls.form = "plain2" =>
           drawn = Drawn(rnd, <<j - Nx * (j \div Nx), j \div Nx>>, Rest(j, rnd, frac[j]), <<>>)
HistInv ==
  /\ doing \in {"check", "merge", "resize", "ready"} => MadeFrom
  /\ doing \notin {"check", "merge", "resize", "ready"} => cls = NoClass
  /\ doing \in {"merge", "resize"} => cls.form = "template"
  /\ doing = "merge" => Merging
  /\ doing = "resize" => Resizing
  /\ doing = "ready" /\ nbins # 0 => IF cls.form = "template" THEN Merged ELSE AsFilled
  /\ doing # "ready" => drawn = Nothing
  /\ drawn # Nothing =>
       IF nbins = 0 THEN drawn.slope = <<>>
       ELSE drawn.rnd \in 0 .. Unit - 1 /\ AsDrawn(drawn.rnd)

\* How many places there are from 0 on.
LEMMA CountOf ==
  ASSUME NEW n \in Nat, NEW f, DOMAIN f = 0 .. n - 1
  PROVE  Cardinality(DOMAIN f) = n
<1>1. Cardinality(0 .. n - 1) = IF 0 > n - 1 THEN 0 ELSE (n - 1) - 0 + 1
  BY FS_Interval
<1> QED
  BY <1>1

\* How many bins a histogram of one dimension has, and what it has in them.
LEMMA BinsOf1D ==
  ASSUME NEW h \in Histograms1D
  PROVE  /\ Count(h) \in Nat /\ Count(h) >= 2
         /\ DOMAIN h.cont = 0 .. Count(h) - 1
         /\ \A i \in 0 .. Count(h) - 1 : h.cont[i] \in Int
         /\ \A i \in 0 .. Count(h) : h.low[i] \in Int
         /\ \A i, j \in 0 .. Count(h) : i < j => h.low[i] < h.low[j]
<1>1. Assumption1D(h)
  BY HistAssumption
<1>2. /\ Count(h) \in Nat \ {0, 1} /\ h.cont \in [0 .. Count(h) - 1 -> Int]
      /\ h.low \in [0 .. Count(h) -> Int]
      /\ \A i, j \in 0 .. Count(h) : i < j => h.low[i] < h.low[j]
  BY <1>1 DEF Assumption1D, Count
<1>3. PICK n : n = Count(h)
  OBVIOUS
<1>4. PICK c, l : c = h.cont /\ l = h.low
  OBVIOUS
<1>5. n \in Nat \ {0, 1} /\ c \in [0 .. n - 1 -> Int] /\ l \in [0 .. n -> Int]
      /\ \A i, j \in 0 .. n : i < j => l[i] < l[j]
  BY <1>2, <1>3, <1>4
<1>6. n \in Nat /\ n >= 2 /\ DOMAIN c = 0 .. n - 1
      /\ (\A i \in 0 .. n - 1 : c[i] \in Int) /\ (\A i \in 0 .. n : l[i] \in Int)
  BY <1>5
<1> QED
  BY <1>3, <1>4, <1>5, <1>6

\* The levels and contents an integer of the widths there are can hold.
LEMMA WidthsOf ==
  ASSUME NEW w \in {8, 16}
  PROVE  MaxValue(w) \in Nat \ {0} /\ Levels(w) \in Nat \ {0}
<1>1. PICK p : p = 2 ^ w
  OBVIOUS
<1>2. p \in Nat /\ p >= 2
  BY <1>1, HistAssumption
<1> QED
  BY <1>1, <1>2 DEF MaxValue, Levels

\* The forms and widths of the classes of one dimension,
LEMMA FormsOf1D ==
  ASSUME cls \in Classes1D
  PROVE  /\ cls.form \in {"template", "plain"}
         /\ cls.form = "template" => cls.x \in {8, 16} /\ cls.z \in {8, 16}
<1>1. Bits \subseteq {8, 16}
  BY HistAssumption
<1>2. CASE cls \in {Class("template", "flat", w[1], 0, w[2]) : w \in {v \in Family1D : Known(v)}}
  <2>1. PICK w \in Family1D : Known(w) /\ cls = Class("template", "flat", w[1], 0, w[2])
    BY <1>2
  <2>2. DOMAIN w = 1 .. 2
    BY DEF Family1D
  <2>3. w[1] \in Bits /\ w[2] \in Bits
    BY <2>1, <2>2 DEF Known
  <2> QED
    BY <1>1, <2>1, <2>3 DEF Class
<1>3. CASE cls \in {Class("template", "linear", w[1], 0, w[2]) : w \in {v \in Interpolated1D : Known(v)}}
  <2>1. PICK w \in Interpolated1D : Known(w) /\ cls = Class("template", "linear", w[1], 0, w[2])
    BY <1>3
  <2>2. DOMAIN w = 1 .. 2
    BY DEF Interpolated1D
  <2>3. w[1] \in Bits /\ w[2] \in Bits
    BY <2>1, <2>2 DEF Known
  <2> QED
    BY <1>1, <2>1, <2>3 DEF Class
<1>4. CASE cls = Class("plain", "flat", 0, 0, 16)
  BY <1>4 DEF Class
<1> QED
  BY <1>2, <1>3, <1>4 DEF Classes1D

\* and those of the classes of two dimensions.
LEMMA FormsOf2D ==
  ASSUME cls \in Classes2D
  PROVE  /\ cls.form \in {"two", "plain2"}
         /\ cls.form = "two" => cls.z \in {8, 16}
<1>1. Bits \subseteq {8, 16}
  BY HistAssumption
<1> DEFINE F(d) == {Class("two", d, w[1], w[2], w[3]) : w \in {v \in Family2D : Known(v)}}
<1>2. ASSUME NEW d, cls \in F(d) PROVE cls.form = "two" /\ cls.z \in {8, 16}
  <2>1. PICK w \in Family2D : Known(w) /\ cls = Class("two", d, w[1], w[2], w[3])
    BY <1>2
  <2>2. DOMAIN w = 1 .. 3
    BY DEF Family2D
  <2>3. w[3] \in Bits
    BY <2>1, <2>2 DEF Known
  <2> QED
    BY <1>1, <2>1, <2>3 DEF Class
<1>3. cls \in F("flat") \/ cls \in F("linear") \/ cls \in F("exponential")
      \/ cls = Class("plain2", "flat", 0, 0, 0)
  BY DEF Classes2D, Interpolated2D, Exponential2D
<1>4. CASE cls = Class("plain2", "flat", 0, 0, 0)
  BY <1>4 DEF Class
<1> HIDE DEF F
<1> QED
  BY <1>2, <1>3, <1>4

\* The first and the last bin a template function is made of.
FirstOf(s) == Min({i \in DOMAIN s : s[i] # 0})
LastOf(s, total) == 1 + Max({0} \cup {i \in DOMAIN s \ {0} : s[i] # total})

\* Both are there, and the first one has entries.
LEMMA FirstAndLast ==
  ASSUME NEW n \in Nat, n >= 2, NEW c, \A i \in 0 .. n - 1 : c[i] \in Int,
         NEW s, IsCumulated(s, c, n), NEW total, total = s[n - 1], total > 0
  PROVE  /\ total \in Nat \ {0}
         /\ FirstOf(s) \in 0 .. n - 1 /\ LastOf(s, total) \in 1 .. n - 1
         /\ FirstOf(s) <= LastOf(s, total)
         /\ s[FirstOf(s)] > 0 /\ c[FirstOf(s)] > 0
         /\ \A b \in LastOf(s, total) .. n - 1 : s[b] = total
<1>1. DOMAIN s = 0 .. n - 1 /\ \A i \in 0 .. n - 1 : s[i] \in Nat
  BY DEF IsCumulated
<1>2. total = s[n - 1]
  OBVIOUS
<1>3. n - 1 \in 0 .. n - 1
  OBVIOUS
<1>4. PICK f : f = FirstOf(s)
  OBVIOUS
<1>5. PICK S : S = {i \in DOMAIN s : s[i] # 0}
  OBVIOUS
<1>6. S \subseteq Nat /\ n - 1 \in S
  BY <1>1, <1>3, <1>5
<1>7. f = Min(S)
  BY <1>4, <1>5 DEF FirstOf
<1>8. f \in S /\ \A x \in S : f <= x
  BY <1>6, <1>7, MinOf
<1>9. f \in 0 .. n - 1 /\ s[f] # 0 /\ s[f] \in Nat
  BY <1>1, <1>5, <1>8
<1>10. c[f] > 0
  <2>1. CASE f = 0
    <3>1. s[0] = Positive(c[0])
      BY DEF IsCumulated
    <3> QED
      BY <3>1, <2>1, <1>9 DEF Positive
  <2>2. CASE f # 0
    <3>1. f \in 1 .. n - 1 /\ f - 1 \in 0 .. n - 1
      BY <2>2, <1>9
    <3>2. f - 1 \notin S
      BY <1>8, <3>1
    <3>3. s[f - 1] = 0
      BY <3>1, <3>2, <1>1, <1>5
    <3>4. s[f] = s[f - 1] + Positive(c[f]) /\ c[f] \in Int
      BY <3>1, <1>9 DEF IsCumulated
    <3> QED
      BY <3>3, <3>4, <1>9 DEF Positive
  <2> QED
    BY <2>1, <2>2
<1>11. PICK T : T = {0} \cup {i \in DOMAIN s \ {0} : s[i] # total}
  OBVIOUS
<1>12. PICK m : m = Max(T)
  OBVIOUS
<1>13. T \subseteq 0 .. n - 1 /\ T # {}
  BY <1>1, <1>11
<1>14. m \in T /\ \A x \in T : x <= m
  <2>1. n - 1 \in Nat
    OBVIOUS
  <2> QED
    BY <2>1, <1>12, <1>13, MaxOf
<1>15. m \in 0 .. n - 1 /\ m # n - 1
  BY <1>2, <1>11, <1>13, <1>14
<1>16. LastOf(s, total) = 1 + m
  BY <1>11, <1>12 DEF LastOf
<1>17. LastOf(s, total) \in 1 .. n - 1
  BY <1>15, <1>16
<1>18. ASSUME NEW b \in LastOf(s, total) .. n - 1 PROVE s[b] = total
  <2>1. b \in 0 .. n - 1 /\ b # 0 /\ ~(b <= m)
    BY <1>15, <1>16, <1>17
  <2>2. b \notin T
    BY <2>1, <1>14
  <2> QED
    BY <2>1, <2>2, <1>1, <1>11
<1>19. f <= LastOf(s, total)
  <2>1. LastOf(s, total) \in 0 .. n - 1 /\ LastOf(s, total) \in LastOf(s, total) .. n - 1
    BY <1>17
  <2>2. s[LastOf(s, total)] = total
    BY <2>1, <1>18
  <2>3. LastOf(s, total) \in S
    BY <2>1, <2>2, <1>1, <1>2, <1>5
  <2> QED
    BY <2>3, <1>8
<1>20. total \in Nat \ {0}
  BY <1>1, <1>2, <1>3
<1> QED
  BY <1>2, <1>4, <1>9, <1>10, <1>17, <1>18, <1>19, <1>20

\* What a template function can store of each bin.
LEMMA TemplateBins ==
  ASSUME cls \in Classes1D, cls.form = "template", hist \in Histograms1D, Summed,
         NEW n, n = Count(hist), NEW M, M = MaxValue(cls.z)
  PROVE  /\ n \in Nat /\ n >= 2 /\ M \in Nat \ {0}
         /\ FirstBin \in 0 .. n - 1 /\ LastBin \in 1 .. n - 1 /\ FirstBin <= LastBin
         /\ hist.cont[FirstBin] > 0
         /\ \A b \in FirstBin .. LastBin :
              StoredLevel(b) \in Int /\ StoredLevel(b) < Levels(cls.x)
         /\ \A b, d \in FirstBin .. LastBin : b <= d => StoredLevel(b) <= StoredLevel(d)
         /\ \A b \in 0 .. n - 1 : StoredContent(b) \in Int /\ StoredContent(b) <= M
         /\ \A b \in 1 .. n - 1 :
              /\ StoredContent(b - 1) <= StoredContent(b)
              /\ StoredContent(b - 1) # StoredContent(b) => hist.cont[b] > 0
         /\ StoredContent(FirstBin) > 0
         /\ \A b \in LastBin .. n - 1 : StoredContent(b) = M
<1>1. /\ n \in Nat /\ n >= 2 /\ \A i \in 0 .. n - 1 : hist.cont[i] \in Int
      /\ \A i \in 0 .. n : hist.low[i] \in Int
      /\ \A i, j \in 0 .. n : i < j => hist.low[i] < hist.low[j]
  BY BinsOf1D
<1>2. IsCumulated(sum, hist.cont, n)
  <2>1. n \in Nat \ {0} /\ sum = Cumulated(hist.cont, n)
    BY <1>1 DEF Summed
  <2> QED
    BY <2>1, <1>1, CumulatedIs
<1>3. Total = sum[n - 1] /\ Total > 0
  <2>1. DOMAIN sum = 0 .. n - 1
    BY <1>2 DEF IsCumulated
  <2>2. Total = sum[n - 1]
    BY <1>1, <2>1, CountOf DEF Total
  <2> QED
    BY <2>2 DEF Summed
<1>4. /\ Total = sum[n - 1] /\ Total \in Nat \ {0}
      /\ FirstBin \in 0 .. n - 1 /\ LastBin \in 1 .. n - 1 /\ FirstBin <= LastBin
      /\ sum[FirstBin] > 0 /\ hist.cont[FirstBin] > 0
      /\ \A b \in LastBin .. n - 1 : sum[b] = Total
  <2>2. FirstBin = FirstOf(sum) /\ LastBin = LastOf(sum, Total)
    BY DEF FirstBin, LastBin, FirstOf, LastOf
  <2>3. PICK c, s, t : c = hist.cont /\ s = sum /\ t = Total
    OBVIOUS
  <2>4. /\ \A i \in 0 .. n - 1 : c[i] \in Int
        /\ IsCumulated(s, c, n) /\ t = s[n - 1] /\ t > 0
    BY <1>1, <1>2, <1>3, <2>3
  <2>5. /\ t \in Nat \ {0}
        /\ FirstOf(s) \in 0 .. n - 1 /\ LastOf(s, t) \in 1 .. n - 1
        /\ FirstOf(s) <= LastOf(s, t)
        /\ s[FirstOf(s)] > 0 /\ c[FirstOf(s)] > 0
        /\ \A b \in LastOf(s, t) .. n - 1 : s[b] = t
    BY <1>1, <2>4, FirstAndLast
  <2> QED
    BY <1>3, <2>2, <2>3, <2>5
<1>5. \A i \in 0 .. n - 1 : sum[i] \in Nat
  BY <1>2 DEF IsCumulated
<1>6. \A i, j \in 0 .. n - 1 : i <= j => sum[i] <= sum[j]
  BY <1>1, <1>2, CumulatedRises
<1>7. M \in Nat \ {0} /\ Levels(cls.x) \in Nat \ {0}
  BY FormsOf1D, WidthsOf
<1>8. /\ \A s \in Nat : CeilDiv(M * s, Total) \in Int
      /\ \A s, t \in Nat : s <= t => CeilDiv(M * s, Total) <= CeilDiv(M * t, Total)
      /\ CeilDiv(M * Total, Total) = M
      /\ \A s \in Nat : s > 0 => CeilDiv(M * s, Total) > 0
  BY <1>4, <1>7, CeilRises
<1>9. \A b : StoredContent(b) = CeilDiv(M * sum[b], Total)
  BY DEF StoredContent
<1>10. ASSUME NEW b \in 0 .. n - 1 PROVE StoredContent(b) \in Int /\ StoredContent(b) <= M
  <2>1. sum[b] \in Nat /\ sum[b] <= Total
    <3>1. n - 1 \in 0 .. n - 1 /\ b <= n - 1
      BY <1>1
    <3> QED
      BY <3>1, <1>4, <1>5, <1>6
  <2> QED
    BY <2>1, <1>4, <1>8, <1>9
<1>11. ASSUME NEW b \in 1 .. n - 1
       PROVE  /\ StoredContent(b - 1) <= StoredContent(b)
              /\ StoredContent(b - 1) # StoredContent(b) => hist.cont[b] > 0
  <2>1. b \in 0 .. n - 1 /\ b - 1 \in 0 .. n - 1 /\ b - 1 <= b
    BY <1>1
  <2>2. sum[b - 1] \in Nat /\ sum[b] \in Nat /\ sum[b - 1] <= sum[b]
    BY <2>1, <1>5, <1>6
  <2>3. StoredContent(b - 1) <= StoredContent(b)
    BY <2>2, <1>8, <1>9
  <2>4. ASSUME StoredContent(b - 1) # StoredContent(b) PROVE hist.cont[b] > 0
    <3>1. sum[b - 1] # sum[b]
      BY <2>4, <1>9
    <3>2. sum[b] = sum[b - 1] + Positive(hist.cont[b]) /\ hist.cont[b] \in Int
      BY <2>1, <1>1, <1>2 DEF IsCumulated
    <3> QED
      BY <3>1, <3>2, <2>2 DEF Positive
  <2> QED
    BY <2>3, <2>4
<1>12. StoredContent(FirstBin) > 0
  BY <1>4, <1>5, <1>8, <1>9
<1>13. \A b \in LastBin .. n - 1 : StoredContent(b) = M
  BY <1>4, <1>8, <1>9
<1>14. PICK L \in Nat \ {0} : L = Levels(cls.x)
  BY <1>7
<1>15. PICK lo \in Int : lo = hist.low[FirstBin]
  BY <1>1, <1>4
<1>16. PICK w \in Nat \ {0} : w = hist.low[LastBin + 1] - lo
  <2>1. LastBin + 1 \in 0 .. n /\ FirstBin \in 0 .. n /\ FirstBin < LastBin + 1
    BY <1>1, <1>4
  <2>2. lo < hist.low[LastBin + 1] /\ hist.low[LastBin + 1] \in Int
    BY <2>1, <1>1, <1>15
  <2> QED
    BY <2>2
<1>17. \A b : StoredLevel(b) = ((hist.low[b] - lo) * L) \div w
  BY <1>14, <1>15, <1>16 DEF StoredLevel, Level
<1>18. ASSUME NEW b \in FirstBin .. LastBin
       PROVE  StoredLevel(b) \in Int /\ StoredLevel(b) < Levels(cls.x)
  <2>1. b \in 0 .. n /\ LastBin + 1 \in 0 .. n /\ b < LastBin + 1
    BY <1>1, <1>4
  <2>2. hist.low[b] < hist.low[LastBin + 1] /\ hist.low[b] \in Int /\ hist.low[LastBin + 1] \in Int
    BY <2>1, <1>1
  <2>8. PICK e \in Int : e = hist.low[b] - lo
    BY <2>2, <1>15
  <2>9. PICK d \in Nat \ {0} : d = hist.low[LastBin + 1] - hist.low[b]
    BY <2>2
  <2>3. w = e + d
    BY <2>2, <2>8, <2>9, <1>15, <1>16
  <2>4. w * L = e * L + d * L /\ d * L > 0 /\ d * L \in Int /\ e * L \in Int /\ w * L \in Int
    BY <2>3
  <2>5. e * L < w * L
    BY <2>4
  <2>6. PICK a \in Int : a = e * L
    BY <2>4
  <2>7. a \div w < L /\ a \div w \in Int
    BY <2>5, <2>6, QuotientBelow
  <2> QED
    BY <2>8, <2>6, <2>7, <1>14, <1>17
<1>19. ASSUME NEW b \in FirstBin .. LastBin, NEW d \in FirstBin .. LastBin, b <= d
       PROVE  StoredLevel(b) <= StoredLevel(d)
  <2>1. b \in 0 .. n /\ d \in 0 .. n /\ (b = d \/ b < d)
    BY <1>1, <1>4, <1>19
  <2>2. hist.low[b] <= hist.low[d] /\ hist.low[b] \in Int /\ hist.low[d] \in Int
    BY <2>1, <1>1
  <2>8. PICK e \in Int : e = hist.low[b] - lo
    BY <2>2, <1>15
  <2>9. PICK k \in Nat : k = hist.low[d] - hist.low[b]
    BY <2>2
  <2>3. PICK f \in Int : f = hist.low[d] - lo /\ f = e + k
    BY <2>2, <2>8, <2>9, <1>15
  <2>4. f * L = e * L + k * L /\ k * L >= 0 /\ k * L \in Int /\ e * L \in Int /\ f * L \in Int
    BY <2>3
  <2>5. PICK a \in Int, z \in Int : a = e * L /\ z = f * L /\ a <= z
    BY <2>4
  <2>6. a \div w <= z \div w
    BY <2>5, QuotientsRise
  <2> QED
    BY <2>3, <2>8, <2>5, <2>6, <1>17
<1> QED
  BY <1>1, <1>4, <1>7, <1>10, <1>11, <1>12, <1>13, <1>18, <1>19

\* Nothing that is computed from the histogram changes while a function is made of it.
LEMMA SameBins ==
  ASSUME UNCHANGED <<cls, hist, sum>>
  PROVE  /\ FirstBin' = FirstBin /\ LastBin' = LastBin /\ Total' = Total
         /\ \A b : StoredLevel(b)' = StoredLevel(b) /\ StoredContent(b)' = StoredContent(b)
         /\ Summed <=> Summed'
<1>1. Total' = Total
  BY DEF Total
<1>2. FirstBin' = FirstBin
  BY DEF FirstBin
<1>3. LastBin' = LastBin
  BY <1>1 DEF LastBin
<1>4. \A b : StoredLevel(b)' = StoredLevel(b)
  BY <1>2, <1>3 DEF StoredLevel
<1>5. \A b : StoredContent(b)' = StoredContent(b)
  BY <1>1 DEF StoredContent
<1>6. Summed <=> Summed'
  BY <1>1 DEF Summed
<1> QED
  BY <1>1, <1>2, <1>3, <1>4, <1>5, <1>6

\* Bins that are not written stand for what they stood for.
LEMMA BinsBefore ==
  ASSUME UNCHANGED <<cls, hist, sum>>, NEW k \in Nat, NEW last \in Int, NEW more \in Int,
         FirstBin \in Int, last <= more, StoredUpTo(k, last),
         \A j \in 0 .. k - 1 : low'[j] = low[j], \A j \in 0 .. k - 2 : frac'[j] = frac[j]
  PROVE  StoredUpTo(k, more)'
<1>1. ASSUME NEW i \in 0 .. k - 1 PROVE \E b \in FirstBin' .. more : Stands(i, b)'
  <2>1. PICK b \in FirstBin .. last : Stands(i, b)
    BY DEF StoredUpTo
  <2>2. low'[i] = low[i] /\ (i > 0 => frac'[i - 1] = frac[i - 1])
    <3>1. i > 0 => i - 1 \in 0 .. k - 2
      OBVIOUS
    <3> QED
      BY <3>1
  <2>3. Stands(i, b)'
    BY <2>1, <2>2, SameBins DEF Stands
  <2>4. b \in FirstBin' .. more
    BY <2>1, SameBins
  <2> QED
    BY <2>3, <2>4
<1>2. ASSUME NEW i \in 1 .. k - 1 PROVE low'[i - 1] < low'[i]
  <2>1. i \in 0 .. k - 1 /\ i - 1 \in 0 .. k - 1
    OBVIOUS
  <2>2. low[i - 1] < low[i]
    BY DEF StoredUpTo
  <2> QED
    BY <2>1, <2>2
<1>3. ASSUME NEW i \in 0 .. k - 2
      PROVE  BaseOf(i)' < frac'[i] /\ frac'[i] < MaxValue(cls'.z)
  <2>1. BaseOf(i) < frac[i] /\ frac[i] < MaxValue(cls.z)
    BY DEF StoredUpTo
  <2>2. i # 0 => i - 1 \in 0 .. k - 2
    OBVIOUS
  <2>3. BaseOf(i)' = BaseOf(i)
    BY <2>2 DEF BaseOf
  <2> QED
    BY <2>1, <2>3
<1> QED
  BY <1>1, <1>2, <1>3 DEF StoredUpTo

\* One more bin.
LEMMA OneMore ==
  ASSUME NEW k \in Nat, NEW b \in Int, FirstBin' \in Int, b >= FirstBin',
         StoredUpTo(k, b)', Stands(k, b)',
         k > 0 => /\ low'[k - 1] < low'[k]
                  /\ BaseOf(k - 1)' < frac'[k - 1] /\ frac'[k - 1] < MaxValue(cls'.z)
  PROVE  StoredUpTo(k + 1, b)'
<1>0. /\ \A i \in 0 .. k - 1 : \E d \in FirstBin' .. b : Stands(i, d)'
      /\ \A i \in 1 .. k - 1 : low'[i - 1] < low'[i]
      /\ \A i \in 0 .. k - 2 : BaseOf(i)' < frac'[i] /\ frac'[i] < MaxValue(cls'.z)
  BY DEF StoredUpTo
<1>1. ASSUME NEW i \in 0 .. (k + 1) - 1 PROVE \E d \in FirstBin' .. b : Stands(i, d)'
  <2>1. CASE i = k
    <3>1. b \in FirstBin' .. b
      OBVIOUS
    <3> QED
      BY <3>1, <2>1
  <2>2. CASE i # k
    <3>1. i \in 0 .. k - 1
      BY <2>2
    <3> QED
      BY <3>1, <1>0
  <2> QED
    BY <2>1, <2>2
<1>2. ASSUME NEW i \in 1 .. (k + 1) - 1 PROVE low'[i - 1] < low'[i]
  <2>1. CASE i = k
    BY <2>1
  <2>2. CASE i # k
    <3>1. i \in 1 .. k - 1
      BY <2>2
    <3> QED
      BY <3>1, <1>0
  <2> QED
    BY <2>1, <2>2
<1>3. ASSUME NEW i \in 0 .. (k + 1) - 2
      PROVE  BaseOf(i)' < frac'[i] /\ frac'[i] < MaxValue(cls'.z)
  <2>1. CASE i = k - 1
    BY <2>1
  <2>2. CASE i # k - 1
    <3>1. i \in 0 .. k - 2
      BY <2>2
    <3> QED
      BY <3>1, <1>0
  <2> QED
    BY <2>1, <2>2
<1> QED
  BY <1>1, <1>2, <1>3 DEF StoredUpTo

\* The next bin of the histogram is taken over, merged or dropped.
LEMMA BinTaken ==
  ASSUME cls \in Classes1D, cls.form = "template", hist \in Histograms1D, Merging, MergeBin
  PROVE  (doing' = "merge" => Merging') /\ (doing' = "resize" => Resizing')
<1>1. PICK n \in Nat : n = Count(hist) /\ n >= 2
  BY BinsOf1D
<1>2. PICK M \in Nat \ {0} : M = MaxValue(cls.z)
  BY FormsOf1D, WidthsOf
<1>3. PICK h \in Nat : h = ihist
  <2>1. FirstBin \in Int
    BY <1>1, <1>2, TemplateBins DEF Merging
  <2> QED
    BY <2>1 DEF Merging
<1>4. PICK F \in 0 .. n - 1, T \in 1 .. n - 1 : F = FirstBin /\ T = LastBin
  BY <1>1, <1>2, TemplateBins DEF Merging
<1>5. PICK b \in F .. T : b = ibin
  BY <1>4 DEF Merging
<1>6. /\ \A d \in F .. T : StoredLevel(d) \in Int /\ StoredLevel(d) < Levels(cls.x)
      /\ \A d, e \in F .. T : d <= e => StoredLevel(d) <= StoredLevel(e)
      /\ \A d \in 0 .. n - 1 : StoredContent(d) \in Int /\ StoredContent(d) <= M
      /\ \A d \in 1 .. n - 1 :
           /\ StoredContent(d - 1) <= StoredContent(d)
           /\ StoredContent(d - 1) # StoredContent(d) => hist.cont[d] > 0
      /\ StoredContent(F) > 0 /\ hist.cont[F] > 0
      /\ \A d \in T .. n - 1 : StoredContent(d) = M
  BY <1>1, <1>2, <1>4, TemplateBins DEF Merging
<1>7. PICK lev \in Int : lev = StoredLevel(b)
  BY <1>6
<1>8. PICK con \in Int : con = StoredContent(b) /\ con <= M
  <2>1. b \in 0 .. n - 1
    OBVIOUS
  <2> QED
    BY <2>1, <1>6
<1>9. /\ Summed /\ nbins = n /\ DOMAIN low = 0 .. n - 1 /\ DOMAIN frac = 0 .. n - 1
      /\ h <= b - F /\ (h = 0 => b = F)
      /\ h > 0 => frac[h - 1] = StoredContent(b - 1) /\ BaseOf(h - 1) < frac[h - 1]
      /\ StoredUpTo(h, b - 1)
  BY <1>1, <1>3, <1>4, <1>5 DEF Merging
<1>10. PICK i \in Nat : i = IF h > 0 /\ low[h - 1] = lev THEN h - 1 ELSE h
  <2>1. CASE h > 0 /\ low[h - 1] = lev
    <3>1. h - 1 \in Nat
      BY <2>1
    <3> QED
      BY <3>1, <2>1
  <2>2. CASE ~(h > 0 /\ low[h - 1] = lev)
    BY <2>2
  <2> QED
    BY <2>1, <2>2
<1>11. PICK w : w = SetFraction(frac, i, con)
  OBVIOUS
<1>12. PICK same \in BOOLEAN : same <=> (i > 0 /\ GetFraction(w, i - 1) = GetFraction(w, i))
  OBVIOUS
<1>13. /\ low' = [low EXCEPT ![h] = lev] /\ frac' = w
       /\ ihist' = (IF same THEN i ELSE i + 1) /\ ibin' = b + 1
       /\ doing' = (IF b = T THEN "resize" ELSE "merge")
       /\ UNCHANGED <<cls, hist, sum, nbins>>
  BY <1>3, <1>4, <1>5, <1>7, <1>8, <1>10, <1>11, <1>12 DEF MergeBin
<1>14. /\ DOMAIN low' = 0 .. n - 1
       /\ \A j \in 0 .. h - 1 : low'[j] = low[j]
       /\ h < n => low'[h] = lev
  BY <1>9, <1>13
<1>15. w = IF i >= n - 1 THEN frac ELSE [frac EXCEPT ![i] = con]
  BY <1>9, <1>11 DEF SetFraction
<1>16. /\ DOMAIN frac' = 0 .. n - 1
       /\ \A j \in 0 .. n - 1 : j # i => frac'[j] = frac[j]
       /\ i < n - 1 => frac'[i] = con
  BY <1>9, <1>13, <1>15
<1>17. PICK k \in Nat : k = ihist'
  BY <1>13
<1>18. /\ FirstBin' = F /\ LastBin' = T /\ Summed'
       /\ \A d : StoredLevel(d)' = StoredLevel(d) /\ StoredContent(d)' = StoredContent(d)
       /\ MaxValue(cls'.z) = M
  BY <1>2, <1>4, <1>9, <1>13, SameBins
<1>19. ASSUME k \in 1 .. b + 1 - F, StoredUpTo(k, b)',
              b < T => frac'[k - 1] = con /\ BaseOf(k - 1)' < frac'[k - 1]
       PROVE  (doing' = "merge" => Merging') /\ (doing' = "resize" => Resizing')
  <2>1. CASE b = T
    <3>1. doing' = "resize"
      BY <2>1, <1>13
    <3>2. Resizing'
      BY <2>1, <1>17, <1>18, <1>19 DEF Resizing
    <3> QED
      BY <3>1, <3>2
  <2>2. CASE b # T
    <3>1. doing' = "merge" /\ b < T /\ b + 1 \in F .. T
      BY <2>2, <1>13
    <3>2. Summed' /\ nbins' = Count(hist')
      BY <1>1, <1>9, <1>13, <1>18
    <3>3. DOMAIN low' = 0 .. nbins' - 1 /\ DOMAIN frac' = 0 .. nbins' - 1
      BY <1>9, <1>13, <1>14, <1>16
    <3>4. ibin' \in FirstBin' .. LastBin' /\ ihist' \in 0 .. ibin' - FirstBin' /\ ihist' # 0
      BY <3>1, <1>13, <1>17, <1>18, <1>19
    <3>5. (ihist > 0 =>
             frac[ihist - 1] = StoredContent(ibin - 1) /\ BaseOf(ihist - 1) < frac[ihist - 1])'
      <4>1. ibin' - 1 = b /\ ihist' = k
        BY <1>13, <1>17
      <4>2. StoredContent(ibin - 1)' = con
        <5>1. StoredContent(ibin - 1)' = StoredContent(b)'
          BY <4>1 DEF StoredContent
        <5> QED
          BY <5>1, <1>8, <1>18
      <4>3. BaseOf(ihist - 1)' = BaseOf(k - 1)'
        BY <4>1 DEF BaseOf
      <4> QED
        BY <4>1, <4>2, <4>3, <3>1, <1>19
    <3>6. StoredUpTo(ihist, ibin - 1)'
      <4>1. ibin' - 1 = b /\ ihist' = k
        BY <1>13, <1>17
      <4> QED
        BY <4>1, <1>19 DEF StoredUpTo
    <3>7. Merging'
      BY <3>2, <3>3, <3>4, <3>5, <3>6 DEF Merging
    <3> QED
      BY <3>1, <3>7
  <2> QED
    BY <2>1, <2>2
<1>20. StoredUpTo(h, b)'
  <2>1. \A j \in 0 .. h - 2 : frac'[j] = frac[j]
    BY <1>9, <1>10, <1>16
  <2>2. b - 1 \in Int /\ b \in Int /\ b - 1 <= b /\ F \in Int
    OBVIOUS
  <2> QED
    BY <2>1, <2>2, <1>4, <1>9, <1>13, <1>14, BinsBefore
<1>21. h > 0 => BaseOf(h - 1)' = BaseOf(h - 1)
  <2> SUFFICES ASSUME h > 0, h - 1 # 0 PROVE frac'[(h - 1) - 1] = frac[(h - 1) - 1]
    BY DEF BaseOf
  <2>1. (h - 1) - 1 \in 0 .. n - 1 /\ (h - 1) - 1 # i
    BY <1>9, <1>10
  <2> QED
    BY <2>1, <1>16
<1>22. h > 0 => StoredContent(b - 1) <= con /\ StoredContent(b - 1) \in Int /\ b > F
  <2> SUFFICES ASSUME h > 0 PROVE StoredContent(b - 1) <= con /\ StoredContent(b - 1) \in Int /\ b > F
    OBVIOUS
  <2>1. b \in 1 .. n - 1 /\ b - 1 \in 0 .. n - 1 /\ b > F
    BY <1>9
  <2> QED
    BY <2>1, <1>6, <1>8
<1>23. h > 0 => BaseOf(h - 1) \in Int
  <2> SUFFICES ASSUME h > 0, h - 1 # 0 PROVE frac[(h - 1) - 1] \in Int
    BY DEF BaseOf
  <2>1. h - 1 \in 0 .. h - 1
    OBVIOUS
  <2>2. PICK d \in F .. b - 1 : Stands(h - 1, d)
    BY <2>1, <1>4, <1>9 DEF StoredUpTo
  <2>3. d > F /\ frac[(h - 1) - 1] = StoredContent(d - 1) /\ d - 1 \in 0 .. n - 1
    <3>1. h - 1 > 0
      OBVIOUS
    <3> QED
      BY <3>1, <2>2, <1>4 DEF Stands
  <2> QED
    BY <2>3, <1>6
<1>24. CASE h > 0 /\ low[h - 1] = lev
  <2>1. i = h - 1 /\ i < n - 1 /\ i \in 0 .. n - 1
    BY <1>9, <1>10, <1>24
  <2>2. frac'[h - 1] = con
    BY <2>1, <1>16
  <2>3. BaseOf(h - 1) < con
    BY <1>9, <1>22, <1>23, <1>24
  <2>4. ~same
    <3> SUFFICES ASSUME i > 0 PROVE GetFraction(w, i - 1) # GetFraction(w, i)
      BY <1>12
    <3>1. i - 1 \in 0 .. n - 1 /\ i - 1 # i /\ i - 1 < n - 1
      BY <2>1
    <3>2. w[i - 1] = frac[i - 1] /\ w[i] = con
      BY <3>1, <2>1, <1>13, <1>16
    <3>3. frac[i - 1] = BaseOf(h - 1)
      BY <2>1 DEF BaseOf
    <3>4. frac[i - 1] # con
      BY <3>3, <2>3, <1>23, <1>24
    <3> QED
      BY <3>1, <3>2, <3>4, <2>1, <1>9 DEF GetFraction
  <2>5. k = h
    BY <2>1, <2>4, <1>13, <1>17
  <2>6. BaseOf(h - 1)' < frac'[h - 1]
    BY <2>2, <2>3, <1>21, <1>24
  <2>7. k \in 1 .. b + 1 - F
    BY <2>5, <1>9, <1>24
  <2> QED
    BY <2>2, <2>5, <2>6, <2>7, <1>19, <1>20
<1>25. CASE h = 0
  <2>1. i = 0 /\ b = F /\ n - 1 > 0 /\ 0 \in 0 .. n - 1
    BY <1>1, <1>9, <1>10, <1>25
  <2>2. ~same /\ k = 1 /\ k = h + 1
    BY <2>1, <1>12, <1>13, <1>17, <1>25
  <2>3. frac'[0] = con /\ low'[0] = lev /\ con > 0
    BY <2>1, <1>1, <1>6, <1>8, <1>14, <1>16, <1>25
  <2>4. Stands(h, b)'
    BY <2>1, <2>3, <1>6, <1>7, <1>13, <1>18, <1>25 DEF Stands
  <2>5. StoredUpTo(h + 1, b)'
    <3>1. b \in Int /\ F \in Int /\ b >= F
      OBVIOUS
    <3> QED
      BY <3>1, <2>4, <1>18, <1>20, <1>25, OneMore
  <2>6. BaseOf(k - 1)' < frac'[k - 1] /\ frac'[k - 1] = con
    BY <2>2, <2>3 DEF BaseOf
  <2> QED
    BY <2>2, <2>5, <2>6, <1>19
<1>26. CASE h > 0 /\ low[h - 1] # lev
  <2>1. i = h /\ h \in 1 .. n - 1 /\ h - 1 \in 0 .. n - 1 /\ h - 1 # i /\ h - 1 < n - 1
    BY <1>9, <1>10, <1>26
  <2>2. frac'[h - 1] = frac[h - 1] /\ frac[h - 1] = StoredContent(b - 1)
    BY <2>1, <1>9, <1>16, <1>26
  <2>3. GetFraction(w, i - 1) = StoredContent(b - 1)
    BY <2>1, <2>2, <1>9, <1>13 DEF GetFraction
  <2>4. GetFraction(w, i) = con
    <3>1. CASE i < n - 1
      BY <3>1, <1>9, <1>13, <1>16 DEF GetFraction
    <3>2. CASE i = n - 1
      <4>1. b = n - 1 /\ b \in T .. n - 1
        BY <3>2, <2>1, <1>9
      <4> QED
        BY <4>1, <3>2, <1>2, <1>6, <1>8, <1>9 DEF GetFraction
    <3> QED
      BY <3>1, <3>2, <2>1
  <2>5. same <=> StoredContent(b - 1) = con
    BY <2>1, <2>3, <2>4, <1>12
  <2>6. CASE same
    <3>1. k = h /\ StoredContent(b - 1) = con
      BY <2>1, <2>5, <2>6, <1>13, <1>17
    <3>2. frac'[k - 1] = con /\ BaseOf(k - 1)' < frac'[k - 1]
      BY <3>1, <2>2, <1>9, <1>21, <1>26
    <3>3. k \in 1 .. b + 1 - F
      BY <3>1, <1>9, <1>26
    <3> QED
      BY <3>1, <3>2, <3>3, <1>19, <1>20
  <2>7. CASE ~same
    <3>1. k = h + 1 /\ StoredContent(b - 1) < con
      BY <2>1, <2>5, <2>7, <1>13, <1>17, <1>22, <1>26
    <3>2. hist.cont[b] > 0 /\ b > F
      <4>1. b \in 1 .. n - 1 /\ b > F
        BY <1>22, <1>26
      <4> QED
        BY <4>1, <3>1, <1>6, <1>8, <1>22, <1>26
    <3>3. low'[h] = lev /\ h < n
      BY <2>1, <1>14
    <3>4. Stands(h, b)'
      BY <2>2, <3>2, <3>3, <1>7, <1>13, <1>18 DEF Stands
    <3>5. low'[h - 1] < low'[h]
      <4>1. h - 1 \in 0 .. h - 1
        BY <2>1
      <4>2. PICK d \in F .. b - 1 : Stands(h - 1, d)
        BY <4>1, <1>4, <1>9 DEF StoredUpTo
      <4>3. d \in F .. T /\ d <= b
        OBVIOUS
      <4>4. low[h - 1] = StoredLevel(d) /\ StoredLevel(d) <= lev /\ StoredLevel(d) \in Int
        BY <4>2, <4>3, <1>6, <1>7 DEF Stands
      <4>5. low[h - 1] < lev
        BY <4>4, <1>26
      <4> QED
        BY <4>1, <4>5, <3>3, <1>14
    <3>6. BaseOf(h - 1)' < frac'[h - 1] /\ frac'[h - 1] < MaxValue(cls'.z)
      <4>1. frac[h - 1] < M
        BY <2>2, <3>1, <1>8, <1>22, <1>26
      <4> QED
        BY <4>1, <2>2, <1>9, <1>18, <1>21, <1>26
    <3>7. StoredUpTo(h + 1, b)'
      <4>1. b \in Int /\ F \in Int /\ b >= F
        OBVIOUS
      <4> QED
        BY <4>1, <3>4, <3>5, <3>6, <1>18, <1>20, OneMore
    <3>8. b < T => frac'[k - 1] = con /\ BaseOf(k - 1)' < frac'[k - 1]
      <4> SUFFICES ASSUME b < T PROVE frac'[k - 1] = con /\ BaseOf(k - 1)' < frac'[k - 1]
        OBVIOUS
      <4>1. h < n - 1 /\ k - 1 = h /\ h # 0
        BY <3>1, <2>1, <1>9
      <4>2. frac'[h] = con
        BY <4>1, <2>1, <1>16
      <4>3. BaseOf(h)' = StoredContent(b - 1)
        BY <4>1, <2>2 DEF BaseOf
      <4> QED
        BY <4>1, <4>2, <4>3, <3>1
    <3>9. k \in 1 .. b + 1 - F
      BY <3>1, <1>9
    <3> QED
      BY <3>1, <3>7, <3>8, <3>9, <1>19
  <2> QED
    BY <2>6, <2>7
<1> QED
  BY <1>24, <1>25, <1>26

\* Copying what is stored keeps it.
LEMMA Resized ==
  ASSUME cls \in Classes1D, cls.form = "template", hist \in Histograms1D, Resizing, Resize
  PROVE  nbins' # 0 /\ Merged'
<1>1. PICK h \in Nat \ {0} : h = ihist
  BY DEF Resizing
<1>2. PICK T \in Int : T = LastBin /\ FirstBin \in Int
  <2>1. Summed /\ \E n : n = Count(hist)
    BY DEF Resizing
  <2>2. PICK n : n = Count(hist)
    OBVIOUS
  <2>3. PICK M : M = MaxValue(cls.z)
    OBVIOUS
  <2>4. n \in Nat /\ FirstBin \in 0 .. n - 1 /\ LastBin \in 1 .. n - 1
    BY <2>1, <2>2, <2>3, TemplateBins
  <2> QED
    BY <2>4
<1>3. /\ nbins' = h /\ low' = [i \in 0 .. h - 1 |-> low[i]]
      /\ frac' = [i \in 0 .. h - 2 |-> frac[i]] /\ UNCHANGED <<cls, hist, sum>>
  BY <1>1 DEF Resize
<1>4. StoredUpTo(h, T)
  BY <1>1, <1>2 DEF Resizing
<1>5. StoredUpTo(h, T)'
  <2>1. \A j \in 0 .. h - 1 : low'[j] = low[j]
    BY <1>3
  <2>2. \A j \in 0 .. h - 2 : frac'[j] = frac[j]
    BY <1>3
  <2>3. T <= T /\ h \in Nat
    OBVIOUS
  <2> QED
    BY <2>1, <2>2, <2>3, <1>2, <1>3, <1>4, BinsBefore
<1>6. Summed' /\ LastBin' = T
  BY <1>2, <1>3, SameBins DEF Resizing
<1>7. StoredUpTo(nbins, LastBin)'
  <2>1. nbins' = h /\ LastBin' = T
    BY <1>3, <1>6
  <2> QED
    BY <2>1, <1>5 DEF StoredUpTo
<1>8. nbins' \in Nat \ {0} /\ DOMAIN frac' = 0 .. nbins' - 2
  BY <1>3
<1> QED
  BY <1>6, <1>7, <1>8 DEF Merged

\* A template function is started with nothing stored.
LEMMA TemplateStarts ==
  ASSUME cls \in Classes1D, cls.form = "template", hist \in Histograms1D, Check1D
  PROVE  /\ doing' = "merge" => Merging'
         /\ doing' = "ready" => nbins' = 0
         /\ doing' \in {"merge", "ready"}
<1>1. PICK n \in Nat : n = Count(hist) /\ n >= 2
  BY BinsOf1D
<1>2. PICK s : s = Cumulated(hist.cont, n)
  OBVIOUS
<1>3. PICK t : t = s[n - 1]
  OBVIOUS
<1>4. sum' = s /\ UNCHANGED <<cls, hist>>
  BY <1>1, <1>2 DEF Check1D
<1>5. CASE t <= 0
  BY <1>1, <1>3, <1>4, <1>5 DEF Check1D
<1>6. CASE ~(t <= 0)
  <2>1. /\ nbins' = n /\ low' = Zeros(n) /\ frac' = Zeros(n)
        /\ ibin' = FirstBin' /\ ihist' = 0 /\ doing' = "merge"
    BY <1>1, <1>3, <1>4, <1>6 DEF Check1D
  <2>2. \A i \in 0 .. n - 1 : hist.cont[i] \in Int
    BY <1>1, BinsOf1D
  <2>3. IsCumulated(s, hist.cont, n)
    BY <2>2, <1>1, <1>2, CumulatedIs
  <2>4. t \in Nat /\ DOMAIN s = 0 .. n - 1
    BY <2>3, <1>1, <1>3 DEF IsCumulated
  <2>5. Total' = t /\ t > 0
    BY <2>4, <1>3, <1>4, <1>6, CountOf DEF Total
  <2>6. FirstOf(s) \in 0 .. n - 1 /\ LastOf(s, t) \in 1 .. n - 1 /\ FirstOf(s) <= LastOf(s, t)
    BY <2>2, <2>3, <2>5, <1>1, <1>3, FirstAndLast
  <2>7. FirstBin' = FirstOf(s) /\ LastBin' = LastOf(s, t)
    BY <2>5, <1>4 DEF FirstBin, LastBin, FirstOf, LastOf
  <2>8. Summed' /\ nbins' = Count(hist')
    BY <2>1, <2>5, <1>1, <1>2, <1>4 DEF Summed
  <2>9. DOMAIN low' = 0 .. nbins' - 1 /\ DOMAIN frac' = 0 .. nbins' - 1
    BY <2>1 DEF Zeros
  <2>10. ibin' \in FirstBin' .. LastBin' /\ ihist' \in 0 .. ibin' - FirstBin'
    BY <2>1, <2>6, <2>7
  <2>11. StoredUpTo(ihist, ibin - 1)'
    BY <2>1 DEF StoredUpTo
  <2>12. (ihist > 0 =>
            frac[ihist - 1] = StoredContent(ibin - 1) /\ BaseOf(ihist - 1) < frac[ihist - 1])'
    BY <2>1
  <2>13. Merging'
    BY <2>1, <2>8, <2>9, <2>10, <2>11, <2>12 DEF Merging
  <2> QED
    BY <2>1, <2>13
<1> QED
  BY <1>5, <1>6

\* What is stored rises only at bins with entries.
RisesOnlyAt(g, c, n) ==
  \A i \in 0 .. n - 1 : (IF i = 0 THEN 0 ELSE g[i - 1]) < g[i] => c[i] > 0
\* What follows the cumulated contents rises only at bins with entries.
LEMMA RisesAtEntries ==
  ASSUME NEW n \in Nat \ {0}, NEW c, \A i \in 0 .. n - 1 : c[i] \in Int,
         NEW s, IsCumulated(s, c, n), NEW g, \A i \in 0 .. n - 1 : g[i] \in Int,
         \A i, j \in 0 .. n - 1 : s[i] = s[j] => g[i] = g[j], s[0] = 0 => g[0] = 0
  PROVE  RisesOnlyAt(g, c, n)
<1> SUFFICES ASSUME NEW i \in 0 .. n - 1, (IF i = 0 THEN 0 ELSE g[i - 1]) < g[i]
             PROVE  c[i] > 0
  BY DEF RisesOnlyAt
<1>1. CASE i = 0
  <2>1. s[0] = Positive(c[0]) /\ c[0] \in Int /\ s[0] # 0
    BY <1>1 DEF IsCumulated
  <2> QED
    BY <2>1, <1>1 DEF Positive
<1>2. CASE i # 0
  <2>1. i \in 1 .. n - 1 /\ i - 1 \in 0 .. n - 1
    BY <1>2
  <2>2. s[i] # s[i - 1]
    BY <2>1, <1>2
  <2>3. s[i] = s[i - 1] + Positive(c[i]) /\ c[i] \in Int /\ s[i - 1] \in Nat
    BY <2>1 DEF IsCumulated
  <2> QED
    BY <2>2, <2>3 DEF Positive
<1> QED
  BY <1>1, <1>2

\* How many bins a histogram of two dimensions has, and what it has in them.
LEMMA BinsOf2D ==
  ASSUME hist \in Histograms2D
  PROVE  /\ Nx \in Nat \ {0} /\ Ny \in Nat \ {0} /\ Nx * Ny \in Nat \ {0}
         /\ \A i \in 0 .. Nx * Ny - 1 :
              /\ hist.cont[Bin2D(i)] \in Int /\ hist.cont[Bin2DPlain(i)] \in Int
              /\ i \div Ny \in 0 .. Nx - 1 /\ i \div Nx \in 0 .. Ny - 1
<1>1. Assumption2D(hist)
  BY HistAssumption
<1>2. PICK x \in Nat \ {0} : x = Nx /\ Len(hist.x) = x + 1
  <2>1. Len(hist.x) \in Nat /\ Len(hist.x) >= 2 /\ DOMAIN hist.x = 1 .. Len(hist.x)
    BY <1>1 DEF Assumption2D
  <2>2. Cardinality(DOMAIN hist.x) = Len(hist.x)
    BY <2>1, FS_Interval
  <2> QED
    BY <2>1, <2>2 DEF Nx
<1>3. PICK y \in Nat \ {0} : y = Ny /\ Len(hist.y) = y + 1
  <2>1. Len(hist.y) \in Nat /\ Len(hist.y) >= 2 /\ DOMAIN hist.y = 1 .. Len(hist.y)
    BY <1>1 DEF Assumption2D
  <2>2. Cardinality(DOMAIN hist.y) = Len(hist.y)
    BY <2>1, FS_Interval
  <2> QED
    BY <2>1, <2>2 DEF Ny
<1>4. x * y \in Nat \ {0} /\ x * y = y * x
  OBVIOUS
<1>5. hist.cont \in [(0 .. x - 1) \X (0 .. y - 1) -> Int]
  BY <1>1, <1>2, <1>3 DEF Assumption2D
<1>6. PICK n \in Nat \ {0} : n = x * y
  BY <1>4
<1>7. ASSUME NEW i \in 0 .. n - 1
      PROVE  i \div y \in 0 .. x - 1 /\ i \div x \in 0 .. y - 1
  <2>1. i < y * x /\ i < x * y
    BY <1>4, <1>6
  <2>2. i \div y < x /\ i \div x < y
    BY <2>1, QuotientBelow
  <2>3. i \div y \in Int /\ i \div x \in Int /\ 0 \div y <= i \div y /\ 0 \div x <= i \div x
    BY QuotientsRise
  <2>4. 0 \div y = 0 /\ 0 \div x = 0
    OBVIOUS
  <2> QED
    BY <2>2, <2>3, <2>4
<1>8. \A i \in 0 .. n - 1 : i % y \in 0 .. y - 1 /\ i % x \in 0 .. x - 1
  OBVIOUS
<1>9. \A i \in 0 .. n - 1 : hist.cont[Bin2D(i)] \in Int /\ hist.cont[Bin2DPlain(i)] \in Int
  BY <1>2, <1>3, <1>5, <1>7, <1>8 DEF Bin2D, Bin2DPlain
<1> QED
  BY <1>2, <1>3, <1>4, <1>6, <1>7, <1>9

\* What the functions that keep every bin need of the cumulated contents.
LEMMA CumulatedFacts ==
  ASSUME NEW n \in Nat \ {0}, NEW c, \A i \in 0 .. n - 1 : c[i] \in Int,
         NEW s, s = Cumulated(c, n), NEW t, t = s[n - 1]
  PROVE  /\ IsCumulated(s, c, n) /\ DOMAIN s = 0 .. n - 1
         /\ \A i \in 0 .. n - 1 : s[i] \in Nat
         /\ t \in Nat /\ Cardinality(DOMAIN s) = n
<1>1. IsCumulated(s, c, n)
  BY CumulatedIs
<1>2. DOMAIN s = 0 .. n - 1 /\ \A i \in 0 .. n - 1 : s[i] \in Nat
  BY <1>1 DEF IsCumulated
<1>3. Cardinality(DOMAIN s) = n
  BY <1>2, CountOf
<1>4. n - 1 \in 0 .. n - 1
  OBVIOUS
<1> QED
  BY <1>1, <1>2, <1>3, <1>4

\* A template function of two dimensions is made with every bin of its histogram,
LEMMA Filled2D ==
  ASSUME cls \in Classes2D, hist \in Histograms2D, Check2D, nbins' # 0
  PROVE  AsFilled'
<1>1. cls.form = "two" /\ UNCHANGED <<cls, hist>>
  BY DEF Check2D
<1>2. PICK M \in Nat \ {0} : M = MaxValue(cls.z)
  BY <1>1, FormsOf2D, WidthsOf
<1>3. PICK n \in Nat \ {0} : n = Nx * Ny
  BY BinsOf2D
<1>4. PICK c : c = [i \in 0 .. n - 1 |-> hist.cont[Bin2D(i)]]
  OBVIOUS
<1>5. \A i \in 0 .. n - 1 : c[i] \in Int /\ c[i] = hist.cont[Bin2D(i)]
  BY <1>3, <1>4, BinsOf2D
<1>6. PICK s : s = Cumulated(c, n)
  OBVIOUS
<1>7. PICK t : t = s[n - 1]
  OBVIOUS
<1>8. /\ IsCumulated(s, c, n) /\ DOMAIN s = 0 .. n - 1
      /\ \A i \in 0 .. n - 1 : s[i] \in Nat
      /\ t \in Nat
  BY <1>5, <1>6, <1>7, CumulatedFacts
<1>9. /\ sum' = s /\ nbins' = IF t <= 0 THEN 0 ELSE n
      /\ frac' = IF t <= 0 THEN <<>>
                 ELSE [i \in 0 .. n - 2 |-> CeilDiv(MaxValue(cls.z) * s[i], t)]
  BY <1>3, <1>4, <1>6, <1>7 DEF Check2D
<1>10. t \in Nat \ {0} /\ nbins' = n /\ frac' = [i \in 0 .. n - 2 |-> CeilDiv(M * s[i], t)]
  BY <1>2, <1>8, <1>9
<1>11. PICK g : g = [i \in 0 .. n - 1 |-> CeilDiv(M * s[i], t)]
  OBVIOUS
<1>12. /\ \A a \in Nat : CeilDiv(M * a, t) \in Int
       /\ CeilDiv(M * t, t) = M
  BY <1>10, CeilRises
<1>13. CeilDiv(M * 0, t) = 0
  <2>1. M * 0 = 0 /\ 0 + t - 1 \in 0 .. t - 1
    BY <1>10
  <2>2. (0 + t - 1) \div t = 0
    BY <2>1, <1>10
  <2> QED
    BY <2>1, <2>2 DEF CeilDiv
<1>14. \A i \in 0 .. n - 1 : g[i] \in Int /\ g[i] = CeilDiv(M * s[i], t)
  BY <1>8, <1>11, <1>12
<1>15. g[n - 1] = M /\ n - 1 \in 0 .. n - 1
  BY <1>7, <1>12, <1>14
<1>16. \A i \in 0 .. n - 1 : (IF i = 0 THEN 0 ELSE g[i - 1]) < g[i] => c[i] > 0
  <2>1. s[0] = 0 => g[0] = 0
    <3>1. 0 \in 0 .. n - 1
      OBVIOUS
    <3> QED
      BY <3>1, <1>13, <1>14
  <2>2. \A i, j \in 0 .. n - 1 : s[i] = s[j] => g[i] = g[j]
    BY <1>14
  <2>3. RisesOnlyAt(g, c, n)
    BY <2>1, <2>2, <1>5, <1>8, <1>14, RisesAtEntries
  <2> QED
    BY <2>3 DEF RisesOnlyAt
<1>17. \A i \in 0 .. n - 2 : frac'[i] = g[i]
  BY <1>10, <1>11
<1>18. ASSUME NEW i \in 0 .. n - 1 PROVE UpperEnd(i)' = g[i]
  <2>1. UpperEnd(i)' = IF i >= n - 1 THEN M ELSE frac'[i]
    BY <1>1, <1>2, <1>10 DEF UpperEnd, FullOf, GetFraction
  <2>2. CASE i = n - 1
    BY <2>1, <2>2, <1>15
  <2>3. CASE i # n - 1
    <3>1. i \in 0 .. n - 2 /\ ~(i >= n - 1)
      BY <2>3
    <3> QED
      BY <3>1, <2>1, <1>17
  <2> QED
    BY <2>2, <2>3
<1>19. ASSUME NEW i \in 0 .. n - 1 PROVE BaseOf(i)' = IF i = 0 THEN 0 ELSE g[i - 1]
  <2>1. i # 0 => i - 1 \in 0 .. n - 2
    OBVIOUS
  <2> QED
    BY <2>1, <1>17 DEF BaseOf
<1>20. ASSUME NEW i \in 0 .. n - 1 PROVE EntriesOf(i)' = c[i]
  <2>1. EntriesOf(i)' = hist'.cont[Bin2D(i)']
    BY <1>1 DEF EntriesOf
  <2>2. Bin2D(i)' = Bin2D(i)
    BY <1>1 DEF Bin2D, Ny
  <2> QED
    BY <2>1, <2>2, <1>1, <1>5
<1>21. Nx' = Nx /\ Ny' = Ny
  BY <1>1 DEF Nx, Ny
<1>22. nbins' = Nx' * Ny' /\ cls'.form = "two"
  BY <1>1, <1>3, <1>10, <1>21
<1>23. frac' \in [0 .. nbins' - 2 -> Int]
  <2>1. \A i \in 0 .. n - 2 : i \in 0 .. n - 1
    OBVIOUS
  <2>2. \A i \in 0 .. n - 2 : frac'[i] \in Int
    BY <2>1, <1>14, <1>17
  <2> QED
    BY <2>2, <1>10
<1>24. \A i \in 0 .. nbins' - 1 : BaseOf(i)' < UpperEnd(i)' => EntriesOf(i)' > 0
  BY <1>10, <1>16, <1>18, <1>19, <1>20
<1>25. UpperEnd(nbins - 1)' = Unit'
  <2>1. Unit' = M
    BY <1>1, <1>2 DEF Unit
  <2>2. UpperEnd(nbins - 1)' = UpperEnd(n - 1)'
    BY <1>10 DEF UpperEnd, FullOf, GetFraction
  <2> QED
    BY <2>1, <2>2, <1>15, <1>18
<1> QED
  BY <1>22, <1>23, <1>24, <1>25 DEF AsFilled

\* and so are the other one of one dimension,
LEMMA FilledPlain ==
  ASSUME cls \in Classes1D, hist \in Histograms1D, Check1DPlain, nbins' # 0
  PROVE  AsFilled'
<1>1. cls.form = "plain" /\ UNCHANGED <<cls, hist>>
  BY DEF Check1DPlain
<1>2. PICK M \in Nat \ {0} : M = MaxValue(16)
  BY WidthsOf
<1>3. PICK n \in Nat \ {0} : n = Count(hist)
  BY BinsOf1D
<1>4. PICK c : c = hist.cont
  OBVIOUS
<1>5. \A i \in 0 .. n - 1 : c[i] \in Int
  BY <1>3, <1>4, BinsOf1D
<1>6. PICK s : s = Cumulated(c, n)
  OBVIOUS
<1>7. PICK t : t = s[n - 1]
  OBVIOUS
<1>8. /\ IsCumulated(s, c, n) /\ DOMAIN s = 0 .. n - 1
      /\ \A i \in 0 .. n - 1 : s[i] \in Nat
      /\ t \in Nat /\ Cardinality(DOMAIN s) = n
  BY <1>5, <1>6, <1>7, CumulatedFacts
<1>9. sum' = s
  BY <1>3, <1>4, <1>6 DEF Check1DPlain
<1>10. Total' = t
  BY <1>7, <1>8, <1>9 DEF Total
<1>11. t \in Nat \ {0} /\ nbins' = n /\ frac' = [i \in 0 .. n - 1 |-> (M * s[i]) \div t]
  <2>1. /\ nbins' = IF Total' <= 0 THEN 0 ELSE n
        /\ frac' = IF Total' <= 0 THEN <<>>
                   ELSE [i \in DOMAIN sum' |-> (MaxValue(16) * sum'[i]) \div Total']
    BY <1>3 DEF Check1DPlain
  <2>2. t \in Nat \ {0} /\ nbins' = n
    BY <2>1, <1>8, <1>10
  <2> QED
    BY <2>1, <2>2, <1>2, <1>8, <1>9, <1>10
<1>12. \A i \in 0 .. n - 1 : frac'[i] = (M * s[i]) \div t /\ frac'[i] \in Int
  <2> SUFFICES ASSUME NEW i \in 0 .. n - 1 PROVE frac'[i] = (M * s[i]) \div t /\ frac'[i] \in Int
    OBVIOUS
  <2>1. PICK a \in Int : a = M * s[i]
    BY <1>8
  <2>2. a \div t \in Int
    BY <1>11
  <2> QED
    BY <2>1, <2>2, <1>11
<1>13. \A i \in 0 .. n - 1 : (IF i = 0 THEN 0 ELSE frac'[i - 1]) < frac'[i] => c[i] > 0
  <2>1. PICK g : g = frac'
    OBVIOUS
  <2>2. s[0] = 0 => g[0] = 0
    <3>1. 0 \in 0 .. n - 1
      OBVIOUS
    <3>2. M * 0 = 0 /\ 0 \div t = 0
      BY <1>11
    <3> QED
      BY <3>1, <3>2, <2>1, <1>12
  <2>3. \A i, j \in 0 .. n - 1 : s[i] = s[j] => g[i] = g[j]
    BY <2>1, <1>12
  <2>4. \A i \in 0 .. n - 1 : g[i] \in Int
    BY <2>1, <1>12
  <2>5. RisesOnlyAt(g, c, n)
    BY <2>2, <2>3, <2>4, <1>5, <1>8, RisesAtEntries, ZenonT(30)
  <2> QED
    BY <2>1, <2>5 DEF RisesOnlyAt
<1>14. \A i : UpperEnd(i)' = frac'[i] /\ EntriesOf(i)' = c[i]
  BY <1>1, <1>4 DEF UpperEnd, EntriesOf
<1>15. nbins' = Count(hist') /\ cls'.form = "plain"
  BY <1>1, <1>3, <1>11
<1>16. frac' \in [0 .. nbins' - 1 -> Int]
  BY <1>11, <1>12
<1>17. \A i \in 0 .. nbins' - 1 : BaseOf(i)' < UpperEnd(i)' => EntriesOf(i)' > 0
  BY <1>11, <1>13, <1>14 DEF BaseOf
<1>18. UpperEnd(nbins - 1)' = Unit'
  <2>1. Unit' = M
    BY <1>1, <1>2 DEF Unit
  <2>2. UpperEnd(nbins - 1)' = frac'[n - 1]
    BY <1>1, <1>11 DEF UpperEnd
  <2>3. n - 1 \in 0 .. n - 1
    OBVIOUS
  <2>4. (M * t) \div t = M
    <3>1. M * t = t * M
      BY <1>8
    <3> QED
      BY <3>1, <1>11, QuotientOfProduct
  <2> QED
    BY <2>1, <2>2, <2>3, <2>4, <1>7, <1>12
<1> QED
  BY <1>15, <1>16, <1>17, <1>18 DEF AsFilled

\* and the other one of two.
LEMMA FilledPlain2D ==
  ASSUME cls \in Classes2D, hist \in Histograms2D, Check2DPlain, nbins' # 0
  PROVE  AsFilled'
<1>1. cls.form = "plain2" /\ UNCHANGED <<cls, hist>>
  BY DEF Check2DPlain
<1>3. PICK n \in Nat \ {0} : n = Nx * Ny
  BY BinsOf2D
<1>4. PICK c : c = [i \in 0 .. n - 1 |-> hist.cont[Bin2DPlain(i)]]
  OBVIOUS
<1>5. \A i \in 0 .. n - 1 : c[i] \in Int /\ c[i] = hist.cont[Bin2DPlain(i)]
  BY <1>3, <1>4, BinsOf2D
<1>6. PICK s : s = Cumulated(c, n)
  OBVIOUS
<1>7. PICK t : t = s[n - 1]
  OBVIOUS
<1>8. /\ IsCumulated(s, c, n) /\ DOMAIN s = 0 .. n - 1
      /\ \A i \in 0 .. n - 1 : s[i] \in Nat
      /\ t \in Nat /\ Cardinality(DOMAIN s) = n
  BY <1>5, <1>6, <1>7, CumulatedFacts
<1>9. /\ sum' = s /\ nbins' = IF t <= 0 THEN 0 ELSE n
      /\ frac' = IF t <= 0 THEN <<>> ELSE [i \in 0 .. n - 1 |-> 2 * s[i]]
  BY <1>3, <1>4, <1>6, <1>7 DEF Check2DPlain
<1>10. Total' = t
  BY <1>7, <1>8, <1>9 DEF Total
<1>11. t \in Nat \ {0} /\ nbins' = n /\ frac' = [i \in 0 .. n - 1 |-> 2 * s[i]]
  BY <1>8, <1>9
<1>12. \A i \in 0 .. n - 1 : frac'[i] = 2 * s[i] /\ frac'[i] \in Int
  BY <1>8, <1>11
<1>13. \A i \in 0 .. n - 1 : (IF i = 0 THEN 0 ELSE frac'[i - 1]) < frac'[i] => c[i] > 0
  <2>1. PICK g : g = frac'
    OBVIOUS
  <2>2. s[0] = 0 => g[0] = 0
    <3>1. 0 \in 0 .. n - 1
      OBVIOUS
    <3> QED
      BY <3>1, <2>1, <1>12
  <2>3. \A i, j \in 0 .. n - 1 : s[i] = s[j] => g[i] = g[j]
    BY <2>1, <1>12
  <2>4. \A i \in 0 .. n - 1 : g[i] \in Int
    BY <2>1, <1>12
  <2>6. IsCumulated(s, c, n) /\ \A i \in 0 .. n - 1 : c[i] \in Int
    BY <1>5, <1>8
  <2>5. RisesOnlyAt(g, c, n)
    BY <2>2, <2>3, <2>4, <2>6, RisesAtEntries
  <2> QED
    BY <2>1, <2>5 DEF RisesOnlyAt
<1>14. ASSUME NEW i \in 0 .. n - 1 PROVE UpperEnd(i)' = frac'[i] /\ EntriesOf(i)' = c[i]
  <2>1. EntriesOf(i)' = hist'.cont[Bin2DPlain(i)']
    BY <1>1 DEF EntriesOf
  <2>2. Bin2DPlain(i)' = Bin2DPlain(i)
    BY <1>1 DEF Bin2DPlain, Nx
  <2>3. UpperEnd(i)' = frac'[i]
    BY <1>1 DEF UpperEnd
  <2> QED
    BY <2>1, <2>2, <2>3, <1>1, <1>5
<1>15. Nx' = Nx /\ Ny' = Ny
  BY <1>1 DEF Nx, Ny
<1>16. nbins' = Nx' * Ny' /\ cls'.form = "plain2"
  BY <1>1, <1>3, <1>11, <1>15
<1>17. frac' \in [0 .. nbins' - 1 -> Int]
  BY <1>11, <1>12
<1>18. \A i \in 0 .. nbins' - 1 : BaseOf(i)' < UpperEnd(i)' => EntriesOf(i)' > 0
  BY <1>11, <1>13, <1>14 DEF BaseOf
<1>19. UpperEnd(nbins - 1)' = Unit'
  <2>1. Unit' = 2 * t
    BY <1>1, <1>10 DEF Unit
  <2>2. UpperEnd(nbins - 1)' = frac'[n - 1]
    BY <1>1, <1>11 DEF UpperEnd
  <2>3. n - 1 \in 0 .. n - 1
    OBVIOUS
  <2> QED
    BY <2>1, <2>2, <2>3, <1>7, <1>12
<1> QED
  BY <1>16, <1>17, <1>18, <1>19 DEF AsFilled

\* The first content above the number.
LEMMA UpperBoundIs ==
  ASSUME NEW k \in Nat, DOMAIN frac = 0 .. k - 1, NEW rnd \in Int,
         NEW i, i = UpperBound(rnd)
  PROVE  /\ i \in 0 .. k
         /\ i < k => frac[i] > rnd
         /\ i > 0 => ~(frac[i - 1] > rnd)
<1>1. PICK S : S = {k} \cup {j \in DOMAIN frac : frac[j] > rnd}
  OBVIOUS
<1>2. i = Min(S)
  BY <1>1, CountOf DEF UpperBound
<1>3. S \subseteq Nat /\ k \in S
  BY <1>1
<1>4. i \in S /\ \A x \in S : i <= x
  BY <1>2, <1>3, MinOf
<1>5. i \in 0 .. k
  BY <1>1, <1>4
<1>6. i < k => frac[i] > rnd
  BY <1>1, <1>4, <1>5
<1>7. ASSUME i > 0 PROVE ~(frac[i - 1] > rnd)
  <2>1. i - 1 \in 0 .. k - 1 /\ ~(i <= i - 1)
    BY <1>5, <1>7
  <2>2. i - 1 \notin S
    BY <2>1, <1>4
  <2> QED
    BY <2>1, <2>2, <1>1
<1> QED
  BY <1>5, <1>6, <1>7

\* A number below the last content lies in the bin it chooses.
LEMMA InItsBin ==
  ASSUME NEW n \in Nat \ {0}, NEW up, \A i \in 0 .. n - 1 : up[i] \in Int,
         NEW k \in Nat, k <= n, n <= k + 1, DOMAIN frac = 0 .. k - 1,
         \A i \in 0 .. k - 1 : frac[i] = up[i],
         NEW rnd \in Nat, rnd < up[n - 1], NEW i, i = UpperBound(rnd)
  PROVE  /\ i \in 0 .. n - 1 /\ BaseOf(i) \in Int /\ BaseOf(i) <= rnd /\ rnd < up[i]
         /\ \A j \in 1 .. n - 1 : BaseOf(j) = up[j - 1]
<1>1. /\ i \in 0 .. k
      /\ i < k => frac[i] > rnd
      /\ i > 0 => ~(frac[i - 1] > rnd)
  <2>1. rnd \in Int
    OBVIOUS
  <2> QED
    BY <2>1, UpperBoundIs
<1>2. i \in 0 .. n - 1 /\ rnd < up[i]
  <2>1. CASE i < k
    <3>1. i \in 0 .. k - 1 /\ i \in 0 .. n - 1
      BY <2>1, <1>1
    <3>2. frac[i] = up[i] /\ frac[i] > rnd /\ up[i] \in Int
      BY <3>1, <2>1, <1>1
    <3> QED
      BY <3>1, <3>2
  <2>2. CASE i = k
    <3>1. CASE k = n
      <4>1. n - 1 \in 0 .. k - 1 /\ n - 1 \in 0 .. n - 1 /\ i - 1 = n - 1 /\ i > 0
        BY <3>1, <2>2
      <4>2. frac[i - 1] = up[n - 1] /\ up[n - 1] \in Int
        BY <4>1
      <4> QED
        BY <4>1, <4>2, <1>1
    <3>2. CASE k # n
      BY <3>2, <2>2
    <3> QED
      BY <3>1, <3>2
  <2> QED
    BY <2>1, <2>2, <1>1
<1>3. ASSUME NEW j \in 1 .. n - 1 PROVE BaseOf(j) = up[j - 1] /\ up[j - 1] \in Int
  <2>1. j - 1 \in 0 .. k - 1 /\ j # 0 /\ j - 1 \in 0 .. n - 1
    OBVIOUS
  <2> QED
    BY <2>1 DEF BaseOf
<1>4. BaseOf(i) \in Int /\ BaseOf(i) <= rnd
  <2>1. CASE i = 0
    BY <2>1 DEF BaseOf
  <2>2. CASE i # 0
    <3>1. i \in 1 .. n - 1 /\ i > 0
      BY <2>2, <1>2
    <3>2. BaseOf(i) = frac[i - 1] /\ BaseOf(i) \in Int
      BY <3>1, <2>2, <1>3 DEF BaseOf
    <3> QED
      BY <3>1, <3>2, <1>1
  <2> QED
    BY <2>1, <2>2
<1> QED
  BY <1>2, <1>3, <1>4

\* The neighbours of a bin in a histogram of one dimension.
LEMMA Slope1DIs ==
  ASSUME NEW n \in Nat \ {0}, n = nbins, NEW i \in 0 .. n - 1,
         \A j \in 1 .. n - 1 : BaseOf(j) = FullOf(j - 1),
         cls.form = "template", drawn.bin = <<i>>,
         drawn.slope = Slope1D(i)
  PROVE  NeighboursInTheRow
<1>1. i % n = i /\ i - (i % n) = 0 /\ (i - (i % n)) + n - 1 = n - 1
  OBVIOUS
<1> DEFINE row == 0 .. n - 1
<1>2. i > 0 => i - 1 \in row /\ BaseOf(i) = FullOf(i - 1)
  OBVIOUS
<1>3. i < n - 1 => i + 1 \in row /\ BaseOf(i + 1) = FullOf(i)
  <2> SUFFICES ASSUME i < n - 1 PROVE i + 1 \in row /\ BaseOf(i + 1) = FullOf(i)
    OBVIOUS
  <2>1. i + 1 \in 1 .. n - 1 /\ (i + 1) - 1 = i
    OBVIOUS
  <2> QED
    BY <2>1
<1>4. (i = 0 => i - 1 \notin row) /\ (i = n - 1 => i + 1 \notin row) /\ i \in row
  OBVIOUS
<1>5. Slope1D(i) = <<IF i > 0 THEN ContentOf(i - 1) ELSE ContentOf(i), ContentOf(i),
                     IF i < n - 1 THEN ContentOf(i + 1) ELSE ContentOf(i)>>
  BY <1>2, <1>3 DEF Slope1D, ContentOf
<1>6. Slope1D(i) = <<IF i - 1 \in row THEN ContentOf(i - 1) ELSE ContentOf(i),
                     IF i \in row THEN ContentOf(i) ELSE ContentOf(i),
                     IF i + 1 \in row THEN ContentOf(i + 1) ELSE ContentOf(i)>>
  BY <1>2, <1>3, <1>4, <1>5
<1> HIDE DEF row
<1>7. drawn.bin[1] = i
  OBVIOUS
<1>8. i - (i % n) .. i - (i % n) + n - 1 = row
  BY <1>1 DEF row
<1> QED
  BY <1>6, <1>7, <1>8 DEF NeighboursInTheRow

\* The neighbours of a bin in its row of a histogram of two dimensions.
LEMMA Slope2DIs ==
  ASSUME NEW n \in Nat \ {0}, n = nbins, NEW x \in Nat \ {0}, NEW y \in Nat \ {0}, y = Ny,
         n = x * y, NEW i \in 0 .. n - 1, i \div y \in 0 .. x - 1,
         \A j \in 0 .. n - 1 : FullOf(j) \in Int,
         \A j \in 1 .. n - 1 : BaseOf(j) = FullOf(j - 1),
         cls.form = "two", drawn.bin = Decode(i), drawn.slope = Slope2D(i)
  PROVE  NeighboursInTheRow
<1>1. PICK q \in 0 .. x - 1 : q = i \div y
  OBVIOUS
<1>2. PICK r \in 0 .. y - 1 : r = i % y
  BY SMTT(30)
<1>3. i = y * q + r
  BY <1>1, <1>2
<1>4. PICK z \in Nat : z = y * q
  OBVIOUS
<1>5. i = z + r /\ q * y = z
  BY <1>3, <1>4
<1>6. z + y <= n /\ (q > 0 => z >= 1) /\ (q = 0 => z = 0)
  <2>1. PICK k \in Nat : k = x - 1 - q
    OBVIOUS
  <2>2. x = q + 1 + k
    BY <2>1
  <2>3. x * y = y * q + y + y * k /\ y * k \in Int /\ y * k >= 0
    BY <2>2
  <2>4. z + y <= n
    BY <2>3, <1>4
  <2>5. ASSUME q > 0 PROVE z >= 1
    <3>1. PICK m \in Nat : m = q - 1
      BY <2>5
    <3>2. y * q = y * m + y /\ y * m \in Int /\ y * m >= 0
      BY <3>1
    <3> QED
      BY <3>2, <1>4
  <2>6. q = 0 => z = 0
    BY <1>4
  <2> QED
    BY <2>4, <2>5, <2>6
<1>7. PICK row : row = z .. z + y - 1
  OBVIOUS
<1>8. /\ i - 1 \in row <=> r > 0
      /\ i + 1 \in row <=> r < y - 1
      /\ i \in row
  BY <1>5, <1>7
<1>9. BaseOf(0) = 0
  BY DEF BaseOf
<1>10. ContentOf(i) = IF r > 0 THEN FullOf(i) - FullOf(i - 1)
                      ELSE IF q > 0 THEN FullOf(i) - FullOf(i - 1) ELSE FullOf(i)
  <2>1. CASE i > 0
    <3>1. BaseOf(i) = FullOf(i - 1)
      BY <2>1
    <3>2. r > 0 \/ q > 0
      BY <2>1, <1>5, <1>6
    <3> QED
      BY <3>1, <3>2 DEF ContentOf
  <2>2. CASE i = 0
    <3>1. r = 0 /\ q = 0 /\ FullOf(0) \in Int
      BY <2>2, <1>5, <1>6
    <3> QED
      BY <3>1, <2>2, <1>9 DEF ContentOf
  <2> QED
    BY <2>1, <2>2
<1>11. ASSUME r > 1 PROVE ContentOf(i - 1) = FullOf(i - 1) - FullOf(i - 2)
  <2>1. i - 1 \in 1 .. n - 1 /\ (i - 1) - 1 = i - 2
    BY <1>5, <1>11
  <2> QED
    BY <2>1 DEF ContentOf
<1>12. ASSUME r = 1
       PROVE  ContentOf(i - 1) = IF q > 0 THEN FullOf(i - 1) - FullOf(i - 2) ELSE FullOf(i - 1)
  <2>1. CASE q > 0
    <3>1. i - 1 \in 1 .. n - 1 /\ (i - 1) - 1 = i - 2
      BY <2>1, <1>5, <1>6, <1>12
    <3> QED
      BY <3>1, <2>1 DEF ContentOf
  <2>2. CASE ~(q > 0)
    <3>1. i - 1 = 0 /\ FullOf(0) \in Int
      BY <2>2, <1>5, <1>6, <1>12
    <3> QED
      BY <3>1, <2>2, <1>9 DEF ContentOf
  <2> QED
    BY <2>1, <2>2
<1>13. ASSUME r < y - 1 PROVE ContentOf(i + 1) = FullOf(i + 1) - FullOf(i)
  <2>1. i + 1 \in 1 .. n - 1 /\ (i + 1) - 1 = i
    BY <1>5, <1>6, <1>13
  <2> QED
    BY <2>1 DEF ContentOf
<1>14. Slope2D(i)
         = <<IF r > 1 THEN FullOf(i - 1) - FullOf(i - 2)
             ELSE IF r = 1
               THEN IF q > 0 THEN FullOf(i - 1) - FullOf(i - 2) ELSE FullOf(i - 1)
             ELSE ContentOf(i),
             ContentOf(i),
             IF r < y - 1 THEN FullOf(i + 1) - FullOf(i) ELSE ContentOf(i)>>
  BY <1>1, <1>2, <1>10 DEF Slope2D
<1>15. Slope2D(i) = <<IF i - 1 \in row THEN ContentOf(i - 1) ELSE ContentOf(i),
                      IF i \in row THEN ContentOf(i) ELSE ContentOf(i),
                      IF i + 1 \in row THEN ContentOf(i + 1) ELSE ContentOf(i)>>
  <2>1. CASE r > 1
    BY <2>1, <1>8, <1>11, <1>13, <1>14
  <2>2. CASE r = 1
    BY <2>2, <1>8, <1>12, <1>13, <1>14
  <2>3. CASE r = 0
    BY <2>3, <1>8, <1>13, <1>14
  <2> QED
    BY <2>1, <2>2, <2>3
<1>16. drawn.bin[1] * y + drawn.bin[2] = i
  <2>1. drawn.bin = <<q, r>>
    BY <1>1, <1>2 DEF Decode
  <2>2. drawn.bin[1] = q /\ drawn.bin[2] = r
    BY <2>1
  <2> QED
    BY <2>2, <1>5
<1>17. i - (i % y) .. i - (i % y) + y - 1 = row
  <2>1. i - (i % y) = z
    BY <1>2, <1>5
  <2> QED
    BY <2>1, <1>7
<1> QED
  BY <1>15, <1>16, <1>17 DEF NeighboursInTheRow

\* The invariant says of the borders what is promised.
LEMMA BordersFollow == HistInv => BordersMatchContents
<1> SUFFICES ASSUME HistInv, cls.form = "template", doing \in {"merge", "ready"},
                    NEW i \in 1 .. Stored - 1
             PROVE  /\ \E b \in FirstBin + 1 .. LastBin :
                         low[i] = StoredLevel(b) /\ frac[i - 1] = StoredContent(b - 1)
                    /\ low[i - 1] < low[i]
                    /\ BaseOf(i - 1) < frac[i - 1] /\ frac[i - 1] < MaxValue(cls.z)
  BY DEF BordersMatchContents
<1>1. cls \in Classes1D /\ hist \in Histograms1D
  BY FormsOf2D DEF HistInv, MadeFrom
<1>2. Summed /\ (doing = "merge" => Merging) /\ (doing = "ready" => Merged)
  <2>1. CASE doing = "merge"
    BY <2>1 DEF HistInv, Merging
  <2>2. CASE doing = "ready"
    <3>1. nbins # 0
      BY <2>2 DEF Stored
    <3> QED
      BY <3>1, <2>2 DEF HistInv, Merged
  <2> QED
    BY <2>1, <2>2
<1>3. PICK n : n = Count(hist)
  OBVIOUS
<1>4. PICK M : M = MaxValue(cls.z)
  OBVIOUS
<1>5. n \in Nat /\ FirstBin \in 0 .. n - 1 /\ LastBin \in 1 .. n - 1
  BY <1>1, <1>2, <1>3, <1>4, TemplateBins
<1>6. PICK k \in Nat, last \in Int : k = Stored /\ last <= LastBin /\ StoredUpTo(k, last)
  <2>1. CASE doing = "merge"
    <3>1. Merging
      BY <2>1, <1>2
    <3>2. ihist \in Nat /\ ibin - 1 \in Int /\ ibin - 1 <= LastBin /\ StoredUpTo(ihist, ibin - 1)
      BY <3>1, <1>5 DEF Merging
    <3> QED
      BY <3>2, <2>1 DEF Stored
  <2>2. CASE doing = "ready"
    <3>1. nbins \in Nat /\ LastBin \in Int /\ LastBin <= LastBin /\ StoredUpTo(nbins, LastBin)
      BY <2>2, <1>2, <1>5 DEF Merged
    <3> QED
      BY <3>1, <2>2 DEF Stored
  <2> QED
    BY <2>1, <2>2
<1>7. i \in 0 .. k - 1 /\ i \in 1 .. k - 1 /\ i - 1 \in 0 .. k - 2 /\ i > 0
  BY <1>6
<1>8. PICK b \in FirstBin .. last : Stands(i, b)
  BY <1>6, <1>7 DEF StoredUpTo
<1>9. b \in FirstBin + 1 .. LastBin /\ low[i] = StoredLevel(b) /\ frac[i - 1] = StoredContent(b - 1)
  BY <1>5, <1>6, <1>7, <1>8 DEF Stands
<1>10. /\ low[i - 1] < low[i]
       /\ BaseOf(i - 1) < frac[i - 1] /\ frac[i - 1] < MaxValue(cls.z)
  BY <1>6, <1>7 DEF StoredUpTo
<1> QED
  BY <1>9, <1>10

\* A value drawn from a template function lies in a bin that has entries.
LEMMA TemplateDrawn ==
  ASSUME cls \in Classes1D, cls.form = "template", hist \in Histograms1D, Merged,
         drawn.rnd \in 0 .. Unit - 1, AsDrawn(drawn.rnd)
  PROVE  DrawnWhereThereIsContent /\ NeighboursInTheRow
<1>1. PICK n \in Nat \ {0} : n = nbins
  BY DEF Merged
<1>2. PICK M \in Nat \ {0} : M = MaxValue(cls.z)
  BY FormsOf1D, WidthsOf
<1>3. PICK c \in Nat : c = Count(hist)
  BY BinsOf1D
<1>4. PICK F \in 0 .. c - 1, T \in 1 .. c - 1 : F = FirstBin /\ T = LastBin
  BY <1>2, <1>3, TemplateBins DEF Merged
<1>5. /\ \A d \in F .. T : StoredLevel(d) \in Int /\ StoredLevel(d) < Levels(cls.x)
      /\ \A d \in 0 .. c - 1 : StoredContent(d) \in Int
  BY <1>2, <1>3, <1>4, TemplateBins DEF Merged
<1>6. StoredUpTo(n, T) /\ DOMAIN frac = 0 .. n - 2
  BY <1>1, <1>4 DEF Merged
<1>7. ASSUME NEW i \in 0 .. n - 2 PROVE frac[i] \in Int
  <2>1. i + 1 \in 0 .. n - 1 /\ i + 1 > 0 /\ (i + 1) - 1 = i
    OBVIOUS
  <2>2. PICK b \in F .. T : Stands(i + 1, b)
    BY <2>1, <1>4, <1>6 DEF StoredUpTo
  <2>3. b > F /\ frac[i] = StoredContent(b - 1)
    BY <2>1, <2>2, <1>4 DEF Stands
  <2>4. b - 1 \in 0 .. c - 1
    BY <2>3
  <2> QED
    BY <2>3, <2>4, <1>5
<1>8. PICK up : up = [i \in 0 .. n - 1 |-> FullOf(i)]
  OBVIOUS
<1>9. ASSUME NEW i \in 0 .. n - 1 PROVE up[i] = (IF i = n - 1 THEN M ELSE frac[i]) /\ up[i] = FullOf(i)
  BY <1>1, <1>2, <1>8 DEF FullOf, GetFraction
<1>10. \A i \in 0 .. n - 1 : up[i] \in Int
  BY <1>7, <1>9
<1>11. \A i \in 0 .. n - 2 : frac[i] = up[i]
  BY <1>9
<1>12. PICK rnd \in Nat : rnd = drawn.rnd /\ rnd < M
  BY <1>2 DEF Unit
<1>13. PICK i : i = UpperBound(rnd)
  OBVIOUS
<1>14. /\ i \in 0 .. n - 1 /\ BaseOf(i) \in Int /\ BaseOf(i) <= rnd /\ rnd < up[i]
       /\ \A j \in 1 .. n - 1 : BaseOf(j) = up[j - 1]
  <2>1. up[n - 1] = M
    BY <1>9
  <2>2. PICK k \in Nat : k = n - 1
    OBVIOUS
  <2>3. k <= n /\ n <= k + 1 /\ DOMAIN frac = 0 .. k - 1 /\ \A j \in 0 .. k - 1 : frac[j] = up[j]
    BY <2>2, <1>6, <1>11
  <2>4. rnd < up[n - 1]
    BY <2>1, <1>12
  <2> QED
    BY <2>3, <2>4, <1>10, <1>13, InItsBin
<1>15. PICK base \in Int, full \in Int : base = BaseOf(i) /\ full = FullOf(i) /\ base <= rnd /\ rnd < full
  BY <1>9, <1>10, <1>14
<1>16. drawn = Drawn(rnd, <<i>>, <<rnd - base, full - base>>,
                     IF cls.draw = "linear" THEN Slope1D(i) ELSE <<>>)
  <2>1. Rest(i, rnd, FullOf(i)) = <<rnd - base, full - base>>
    BY <1>15 DEF Rest
  <2> QED
    BY <2>1, <1>12, <1>13 DEF AsDrawn
<1>17. /\ drawn.bin = <<i>> /\ drawn.num = rnd - base /\ drawn.den = full - base
       /\ drawn.slope = IF cls.draw = "linear" THEN Slope1D(i) ELSE <<>>
  BY <1>16 DEF Drawn
<1>18. 0 <= drawn.num /\ drawn.num < drawn.den
  BY <1>15, <1>17
<1>19. PICK b \in F .. T : Stands(i, b)
  BY <1>4, <1>6, <1>14 DEF StoredUpTo
<1>20. b \in Inside(i)
  <2>1. b \in FirstBin .. LastBin /\ low[i] = StoredLevel(b) /\ StoredLevel(b) \in Int
    BY <1>4, <1>5, <1>19 DEF Stands
  <2>2. ASSUME i + 1 < n PROVE StoredLevel(b) < low[i + 1]
    <3>1. i + 1 \in 1 .. n - 1 /\ (i + 1) - 1 = i
      BY <2>2, <1>14
    <3>2. low[(i + 1) - 1] < low[i + 1]
      BY <3>1, <1>6 DEF StoredUpTo
    <3> QED
      BY <3>1, <3>2, <2>1
  <2>3. StoredLevel(b) < Levels(cls.x)
    BY <1>5
  <2>4. low[i] <= StoredLevel(b)
    BY <2>1
  <2> QED
    BY <2>1, <2>2, <2>3, <2>4, <1>1 DEF Inside
<1>21. hist.cont[b] > 0 /\ hist.cont[b] \in Covered
  <2>1. drawn.bin[1] = i
    BY <1>17
  <2>2. Covered = {hist.cont[d] : d \in Inside(i)}
    BY <2>1 DEF Covered
  <2> QED
    BY <2>2, <1>19, <1>20 DEF Stands
<1>22. NeighboursInTheRow
  <2>1. CASE cls.draw = "linear"
    <3>1. \A j \in 1 .. n - 1 : BaseOf(j) = FullOf(j - 1)
      <4> SUFFICES ASSUME NEW j \in 1 .. n - 1 PROVE BaseOf(j) = FullOf(j - 1)
        OBVIOUS
      <4>1. j - 1 \in 0 .. n - 1
        OBVIOUS
      <4> QED
        BY <4>1, <1>9, <1>14
    <3> QED
      BY <3>1, <2>1, <1>1, <1>14, <1>17, Slope1DIs
  <2>2. CASE cls.draw # "linear"
    BY <2>2, <1>17 DEF NeighboursInTheRow
  <2> QED
    BY <2>1, <2>2
<1> QED
  BY <1>18, <1>21, <1>22 DEF DrawnWhereThereIsContent

\* A value drawn from one of the other functions lies in a bin with entries.
LEMMA FilledDrawn ==
  ASSUME MadeFrom, cls.form # "template", AsFilled,
         drawn.rnd \in 0 .. Unit - 1, AsDrawn(drawn.rnd)
  PROVE  DrawnWhereThereIsContent /\ NeighboursInTheRow
<1>1. \/ cls.form = "plain" /\ hist \in Histograms1D
      \/ cls.form \in {"two", "plain2"} /\ hist \in Histograms2D
  BY FormsOf1D, FormsOf2D DEF MadeFrom
<1>2. PICK n \in Nat \ {0} : n = nbins
  <2>1. CASE cls.form = "plain"
    BY <2>1, <1>1, BinsOf1D DEF AsFilled
  <2>2. CASE cls.form \in {"two", "plain2"}
    BY <2>2, <1>1, BinsOf2D DEF AsFilled
  <2> QED
    BY <2>1, <2>2, <1>1
<1>3. PICK k \in Nat : k = IF cls.form = "two" THEN n - 1 ELSE n
  <2>1. n - 1 \in Nat
    OBVIOUS
  <2> QED
    BY <2>1
<1>4. frac \in [0 .. k - 1 -> Int]
  <2>1. n - (IF cls.form = "two" THEN 2 ELSE 1) = k - 1
    BY <1>3
  <2> QED
    BY <2>1, <1>2 DEF AsFilled
<1>5. UpperEnd(n - 1) = Unit
  BY <1>2 DEF AsFilled
<1>6. Unit \in Int
  <2>1. CASE cls.form = "two"
    <3>1. cls \in Classes2D
      BY <2>1, FormsOf1D DEF MadeFrom
    <3> QED
      BY <3>1, <2>1, FormsOf2D, WidthsOf DEF Unit
  <2>2. CASE cls.form # "two"
    <3>1. n - 1 \in 0 .. k - 1 /\ UpperEnd(n - 1) = frac[n - 1]
      BY <2>2, <1>3 DEF UpperEnd
    <3> QED
      BY <3>1, <1>4, <1>5
  <2> QED
    BY <2>1, <2>2
<1>7. PICK up : up = [i \in 0 .. n - 1 |-> UpperEnd(i)]
  OBVIOUS
<1>8. ASSUME NEW i \in 0 .. k - 1 PROVE i \in 0 .. n - 1 /\ UpperEnd(i) = frac[i] /\ up[i] = frac[i]
  <2>1. i \in 0 .. n - 1
    BY <1>3
  <2>2. UpperEnd(i) = frac[i]
    BY <1>2, <1>3 DEF UpperEnd, FullOf, GetFraction
  <2> QED
    BY <2>1, <2>2, <1>7
<1>9. ASSUME NEW i \in 0 .. n - 1 PROVE up[i] \in Int /\ up[i] = UpperEnd(i)
  <2>1. CASE i \in 0 .. k - 1
    BY <2>1, <1>4, <1>8, <1>7
  <2>2. CASE i \notin 0 .. k - 1
    <3>1. i = n - 1
      BY <2>2, <1>3
    <3> QED
      BY <3>1, <1>5, <1>6, <1>7
  <2> QED
    BY <2>1, <2>2
<1>10. PICK rnd \in Nat : rnd = drawn.rnd /\ rnd < Unit
  BY <1>6
<1>11. PICK i : i = UpperBound(rnd)
  OBVIOUS
<1>12. /\ i \in 0 .. n - 1 /\ BaseOf(i) \in Int /\ BaseOf(i) <= rnd /\ rnd < up[i]
       /\ \A j \in 1 .. n - 1 : BaseOf(j) = up[j - 1]
  <2>1. k <= n /\ n <= k + 1 /\ DOMAIN frac = 0 .. k - 1
    BY <1>3, <1>4
  <2>2. rnd < up[n - 1]
    BY <1>5, <1>9, <1>10
  <2>3. \A j \in 0 .. k - 1 : frac[j] = up[j]
    BY <1>8
  <2>4. \A j \in 0 .. n - 1 : up[j] \in Int
    BY <1>9
  <2> QED
    BY <2>1, <2>2, <2>3, <2>4, <1>11, InItsBin
<1>13. PICK base \in Int, full \in Int : base = BaseOf(i) /\ full = UpperEnd(i) /\ base <= rnd /\ rnd < full
  BY <1>9, <1>12
<1>14. EntriesOf(i) > 0
  BY <1>2, <1>12, <1>13 DEF AsFilled
<1>15. Clamped(i) = i
  BY <1>2, <1>12 DEF Clamped
<1>16. Rest(i, rnd, UpperEnd(i)) = <<rnd - base, full - base>>
  BY <1>13 DEF Rest
<1>17. CASE cls.form = "two"
  <2>1. UpperEnd(i) = FullOf(i) /\ hist \in Histograms2D
    BY <1>1, <1>17 DEF UpperEnd
  <2>2. drawn = Drawn(rnd, Decode(i), <<rnd - base, full - base>>,
                      IF cls.draw = "flat" THEN <<>> ELSE Slope2D(i))
    BY <2>1, <1>10, <1>11, <1>16, <1>17 DEF AsDrawn
  <2>3. /\ drawn.bin = Decode(i) /\ drawn.num = rnd - base /\ drawn.den = full - base
        /\ drawn.slope = IF cls.draw = "flat" THEN <<>> ELSE Slope2D(i)
    BY <2>2 DEF Drawn
  <2>4. Covered = {EntriesOf(i)}
    BY <2>3, <1>17 DEF Covered, EntriesOf, Decode, Bin2D
  <2>5. DrawnWhereThereIsContent
    BY <2>3, <2>4, <1>13, <1>14 DEF DrawnWhereThereIsContent
  <2>6. CASE cls.draw = "flat"
    BY <2>3, <2>5, <2>6 DEF NeighboursInTheRow
  <2>7. CASE cls.draw # "flat"
    <3>1. PICK x \in Nat \ {0}, y \in Nat \ {0} : x = Nx /\ y = Ny
      BY <2>1, BinsOf2D
    <3>2. n = x * y
      BY <3>1, <1>2, <1>17 DEF AsFilled
    <3>3. i \div y \in 0 .. x - 1
      BY <3>1, <3>2, <2>1, <1>12, BinsOf2D
    <3>4. \A j \in 0 .. n - 1 : FullOf(j) = up[j] /\ FullOf(j) \in Int
      BY <1>9, <1>17 DEF UpperEnd
    <3>5. \A j \in 1 .. n - 1 : BaseOf(j) = FullOf(j - 1)
      <4> SUFFICES ASSUME NEW j \in 1 .. n - 1 PROVE BaseOf(j) = FullOf(j - 1)
        OBVIOUS
      <4>1. j - 1 \in 0 .. n - 1
        OBVIOUS
      <4> QED
        BY <4>1, <3>4, <1>12
    <3>6. NeighboursInTheRow
      BY <3>1, <3>2, <3>3, <3>4, <3>5, <2>3, <2>7, <1>2, <1>12, <1>17, Slope2DIs
    <3> QED
      BY <3>6, <2>5
  <2> QED
    BY <2>6, <2>7
<1>18. CASE cls.form = "plain"
  <2>1. UpperEnd(i) = frac[i]
    BY <1>18 DEF UpperEnd
  <2>2. drawn = Drawn(rnd, <<i>>, <<rnd - base, full - base>>, <<>>)
    BY <2>1, <1>10, <1>11, <1>15, <1>16, <1>18 DEF AsDrawn
  <2>3. /\ drawn.bin = <<i>> /\ drawn.num = rnd - base /\ drawn.den = full - base
        /\ drawn.slope = <<>>
    BY <2>2 DEF Drawn
  <2>4. Covered = {EntriesOf(i)}
    <3>1. drawn.bin[1] = i
      BY <2>3
    <3> QED
      BY <3>1, <1>18 DEF Covered, EntriesOf
  <2> QED
    BY <2>3, <2>4, <1>13, <1>14 DEF DrawnWhereThereIsContent, NeighboursInTheRow
<1>19. CASE cls.form = "plain2"
  <2>1. UpperEnd(i) = frac[i] /\ hist \in Histograms2D
    BY <1>1, <1>19 DEF UpperEnd
  <2>2. drawn = Drawn(rnd, <<i - Nx * (i \div Nx), i \div Nx>>, <<rnd - base, full - base>>, <<>>)
    BY <2>1, <1>10, <1>11, <1>15, <1>16, <1>19 DEF AsDrawn
  <2>3. /\ drawn.bin = <<i - Nx * (i \div Nx), i \div Nx>>
        /\ drawn.num = rnd - base /\ drawn.den = full - base /\ drawn.slope = <<>>
    BY <2>2 DEF Drawn
  <2>4. PICK x \in Nat \ {0} : x = Nx
    BY <2>1, BinsOf2D
  <2>5. i - x * (i \div x) = i % x
    BY <1>12
  <2>6. Covered = {EntriesOf(i)}
    BY <2>3, <2>4, <2>5, <1>19 DEF Covered, EntriesOf, Bin2DPlain
  <2> QED
    BY <2>3, <2>6, <1>13, <1>14 DEF DrawnWhereThereIsContent, NeighboursInTheRow
<1> QED
  BY <1>1, <1>17, <1>18, <1>19

\* The invariant says what is promised of a draw.
LEMMA DrawsFollowInv == HistInv => DrawsFollowTheHistogram
<1> SUFFICES ASSUME HistInv PROVE DrawnWhereThereIsContent /\ NeighboursInTheRow
  BY BordersFollow DEF DrawsFollowTheHistogram
<1>1. CASE drawn = Nothing
  BY <1>1 DEF Nothing, DrawnWhereThereIsContent, NeighboursInTheRow
<1>2. CASE drawn # Nothing /\ nbins = 0
  BY <1>2 DEF HistInv, DrawnWhereThereIsContent, NeighboursInTheRow
<1>3. CASE drawn # Nothing /\ nbins # 0
  <2>1. doing = "ready" /\ drawn.rnd \in 0 .. Unit - 1 /\ AsDrawn(drawn.rnd) /\ MadeFrom
    BY <1>3 DEF HistInv
  <2>2. CASE cls.form = "template"
    <3>1. cls \in Classes1D /\ hist \in Histograms1D
      BY <2>1, <2>2, FormsOf2D DEF MadeFrom
    <3>2. Merged
      BY <2>1, <2>2, <1>3 DEF HistInv
    <3> QED
      BY <3>1, <3>2, <2>1, <2>2, TemplateDrawn
  <2>3. CASE cls.form # "template"
    <3>1. AsFilled
      BY <2>1, <2>3, <1>3 DEF HistInv
    <3> QED
      BY <3>1, <2>1, <2>3, FilledDrawn
  <2> QED
    BY <2>2, <2>3
<1> QED
  BY <1>1, <1>2, <1>3

\* A function that is drawn from stays as it is.
LEMMA SameFunction ==
  ASSUME UNCHANGED <<cls, hist, sum, ibin, ihist, nbins, low, frac>>
  PROVE  /\ Merging => Merging'
         /\ Resizing => Resizing'
         /\ Merged => Merged'
         /\ AsFilled => AsFilled'
         /\ MadeFrom => MadeFrom'
         /\ Unit' = Unit
<1>1. /\ FirstBin' = FirstBin /\ LastBin' = LastBin /\ Total' = Total
      /\ \A b : StoredLevel(b)' = StoredLevel(b) /\ StoredContent(b)' = StoredContent(b)
      /\ Summed <=> Summed'
  BY SameBins
<1>2. \A i : BaseOf(i)' = BaseOf(i)
  BY DEF BaseOf
<1>3. \A i, b : Stands(i, b)' <=> Stands(i, b)
  BY <1>1 DEF Stands
<1>4. \A n, last : StoredUpTo(n, last) => StoredUpTo(n, last)'
  BY <1>1, <1>2, <1>3 DEF StoredUpTo
<1>5. ASSUME Merging PROVE Merging'
  <2>1. StoredUpTo(ihist, ibin - 1)'
    BY <1>4, <1>5 DEF Merging, StoredUpTo
  <2>2. (ihist > 0 =>
           frac[ihist - 1] = StoredContent(ibin - 1) /\ BaseOf(ihist - 1) < frac[ihist - 1])'
    <3>1. StoredContent(ibin - 1)' = StoredContent(ibin - 1)
      BY <1>1 DEF StoredContent
    <3>2. BaseOf(ihist - 1)' = BaseOf(ihist - 1)
      BY DEF BaseOf
    <3> QED
      BY <3>1, <3>2, <1>5 DEF Merging
  <2> QED
    BY <2>1, <2>2, <1>1, <1>5 DEF Merging
<1>6. ASSUME Resizing PROVE Resizing'
  <2>1. StoredUpTo(ihist, LastBin)'
    BY <1>1, <1>2, <1>3, <1>6 DEF Resizing, StoredUpTo
  <2> QED
    BY <2>1, <1>1, <1>6 DEF Resizing
<1>7. ASSUME Merged PROVE Merged'
  <2>1. StoredUpTo(nbins, LastBin)'
    BY <1>1, <1>2, <1>3, <1>7 DEF Merged, StoredUpTo
  <2> QED
    BY <2>1, <1>1, <1>7 DEF Merged
<1>8. Unit' = Unit
  BY <1>1 DEF Unit
<1>9. \A i : UpperEnd(i)' = UpperEnd(i)
  BY DEF UpperEnd, FullOf, GetFraction
<1>10. Nx' = Nx /\ Ny' = Ny
  BY DEF Nx, Ny
<1>11. \A i : EntriesOf(i)' = EntriesOf(i)
  <2>1. \A i : Bin2D(i)' = Bin2D(i) /\ Bin2DPlain(i)' = Bin2DPlain(i)
    BY <1>10 DEF Bin2D, Bin2DPlain
  <2> QED
    BY <2>1 DEF EntriesOf
<1>12. ASSUME AsFilled PROVE AsFilled'
  <2>1. UpperEnd(nbins - 1)' = UpperEnd(nbins - 1)
    BY DEF UpperEnd, FullOf, GetFraction
  <2> QED
    BY <2>1, <1>2, <1>8, <1>9, <1>10, <1>11, <1>12 DEF AsFilled
<1>13. MadeFrom => MadeFrom'
  BY DEF MadeFrom
<1> QED
  BY <1>5, <1>6, <1>7, <1>8, <1>12, <1>13

\* So the same number draws the same value.
LEMMA SameValue ==
  ASSUME UNCHANGED <<cls, hist, sum, ibin, ihist, nbins, low, frac>>, NEW rnd
  PROVE  /\ UpperBound(rnd)' = UpperBound(rnd) /\ Nx' = Nx
         /\ \A i : /\ Clamped(i)' = Clamped(i) /\ Decode(i)' = Decode(i)
                   /\ FullOf(i)' = FullOf(i)
                   /\ Slope1D(i)' = Slope1D(i) /\ Slope2D(i)' = Slope2D(i)
         /\ \A i, full : Rest(i, rnd, full)' = Rest(i, rnd, full)
<1>1. UpperBound(rnd)' = UpperBound(rnd)
  BY DEF UpperBound
<1>2. Nx' = Nx /\ Ny' = Ny
  BY DEF Nx, Ny
<1>3. \A i : FullOf(i)' = FullOf(i)
  BY DEF FullOf, GetFraction
<1>4. \A i : BaseOf(i)' = BaseOf(i)
  BY DEF BaseOf
<1>5. \A i : Slope1D(i)' = Slope1D(i)
  BY <1>3, <1>4 DEF Slope1D
<1>6. \A i : Slope2D(i)' = Slope2D(i)
  BY <1>2, <1>3 DEF Slope2D
<1>7. \A i, full : Rest(i, rnd, full)' = Rest(i, rnd, full)
  BY <1>4 DEF Rest
<1>8. \A i : Clamped(i)' = Clamped(i) /\ Decode(i)' = Decode(i)
  BY <1>2 DEF Clamped, Decode
<1> QED
  BY <1>1, <1>2, <1>3, <1>5, <1>6, <1>7, <1>8

\* A draw from a function with bins.
LEMMA DrawKeeps ==
  ASSUME HistInv, doing = "ready", nbins > 0, nbins # 0, NEW rnd \in Borderline,
         Draw1D(rnd) \/ Draw2D(rnd) \/ DrawPlain(rnd) \/ DrawPlain2D(rnd)
  PROVE  HistInv'
<1>1. UNCHANGED <<doing, cls, hist, sum, ibin, ihist, nbins, low, frac>>
  BY DEF Draw1D, Draw2D, DrawPlain, DrawPlain2D
<1>2. /\ UpperBound(rnd)' = UpperBound(rnd) /\ Nx' = Nx
      /\ \A i : /\ Clamped(i)' = Clamped(i) /\ Decode(i)' = Decode(i)
                /\ FullOf(i)' = FullOf(i)
                /\ Slope1D(i)' = Slope1D(i) /\ Slope2D(i)' = Slope2D(i)
      /\ \A i, full : Rest(i, rnd, full)' = Rest(i, rnd, full)
  BY <1>1, SameValue
<1>3. drawn'.rnd = rnd
  BY DEF Draw1D, Draw2D, DrawPlain, DrawPlain2D, Drawn
<1>4. AsDrawn(rnd)'
  <2>1. CASE Draw1D(rnd)
    BY <2>1, <1>1, <1>2 DEF Draw1D, Ready, AsDrawn, Drawn
  <2>2. CASE Draw2D(rnd)
    BY <2>2, <1>1, <1>2 DEF Draw2D, Ready, AsDrawn, Drawn
  <2>3. CASE DrawPlain(rnd)
    BY <2>3, <1>1, <1>2 DEF DrawPlain, Ready, AsDrawn, Drawn
  <2>4. CASE DrawPlain2D(rnd)
    BY <2>4, <1>1, <1>2 DEF DrawPlain2D, Ready, AsDrawn, Drawn
  <2> QED
    BY <2>1, <2>2, <2>3, <2>4
<1>5. AsDrawn(drawn.rnd)'
  BY <1>3, <1>4 DEF AsDrawn, UpperBound, Rest
<1>6. drawn'.rnd \in 0 .. Unit' - 1
  BY <1>1, <1>3, SameFunction DEF Borderline
<1>7. MadeFrom' /\ (IF cls'.form = "template" THEN Merged' ELSE AsFilled')
  BY <1>1, SameFunction DEF HistInv
<1> QED
  BY <1>1, <1>5, <1>6, <1>7 DEF HistInv

\* Making a function.
LEMMA MakeKeeps == ASSUME HistInv, MakeFunction PROVE HistInv'
<1>1. UNCHANGED <<cls, hist, drawn>> /\ doing \in {"check", "merge", "resize"}
  BY DEF MakeFunction, Check1D, MergeBin, Resize, Check2D, Check1DPlain, Check2DPlain
<1>2. MadeFrom /\ MadeFrom' /\ drawn = Nothing /\ drawn' = Nothing
  BY <1>1 DEF HistInv, MadeFrom
<1>3. CASE Check1D
  <2>1. cls.form = "template"
    BY <1>3 DEF Check1D
  <2>2. cls \in Classes1D /\ hist \in Histograms1D
    BY <2>1, <1>2, FormsOf2D DEF MadeFrom
  <2>3. /\ doing' = "merge" => Merging'
        /\ doing' = "ready" => nbins' = 0
        /\ doing' \in {"merge", "ready"}
    BY <2>1, <2>2, <1>3, TemplateStarts
  <2> QED
    BY <2>1, <2>3, <1>1, <1>2 DEF HistInv
<1>4. CASE MergeBin
  <2>1. cls.form = "template" /\ Merging /\ doing' \in {"merge", "resize"}
    BY <1>4 DEF MergeBin, HistInv
  <2>2. cls \in Classes1D /\ hist \in Histograms1D
    BY <2>1, <1>2, FormsOf2D DEF MadeFrom
  <2>3. (doing' = "merge" => Merging') /\ (doing' = "resize" => Resizing')
    BY <2>1, <2>2, <1>4, BinTaken
  <2> QED
    BY <2>1, <2>3, <1>1, <1>2 DEF HistInv
<1>5. CASE Resize
  <2>1. cls.form = "template" /\ Resizing /\ doing' = "ready"
    BY <1>5 DEF Resize, HistInv
  <2>2. cls \in Classes1D /\ hist \in Histograms1D
    BY <2>1, <1>2, FormsOf2D DEF MadeFrom
  <2>3. Merged'
    BY <2>1, <2>2, <1>5, Resized
  <2> QED
    BY <2>1, <2>3, <1>1, <1>2 DEF HistInv
<1>6. CASE Check2D
  <2>1. cls.form = "two" /\ doing' = "ready"
    BY <1>6 DEF Check2D
  <2>2. cls \in Classes2D /\ hist \in Histograms2D
    BY <2>1, <1>2, FormsOf1D DEF MadeFrom
  <2>3. nbins' # 0 => AsFilled'
    BY <2>2, <1>6, Filled2D
  <2> QED
    BY <2>1, <2>3, <1>1, <1>2 DEF HistInv
<1>7. CASE Check1DPlain
  <2>1. cls.form = "plain" /\ doing' = "ready"
    BY <1>7 DEF Check1DPlain
  <2>2. cls \in Classes1D /\ hist \in Histograms1D
    BY <2>1, <1>2, FormsOf2D DEF MadeFrom
  <2>3. nbins' # 0 => AsFilled'
    BY <2>2, <1>7, FilledPlain
  <2> QED
    BY <2>1, <2>3, <1>1, <1>2 DEF HistInv
<1>8. CASE Check2DPlain
  <2>1. cls.form = "plain2" /\ doing' = "ready"
    BY <1>8 DEF Check2DPlain
  <2>2. cls \in Classes2D /\ hist \in Histograms2D
    BY <2>1, <1>2, FormsOf1D DEF MadeFrom
  <2>3. nbins' # 0 => AsFilled'
    BY <2>2, <1>8, FilledPlain2D
  <2> QED
    BY <2>1, <2>3, <1>1, <1>2 DEF HistInv
<1> QED
  BY <1>3, <1>4, <1>5, <1>6, <1>7, <1>8 DEF MakeFunction

\* The invariant holds at first,
LEMMA HistStarts == ShapesInit => HistInv
<1> SUFFICES ASSUME ShapesInit PROVE HistInv
  OBVIOUS
<1>1. CASE doing = "check" /\ HistInit
  <2>1. MadeFrom /\ drawn = Nothing
    BY <1>1 DEF HistInit, MadeFrom
  <2> QED
    BY <2>1, <1>1 DEF HistInv
<1>2. CASE doing \in {"rebin", "spline", "hit"} /\ HistIdle
  BY <1>2 DEF HistIdle, HistInv
<1> QED
  BY <1>1, <1>2 DEF ShapesInit

\* and every step keeps it, those of the other functions and of hits included.
LEMMA HistStep == HistInv /\ [ShapesNext]_shapesVars => HistInv'
<1> SUFFICES ASSUME HistInv, [ShapesNext]_shapesVars PROVE HistInv'
  OBVIOUS
<1>1. CASE MakeFunction
  BY <1>1, MakeKeeps
<1>2. CASE DrawOnce
  <2>1. CASE DrawEmpty
    <3>1. UNCHANGED <<doing, cls, hist, sum, ibin, ihist, nbins, low, frac>>
          /\ doing = "ready" /\ nbins = 0 /\ drawn'.slope = <<>>
      BY <2>1 DEF DrawEmpty, Nothing
    <3>2. MadeFrom'
      BY <3>1 DEF HistInv, MadeFrom
    <3> QED
      BY <3>1, <3>2 DEF HistInv
  <2>2. CASE nbins > 0 /\ \E rnd \in Borderline :
                  Draw1D(rnd) \/ Draw2D(rnd) \/ DrawPlain(rnd) \/ DrawPlain2D(rnd)
    <3>1. nbins # 0 /\ doing = "ready"
      BY <2>2, <1>2 DEF DrawOnce
    <3> QED
      BY <3>1, <2>2, DrawKeeps
  <2> QED
    BY <2>1, <2>2, <1>2 DEF DrawOnce
<1>3. CASE FitHistogram \/ InvertOnce \/ FitSpline \/ LoadOrClear \/ ModulateOnce \/ ShapeOnce
  <2>1. UNCHANGED histVars
    BY <1>3 DEF FitHistogram, InvertOnce, FitSpline, LoadOrClear, ModulateOnce, ShapeOnce
  <2>2. doing \in {"rebin", "inverse", "spline", "hit"} /\ doing' \in {"rebin", "inverse", "spline", "hit"}
    BY <1>3 DEF FitHistogram, InvertOnce, FitSpline, LoadOrClear, ModulateOnce, ShapeOnce
  <2> QED
    BY <2>1, <2>2 DEF HistInv, histVars
<1>4. CASE UNCHANGED shapesVars
  <2>1. UNCHANGED <<doing, cls, hist, sum, ibin, ihist, nbins, low, frac, drawn>>
    BY <1>4 DEF shapesVars, histVars
  <2>2. AsDrawn(drawn.rnd) => AsDrawn(drawn.rnd)'
    <3>1. PICK r : r = drawn.rnd
      OBVIOUS
    <3>2. AsDrawn(r) => AsDrawn(r)'
      <4>1. /\ UpperBound(r)' = UpperBound(r) /\ Nx' = Nx
            /\ \A i : /\ Clamped(i)' = Clamped(i) /\ Decode(i)' = Decode(i)
                      /\ FullOf(i)' = FullOf(i)
                      /\ Slope1D(i)' = Slope1D(i) /\ Slope2D(i)' = Slope2D(i)
            /\ \A i, full : Rest(i, r, full)' = Rest(i, r, full)
        BY <2>1, SameValue
      <4>2. CASE cls.form = "template"
        BY <4>1, <4>2, <2>1 DEF AsDrawn, Drawn
      <4>3. CASE cls.form = "two"
        BY <4>1, <4>3, <2>1 DEF AsDrawn, Drawn
      <4>4. CASE cls.form = "plain"
        BY <4>1, <4>4, <2>1 DEF AsDrawn, Drawn
      <4>5. CASE cls.form = "plain2"
        BY <4>1, <4>5, <2>1 DEF AsDrawn, Drawn
      <4>6. CASE cls.form \notin {"template", "two", "plain", "plain2"}
        BY <4>1, <4>6, <2>1 DEF AsDrawn, Drawn
      <4> QED
        BY <4>2, <4>3, <4>4, <4>5, <4>6
    <3>3. AsDrawn(r)' => AsDrawn(drawn.rnd)'
      BY <3>1, <2>1 DEF AsDrawn, UpperBound, Rest
    <3> QED
      BY <3>1, <3>2, <3>3
  <2>3. Unit' = Unit
    BY <2>1, SameFunction
  <2>4. drawn' # Nothing =>
          IF nbins' = 0 THEN drawn'.slope = <<>>
          ELSE drawn'.rnd \in 0 .. Unit' - 1 /\ AsDrawn(drawn.rnd)'
    BY <2>1, <2>2, <2>3 DEF HistInv
  <2>5. /\ doing = "merge" => Merging'
        /\ doing = "resize" => Resizing'
        /\ doing = "ready" /\ nbins # 0 => IF cls.form = "template" THEN Merged' ELSE AsFilled'
        /\ doing \in {"check", "merge", "resize", "ready"} => MadeFrom'
    BY <2>1, SameFunction DEF HistInv
  <2> QED
    BY <2>1, <2>4, <2>5 DEF HistInv
<1> QED
  BY <1>1, <1>2, <1>3, <1>4 DEF ShapesNext

\* For every histogram, class of function, width of integers and number drawn: the
\* borders and contents stored stay in step through all merging, a value is drawn
\* only where the histogram has entries and inside its bin, and the slope of an
\* interpolation comes from the neighbours in the same row
\* (TFCS1DFunctionTemplateHistogram.h:48-137, TFCS2DFunctionTemplateHistogram.h:175-225).
THEOREM DrawsFollow == ShapesSpec => []DrawsFollowTheHistogram
<1>1. ShapesInit => HistInv
  BY HistStarts
<1>2. HistInv /\ [ShapesNext]_shapesVars => HistInv'
  BY HistStep
<1>3. HistInv => DrawsFollowTheHistogram
  BY DrawsFollowInv
<1> QED
  BY <1>1, <1>2, <1>3, PTL DEF ShapesSpec
=============================================================================
