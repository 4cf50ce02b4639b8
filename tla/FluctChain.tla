----------------------------- MODULE FluctChain -----------------------------
(***************************************************************************)
(* TFCSLateralShapeParametrizationFluctChain::simulate() on one layer.     *)
(*                                                                         *)
(* The chain draws hits of random energy until the relative fluctuation of *)
(* their sum, the sum of the squared energies over the square of the sum,  *)
(* is down to sigma2, or to the smallest value asked for.  Unlike the      *)
(* plain hit chain it has no cutoff on the number of hits.  A fraction is  *)
(* a pair <<numerator, denominator>>; energies count in tenths of the      *)
(* average hit energy or coarser.                                          *)
(***************************************************************************)
EXTENDS Integers, Sequences

CONSTANTS
  Chain,        \* kinds of the elements of m_chain after the init elements
  Sigmas,       \* the fractions get_sigma2_fluctuation() may answer
  MaxSigma,     \* s_max_sigma2_fluctuation
  MinSigma,     \* 1e-8, the smallest fluctuation that is asked for
  HitEs,        \* energies the Gaussian may draw for a hit
  Weights,      \* weights an element may draw
  Reach,        \* outcomes of the match to a cell: near, far or both
  RetryCounts,  \* the n of the FCSRetry + n a cell mapping returns
  SquareBound   \* bound on the sum of squares, for model checking

Kinds == {"shape", "weight", "map", "fcal"}

ASSUME FluctAssumption ==
  /\ Chain \in Seq(Kinds)
  /\ MaxSigma \in Nat \ {0}
  /\ MinSigma \in (Nat \ {0}) \X (Nat \ {0}) /\ MinSigma[1] < MaxSigma * MinSigma[2]
  /\ Sigmas \subseteq Nat \X (Nat \ {0})
  /\ HitEs \subseteq Int \ {0}
  /\ Weights \subseteq Int
  /\ Reach \subseteq {"near", "far"}
  /\ RetryCounts \subseteq Nat
  /\ SquareBound \in Nat
\* A hit is matched to a cell by the last element, and by no other.
ASSUME MapLast ==
  /\ Len(Chain) > 0
  /\ \A i \in 1 .. Len(Chain) :
       Chain[i] \in {"map", "fcal"} <=> i = Len(Chain)

VARIABLES
  pc,        \* where simulate() is
  sigma2,    \* what get_sigma2_fluctuation() answers, then the fluctuation to reach
  pos,       \* the element of m_chain that runs next
  hitE,      \* hit.E()
  sumE,      \* sumEhit
  sumE2,     \* error2_sumEhit
  error2,    \* the relative fluctuation reached so far
  ifail,     \* failed attempts of the current hit
  deposit,   \* energy deposited in cells
  result     \* what simulate() returned

fluctVars == <<pc, sigma2, pos, hitE, sumE, sumE2, error2, ifail, deposit, result>>

\* f > g for fractions.
Exceeds(f, g) == f[1] * g[2] > g[1] * f[2]

FluctReturn(r) == pc' = "returned" /\ result' = r

\* The draw of the hit energy: the Gaussian is redrawn below a tenth of the
\* average, so it is never 0.
NextAttempt ==
  /\ pc' = "element" /\ pos' = 1
  /\ hitE' \in HitEs
  /\ UNCHANGED result

FluctInit ==
  /\ pc = "setup" /\ result = "none"
  /\ sigma2 \in Sigmas
  /\ pos = 1 /\ hitE = 0
  /\ sumE = 0 /\ sumE2 = 0 /\ error2 = <<2 * MaxSigma, 1>>
  /\ ifail = 0 /\ deposit = 0

\* No hits can bring the fluctuation of their sum to nothing.
Reachable_Any(s) == s
Reachable(s) == IF Exceeds(MinSigma, s) THEN MinSigma ELSE s

\* Up to the hit loop: an empty layer is done, a layer whose fluctuation
\* nobody can tell is an error, and too small a one is replaced.
Setup ==
  /\ pc = "setup"
  /\ \/ FluctReturn("Success") /\ UNCHANGED <<sigma2, pos, hitE>>        \* Elayer == 0
     \/ /\ ~Exceeds(<<MaxSigma, 1>>, sigma2)
        /\ FluctReturn("Fatal") /\ UNCHANGED <<sigma2, pos, hitE>>
     \/ /\ Exceeds(<<MaxSigma, 1>>, sigma2)
        /\ sigma2' = Reachable(sigma2) /\ NextAttempt
  /\ UNCHANGED <<sumE, sumE2, error2, ifail, deposit>>

\* A hit that is too far from the nearest cell loses its energy.
FarFromCell_Keeps == UNCHANGED <<hitE, deposit>>
FarFromCell == hitE' = 0 /\ UNCHANGED deposit

\* The mapping puts the energy of the hit into the cell it matches.
MatchCell ==
  \/ "near" \in Reach /\ deposit' = deposit + hitE /\ UNCHANGED hitE
  \/ "far" \in Reach /\ FarFromCell

ElementSuccess ==
  /\ pc = "element" /\ pos <= Len(Chain)
  /\ \/ Chain[pos] = "shape" /\ UNCHANGED <<hitE, deposit>>
     \/ /\ Chain[pos] = "weight"
        /\ \E w \in Weights : hitE' = w * hitE
        /\ UNCHANGED deposit
     \/ Chain[pos] \in {"map", "fcal"} /\ MatchCell
  /\ pos' = pos + 1
  /\ UNCHANGED <<pc, sigma2, sumE, sumE2, error2, ifail, result>>

ElementFatal ==
  /\ pc = "element" /\ pos <= Len(Chain)
  /\ Chain[pos] \in {"shape", "weight"}
  /\ FluctReturn("Fatal")
  /\ UNCHANGED <<sigma2, pos, hitE, sumE, sumE2, error2, ifail, deposit>>

\* ++ifail
Failures == ifail + 1

\* A failed attempt leaves error2 as it is, so the loop goes on.
ElementRetry ==
  /\ pc = "element" /\ pos <= Len(Chain)
  /\ Chain[pos] = "fcal"
  /\ ifail' = Failures
  /\ \E n \in RetryCounts :
       IF Failures >= n THEN FluctReturn("Fatal") /\ UNCHANGED <<pos, hitE>>
                         ELSE NextAttempt
  /\ UNCHANGED <<sigma2, sumE, sumE2, error2, deposit>>

\* The relative fluctuation after a hit: a sum of zero leaves the old one.
Fluctuation(sum, squares) ==
  IF sum = 0 THEN error2 ELSE <<squares, sum * sum>>

HitDone ==
  /\ pc = "element" /\ pos > Len(Chain)
  /\ sumE2 <= SquareBound
  /\ ifail' = 0
  /\ sumE' = sumE + hitE
  /\ sumE2' = sumE2 + hitE * hitE
  /\ error2' = Fluctuation(sumE', sumE2')
  /\ IF Exceeds(error2', sigma2) THEN NextAttempt
                                 ELSE FluctReturn("Success") /\ UNCHANGED <<pos, hitE>>
  /\ UNCHANGED <<sigma2, deposit>>

FluctNext == Setup \/ ElementSuccess \/ ElementFatal \/ ElementRetry \/ HitDone

FluctSpec == FluctInit /\ [][FluctNext]_fluctVars

\* The program is sequential: as long as it can take a step, it takes one.
FluctFairSpec == FluctSpec /\ WF_fluctVars(FluctNext)

-----------------------------------------------------------------------------
\* A chain that succeeds on a layer with energy has brought the fluctuation of
\* what lies in the cells down to what get_sigma2_fluctuation() answered, or to
\* MinSigma where that is more (so it lies there at all: hits that cancel do not
\* end the loop).  The squared energies that decide belong to the deposit,
\* whatever was retried or fell outside every cell, and the quotient that is
\* compared never has a zero below the line.
FluctuationReached ==
  /\ error2[2] > 0
  /\ result = "Success" /\ sumE2 > 0 =>
       /\ ~Exceeds(<<sumE2, deposit * deposit>>, sigma2)
       /\ ~Exceeds(MinSigma, sigma2)

\* A completed hit that carries no energy.
Missed == pc = "element" /\ pos > Len(Chain) /\ hitE = 0

\* simulate() returns when its hits are positive and do not miss the cells for
\* ever: retries are bounded, and the fluctuation falls with the hits that land
\* until it is what is asked for, which is never nothing.
ReturnsIfHitsLand == <>(pc = "returned") \/ []<>Missed \/ <>(hitE < 0)
=============================================================================
