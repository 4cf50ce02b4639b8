------------------------------- MODULE Shapes -------------------------------
(***************************************************************************)
(* HistFunctions, FitFunctions and HitShapes, which share nothing, with    *)
(* the order in which each is used: a function is made from a histogram    *)
(* before it is drawn from, a histogram rebinned before it is inverted,    *)
(* and modulations loaded before hits are modulated.  Each behaviour is    *)
(* about one of them.                                                      *)
(***************************************************************************)
EXTENDS HistFunctions, FitFunctions, HitShapes

CONSTANT
  Phis   \* angles of hits

ASSUME ShapesAssumption == Phis \subseteq Int

shapesVars == <<doing, histVars, fitVars, shapeVars>>

\* What a draw or a hit does depends on no other: one is made in a behaviour.
MakeFunction ==
  /\ Check1D \/ MergeBin \/ Resize \/ Check2D \/ Check1DPlain \/ Check2DPlain
  /\ UNCHANGED <<fitVars, shapeVars>>
DrawOnce ==
  /\ drawn = Nothing /\ doing = "ready"
  /\ \/ DrawEmpty
     \/ /\ nbins > 0
        /\ \E rnd \in Borderline :
             Draw1D(rnd) \/ Draw2D(rnd) \/ DrawPlain(rnd) \/ DrawPlain2D(rnd)
  /\ UNCHANGED <<fitVars, shapeVars>>
FitHistogram ==
  /\ doing = "rebin"
  /\ \/ Rebin /\ UNCHANGED doing
     \/ StoreRebinned /\ doing' = "inverse"
  /\ UNCHANGED <<histVars, shapeVars>>
InvertOnce ==
  /\ doing = "inverse" /\ piece = NoPiece
  /\ \E rnd \in 0 .. Whole - 1 : GetInverse(rnd)
  /\ UNCHANGED <<doing, histVars, shapeVars>>
FitSpline ==
  /\ doing = "spline"
  /\ \/ StartStage \/ SkipStage \/ SmallerStep \/ FinishStage \/ MoreKnots \/ TakeSpline
     \/ \E p \in Penalties, b, up \in BOOLEAN, i \in 2 .. Len(try) : TryKnots(p, b, i, up)
     \/ \E p \in Penalties : GiveUp(p)
  /\ UNCHANGED <<doing, histVars, shapeVars>>
LoadOrClear ==
  /\ doing = "hit" /\ hit = NoHit
  /\ ClearModulation \/ \E l \in Loads : LoadPhiModulation(l)
  /\ UNCHANGED <<doing, histVars, fitVars>>
ModulateOnce ==
  /\ doing = "hit" /\ hit = NoHit
  /\ \E e \in Etas, phi \in Phis, s \in Scales : AddPhiModulation(e, phi, s)
  /\ UNCHANGED <<doing, histVars, fitVars>>
ShapeOnce ==
  /\ doing = "hit" /\ hit = NoHit /\ loads = <<>>
  /\ \/ \E p \in DOMAIN Charge, s \in {-1, 1}, fcal, sym \in BOOLEAN, r \in 0 .. Rolls - 1 :
          ShapeHit(p, s, fcal, sym, r)
     \/ \E c \in WeightClasses, h \in MeanWeights, b \in 0 .. 5, f \in 1 .. 2,
           r \in 0 .. Rolls - 1 : WeighHit(c, h, b, f, r)
     \/ \E e \in Etas, phi \in Phis : WiggleHit(e, phi)
     \/ \E l \in 0 .. 4, phi \in Phis, r \in 0 .. Rolls - 1 : WiggleEMB(l, phi, r)
  /\ UNCHANGED <<doing, histVars, fitVars>>

ShapesInit ==
  \/ doing = "check" /\ HistInit /\ FitInit(FALSE, FALSE) /\ ShapeInit
  \/ doing = "rebin" /\ HistIdle /\ FitInit(TRUE, FALSE) /\ ShapeInit
  \/ doing = "spline" /\ HistIdle /\ FitInit(FALSE, TRUE) /\ ShapeInit
  \/ doing = "hit" /\ HistIdle /\ FitInit(FALSE, FALSE) /\ ShapeInit
ShapesNext ==
  \/ MakeFunction \/ DrawOnce
  \/ FitHistogram \/ InvertOnce \/ FitSpline
  \/ LoadOrClear \/ ModulateOnce \/ ShapeOnce
ShapesSpec == ShapesInit /\ [][ShapesNext]_shapesVars
=============================================================================
