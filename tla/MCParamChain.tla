---------------------------- MODULE MCParamChain ----------------------------
(***************************************************************************)
(* Trees of parametrizations for ParamChain: the kind of tree a             *)
(* parametrization file holds, with chains that start over.                *)
(***************************************************************************)
EXTENDS ParamChain

\* An init element, the particle's energy parametrization (only one of two that
\* match), and the shower shape by bin: an element for all bins, one per bin, and
\* a chain that places the hits.  What runs last may reject the whole shower.
\* The shape starts over, and so does the chain in it; so does the chain after
\* it, which has nothing but its one bin.
CaloLeaves == {"init", "pion", "any", "other", "pre", "low", "high", "place",
               "scale", "scaled", "last"}
CaloChains == {"sim", "energy", "shape", "hits", "correct"}
CaloKind ==
  [c \in CaloChains |-> IF c = "energy" THEN "pdgid"
                        ELSE IF c \in {"shape", "correct"} THEN "binned" ELSE "plain"]
CaloKids ==
  [c \in CaloChains |-> IF c = "sim" THEN <<"init", "energy", "shape", "correct", "last">>
                        ELSE IF c = "energy" THEN <<"other", "pion", "any">>
                        ELSE IF c = "hits" THEN <<"place", "scale">>
                        ELSE IF c = "correct" THEN <<"scaled">>
                        ELSE <<"pre", "low", "high", "hits">>]
CaloBinStart ==
  [c \in CaloChains |-> IF c = "shape" THEN <<1, 2, 3>>
                        ELSE IF c = "correct" THEN <<0, 1>> ELSE <<0>>]
CaloBins == [c \in CaloChains |-> {-1, 0, 1, 2}]
CaloOnlyOne == {"energy"}
CaloMatching == {"pion", "any"}
Rejecting == {"pion", "low", "place", "scaled", "last"}
CaloAnswers ==
  [l \in CaloLeaves |-> IF l = "init" THEN {1}
                        ELSE IF l \in Rejecting THEN {0, 1, 3, 4} ELSE {1, 2, 3}]
CaloRestarts == {"shape", "hits", "correct"}

ASSUME EachOnce
=============================================================================
