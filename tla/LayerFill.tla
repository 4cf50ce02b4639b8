----------------------------- MODULE LayerFill ------------------------------
(***************************************************************************)
(* What a plain hit chain promises for the layers of a shower: the layers  *)
(* are filled one after the other, energy is only added to a layer whose   *)
(* target is not reached yet, a layer is closed at the first hit that      *)
(* reaches the target, and otherwise only after Cutoff hits.  A failed     *)
(* layer ends the shower.                                                  *)
(***************************************************************************)
EXTENDS Integers

CONSTANTS NLayers, Cutoff

Layers == 1 .. NLayers

VARIABLES
  target,   \* the energy each layer is to receive
  filled,   \* the energy of the completed hits of each layer
  status,   \* per layer: open, full, cut (too many hits) or failed
  cur,      \* the layer being filled
  hits      \* hits made in that layer

fillVars == <<target, filled, status, cur, hits>>

Magnitude(x) == IF x < 0 THEN -x ELSE x
Reached(l, x) == Magnitude(x) >= Magnitude(target[l])

FillInit ==
  /\ DOMAIN target = Layers /\ \A l \in Layers : target[l] \in Int
  /\ filled = [l \in Layers |-> 0]
  /\ status = [l \in Layers |-> "open"]
  /\ cur = 1 /\ hits = 0

\* One more hit, of whatever energy, in a layer that is not full.
AddHit ==
  /\ status[cur] = "open" /\ ~Reached(cur, filled[cur])
  /\ filled'[cur] \in Int
  /\ filled' = [filled EXCEPT ![cur] = filled'[cur]]
  /\ hits' = hits + 1
  /\ LET new == IF Reached(cur, filled'[cur]) THEN "full"
                ELSE IF status'[cur] = "cut" THEN "cut" ELSE "open"
     IN  /\ new = "cut" => hits' >= Cutoff
         /\ status' = [status EXCEPT ![cur] = new]
  /\ UNCHANGED <<target, cur>>

\* A layer without energy needs no hit.
SkipEmpty ==
  /\ status[cur] = "open" /\ target[cur] = 0
  /\ status' = [status EXCEPT ![cur] = "full"]
  /\ UNCHANGED <<target, filled, cur, hits>>

Fail ==
  /\ status[cur] = "open"
  /\ status' = [status EXCEPT ![cur] = "failed"]
  /\ UNCHANGED <<target, filled, cur, hits>>

Advance ==
  /\ status[cur] \in {"full", "cut"} /\ cur < NLayers
  /\ cur' = cur + 1 /\ hits' = 0
  /\ UNCHANGED <<target, filled, status>>

FillNext == AddHit \/ SkipEmpty \/ Fail \/ Advance

FillSpec == FillInit /\ [][FillNext]_fillVars
=============================================================================
