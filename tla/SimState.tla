------------------------------ MODULE SimState ------------------------------
(***************************************************************************)
(* The simulation state that the parametrizations of one particle read and  *)
(* write in turn: TFCSSimulationState.  Energies are in a unit that makes   *)
(* them integers.  The auxiliary values are a map from 32 bit numbers to a  *)
(* union: which member was written is not kept, the model keeps it as the   *)
(* type of the value.                                                       *)
(***************************************************************************)
EXTENDS Integers, FiniteSets, Functions, FiniteSetsExt

CONSTANTS
  Layers,     \* 0 .. n_layers() - 1
  CellLayer   \* of each cell, the layer it is in

ASSUME LayerAssumption ==
  Layers \subseteq Nat /\ \A c \in DOMAIN CellLayer : CellLayer[c] \in Layers

VARIABLES
  ebin,    \* m_Ebin
  etot,    \* m_Etot
  e,       \* m_E: only of the layers that have been set
  efrac,   \* m_Efrac: of such layers, a numerator and a denominator
  cells,   \* m_cells
  aux,     \* m_AuxInfo
  heap     \* objects that are alive; of each, the shower it was made for

stateVars == <<ebin, etot, e, efrac, cells, aux, heap>>

Nothing == [x \in {} |-> 0]

\* The constructor: clear() on an empty state.
FreshState ==
  /\ ebin = -1 /\ etot = 0 /\ e = Nothing /\ efrac = Nothing
  /\ cells = [c \in DOMAIN CellLayer |-> 0] /\ aux = Nothing /\ heap = Nothing

\* clear(): the cells and the auxiliary values stay.
Clear == ebin' = -1 /\ etot' = 0 /\ e' = Nothing /\ efrac' = Nothing

Put(f, k, v) == [x \in DOMAIN f \cup {k} |-> IF x = k THEN v ELSE f[x]]
Deposited(c, x) == [cells EXCEPT ![c] = @ + x]

HasE(l) == l \in DOMAIN e
HasEfrac(l) == l \in DOMAIN efrac
HasAux(k) == k \in DOMAIN aux

\* An auxiliary value is a number or a pointer; the null pointer is 0.
Number(v) == [type |-> "float", value |-> v]
Pointer(p) == [type |-> "pointer", value |-> p]
IsPointer(k) == HasAux(k) /\ aux[k].type = "pointer" /\ aux[k].value # 0
=============================================================================
