--------------------------- MODULE MCSelectChain ----------------------------
(***************************************************************************)
(* Values for SelectChain: edges below, at and above zero, the value the    *)
(* edge vector is filled with at first.                                     *)
(***************************************************************************)
EXTENDS SelectChain

FourValues == -1 .. 2
=============================================================================
