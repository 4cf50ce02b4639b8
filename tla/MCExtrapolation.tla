-------------------------- MODULE MCExtrapolation --------------------------
(***************************************************************************)
(* Two detectors of a barrel and an end-cap layer with a few cells each,    *)
(* and paths of one, two and three positions.                              *)
(***************************************************************************)
EXTENDS Extrapolation

Cell(id, layer, barrel, eta, deta, phi, dphi, r, dr, z, dz) ==
  [id |-> id, layer |-> layer, barrel |-> barrel, sys |-> "EtaPhi",
   eta |-> eta, deta |-> deta, c1 |-> eta, d1 |-> deta, c2 |-> phi, d2 |-> dphi,
   r |-> r, dr |-> dr, z |-> z, dz |-> dz, valid |-> TRUE]
Frame ==
  <<Cell(7, 0, TRUE, 40, 80, 0, 6, 144, 24, 60, 120), Cell(1, 0, TRUE, -40, 80, 0, 6, 144, 24, -60, 120),
    Cell(4, 0, TRUE, 40, 80, -4, 2, 144, 24, 60, 120), Cell(3, 0, TRUE, -40, 80, -4, 2, 144, 24, -60, 120),
    Cell(2, 1, FALSE, 130, 60, 0, 6, 100, 60, 180, 24), Cell(5, 1, FALSE, -130, 60, 0, 6, 100, 60, -180, 24)>>
\* A barrel layer with both ends, an end-cap layer in x and y.
XyCell(id, eta, x, y, z) ==
  [Cell(id, 1, FALSE, eta, 60, 0, 2, 100, 60, z, 24) EXCEPT
     !.sys = "XYZ", !.c1 = x, !.d1 = 120, !.c2 = y, !.d2 = 240]
SmallFrame ==
  <<Cell(2, 0, TRUE, 40, 80, 0, 6, 144, 24, 60, 120), Cell(1, 0, TRUE, -40, 80, 0, 6, 144, 24, -60, 120),
    XyCell(4, 130, 60, 0, 180), XyCell(3, -130, -60, 0, -180)>>
Frames == {Frame, SmallFrame}
AltCellOf == [id |-> 99, valid |-> TRUE, layer |-> 0]
P(e, ph) == [eta |-> e, phi |-> ph, x |-> e, y |-> 0]
SomeCuts == {<<0, 0>>, <<3, 2>>, <<2, 3>>}
SomePositions == {P(40, -4), P(-130, 3)}

\* Straight paths from near the beam axis, and paths with a kink.
Pt(u, z) == [u |-> u, z |-> z]
Line(s, d, n) == [i \in 1 .. n |-> Pt(s.u + (i - 1) * d.u, s.z + (i - 1) * d.z)]
Straight == {Line(s, d, n) : s \in {Pt(0, 0), Pt(12, 12), Pt(-24, -36)},
                             d \in {Pt(-96, 24), Pt(72, 72), Pt(36, -108), Pt(12, 96), Pt(4, -96), Pt(0, 96)},
                             n \in {1, 3}}
Kinked == {<<Pt(12, 0), Pt(96, 60), p>> : p \in {Pt(12, 200), Pt(96, 60), Pt(180, -48)}}
SomePaths ==
  {[plane |-> pl, path |-> p] : pl \in {"xz", "yz"}, p \in Straight \cup Kinked}
ThreeSurfaces == <<[r |-> 120, z |-> 120], [r |-> 48, z |-> 168], [r |-> 24, z |-> 168]>>
SomeGarbage == {0, -4}
TheReaders == {"main", "other"}
\* A bound on the search: while the trees may be those of other cells, a lookup
\* or a handler is the last thing that happens, and build() does not run again
\* once another thread has opened trees.
QuietWhileMixed ==
  mixed => /\ alt = {} /\ \A t \in Readers : asked[t] = None
           /\ again => \A t \in Readers \ {MainThread} : handle[t] = Empty
=============================================================================
