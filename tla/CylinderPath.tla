---------------------------- MODULE CylinderPath ----------------------------
(***************************************************************************)
(* Where the path of a particle meets a cylinder around the beam axis:      *)
(* FastCaloSimCaloExtrapolation::extrapolateToCylinder().  The path is a    *)
(* list of positions in one plane that contains the axis: z along the axis, *)
(* u across it, so that the distance from the axis is |u|.  The plane is    *)
(* the one of x and z, where x = u, or the one of y and z, where x = 0.     *)
(* Lengths are integers in a unit small enough that a division may round;   *)
(* the code's tolerances far below a millimetre are equality up to Round.   *)
(* Lines beside the axis, which may touch or miss the cover, are left out.  *)
(***************************************************************************)
EXTENDS Integers, SequencesExt

CONSTANTS
  Tolerance,  \* how near the surface counts as on it: a millimetre
  StepSize,   \* the step of the iterative search
  Round       \* how far a rounded point may be from where it is

Mag(n) == IF n < 0 THEN -n ELSE n
Sgn(n) == IF n < 0 THEN -1 ELSE IF n = 0 THEN 0 ELSE 1
Quot(n, d) == (n * Sgn(d)) \div Mag(d)
Lesser(a, b) == IF b < a THEN b ELSE a

Perp(p) == Mag(p.u)
Minus(p, q) == [u |-> p.u - q.u, z |-> p.z - q.z]
Dot(p, q) == p.u * q.u + p.z * q.z
Dist2(p, q) == Dot(Minus(p, q), Minus(p, q))
Middle(p, q) == [u |-> p.u + (q.u - p.u) \div 2, z |-> p.z + (q.z - p.z) \div 2]
\* The point n / d of the way from p to q, kept between the two.
Along(p, q, n, d) ==
  IF n * Sgn(d) <= 0 THEN p
  ELSE IF n * Sgn(d) >= Mag(d) THEN q
  ELSE [u |-> p.u + Quot(n * (q.u - p.u), d), z |-> p.z + Quot(n * (q.z - p.z), d)]

\* projectOnCylinder(): the unit vector of a null vector is null, so that a
\* point of the axis between the ends is its own projection.
Project(c, p) ==
  [u |-> Sgn(p.u) * (IF Mag(p.z) < c.z THEN c.r ELSE Lesser(Perp(p), c.r)),
   z |-> IF p.z >= c.z THEN c.z ELSE IF p.z <= -c.z THEN -c.z ELSE p.z]
ToSurface2(c, p) == Dist2(p, Project(c, p))

\* whereOnCylinder()
IsOn(c, p) ==
  \/ /\ Perp(p) <= c.r + Tolerance
     /\ Mag(IF p.z > 0 THEN p.z - c.z ELSE p.z + c.z) < Tolerance
  \/ Mag(Perp(p) - c.r) < Tolerance /\ Mag(p.z) < c.z
Where(c, p) ==
  IF IsOn(c, p) THEN "ON"
  ELSE IF Mag(p.z) < c.z /\ Perp(p) < c.r THEN "INSIDE" ELSE "OUTSIDE"
TravelsThrough(c, a, b) == (Where(c, a) = "INSIDE") # (Where(c, b) = "INSIDE")

\* isOnSegment(), for a point of the line through a and b.
Between(n, a, b) == (a - Round <= n /\ n <= b + Round) \/ (b - Round <= n /\ n <= a + Round)
OnSegment(p, a, b) == Between(p.u, a.u, b.u) /\ Between(p.z, a.z, b.z)
\* getPointLineSegmentDistance(), for such a point, squared.
ToSegment2(p, a, b) ==
  LET along == Dot(Minus(p, a), Minus(b, a)) IN
  IF along <= 0 THEN Dist2(p, a)
  ELSE IF along >= Dist2(a, b) THEN Dist2(p, b) ELSE 0

\* cylinderLineIntersection(): the points of the line at the radius that are
\* between the ends, the one ahead first.  Along the axis every comparison
\* is with not-a-number and there is none.
AtU(a, b, u) == [u |-> u, z |-> a.z + Quot((u - a.u) * (b.z - a.z), b.u - a.u)]
CoverHits(c, a, b) ==
  LET ahead == Sgn(b.u - a.u) * c.r IN
  IF a.u = b.u THEN <<>>
  ELSE SelectSeq(<<AtU(a, b, ahead), AtU(a, b, -ahead)>>, LAMBDA p : Mag(p.z) <= c.z)

\* cylinderEndcapIntersection(), of the end at z.
EndcapHit(c, z, a, b) ==
  IF a.z = b.z THEN <<>>
  ELSE SelectSeq(<<[u |-> b.u + Quot((z - b.z) * (b.u - a.u), b.z - a.z), z |-> z]>>,
                 LAMBDA p : Perp(p) <= c.r)

\* getCylinderIntersections(): with one through the cover, the end that is
\* hit further from it.
Intersections(c, a, b) ==
  LET cover == CoverHits(c, a, b)
      ends == EndcapHit(c, c.z, a, b) \o EndcapHit(c, -c.z, a, b)
  IN IF Len(cover) = 2 THEN cover
     ELSE IF Len(cover) = 0 THEN ends
     ELSE IF Len(ends) = 2
          THEN <<cover[1], IF Dist2(ends[1], cover[1]) > Dist2(ends[2], cover[1])
                           THEN ends[1] ELSE ends[2]>>
     ELSE cover \o ends

\* whichIntersection(): across the surface the one nearest the segment, inside
\* the one ahead, outside the one nearest the second position.
Which(c, a, b, p, q) ==
  LET second ==
        IF TravelsThrough(c, a, b) THEN ToSegment2(p, a, b) > ToSegment2(q, a, b)
        ELSE IF Where(c, a) = "INSIDE"
        THEN Dot(Minus(p, b), Minus(b, a)) < Dot(Minus(q, b), Minus(b, a))
        ELSE Dist2(b, p) > Dist2(b, q)
  IN IF second THEN q ELSE p

\* The test for a forward extrapolation divides differences in x; where x does
\* not change it divides by zero, and the comparison fails.
IsForward(plane, p, a, b) == plane = "xz" /\ a.u # b.u /\ (p.u - a.u) * (b.u - a.u) >= 0

\* The position whose momentum is taken: the one nearer the surface.
Nearer(c, path, i) ==
  IF ToSurface2(c, path[i - 1]) < ToSurface2(c, path[i]) THEN i - 1 ELSE i

\* One turn of the loop of extrapolateWithIntersection(): s.tried counts the
\* segments that were long enough.
Hit(p, i, n) == [found |-> TRUE, pos |-> p, mom |-> i, tried |-> n]
TrySegment(c, plane, path, s, i) ==
  LET a == path[i - 1]
      b == path[i]
      n == s.tried + 1
      hits == Intersections(c, a, b)
      p == IF Len(hits) = 2 THEN Which(c, a, b, hits[1], hits[2]) ELSE hits[1]
      forward == IsForward(plane, p, a, b)
      through == TravelsThrough(c, a, b)
      outside == Where(c, a) = "OUTSIDE" /\ Where(c, b) = "OUTSIDE"
      taken == /\ n = 1 \/ forward \/ through
               /\ \/ through \/ OnSegment(p, a, b) \/ i = Len(path)
                  \/ outside /\ ~forward /\ n = 1
  IN IF s.found THEN s
     ELSE IF Where(c, a) = "ON" THEN Hit(a, i - 1, n)
     ELSE IF Where(c, b) = "ON" THEN Hit(b, i, n)
     ELSE IF a = b THEN s
     ELSE IF Len(hits) > 0 /\ taken THEN Hit(p, Nearer(c, path, i), n)
     ELSE [s EXCEPT !.tried = n]

NotFound == [found |-> FALSE, pos |-> [u |-> 0, z |-> 0], mom |-> 0, tried |-> 0]
Segments(path) == [i \in 1 .. (Len(path) - 1) |-> i + 1]
WithIntersection(c, plane, path) ==
  FoldLeft(LAMBDA s, i : TrySegment(c, plane, path, s, i), NotFound, Segments(path))

\* getIterativePCA(): from both bounds towards the other, until one of the two
\* distances from the surface grows again; otherwise the nearer bound.  A step
\* is measured along the longer coordinate.
Walk(c, A, B) ==
  LET long == IF Mag(B.u - A.u) > Mag(B.z - A.z) THEN Mag(B.u - A.u) ELSE Mag(B.z - A.z)
      half == (long \div StepSize) \div 2
      from(p, q, k) == [u |-> p.u + Quot(k * StepSize * (q.u - p.u), long),
                        z |-> p.z + Quot(k * StepSize * (q.z - p.z), long)]
      start == IF ToSurface2(c, A) < ToSurface2(c, B) THEN A ELSE B
      walk[k \in 0 .. half] ==
        IF k = half THEN Middle(start, start)
        ELSE IF ToSurface2(c, from(A, B, k)) < ToSurface2(c, from(A, B, k + 1))
             THEN Middle(from(A, B, k), from(A, B, k + 1))
        ELSE IF ToSurface2(c, from(B, A, k)) < ToSurface2(c, from(B, A, k + 1))
             THEN Middle(from(B, A, k + 1), from(B, A, k))
        ELSE walk[k + 1]
  IN IF long <= 4 * StepSize THEN Middle(A, B) ELSE walk[0]

\* findPCA(): the point of a segment nearest the cylinder.
BeyondEnds(c, a, b) == Mag(a.z) > c.z \/ Mag(b.z) > c.z
AlongEndcap(c, a, b) ==
  LET ahead == [u |-> Sgn(b.u - a.u) * c.r, z |-> a.z]
      behind == [ahead EXCEPT !.u = -@]
      inner == IF Perp(a) <= c.r THEN a ELSE b
  IN IF OnSegment(ahead, a, b) /\ OnSegment(behind, a, b) THEN Middle(ahead, behind)
     ELSE IF OnSegment(ahead, a, b) THEN Middle(ahead, inner)
     ELSE IF OnSegment(behind, a, b) THEN Middle(behind, inner)
     ELSE Middle(a, b)
TowardsEndcap(c, a, b) ==
  LET d == Minus(b, a)
      centre == [u |-> 0, z |-> c.z]
  IN Walk(c, Along(a, b, Dot(Minus(centre, a), d), Dot(d, d)), Along(a, b, c.z - a.z, d.z))
NearestTheAxis(a, b) ==
  IF a.u = b.u THEN a ELSE [u |-> 0, z |-> a.z + Quot(-a.u * (b.z - a.z), b.u - a.u)]
FindPCA(c, a, b) ==
  LET axis == NearestTheAxis(a, b) IN
  IF Project(c, a) = Project(c, b) THEN a
  ELSE IF BeyondEnds(c, a, b)
  THEN IF a.z = b.z THEN AlongEndcap(c, a, b) ELSE TowardsEndcap(c, a, b)
  ELSE IF OnSegment(axis, a, b) THEN axis
  ELSE IF ToSurface2(c, a) < ToSurface2(c, b) THEN a ELSE b

\* extrapolateWithPCA(): over all segments, the point nearest the cylinder,
\* projected on it.
FarAway == 2000000000
WithPCA(c, path) ==
  FoldLeft(
    LAMBDA s, i :
      LET p == FindPCA(c, path[i - 1], path[i]) IN
      IF ToSurface2(c, p) < s.least
      THEN [found |-> TRUE, pos |-> Project(c, p), mom |-> Nearer(c, path, i),
            least |-> ToSurface2(c, p)]
      ELSE s,
    [found |-> FALSE, pos |-> [u |-> 0, z |-> 0], mom |-> 0, least |-> FarAway],
    Segments(path))

\* extrapolateToCylinder(): whether there is a position, which, and the index
\* of the position whose momentum goes with it.
ToCylinder(c, plane, path) ==
  LET crossing == WithIntersection(c, plane, path)
      closest == WithPCA(c, path)
      of(s) == [found |-> s.found, pos |-> s.pos, mom |-> s.mom]
  IN IF Len(path) = 1 THEN [found |-> TRUE, pos |-> Project(c, path[1]), mom |-> 1]
     ELSE of(IF crossing.found THEN crossing ELSE closest)
=============================================================================
