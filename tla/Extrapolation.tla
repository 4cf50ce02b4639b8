--------------------------- MODULE Extrapolation ---------------------------
(***************************************************************************)
(* FastCaloSimCaloExtrapolation on a loaded CaloGeo: extrapolate() looks    *)
(* for the point where a particle leaves the inner detector and then, for   *)
(* every layer and each of its three depths, for the point where it meets   *)
(* the cylinder that stands for the layer, and enters the points into a     *)
(* TFCSExtrapolationState.  Pseudorapidity is measured by the cotangent of  *)
(* the angle, EtaUnit * z / r, which grows with it.                         *)
(***************************************************************************)
EXTENDS CaloGeo, CylinderPath

CONSTANTS
  Paths,       \* the particles' paths: a plane and a list of positions
  Boundaries,  \* m_CaloBoundaryR and m_CaloBoundaryZ: three cylinders
  EtaUnit,     \* of pseudorapidity
  EtaLimit,    \* the pseudorapidity up to which a particle is in the calorimeter
  FirstNonEmb, \* 4: the layers below it end at the first end-cap layer
  Eme1,        \* 5: that layer
  Garbage,     \* what a coordinate that was never set may hold
  MainThread,  \* the thread that extrapolates
  ClearCap     \* bound on the layers clear() is followed through

ASSUME BoundaryAssumption == Len(Boundaries) = 3 /\ MainThread \in Readers

VARIABLES
  phase,     \* "idle", "boundary", "layers", "thrown" or "clearing"
  track,     \* the path that is extrapolated
  at,        \* the next surface, layer and depth, or layer to clear
  boundary,  \* m_IDCaloBoundary_*: the point and the index of its momentum
  found      \* m_CaloOK, m_rCalo, ...: of a layer and a depth, the point

extVars == <<phase, track, at, boundary, found>>
NotSet == [set |-> FALSE]     \* eta = -999
NotOK == [ok |-> FALSE]
Depths == <<"MID", "ENT", "EXT">>

Eta(p) == IF p.u = 0 THEN Sgn(p.z) * Infinity ELSE Quot(EtaUnit * p.z, Perp(p))
Phi(plane, p) ==
  IF plane = "xz" THEN IF p.u < 0 THEN Pi ELSE 0 ELSE Sgn(p.u) * (Pi \div 2)
PosOf(plane, p) ==
  [eta |-> Eta(p), phi |-> Phi(plane, p),
   x |-> IF plane = "xz" THEN p.u ELSE 0, y |-> IF plane = "xz" THEN 0 ELSE p.u]

ExtInit ==
  /\ phase = "idle" /\ track = [plane |-> "xz", path |-> <<>>]
  /\ at = 0 /\ boundary = NotSet /\ found = Empty

\* A new result for a new particle; the boundary is reset first.
Extrapolate(p) ==
  /\ phase \in {"idle", "thrown"} /\ found = Empty
  /\ phase' = "boundary" /\ track' = p /\ at' = 1
  /\ boundary' = NotSet
  /\ UNCHANGED <<found, geoVars>>

NewResult ==
  /\ phase \in {"idle", "thrown"} /\ found # Empty
  /\ phase' = "idle" /\ boundary' = NotSet /\ found' = Empty /\ at' = 0
  /\ track' = [plane |-> "xz", path |-> <<>>]
  /\ UNCHANGED geoVars

\* extrapolateToID(), one surface: a point within the surface before it or
\* within the radius of the next is refused, and of the others the one
\* nearest the origin is kept.
Origin == [u |-> 0, z |-> 0]
Refused_NoNext(s, p) == s > 1 /\ Mag(p.z) <= Boundaries[s - 1].z
Refused(s, p) ==
  \/ s > 1 /\ Mag(p.z) <= Boundaries[s - 1].z
  \/ s < Len(Boundaries) /\ Perp(p) <= Boundaries[s + 1].r
BoundaryStep ==
  LET hit == ToCylinder(Boundaries[at], track.plane, track.path)
      further == boundary.set /\ Dist2(hit.pos, Origin) > Dist2(boundary.pos, Origin)
  IN /\ phase = "boundary"
     /\ boundary' = IF hit.found /\ ~Refused(at, hit.pos) /\ ~further
                    THEN [set |-> TRUE, pos |-> hit.pos, mom |-> hit.mom] ELSE boundary
     /\ IF at < Len(Boundaries) THEN at' = at + 1 /\ UNCHANGED phase
        ELSE /\ at' = 0
             /\ phase' = IF boundary'.set /\ Mag(Eta(boundary'.pos)) < EtaLimit
                         THEN "layers" ELSE "idle"
     /\ UNCHANGED <<track, found, geoVars>>

\* The cylinders a layer may stand for: barrel layers take the radius from the
\* cell in front of the particle, and the half length from the cells at the
\* ends, on the particle's side or on both.  The positions for the ends have an
\* x and a y that were never set, the positive one an angle that was not, too.
\* End-cap layers take their place along the axis from the cell in front and
\* the radius from the end of the layer.
Ahead(sample) == Answers(MainThread, sample, PosOf(track.plane, boundary.pos))
EndPositions(side) ==
  [eta : {side * Infinity}, phi : IF side > 0 THEN Garbage ELSE {Phi(track.plane, boundary.pos)},
   x : Garbage, y : Garbage]
EndCells(layer, side) ==
  UNION {Answers(MainThread, layer, pos) : pos \in EndPositions(side)}
PositiveSide == Eta(boundary.pos) > 0
HalfLengths(sample, sub) ==
  IF sample < FirstNonEmb
  THEN {IF c = NoCell THEN -1 ELSE Mag(CellZ(c, "ENT")) :
          c \in EndCells(Eme1, IF PositiveSide THEN 1 ELSE -1)}
  ELSE {IF NoCell \in {p, n} THEN -1
        ELSE (Mag(CellZ(p, sub)) + Mag(CellZ(n, sub))) \div 2 :
          p \in EndCells(sample, 1), n \in EndCells(sample, -1)}
Barrel(sample, sub) ==
  {[r |-> Mag(CellR(c, sub)), z |-> z] :
     c \in Ahead(sample) \ {NoCell}, z \in HalfLengths(sample, sub) \ {-1}}

InnerEdge(sample) ==
  IF PositiveSide THEN flags[sample].extent["positive"].min
  ELSE flags[sample].extent["negative"].max
Endcap(sample, sub) ==
  {[r |-> (Mag(CellZ(c, sub)) * EtaUnit) \div Larger(1, Mag(InnerEdge(sample))),
    z |-> Mag(CellZ(c, sub))] : c \in Ahead(sample) \ {NoCell}}

Throws(sample, sub) ==
  \/ sample \notin DOMAIN flags
  \/ NoCell \in Ahead(sample)
  \/ flags[sample].barrel /\ -1 \in HalfLengths(sample, sub)
Cylinders(sample, sub) ==
  IF flags[sample].barrel THEN Barrel(sample, sub) ELSE Endcap(sample, sub)

\* The point is moved along the line from the origin onto the layer.
Scaled(sample, c, p) ==
  IF flags[sample].barrel
  THEN IF p.u = 0 THEN p ELSE [u |-> Sgn(p.u) * c.r, z |-> Quot(p.z * c.r, Perp(p))]
  ELSE IF p.z = 0 THEN p ELSE [u |-> Quot(p.u * c.z, Mag(p.z)), z |-> Sgn(p.z) * c.z]

\* extrapolateToLayers(), one layer and depth.
LayerStep ==
  LET sample == at \div 3
      sub == Depths[(at % 3) + 1]
  IN /\ phase = "layers"
     /\ IF Throws(sample, sub) THEN phase' = "thrown" /\ UNCHANGED <<at, found>>
        ELSE /\ \E c \in Cylinders(sample, sub) :
                  LET hit == ToCylinder(c, track.plane, track.path) IN
                  found' = IF hit.found
                           THEN With(found, <<sample, sub>>,
                                     [ok |-> TRUE, on |-> c, pos |-> Scaled(sample, c, hit.pos)])
                           ELSE found
             /\ at' = at + 1
             /\ phase' = IF at' = 3 * counts.layers THEN "idle" ELSE "layers"
     /\ UNCHANGED <<track, boundary, geoVars>>

\* clear() of the result, one layer: while its number is below the number of
\* entries, the entries of the layer are set, and made where there are none.
ClearStart ==
  /\ phase \in {"idle", "thrown"} /\ found # Empty
  /\ phase' = "clearing" /\ at' = 0
  /\ UNCHANGED <<track, boundary, found, geoVars>>
ClearLayer ==
  /\ phase = "clearing" /\ at < ClearCap
  /\ IF at < Cardinality(DOMAIN found)
     THEN /\ found' = [k \in DOMAIN found \cup {<<at, s>> : s \in SubPositions} |->
                         IF k[1] = at THEN NotOK ELSE found[k]]
          /\ at' = at + 1
          /\ UNCHANGED <<phase, boundary>>
     ELSE phase' = "idle" /\ boundary' = NotSet /\ UNCHANGED <<at, found>>
  /\ UNCHANGED <<track, geoVars>>

\* The geometry is used by others while nothing is extrapolated; a particle is
\* extrapolated with a geometry the main thread has just loaded.
GeoStep ==
  /\ phase = "idle" /\ found = Empty /\ track.path = <<>>
  /\ UNCHANGED extVars
  /\ \/ Restart \/ LoseTrees
     \/ \E df \in DataFrames : BuildStore(df)
     \/ \E df \in DataFrames, cut \in Cuts : CutOff(df, cut[1], cut[2])
     \/ \E l \in building : BuildTree(l)
     \/ BuildThrows
     \/ Load(MainThread)
     \/ \E l \in DOMAIN ids : alt = {} /\ asked = [t \in Readers |-> None] /\ SetAltGeoHandler(l, l)
     \/ \E t \in Readers :
          \/ \E l \in DOMAIN ids, pos \in Positions : GetCell(t, l, pos)
          \/ \E l \in DOMAIN ids, i \in {1, 4} : GetCellAtIdx(t, l, i)
          \/ Release(t)

JustLoaded ==
  /\ IsLoaded /\ building = {} /\ alt = {} /\ queries = DOMAIN ids
  /\ asked = [t \in Readers |-> None] /\ ~mixed
  /\ \A t \in Readers \ {MainThread} : handle[t] = Empty
ExtrapolationNext ==
  \/ GeoStep
  \/ \E p \in Paths : JustLoaded /\ Extrapolate(p)
  \/ NewResult \/ BoundaryStep \/ LayerStep \/ ClearStart \/ ClearLayer

extrapolationVars == <<geoVars, extVars>>
ExtrapolationInit == GeoInit /\ ExtInit
ExtrapolationSpec == ExtrapolationInit /\ [][ExtrapolationNext]_extrapolationVars

\* Properties -----------------------------------------------------------------
\* The store's cells of a layer.
StoredIn(l) == {c \in ToSet(store.data) : c.layer = l}

\* A cell that get_cell(layer, pos) answers with is a cell of the layer, and it
\* is the one that is_inside() says the position is in, also across the end of
\* the angle's range; the two are separate code (RTreeHelpers, Cell).
HitIsInItsCell ==
  \A t \in Readers :
    asked[t] # None /\ asked[t].layer \notin alt /\ asked[t].pos # None /\ ~mixed
      => /\ scratch[t] \in StoredIn(asked[t].layer)
         /\ (\E c \in StoredIn(asked[t].layer) : IsInside(c, asked[t].pos))
              => IsTouching(scratch[t], asked[t].pos)

\* Until its next lookup a caller reads, through its reference, the cell it was
\* given, whatever other threads look up (CellStore::get).
ReadsItsCell ==
  \A t \in Readers : asked[t] # None => scratch[t].id = asked[t].id

\* After a load() the lists of the geometry hold each stored cell once and its
\* layers' extents are those of the cells, whatever was built, loaded, cut off
\* while the store was written, or given up half-way before.
LayersDescribeStore ==
  IsLoaded /\ ~again =>
    /\ counts = [layers |-> Cardinality(DOMAIN ids), cells |-> Len(store.data)]
    /\ \A l \in DOMAIN ids :
         /\ ToSet(ids[l]) = {c.id : c \in StoredIn(l)}
         /\ Len(ids[l]) = Cardinality(StoredIn(l))
         /\ \A side \in {"positive", "negative"} :
              LET there == {c \in StoredIn(l) : SideOf(c) = side} IN
              there # {} =>
                /\ flags[l].extent[side].min = Min({c.eta - Half(c.deta) : c \in there})
                /\ flags[l].extent[side].max = Max({c.eta + Half(c.deta) : c \in there})

\* A path that goes straight on, away from the axis or towards it, in the plane
\* of x and z.
Cross(p, q) == p.u * q.z - p.z * q.u
Step(path, i) == Minus(path[i], path[i - 1])
IsStraight(path) ==
  /\ Len(path) > 1 /\ path[1].u # path[2].u
  /\ \A i \in 3 .. Len(path) :
       Cross(Step(path, i), Step(path, 2)) = 0 /\ Dot(Step(path, i), Step(path, 2)) > 0

OnSurface(c, p) ==
  \/ Mag(Mag(p.z) - c.z) <= Tolerance /\ Perp(p) <= c.r + Tolerance
  \/ Mag(Perp(p) - c.r) <= Tolerance /\ Mag(p.z) <= c.z + Tolerance
OnPath(p, path) == \E i \in 2 .. Len(path) : OnSegment(p, path[i - 1], path[i])
Crosses(c, path) == \E i \in 2 .. Len(path) : TravelsThrough(c, path[i - 1], path[i])
HitOf(c) == ToCylinder(c, track.plane, track.path)

\* A straight path in the plane of x and z is taken to a point of the surface,
\* and if it crosses the surface to a point of the path (the comment on
\* extrapolateWithIntersection).
CrossingIsOnPath ==
  phase = "boundary" /\ track.plane = "xz" /\ IsStraight(track.path) =>
    LET c == Boundaries[at] IN
    /\ OnSurface(c, HitOf(c).pos)
    /\ Crosses(c, track.path) => OnPath(HitOf(c).pos, track.path)

\* The boundary of a path that starts in the inner detector and goes straight
\* is where the path leaves it: on one of the surfaces and inside of none.
BoundaryIsTheExit ==
  boundary.set /\ phase # "boundary" /\ track.plane = "xz" /\ IsStraight(track.path)
  /\ Where(Boundaries[1], track.path[1]) = "INSIDE" =>
    /\ \E i \in DOMAIN Boundaries : OnSurface(Boundaries[i], boundary.pos)
    /\ \A i \in DOMAIN Boundaries : Where(Boundaries[i], boundary.pos) # "INSIDE"

\* A layer is never left out ("this is not expected to ever happen"), and the
\* cylinder of an end-cap layer is wide enough for every cell of the layer on
\* the particle's side ("extrapolate to cylinder with maximum R").
EveryLayerIsReached ==
  phase \in {"layers", "idle"} /\ found # Empty =>
    /\ phase = "layers" => Cardinality(DOMAIN found) = at
    /\ \A k \in DOMAIN found :
         found[k].ok /\ ~flags[k[1]].barrel =>
           \A c \in StoredIn(k[1]) :
             (SideOf(c) = "positive") = PositiveSide =>
               found[k].on.r * (Mag(c.eta) - Half(c.deta)) >= found[k].on.z * EtaUnit - EtaUnit * 2

\* clear() sets the entries there are: "Clear all unordered_maps and reset with
\* default values" (TFCSExtrapolationState.cxx).
ClearAddsNothing == [][phase = "clearing" => DOMAIN found' \subseteq DOMAIN found]_extrapolationVars

\* What a geometry says of itself, to any thread, is what its cells say.
CellsAsStored == ReadsItsCell /\ LayersDescribeStore

\* A particle is extrapolated to where its path is: to the boundary where it
\* leaves the inner detector, and to every layer.
ExtrapolatedToItsPath == CrossingIsOnPath /\ BoundaryIsTheExit /\ EveryLayerIsReached
=============================================================================
