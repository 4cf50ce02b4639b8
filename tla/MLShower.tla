------------------------------ MODULE MLShower ------------------------------
(***************************************************************************)
(* Showers from a network: TFCSBinnedShowerONNX, which shares simulate(),   *)
(* simulate_hit() and the counting of hits with the showers from a library, *)
(* and TFCSMLCalorimeterSimulator, which asks the network for the energies  *)
(* of all voxels, once more while the answer holds a NaN, and cuts the      *)
(* answer into layers.  The voxels of its hits may be upscaled: a hit goes  *)
(* into a quarter of its voxel, drawn as average showers of neighbouring    *)
(* energies are distributed.                                                *)
(*                                                                          *)
(* An object is of one of the two classes; that of the library behaves as   *)
(* BinnedShower says.  Layers count from 1, voxels and bins from 0, and     *)
(* random numbers are the midpoints of Grid equal intervals.                *)
(***************************************************************************)
EXTENDS BinnedShower, SequencesExt

CONSTANTS
  Shapes,       \* layer boundaries and used layers of simulators
  Answers,      \* what the network may compute: energies of voxels
  NaN,          \* ... or this, which is not greater than 0
  MaxRetries,   \* how often it is asked once more
  MetaFiles,    \* files of voxels: the number of bins of each layer
  SubBinFiles,  \* files of distributions: sets of matrices
  Unit,         \* probabilities are in units of 1/Unit
  Grid,
  LogOf,        \* logarithm of an energy
  LinearLayer   \* the layer with a linear density in the radius

\* setInputShapes() takes one layer less than boundaries.
Accepted(shape) ==
  shape.used # <<>> /\ Len(shape.bounds) = Len(shape.used) + 1

ASSUME SimulatorAssumption ==
  /\ NaN \in Int /\ NaN < 0 /\ MaxRetries \in Nat
  /\ Unit \in Nat \ {0} /\ Grid \in Nat \ {0} /\ LinearLayer \in Layers
  /\ Answers \subseteq Seq(Int)
  /\ \A shape \in Shapes : Accepted(shape) =>
       /\ shape.bounds \in Seq(Nat) /\ shape.used \in Seq(Layers)
       /\ shape.bounds[1] = 0
       /\ \A k \in 1 .. Len(shape.used) : shape.bounds[k] < shape.bounds[k + 1]

VARIABLES
  network,    \* the object is of the class TFCSBinnedShowerONNX
  simulator,  \* m_ai_simulator is there
  shape,      \* m_layer_boundaries and m_used_layers
  coords,     \* m_coordinates: the bins of each layer
  upscaling,  \* m_use_upscaling
  sub,        \* m_upscaling_energies and m_sub_bin_distribution
  answer,     \* outputs, and the energy they were asked for
  retry,
  bins,       \* bin_index_vector of each layer of the event
  place       \* where the last hit went: its bin, and the quarter of it

object == <<network, simulator, shape>>
voxels == <<coords, upscaling, sub>>
asked == <<answer, retry>>
mlvars == <<vars, object, voxels, asked, bins, place>>
netvars == <<object, voxels, asked, bins, place>>

-----------------------------------------------------------------------------
\* getEvent(): the layer of each voxel, one further where its boundary is met ...
Walk_Behind(b) ==
  LET f[v \in 0 .. b[Len(b)] - 1] ==
        LET k == IF v = 0 THEN 1 ELSE f[v - 1]
        IN  IF v = b[k + 1] + 1 THEN k + 1 ELSE k
  IN f
Walk(b) ==
  LET f[v \in 0 .. b[Len(b)] - 1] ==
        LET k == IF v = 0 THEN 1 ELSE f[v - 1]
        IN  IF v = b[k + 1] THEN k + 1 ELSE k
  IN f

\* ... and the voxels of a layer that hold energy, unless one is missing.
NVoxels == Last(shape.bounds)
Holds(a, v, l) == shape.used[Walk(shape.bounds)[v]] = l /\ a[v + 1] > 0
Filled(a, l) ==
  LET f[v \in 0 .. NVoxels] ==
        IF v = 0 THEN <<>>
        ELSE IF Holds(a, v - 1, l) THEN Append(f[v - 1], v - 1) ELSE f[v - 1]
  IN  IF Len(a) < NVoxels THEN <<>> ELSE f[NVoxels]

LayersOf(a) ==
  LET filled == {l \in Layers : Filled(a, l) # <<>>}
  IN  IF filled = {} THEN 0 ELSE CHOOSE l \in filled : \A m \in filled : m <= l

BinsOf(a) ==
  [l \in 1 .. LayersOf(a) |->
     LET vs == Filled(a, l)
     IN  [i \in 1 .. Len(vs) |->
            vs[i] - shape.bounds[Walk(shape.bounds)[vs[i]]]]]

\* Fractions of the energy asked for, not MeV.
FractionsOf(a, e) ==
  [l \in 1 .. LayersOf(a) |->
     LET vs == Filled(a, l) IN [i \in 1 .. Len(vs) |-> a[vs[i] + 1] \div e]]

HasNaN(a) == \E v \in DOMAIN a : a[v] = NaN

-----------------------------------------------------------------------------
\* load_sub_bin_distribution(): the matrices by energy and layer; a layer below
\* the last one that has none is left empty.
Loaded(file) ==
  LET listed == SetToSortSeq({m.energy : m \in file}, <)
      Matrix(e, l) == IF \E m \in file : m.energy = e /\ m.layer = l
                      THEN (CHOOSE m \in file : m.energy = e /\ m.layer = l).rows
                      ELSE <<>>
      LastLayer(e) == LET ls == {m.layer : m \in {n \in file : n.energy = e}}
                      IN  CHOOSE l \in ls : \A m \in ls : m <= l
  IN  [energies |-> listed,
       dist |-> [i \in 1 .. Len(listed) |->
                   [l \in 1 .. LastLayer(listed[i]) |-> Matrix(listed[i], l)]]]

\* upscale(): the tables of the energies around e, and what each counts; ...
Above(e) ==
  LET higher == {i \in 1 .. Len(sub.energies) : sub.energies[i] > e}
  IN  IF higher = {} THEN Len(sub.energies)
      ELSE CHOOSE i \in higher : \A j \in higher : i <= j

Tables(e) ==
  LET i == Above(e)
  IN  CASE i = 0 -> {}
        [] i = 1 \/ sub.energies[i] < e -> {i}
        [] OTHER -> {i - 1, i}

Weight(e, j) ==
  LET i == Above(e)
  IN  CASE Cardinality(Tables(e)) = 1 -> 1
        [] j = i -> LogOf[e] - LogOf[sub.energies[i - 1]]
        [] OTHER -> LogOf[sub.energies[i]] - LogOf[e]

\* ... without the layer in all of them every quarter is as likely, unless there
\* is one energy only; at() throws for what is not there.
Uniform(l, e) ==
  \/ sub.energies = <<>>
  \/ /\ Len(sub.energies) > 1 /\ sub.dist # <<>>
     /\ \E j \in Tables(e) : l > Len(sub.dist[j])
Upscales(l, b, e) ==
  \/ Uniform(l, e)
  \/ /\ sub.dist # <<>>
     /\ \A j \in Tables(e) : l <= Len(sub.dist[j]) /\ b < Len(sub.dist[j][l])

Probabilities(l, b, e) ==
  IF Uniform(l, e) THEN [k \in 1 .. 3 |-> (k * Unit) \div 4]
  ELSE LET w == FoldSet(LAMBDA j, x : Weight(e, j) + x, 0, Tables(e))
       IN  [k \in 1 .. 3 |->
              FoldSet(LAMBDA j, x : Weight(e, j) * sub.dist[j][l][b + 1][k] + x,
                      0, Tables(e)) \div w]

\* What the inner half of the radius has of w, cut to what a linear density in the
\* radius can give it, where there is one: its inverse is below the middle for the
\* draws below this, and with one half exactly the radius is drawn once more.
Inner(l, p, w) ==
  CASE l # LinearLayer \/ (w <= 4 * p /\ 4 * p <= 3 * w) -> <<p, w>>
    [] 4 * p < w -> <<1, 4>>
    [] OTHER -> <<3, 4>>

\* The halves in angle and radius for the draws i and j: the probability of the
\* lower radius is that of the half in angle.
Quarter(t, l, i, j) ==
  LET low == t[3] - t[2] + t[1]
      alpha == (2 * i + 1) * Unit < low * 2 * Grid
      num == IF alpha THEN t[1] ELSE t[2] - t[1]
      den == IF alpha THEN low ELSE Unit - low
      p == Inner(l, num, den)
  IN  [alpha |-> alpha, r |-> (2 * j + 1) * p[2] <= p[1] * 2 * Grid]

\* get_coordinates(): the voxel, or a quarter of it.
Draws == (0 .. Grid - 1) \X (0 .. Grid - 1)
Whole == [alpha |-> TRUE, r |-> TRUE]
Places(l, b, e) ==
  IF upscaling THEN {Quarter(Probabilities(l, b, e), l, d[1], d[2]) : d \in Draws}
  ELSE {Whole}
HasPlace(l, b, e) ==
  /\ l <= Len(coords) /\ b < coords[l]
  /\ upscaling => Upscales(l, b, e)

-----------------------------------------------------------------------------
NoSubBins == [energies |-> <<>>, dist |-> <<>>]
Nowhere == [bin |-> 0, quarter |-> Whole]

MLInit ==
  /\ Init /\ network \in BOOLEAN
  /\ network => library = <<>> /\ ~matching
  /\ simulator = FALSE
  /\ shape \in {s \in Shapes : Accepted(s)}
  /\ coords = <<>> /\ upscaling = FALSE /\ sub = NoSubBins
  /\ answer = [for |-> 0, voxels |-> <<>>] /\ retry = 0
  /\ bins = <<>> /\ place = Nowhere

\* An object of the other class.
Library == ~network /\ Next /\ UNCHANGED netvars

\* The caller simulates with some energy.
NetClear ==
  /\ network
  /\ Clear /\ (OnlyScale => total' > 0)
  /\ UNCHANGED netvars

NetThrows == network /\ SimulateThrows /\ UNCHANGED netvars

\* Without a simulator get_event() follows a null pointer.
NetCrashes ==
  /\ network /\ ~simulator /\ pc = "cleared" /\ ~Fresh
  /\ pc' = "crashed"
  /\ UNCHANGED <<setup, store, energies, layer, hits, picked, showers, netvars>>

\* simulate(): the event before is deleted and E() reset, and then
\* predictVoxels() asks the network, ...
Ask(ekin, a) ==
  /\ network /\ simulator /\ pc = "cleared" /\ ~Fresh
  /\ live' = Kept /\ aux' = [k \in Keys |-> Null]
  /\ total' = 0
  /\ answer' = [for |-> StartEnergy(ekin), voxels |-> a] /\ retry' = 0
  /\ pc' = "asked"
  /\ UNCHANGED <<setup, event, einit, energy, layer, hits, picked, showers>>
  /\ UNCHANGED <<object, voxels, bins, place>>

\* ... a few times where it answers with NaN, ...
AskAgain(a) ==
  /\ network /\ pc = "asked" /\ HasNaN(answer.voxels) /\ retry < MaxRetries
  /\ answer' = [answer EXCEPT !.voxels = a]
  /\ retry' = retry + 1
  /\ UNCHANGED <<vars, object, voxels, bins, place>>

\* get_event() keeps the event and its energy, and the hits of it, in the state.
Stored ==
  /\ einit' = answer.for
  /\ aux' = [k \in Keys |-> showers + 1]
  /\ live' = live \cup (Keys \X {showers + 1})

\* ... makes the event of the answer, counts its hits and sets the energies.
TakeAnswer ==
  /\ network /\ pc = "asked"
  /\ ~HasNaN(answer.voxels) \/ retry = MaxRetries
  /\ bins' = BinsOf(answer.voxels)
  /\ event' = FractionsOf(answer.voxels, answer.for)
  /\ Stored
  /\ energy' = [l \in Layers |-> EnergyIn(event', l, einit')]
  /\ total' = TotalAfter(energy')
  /\ pc' = "layer" /\ layer' = 1
  /\ showers' = showers + 1
  /\ UNCHANGED <<setup, hits, picked, object, voxels, asked, place>>

NetLayer ==
  /\ network
  /\ SkipLayer \/ StartLayer \/ NextLayer \/ EndShower
  /\ UNCHANGED netvars

BinHit == bins[layer][Voxel(event[layer], einit, idx)]

NetHit ==
  /\ network /\ SimulateHit
  /\ HasPlace(layer, BinHit, einit)
  /\ \E q \in Places(layer, BinHit, einit) : place' = [bin |-> BinHit, quarter |-> q]
  /\ UNCHANGED <<object, voxels, asked, bins>>

NetHitThrows ==
  /\ network /\ pc = "hit" /\ ~HasPlace(layer, BinHit, einit)
  /\ pc' = "thrown"
  /\ UNCHANGED <<setup, store, energies, layer, hits, picked, showers, netvars>>

-----------------------------------------------------------------------------
\* Setting the object up, before its first shower, which bounds the model.
NetBetween ==
  /\ network /\ Between /\ showers = 0
  /\ UNCHANGED <<vars, network, shape, asked, bins, place>>

\* load_simulator() drops the simulator, also where the file holds none.
LoadSimulator ==
  /\ NetBetween
  /\ simulator' \in BOOLEAN
  /\ UNCHANGED voxels

\* load_bin_boundaries() for some layers: none for one that the file lacks.
BinsIn(file, layers) ==
  [l \in 1 .. FoldSet(LAMBDA k, x : IF k > x THEN k ELSE x, 0, layers) |->
     IF l \in layers /\ l <= Len(file) THEN file[l] ELSE 0]

\* load_meta_data() reads the voxels, and clears the distributions.
LoadMetaData(file, layers) ==
  /\ NetBetween
  /\ coords' = BinsIn(file, layers)
  /\ sub' = IF upscaling THEN [sub EXCEPT !.dist = <<>>] ELSE sub
  /\ UNCHANGED <<simulator, upscaling>>

\* set_bin_boundaries()
SetBinBoundaries(l, n) ==
  /\ NetBetween
  /\ coords' = [k \in 1 .. (IF l > Len(coords) THEN l ELSE Len(coords)) |->
                  IF k = l THEN n ELSE IF k <= Len(coords) THEN coords[k] ELSE 0]
  /\ UNCHANGED <<simulator, upscaling, sub>>

SetUpscaling ==
  /\ NetBetween
  /\ upscaling' = ~upscaling
  /\ UNCHANGED <<simulator, coords, sub>>

\* load_sub_bin_distribution(); a file that cannot be read switches it on too.
LoadSubBins(read, file) ==
  /\ NetBetween
  /\ upscaling' = TRUE
  /\ sub' = IF read THEN Loaded(file) ELSE sub
  /\ UNCHANGED <<simulator, coords>>

MLNext ==
  \/ Library \/ NetClear
  \/ NetThrows \/ NetCrashes \/ TakeAnswer \/ NetLayer \/ NetHit \/ NetHitThrows
  \/ \E a \in Answers : AskAgain(a) \/ \E e \in Energies \ {0} : Ask(e, a)
  \/ LoadSimulator \/ SetUpscaling
  \/ \E file \in MetaFiles, layers \in {Layers} \cup {{l} : l \in Layers} :
       LoadMetaData(file, layers)
  \/ \E l \in Layers : SetBinBoundaries(l, 1)
  \/ \E file \in SubBinFiles, read \in BOOLEAN : LoadSubBins(read, file)

MLSpec == MLInit /\ [][MLNext]_mlvars

-----------------------------------------------------------------------------
\* The event of a network holds every voxel with energy of its last answer,
\* once, in the layer between whose boundaries it lies, at its place there, and
\* nothing else, NaN neither; with a voxel missing it is empty (getEvent()).
VoxelsInTheirBins ==
  network /\ pc = "layer" /\ layer = 1 =>
    LET a == answer.voxels
        whole == Len(a) >= NVoxels
        full == {v \in 0 .. NVoxels - 1 : whole /\ a[v + 1] > 0}
        LayerAt(v) == CHOOSE k \in DOMAIN shape.used :
                        shape.bounds[k] <= v /\ v < shape.bounds[k + 1]
    IN  /\ SumUpTo([l \in DOMAIN event |-> Len(event[l])], Len(event)) = Cardinality(full)
        /\ UNION {{<<l, bins[l][i], event[l][i] * einit>> : i \in DOMAIN event[l]} :
                    l \in DOMAIN event}
             = {<<shape.used[LayerAt(v)], v - shape.bounds[LayerAt(v)], a[v + 1]>> : v \in full}

\* While its hits are made, a voxel of the event gives its quarters the share
\* that the average showers of the energies around say, in the layer with a linear
\* density in the radius where such a density can (upscale()).
Attains(l, t) ==
  LET low == t[3] - t[2] + t[1]
  IN  /\ Inner(l, t[1], low) = <<t[1], low>>
      /\ Inner(l, t[2] - t[1], Unit - low) = <<t[2] - t[1], Unit - low>>
SubBinsAsDistributed ==
  network /\ upscaling /\ pc = "filled" =>
    \A b \in {c \in ToSet(bins[layer]) : Attains(layer, Probabilities(layer, c, einit))} :
      LET t == Probabilities(layer, b, einit)
          Share(q) == CASE q.r /\ q.alpha -> t[1] [] q.r /\ ~q.alpha -> t[2] - t[1]
                        [] ~q.r /\ q.alpha -> t[3] - t[2] [] OTHER -> Unit - t[3]
      IN  \A q \in [alpha : BOOLEAN, r : BOOLEAN] :
            Cardinality({d \in Draws : Quarter(t, layer, d[1], d[2]) = q}) * Unit
              = Share(q) * Grid * Grid

\* What the network answers ends up where it belongs: a voxel in its layer and
\* place, its hits in the quarters of its place.
AnswerIsPlaced == VoxelsInTheirBins /\ SubBinsAsDistributed
=============================================================================
