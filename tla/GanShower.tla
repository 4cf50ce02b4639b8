----------------------------- MODULE GanShower -----------------------------
(***************************************************************************)
(* Showers from a GAN: TFCSEnergyAndHitGANV2 with its TFCSGANEtaSlice and  *)
(* TFCSGANXMLParameters.  The slice reads the binning of its particle and  *)
(* eta range, loads its networks through the factory, and is saved and     *)
(* read back with them.  A shower asks the network for the energies of all *)
(* voxels, adds them up per layer, runs the chain for all bins, and hands  *)
(* the energy of each voxel out in hits, which run through the chain of    *)
(* their layer.                                                            *)
(*                                                                         *)
(* The networks of the slice are in the slots "all", "low" and "high" of   *)
(* NetworkHandlers.  Energies in voxels are fractions of the incident      *)
(* energy in units of 1/Unit, and a hit is placed by the radius and the    *)
(* angle it is drawn at; turning those into a position is left out.        *)
(***************************************************************************)
EXTENDS NetworkHandlers, Sums, SequencesExt, FiniteSetsExt

CONSTANTS
  Xml,          \* the bins of binning.xml
  Slices,       \* [pid, etaMin] the object is initialised with
  Layers,       \* the layers of the geometry
  Particles,    \* [pdg, p, ekin] of the particles
  Answers,      \* values a network may return, a sequence with one per output
  OnlyScale,    \* the bit kOnlyScaleEnergy
  Before,       \* energies the state may hold before the shower
  Arc,          \* hits along alpha of a hadron in a bin of the layer
  Draws,        \* radii the fit of a bin may be asked for
  MaxShowers, MaxCalls   \* bounds on showers, and calls to set up

Roles == {"all", "low", "high"}
NoSlice == [pid |-> 0, etaMin |-> 0]

\* The binning of the layers: edges in r that rise from 0 or more, and a number
\* of bins in alpha.
Binned(binning) ==
  /\ DOMAIN binning \subseteq Nat /\ IsFiniteSet(DOMAIN binning)
  /\ \A l \in DOMAIN binning :
       /\ binning[l].alpha \in Nat \ {0}
       /\ binning[l].edges \in Seq(Nat) /\ binning[l].edges # <<>>
       /\ \A i \in 1 .. Len(binning[l].edges) - 1 :
            binning[l].edges[i] < binning[l].edges[i + 1]
       /\ Arc[l] \in Int
ASSUME GanAssumption ==
  /\ Roles \subseteq Slots
  /\ Layers \subseteq Nat /\ MaxShowers \in Nat /\ MaxCalls \in Nat
  /\ NoSlice \notin Slices
  /\ \A b, c \in Xml : b.pid = c.pid /\ b # c => b.etaMax <= c.etaMin \/ c.etaMax <= b.etaMin
  /\ \A b \in Xml : (b.version >= 2 \/ b.pid = 211) /\ Binned(b.layers)
  /\ \A p \in Particles : p.ekin \in Nat
  /\ Answers \subseteq Seq(Int) /\ Before \subseteq Nat /\ Draws \subseteq Int

VARIABLES
  slice,     \* [pid, etaMin] of m_slice, or none
  stored,    \* the slice as written to a file
  param,     \* m_param: [version, sym, layers]
  pc,        \* where fillEnergy() is
  truth,     \* the particle
  asked,     \* history: the network asked, and the exponents of its label
  outputs,   \* the network's answer
  energy,    \* m_E: the layers that have an energy
  etot,      \* m_Etot
  einit,     \* Einit
  layer,     \* the layer whose hits are made
  vox,       \* vox
  bin,       \* <<ix, iy>> of the voxel
  given,     \* history: per layer, the energy of its hits
  hit,       \* the last hit
  showers, calls

ganVars == <<slice, stored, param, pc, truth, asked, outputs, energy, etot, einit, layer, vox, bin,
             given, hit, showers, calls>>
shower == <<truth, asked, outputs, energy, etot, einit, layer, vox, bin, given, hit, showers>>
vars == <<netVars, ganVars>>

NotStored == [slice |-> NoSlice, param |-> <<>>, nets |-> [r \in Roles |-> NoBuffer]]
NoHit == [layer |-> -1, ix |-> 0, iy |-> 0, r |-> 0, alpha |-> <<0, 1>>]
NotAsked == [role |-> "none", minExp |-> 0, maxExp |-> 0]

-----------------------------------------------------------------------------
\* InitialiseFromXML(): the bin whose eta range the middle is strictly inside,
\* of the particle itself, or of pions for other hadrons.
XmlPid(pid) == IF pid \in {22, 11} THEN pid ELSE 211
BinsFor(s) ==
  {b \in Xml : b.pid = XmlPid(s.pid) /\ b.etaMin < s.etaMin + 2 /\ s.etaMin + 2 < b.etaMax}

\* LoadGAN(): one network for pions and protons, two for other particles.
OneNet(pid) == pid \in {211, 2212}
RolesOf(pid) == IF OneNet(pid) THEN {"all"} ELSE {"high", "low"}
FileOf(s, role) ==
  [name |-> [stem |-> <<s.pid, s.etaMin, role>>, ext |-> "*"], text |-> Empty,
   bytes |-> Empty, form |-> "unknown"]
Loaded(s) == [r \in Roles |-> IF r \in RolesOf(s.pid) THEN Create(FileOf(s, r), r) ELSE NoNet]

\* initializeNetwork(): an exception of the factory leaves it at once.
InitializeNetwork(s) ==
  /\ pc = "idle" /\ slice = NoSlice /\ calls < MaxCalls
  /\ \E b \in BinsFor(s) : param' = [version |-> b.version, sym |-> b.sym, layers |-> b.layers]
  /\ slice' = s
  /\ LET new == Loaded(s) IN
       /\ thrown' = (\E r \in RolesOf(s.pid) : new[r] = NoNet)
       /\ obj' = [t \in Slots |->
                    IF t \notin Roles THEN obj[t]
                    ELSE IF t = "low" /\ new["high"] = NoNet THEN NoNet ELSE new[t]]
  /\ calls' = calls + 1
  /\ UNCHANGED <<tree, buffer, stored, pc, shower>>

\* The slice is written with its networks, and read back with them; where one
\* of them cannot be set up, reading ends in an exception.
SaveSlice ==
  /\ pc = "idle" /\ slice # NoSlice /\ calls < MaxCalls
  /\ stored' = [slice |-> slice, param |-> param, nets |-> [r \in Roles |-> Persisted(obj[r])]]
  /\ calls' = calls + 1
  /\ UNCHANGED <<netVars, slice, param, pc, shower>>

ReadBack(r) == IF stored.nets[r] = NoBuffer THEN NoNet ELSE Read(stored.nets[r], r)
RestoreSlice ==
  /\ pc = "idle" /\ stored # NotStored /\ calls < MaxCalls
  /\ slice' = stored.slice /\ param' = stored.param
  /\ obj' = [t \in Slots |-> IF t \in Roles THEN ReadBack(t) ELSE obj[t]]
  /\ thrown' = (\E r \in RolesOf(slice'.pid) : obj'[r] = NoNet)
  /\ calls' = calls + 1
  /\ UNCHANGED <<tree, buffer, stored, pc, shower>>

\* IsGanCorrectlyLoaded().
IsGanCorrectlyLoaded == \A r \in RolesOf(slice.pid) : obj[r] # NoNet

-----------------------------------------------------------------------------
\* GetNetworkOutputs(): which network, and which exponents its label has.
Electromagnetic(pid) == pid \in {22, 11, -11}
HighMomentum_FromSplit(p) == p >= 4096
HighMomentum(p) == p > 4096
RoleAsked(p) ==
  IF param.version = 1 \/ OneNet(slice.pid) THEN "all"
  ELSE IF p > 4096 THEN "high" ELSE "low"
Exponents(p) ==
  CASE Electromagnetic(slice.pid) -> IF HighMomentum(p) THEN <<12, 22>> ELSE <<6, 12>>
    [] slice.pid \in {211, -211}   -> <<8, 22>>
    [] slice.pid \in {2212, -2212} -> <<10, 22>>
    [] OTHER                      -> <<0, 0>>

\* The layers in the order of the map, and the voxels of one.
LayersBelow(l) == Cardinality({k \in DOMAIN param.layers : k < l})
Sorted ==
  [i \in 1 .. Cardinality(DOMAIN param.layers) |->
     CHOOSE l \in DOMAIN param.layers : LayersBelow(l) = i - 1]
RBins(l) == Len(param.layers[l].edges) - 1
Used(l) == RBins(l) > 1
Low(l, ix) == param.layers[l].edges[ix]
Up(l, ix) == param.layers[l].edges[ix + 1]

\* GetAlphaBinsForRBin(): 32 bins along alpha are merged to what the bin's
\* circumference over its width allows, in steps of a factor of two.
GetBinsInFours(bins) ==
  CASE bins < 4 -> 4 [] bins >= 4 /\ bins < 8 -> 8
    [] bins >= 8 /\ bins < 16 -> 16 [] OTHER -> 32
Around(l, ix) ==
  ((Low(l, ix) + Up(l, ix)) * (IF param.sym THEN 355 ELSE 710)) \div (226 * (Up(l, ix) - Low(l, ix)))
AlphaBins(l, ix) ==
  IF param.layers[l].alpha = 32 THEN GetBinsInFours(Around(l, ix)) ELSE param.layers[l].alpha
ToMerge(l, ix) ==
  IF param.layers[l].alpha = 32 THEN 32 \div AlphaBins(l, ix) ELSE 1

\* A layer with one bin in r has no voxels.  They are counted through the bins in
\* r of a layer, and through the layers.
InRBins(l) == [ix \in 1 .. RBins(l) |-> AlphaBins(l, ix)]
VoxelsIn(l) == IF Used(l) THEN SumUpTo(InRBins(l), RBins(l)) ELSE 0
InLayers == [i \in 1 .. Len(Sorted) |-> VoxelsIn(Sorted[i])]
FirstVoxel(l) == SumUpTo(InLayers, LayersBelow(l))
Voxels(l) == FirstVoxel(l) .. FirstVoxel(l) + VoxelsIn(l) - 1

-----------------------------------------------------------------------------
GanInit(start) ==
  /\ NetInit
  /\ slice = NoSlice /\ stored = NotStored /\ param = [version |-> 0, sym |-> FALSE, layers |-> <<>>]
  /\ pc = start /\ truth = (CHOOSE p \in Particles : TRUE) /\ asked = NotAsked /\ outputs = <<>>
  /\ energy = <<>> /\ etot = 0 /\ einit = 0
  /\ layer = 1 /\ vox = 0 /\ bin = <<1, 1>> /\ given = <<>> /\ hit = NoHit
  /\ showers = 0 /\ calls = 0

SetUpIsKept == UNCHANGED <<netVars, slice, stored, param, calls>>

\* A shower starts with a cleared state, to which what ran before may have
\* given an energy; an element of the chain for all bins may fail.  Without a
\* slice fillEnergy() follows a null pointer.
Start(particle, e) ==
  /\ pc = "idle" /\ showers < MaxShowers
  /\ truth' = particle /\ etot' = e
  /\ energy' = <<>> /\ given' = <<>> /\ hit' = NoHit /\ asked' = NotAsked /\ outputs' = <<>>
  /\ pc' \in {IF slice = NoSlice THEN "crashed" ELSE "fill", "fatal"}
  /\ showers' = showers + 1
  /\ UNCHANGED <<einit, layer, vox, bin>> /\ SetUpIsKept

NotLoaded ==
  /\ pc = "fill" /\ ~IsGanCorrectlyLoaded
  /\ pc' = "skipped"
  /\ UNCHANGED <<truth, asked, outputs, energy, etot, einit, layer, vox, bin, given, hit, showers>>
  /\ SetUpIsKept

\* The answer of the network: one value per output of the one node.
AskNetwork(answer) ==
  LET role == RoleAsked(truth.p)
      exps == Exponents(truth.p)
  IN  /\ pc = "fill" /\ IsGanCorrectlyLoaded
      /\ asked' = [role |-> role, minExp |-> exps[1], maxExp |-> exps[2]]
      /\ outputs' = answer
      /\ einit' = IF OnlyScale THEN etot ELSE truth.ekin
      /\ pc' = IF ~Computes(obj[role]) THEN "crashed"
               ELSE IF FoldSeq(+, 0, answer) < 0 THEN "skipped" ELSE "energies"
      /\ UNCHANGED <<truth, energy, etot, layer, vox, bin, given, hit, showers>>
      /\ SetUpIsKept

\* outputs.at() of a voxel, which throws where the network has no such output.
Has(v) == v < Len(outputs) /\ Number(v) \in OutputKeys(obj[asked.role])
Positive(l) == {v \in Voxels(l) : outputs[v + 1] > 0}
EnergyOf(l) ==
  [i \in 1 .. VoxelsIn(l) |->
     LET e == outputs[FirstVoxel(l) + i] IN IF e > 0 THEN einit * e ELSE 0]

\* First the energies of the layers; layers that have nothing are not set.  Where
\* the network lacks an output, those of the voxels before are there already.
Added(l) == {v \in Voxels(l) : (\A w \in 0 .. v : Has(w)) /\ outputs[v + 1] > 0}
FillEnergies ==
  /\ pc = "energies"
  /\ IF \E l \in DOMAIN param.layers : \E v \in Voxels(l) : ~Has(v)
     THEN /\ energy' = [l \in {k \in DOMAIN param.layers : Added(k) # {}} |->
                          MapThenSumSet(LAMBDA v : einit * outputs[v + 1], Added(l))]
          /\ pc' = "thrown"
     ELSE /\ energy' = [l \in {k \in DOMAIN param.layers : Positive(k) # {}} |->
                          SumUpTo(EnergyOf(l), VoxelsIn(l))]
          /\ pc' = "after"
  /\ etot' = MapThenSumSet(LAMBDA l : energy'[l], DOMAIN energy')
  /\ UNCHANGED <<truth, asked, outputs, einit, layer, vox, bin, given, hit, showers>>
  /\ SetUpIsKept

\* The chain for all bins behind the GAN; a failure there returns FCSFatal from
\* a function that returns a bool, which is false: the shower is skipped.
RunAfter ==
  /\ pc = "after"
  /\ \/ pc' = "layer" /\ layer' = 1 /\ vox' = 0
     \/ pc' = "skipped" /\ UNCHANGED <<layer, vox>>
  /\ UNCHANGED <<truth, asked, outputs, energy, etot, einit, bin, given, hit, showers>>
  /\ SetUpIsKept

-----------------------------------------------------------------------------
\* The second pass over the voxels.  A layer with one bin in r is not used, and
\* for the others the chain of the layer is initialised, which may fail.
AtLayer == Sorted[layer]
StartLayer ==
  /\ pc = "layer" /\ layer <= Len(Sorted)
  /\ IF Used(AtLayer)
     THEN /\ bin' = <<1, 1>> /\ UNCHANGED layer
          /\ pc' \in {"voxel", "skipped"}
     ELSE layer' = layer + 1 /\ UNCHANGED <<pc, bin>>
  /\ UNCHANGED <<truth, asked, outputs, energy, etot, einit, vox, given, hit, showers>>
  /\ SetUpIsKept

\* The number of hits of a voxel, along alpha and r.
Root(n) == CHOOSE k \in 0 .. n : k * k <= n /\ (k + 1) * (k + 1) > n
AtLeast1(n) == IF n < 1 THEN 1 ELSE n
AtMost10(n) == IF n > 10 THEN 10 ELSE n
Fine(l) == l \in {1, 5}
AlongAlpha(l, ix) ==
  IF param.layers[l].alpha = 1
  THEN (Up(l, ix) * 710) \div (113 * (IF Fine(l) THEN 1 ELSE 5)) + 1
  ELSE Arc[l]
HitsIn(l, ix, e) ==
  IF Electromagnetic(truth.pdg) THEN LET n == Root(AtLeast1((e * truth.ekin) \div 10)) IN <<n, n>>
  ELSE LET n == <<AlongAlpha(l, ix), Up(l, ix) - Low(l, ix)>>
       IN  IF Fine(l) THEN n ELSE [i \in 1 .. 2 |-> AtMost10(AtLeast1(n[i]))]

\* The radius of a hit: on a grid, or drawn from the fit of the bin until one is
\* inside the bin, and from the grid if none of many is.  In units of 1/(n + 1).
InBin(l, ix, r) == Low(l, ix) <= r /\ r <= Up(l, ix)
Radii(l, ix, ir, n) ==
  {Low(l, ix) * (n + 1) + (Up(l, ix) - Low(l, ix)) * ir}
    \cup (IF param.version > 1 THEN {r * (n + 1) : r \in {d \in Draws : InBin(l, ix, d)}} ELSE {})

\* The angle of a hit, in bins of the alpha axis and units of 1/(n + 1): the
\* merged bins begin at lowEdgeIndex.
Angle(l, ix, iy, ia, n) == (iy - 1) * ToMerge(l, ix) * (n + 1) + ToMerge(l, ix) * ia

NextBin(l, b) ==
  IF b[2] < AlphaBins(l, b[1]) THEN <<b[1], b[2] + 1>> ELSE <<b[1] + 1, 1>>
\* The voxel counted up at the end of its turn, also where nothing is in it.
Advance_IfHit(e) == IF e > 0 THEN 1 ELSE 0
Advance(e) == 1

Moves(e) ==
  /\ vox' = vox + Advance(e)
  /\ bin' = NextBin(AtLayer, bin)
  /\ IF bin'[1] > RBins(AtLayer)
     THEN pc' = "layer" /\ layer' = layer + 1 ELSE UNCHANGED <<pc, layer>>

SkipVoxel ==
  /\ pc = "voxel" /\ outputs[vox + 1] <= 0
  /\ Moves(outputs[vox + 1])
  /\ UNCHANGED <<truth, asked, outputs, energy, etot, einit, given, hit, showers>>
  /\ SetUpIsKept

\* All hits of a voxel, of which hit is any one; each runs through the chain of
\* the layer, which ends the shower if an element fails.
EnergyOfHits(e, n) == IF n[1] > 0 /\ n[2] > 0 THEN einit * e ELSE 0
FillVoxel ==
  LET e == outputs[vox + 1]
      n == HitsIn(AtLayer, bin[1], e)
      given0 == IF AtLayer \in DOMAIN given THEN given[AtLayer] ELSE 0
  IN  /\ pc = "voxel" /\ e > 0
      /\ IF n[1] <= 0 \/ n[2] <= 0 THEN hit' = NoHit
         ELSE \E ir \in {0, n[2] - 1}, ia \in {1, n[1]} :
                \E r \in Radii(AtLayer, bin[1], ir, n[2]) :
                  hit' = [layer |-> AtLayer, ix |-> bin[1], iy |-> bin[2],
                          r |-> <<r, n[2] + 1>>,
                          alpha |-> <<Angle(AtLayer, bin[1], bin[2], ia, n[1]), n[1] + 1>>]
      /\ given' = [l \in DOMAIN given \cup {AtLayer} |->
                     IF l = AtLayer THEN given0 + EnergyOfHits(e, n) ELSE given[l]]
      /\ \/ Moves(e)
         \/ pc' = "skipped" /\ UNCHANGED <<vox, bin, layer>>
      /\ UNCHANGED <<truth, asked, outputs, energy, etot, einit, showers>>
      /\ SetUpIsKept

\* The fractions of all layers of the geometry: E(layer) throws for a layer
\* that has no energy, unless there is none at all.
Fractions == etot = 0 \/ Layers \subseteq DOMAIN energy
SetFractions ==
  /\ pc = "layer" /\ layer > Len(Sorted)
  /\ pc' = IF Fractions THEN "done" ELSE "thrown"
  /\ UNCHANGED <<truth, asked, outputs, energy, etot, einit, layer, vox, bin, given, hit, showers>>
  /\ SetUpIsKept

\* The caller goes on to the next particle.
Return ==
  /\ pc \in {"done", "skipped"}
  /\ pc' = "idle"
  /\ UNCHANGED shower /\ SetUpIsKept

FillEnergy ==
  \/ NotLoaded \/ FillEnergies \/ RunAfter \/ StartLayer \/ SkipVoxel
  \/ FillVoxel \/ SetFractions \/ Return
GanNext ==
  \/ \E s \in Slices : InitializeNetwork(s)
  \/ SaveSlice \/ RestoreSlice
  \/ \E p \in Particles, e \in Before : Start(p, e)
  \/ \E a \in Answers : AskNetwork(a)
  \/ FillEnergy

GanSpec == GanInit("idle") /\ [][GanNext]_vars

-----------------------------------------------------------------------------
\* A slice that counts as loaded has the networks its files describe, however
\* often it was saved and read back in between.
LoadedFromItsFiles ==
  slice # NoSlice /\ IsGanCorrectlyLoaded =>
    \A r \in RolesOf(slice.pid) :
      LET file(ext) == [stem |-> <<slice.pid, slice.etaMin, r>>, ext |-> ext]
      IN  obj[r].net = Disk[IF file("onnx") \in DOMAIN Disk THEN file("onnx") ELSE file("json")]

\* The network that is asked exists, was trained for the momentum of the
\* particle, and gets its label in the range it was trained with.
AskedForItsMomentum ==
  asked.role # "none" =>
    /\ pc # "crashed"
    /\ 2 ^ asked.minExp <= truth.p /\ truth.p <= 2 ^ asked.maxExp
    /\ asked.role = "low" => asked.maxExp = 12
    /\ asked.role = "high" => asked.minExp = 12

\* At the end the hits of a layer carry the energy that was given to the layer,
\* in the fine layers, where a hadron may get no hits in a bin, not more.
HitsCarryTheLayer ==
  /\ pc = "done" =>
       \A l \in DOMAIN energy :
         LET g == IF l \in DOMAIN given THEN given[l] ELSE 0
         IN  IF Fine(l) /\ ~Electromagnetic(truth.pdg) THEN g <= energy[l] ELSE g = energy[l]
  /\ pc \in {"layer", "voxel", "done"} => DOMAIN given \subseteq DOMAIN energy

\* A hit is at a radius and an angle inside the bin of its voxel, whether its
\* radius is drawn or on the grid, and however many bins in alpha are merged.
HitsAreInTheirBin ==
  hit # NoHit =>
    /\ Low(hit.layer, hit.ix) * hit.r[2] <= hit.r[1]
    /\ hit.r[1] <= Up(hit.layer, hit.ix) * hit.r[2]
    /\ LET wide == param.layers[hit.layer].alpha * hit.alpha[2]
       IN  /\ (hit.iy - 1) * wide < hit.alpha[1] * AlphaBins(hit.layer, hit.ix)
           /\ hit.alpha[1] * AlphaBins(hit.layer, hit.ix) < hit.iy * wide

\* The network asked is the one whose files there were, for this particle.
RightNetworkAsked == LoadedFromItsFiles /\ AskedForItsMomentum

\* The hits are those of the voxels: their energy adds up, and their place is
\* the voxel's.
HitsAreOfTheirVoxels == HitsCarryTheLayer /\ HitsAreInTheirBin
=============================================================================
