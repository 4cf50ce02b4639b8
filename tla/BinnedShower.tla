---------------------------- MODULE BinnedShower ----------------------------
(***************************************************************************)
(* Showers from a library of events: TFCSBinnedShowerBase, TFCSBinnedShower *)
(* and the state they keep in TFCSSimulationState between simulate(), which *)
(* picks an event and sets the energies of the layers, and simulate_hit(),  *)
(* which the hit chain of each layer calls until the layer is filled.       *)
(*                                                                          *)
(* An event is a sequence of layers, a layer a sequence of voxel energies,  *)
(* as fractions of the incident energy in some small unit.  What a hit's    *)
(* position is drawn from is left out, and so is how events are matched:    *)
(* any event may be the best match.                                         *)
(***************************************************************************)
EXTENDS Sums, Sequences, FiniteSets

CONSTANTS
  NLayers,      \* m_geo->n_layers()
  Libraries,    \* event libraries the object may be set up with
  FileLibrary,  \* what the HDF5 file holds
  Energies,     \* incident energies
  Requests,     \* values of the EventNr a caller may ask for
  OnlyScale,    \* the bit kOnlyScaleEnergy
  Epsilon,      \* fractions up to this one make no hits
  HitEnergy,    \* m_default_hit_energy
  MaxHits,      \* m_max_hits_per_voxel
  Scale,        \* a multiple of all numbers up to MaxHits
  MaxShowers,   \* bound on the showers simulated
  Prepared,     \* whether the caller puts null pointers into a new state
  Configures    \* the library is changed, saved and restored between showers

ASSUME ShowerAssumption ==
  /\ NLayers \in Nat \ {0} /\ MaxShowers \in Nat
  /\ HitEnergy \in Nat \ {0} /\ MaxHits \in Nat \ {0} /\ Epsilon \in Nat
  /\ Scale \in Nat \ {0} /\ \A n \in 1 .. MaxHits : Scale % n = 0
  /\ Energies \subseteq Nat /\ Requests \subseteq Int
  /\ {OnlyScale, Configures} \subseteq BOOLEAN /\ Prepared \subseteq BOOLEAN
  /\ Libraries \cup {FileLibrary} \subseteq Seq(Seq(Seq(Int)))

VARIABLES
  library,   \* m_eventlibrary
  path,      \* m_hdf5_file is set
  saved,     \* the object as last written to a file
  matching,  \* m_use_event_matching
  aux,       \* the pointers kept in m_AuxInfo
  live,      \* what was allocated and not yet deleted
  event,     \* what BSEventData points to
  einit,     \* BSEinit
  energy,    \* m_E
  total,     \* m_Etot
  pc, layer, \* where the shower is
  idx,       \* hit.idx()
  sum,       \* sumEhit, in units of 1/Scale
  got,       \* hits each voxel of the layer has got
  picked,    \* history: the event picked, and what was asked for
  showers    \* showers simulated

setup == <<library, path, saved, matching>>
store == <<aux, live, event, einit>>
energies == <<energy, total>>
hits == <<idx, sum, got>>
vars == <<setup, store, energies, pc, layer, hits, picked, showers>>

Layers == 1 .. NLayers
Keys == {"BSEventData", "BSNHits", "BSELayer"}
Unset == -1
Null == 0
NoRequest == [some |-> FALSE, nr |-> 0]
Nothing == [index |-> 0, request |-> NoRequest]

-----------------------------------------------------------------------------
\* compute_n_hits_and_elayer(): the hits of a voxel with fraction e ...
Clamped(n) == IF n < 1 THEN 1 ELSE IF n > MaxHits THEN MaxHits ELSE n
HitsOf(e, e0) == IF e > Epsilon THEN Clamped((e * e0) \div HitEnergy) ELSE 0

\* ... added up over the voxels of a layer, ...
PerVoxel(voxels, e0) == [v \in 1 .. Len(voxels) |-> HitsOf(voxels[v], e0)]
NHits(voxels, e0) ==
  [v \in 1 .. Len(voxels) |-> SumUpTo(PerVoxel(voxels, e0), v)]

\* ... and the energy of the layer.
Counted(e) == e > Epsilon
LayerEnergy(voxels, e0) ==
  SumUpTo([v \in 1 .. Len(voxels) |-> IF Counted(voxels[v]) THEN voxels[v] * e0 ELSE 0],
          Len(voxels))

\* get_layer_energy(): 0 for a layer the event does not have.
EnergyIn(ev, l, e0) == IF l <= Len(ev) THEN LayerEnergy(ev[l], e0) ELSE 0

-----------------------------------------------------------------------------
\* delete_event() deletes what the three keys point to.
Deleted_NotEnergies == {"BSEventData", "BSNHits"}
Deleted == Keys
Kept == live \ {<<k, aux[k]>> : k \in Deleted}

\* get_event(): the event with the number asked for, if events are matched by
\* their number and the library has it, and otherwise any of them.
InLibrary_OrNext(nr) == nr >= 0 /\ nr <= Len(library)
InLibrary(nr) == nr >= 0 /\ nr < Len(library)
Pick(request) ==
  IF matching /\ request.some /\ InLibrary(request.nr)
  THEN {request.nr} ELSE 0 .. Len(library) - 1

At(n) == IF 0 <= n /\ n < Len(library) THEN library[n + 1] ELSE <<>>

\* simulate() with the incident energy e0 and an event of the library.
StartEnergy(ekin) == IF OnlyScale THEN total ELSE ekin
TotalAfter(E) == SumUpTo(E, NLayers)

Init ==
  /\ library \in Libraries /\ path = FALSE
  /\ saved = [path |-> FALSE, library |-> <<>>]
  /\ matching \in BOOLEAN
  /\ \E p \in Prepared : aux = [k \in Keys |-> IF p THEN Null ELSE Unset]
  /\ live = {}
  /\ event = <<>> /\ einit = 0
  /\ energy = [l \in Layers |-> 0] /\ total = 0
  /\ pc = "idle" /\ layer = 1
  /\ idx = 0 /\ sum = 0 /\ got = <<>>
  /\ picked = Nothing /\ showers = 0

\* The caller clears the state, and what runs before may set the energy.
Clear ==
  /\ pc = "idle" /\ showers < MaxShowers
  /\ energy' = [l \in Layers |-> 0]
  /\ total' \in Energies \cup {0}
  /\ pc' = "cleared"
  /\ UNCHANGED <<setup, store, layer, hits, picked, showers>>

Fresh == \E k \in Keys : aux[k] = Unset

\* delete_event() reads each key with at(), which throws if there is none.
SimulateThrows ==
  /\ pc = "cleared" /\ Fresh
  /\ pc' = "thrown"
  /\ UNCHANGED <<setup, store, energies, layer, hits, picked, showers>>

SimulateNothing ==
  /\ pc = "cleared" /\ ~Fresh /\ library = <<>>
  /\ live' = Kept
  /\ aux' = [k \in Keys |-> Null]
  /\ energy' = [l \in Layers |-> 0] /\ total' = 0
  /\ pc' = "layer" /\ layer' = 1
  /\ showers' = showers + 1
  /\ UNCHANGED <<setup, event, einit, hits, picked>>

Simulate(ekin, request) ==
  /\ pc = "cleared" /\ ~Fresh /\ library # <<>>
  /\ \E n \in Pick(request) :
       /\ picked' = [index |-> n, request |-> request]
       /\ event' = At(n)
  /\ einit' = StartEnergy(ekin)
  /\ aux' = [k \in Keys |-> showers + 1]
  /\ live' = Kept \cup (Keys \X {showers + 1})
  /\ energy' = [l \in Layers |-> EnergyIn(event', l, einit')]
  /\ total' = TotalAfter(energy')
  /\ pc' = "layer" /\ layer' = 1
  /\ showers' = showers + 1
  /\ UNCHANGED <<setup, hits>>

-----------------------------------------------------------------------------
\* The hit chain of the layer: nothing to do without energy, otherwise hits
\* until their energies add up to the energy of the layer.
SkipLayer ==
  /\ pc = "layer" /\ layer <= NLayers /\ energy[layer] = 0
  /\ layer' = layer + 1
  /\ UNCHANGED <<setup, store, energies, pc, hits, picked, showers>>

StartLayer ==
  /\ pc = "layer" /\ layer <= NLayers /\ energy[layer] # 0
  /\ pc' = "hit"
  /\ idx' = 0 /\ sum' = 0
  /\ got' = [v \in 1 .. Len(event[layer]) |-> 0]
  /\ UNCHANGED <<setup, store, energies, layer, picked, showers>>

\* get_energy_index(): the first voxel whose hits are not all made; behind the
\* last hit an error, and the first voxel.
Passed_Strictly(n, i) == n < i
Passed(n, i) == n <= i
Voxel(voxels, e0, i) ==
  LET n == NHits(voxels, e0)
      v == Cardinality({w \in 1 .. Len(voxels) : Passed(n[w], i)}) + 1
  IN  IF v > Len(voxels) THEN 1 ELSE v

\* get_hit_position_and_energy(), where x / 0, infinity, is left at 0.
EnergyOfHit(voxels, e0, v) ==
  LET n == HitsOf(voxels[v], e0)
  IN  IF n = 0 THEN 0 ELSE (voxels[v] * e0 * Scale) \div n

SimulateHit ==
  LET v == Voxel(event[layer], einit, idx)
  IN  /\ pc = "hit"
      /\ sum' = sum + EnergyOfHit(event[layer], einit, v)
      /\ got' = [got EXCEPT ![v] = @ + 1]
      /\ idx' = idx + 1
      /\ pc' = IF sum' < energy[layer] * Scale THEN "hit" ELSE "filled"
      /\ UNCHANGED <<setup, store, energies, layer, picked, showers>>

NextLayer ==
  /\ pc = "filled"
  /\ pc' = "layer" /\ layer' = layer + 1
  /\ UNCHANGED <<setup, store, energies, hits, picked, showers>>

EndShower ==
  /\ pc = "layer" /\ layer > NLayers
  /\ pc' = "idle"
  /\ UNCHANGED <<setup, store, energies, layer, hits, picked, showers>>

-----------------------------------------------------------------------------
\* The set-up of the object, between showers.
Between == pc = "idle" /\ Configures
SameState == UNCHANGED <<store, energies, pc, layer, hits, picked, showers>>

SetEventLibrary(lib) ==
  /\ Between
  /\ library' = lib
  /\ UNCHANGED <<path, saved, matching>> /\ SameState

LoadEventLibrary ==
  /\ Between
  /\ library' = FileLibrary
  /\ UNCHANGED <<path, saved, matching>> /\ SameState

SetHdf5Path ==
  /\ Between
  /\ path' \in BOOLEAN
  /\ UNCHANGED <<library, saved, matching>> /\ SameState

SetEventMatching ==
  /\ Between
  /\ matching' = ~matching
  /\ UNCHANGED <<library, path, saved>> /\ SameState

\* Streamer(): a library that comes from a file is not written but dropped, ...
Written == IF path THEN <<>> ELSE library
Save ==
  /\ Between
  /\ library' = Written
  /\ saved' = [path |-> path, library |-> Written]
  /\ UNCHANGED <<path, matching>> /\ SameState

\* ... and loaded again when the object is read.
Restore ==
  /\ Between
  /\ path' = saved.path
  /\ library' = IF saved.path THEN FileLibrary ELSE saved.library
  /\ UNCHANGED <<saved, matching>> /\ SameState

SetUp ==
  \/ LoadEventLibrary \/ SetHdf5Path \/ SetEventMatching \/ Save \/ Restore
  \/ \E lib \in Libraries : SetEventLibrary(lib)

RequestSet == {NoRequest} \cup [some : {TRUE}, nr : Requests]
Proceed ==
  \/ SimulateThrows \/ SimulateNothing
  \/ \E e \in Energies, r \in RequestSet : Simulate(e, r)
  \/ SkipLayer \/ StartLayer \/ SimulateHit \/ NextLayer \/ EndShower

Next == Clear \/ Proceed \/ SetUp

Spec == Init /\ [][Next]_vars

-----------------------------------------------------------------------------
\* However often a state is used again, what is allocated is exactly what its
\* keys point to: nothing of an earlier event leaks, nothing dangles, and the
\* hits and energies are those of the event they are used with.
OneEventAlive ==
  /\ live = {<<k, aux[k]>> : k \in {j \in Keys : aux[j] > 0}}
  /\ \A j, k \in Keys : aux[j] = aux[k]

\* A layer with energy, which the hit chain will simulate, has an event with
\* that layer, and hits in it: neither at(layer_index) nor back() in
\* get_n_hits() goes wrong.
LayersWithEnergyHaveHits ==
  \A l \in Layers : energy[l] # 0 =>
    /\ aux["BSNHits"] > 0
    /\ l <= Len(event) /\ event[l] # <<>>
    /\ NHits(event[l], einit)[Len(event[l])] > 0

\* Filling a layer gives every voxel the hits it is worth, none to a voxel too
\* small for any, which would be a division by zero, and ends when all are made.
VoxelsGetTheirHits ==
  pc \in {"hit", "filled"} =>
    LET worth == PerVoxel(event[layer], einit)
    IN  /\ \A v \in DOMAIN got : got[v] <= worth[v]
        /\ pc = "filled" => got = worth /\ sum = energy[layer] * Scale

\* E() is the sum over the layers, whatever was in the state before.
TotalIsSumOfLayers ==
  pc \in {"layer", "hit", "filled"} => total = SumUpTo(energy, NLayers)

\* The event comes from the library as it is at that time, and is the one asked
\* for by its number where events are matched by number and it is there.
PicksFromLibrary ==
  [][picked' # picked =>
       /\ picked'.index < Len(library)
       /\ matching /\ picked'.request.some
            /\ picked'.request.nr \in 0 .. Len(library) - 1
          => picked'.index = picked'.request.nr]_vars

\* The event is spent as it was divided: there are hits where there is energy,
\* each voxel gets its own, and the total is what the layers have.
EventIsSpent == LayersWithEnergyHaveHits /\ VoxelsGetTheirHits /\ TotalIsSumOfLayers
=============================================================================
