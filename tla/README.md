# FastCaloSim: a TLA+ verification development

FastCaloSim simulates the response of a calorimeter to a particle without
tracking the shower: a tree of *parametrizations* draws the energies of the
layers, then fills every layer with *hits* that are matched to cells.  The
particle is brought to the calorimeter by a Geant4 transport tool that the
threads of a job share, and extrapolated to the layers of a geometry that they
share too.

This directory holds TLA+ modules translated from the C++ sources, the
configurations with which TLC checks them, and proofs for TLAPS.  Paths below
are relative to the repository (`source/...`, `include/...`); `PROJECT.json`
names the file and the lines behind every definition.

    tlc -workers 2 -config HitChain.cfg MCHitChain      # one run
    tlapm Hits_proofs.tla                       # one proof module

## 1. Inventory

Nearly everything in the library is sequential: one thread simulates one shower
by a deep recursion of `simulate()` and `simulate_hit()` calls that share one
`TFCSSimulationState`.  What is hard is therefore protocol and state: what a
call leaves in the state for the next one, retries in nested loops, loops that
end only if the numbers cooperate, structures built by sequences of calls and
saved half-way, tables whose integers round.  The transport tool and the
geometry are the parts that several threads enter.

| Component | State it keeps | Operations | Talks to | What makes it correct | Module |
|---|---|---|---|---|---|
| Hit chain, fixed hit chain (`TFCSLateralShapeParametrization[Fixed]HitChain`) | locals of the loop; the energy-sum aux-info, E(layer), E() and the cells in the state | `simulate`, `init_hit`, `check_all_hits_simulated` | its elements, by `simulate_hit` with a hit by reference and a status; the state | what it counts is what lies in the cells; a layer is closed when it is full and not later; it returns | `HitChain`, `LayerFill` |
| Fluctuation chain (`...FluctChain`) | sums of hit energies and of their squares | `simulate` | as above | it stops at the fluctuation asked for, of what was deposited | `FluctChain` |
| Parametrization chains (`TFCSParametrizationChain`, `...BinnedChain`, `...PDGIDSelectChain`) | `m_chain`, `m_bin_start`; the locals of nested calls | `simulate`, `simulate_and_retry` | other parametrizations, recursively; a status comes back | success means that everything selected ran, in order; a fatal status ends everything; retries end | `ParamChain` |
| Chains that select by a value (`...FloatSelectChain`, `EkinSelect`, `EtaSelect`, `AbsEtaSelect`, `EbinChain`) | `m_chain`, `m_bin_start`, `m_bin_low_edge` | `push_back_in_bin`, `push_before_first_bin`, `push_back`, `val_to_bin`, `get_bin`, copy | read by the chains above | the bins stay a partition, an element runs for the values it was added for, a random choice is between sensible neighbours | `SelectChain` |
| Base, placeholder, duplicates (`TFCSParametrizationBase`), ranges and streaming of chains | the tree; its ranges; a file | `RemoveDuplicates`, `FindDuplicates`, `recalc`, `Streamer` | every parametrization | a shared subtree is deleted once; a file gives back the tree that was written | `ParamTree` |
| Simulation state (`TFCSSimulationState`) | cells, E(), E(layer), aux-info | `deposit`, `set_E`, `clear`, `DoAuxInfoCleanup` | everybody | no value of an earlier shower is used | `SimState`, `Shower` |
| Energy parametrizations (interpolations, bins, PCA) | tables | `simulate` | the state | energies sum to the total; a retry changes nothing | `EnergyParam`, `Shower` |
| Voxel covariance, extrapolation weights, centre positions, renormalization | pointers and values in aux-info | `simulate`, `simulate_hit`, `CleanAuxInfo` | the state, a network | made and deleted once, used for the shower they were made for; cells add up to E(layer) | `LayerShape`, `Shower` |
| Binned shower (`TFCSBinnedShower[Base]`) | event library; in the state: pointers to the event, its hits and its energies | `simulate`, `simulate_hit`, set-up, `Streamer` | called by the chains and by the hit chain; the state; an HDF5 file | one event alive at a time; the hits match the energy | `BinnedShower` |
| ONNX shower, `TFCSMLCalorimeterSimulator` | a network, layers and sub-bins of its voxels; the event in the state | as above, with retries on NaN | the network | a usable event or an empty one; hits are distributed as the average showers | `MLShower` |
| GAN showers (`TFCSEnergyAndHitGANV2`, `TFCSGANEtaSlice`, `TFCSGANXMLParameters`) | a slice with its networks | `initializeNetwork`, `fillEnergy`, `simulate`, `Streamer` | networks; the chains of its bins | the right network is asked; hits match the voxels | `GanShower` |
| Networks and handlers (`TFCSNetworkFactory`, `TFCSONNXHandler`, `TFCS*LWTNNHandler`) | a network and its description | `create`, copy, `deleteAllButNet`, `writeNetToTTree`, `Streamer`, `getOutputLayers` | ROOT files, ONNX Runtime, LWTNN | a handler that exists can compute | `NetworkHandlers` |
| Hit shapes, weights, phi modulation, wiggle | histograms, parallel vectors of ranges | `simulate_hit`, `load_phi_modulation` | hit chain, cell mapping | energy is scaled as drawn, a hit lies where the shape says | `HitShapes` |
| Functions and histograms | compact tables | `Initialize`, `rnd_to_fct`, fits | parametrizations | draws follow the contents; the inverse is in the right piece | `HistFunctions`, `FitFunctions` |
| Geometry (`CaloGeo`, `CellStore`, `RTreeQuery`) | memory-mapped cells and trees, a cell per thread | `build`, `load`, `get_cell` | cell mapping, extrapolation; threads; a disk | the query finds the cell the position is in | `CaloGeo` |
| Extrapolation (`FastCaloSimCaloExtrapolation`, `TFCSExtrapolationState`) | a point per layer and depth | `extrapolate`, `clear` | geometry | the points are where the path is | `CylinderPath`, `Extrapolation` |
| Transport (`G4CaloTransportTool`, `ThreadLocalHolder`) | world, once-flag, a propagator per thread | `initializeGeometry`, `initializePropagator`, `transport`, setters, destructor | Geant4; threads | one world, one propagator per thread, all deleted, calls return | `CaloTransport` |
| Logging, particle data, parameter tool, lateral shape tuning, regression functions | - | - | - | numerics or records | - |

Behaviours that are hard to test, each with its line and the properties that
cover it, are the `hazards` of `PROJECT.json`.  They fall into six groups:
values and pointers kept in a state from one call, or one shower, to the next;
nested retries; loops whose end depends on the hits drawn; objects copied,
stripped, saved and restored in the middle of their set-up; integer tables at
their limits; threads that enter the transport tool or the geometry in any
order, and a build that is interrupted.

## 2. Modules

`M.tla` is a component; `MCM.tla` gives the constants values for TLC (a few
serve several components: `MCShower` for `SimState`, `EnergyParam`,
`LayerShape`; `MCBinnedShower` for `MLShower`; `MCExtrapolation` for `CaloGeo`
and `CylinderPath`; `MCNetworks` for `NetworkHandlers` and `GanShower`;
`MCShapes` for `HistFunctions`, `FitFunctions` and `HitShapes`).  `M_proofs.tla`
extends `M` with theorems; `Hits_proofs` has those about `HitChain` with the
refinement of `LayerFill`, and those about the three modules of `Shapes`,
`BinnedShower_proofs` also those about `MLShower`, `Networks_proofs` those about
both modules of networks, `Chains_proofs` those about `ParamChain` and
`FluctChain`, and `Calorimeter_proofs` those about `CaloTransport` and `CaloGeo`.
`Shapes` is the module in which one function or one hit is taken at a time;
`Sums` has the sum over the first entries of a sequence, which several use.

Where components interact, a module holds both sides.  `HitChain` runs chain,
elements and the state they share, layer after layer.  `BinnedShower` runs
`simulate()` and the hit loops that call `simulate_hit()` afterwards, over
several showers on one state, and `MLShower` puts the network in the place of
the library behind the same base class.  `ParamChain` runs chains inside chains.
`Shower` runs a particle's whole list of parametrizations over `SimState`, with
`EnergyParam` and `LayerShape` saying what each does to it.  `GanShower` sets up
and asks the handlers of `NetworkHandlers`.  `Extrapolation` asks a `CaloGeo`
other threads use meanwhile.  `CaloTransport` runs threads, tool and holder.

Where a part has several properties that say one thing together, they are named
conjuncts of one: `CountsAndTotals == FixedHitCount /\ NoOvershoot /\
TotalFollowsLayers`, and so on.

### HitChain

One step is one element of `m_chain` on one hit, or the end of an attempt.
`pc`, `cs`, `pos`, `idx`, `hitE`, `sumE`, `ifail`, `retry` are the locals of
`simulate()`; `layerE`, `totalE`, `hasSum`/`auxSum`, `deposit` the parts of the
state it uses.  `Setup` is everything between the read of the layer's energy
and the loop; `ElementSuccess`, `ElementFatal` and `ElementRetry` are the
statuses an element returns, with what that kind of element does to the hit;
`HitDone` counts the hit, applies the limit on hits and calls
`check_all_hits_simulated()`, of which `CheckPlain` and `CheckFixed` are the two
versions; which class runs is chosen at the start (`fixed`).  A retried attempt
calls the check too, as the code does.  Only the last element of a chain matches
a hit to a cell (`MapLast`), as in every chain the repository assembles.

Energies are integers.  The energy of a hit is E / (maxWeight * nhits) in the
code; the module draws the hit number and the energy of a hit and multiplies, so
every division is exact.  What rounding does to the sums is thereby left out.

### FluctChain

The loop ends when `error2 / sumE^2` is at most `sigma2`, which is compared by
cross-multiplication.  `Setup` raises a `sigma2` below `MinSigma`, the 1e-8 of
the code, to it, so that also an answer of 0 lets the loop end.  `SquareBound` stops the exploration when the sum of the
squares gets large.  A loop that met the bound would stand still there and so
violate the liveness property: that it holds shows that the loop returns before.
As above, the element that matches a hit to a cell is the last.

### ParamChain

`stack` is the call stack: a frame holds the locals of one `simulate()` and of
the `simulate_and_retry()` it is in.  The tree, the kind of each chain, its
flags, its bins and the statuses each leaf may return are constants, so that the
theorems hold for every tree.  A leaf returns any status of its set: `FCSFatal`,
`FCSSuccess` or `FCSRetry + n`.  `ok` and `fatal` are history.  `Repeatable` is
what a chain that starts over runs again: the least set with its elements and,
for a chain in it, that chain's elements.  That a leaf outside it runs once takes
a tree in which every parametrization hangs once (`EachOnce`).  `StartPass`
keeps the status of the pass before, as `TFCSParametrizationBinnedChain` does;
`called` says whether a pass has simulated anything.

### SelectChain

`chain`, `start` and `edges` are the three vectors; `place` is history: where
each element was asked to go.  `PushRange` has one action for each case
`push_back_in_bin(param, low, up)` distinguishes; `Shifted` and `Inserted` are
the loop that moves the bins behind an insertion.  A copy (`Copy`) loses the
edges; reading behind the edge vector may give any value (`ValToBinReading`).
`GetBin` is `get_bin()` of the classes, for the kinetic energy with the random
choice between a bin and its `Neighbour`; `SharesBetweenNominals`
compares the share of random numbers that lead to each bin with the way the
particle has gone between the two nominal energies.

### ParamTree

Objects are numbered, `kids` is the tree as `size()` and `operator[]` show it,
and two daughters may be the same object.  `RemoveDuplicates()` is taken one
search, one replacement and one deletion at a time, so that every intermediate
tree is a state.  `range` is what `recalc()` computes.  Writing to a file is done
whole or with the daughters of some chains as objects of their own, found again
by their name; `RemoveNameTitle` takes the names away, which is how a placeholder comes to
be left.  `push_back()` may give a daughter to any chain, also to one that hangs
in others already; `recalc()` goes no further up than the chain itself, and
`stale` is history: the chains whose range was left behind by that.  `SameSimulation` compares what a traversal runs with what it ran at
the start, and `MatchesWhatDaughtersMatch` the computed ranges with the
particles that all, or some, daughters accept, for every chain that is not
stale.

### SimState, EnergyParam, LayerShape, Shower

`SimState` keeps which energies and fractions exist, as an unset one makes
`E(layer)` throw, and the auxiliary values with the type that was written: a
key read as another member of the union would show.  `EnergyParam` and
`LayerShape` have an operator for each parametrization's `simulate()` (and
`simulate_hit()` where hits read its values); `Shower` has an action for each,
and the list of a particle's parametrizations as data.  A shower ends done,
fatal or thrown; the next begins with a new state or the old one, cleared as
`clear()` clears it.  Objects that `VoxelHistoLateralCovarianceFluctuations`
makes are on a `heap` with the shower they are for.  What the PCA draws, how it
shares energy and whether a draw is rejected is a table; energies are integers
and logarithms of the few energies there are a function (`Log`).  The centre
of a layer (`PredictedCenter`) lies at the boundary in all its coordinates when
any of the averages is not finite.

### BinnedShower and MLShower

An event is a sequence of layers of voxel energies.  `aux` holds which shower's
allocation each of the three keys points to, `live` what is allocated and not
yet deleted.  `Simulate` is the whole of `TFCSBinnedShowerBase::simulate()`:
deletion of the old event, choice of the new one, energies of the layers and the
total.  `SimulateHit` is one turn of the hit loop with the walk over the voxels.
The best match of an event is any event; a request by number that the library
has is honoured.  Sums are kept in units of 1/`Scale`, a multiple of all hit
numbers, so that the sum over a voxel's hits is exact; in the code the hit
energies are floats, whose rounding may cost or add a last hit.  An infinite hit
energy (a voxel with no hits) counts as 0: `VoxelsGetTheirHits` says that it
never is asked for.

`MLShower` extends it with the object of the other class.  `Ask` and `AskAgain`
are one answer of the network, with NaN or without, `TakeAnswer` cuts it into
layers by the boundaries of the meta data, `Quarter` is where a hit goes; what an
average shower of an energy says is data, and the random numbers are the
midpoints of `Grid` intervals.  In the layer whose density is linear in the
radius, `Inner` is the share of draws for which the inverse of the distribution
is below the middle.  An object whose simulator was never loaded crashes
(`NetCrashes`), as the program does.

### NetworkHandlers and GanShower

A description of a network is a form, such as a graph or a sequential one, and a
content; a handler is a kind and what is left of the description and of the
network.  There are actions for making it from a file, a glob, a text or bytes,
for copies, for `deleteAllButNet()`, and for writing to and reading from trees
and buffers.  Copies are made of the LWTNN handlers (`CopyKinds`): that of an
ONNX handler lacks the function that computes (section 4).  In `GanShower` the slots hold the networks of a slice;
`InitializeNetwork`, `SaveSlice` and `RestoreSlice` set it up; `AskNetwork`,
`FillEnergies` and `RunAfter` ask, sum the voxels and run the chain of all bins;
`StartLayer` and `FillVoxel` go through the layers and hand the energy of each
voxel out in hits.  Every chain may fail.  A particle without a slice is a null
pointer that is followed; where the network lacks an output, `at()` throws after
the energies of the voxels before have been added.

### HitShapes, HistFunctions, FitFunctions

Angles, weights and random numbers are integers: `Pi`, `One`, `Rolls`.
`load_phi_modulation` appends to parallel vectors and may fail after having
changed some; each shift is scaled by the modulation scale when a hit is
corrected (`Scaled`).  `HistFunctions` keeps borders and cumulated contents in integers
of `Bits` bits as the code does, with its rounding and its merging of borders
that become equal; a draw is compared with the histogram it was made of.
`FitFunctions` has the rebinning loop of `TFCS1DFunctionHistogram`, with its limit
on merges (`MaxMerges`), and the knots of `TFCS1DFunctionSpline`, with the early
end after tries that gained nothing (`MaxNoGain`); how good a spline is, is chosen freely.  What the code
takes for granted of its input is assumed by name: a histogram has at least two
bins (`HistAssumption`), a cumulated one rises to 1 (`IsCumulative`),
probabilities are whole numbers of rolls and half a cell a whole number of units
(`HitShapeAssumption`), so that no claim rests on a remainder.

### CaloGeo, CylinderPath, Extrapolation

`disk` holds the files of a base path and may be left by a build that stops
anywhere: between the trees of two layers (`Restart`), or while the records of
the store are written to its two files (`CutOff`).  A loaded geometry maps it.
One object may be built again: the lists get longer, as `build()` does not clear
them, and a store that is mapped is written over.  `again` says that this
happened and no `load()` since; `mixed`, that the trees may be those of other
cells than the store's.  A looked-up cell is a reference to the
thread's own copy, so what a caller reads later is what its last lookup left.
The R-tree answers with a box nearest to the position.  `CylinderPath` takes a
list of positions in a plane that holds the beam axis to a cylinder;
`Extrapolation` chooses the cylinder of the boundary and of each layer and depth
from the geometry and enters the points.  Lengths are integers in a small unit;
a division may round by `Round`.

### CaloTransport

`pc` says where a thread is inside a call: waiting for or holding the once-flag,
building the world, between making and storing a propagator, stepping.  Between
any two steps of a thread the others may run.  A thread counts as the master if
it is in `Masters`; in a build without multi-threading every thread does, which
is why there may be two.  `std::call_once` is `MayEnter`/`EnterOnce`/`LeaveOnce`;
Geant4 is external: the geometry may be loaded at any time, and a step ends
inside, in the limiting volume or outside the world.  The set-up calls are made
while no thread is inside the tool, and so is the destructor.  `Reconfigure`
allows them after the tool was used.

## 3. Runs

Passing runs exhaust their state space.

| Run | States | Bounds | Shows |
|---|---|---|---|
| `hit_chain` | 449 000 | two layers; an init element, shape, weight, FCal mapping; weights -1, 0, 2; hit energies -1, 0, 1, 2; hit numbers 1, 2 and ones to correct; retries 0, 2; limit 3 | sums and deposit agree (`SumMatchesDeposit`), the layer is filled (`LayerFilled`), not overfilled, and the fixed chain makes its hits and keeps the total (`CountsAndTotals`), `Returns`, and the plain chain implements `LayerFill` |
| `fluct_chain` | 239 000 | five values of sigma2 from 0 up, a smallest one of 1/4, signed hits, weights 1 and 2, near and far hits, retries 0, 2, 3; sum of squares up to 70 | `FluctuationReached`, `ReturnsIfHitsLand` |
| `chain` | 2 400 | a tree of five chains and eleven leaves; three chains start over, one of them binned with nothing before its bin; every status | `InOrder`, `NothingOnceTooOften` (leaves of no chain that starts over run once; a fatal status is final), `SuccessIsComplete`, `FurtherPasses` (what a pass after the first calls), `Terminates` |
| `select_chain` | 67 000 | edges -1 to 2, four additions of every kind in every order, copies; nominal energies in each bin | `BinsPartitionChain`, `EdgesMatchBins`, and `RunsAsChosen`: what runs for which value and in which order, what is refused, the shares of the random choice |
| `tree` | 521 000 | seven objects, three of them chains, up to four daughters in all, added in any order, also below chains that hang; two ways to split | `DuplicatesReplaced`, `SameSimulation`, `ReadsWhatWasWritten`, `MatchesWhatDaughtersMatch` |
| `shower` | 7 000 | nine lists of parametrizations, four of them with an element too early; two layers, three cells, three showers, with the state kept or new; a retry limit of 2 | `ShowerOfItsEnergy` (nothing throws; energy drawn once), `WeightsOfThisShower` (one owner; hits use what this shower made), `CellsMatchLayers` |
| `binned_shower` | 485 000 | library and network, two showers, two layers; libraries of none to three events with small, negative and oversized voxels and missing layers; answers with NaN, too short or empty; five retries | `OneEventAlive`, `EventIsSpent` (layers with energy have hits; every voxel gets its hits; totals), `AnswerIsPlaced` (voxels in their layers; quarters as distributed), `PicksFromLibrary` |
| `networks` | 24 000 | handlers alone, with two owners, or a GAN with four slices, three set-up calls and a shower | `HandlersAreUsable`, `RightNetworkAsked`, `HitsAreOfTheirVoxels` |
| `shapes` | 895 000 | each behaviour about one function or one hit; 8 and 16 bits; up to four knots, three tries, one without gain; three merges; up to three loads of a modulation, scaled by 0, 1 or 2 | `DrawsFollowTheHistogram`, `FitsFollowTheInput`, `HitsKeepTheirShape`, `ModulationOfItsRange` |
| `geometry` | 17 000 | two detectors of a barrel and an end-cap layer, built, built again (up to six cells in a list), cut off between layers or at three places of the store, loaded; two threads; paths of one to three positions in two planes, straight and kinked; three surfaces of the inner detector | `HitIsInItsCell`, `CellsAsStored`, `ExtrapolatedToItsPath` |
| `calo_transport` | 129 000 | two threads that count as master and a worker, step limits 0 and 1 | `OneWorldCleanedUp`, `NothingLost`, `AnswersHold`, `TransportEnds` (decided once; a transport ends where it must; calls return) |
| `geometry_clear` | violated | as `geometry`; `clear()` followed through eight layers | `ClearAddsNothing`, section 4 |

Why the bounds are enough.  A layer sees the one before it through the state
only, so two layers have every interaction that there is.  The limit of 1000
hits only has to be small enough to be met and large enough for a layer to be
filled before it.  A retried hit needs one code that grants nothing and one that
grants an attempt.  The smallest fluctuation, 1e-8
in the code, lies at 1/4 between the values asked for, so that it binds for
one and not for the others.  The tree of `chain` nests a chain that starts over
in another, next to leaves before it, in it and after it, and has beside them
one whose first loop is empty.  Four additions are one
more than a bin in front, behind and in between need, and edge 0 is the value a
new edge vector holds.  In `tree` two daughters are one object, two are equal
and two differ only in data; four places in all let a shared one hang under
different chains.  Trees that differ only in which of the two equal objects
came first are not both put together (`EqualOnesInOrder`).  Of showers on one
state, what the first leaves the next
deletes or reads, so two have all that can go wrong between them; `shower` takes
three, so that a particle that makes no weights can be between two that do.  A
GAN of a particle with one network and one of two, with a missing and a too small
network, meet every way a slice is loaded, and the momenta lie on both sides of
the border between the networks.  The histograms of `shapes` have empty,
negative and tiny bins, and borders that 8 bits cannot tell apart: what 16 or 32
bits do at their limit with more bins, 8 do with few.  The detectors have a cell
across the end of the angle's range, an end-cap in other coordinates, and one
layer that is searched by one thread while the other extrapolates.  Nothing is
claimed of lookups by position while the trees are mixed, so the search of
`geometry` ends a behaviour there after one lookup, and does not build again
once another thread has opened such trees (`QuietWhileMixed`).  In
`calo_transport` two threads compete for the flag while the third has not asked
yet; a limit of 0 has no step and of 1 both an ending by the limit and by the
volume.  The theorems of section 5 have no bounds at all.

Fairness.  `FairSpec` (hit and fluctuation chain) and `LiveSpec` of `ParamChain`
are weak fairness of the next step: a sequential program that can take a step
takes one.  `LiveSpec` of `CaloTransport` is weak fairness of each thread that is
inside a call: the system schedules it.  Nobody has to make a call, load the
geometry or destroy the tool, and no random draw is assumed to turn out well:
`ReturnsIfHitsLand` names what the draws must not do for ever.  The other
specifications state safety only: their loops go over finite lists (the layers
of a detector, the parametrizations of a particle, the voxels of an answer, five
retries), and end by counting.

`CHECK_DEADLOCK FALSE` is given where the system may stop: a simulation that has
returned, a shower limit that is reached, a chain with as many elements as
`MaxSize`, a tool that is destroyed, a function that has been drawn from, a
clear() that is followed no further.  `tree` checks deadlock.

## 4. Disagreements with what the sources say

One is a run that TLC finds violated: `geometry_clear`.
`TFCSExtrapolationState::clear()` says that it clears all maps and resets them
with default values; its loop runs while the layer is below the size of a map
to which every turn adds entries, so the state of an extrapolation that has
filled a layer never comes back from it, and a fresh one is not reset at all.

Noticed while modelling.  The modules follow the code in each of these, and the
properties are stated so that they hold of it.

Hit loops:

- `TFCSLateralShapeParametrizationFixedHitChain.cxx:55` announces the update of
  the layer's energy; the call for the last hit does not add that hit, and a
  retried attempt is added although nothing was deposited.
- `TFCSHitCellMapping.cxx:50` relies on a cutoff that the fluctuation chain does
  not have: where no hit lands near a cell, `simulate()` never returns.
- `TFCSHitCellMappingFCal.cxx:37` speaks of up to 5 retries and returns
  `FCSRetry + 5`; the hit loop gives up at the fifth failure, after 4 retries,
  while `simulate_and_retry()` grants 5 for the same code.

Chains and trees:

- `TFCSParametrizationBinnedChain::simulate()` announces every further pass as
  "Retry simulate call" (lines 78-80), but tests, after the loop over what comes
  before the first bin, a status that is still that of the pass before (line
  95).  With nothing before the first bin the passes that follow a retry simulate
  nothing and end in `FCSFatal`.  `FurtherPasses` says, and the theorem for every
  tree, that this happens to these chains and to no others.
- `push_back()` computes the range of the chain itself
  (`TFCSParametrizationChain.h:58-62`); the chains it hangs in already keep
  theirs, until they get a daughter themselves.  A tree has right ranges when it
  is put together from below.
- `push_back_in_bin(param, low, up)` refuses the range of the last bin, because
  its upper edge lies in no bin; `RefusedIsNoBin` is therefore stated for the
  other bins.
- The copy constructor of `TFCSParametrizationFloatSelectChain` copies the bins
  and resets the edges, so `val_to_bin()` of a copy reads behind its vector.
- `RemoveDuplicates()` takes for granted that no other tree shares an object.
- A daughter for all particle species lists none, and so empties the set of the
  chain above it.  A tree whose names were removed cannot be read back where it
  was split: placeholders remain.
- `TFCSPredictExtrapWeights::operator==` compares `m_input` only.

State, energies, weights:

- A state used again keeps cells and auxiliary values.  The weights of
  `PredictExtrapWeights` and the pointers of the voxel covariance share the layer
  number as key.  `CleanAuxInfo` is overridden nowhere.
- All shares zero make the fractions of the PCA NaN; an energy-bin draw on an
  edge can choose a bin without probability; `EnergyBin::resize()` skips an
  element when it erases one; the list of ratios may be one shorter than its bins.

Showers from libraries and networks:

- The first `simulate()` of a binned shower on a state throws, because
  `delete_event()` reads keys nothing has set (`TFCSBinnedShowerBase.cxx:40`); the
  event of a state's last shower is never deleted.
- `set_hdf5_path()` is documented to load the library when the simulation begins;
  it is loaded only when the object is read from a ROOT file, and writing the
  object empties it.
- `load_meta_data()` after `load_sub_bin_distribution()` drops the distribution
  and keeps the upscaling energies, after which every hit throws.  Boundaries
  with an empty layer assign the layers behind it wrongly.  Without a simulator
  `get_event()` follows a null pointer.  The simulator inside
  an ONNX shower has no accessor, so `setInputShapes()` cannot reach it.  An
  answer with NaN after five retries is used; the NaN does not enter the event.
- `TFCSEnergyAndHitGANV2`: `FCSFatal` returned as `bool` is false, so a shower
  that failed counts as skipped; a chain that fails in the middle leaves energies
  without hits; the loop over fractions throws for a layer nobody has set
  although the comment at line 544 wants no stop; a hadron in layers 1 and 5 can
  have no hits; calling `initializeNetwork()` twice leaks a slice; a particle
  missing in the XML leaves `version` unset.
- `TFCSNetworkFactory.h:64` gives forms to handlers the other way round than the
  code.  A file is globbed even where bytes are given.  An ONNX tree saved to
  ROOT cannot be read through the factory; an ONNX handler's copy does not copy
  the function that computes; a network with one output gets the empty key.

Geometry and extrapolation:

- `findPCA` takes the end-cap at positive z always; a straight path with no x
  component is never forward; `pos_eta.m_phi` is read uninitialized
  (`FastCaloSimCaloExtrapolation.cxx:185`); the third surface of the inner
  detector never gives the boundary.
- A build that is interrupted over older files leaves a mixture that loads.
  `load()` keeps the layer flags of an earlier geometry.  `CaloGeo::n_cells(layer)`
  is "the number of cells in a layer" and the length of a list that `build()`
  does not clear (`CaloGeo.cxx:275`): a second `build()` of one object lists
  every cell again, until a `load()`; it also writes over the files a loaded
  object has mapped, and throws if its lists name cells of an earlier geometry.
  The flags of a layer come from different cells in `build()` and
  `load()`; trees in x and y ignore z.

Functions and shapes:

- A histogram of a single bin is read beyond its end by
  `CheckAndIntegrate1DHistogram`, whose `last` is then the bin after it.
- `get_inverse` lets the last bin but one reach to the last border;
  `CheckAndIntegrate` goes one bin too far when only the first has content; an
  empty inner bin is merged into its left neighbour; `get_nbins()` is never 0, so
  the guards for an empty histogram never fire, and in two dimensions the guard
  does not return; the 32-bit content of the largest value overflows.
- Knots at equal distance may be equal, and a penalty that is NaN is kept for
  ever.  `TFCS2DFunctionHistogram` takes the last y border from another call than
  the others.
- Without weights set, the default range of -1 to -1 makes the weight -1.
- A modulation whose range lies inside a known one empties the rest of it; the
  same range twice appends its bins; one that fails to load after another keeps
  its new shift.  Adding multiplies by the shift, removing does not divide.

## 5. Proofs

Every proof module defines an inductive invariant and shows `Init => IInv` and
`IInv /\ [Next]_vars => IInv'` with a lemma for each action, or for the actions
that do the same to the part the invariant speaks of.  They assume nothing but
the named assumptions about the constants, which TLC evaluates in the runs, and
what a theorem's own hypotheses or the property itself say.

| Theorems | For every | Argument |
|---|---|---|
| `Hits_proofs`: `TypeCorrect`, `DepositIsWhatWasCounted`, `LayerIsFilled`, `FixedHitsCounted` | number of layers, chain (cell mapping last), energies, weights, limits | `LoopInv`: during an attempt the deposit is what is counted, plus the hit once the mapping ran; no retry can follow the mapping, because nothing follows it.  So at the head of the loop they agree, and with it the aux-info of a plain chain after its first hit, which the check reads instead of the local sum. The fixed chain has made at most its hits at the head of the loop. |
| `Hits_proofs`: `CountsAreRight`, `Implements` | the same | `RInv` adds `Pending`: a layer has no result before its chain returns, and while hits are made the sum does not fill it.  Then every action of the loop is a fill, an end, the next layer or a stutter of `LayerFill`; the last hit, whose check both counts it and closes the layer, is the interesting one.  `OverInv` bounds what a layer can hold beyond its energy by the hit that filled it, and E() by what the layers before have gained, a sum over layers that is proved to grow by one layer at a time. |
| `Chains_proofs`: `Reached` | values of sigma2, 0 among them, hits, weights, retries | `SumIsDeposit` as above, for the sum and for the squares; `NotYetReached`: while the loop goes on the quotient exceeds sigma2 or its smallest value, whichever is more, so its end is the only way out with success, and the denominator is positive wherever it is compared. |
| `Chains_proofs`: `TypeCorrect`, `ElementsInOrder`, `FatalEndsTheShower`, `SuccessMeansAll` | tree, flags, bins, answers | Every frame is well formed: its position lies in the part of the chain it is in, what it has done is what lies before that position and had to run, and a frame below waits for the one above.  Only the top frame changes, so each action is a lemma about one frame (`Replaced`, `Popped`, `Pushed`). |
| `Chains_proofs`: `NothingRunsAgain` | trees with `EachOnce` | `OnceInv`: the frames are a path from the root that meets no chain twice, and there is a set of nodes that are dealt with for good.  With each of them the place where it hangs is behind, none is active, none is repeatable, and a leaf that succeeded is in it or is repeatable.  What is called next is never in the set: the path from its place to the root would be behind too, and the root is not. |
| `Chains_proofs`: `WhatFurtherPassesDo` | tree, flags, bins, answers | A status that asks for a retry came from an element the chain has (`AskedInv`); so a later pass that has called nothing yet still has an element to call in the loop it is in (`WorkInv`), and one whose first loop is empty is left with the status of the pass before, having called nothing. |
| `SelectChain_proofs`: `TypeCorrect`, `BinsStayAPartition`, `EdgesStayInOrder` | size and edge values | An insertion shifts all later starts by one (`ShiftedPartition`), new bins take their edge from a range that `val_to_bin()` placed outside all bins (`BinOfValue`). |
| `SelectChain_proofs`: `RunsRight` | the same | `RInv` adds that every element still lies where it was asked to (`Located`), those of one place in the order of their addition.  An insertion keeps this for what lies before and behind it (`InsertsAt`); the value's bin, found by the search, has exactly the elements whose range holds the value; and the shares of the random choice are those of the interval between the nominal energies, because the search for a neighbour ends at the nearest bin with elements. |
| `ParamTree_proofs`: `OneIsLeft` | number of objects, kinds of chains, contents and names of leaves, and every tree `push_back()` makes of them (`TreeAssumption`) | `SearchInv`: what a search has seen has its daughters seen or still to visit, so when it ends it has seen all that hangs in the tree.  `OriginalsInv` and `FindInv`: each place of a duplicate that was visited is listed, and no two that stay are equal.  `ReplaceInv`: each such place has its replacement to come, and what was seen hangs or is to be deleted.  A second search then finds nothing, and what is alive is what hangs. |
| `ParamTree_proofs`: `RunsAsBefore` | the same | A replacement exchanges equal leaves, so what each chain runs (`SwapRunsAlike`) and which chains are in the tree (`SwapSameChains`) stay. |
| `ParamTree_proofs`: `RangesOfDaughters` | the same | What `recalc()` computes is a loop over the daughters (`LoopRuns`), whose intersection or union holds exactly what all or some of them hold.  `RangeInv`: the range of a chain that is not stale is that of the daughters it has; it holds after `push_back()` because only the mothers of the chain have a range made from its own, and those become stale. |
| `ParamTree_proofs`: `FilesKeepTheTree` | the same, files written whole or split, names that were removed | A reading function exists (`ReadExists`), and any that satisfies its equation gives back the tree, by induction from the leaves (`FromTheLeaves`).  Where daughters are found by their name, for trees whose names tell them apart (`NamesTell`), which the property itself asks for. |
| `Calorimeter_proofs`: `TypeCorrect`, `OneWorldEver`, `NothingIsEverLost`, `AnswersStayTrue`, `DecidedForGood` | set of threads and of masters, also for tools that are switched to another world | `Flag`: at most one thread builds, only while the flag is running, and nothing is built before.  `Handover`: between making and storing, a thread's propagator is in its hand and its slot in the holder is empty, since no other thread writes there. |
| `Calorimeter_proofs`: `TracksEnd` | the same | `Stepping`: a track that is stepped is never longer than the limit allows, which nobody can change meanwhile because its thread is inside a call. |
| `Calorimeter_proofs`: `CleanedUp` | the same, of tools that are not reconfigured after use | `CInv` adds `OwnsAsConfigured`: the world is its own if and only if it is configured to make one.  Only the destructor frees (`OnlyDestroyFrees`), and its holder has all propagators (`HolderHasThemAll`). |
| `Calorimeter_proofs`: `GeoInvAlways`, `CellsAreAsStored` | detectors (`CellAssumption`: ids of their own, one coordinate system per layer, widths below the full angle), threads, any sequence of builds of one object, interruptions, also in the middle of the store, and reloads | `ObjectInv`: a geometry knows nothing, or the layers of the cells on the disk, unless it was built again and not loaded since; the scan of the cells gives the same flags and lists in whatever order they come and whether the flags are new or those of the same cells (`ScanIs`).  `TreesInv`: every tree on the disk is that of its layer unless a build was cut off over older files or ran again (`mixed`), and so is what a thread has opened.  `LookupInv`: a thread's own copy of a cell is the one it last asked for. |
| `Calorimeter_proofs`: `LookupsHit` | the same, positions with an angle in its range (`PositionAssumption`) | The boxes of a cell hold every position that is inside of it and none that does not touch it, for cells across the end of the angle's range by way of whole turns (`AngleInBox`, `BoxesOfCell`); so the nearest box to a position that is in a cell is at distance zero and its cell touches the position (`NearestTouches`).  The binary search of the index finds every id of the sorted data file (`SearchFinds`, `StoreFinds`).  The trees are those of the layer by `GeoInvAlways`. |
| `Shower_proofs`: `WeightsAreOfThisShower` | layers, lists of parametrizations that do not use both voxel and extrapolation weights (`ProgramAssumption`, since the two share keys) | `SInv`: the objects on the heap are those the keys point to, each by one key; those of this shower exist from the voxel parametrization on; and a list that ends with a cleaning instance has deleted what it made, layer by layer. That hits use what this shower made is stated of lists that have it made before (`Supplied`), that nothing is left of those that clean up (`Cleans`). |
| `Shower_proofs`: `NothingIsThrown` | the same | `EInv`: once the bin is chosen it is one of the table, and once the PCA has run every layer it is asked for has an energy and a fraction, whatever was there before.  For lists in order (`Ordered`); of the others the run shows that they may throw. |
| `Shower_proofs`: `EnergyIsShared`, `OfItsEnergy` | layers, whole energies, responses and draws of shares that are not nothing in total (`EnergiesAreNumbers`), chains that start from the kinetic energy, scale it once at most and then draw (`EnergyFirst`); for `OfItsEnergy`, draws whose shares are whole (`SharesAreWhole`) | `KInv`: the energy is what the draws of this shower amount to, which only what runs before the PCA and an accepted draw change, and a draw changes it and all layers in one step.  A share that is rounded down lacks less than a unit, so a sum over the layers lacks no more than one each, and nothing if nothing was dropped (`SharesSum`).  A sum over a set is a recursive function that picks members in an unknown order; that it has one value follows by induction over what is left without any one member (`RemovalInduct`, `SumOfOneMore`). |
| `Shower_proofs`: `CellsAreScaled`, `CellsOfTheirLayers` | the same, chains that renormalize once, after their hits (`CellsLast`); for `CellsOfTheirLayers`, scaled cells that are whole (`ScalesAreWhole`) | `CInv`: a layer whose hits are done has no energy or a cell with energy, which later hits only add to, so the sum that is divided by is not zero where there is energy to share; and no element that sets energies runs between the hits and the renormalization. |
| `BinnedShower_proofs`: `OneEventEver`, `AlwaysFromLibrary` | libraries, geometry, series of showers | The three keys always name the same shower, and what is live is what they name, so deleting by the keys leaves nothing. |
| `BinnedShower_proofs`: `EventSpent` | the same, voxels of any energy | `FillingOK`: with `idx` hits made, the voxels before `v` have theirs, `v` has a part and those behind have none, `elayer` being what they are worth.  Sums over voxels are functions on prefixes, so that one step adds one voxel; that the walk ends at the right one is an induction over the voxels. |
| `BinnedShower_proofs`: `NetworkEventSpent`, `NetworkOneEvent`, `NetworkOrLibrary` | networks, answers, layers that are used or not | The invariant of the base class holds for the other class too (`MLInv`): what the network gives is cut into layers of which each is a sequence of voxels, and is an event like one of a library. |
| `BinnedShower_proofs`: `VoxelsPlaced`, `AnswerPlaced` | the same networks, whose answers share the energy asked in whole units (`WholeShares`); tables that give each voxel whole numbers of the draws, in halves of the radius that divide among those of the angle (`TablesAreFine`, for `AnswerPlaced`) | A voxel's layer is unique because the boundaries rise (`BoundsRise`), and the walk along them, which the code does not restart for each voxel, ends at it (`WalkIs`).  The loop has then put in each voxel with energy once (`FilledIs`), and the layers together have as many (`AllCounted`), so none is left out and none comes twice.  `PlacedInv`: until the first layer is begun the event is that of the last answer.  The draws that end in a quarter are those of its half in angle and, among them, of its half in radius (`DrawsShared`). |
| `Networks_proofs`: `HandlersCompute`, `HandlersUsable` | files, texts and bytes; handlers whose copies keep what computes (`"onnx" \notin CopyKinds`); descriptions that name outputs (`Described`) | `HInv`: every handler is good, a good one has its network or a description to make it from, of the form of its kind; and what was written in a buffer makes a good one.  `DInv` adds that its description is known, so that the outputs of a single node are numbered from 0, once different numbers have different names (`DistinctNumbers`: `ToString` is not defined for a proof). |
| `Networks_proofs`: `GanIsOfItsFiles` | files, slices, particles, set-up calls | `GInv` adds `NetsOfFiles`, each network of the slice is that of its file, and `StoredNets`, the same of what is saved: it may have been stripped of its description, not changed. |
| `Networks_proofs`: `GanAsksTheRightNetwork` | the same, for the four species and the momenta GANs were trained for (`Trained`) | `AInv`: the slice that is loaded is that of its particle's file, a binning of version 1 belongs to a slice of one network; so the network that is asked was loaded, and the label that is computed lies between those of the network's ends. |
| `Networks_proofs`: `GanHitsAreTheVoxels` | binnings of layers, answers, particles, radii drawn | `VInv`: every layer that had its turn has hits worth the sum of its voxels (`GivenUpTo`; at most so for the fine layers of a hadron, where hits may be skipped), the layer at work those of the voxels that had theirs, and the number of the voxel that is next is that of its bin in the layer (`Offset`, the bins of the rings before it).  Layers are gone through in their order (`LayersInOrder`), a turn adds to its own layer only (`TurnTaken`), and a hit's radius and angle lie within its bin also where the number of hits is rounded (`HitInItsBin`). |
| `Hits_proofs`: `HitsAreModulatedByTheirRange` | number and order of loads, ranges, shifts, files that cannot be opened | `ModulationInv`: the four vectors are in step and the borders ascend.  While the loads do not overlap, every load has an interval of its range, with its bins if its file was read; every interval with bins has them from a load; every border is one of a load.  Putting a border in is shown to keep each of these (`StartedKept`, `LowerKept`, `UpperKept`), and so is filling the interval or failing to (`FilledKept`); the interval of a hit is then that of the only load for it. |
| `Hits_proofs`: `FitsFollowTheirInput` | cumulated histograms, cuts, sequences of penalties | `RebinInv`: what is merged is a cumulated histogram with borders of the input, among them the first and the last two, because the last bin is never merged; so no centre but the last lies in the last bin, whose content is set to 1 at the end, and the inverse lands in its piece.  `SplineInv`: the knots tried and kept are in order and inside 0 and 1, and the penalties kept and best are together the lowest seen. |
| `Hits_proofs`: `HitsKeepShape` | charges that antiparticles have opposite, probabilities of whole numbers of rolls, cells, functions of the wiggle | Mirror images follow from the signs alone, angles being compared modulo a turn.  The mean weight is a sum over all rolls: those below a number are as many as it says (`BelowFirst`), so the weight of the hits that stay makes up for those refused.  A function of `n` values moves a hit by an odd number of half cells of the `n` there are, at most `n - 1` of them. |
| `Hits_proofs`: `DrawsFollow` | histograms of at least two bins in one dimension, widths of 8 and 16 bits, numbers drawn | `HistInv`: each bin a template function stores stands for a bin of the histogram with entries (`Stands`): it has its border, and the content stored before it is the one cumulated before that bin; and borders and contents rise (`StoredUpTo`).  While bins are merged, the last content written is the one cumulated up to the bin before the next, so a bin without entries of its own is merged (`BinTaken`).  The other functions keep every bin, and what they store rises only at bins with entries (`RisesAtEntries`).  `upper_bound` then finds a bin whose content is above the one before it (`InItsBin`). |

A recursive function on a prefix of a sequence, or over a finite order, is
accessible to proof: its definition is a `CHOOSE`, that a function with the
equation exists follows with the least number at which there is none (`Least`,
`NatInduct`), and from then on the equation is used.  The sums over layers,
hits and voxels above are proved that way.  What is computed along a tree is
proved from its leaves, and the set of what lies below a node is the least one
that is closed under daughters (`BelowIs`).

Model-checked only:

- liveness (`Returns`, `ReturnsIfHitsLand`, `Terminates`, and `CallsReturn`, the
  last part of `TransportEnds`), which the proof system does not reach;
- `ExtrapolatedToItsPath`, whose tolerance is counted in units of the instance:
  for other constants the integer division of the model would move a point off
  its line or surface by more than the code's floats do.

Four theorems need that numbers divide exactly, as those of the runs do and
floating-point ones nearly do.  They say so by name: `WholeShares`,
`TablesAreFine`, `SharesAreWhole` and `ScalesAreWhole`; all four hold in every
state of the instances of `binned_shower` and `shower`.  `EnergyIsShared` and
`CellsAreScaled` say without them what is left of the properties.

No module of the project has a RECURSIVE operator, so that theorems about any of
them can be added.

## 6. Not modelled

- The regression functions: they evaluate one small network, and nearly all
  their source is a table of thousands of constants.
- `TFCSLateralShapeTuning` (a map of interpolated factors read from a file; a
  file in which a later graph is missing leaves part of the map and reports
  success), the flat shape, logging, particle data, the parameter tool, tests.
- Inside modelled components: the flip of a symmetrised angle
  (`TFCSEnergyAndHitGANV2.cxx:401-408`) and the random angle of a single bin
  (393-395); the fraction a fixed hit chain sets with its layer, which nothing in
  these modules reads, and its exits without a hit number; the numerics of covariance, splines, PCA and
  interpolation formulas; 32-bit widths; the matching of library events; what a
  network computes; parsing of XML, JSON and HDF5; set-up of hit shapes from
  files; scale-factor energies that are passed as auxiliary value, and the PCA
  without rescaling; how an R-tree lies on the disk; paths not in a plane with
  the axis; editing a hit chain's vector; everything Geant4, ROOT, HDF5, LWTNN or
  ONNX does.

Floating-point rounding is left out wherever energies are integers.
`PROJECT.json` says for every component what of it is left out.

## 7. Plan

Done: every component of the inventory that keeps state or has control of its
own, in the order hit chains, parametrization chains, selection, binned shower,
transport; duplicates and streaming; the simulation state with the
parametrizations that use it; networks and GAN; hit shapes and functions;
geometry and extrapolation.  The theorems above.

Left, most valuable first:

1. The hit chains and a binned shower in one module: whether the hits the chain
   asks for are the hits the event has, with a chain that aborts.
2. A common abstract shower that `BinnedShower` and `MLShower` implement.
3. Threads that simulate with one tree of parametrizations and states of their
   own, on one geometry.
4. Lateral shape tuning, and the numerics of the covariance fluctuations.
