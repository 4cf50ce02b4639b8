------------------------------- MODULE Shower -------------------------------
(***************************************************************************)
(* Showers simulated one after the other with one simulation state, or with *)
(* a new one: the chain of a particle runs its parametrizations in order.   *)
(* An element that asks for a retry is run again (simulate_and_retry());    *)
(* FCSFatal, or an exception, ends the shower.                              *)
(***************************************************************************)
EXTENDS EnergyParam, LayerShape

CONSTANTS
  Particles,  \* each with ekin, pdgid and the program of its chain
  MaxRetry,   \* retries asked for: FCSRetryPCA - FCSRetry
  MaxHits,    \* bound: hits per layer
  MaxShowers  \* bound: showers in a row

\* A program keeps pointers or numbers in the state: they have the same keys.
UsesVoxels(p) == \E i \in 1 .. Len(Particles[p].program) : Particles[p].program[i].kind = "voxel"
UsesWeights(p) == \E i \in 1 .. Len(Particles[p].program) : Particles[p].program[i].kind = "predict"
ASSUME ProgramAssumption ==
  \A p \in DOMAIN Particles :
    LET program == Particles[p].program
    IN  /\ Len(program) \in Nat
        /\ \A i \in 1 .. Len(program) :
             /\ program[i].kind = "bin" => program[i].table \in DOMAIN Tables
             /\ program[i].kind \in {"voxel", "hits"} => program[i].layer \in Layers
        /\ ~(UsesVoxels(p) /\ UsesWeights(p))

VARIABLES
  particle,  \* the particle of the present shower
  pc,        \* the element of its program that runs next
  status,    \* "run", "done", "fatal" or "thrown"
  tries,     \* retries of the present element, or hits of the present layer
  shower,    \* history: number of the present shower
  expected,  \* history: the energy the draws of this shower amount to
  lastHit    \* history: what the last hit has used

runVars == <<particle, pc, status, tries, shower>>
vars == <<stateVars, runVars, expected, lastHit>>

Now == Particles[particle].program[pc]
Runs(kind) ==
  status = "run" /\ pc <= Len(Particles[particle].program) /\ Now.kind = kind
NoHit == [layer |-> -1]

Init ==
  /\ FreshState
  /\ particle \in DOMAIN Particles /\ pc = 1 /\ status = "run" /\ tries = 0 /\ shower = 1
  /\ expected = 0 /\ lastHit = NoHit

Advance == pc' = pc + 1 /\ tries' = 0 /\ UNCHANGED <<particle, status, shower>>
Fail(s) == status' = s /\ UNCHANGED <<particle, pc, tries, shower, stateVars, expected, lastHit>>
UnchangedEnergy == UNCHANGED <<ebin, etot, e, efrac, expected>>

-----------------------------------------------------------------------------
StartWithEkin ==
  /\ Runs("init")
  /\ InitWithEkin(Particles[particle].ekin)
  /\ expected' = Particles[particle].ekin
  /\ Advance /\ UNCHANGED <<cells, aux, heap, lastHit>>

InterpolateEnergy ==
  LET r == Now.response
      ekin == Particles[particle].ekin
  IN  /\ Runs("interpolate")
      /\ Interpolate(r, ekin)
      /\ expected' = Interpolated([Responses[r] EXCEPT !.scale = FALSE], ekin)
      /\ Advance /\ UNCHANGED <<cells, aux, heap, lastHit>>

ChooseEnergyBin ==
  /\ Runs("bin")
  /\ \/ /\ CanBin(Now.table, Particles[particle].pdgid)
        /\ \E x \in 0 .. Max({0} \cup Range(Tables[Now.table][MatchedId(Now.table, Particles[particle].pdgid)])) + 1 :
             ChooseBin(Now.table, Particles[particle].pdgid, x)
        /\ Advance /\ UNCHANGED <<cells, aux, heap, expected, lastHit>>
     \/ ~CanBin(Now.table, Particles[particle].pdgid) /\ Fail("fatal")

\* The three ways out of the PCA: no energy, a rejected draw, an accepted one.
DrawEnergy ==
  /\ Runs("pca") /\ HasTables(Now.pca)
  /\ \/ /\ ebin = 0 /\ NoEnergy /\ expected' = 0
        /\ Advance /\ UNCHANGED <<cells, aux, heap, lastHit>>
     \/ ebin > 0 /\ \E draw \in Draws[Now.pca][ebin], random \in 0 .. Halves :
          \/ /\ ~Rejects(Now.pca, draw, random) /\ ShareEnergy(draw)
             /\ expected' = (draw.total * expected) \div Norm
             /\ Advance /\ UNCHANGED <<cells, aux, heap, lastHit>>
          \/ /\ Rejects(Now.pca, draw, random) /\ tries < MaxRetry
             /\ RejectDraw(draw) /\ tries' = tries + 1
             /\ UNCHANGED <<particle, pc, status, shower, cells, aux, heap, expected, lastHit>>
          \/ Rejects(Now.pca, draw, random) /\ tries = MaxRetry /\ Fail("fatal")

NoTables == Runs("pca") /\ ~HasTables(Now.pca) /\ Fail("thrown")

-----------------------------------------------------------------------------
PredictExtrapWeights ==
  /\ Runs("predict")
  /\ \/ /\ InputsThere(Now.relevant)
        /\ \E output \in [Now.relevant -> {-1, 1, Halves + 1, NotFinite}] : PredictWeights(Now.relevant, output)
        /\ Advance /\ UnchangedEnergy /\ UNCHANGED <<cells, lastHit>>
     \/ ~InputsThere(Now.relevant) /\ Fail("thrown")

VoxelFluctuations ==
  /\ Runs("voxel")
  /\ \/ /\ Inactive(Now.bins) /\ VoxelClean
        /\ Advance /\ UnchangedEnergy /\ UNCHANGED <<cells, lastHit>>
     \/ /\ ~Inactive(Now.bins) /\ ebin <= Now.bins /\ VoxelWeights(Now.layer, shower)
        /\ Advance /\ UnchangedEnergy /\ UNCHANGED <<cells, lastHit>>
     \/ ~Inactive(Now.bins) /\ ebin > Now.bins /\ Fail("fatal")

\* The hits of a layer; the chain that makes them is the subject of HitChain.  Each
\* goes through the elements in Now.uses, and to a cell of the layer.
CanHit(l) ==
  /\ "predict" \in Now.uses => HasWeight(l)
  /\ "voxel" \in Now.uses => HasVoxels(l)
HitWith(l) ==
  [layer |-> l,
   center |-> IF "predict" \in Now.uses THEN PredictedCenter(l, Now.hardcoded) ELSE FixedCenter(l),
   voxels |-> IF "voxel" \in Now.uses THEN {aux[k].value : k \in {LayerKey(l), GeoKey(l)}} ELSE {}]
PlaceHit ==
  LET l == Now.layer
  IN  /\ Runs("hits") /\ HasE(l) /\ e[l] # 0 /\ tries < MaxHits
      /\ \/ /\ CanHit(l)
            /\ \E c \in {x \in DOMAIN CellLayer : CellLayer[x] = l}, x \in 1 .. 2 :
                 cells' = Deposited(c, x)
            /\ lastHit' = HitWith(l)
            /\ tries' = tries + 1
            /\ UnchangedEnergy /\ UNCHANGED <<particle, pc, status, shower, aux, heap>>
         \/ ~CanHit(l) /\ Fail("fatal")
LayerDone ==
  /\ Runs("hits") /\ HasE(Now.layer) /\ (tries > 0 \/ e[Now.layer] = 0)
  /\ Advance /\ UnchangedEnergy /\ UNCHANGED <<cells, aux, heap, lastHit>>
NoLayerEnergy == Runs("hits") /\ ~HasE(Now.layer) /\ Fail("thrown")

RenormalizeCells ==
  /\ Runs("renorm")
  /\ \/ /\ \A l \in Layers : HasE(l)
        /\ Renormalize
        /\ Advance /\ UnchangedEnergy /\ UNCHANGED <<aux, heap, lastHit>>
     \/ ~(\A l \in Layers : HasE(l)) /\ Fail("thrown")

Finish ==
  /\ status = "run" /\ pc > Len(Particles[particle].program)
  /\ status' = "done"
  /\ UNCHANGED <<particle, pc, tries, shower, stateVars, expected, lastHit>>

-----------------------------------------------------------------------------
NextParticle(p) ==
  /\ particle' = p /\ pc' = 1 /\ status' = "run" /\ tries' = 0 /\ shower' = shower + 1
  /\ expected' = 0 /\ lastHit' = NoHit

\* The next shower has a new state.  Nothing deletes what the auxiliary values of
\* the old one point to: it is lost.
NewState(p) ==
  /\ status \in {"done", "fatal", "thrown"} /\ shower < MaxShowers
  /\ NextParticle(p)
  /\ ebin' = -1 /\ etot' = 0 /\ e' = Nothing /\ efrac' = Nothing
  /\ cells' = [c \in DOMAIN CellLayer |-> 0] /\ aux' = Nothing
  /\ heap' = Nothing

\* The next shower has the old state, cleared by clear() and cells().clear().  A
\* particle that keeps pointers does not follow one that keeps numbers: the
\* numbers they use are the same.
MayFollow(p) ==
  \A k \in DOMAIN aux : /\ aux[k].type = "float" => ~UsesVoxels(p)
                        /\ IsPointer(k) => ~UsesWeights(p)
SameState(p) ==
  /\ status \in {"done", "fatal", "thrown"} /\ shower < MaxShowers /\ MayFollow(p)
  /\ NextParticle(p)
  /\ Clear /\ cells' = [c \in DOMAIN CellLayer |-> 0] /\ UNCHANGED <<aux, heap>>

Next ==
  \/ StartWithEkin \/ InterpolateEnergy \/ ChooseEnergyBin \/ DrawEnergy \/ NoTables
  \/ PredictExtrapWeights \/ VoxelFluctuations \/ PlaceHit \/ LayerDone \/ NoLayerEnergy
  \/ RenormalizeCells \/ Finish
  \/ \E p \in DOMAIN Particles : NewState(p) \/ SameState(p)

Spec == Init /\ [][Next]_vars
-----------------------------------------------------------------------------
Program == Particles[particle].program
Passed(kind) == \E i \in 1 .. pc - 1 : i <= Len(Program) /\ Program[i].kind = kind

Earlier(program, i, kind) == \E j \in 1 .. i - 1 : program[j].kind = kind

\* A bin is chosen before the PCA, which has tables for all of them, and the PCA
\* runs before what needs its energies.
HasBins(pca, table) ==
  \A id \in DOMAIN Tables[table] : 1 .. Len(Tables[table][id]) - 1 \subseteq DOMAIN Draws[pca]
Ordered(program) ==
  \A i \in 1 .. Len(program) :
    /\ program[i].kind = "pca" =>
         /\ Earlier(program, i, "bin")
         /\ \A j \in 1 .. i - 1 : program[j].kind = "bin" => HasBins(program[i].pca, program[j].table)
    /\ program[i].kind \in {"predict", "hits", "renorm"} => Earlier(program, i, "pca")

\* What hits use is made before them, and a cleaning instance comes last.
Supplied(program) ==
  \A i \in 1 .. Len(program) :
    program[i].kind = "hits" => \A kind \in program[i].uses : Earlier(program, i, kind)
Cleans(program) ==
  \E i \in 1 .. Len(program) :
    /\ program[i].kind = "voxel" /\ program[i].bins = 0
    /\ \A j \in i + 1 .. Len(program) : program[j].kind # "voxel"

\* In such a chain no parametrization reads the energy, the fraction or the tables of a layer or a
\* bin that does not exist in the state it is given: TFCSSimulationState::E(layer)
\* and Efrac(layer) throw for a layer nobody has set.
NothingThrown == Ordered(Program) => status # "thrown"

\* The energy of a shower is the particle's kinetic energy, times the response of
\* the interpolation, times what the one draw that was accepted says, and the
\* layers share it: rejected draws and the last shower leave no trace.
EnergyOfThisShower ==
  Passed("pca") => etot = expected /\ etot = MapThenSumSet(LAMBDA l : e[l], Layers)

\* What the voxel weights keep alive is what the state points to, each object
\* once; a shower that ends with the cleaning instance leaves nothing.
OneOwner ==
  /\ DOMAIN heap = PointersAt(Keys)
  /\ \A j, k \in Keys : IsPointer(j) /\ IsPointer(k) /\ aux[j] = aux[k] => j = k
  /\ status = "done" /\ Cleans(Program) => heap = Nothing

\* A hit uses weights made for its own shower and layer, and lies between the
\* front and the back of the layer, or wholly at the boundary, whatever the network answers.
Between(x, a, b) == (a <= x /\ x <= b) \/ (b <= x /\ x <= a)
Placed(l, center) ==
  \/ center = [eta |-> Boundary, r |-> Boundary]
  \/ l \in Finite /\ \A x \in {center.eta, center.r} : Between(x, Entry[l], Exit[l])
HitsUseThisShower ==
  lastHit # NoHit /\ Supplied(Program) =>
    /\ lastHit.voxels \cap DOMAIN heap # {} => \A p \in lastHit.voxels : heap[p] = shower
    /\ Placed(lastHit.layer, lastHit.center)

\* After the renormalization the cells of each layer that was simulated add up to
\* the energy of the layer, however the hits have missed it.
HitLayers == {Program[i].layer : i \in {j \in 1 .. Len(Program) : Program[j].kind = "hits"}}
CellsMatchLayers == Passed("renorm") => \A l \in HitLayers : SumOfCells(l) = e[l]

\* A chain in proper order makes a shower of its own energy, in whatever state
\* it starts, and nothing in it throws.
ShowerOfItsEnergy == NothingThrown /\ EnergyOfThisShower

\* The weights and centres of a hit are those of its shower, and they die with it.
WeightsOfThisShower == OneOwner /\ HitsUseThisShower
=============================================================================
