--------------------------- MODULE CaloTransport ----------------------------
(***************************************************************************)
(* G4CaloTransportTool and ThreadLocalHolder: how the threads of a Geant4   *)
(* job share one transport tool.  One thread builds the world volume, every *)
(* thread builds a propagator of its own and transports tracks with it.     *)
(*                                                                          *)
(* Threads are the values of std::thread::id; Masters are those for which   *)
(* G4Threading::IsMasterThread() holds.  Geant4 is external: it finds the   *)
(* geometry once it is loaded, and a step ends in some volume.              *)
(***************************************************************************)
EXTENDS Integers, Sequences

CONSTANTS
  Threads, Masters,
  StepLimits,      \* the values m_maxSteps may be given
  Reconfigure      \* setUseSimplifiedGeo() is called after the world is asked for

ASSUME TransportAssumption ==
  /\ Masters \subseteq Threads
  /\ StepLimits \subseteq Nat
  /\ Reconfigure \in BOOLEAN

VARIABLES
  loaded,      \* Geant4 has the geometry, under m_simplifiedWorldLogName
  simplified,  \* m_useSimplifiedGeo
  maxSteps,    \* m_maxSteps
  once,        \* m_worldVolumeOnceFlag
  built,       \* G4PVPlacement objects the tool has registered
  world,       \* m_worldVolume
  made,        \* propagators made
  holder,      \* m_propagatorHolder
  pc,          \* where each thread is
  hand,        \* the propagator a thread has made and not yet stored
  told,        \* history: what a thread was last told is ready
  path,        \* the vector of the transport() call going on, or the last one
  freed        \* history: what the destructor deleted, NotYet before it ran

config == <<loaded, simplified, maxSteps>>
shared == <<once, built, world>>
props == <<made, holder, hand>>
vars == <<config, shared, props, pc, told, path, freed>>

NoWorld == [kind |-> "none", n |-> 0]
FullWorld == [kind |-> "full", n |-> 0]
OwnWorld(n) == [kind |-> "own", n |-> n]
Worlds == [kind : {"none", "full", "own"}, n : Nat]
Propagators == [by : Threads, n : Nat, world : Worlds \ {NoWorld}]
NoPropagator == [by |-> "nobody", n |-> 0, world |-> NoWorld]
NotYet == {NoWorld}
Volumes == {"inside", "limit", "none"}

alive == freed = NotYet
Idle == \A t \in Threads : pc[t] = "idle"
At(t, here) == alive /\ pc[t] = here
Goto(t, there) == pc' = [pc EXCEPT ![t] = there]
Tell(t, what) == told' = [told EXCEPT ![t] = what]

-----------------------------------------------------------------------------
Init ==
  /\ loaded = FALSE /\ simplified = TRUE /\ maxSteps \in StepLimits
  /\ once = "new" /\ built = 0 /\ world = NoWorld
  /\ made = {} /\ holder = [t \in Threads |-> NoPropagator]
  /\ pc = [t \in Threads |-> "idle"]
  /\ hand = [t \in Threads |-> NoPropagator]
  /\ told = [t \in Threads |-> "nothing"]
  /\ path = [t \in Threads |-> <<>>]
  /\ freed = NotYet

\* The application loads the geometry, or fails to.
LoadGeometry ==
  /\ alive /\ ~loaded /\ loaded' = TRUE
  /\ UNCHANGED <<simplified, maxSteps, shared, props, pc, told, path, freed>>

\* The tool is configured while no thread is inside a call.
SetSimplifiedWorldLogName ==
  /\ alive /\ Idle
  /\ loaded' \in BOOLEAN
  /\ UNCHANGED <<simplified, maxSteps, shared, props, pc, told, path, freed>>

SetUseSimplifiedGeo ==
  /\ alive /\ Idle
  /\ Reconfigure \/ once = "new"
  /\ simplified' = ~simplified
  /\ UNCHANGED <<loaded, maxSteps, shared, props, pc, told, path, freed>>

SetMaxSteps(n) ==
  /\ alive /\ Idle
  /\ maxSteps' = n
  /\ UNCHANGED <<loaded, simplified, shared, props, pc, told, path, freed>>

-----------------------------------------------------------------------------
\* initializeGeometry(): a worker reports whether the world is ready, ...
Report_Started(t) == Tell(t, IF once # "new" THEN "world" ELSE "nothing")
Report(t) == Tell(t, IF world # NoWorld THEN "world" ELSE "nothing")

AskGeometry(t) ==
  /\ At(t, "idle") /\ t \notin Masters
  /\ Report(t)
  /\ UNCHANGED <<config, shared, props, pc, path, freed>>

\* ... the master goes through std::call_once, ...
InitializeGeometry_NotOnce(t) ==
  /\ At(t, "idle") /\ t \in Masters
  /\ Goto(t, "build")
  /\ UNCHANGED <<config, shared, props, told, path, freed>>
InitializeGeometry(t) ==
  /\ At(t, "idle") /\ t \in Masters
  /\ Goto(t, "once")
  /\ UNCHANGED <<config, shared, props, told, path, freed>>

MayEnter == once = "new"
EnterOnce(t) ==
  /\ At(t, "once") /\ MayEnter
  /\ once' = "running"
  /\ Goto(t, "build")
  /\ UNCHANGED <<config, built, world, props, told, path, freed>>

\* ... which runs getWorldVolume(): a placement of its own of the simplified
\* world, or the world Geant4 tracks in, or null where it is not loaded, ...
GetWorldVolume ==
  IF ~loaded THEN NoWorld
  ELSE IF simplified THEN OwnWorld(built + 1) ELSE FullWorld
Registers == loaded /\ simplified

AfterBuild_Retry == IF GetWorldVolume = NoWorld THEN "build" ELSE "built"
AfterBuild == "built"
BuildWorld(t) ==
  /\ At(t, "build")
  /\ world' = GetWorldVolume
  /\ built' = IF Registers THEN built + 1 ELSE built
  /\ Goto(t, AfterBuild)
  /\ UNCHANGED <<config, once, props, told, path, freed>>

LeaveOnce(t) ==
  /\ At(t, "built")
  /\ once' = "done"
  /\ Goto(t, "once")
  /\ UNCHANGED <<config, built, world, props, told, path, freed>>

\* ... and reports.  A flag that is done stays done, world or no world.
PassOnce(t) ==
  /\ At(t, "once") /\ once = "done"
  /\ Report(t)
  /\ Goto(t, "idle")
  /\ UNCHANGED <<config, shared, props, path, freed>>

-----------------------------------------------------------------------------
\* initializePropagator(): nothing without a world, nothing twice.
Refuses == world = NoWorld
Builds_Always(t) == ~Refuses
Builds(t) == ~Refuses /\ holder[t] = NoPropagator

RefusePropagator(t) ==
  /\ At(t, "idle") /\ Refuses
  /\ Tell(t, "nothing")
  /\ UNCHANGED <<config, shared, props, pc, path, freed>>

KeepPropagator(t) ==
  /\ At(t, "idle") /\ ~Refuses /\ ~Builds(t)
  /\ Tell(t, "propagator")
  /\ UNCHANGED <<config, shared, props, pc, path, freed>>

\* makePropagator(): a new navigator in the world, and a new propagator.
MakePropagator(t) ==
  LET p == [by |-> t, n |-> IF holder[t] = NoPropagator THEN 1 ELSE 2,
            world |-> world]
  IN  /\ At(t, "idle") /\ Builds(t)
      /\ made' = made \cup {p}
      /\ hand' = [hand EXCEPT ![t] = p]
      /\ Goto(t, "store")
      /\ UNCHANGED <<config, shared, holder, told, path, freed>>

\* ThreadLocalHolder::set() inserts: a propagator that is there already stays.
Stored(t) == IF holder[t] = NoPropagator THEN hand[t] ELSE holder[t]
StorePropagator(t) ==
  /\ At(t, "store")
  /\ holder' = [holder EXCEPT ![t] = Stored(t)]
  /\ hand' = [hand EXCEPT ![t] = NoPropagator]
  /\ Tell(t, "propagator")
  /\ Goto(t, "idle")
  /\ UNCHANGED <<config, shared, made, path, freed>>

-----------------------------------------------------------------------------
\* transport(): an empty vector without a propagator, ...
TransportNothing(t) ==
  /\ At(t, "idle") /\ holder[t] = NoPropagator
  /\ path' = [path EXCEPT ![t] = <<>>]
  /\ UNCHANGED <<config, shared, props, pc, told, freed>>

Transport(t) ==
  /\ At(t, "idle") /\ holder[t] # NoPropagator
  /\ path' = [path EXCEPT ![t] = <<"start">>]
  /\ Goto(t, "step")
  /\ UNCHANGED <<config, shared, props, told, freed>>

\* ... otherwise steps until the limiting volume, the end of the world, or
\* m_maxSteps; where the track starts is not looked at.
MoreSteps(t) == Len(path[t]) <= maxSteps
Stops(v) == v \in {"limit", "none"}

DoStep(t) ==
  /\ At(t, "step") /\ MoreSteps(t)
  /\ \E v \in Volumes :
       /\ path' = [path EXCEPT ![t] = Append(@, v)]
       /\ Goto(t, IF Stops(v) THEN "idle" ELSE "step")
  /\ UNCHANGED <<config, shared, props, told, freed>>

StepsExhausted(t) ==
  /\ At(t, "step") /\ ~MoreSteps(t)
  /\ Goto(t, "idle")
  /\ UNCHANGED <<config, shared, props, told, path, freed>>

\* The destructor, once no thread uses the tool any more.
Deletes ==
  ({holder[t] : t \in Threads} \cup (IF simplified THEN {world} ELSE {}))
    \ {NoPropagator, NoWorld}
Destroy ==
  /\ alive /\ Idle
  /\ freed' = Deletes
  /\ UNCHANGED <<config, shared, props, pc, told, path>>

-----------------------------------------------------------------------------
Call(t) ==
  \/ AskGeometry(t) \/ InitializeGeometry(t)
  \/ RefusePropagator(t) \/ KeepPropagator(t) \/ MakePropagator(t)
  \/ TransportNothing(t) \/ Transport(t)
Continue(t) ==
  \/ EnterOnce(t) \/ BuildWorld(t) \/ LeaveOnce(t) \/ PassOnce(t)
  \/ StorePropagator(t) \/ DoStep(t) \/ StepsExhausted(t)

Next ==
  \/ LoadGeometry \/ SetSimplifiedWorldLogName \/ SetUseSimplifiedGeo \/ Destroy
  \/ \E n \in StepLimits : SetMaxSteps(n)
  \/ \E t \in Threads : Call(t) \/ Continue(t)

Spec == Init /\ [][Next]_vars

\* A thread inside a call is scheduled again; nobody has to make a call.
LiveSpec == Spec /\ \A t \in Threads : WF_vars(Continue(t))

-----------------------------------------------------------------------------
\* The variables have the types of the code, and no navigator is without a
\* world.
TypeOK ==
  /\ loaded \in BOOLEAN /\ simplified \in BOOLEAN /\ maxSteps \in StepLimits
  /\ once \in {"new", "running", "done"}
  /\ built \in Nat /\ world \in Worlds
  /\ made \subseteq Propagators
  /\ holder \in [Threads -> Propagators \cup {NoPropagator}]
  /\ hand \in [Threads -> Propagators \cup {NoPropagator}]
  /\ pc \in [Threads -> {"idle", "once", "build", "built", "store", "step"}]
  /\ told \in [Threads -> {"nothing", "world", "propagator"}]
  /\ path \in [Threads -> Seq(Volumes \cup {"start"})]

\* "created exactly once" (G4CaloTransportTool.cxx:33): however the threads
\* interleave, no second world is registered, a world that was handed out is
\* never replaced, and all propagators navigate in it.
OneWorld ==
  /\ built <= 1
  /\ \A p \in made : p.world = world /\ world # NoWorld

\* A propagator is used by the thread that made it only, and none is made that
\* neither the holder nor the thread that is about to store it knows: the
\* destructor, which goes by the holder, reaches them all.
NothingLost ==
  /\ \A t \in Threads :
       holder[t] # NoPropagator => holder[t] \in made /\ holder[t].by = t
  /\ \A p \in made : p \in {holder[p.by], hand[p.by]}

\* What a thread was told to be ready is ready, and remains so: one told that
\* its propagator is there gets steps and not the empty vector.
AnswersHold ==
  \A t \in Threads :
    /\ told[t] # "nothing" => world # NoWorld
    /\ told[t] = "propagator" => holder[t] # NoPropagator

\* The world is written once: after the flag is done, a failure is final and
\* a world is there to stay, whatever is loaded or set later.
DecidedOnce == [][once = "done" => world' = world /\ once' = "done"]_vars

\* A path ends in the limiting volume, outside the world, or after exactly
\* m_maxSteps steps, and goes on from nowhere else.
LastOf(s) == s[Len(s)]
Ended(p) == LastOf(p) \in {"limit", "none"}
EndsWhereItMust ==
  [][\A t \in Threads : pc[t] = "step" =>
       /\ pc'[t] = "idle" => Ended(path'[t]) \/ Len(path'[t]) = maxSteps + 1
       /\ path'[t] # path[t] =>
            /\ Len(path'[t]) <= maxSteps + 1
            /\ Ended(path'[t]) => pc'[t] = "idle"]_vars

\* Every call returns: no thread waits for the world for ever, and no track is
\* stepped for ever.
CallsReturn == \A t \in Threads : pc[t] # "idle" ~> pc[t] = "idle"

\* "Delete the world volume if we created it" (G4CaloTransportTool.cxx:18): the
\* destructor deletes what the tool made, all of it and nothing else.
DeletesWhatItMade ==
  ~alive => freed = made \cup {OwnWorld(n) : n \in 1 .. built}

\* One world, and what the tool made is gone with it and nothing else is.
OneWorldCleanedUp == OneWorld /\ DeletesWhatItMade

\* Transport comes to its end: the world is decided once, every track stops
\* where it must, and every call returns.
TransportEnds == DecidedOnce /\ EndsWhereItMust /\ CallsReturn
=============================================================================
