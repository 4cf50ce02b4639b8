------------------------ MODULE Calorimeter_proofs ------------------------
(***************************************************************************)
(* Proofs about CaloTransport and CaloGeo.  Transport: for any set of       *)
(* threads, any of which may count as the master, there is one world at     *)
(* most, every propagator lives in it and is known to the destructor, and   *)
(* an answer once given holds.  Geometry: for any detectors, threads and    *)
(* positions, a lookup finds the cell that the position is in, and what a   *)
(* loaded geometry says of its layers is what its stored cells say.         *)
(***************************************************************************)
EXTENDS CaloTransport, Extrapolation, FiniteSetTheorems, SequenceTheorems,
        WellFoundedInduction, TLAPS

Building(t) == pc[t] \in {"build", "built"}

\* What std::call_once is for: one thread builds, and it builds first.
Flag ==
  /\ \A t \in Threads : Building(t) => once = "running"
  /\ \A t, u \in Threads : Building(t) /\ Building(u) => t = u
  /\ once = "new" => world = NoWorld /\ built = 0
  /\ \A t \in Threads : pc[t] = "build" => world = NoWorld /\ built = 0

\* A propagator is in the hand of its thread until it is in the holder.
Handover ==
  \A t \in Threads :
    /\ hand[t] # NoPropagator => hand[t] \in made /\ hand[t].by = t
    /\ pc[t] = "store" <=> hand[t] # NoPropagator
    /\ pc[t] = "store" => holder[t] = NoPropagator

IInv == TypeOK /\ Flag /\ OneWorld /\ Handover /\ NothingLost /\ AnswersHold

LEMMA WorldTypes ==
  /\ NoWorld \in Worlds /\ FullWorld \in Worlds
  /\ FullWorld # NoWorld
  /\ \A n \in Nat : OwnWorld(n) \in Worlds /\ OwnWorld(n) # NoWorld
BY DEF Worlds, NoWorld, FullWorld, OwnWorld

LEMMA NoPropagatorIsNone == \A p \in Propagators : p # NoPropagator
BY DEF Propagators, NoPropagator

LEMMA TypeStep ==
  ASSUME TypeOK, [Next]_vars
  PROVE  TypeOK'
<1>1. CASE UNCHANGED vars
  BY <1>1 DEF vars, config, shared, props, TypeOK
<1>2. CASE LoadGeometry \/ SetSimplifiedWorldLogName \/ SetUseSimplifiedGeo \/ Destroy
  BY <1>2 DEF LoadGeometry, SetSimplifiedWorldLogName, SetUseSimplifiedGeo, Destroy,
       config, shared, props, TypeOK
<1>3. ASSUME NEW n \in StepLimits, SetMaxSteps(n)
      PROVE  TypeOK'
  BY <1>3 DEF SetMaxSteps, config, shared, props, TypeOK
<1>4. ASSUME NEW t \in Threads, Call(t) \/ Continue(t)
      PROVE  TypeOK'
  <2>1. CASE AskGeometry(t)
    BY <2>1 DEF AskGeometry, At, Report, Tell, config, shared, props,
         TypeOK
  <2>2. CASE InitializeGeometry(t)
    BY <2>2 DEF InitializeGeometry, At, Goto, config, shared, props,
         TypeOK
  <2>3. CASE RefusePropagator(t)
    BY <2>3 DEF RefusePropagator, At, Tell, config, shared, props,
         TypeOK
  <2>4. CASE KeepPropagator(t)
    BY <2>4 DEF KeepPropagator, At, Refuses, Builds, Tell, config, shared, props,
         TypeOK
  <2>5. CASE MakePropagator(t)
    <3> DEFINE p == [by |-> t, n |-> IF holder[t] = NoPropagator THEN 1 ELSE 2,
                     world |-> world]
    <3>1. world # NoWorld
      BY <2>5 DEF MakePropagator, Builds, Refuses
    <3>2. p \in Propagators
      BY <3>1 DEF Propagators, TypeOK
    <3>3. made' = made \cup {p} /\ hand' = [hand EXCEPT ![t] = p]
      BY <2>5 DEF MakePropagator
    <3> HIDE DEF p
    <3> QED
      BY <2>5, <3>2, <3>3 DEF MakePropagator, Goto, config, shared, TypeOK
  <2>6. CASE TransportNothing(t)
    BY <2>6 DEF TransportNothing, At, config, shared, props,
         TypeOK
  <2>7. CASE Transport(t)
    <3>1. <<"start">> \in Seq(Volumes \cup {"start"})
      OBVIOUS
    <3> QED
      BY <2>7, <3>1 DEF Transport, Goto, config, shared, props, TypeOK
  <2>8. CASE EnterOnce(t)
    BY <2>8 DEF EnterOnce, At, MayEnter, Goto, config, shared, props,
         TypeOK
  <2>9. CASE BuildWorld(t)
    BY <2>9, WorldTypes DEF BuildWorld, At, GetWorldVolume, Registers, AfterBuild, Goto, config, shared, props,
         TypeOK
  <2>10. CASE LeaveOnce(t)
    BY <2>10 DEF LeaveOnce, At, Goto, config, shared, props,
         TypeOK
  <2>11. CASE PassOnce(t)
    BY <2>11 DEF PassOnce, At, Report, Tell, Goto, config, shared, props,
         TypeOK
  <2>12. CASE StorePropagator(t)
    BY <2>12 DEF StorePropagator, At, Stored, Tell, Goto, config, shared, props,
         TypeOK
  <2>13. CASE DoStep(t)
    <3>1. PICK v \in Volumes :
            /\ path' = [path EXCEPT ![t] = Append(@, v)]
            /\ pc' = [pc EXCEPT ![t] = IF Stops(v) THEN "idle" ELSE "step"]
      BY <2>13 DEF DoStep, Goto
    <3>2. Append(path[t], v) \in Seq(Volumes \cup {"start"})
      BY AppendProperties DEF TypeOK
    <3>3. path' \in [Threads -> Seq(Volumes \cup {"start"})]
      BY <3>1, <3>2 DEF TypeOK
    <3>4. pc' \in [Threads -> {"idle", "once", "build", "built", "store", "step"}]
      BY <3>1 DEF TypeOK
    <3> QED
      BY <2>13, <3>3, <3>4 DEF DoStep, config, shared, props, TypeOK
  <2>14. CASE StepsExhausted(t)
    BY <2>14 DEF StepsExhausted, At, Goto, config, shared, props,
         TypeOK
  <2> QED
    BY <1>4, <2>1, <2>2, <2>3, <2>4, <2>5, <2>6, <2>7, <2>8, <2>9, <2>10, <2>11, <2>12, <2>13, <2>14 DEF Call, Continue
<1> QED
  BY <1>1, <1>2, <1>3, <1>4 DEF Next

LEMMA FlagStep ==
  ASSUME TypeOK, Flag, [Next]_vars
  PROVE  Flag'
<1>1. CASE UNCHANGED vars
  BY <1>1 DEF vars, config, shared, props, Flag, Building, TypeOK
<1>2. CASE LoadGeometry \/ SetSimplifiedWorldLogName \/ SetUseSimplifiedGeo \/ Destroy
  BY <1>2 DEF LoadGeometry, SetSimplifiedWorldLogName, SetUseSimplifiedGeo, Destroy,
       config, shared, props, Flag, Building, TypeOK
<1>3. ASSUME NEW n \in StepLimits, SetMaxSteps(n)
      PROVE  Flag'
  BY <1>3 DEF SetMaxSteps, config, shared, props, Flag, Building, TypeOK
<1>4. ASSUME NEW t \in Threads, Call(t) \/ Continue(t)
      PROVE  Flag'
  <2>1. CASE AskGeometry(t)
    BY <2>1 DEF AskGeometry, At, Report, Tell, config, shared, props,
         Flag, Building, TypeOK
  <2>2. CASE InitializeGeometry(t)
    BY <2>2 DEF InitializeGeometry, At, Goto, config, shared, props,
         Flag, Building, TypeOK
  <2>3. CASE RefusePropagator(t)
    BY <2>3 DEF RefusePropagator, At, Tell, config, shared, props,
         Flag, Building, TypeOK
  <2>4. CASE KeepPropagator(t)
    BY <2>4 DEF KeepPropagator, At, Refuses, Builds, Tell, config, shared, props,
         Flag, Building, TypeOK
  <2>5. CASE MakePropagator(t)
    BY <2>5 DEF MakePropagator, At, Refuses, Builds, Goto, config, shared, props,
         Flag, Building, TypeOK
  <2>6. CASE TransportNothing(t)
    BY <2>6 DEF TransportNothing, At, config, shared, props,
         Flag, Building, TypeOK
  <2>7. CASE Transport(t)
    BY <2>7 DEF Transport, At, Goto, config, shared, props,
         Flag, Building, TypeOK
  <2>8. CASE EnterOnce(t)
    BY <2>8 DEF EnterOnce, At, MayEnter, Goto, config, shared, props,
         Flag, Building, TypeOK
  <2>9. CASE BuildWorld(t)
    BY <2>9, WorldTypes DEF BuildWorld, At, GetWorldVolume, Registers, AfterBuild, Goto, config, shared, props,
         Flag, Building, TypeOK
  <2>10. CASE LeaveOnce(t)
    BY <2>10 DEF LeaveOnce, At, Goto, config, shared, props,
         Flag, Building, TypeOK
  <2>11. CASE PassOnce(t)
    BY <2>11 DEF PassOnce, At, Report, Tell, Goto, config, shared, props,
         Flag, Building, TypeOK
  <2>12. CASE StorePropagator(t)
    BY <2>12 DEF StorePropagator, At, Stored, Tell, Goto, config, shared, props,
         Flag, Building, TypeOK
  <2>13. CASE DoStep(t)
    BY <2>13 DEF DoStep, At, Goto, config, shared, props,
         Flag, Building, TypeOK
  <2>14. CASE StepsExhausted(t)
    BY <2>14 DEF StepsExhausted, At, Goto, config, shared, props,
         Flag, Building, TypeOK
  <2> QED
    BY <1>4, <2>1, <2>2, <2>3, <2>4, <2>5, <2>6, <2>7, <2>8, <2>9, <2>10, <2>11, <2>12, <2>13, <2>14 DEF Call, Continue
<1> QED
  BY <1>1, <1>2, <1>3, <1>4 DEF Next

LEMMA WorldStep ==
  ASSUME TypeOK, Flag, OneWorld, [Next]_vars
  PROVE  OneWorld'
<1>1. CASE UNCHANGED vars
  BY <1>1 DEF vars, config, shared, props, OneWorld, TypeOK
<1>2. CASE LoadGeometry \/ SetSimplifiedWorldLogName \/ SetUseSimplifiedGeo \/ Destroy
  BY <1>2 DEF LoadGeometry, SetSimplifiedWorldLogName, SetUseSimplifiedGeo, Destroy,
       config, shared, props, OneWorld, TypeOK
<1>3. ASSUME NEW n \in StepLimits, SetMaxSteps(n)
      PROVE  OneWorld'
  BY <1>3 DEF SetMaxSteps, config, shared, props, OneWorld, TypeOK
<1>4. ASSUME NEW t \in Threads, Call(t) \/ Continue(t)
      PROVE  OneWorld'
  <2>1. CASE AskGeometry(t)
    BY <2>1 DEF AskGeometry, At, Report, Tell, config, shared, props,
         OneWorld, TypeOK
  <2>2. CASE InitializeGeometry(t)
    BY <2>2 DEF InitializeGeometry, At, Goto, config, shared, props,
         OneWorld, TypeOK
  <2>3. CASE RefusePropagator(t)
    BY <2>3 DEF RefusePropagator, At, Tell, config, shared, props,
         OneWorld, TypeOK
  <2>4. CASE KeepPropagator(t)
    BY <2>4 DEF KeepPropagator, At, Refuses, Builds, Tell, config, shared, props,
         OneWorld, TypeOK
  <2>5. CASE MakePropagator(t)
    <3>1. world # NoWorld /\ UNCHANGED <<built, world>>
      BY <2>5 DEF MakePropagator, Builds, Refuses, shared
    <3>2. \A p \in made' : p \in made \/ p.world = world
      BY <2>5 DEF MakePropagator
    <3> QED
      BY <3>1, <3>2 DEF OneWorld
  <2>6. CASE TransportNothing(t)
    BY <2>6 DEF TransportNothing, At, config, shared, props,
         OneWorld, TypeOK
  <2>7. CASE Transport(t)
    BY <2>7 DEF Transport, At, Goto, config, shared, props,
         OneWorld, TypeOK
  <2>8. CASE EnterOnce(t)
    BY <2>8 DEF EnterOnce, At, MayEnter, Goto, config, shared, props,
         OneWorld, TypeOK
  <2>9. CASE BuildWorld(t)
    <3>1. world = NoWorld /\ built = 0
      BY <2>9 DEF BuildWorld, At, Flag
    <3>2. made = {}
      BY <3>1 DEF OneWorld
    <3> QED
      BY <2>9, <3>1, <3>2 DEF BuildWorld, Registers, props, OneWorld
  <2>10. CASE LeaveOnce(t)
    BY <2>10 DEF LeaveOnce, At, Goto, config, shared, props,
         OneWorld, TypeOK
  <2>11. CASE PassOnce(t)
    BY <2>11 DEF PassOnce, At, Report, Tell, Goto, config, shared, props,
         OneWorld, TypeOK
  <2>12. CASE StorePropagator(t)
    BY <2>12 DEF StorePropagator, At, Stored, Tell, Goto, config, shared, props,
         OneWorld, TypeOK
  <2>13. CASE DoStep(t)
    BY <2>13 DEF DoStep, At, Goto, config, shared, props,
         OneWorld, TypeOK
  <2>14. CASE StepsExhausted(t)
    BY <2>14 DEF StepsExhausted, At, Goto, config, shared, props,
         OneWorld, TypeOK
  <2> QED
    BY <1>4, <2>1, <2>2, <2>3, <2>4, <2>5, <2>6, <2>7, <2>8, <2>9, <2>10, <2>11, <2>12, <2>13, <2>14 DEF Call, Continue
<1> QED
  BY <1>1, <1>2, <1>3, <1>4 DEF Next

LEMMA HandoverStep ==
  ASSUME TypeOK, Handover, [Next]_vars
  PROVE  Handover'
<1>1. CASE UNCHANGED vars
  BY <1>1 DEF vars, config, shared, props, Handover, TypeOK
<1>2. CASE LoadGeometry \/ SetSimplifiedWorldLogName \/ SetUseSimplifiedGeo \/ Destroy
  BY <1>2 DEF LoadGeometry, SetSimplifiedWorldLogName, SetUseSimplifiedGeo, Destroy,
       config, shared, props, Handover, TypeOK
<1>3. ASSUME NEW n \in StepLimits, SetMaxSteps(n)
      PROVE  Handover'
  BY <1>3 DEF SetMaxSteps, config, shared, props, Handover, TypeOK
<1>4. ASSUME NEW t \in Threads, Call(t) \/ Continue(t)
      PROVE  Handover'
  <2>1. CASE AskGeometry(t)
    BY <2>1 DEF AskGeometry, At, Report, Tell, config, shared, props,
         Handover, TypeOK
  <2>2. CASE InitializeGeometry(t)
    BY <2>2 DEF InitializeGeometry, At, Goto, config, shared, props,
         Handover, TypeOK
  <2>3. CASE RefusePropagator(t)
    BY <2>3 DEF RefusePropagator, At, Tell, config, shared, props,
         Handover, TypeOK
  <2>4. CASE KeepPropagator(t)
    BY <2>4 DEF KeepPropagator, At, Refuses, Builds, Tell, config, shared, props,
         Handover, TypeOK
  <2>5. CASE MakePropagator(t)
    <3> DEFINE p == [by |-> t, n |-> IF holder[t] = NoPropagator THEN 1 ELSE 2,
                     world |-> world]
    <3>1. p.by = t /\ p # NoPropagator
      BY <2>5 DEF MakePropagator, Builds, Refuses, NoPropagator
    <3>2. /\ made' = made \cup {p} /\ hand' = [hand EXCEPT ![t] = p]
          /\ pc' = [pc EXCEPT ![t] = "store"]
          /\ holder' = holder /\ holder[t] = NoPropagator
      BY <2>5 DEF MakePropagator, Builds, Goto
    <3> HIDE DEF p
    <3> QED
      BY <3>1, <3>2 DEF Handover, TypeOK
  <2>6. CASE TransportNothing(t)
    BY <2>6 DEF TransportNothing, At, config, shared, props,
         Handover, TypeOK
  <2>7. CASE Transport(t)
    BY <2>7 DEF Transport, At, Goto, config, shared, props,
         Handover, TypeOK
  <2>8. CASE EnterOnce(t)
    BY <2>8 DEF EnterOnce, At, MayEnter, Goto, config, shared, props,
         Handover, TypeOK
  <2>9. CASE BuildWorld(t)
    BY <2>9 DEF BuildWorld, At, GetWorldVolume, Registers, AfterBuild, Goto, config, shared, props,
         Handover, TypeOK
  <2>10. CASE LeaveOnce(t)
    BY <2>10 DEF LeaveOnce, At, Goto, config, shared, props,
         Handover, TypeOK
  <2>11. CASE PassOnce(t)
    BY <2>11 DEF PassOnce, At, Report, Tell, Goto, config, shared, props,
         Handover, TypeOK
  <2>12. CASE StorePropagator(t)
    BY <2>12 DEF StorePropagator, At, Stored, Tell, Goto, config, shared, props,
         Handover, TypeOK
  <2>13. CASE DoStep(t)
    BY <2>13 DEF DoStep, At, Goto, config, shared, props,
         Handover, TypeOK
  <2>14. CASE StepsExhausted(t)
    BY <2>14 DEF StepsExhausted, At, Goto, config, shared, props,
         Handover, TypeOK
  <2> QED
    BY <1>4, <2>1, <2>2, <2>3, <2>4, <2>5, <2>6, <2>7, <2>8, <2>9, <2>10, <2>11, <2>12, <2>13, <2>14 DEF Call, Continue
<1> QED
  BY <1>1, <1>2, <1>3, <1>4 DEF Next

LEMMA LostStep ==
  ASSUME TypeOK, Handover, NothingLost, [Next]_vars
  PROVE  NothingLost'
<1>1. CASE UNCHANGED vars
  BY <1>1 DEF vars, config, shared, props, NothingLost, TypeOK
<1>2. CASE LoadGeometry \/ SetSimplifiedWorldLogName \/ SetUseSimplifiedGeo \/ Destroy
  BY <1>2 DEF LoadGeometry, SetSimplifiedWorldLogName, SetUseSimplifiedGeo, Destroy,
       config, shared, props, NothingLost, TypeOK
<1>3. ASSUME NEW n \in StepLimits, SetMaxSteps(n)
      PROVE  NothingLost'
  BY <1>3 DEF SetMaxSteps, config, shared, props, NothingLost, TypeOK
<1>4. ASSUME NEW t \in Threads, Call(t) \/ Continue(t)
      PROVE  NothingLost'
  <2>1. CASE AskGeometry(t)
    BY <2>1 DEF AskGeometry, At, Report, Tell, config, shared, props,
         NothingLost, TypeOK
  <2>2. CASE InitializeGeometry(t)
    BY <2>2 DEF InitializeGeometry, At, Goto, config, shared, props,
         NothingLost, TypeOK
  <2>3. CASE RefusePropagator(t)
    BY <2>3 DEF RefusePropagator, At, Tell, config, shared, props,
         NothingLost, TypeOK
  <2>4. CASE KeepPropagator(t)
    BY <2>4 DEF KeepPropagator, At, Refuses, Builds, Tell, config, shared, props,
         NothingLost, TypeOK
  <2>5. CASE MakePropagator(t)
    <3> DEFINE p == [by |-> t, n |-> IF holder[t] = NoPropagator THEN 1 ELSE 2,
                     world |-> world]
    <3>1. p.by = t
      OBVIOUS
    <3>2. /\ made' = made \cup {p} /\ hand' = [hand EXCEPT ![t] = p]
          /\ holder' = holder /\ pc[t] = "idle"
      BY <2>5 DEF MakePropagator, At
    <3> HIDE DEF p
    <3>3. hand[t] = NoPropagator
      BY <3>2 DEF Handover
    <3>4. \A q \in made : q.by \in Threads /\ q # NoPropagator
      BY NoPropagatorIsNone DEF TypeOK, Propagators
    <3>5. \A q \in made' : q \in {holder'[q.by], hand'[q.by]}
      BY <3>1, <3>2, <3>3, <3>4 DEF NothingLost, TypeOK
    <3> QED
      BY <3>2, <3>5 DEF NothingLost
  <2>6. CASE TransportNothing(t)
    BY <2>6 DEF TransportNothing, At, config, shared, props,
         NothingLost, TypeOK
  <2>7. CASE Transport(t)
    BY <2>7 DEF Transport, At, Goto, config, shared, props,
         NothingLost, TypeOK
  <2>8. CASE EnterOnce(t)
    BY <2>8 DEF EnterOnce, At, MayEnter, Goto, config, shared, props,
         NothingLost, TypeOK
  <2>9. CASE BuildWorld(t)
    BY <2>9 DEF BuildWorld, At, GetWorldVolume, Registers, AfterBuild, Goto, config, shared, props,
         NothingLost, TypeOK
  <2>10. CASE LeaveOnce(t)
    BY <2>10 DEF LeaveOnce, At, Goto, config, shared, props,
         NothingLost, TypeOK
  <2>11. CASE PassOnce(t)
    BY <2>11 DEF PassOnce, At, Report, Tell, Goto, config, shared, props,
         NothingLost, TypeOK
  <2>12. CASE StorePropagator(t)
    <3>1. /\ pc[t] = "store" /\ holder[t] = NoPropagator /\ made' = made
          /\ hand[t] \in made /\ hand[t].by = t
      BY <2>12 DEF StorePropagator, At, Handover
    <3>2. /\ holder' = [holder EXCEPT ![t] = hand[t]]
          /\ hand' = [hand EXCEPT ![t] = NoPropagator]
      BY <2>12, <3>1 DEF StorePropagator, Stored
    <3>3. \A q \in made : q.by \in Threads /\ q # NoPropagator
      BY NoPropagatorIsNone DEF TypeOK, Propagators
    <3>4. \A q \in made : q \in {holder'[q.by], hand'[q.by]}
      BY <3>1, <3>2, <3>3 DEF NothingLost, TypeOK
    <3> QED
      BY <3>1, <3>2, <3>4 DEF NothingLost, TypeOK
  <2>13. CASE DoStep(t)
    BY <2>13 DEF DoStep, At, Goto, config, shared, props,
         NothingLost, TypeOK
  <2>14. CASE StepsExhausted(t)
    BY <2>14 DEF StepsExhausted, At, Goto, config, shared, props,
         NothingLost, TypeOK
  <2> QED
    BY <1>4, <2>1, <2>2, <2>3, <2>4, <2>5, <2>6, <2>7, <2>8, <2>9, <2>10, <2>11, <2>12, <2>13, <2>14 DEF Call, Continue
<1> QED
  BY <1>1, <1>2, <1>3, <1>4 DEF Next

LEMMA AnswerStep ==
  ASSUME TypeOK, Flag, OneWorld, Handover, AnswersHold, [Next]_vars
  PROVE  AnswersHold'
<1>1. CASE UNCHANGED vars
  BY <1>1 DEF vars, config, shared, props, AnswersHold, TypeOK
<1>2. CASE LoadGeometry \/ SetSimplifiedWorldLogName \/ SetUseSimplifiedGeo \/ Destroy
  BY <1>2 DEF LoadGeometry, SetSimplifiedWorldLogName, SetUseSimplifiedGeo, Destroy,
       config, shared, props, AnswersHold, TypeOK
<1>3. ASSUME NEW n \in StepLimits, SetMaxSteps(n)
      PROVE  AnswersHold'
  BY <1>3 DEF SetMaxSteps, config, shared, props, AnswersHold, TypeOK
<1>4. ASSUME NEW t \in Threads, Call(t) \/ Continue(t)
      PROVE  AnswersHold'
  <2>1. CASE AskGeometry(t)
    BY <2>1 DEF AskGeometry, At, Report, Tell, config, shared, props,
         AnswersHold, TypeOK
  <2>2. CASE InitializeGeometry(t)
    BY <2>2 DEF InitializeGeometry, At, Goto, config, shared, props,
         AnswersHold, TypeOK
  <2>3. CASE RefusePropagator(t)
    BY <2>3 DEF RefusePropagator, At, Tell, config, shared, props,
         AnswersHold, TypeOK
  <2>4. CASE KeepPropagator(t)
    BY <2>4 DEF KeepPropagator, At, Refuses, Builds, Tell, config, shared, props,
         AnswersHold, TypeOK
  <2>5. CASE MakePropagator(t)
    BY <2>5 DEF MakePropagator, At, Refuses, Builds, Goto, config, shared, props,
         AnswersHold, TypeOK
  <2>6. CASE TransportNothing(t)
    BY <2>6 DEF TransportNothing, At, config, shared, props,
         AnswersHold, TypeOK
  <2>7. CASE Transport(t)
    BY <2>7 DEF Transport, At, Goto, config, shared, props,
         AnswersHold, TypeOK
  <2>8. CASE EnterOnce(t)
    BY <2>8 DEF EnterOnce, At, MayEnter, Goto, config, shared, props,
         AnswersHold, TypeOK
  <2>9. CASE BuildWorld(t)
    <3>1. world = NoWorld
      BY <2>9 DEF BuildWorld, At, Flag
    <3>2. \A u \in Threads : told[u] = "nothing"
      BY <3>1 DEF AnswersHold
    <3> QED
      BY <2>9, <3>2 DEF BuildWorld, AnswersHold
  <2>10. CASE LeaveOnce(t)
    BY <2>10 DEF LeaveOnce, At, Goto, config, shared, props,
         AnswersHold, TypeOK
  <2>11. CASE PassOnce(t)
    BY <2>11 DEF PassOnce, At, Report, Tell, Goto, config, shared, props,
         AnswersHold, TypeOK
  <2>12. CASE StorePropagator(t)
    <3>1. hand[t] # NoPropagator /\ hand[t] \in made
      BY <2>12 DEF StorePropagator, At, Handover
    <3>2. world # NoWorld /\ world' = world
      BY <2>12, <3>1 DEF OneWorld, StorePropagator, shared
    <3>3. /\ told' = [told EXCEPT ![t] = "propagator"]
          /\ holder' = [holder EXCEPT ![t] = hand[t]]
      BY <2>12 DEF StorePropagator, Stored, At, Tell, Handover
    <3> QED
      BY <3>1, <3>2, <3>3 DEF AnswersHold, TypeOK
  <2>13. CASE DoStep(t)
    BY <2>13 DEF DoStep, At, Goto, config, shared, props,
         AnswersHold, TypeOK
  <2>14. CASE StepsExhausted(t)
    BY <2>14 DEF StepsExhausted, At, Goto, config, shared, props,
         AnswersHold, TypeOK
  <2> QED
    BY <1>4, <2>1, <2>2, <2>3, <2>4, <2>5, <2>6, <2>7, <2>8, <2>9, <2>10, <2>11, <2>12, <2>13, <2>14 DEF Call, Continue
<1> QED
  BY <1>1, <1>2, <1>3, <1>4 DEF Next

LEMMA Initially == Init => IInv
<1> SUFFICES ASSUME Init PROVE IInv
  OBVIOUS
<1>1. TypeOK
  <2>1. <<>> \in Seq(Volumes \cup {"start"})
    OBVIOUS
  <2> QED
    BY <2>1, WorldTypes DEF Init, TypeOK
<1>2. Flag /\ OneWorld
  BY DEF Init, Flag, Building, OneWorld
<1>3. Handover /\ NothingLost /\ AnswersHold
  BY DEF Init, Handover, NothingLost, AnswersHold
<1> QED
  BY <1>1, <1>2, <1>3 DEF IInv

LEMMA Preserved == IInv /\ [Next]_vars => IInv'
BY TypeStep, FlagStep, WorldStep, HandoverStep, LostStep, AnswerStep DEF IInv

\* The parts of the invariant hold together in every reachable state.
THEOREM Invariant == Spec => []IInv
BY Initially, Preserved, PTL DEF Spec

\* The types, for any set of threads, and no navigator without a world.
THEOREM TypeCorrect == Spec => []TypeOK
<1>1. IInv => TypeOK
  BY DEF IInv
<1> QED
  BY Invariant, <1>1, PTL

\* "created exactly once" (G4CaloTransportTool.cxx:33), for any set of threads
\* that count as the master: one world, and all propagators in it.
THEOREM OneWorldEver == Spec => []OneWorld
<1>1. IInv => OneWorld
  BY DEF IInv
<1> QED
  BY Invariant, <1>1, PTL

\* The destructor reaches every propagator any thread ever made.
THEOREM NothingIsEverLost == Spec => []NothingLost
<1>1. IInv => NothingLost
  BY DEF IInv
<1> QED
  BY Invariant, <1>1, PTL

\* What initializeGeometry() and initializePropagator() report as ready is ready.
THEOREM AnswersStayTrue == Spec => []AnswersHold
<1>1. IInv => AnswersHold
  BY DEF IInv
<1> QED
  BY Invariant, <1>1, PTL

\* Whatever the first initializeGeometry() of a master found is the last word.
THEOREM DecidedForGood == Spec => DecidedOnce
<1>1. IInv /\ [Next]_vars => [once = "done" => world' = world /\ once' = "done"]_vars
  <2> SUFFICES ASSUME IInv, Next, once = "done"
               PROVE  world' = world /\ once' = "done"
    OBVIOUS
  <2>1. CASE LoadGeometry \/ SetSimplifiedWorldLogName \/ SetUseSimplifiedGeo \/ Destroy
    BY <2>1 DEF LoadGeometry, SetSimplifiedWorldLogName, SetUseSimplifiedGeo,
         Destroy, shared
  <2>2. CASE \E n \in StepLimits : SetMaxSteps(n)
    BY <2>2 DEF SetMaxSteps, shared
  <2>3. ASSUME NEW t \in Threads, Call(t)
        PROVE  world' = world /\ once' = "done"
    BY <2>3 DEF Call, AskGeometry, InitializeGeometry, RefusePropagator,
         KeepPropagator, MakePropagator, TransportNothing, Transport, shared
  <2>4. ASSUME NEW t \in Threads, Continue(t)
        PROVE  world' = world /\ once' = "done"
    <3>1. pc[t] \notin {"build", "built"}
      BY DEF IInv, Flag, Building
    <3>2. ~EnterOnce(t) /\ ~BuildWorld(t) /\ ~LeaveOnce(t)
      BY <3>1 DEF EnterOnce, MayEnter, BuildWorld, LeaveOnce, At
    <3> QED
      BY <2>4, <3>2 DEF Continue, PassOnce, StorePropagator, DoStep,
           StepsExhausted, shared
  <2> QED
    BY <2>1, <2>2, <2>3, <2>4 DEF Next
<1> QED
  BY Invariant, <1>1, PTL DEF Spec, DecidedOnce

\* What the destructor goes by: as long as setUseSimplifiedGeo() is not called
\* once the world was asked for, m_useSimplifiedGeo tells whose world it is.
OwnsAsConfigured ==
  alive =>
    /\ built = 0 => world \in {NoWorld, FullWorld}
    /\ built = 1 => world = OwnWorld(1)
    /\ world # NoWorld => (simplified <=> built = 1)

CInv == IInv /\ OwnsAsConfigured /\ DeletesWhatItMade

LEMMA OnlyDestroyFrees ==
  ASSUME Next
  PROVE  alive /\ (Destroy \/ freed' = freed)
BY DEF Next, LoadGeometry, SetSimplifiedWorldLogName, SetUseSimplifiedGeo, Destroy,
     SetMaxSteps, Call, Continue, At, AskGeometry, InitializeGeometry, RefusePropagator,
     KeepPropagator, MakePropagator, TransportNothing, Transport, EnterOnce, BuildWorld,
     LeaveOnce, PassOnce, StorePropagator, DoStep, StepsExhausted

LEMMA OwnStep ==
  ASSUME ~Reconfigure, TypeOK, Flag, OwnsAsConfigured, [Next]_vars
  PROVE  OwnsAsConfigured'
<1>1. CASE UNCHANGED vars
  BY <1>1 DEF vars, config, shared, OwnsAsConfigured, alive
<1>2. CASE LoadGeometry \/ SetSimplifiedWorldLogName \/ Destroy
           \/ \E n \in StepLimits : SetMaxSteps(n)
  BY <1>2 DEF LoadGeometry, SetSimplifiedWorldLogName, Destroy, SetMaxSteps, config, shared,
       OwnsAsConfigured, alive
<1>3. CASE SetUseSimplifiedGeo
  <2>1. world = NoWorld /\ built = 0
    BY <1>3 DEF SetUseSimplifiedGeo, Flag
  <2> QED
    BY <1>3, <2>1 DEF SetUseSimplifiedGeo, shared, OwnsAsConfigured
<1>4. ASSUME NEW t \in Threads, Call(t) \/ Continue(t), ~BuildWorld(t)
      PROVE  OwnsAsConfigured'
  <2>1. alive /\ UNCHANGED <<simplified, built, world>>
    BY <1>4 DEF Call, Continue, At, AskGeometry, InitializeGeometry, RefusePropagator,
         KeepPropagator, MakePropagator, TransportNothing, Transport, EnterOnce,
         LeaveOnce, PassOnce, StorePropagator, DoStep, StepsExhausted, config, shared
  <2> QED
    BY <2>1 DEF OwnsAsConfigured
<1>5. ASSUME NEW t \in Threads, BuildWorld(t)
      PROVE  OwnsAsConfigured'
  <2>1. built = 0
    BY <1>5 DEF BuildWorld, At, Flag
  <2>2. /\ world' = GetWorldVolume /\ simplified' = simplified
        /\ built' = IF Registers THEN built + 1 ELSE built
    BY <1>5 DEF BuildWorld, config
  <2>3. CASE loaded /\ simplified
    BY <2>1, <2>2, <2>3, WorldTypes DEF GetWorldVolume, Registers, OwnsAsConfigured, TypeOK
  <2>4. CASE ~(loaded /\ simplified)
    BY <2>1, <2>2, <2>4, WorldTypes DEF GetWorldVolume, Registers, OwnsAsConfigured, TypeOK
  <2> QED
    BY <2>3, <2>4
<1> QED
  BY <1>1, <1>2, <1>3, <1>4, <1>5 DEF Next

LEMMA WorldsAndPropagators ==
  /\ \A p \in Propagators : p # NoWorld
  /\ OwnWorld(1) # NoPropagator
<1>1. ASSUME NEW p \in Propagators
      PROVE  p # NoWorld
  <2>1. DOMAIN p = {"by", "n", "world"}
    BY DEF Propagators
  <2>2. DOMAIN NoWorld = {"kind", "n"}
    BY DEF NoWorld
  <2> QED
    BY <2>1, <2>2
<1>2. OwnWorld(1) # NoPropagator
  <2>1. DOMAIN OwnWorld(1) = {"kind", "n"}
    BY DEF OwnWorld
  <2>2. DOMAIN NoPropagator = {"by", "n", "world"}
    BY DEF NoPropagator
  <2> QED
    BY <2>1, <2>2
<1> QED
  BY <1>1, <1>2

\* With every thread idle the holder has all propagators there are.
LEMMA HolderHasThemAll ==
  ASSUME TypeOK, Handover, NothingLost, Idle
  PROVE  {holder[t] : t \in Threads} \ {NoPropagator} = made
<1>1. ASSUME NEW p \in made
      PROVE  p \in {holder[t] : t \in Threads} \ {NoPropagator}
  <2>1. p \in Propagators /\ p.by \in Threads
    BY DEF TypeOK, Propagators
  <2>2. hand[p.by] = NoPropagator
    BY <2>1 DEF Idle, Handover
  <2>3. p = holder[p.by]
    BY <2>1, <2>2, NoPropagatorIsNone DEF NothingLost
  <2> QED
    BY <2>1, <2>3, NoPropagatorIsNone
<1>2. ASSUME NEW t \in Threads, holder[t] # NoPropagator
      PROVE  holder[t] \in made
  BY <1>2 DEF NothingLost
<1> QED
  BY <1>1, <1>2

LEMMA DeleteStep ==
  ASSUME CInv, [Next]_vars
  PROVE  DeletesWhatItMade'
<1>1. CASE UNCHANGED vars
  BY <1>1 DEF CInv, vars, shared, props, DeletesWhatItMade, alive
<1>2. ASSUME Next, freed' = freed
      PROVE  DeletesWhatItMade'
  BY <1>2, OnlyDestroyFrees DEF alive, DeletesWhatItMade
<1>3. CASE Destroy
  <2>1. alive /\ Idle /\ freed' = Deletes /\ made' = made /\ built' = built
    BY <1>3 DEF Destroy, props, shared
  <2>2. {holder[t] : t \in Threads} \ {NoPropagator} = made
    BY <2>1, HolderHasThemAll DEF CInv, IInv
  <2>3. built \in {0, 1}
    BY DEF CInv, IInv, TypeOK, OneWorld
  <2>4. \A p \in made : p # NoWorld
    BY WorldsAndPropagators DEF CInv, IInv, TypeOK
  <2>5. CASE built = 1
    <3>1. simplified /\ world = OwnWorld(1)
      BY <2>1, <2>5, WorldTypes DEF CInv, OwnsAsConfigured
    <3>2. Deletes = made \cup {OwnWorld(1)}
      BY <2>2, <2>4, <3>1, WorldTypes, WorldsAndPropagators DEF Deletes
    <3>3. {OwnWorld(n) : n \in 1 .. built} = {OwnWorld(1)}
      BY <2>5
    <3> QED
      BY <2>1, <3>2, <3>3 DEF DeletesWhatItMade
  <2>6. CASE built = 0
    <3>1. simplified => world = NoWorld
      BY <2>1, <2>6 DEF CInv, OwnsAsConfigured
    <3>2. Deletes = made
      BY <2>2, <2>4, <3>1 DEF Deletes
    <3>3. {OwnWorld(n) : n \in 1 .. built} = {}
      BY <2>6
    <3> QED
      BY <2>1, <3>2, <3>3 DEF DeletesWhatItMade
  <2> QED
    BY <2>3, <2>5, <2>6
<1> QED
  BY <1>1, <1>2, <1>3, OnlyDestroyFrees

\* There is one world, and the destructor deletes all the tool made and nothing
\* else, for any set of threads, when the tool is not switched to another world
\* after it has made one.
THEOREM CleanedUp ==
  ASSUME ~Reconfigure
  PROVE  Spec => []OneWorldCleanedUp
<1>1. Init => CInv
  <2>1. Init => OwnsAsConfigured /\ DeletesWhatItMade
    BY WorldTypes DEF Init, OwnsAsConfigured, DeletesWhatItMade, alive
  <2> QED
    BY <2>1, Initially DEF CInv
<1>2. CInv /\ [Next]_vars => CInv'
  <2> SUFFICES ASSUME CInv, [Next]_vars PROVE CInv'
    OBVIOUS
  <2>1. IInv'
    BY Preserved DEF CInv
  <2>2. OwnsAsConfigured'
    BY OwnStep DEF CInv, IInv
  <2>3. DeletesWhatItMade'
    BY DeleteStep
  <2> QED
    BY <2>1, <2>2, <2>3 DEF CInv
<1>3. CInv => OneWorldCleanedUp
  BY DEF CInv, IInv, OneWorldCleanedUp
<1> QED
  BY <1>1, <1>2, <1>3, PTL DEF Spec

-----------------------------------------------------------------------------
\* A track that is stepped has its start and at most maxSteps steps behind it;
\* the limit is not changed meanwhile, since its thread is inside a call.
Stepping == \A t \in Threads : pc[t] = "step" => Len(path[t]) \in 1 .. maxSteps + 1

\* What a step of one thread does to another's track, and what any step does to
\* a track that is stepped.
LEMMA OtherTracks ==
  ASSUME TypeOK, Next, NEW t \in Threads,
         ~DoStep(t), ~StepsExhausted(t), ~Transport(t)
  PROVE  /\ pc'[t] = "step" => pc[t] = "step" /\ maxSteps' = maxSteps
         /\ pc'[t] = "step" => path'[t] = path[t]
         /\ pc[t] = "step" => pc'[t] = "step"
<1>1. CASE LoadGeometry \/ SetSimplifiedWorldLogName \/ SetUseSimplifiedGeo \/ Destroy
  BY <1>1 DEF LoadGeometry, SetSimplifiedWorldLogName, SetUseSimplifiedGeo, Destroy, config
<1>2. CASE \E n \in StepLimits : SetMaxSteps(n)
  BY <1>2 DEF SetMaxSteps, Idle
<1>3. ASSUME NEW u \in Threads, Call(u) \/ Continue(u)
      PROVE  /\ pc'[t] = "step" => pc[t] = "step" /\ maxSteps' = maxSteps
             /\ pc'[t] = "step" => path'[t] = path[t]
             /\ pc[t] = "step" => pc'[t] = "step"
  <2>1. maxSteps' = maxSteps
    BY <1>3 DEF Call, Continue, AskGeometry, InitializeGeometry, RefusePropagator,
         KeepPropagator, MakePropagator, TransportNothing, Transport, EnterOnce, BuildWorld,
         LeaveOnce, PassOnce, StorePropagator, DoStep, StepsExhausted, config
  <2>2. CASE AskGeometry(u) \/ RefusePropagator(u) \/ KeepPropagator(u) \/ TransportNothing(u)
    <3>1. pc[u] = "idle" /\ pc' = pc /\ \A v \in Threads \ {u} : path'[v] = path[v]
      BY <2>2 DEF AskGeometry, RefusePropagator, KeepPropagator, TransportNothing, At, TypeOK
    <3> QED
      BY <2>1, <3>1
  <2>3. CASE InitializeGeometry(u) \/ MakePropagator(u) \/ EnterOnce(u) \/ BuildWorld(u)
             \/ LeaveOnce(u) \/ PassOnce(u) \/ StorePropagator(u)
    <3>1. path' = path /\ pc[u] # "step"
      BY <2>3 DEF InitializeGeometry, MakePropagator, EnterOnce, BuildWorld, LeaveOnce,
           PassOnce, StorePropagator, At
    <3>2. PICK there \in {"once", "build", "built", "store", "idle"} :
            pc' = [pc EXCEPT ![u] = there]
      BY <2>3 DEF InitializeGeometry, MakePropagator, EnterOnce, BuildWorld, LeaveOnce,
           PassOnce, StorePropagator, Goto, AfterBuild
    <3> QED
      BY <2>1, <3>1, <3>2 DEF TypeOK
  <2>4. CASE DoStep(u) \/ StepsExhausted(u) \/ Transport(u)
    <3>1. u # t
      BY <2>4
    <3>2. pc'[t] = pc[t] /\ path'[t] = path[t]
      BY <2>4, <3>1 DEF DoStep, StepsExhausted, Transport, Goto, TypeOK
    <3> QED
      BY <2>1, <3>2
  <2> QED
    BY <1>3, <2>2, <2>3, <2>4 DEF Call, Continue
<1> QED
  BY <1>1, <1>2, <1>3 DEF Next

\* One step of the track.
LEMMA OneMore ==
  ASSUME TypeOK, NEW t \in Threads, DoStep(t)
  PROVE  /\ Len(path'[t]) = Len(path[t]) + 1 /\ Len(path[t]) <= maxSteps
         /\ maxSteps' = maxSteps
         /\ pc'[t] = IF Ended(path'[t]) THEN "idle" ELSE "step"
<1>1. PICK v \in Volumes :
        path' = [path EXCEPT ![t] = Append(@, v)]
        /\ pc' = [pc EXCEPT ![t] = IF Stops(v) THEN "idle" ELSE "step"]
  BY DEF DoStep, Goto
<1>2. path[t] \in Seq(Volumes \cup {"start"}) /\ path'[t] = Append(path[t], v)
  BY <1>1 DEF TypeOK
<1>3. Len(path'[t]) = Len(path[t]) + 1 /\ LastOf(path'[t]) = v
  BY <1>2 DEF LastOf
<1>4. pc'[t] = IF Ended(path'[t]) THEN "idle" ELSE "step"
  BY <1>1, <1>3 DEF TypeOK, Ended, Stops
<1> QED
  BY <1>3, <1>4 DEF DoStep, MoreSteps, config

LEMMA SteppingStep == TypeOK /\ Stepping /\ [Next]_vars => Stepping'
<1> SUFFICES ASSUME TypeOK, Stepping, Next, NEW t \in Threads, pc'[t] = "step"
             PROVE  Len(path'[t]) \in 1 .. maxSteps' + 1
  BY DEF Stepping, vars, config
<1>1. maxSteps \in Nat /\ Len(path[t]) \in Nat
  BY TransportAssumption DEF TypeOK
<1>2. CASE DoStep(t)
  BY <1>1, <1>2, OneMore
<1>3. CASE StepsExhausted(t)
  BY <1>3 DEF StepsExhausted, Goto, TypeOK
<1>4. CASE Transport(t)
  <2>1. path'[t] = <<"start">> /\ maxSteps' = maxSteps
    BY <1>4 DEF Transport, config, TypeOK
  <2> QED
    BY <1>1, <2>1
<1>5. CASE ~DoStep(t) /\ ~StepsExhausted(t) /\ ~Transport(t)
  BY <1>5, OtherTracks DEF Stepping
<1> QED
  BY <1>2, <1>3, <1>4, <1>5

\* Every track stops in the limiting volume, outside the world, or after exactly
\* m_maxSteps steps, and goes on from nowhere else, however many threads step
\* tracks at once.
THEOREM TracksEnd == Spec => EndsWhereItMust
<1>1. Init => TypeOK /\ Stepping
  BY Initially DEF Init, IInv, Stepping
<1>2. TypeOK /\ Stepping /\ [Next]_vars => (TypeOK /\ Stepping)'
  BY TypeStep, SteppingStep
<1>3. TypeOK /\ Stepping /\ [Next]_vars =>
        [\A t \in Threads : pc[t] = "step" =>
           /\ pc'[t] = "idle" => Ended(path'[t]) \/ Len(path'[t]) = maxSteps + 1
           /\ path'[t] # path[t] =>
                /\ Len(path'[t]) <= maxSteps + 1
                /\ Ended(path'[t]) => pc'[t] = "idle"]_vars
  <2> SUFFICES ASSUME TypeOK, Stepping, Next, NEW t \in Threads, pc[t] = "step"
               PROVE  /\ pc'[t] = "idle" => Ended(path'[t]) \/ Len(path'[t]) = maxSteps + 1
                      /\ path'[t] # path[t] =>
                           /\ Len(path'[t]) <= maxSteps + 1
                           /\ Ended(path'[t]) => pc'[t] = "idle"
    OBVIOUS
  <2>1. maxSteps \in Nat /\ Len(path[t]) \in 1 .. maxSteps + 1
    BY TransportAssumption DEF TypeOK, Stepping
  <2>2. CASE DoStep(t)
    BY <2>1, <2>2, OneMore
  <2>3. CASE StepsExhausted(t)
    BY <2>1, <2>3 DEF StepsExhausted, MoreSteps
  <2>4. ~Transport(t)
    BY DEF Transport, At
  <2>5. CASE ~DoStep(t) /\ ~StepsExhausted(t)
    BY <2>4, <2>5, OtherTracks
  <2> QED
    BY <2>2, <2>3, <2>5
<1> QED
  BY <1>1, <1>2, <1>3, PTL DEF Spec, EndsWhereItMust

\* Angles ---------------------------------------------------------------------
\* An angle is normalized by whole turns.
LEMMA NormIs ==
  ASSUME NEW a \in Int
  PROVE  /\ NormPhi(a) \in Int /\ -Pi <= NormPhi(a) /\ NormPhi(a) < Pi
         /\ \E k \in Int : NormPhi(a) = a + (2 * Pi) * k
<1> DEFINE W == 2 * Pi
           b == a + Pi
<1>1. Pi \in Nat /\ Pi > 0
  BY CellAssumption
<1>2. W \in Nat /\ W > 0 /\ b \in Int
  BY <1>1
<1> HIDE DEF W
<1>3. b % W \in Int /\ 0 <= b % W /\ b % W < W /\ b = W * (b \div W) + (b % W) /\ b \div W \in Int
  BY <1>2, SMT
<1> DEFINE q == b \div W
           r == b % W
<1>4. r \in Int /\ 0 <= r /\ r < W /\ b = W * q + r /\ q \in Int
  BY <1>3
<1>5. NormPhi(a) = r - Pi
  BY DEF NormPhi, W
<1> HIDE DEF q, r
<1>6. W * (-q) = -(W * q) /\ -q \in Int /\ W * q \in Int
  BY <1>2, <1>4
<1>7. r - Pi = a + W * (-q)
  BY <1>1, <1>4, <1>6
<1>8. r - Pi \in Int /\ -Pi <= r - Pi /\ r - Pi < Pi
  BY <1>1, <1>4 DEF W
<1> QED
  BY <1>5, <1>6, <1>7, <1>8 DEF W

\* Turns are whole.
LEMMA Turns ==
  ASSUME NEW W \in Nat, W > 0, NEW k \in Int
  PROVE  /\ W * k \in Int
         /\ k = 0 => W * k = 0
         /\ k >= 1 => W * k >= W
         /\ k <= -1 => W * k <= -W
<1>1. W * k \in Int /\ (k = 0 => W * k = 0)
  OBVIOUS
<1>2. ASSUME k >= 1 PROVE W * k >= W
  BY <1>2, SMT
<1>3. ASSUME k <= -1 PROVE W * k <= -W
  BY <1>3, SMT
<1> QED
  BY <1>1, <1>2, <1>3

\* What is at less than the half width from the middle of a cell, around the
\* circle, lies between the normalized ends, or outside of them in the other
\* order; and what lies there is not farther away than that.
BetweenEnds(phi, low, high) ==
  IF low > high THEN phi <= high \/ low <= phi ELSE low <= phi /\ phi <= high
LEMMA AngleInBox ==
  ASSUME NEW phi \in Int, -Pi <= phi, phi <= Pi, NEW c \in Int, NEW h \in Int, 0 < h, h < Pi
  PROVE  /\ AbsOf(NormPhi(phi - c)) < h => BetweenEnds(phi, NormPhi(c - h), NormPhi(c + h))
         /\ BetweenEnds(phi, NormPhi(c - h), NormPhi(c + h)) => AbsOf(NormPhi(phi - c)) <= h
<1> DEFINE W == 2 * Pi
           low == NormPhi(c - h)
           high == NormPhi(c + h)
           x == NormPhi(phi - c)
<1>1. Pi \in Nat /\ Pi > 0 /\ W \in Nat /\ W > 0 /\ W = 2 * Pi
  BY CellAssumption
<1> HIDE DEF W
<1>2. low \in Int /\ -Pi <= low /\ low < Pi
  BY NormIs
<1>3. high \in Int /\ -Pi <= high /\ high < Pi
  BY NormIs
<1>4. x \in Int /\ -Pi <= x /\ x < Pi
  BY NormIs
<1>5. PICK a \in Int : low = c - h + W * a
  <2>1. c - h \in Int
    OBVIOUS
  <2> QED
    BY <2>1, NormIs DEF W
<1>6. PICK b \in Int : high = c + h + W * b
  <2>1. c + h \in Int
    OBVIOUS
  <2> QED
    BY <2>1, NormIs DEF W
<1>7. PICK d \in Int : x = phi - c + W * d
  <2>1. phi - c \in Int
    OBVIOUS
  <2> QED
    BY <2>1, NormIs DEF W
<1> DEFINE i == b + d
           j == -(a + d)
           n == i + j
<1>8. W * i = W * b + W * d /\ W * j = -(W * a) - W * d /\ W * n = W * i + W * j
  BY <1>1, <1>5, <1>6, <1>7
<1>9. W * a \in Int /\ W * b \in Int /\ W * d \in Int /\ i \in Int /\ j \in Int /\ n \in Int
  BY <1>1, <1>5, <1>6, <1>7
<1>10. high - phi = h - x + W * i /\ phi - low = x + h + W * j /\ high - low = 2 * h + W * n
  <2> HIDE DEF low, high, x
  <2> QED
    BY <1>5, <1>6, <1>7, <1>8, <1>9
<1> HIDE DEF low, high, x, i, j, n
<1> DEFINE u == W * i
           v == W * j
           w == W * n
<1>11. /\ u \in Int /\ (i = 0 => u = 0) /\ (i >= 1 => u >= W) /\ (i <= -1 => u <= -W)
       /\ v \in Int /\ (j = 0 => v = 0) /\ (j >= 1 => v >= W) /\ (j <= -1 => v <= -W)
       /\ w \in Int /\ (n = 0 => w = 0) /\ (n >= 1 => w >= W) /\ (n <= -1 => w <= -W)
  BY <1>1, <1>9, Turns
<1>12. w = u + v /\ n = i + j
  BY <1>8 DEF n
<1>13. high - phi = h - x + u /\ phi - low = x + h + v /\ high - low = 2 * h + w
  BY <1>10
<1> HIDE DEF u, v, w
<1>14. n \in {-1, 0} /\ (low > high <=> n = -1)
  <2>1. high - low < W /\ high - low > -W
    BY <1>1, <1>2, <1>3
  <2>2. ~(n >= 1)
    BY <1>1, <1>11, <1>13, <2>1, <1>2, <1>3
  <2>3. n <= -1 => low > high
    BY <1>1, <1>11, <1>13, <1>2, <1>3
  <2>4. n = 0 => low < high
    BY <1>1, <1>11, <1>13, <1>2, <1>3
  <2>5. ASSUME n <= -2 PROVE FALSE
    <3>1. (i <= -1 /\ j <= -1) \/ i <= -2 \/ j <= -2
      BY <2>5, <1>9, <1>12
    <3>2. w <= -W - W
      <4>1. n + 1 \in Int /\ n + 1 <= -1
        BY <2>5, <1>9
      <4>2. W * (n + 1) <= -W
        BY <4>1, <1>1, Turns
      <4>3. W * (n + 1) = W * n + W
        BY <1>1, <1>9
      <4> QED
        BY <4>2, <4>3, <1>1, <1>9, <1>11 DEF w
    <3> QED
      BY <3>2, <2>1, <1>1, <1>11, <1>13
  <2> QED
    BY <2>2, <2>3, <2>4, <2>5, <1>2, <1>3, <1>9
<1>15. ASSUME AbsOf(x) < h PROVE BetweenEnds(phi, low, high)
  <2>1. -h < x /\ x < h
    BY <1>15, <1>4 DEF AbsOf
  <2>2. i \in {-1, 0} /\ j \in {-1, 0}
    <3>1. u < W
      BY <2>1, <1>1, <1>3, <1>4, <1>11, <1>13
    <3>2. v < W
      BY <2>1, <1>1, <1>2, <1>4, <1>11, <1>13
    <3>3. i <= 0 /\ j <= 0
      BY <3>1, <3>2, <1>1, <1>9, <1>11
    <3> QED
      BY <3>3, <1>9, <1>12, <1>14
  <2>3. CASE n = 0
    <3>1. i = 0 /\ j = 0 /\ ~(low > high)
      BY <2>2, <2>3, <1>9, <1>12, <1>14
    <3> QED
      BY <3>1, <2>1, <1>2, <1>3, <1>4, <1>11, <1>13 DEF BetweenEnds
  <2>4. CASE n = -1
    <3>1. low > high /\ (i = 0 \/ j = 0)
      BY <2>2, <2>4, <1>9, <1>12, <1>14
    <3> QED
      BY <3>1, <2>1, <1>2, <1>3, <1>4, <1>11, <1>13 DEF BetweenEnds
  <2> QED
    BY <2>3, <2>4, <1>14
<1>16. ASSUME BetweenEnds(phi, low, high) PROVE AbsOf(x) <= h
  <2> SUFFICES -h <= x /\ x <= h
    BY <1>4 DEF AbsOf
  <2>1. CASE n = 0
    <3>1. low <= phi /\ phi <= high
      BY <2>1, <1>14, <1>16 DEF BetweenEnds
    <3>2. i = -j /\ v = -u
      BY <2>1, <1>9, <1>11, <1>12
    <3>3. i = 0
      BY <3>1, <3>2, <1>1, <1>2, <1>3, <1>4, <1>9, <1>11, <1>13
    <3> QED
      BY <3>1, <3>2, <3>3, <1>2, <1>3, <1>4, <1>11, <1>13
  <2>2. CASE n = -1
    <3>0. low > high /\ w = -W
      <4>1. W * (-1) = -W
        BY <1>1
      <4> QED
        BY <4>1, <2>2, <1>14 DEF w
    <3>1. CASE phi <= high
      <4>1. i = 0
        BY <3>0, <3>1, <1>1, <1>2, <1>3, <1>4, <1>9, <1>11, <1>12, <1>13
      <4>2. v = -W /\ u = 0
        BY <4>1, <3>0, <1>11, <1>12
      <4> QED
        BY <4>2, <3>1, <1>1, <1>2, <1>3, <1>4, <1>11, <1>13
    <3>2. CASE low <= phi
      <4>1. j = 0
        BY <3>0, <3>2, <1>1, <1>2, <1>3, <1>4, <1>9, <1>11, <1>12, <1>13
      <4>2. v = 0 /\ u = -W
        BY <4>1, <3>0, <1>1, <1>11, <1>12
      <4> QED
        BY <4>2, <3>2, <1>1, <1>2, <1>3, <1>4, <1>11, <1>13
    <3> QED
      BY <3>0, <3>1, <3>2, <1>16 DEF BetweenEnds
  <2> QED
    BY <2>1, <2>2, <1>14
<1> QED
  BY <1>15, <1>16 DEF low, high, x

\* Boxes ----------------------------------------------------------------------
GoodPosition(p) ==
  {p.x, p.y, p.eta, p.phi} \subseteq Int /\ -Pi <= p.phi /\ p.phi <= Pi
Holds(b, pt) ==
  b.lo[1] <= pt[1] /\ pt[1] <= b.hi[1] /\ b.lo[2] <= pt[2] /\ pt[2] <= b.hi[2]
IntBox(b) == b.lo[1] \in Int /\ b.lo[2] \in Int /\ b.hi[1] \in Int /\ b.hi[2] \in Int
IntPoint(pt) == pt[1] \in Int /\ pt[2] \in Int

\* Widths are even.
LEMMA HalfIs ==
  ASSUME NEW d \in Int, d > 0, d % 2 = 0
  PROVE  Half(d) \in Int /\ 2 * Half(d) = d /\ Half(d) > 0
BY DEF Half

\* The distance to a box is zero for what the box holds.
LEMMA FarIs ==
  ASSUME NEW b, NEW pt, IntBox(b), IntPoint(pt)
  PROVE  Far2(b, pt) \in Nat /\ (Far2(b, pt) = 0 <=> Holds(b, pt))
<1> DEFINE g == Gap(b, pt, 1)
           h == Gap(b, pt, 2)
<1>1. g \in Nat /\ h \in Nat
  BY DEF Gap, IntBox, IntPoint
<1>2. g = 0 /\ h = 0 <=> Holds(b, pt)
  BY DEF Gap, Holds, IntBox, IntPoint
<1>3. \A n \in Nat : n * n \in Nat /\ (n * n = 0 <=> n = 0)
  <2>1. ASSUME NEW n \in Nat, n >= 1 PROVE n * n >= 1
    BY <2>1, SMT
  <2> QED
    BY <2>1
<1>4. Far2(b, pt) = g * g + h * h
  BY DEF Far2
<1> HIDE DEF g, h
<1>5. g * g \in Nat /\ h * h \in Nat /\ (g * g = 0 <=> g = 0) /\ (h * h = 0 <=> h = 0)
  BY <1>1, <1>3
<1> QED
  BY <1>2, <1>4, <1>5

\* The boxes of a cell hold the points inside of it, and no point farther away
\* than its boundary.
LEMMA BoxesOfCell ==
  ASSUME NEW c, GoodCell(c), NEW sys, IsXYZ(c) <=> sys = "XYZ"
  PROVE  /\ \A b \in BoxesOf(c, sys) : IntBox(b) /\ b.id = c.id
         /\ \A p : GoodPosition(p) =>
              /\ IntPoint(QueryPoint(sys, p))
              /\ IsInside(c, p) => \E b \in BoxesOf(c, sys) : Holds(b, QueryPoint(sys, p))
              /\ \A b \in BoxesOf(c, sys) : Holds(b, QueryPoint(sys, p)) => IsTouching(c, p)
<1> DEFINE h == Half(c.d1)
           k == Half(c.d2)
<1>1. /\ c.c1 \in Int /\ c.c2 \in Int /\ c.d1 \in Int /\ c.d2 \in Int
      /\ c.d1 > 0 /\ c.d2 > 0 /\ c.d1 % 2 = 0 /\ c.d2 % 2 = 0
      /\ c.sys # "XYZ" => c.d2 < 2 * Pi
  BY DEF GoodCell
<1>2. h \in Int /\ 2 * h = c.d1 /\ h > 0 /\ k \in Int /\ 2 * k = c.d2 /\ k > 0
  BY <1>1, HalfIs
<1>3. Pi \in Nat /\ Pi > 0
  BY CellAssumption
<1> HIDE DEF h, k
<1>4. CASE sys = "XYZ"
  <2>1. BoxesOf(c, sys) = {Box(c.c1 - h, c.c2 - k, c.c1 + h, c.c2 + k, c.id)}
    BY <1>4 DEF BoxesOf, XyBox, h, k
  <2> DEFINE b == Box(c.c1 - h, c.c2 - k, c.c1 + h, c.c2 + k, c.id)
  <2>2. /\ b.lo[1] = c.c1 - h /\ b.lo[2] = c.c2 - k
        /\ b.hi[1] = c.c1 + h /\ b.hi[2] = c.c2 + k /\ b.id = c.id
    BY DEF Box
  <2> HIDE DEF b
  <2>3. IntBox(b)
    BY <1>1, <1>2, <2>2 DEF IntBox
  <2>4. ASSUME NEW p, GoodPosition(p)
        PROVE  /\ IntPoint(QueryPoint(sys, p))
               /\ IsInside(c, p) => Holds(b, QueryPoint(sys, p))
               /\ Holds(b, QueryPoint(sys, p)) => IsTouching(c, p)
    <3>1. QueryPoint(sys, p)[1] = p.x /\ QueryPoint(sys, p)[2] = p.y /\ p.x \in Int /\ p.y \in Int
      BY <1>4, <2>4 DEF QueryPoint, GoodPosition
    <3>2. IsInside(c, p) <=> 2 * AbsOf(p.x - c.c1) < c.d1 /\ 2 * AbsOf(p.y - c.c2) < c.d2
      BY <1>4 DEF IsInside
    <3>3. IsTouching(c, p) <=> 2 * AbsOf(p.x - c.c1) <= c.d1 /\ 2 * AbsOf(p.y - c.c2) <= c.d2
      BY <1>4 DEF IsTouching
    <3> QED
      BY <3>1, <3>2, <3>3, <1>1, <1>2, <2>2 DEF AbsOf, IntPoint, Holds
  <2> QED
    BY <2>1, <2>2, <2>3, <2>4 DEF b
<1>5. CASE sys # "XYZ"
  <2> DEFINE low == NormPhi(c.c2 - k)
             high == NormPhi(c.c2 + k)
             B(lo, hi) == Box(c.c1 - h, lo, c.c1 + h, hi, c.id)
  <2>1. BoxesOf(c, sys) = IF low > high THEN {B(-Pi, high), B(low, Pi)} ELSE {B(low, high)}
    BY <1>5 DEF BoxesOf, EtaPhiBoxes, EtaPhiBoxesFrom, LowPhi, HighPhi, h, k
  <2>2. low \in Int /\ -Pi <= low /\ low < Pi /\ high \in Int /\ -Pi <= high /\ high < Pi
    <3>1. c.c2 - k \in Int /\ c.c2 + k \in Int
      BY <1>1, <1>2
    <3> QED
      BY <3>1, NormIs
  <2>3. \A lo, hi : /\ B(lo, hi).lo[1] = c.c1 - h /\ B(lo, hi).lo[2] = lo
                    /\ B(lo, hi).hi[1] = c.c1 + h /\ B(lo, hi).hi[2] = hi /\ B(lo, hi).id = c.id
    BY DEF Box
  <2> HIDE DEF B, low, high
  <2>4. \A b \in BoxesOf(c, sys) : IntBox(b) /\ b.id = c.id
    BY <1>1, <1>2, <1>3, <2>1, <2>2, <2>3 DEF IntBox
  <2>5. ASSUME NEW p, GoodPosition(p)
        PROVE  /\ IntPoint(QueryPoint(sys, p))
               /\ IsInside(c, p) => \E b \in BoxesOf(c, sys) : Holds(b, QueryPoint(sys, p))
               /\ \A b \in BoxesOf(c, sys) : Holds(b, QueryPoint(sys, p)) => IsTouching(c, p)
    <3> DEFINE pt == QueryPoint(sys, p)
               x == AbsOf(NormPhi(p.phi - c.c2))
    <3>1. pt[1] = p.eta /\ pt[2] = p.phi /\ p.eta \in Int /\ p.phi \in Int /\ -Pi <= p.phi /\ p.phi <= Pi
      BY <1>5, <2>5 DEF QueryPoint, GoodPosition
    <3>2. x \in Int
      <4>1. p.phi - c.c2 \in Int
        BY <3>1, <1>1
      <4> QED
        BY <4>1, NormIs DEF AbsOf
    <3>3. IsInside(c, p) <=> 2 * AbsOf(p.eta - c.c1) < c.d1 /\ 2 * x < c.d2
      BY <1>5 DEF IsInside
    <3>4. IsTouching(c, p) <=> 2 * AbsOf(p.eta - c.c1) <= c.d1 /\ 2 * x <= c.d2
      BY <1>5 DEF IsTouching
    <3>5. k < Pi
      BY <1>1, <1>2, <1>3, <1>5 DEF IsXYZ
    <3>6. (x < k => BetweenEnds(p.phi, low, high)) /\ (BetweenEnds(p.phi, low, high) => x <= k)
      BY <3>1, <3>5, <1>1, <1>2, AngleInBox DEF low, high
    <3> HIDE DEF pt, x
    <3>7. (\E b \in BoxesOf(c, sys) : Holds(b, pt)) <=>
            c.c1 - h <= p.eta /\ p.eta <= c.c1 + h /\ BetweenEnds(p.phi, low, high)
      BY <2>1, <2>2, <2>3, <3>1, <1>3 DEF Holds, BetweenEnds
    <3>8. /\ 2 * AbsOf(p.eta - c.c1) < c.d1 => c.c1 - h <= p.eta /\ p.eta <= c.c1 + h
          /\ c.c1 - h <= p.eta /\ p.eta <= c.c1 + h => 2 * AbsOf(p.eta - c.c1) <= c.d1
      BY <1>1, <1>2, <3>1 DEF AbsOf
    <3>9. (2 * x < c.d2 => x < k) /\ (x <= k => 2 * x <= c.d2)
      BY <1>2, <3>2
    <3>10. IntPoint(pt)
      BY <3>1 DEF IntPoint
    <3>11. IsInside(c, p) => \E b \in BoxesOf(c, sys) : Holds(b, pt)
      BY <3>3, <3>6, <3>7, <3>8, <3>9
    <3>12. (\E b \in BoxesOf(c, sys) : Holds(b, pt)) => IsTouching(c, p)
      BY <3>4, <3>6, <3>7, <3>8, <3>9
    <3> QED
      BY <3>10, <3>11, <3>12 DEF pt
  <2> QED
    BY <2>4, <2>5
<1> QED
  BY <1>4, <1>5

\* The boxes of a layer: the nearest to a point are those of its cells that the
\* point is in, if there are any.
LEMMA NearestTouches ==
  ASSUME NEW S, NEW sys, \A c \in S : GoodCell(c) /\ (IsXYZ(c) <=> sys = "XYZ"),
         NEW p, GoodPosition(p),
         NEW id \in Nearest(UNION {BoxesOf(c, sys) : c \in S}, QueryPoint(sys, p))
  PROVE  \E d \in S : d.id = id /\ ((\E c \in S : IsInside(c, p)) => IsTouching(d, p))
<1> DEFINE T == UNION {BoxesOf(c, sys) : c \in S}
           pt == QueryPoint(sys, p)
<1>1. PICK x \in T : x.id = id /\ \A y \in T : Far2(x, pt) <= Far2(y, pt)
  BY DEF Nearest
<1>2. PICK d \in S : x \in BoxesOf(d, sys)
  OBVIOUS
<1>3. x.id = d.id /\ IntBox(x) /\ IntPoint(pt) /\ (Holds(x, pt) => IsTouching(d, p))
  BY <1>2, BoxesOfCell
<1>4. ASSUME NEW c \in S, IsInside(c, p) PROVE IsTouching(d, p)
  <2>1. PICK y \in BoxesOf(c, sys) : Holds(y, pt)
    BY <1>4, BoxesOfCell
  <2>2. IntBox(y) /\ y \in T
    BY BoxesOfCell
  <2>3. Far2(y, pt) = 0 /\ Far2(x, pt) \in Nat /\ (Far2(x, pt) = 0 => Holds(x, pt))
    BY <1>3, <2>1, <2>2, FarIs
  <2>4. Far2(x, pt) <= Far2(y, pt)
    BY <1>1, <2>2
  <2>5. Far2(x, pt) = 0
    BY <2>3, <2>4
  <2> QED
    BY <1>3, <2>3, <2>5
<1> QED
  BY <1>1, <1>3, <1>4

\* The store ------------------------------------------------------------------
\* What write() makes of the cells S: each of them once, in the order of ids.
Identified(S) ==
  IsFiniteSet(S) /\ (\A c \in S : c.id \in Int) /\ \A c, d \in S : c.id = d.id => c = d
InOrder(data, S) ==
  /\ Cardinality(S) \in Nat /\ data \in [1 .. Cardinality(S) -> S]
  /\ \A i, j \in 1 .. Cardinality(S) : i < j => data[i].id < data[j].id
  /\ \A c \in S : \E i \in 1 .. Cardinality(S) : data[i] = c

\* The data file lists the cells in the order of their ids.
LEMMA DataInOrder ==
  ASSUME NEW S, Identified(S)
  PROVE  InOrder(DataFile(S), S)
<1> DEFINE n == Cardinality(S)
           Less(c) == {d \in S : d.id < c.id}
           rank(c) == Cardinality(Less(c))
           f == [c \in S |-> rank(c) + 1]
<1>1. n \in Nat /\ IsFiniteSet(S)
  BY FS_CardinalityType DEF Identified
<1>2. \A c \in S : IsFiniteSet(Less(c)) /\ rank(c) \in Nat /\ rank(c) < n
  <2> SUFFICES ASSUME NEW c \in S PROVE IsFiniteSet(Less(c)) /\ rank(c) \in Nat /\ rank(c) < n
    OBVIOUS
  <2>1. Less(c) \in SUBSET S /\ c \notin Less(c)
    BY DEF Identified
  <2>2. IsFiniteSet(Less(c)) /\ rank(c) <= n /\ (n = rank(c) => S = Less(c))
    BY <1>1, <2>1, FS_Subset
  <2>3. rank(c) \in Nat
    BY <2>2, FS_CardinalityType
  <2> HIDE DEF Less
  <2> QED
    BY <1>1, <2>1, <2>2, <2>3
<1>3. ASSUME NEW c \in S, NEW d \in S, c.id < d.id PROVE rank(c) < rank(d)
  <2>1. Less(c) \in SUBSET Less(d) /\ c \in Less(d) /\ c \notin Less(c)
    BY <1>3 DEF Identified
  <2>2. rank(c) <= rank(d) /\ (rank(d) = rank(c) => Less(d) = Less(c))
    BY <1>2, <2>1, FS_Subset
  <2> HIDE DEF Less
  <2> QED
    BY <1>2, <2>1, <2>2
<1>4. \A c, d \in S : rank(c) = rank(d) => c = d
  <2> SUFFICES ASSUME NEW c \in S, NEW d \in S, c # d PROVE rank(c) # rank(d)
    OBVIOUS
  <2>1. c.id < d.id \/ d.id < c.id
    BY DEF Identified
  <2>2. rank(c) < rank(d) \/ rank(d) < rank(c)
    BY <1>3, <2>1
  <2>3. rank(c) \in Nat /\ rank(d) \in Nat
    BY <1>2
  <2> HIDE DEF rank
  <2> QED
    BY <2>2, <2>3
<1> HIDE DEF Less
<1>5. f \in Surjection(S, 1 .. n)
  <2>1. f \in [S -> 1 .. n]
    BY <1>1, <1>2
  <2>2. \A c, d \in S : f[c] = f[d] => c = d
    BY <1>2, <1>4
  <2>3. f \in Injection(S, 1 .. n)
    BY <2>1, <2>2, Zenon DEF Injection, IsInjective
  <2>4. IsFiniteSet(1 .. n) /\ Cardinality(1 .. n) = n
    <3>1. 1 \in Int /\ n \in Int
      BY <1>1
    <3>2. IsFiniteSet(1 .. n) /\ Cardinality(1 .. n) = IF 1 > n THEN 0 ELSE n - 1 + 1
      BY <3>1, FS_Interval
    <3> QED
      BY <3>2, <1>1
  <2> QED
    BY <2>3, <2>4, FS_Injection
<1>6. \A i \in 1 .. n : \E c \in S : rank(c) = i - 1
  <2> SUFFICES ASSUME NEW i \in 1 .. n PROVE \E c \in S : rank(c) = i - 1
    OBVIOUS
  <2>1. PICK c \in S : f[c] = i
    BY <1>5 DEF Surjection
  <2> QED
    BY <2>1, <1>2
<1> DEFINE D == DataFile(S)
<1>7. D = [i \in 1 .. n |-> CHOOSE c \in S : rank(c) = i - 1]
  BY DEF DataFile, Less
<1> HIDE DEF rank, D
<1>8. \A i \in 1 .. n : D[i] \in S /\ rank(D[i]) = i - 1
  BY <1>6, <1>7
<1>9. D \in [1 .. n -> S]
  BY <1>7, <1>8
<1>10. ASSUME NEW i \in 1 .. n, NEW j \in 1 .. n, i < j PROVE D[i].id < D[j].id
  <2>1. D[i].id \in Int /\ D[j].id \in Int /\ D[i] \in S /\ D[j] \in S
    BY <1>8 DEF Identified
  <2>2. D[j].id < D[i].id => rank(D[j]) < rank(D[i])
    BY <1>3, <2>1
  <2>3. D[j].id = D[i].id => rank(D[j]) = rank(D[i])
    BY <2>1 DEF Identified
  <2>4. rank(D[i]) = i - 1 /\ rank(D[j]) = j - 1
    BY <1>8
  <2> QED
    BY <1>1, <1>10, <2>1, <2>2, <2>3, <2>4
<1>11. ASSUME NEW c \in S PROVE \E i \in 1 .. n : D[i] = c
  <2>1. rank(c) + 1 \in 1 .. n
    BY <1>1, <1>2
  <2>2. rank(D[rank(c) + 1]) = rank(c) /\ D[rank(c) + 1] \in S
    BY <1>2, <1>8, <2>1
  <2> QED
    BY <1>4, <2>1, <2>2
<1> QED
  BY <1>1, <1>9, <1>10, <1>11 DEF InOrder, D

\* The binary search.
SearchStep(index, id, f, l, r) ==
  LET mid == l + (r - l) \div 2
  IN IF l >= r THEN None
     ELSE IF index[mid + 1].id = id THEN index[mid + 1].offset
     ELSE IF index[mid + 1].id < id THEN f[<<mid + 1, r>>]
     ELSE f[<<l, mid>>]
Bounds(n) == (0 .. n) \X (0 .. n)
IsSearch(index, id, f) ==
  f = [e \in Bounds(Len(index)) |-> SearchStep(index, id, f, e[1], e[2])]

\* The binary search halves what is left.
LEMMA HalfWay ==
  \A l, r \in Nat : l < r =>
    /\ l + (r - l) \div 2 \in Nat /\ l <= l + (r - l) \div 2 /\ l + (r - l) \div 2 < r
OBVIOUS

\* Every set of numbers has a least one, and induction over the numbers.
LEMMA Least ==
  ASSUME NEW T, T \subseteq Nat, T # {}
  PROVE  \E m \in T : \A k \in T : m <= k
<1>1. \E x \in T : \A y \in T : ~(<<y, x>> \in OpToRel(<, Nat))
  BY WFMin, NatLessThanWellFounded
<1>2. \A x, y \in Nat : <<y, x>> \in OpToRel(<, Nat) <=> y < x
  BY DEF OpToRel
<1>3. PICK x \in T : \A y \in T : ~(y < x)
  BY <1>1, <1>2
<1> QED
  BY <1>3

LEMMA NatInduct ==
  ASSUME NEW T, 0 \in T, \A k \in Nat : k \in T => k + 1 \in T
  PROVE  Nat \subseteq T
<1> SUFFICES ASSUME Nat \ T # {} PROVE FALSE
  OBVIOUS
<1>1. PICK m \in Nat \ T : \A k \in Nat \ T : m <= k
  BY Least
<1>2. m - 1 \in Nat /\ m - 1 \notin Nat \ T
  BY <1>1
<1> QED
  BY <1>1, <1>2

\* The search goes on in shorter intervals, so there is a function as its
\* definition asks for.
LEMMA SearchExists ==
  ASSUME NEW index, Len(index) \in Nat, NEW id
  PROVE  \E f : IsSearch(index, id, f)
<1> DEFINE n == Len(index)
           St(f, e) == SearchStep(index, id, f, e[1], e[2])
           Upto(k, f) == \A e \in Bounds(n) : e[2] - e[1] <= k => f[e] = St(f, e)
           T == {k \in Nat : \E f : Upto(k, f)}
<1>1. \A e \in Bounds(n) : e[1] \in 0 .. n /\ e[2] \in 0 .. n
  BY DEF Bounds
<1>2. \A l, r \in 0 .. n : <<l, r>> \in Bounds(n) /\ <<l, r>>[1] = l /\ <<l, r>>[2] = r
  BY DEF Bounds
<1>3. ASSUME NEW f, NEW g, NEW k \in Int, NEW e \in Bounds(n), e[2] - e[1] <= k + 1,
             \A b \in Bounds(n) : b[2] - b[1] <= k => f[b] = g[b]
      PROVE  St(f, e) = St(g, e)
  <2>1. e[1] \in 0 .. n /\ e[2] \in 0 .. n
    BY <1>1
  <2>2. CASE e[1] >= e[2]
    BY <2>2 DEF SearchStep
  <2>3. CASE e[1] < e[2]
    <3> DEFINE mid == e[1] + (e[2] - e[1]) \div 2
    <3>1. mid \in 0 .. n /\ mid + 1 \in 0 .. n /\ e[1] <= mid /\ mid < e[2]
      BY <2>1, <2>3, HalfWay
    <3> HIDE DEF mid
    <3>2. f[<<mid + 1, e[2]>>] = g[<<mid + 1, e[2]>>]
      <4>1. e[2] - (mid + 1) <= k
        BY <1>3, <2>1, <3>1
      <4> QED
        BY <4>1, <1>2, <1>3, <2>1, <3>1
    <3>3. f[<<e[1], mid>>] = g[<<e[1], mid>>]
      <4>1. mid - e[1] <= k
        BY <1>3, <2>1, <3>1
      <4> QED
        BY <4>1, <1>2, <1>3, <2>1, <3>1
    <3> QED
      BY <3>2, <3>3 DEF SearchStep, mid
  <2> QED
    BY <2>1, <2>2, <2>3
<1>4. 0 \in T
  <2> DEFINE f == [e \in Bounds(n) |-> None]
  <2>1. ASSUME NEW e \in Bounds(n), e[2] - e[1] <= 0 PROVE f[e] = St(f, e)
    <3>1. e[1] >= e[2]
      BY <1>1, <2>1
    <3> QED
      BY <3>1 DEF SearchStep
  <2> HIDE DEF f
  <2>2. Upto(0, f)
    BY <2>1
  <2> HIDE DEF Upto
  <2> QED
    BY <2>2
<1>5. ASSUME NEW k \in Nat, k \in T PROVE k + 1 \in T
  <2>1. PICK f : Upto(k, f)
    BY <1>5
  <2> DEFINE g == [e \in Bounds(n) |-> IF e[2] - e[1] <= k + 1 THEN St(f, e) ELSE f[e]]
  <2>2. \A b \in Bounds(n) : b[2] - b[1] <= k => f[b] = g[b]
    <3> SUFFICES ASSUME NEW b \in Bounds(n), b[2] - b[1] <= k PROVE f[b] = g[b]
      OBVIOUS
    <3>1. b[2] - b[1] <= k + 1
      BY <1>1
    <3>2. f[b] = St(f, b)
      BY <2>1
    <3> HIDE DEF St
    <3> QED
      BY <3>1, <3>2
  <2>3. \A e \in Bounds(n) : e[2] - e[1] <= k + 1 => g[e] = St(f, e)
    OBVIOUS
  <2> HIDE DEF g
  <2>4. \A e \in Bounds(n) : e[2] - e[1] <= k + 1 => St(f, e) = St(g, e)
    <3> HIDE DEF St
    <3> QED
      BY <1>3, <2>2
  <2> HIDE DEF St
  <2>5. Upto(k + 1, g)
    BY <2>3, <2>4
  <2> HIDE DEF Upto
  <2> QED
    BY <2>5
<1> HIDE DEF T
<1>6. n \in T
  BY <1>4, <1>5, NatInduct
<1>7. PICK f : Upto(n, f)
  BY <1>6 DEF T
<1> DEFINE F == [e \in Bounds(n) |-> f[e]]
<1>8. ASSUME NEW e \in Bounds(n) PROVE F[e] = St(F, e)
  <2>1. e[2] - e[1] <= n /\ e[2] - e[1] <= n + 1
    BY <1>1
  <2>2. F[e] = St(f, e)
    BY <1>7, <2>1
  <2>3. \A b \in Bounds(n) : b[2] - b[1] <= n => f[b] = F[b]
    OBVIOUS
  <2> HIDE DEF F, St
  <2>4. n \in Int
    OBVIOUS
  <2>5. St(f, e) = St(F, e)
    BY <1>3, <2>1, <2>3, <2>4
  <2> QED
    BY <2>2, <2>5
<1>9. F = [e \in Bounds(n) |-> F[e]]
  OBVIOUS
<1> HIDE DEF F
<1>10. F = [e \in Bounds(n) |-> St(F, e)]
  <2> HIDE DEF St
  <2> QED
    BY <1>8, <1>9
<1> QED
  BY <1>10 DEF IsSearch

\* In an ordered index it finds the id wherever it lies between its ends.
LEMMA SearchFinds ==
  ASSUME NEW index, Len(index) \in Nat, \A i \in 1 .. Len(index) : index[i].id \in Int,
         \A i, j \in 1 .. Len(index) : i < j => index[i].id < index[j].id,
         NEW j \in 1 .. Len(index)
  PROVE  FindOffset(index, index[j].id) = index[j].offset
<1> DEFINE n == Len(index)
           id == index[j].id
           f == CHOOSE g : IsSearch(index, id, g)
<1>1. IsSearch(index, id, f)
  <2>1. \E g : IsSearch(index, id, g)
    BY SearchExists
  <2> QED
    BY <2>1
<1>2. FindOffset(index, id) = f[<<0, n>>]
  BY DEF FindOffset, IsSearch, SearchStep, Bounds
<1> HIDE DEF f
<1>3. \A l, r \in 0 .. n : f[<<l, r>>] = SearchStep(index, id, f, l, r)
  <2> SUFFICES ASSUME NEW l \in 0 .. n, NEW r \in 0 .. n
               PROVE  f[<<l, r>>] = SearchStep(index, id, f, l, r)
    OBVIOUS
  <2>1. <<l, r>> \in Bounds(n) /\ <<l, r>>[1] = l /\ <<l, r>>[2] = r
    BY DEF Bounds
  <2> QED
    BY <1>1, <2>1 DEF IsSearch
<1> DEFINE T == {k \in Nat : \A l, r \in 0 .. n :
                   r - l <= k /\ l < j /\ j <= r => f[<<l, r>>] = index[j].offset}
<1>4. 0 \in T
  OBVIOUS
<1>5. ASSUME NEW k \in Nat, k \in T PROVE k + 1 \in T
  <2> SUFFICES ASSUME NEW l \in 0 .. n, NEW r \in 0 .. n, r - l <= k + 1, l < j, j <= r
               PROVE  f[<<l, r>>] = index[j].offset
    OBVIOUS
  <2> DEFINE mid == l + (r - l) \div 2
  <2>1. mid \in Nat /\ l <= mid /\ mid < r
    BY HalfWay
  <2>2. f[<<l, r>>] = IF index[mid + 1].id = id THEN index[mid + 1].offset
                      ELSE IF index[mid + 1].id < id THEN f[<<mid + 1, r>>] ELSE f[<<l, mid>>]
    BY <1>3 DEF SearchStep
  <2> HIDE DEF mid
  <2>3. mid + 1 \in 1 .. n /\ mid + 1 \in 0 .. n /\ mid \in 0 .. n
    BY <2>1
  <2>4. index[mid + 1].id \in Int /\ id \in Int
    BY <2>3
  <2>5. CASE mid + 1 = j
    BY <2>2, <2>5
  <2>6. CASE mid + 1 < j
    <3>1. index[mid + 1].id < id
      BY <2>3, <2>6
    <3>2. f[<<l, r>>] = f[<<mid + 1, r>>]
      BY <2>2, <2>4, <3>1
    <3>3. r - (mid + 1) <= k
      BY <2>1
    <3> QED
      BY <1>5, <2>3, <2>6, <3>2, <3>3
  <2>7. CASE mid + 1 > j
    <3>1. id < index[mid + 1].id
      BY <2>3, <2>7
    <3>2. f[<<l, r>>] = f[<<l, mid>>]
      BY <2>2, <2>4, <3>1
    <3>3. mid - l <= k /\ j <= mid
      BY <2>1, <2>7
    <3> QED
      BY <1>5, <2>3, <3>2, <3>3
  <2> QED
    BY <2>1, <2>5, <2>6, <2>7
<1> HIDE DEF T
<1>6. n \in T
  BY <1>4, <1>5, NatInduct
<1>7. 0 \in 0 .. n /\ n \in 0 .. n /\ n - 0 <= n /\ 0 < j /\ j <= n
  OBVIOUS
<1>8. f[<<0, n>>] = index[j].offset
  BY <1>6, <1>7 DEF T
<1> QED
  BY <1>2, <1>8

\* So the store gives back each cell for its id.
LEMMA StoreFinds ==
  ASSUME NEW S, Identified(S), NEW c \in S
  PROVE  /\ FindOffset(IndexFile(S), c.id) \in 1 .. Cardinality(S)
         /\ DataFile(S)[FindOffset(IndexFile(S), c.id)] = c
<1> DEFINE data == DataFile(S)
           index == IndexFile(S)
           n == Cardinality(S)
<1>1. InOrder(data, S)
  BY DataInOrder
<1>2. n \in Nat /\ data \in [1 .. n -> S]
  BY <1>1 DEF InOrder
<1>3. index = [i \in 1 .. n |-> [id |-> data[i].id, offset |-> i]]
  BY <1>2 DEF IndexFile
<1>4. \A i \in 1 .. n : index[i].id = data[i].id /\ index[i].offset = i
  BY <1>3
<1>5. Len(index) = n
  <2>1. index \in [1 .. n -> {[id |-> data[i].id, offset |-> i] : i \in 1 .. n}]
    BY <1>3
  <2> QED
    BY <1>2, <2>1
<1>6. \A i \in 1 .. n : data[i] \in S /\ data[i].id \in Int
  BY <1>2 DEF Identified
<1>7. PICK j \in 1 .. n : data[j] = c
  BY <1>1 DEF InOrder
<1>8. \A i, k \in 1 .. n : i < k => data[i].id < data[k].id
  BY <1>1 DEF InOrder
<1> HIDE DEF index, data, n
<1>9. FindOffset(index, index[j].id) = index[j].offset
  BY <1>2, <1>4, <1>5, <1>6, <1>8, SearchFinds
<1>10. FindOffset(index, c.id) = j
  BY <1>4, <1>7, <1>9
<1> QED
  BY <1>7, <1>10 DEF index, data, n

\* The layers -----------------------------------------------------------------
OneSystem(S) == \A c, d \in S : c.layer = d.layer => c.sys = d.sys
GoodCells(S) == Identified(S) /\ OneSystem(S) /\ \A c \in S : GoodCell(c)
LayersOf(S) == {c.layer : c \in S}
CellsIn(S, l) == {c \in S : c.layer = l}
OnSide(S, l, side) == {c \in CellsIn(S, l) : SideOf(c) = side}
LowEta(c) == c.eta - Half(c.deta)
HighEta(c) == c.eta + Half(c.deta)

\* The extent of some cells, the flags of the cells S besides those of the
\* layers R, and the lists of ids.
ExtentOf(ext, C) ==
  IF C = {} THEN ext = NoExtent
  ELSE /\ ext.min \in Int /\ (\E c \in C : ext.min = LowEta(c)) /\ \A c \in C : ext.min <= LowEta(c)
       /\ ext.max \in Int /\ (\E c \in C : ext.max = HighEta(c)) /\ \A c \in C : HighEta(c) <= ext.max
Sides == {"positive", "negative"}
FlagsOf(fl, S, R) ==
  /\ DOMAIN fl = LayersOf(S) \cup R
  /\ \A l \in LayersOf(S) :
       /\ {"sys", "extent"} \subseteq DOMAIN fl[l] /\ DOMAIN fl[l].extent = Sides
       /\ \A c \in CellsIn(S, l) : fl[l].sys = c.sys
       /\ \A side \in Sides : ExtentOf(fl[l].extent[side], OnSide(S, l, side))
ListsOf(lists, S) ==
  /\ DOMAIN lists = LayersOf(S)
  /\ \A l \in DOMAIN lists :
       /\ lists[l] \in Seq(Int) /\ Len(lists[l]) = Cardinality(CellsIn(S, l))
       /\ ToSet(lists[l]) = {c.id : c \in CellsIn(S, l)}

\* A cell's ends in pseudorapidity.
LEMMA EtaOfCell ==
  ASSUME NEW c, GoodCell(c)
  PROVE  /\ LowEta(c) \in Int /\ HighEta(c) \in Int
         /\ -Infinity <= LowEta(c) /\ LowEta(c) <= Infinity
         /\ -Infinity <= HighEta(c) /\ HighEta(c) <= Infinity
<1>1. c.eta \in Int /\ c.deta \in Int /\ c.deta >= 0
  BY DEF GoodCell
<1>2. Half(c.deta) \in Int /\ Half(c.deta) >= 0
  BY <1>1 DEF Half
<1>3. -Infinity <= c.eta - Half(c.deta) /\ c.eta + Half(c.deta) <= Infinity
  BY DEF GoodCell
<1> QED
  BY <1>1, <1>2, <1>3 DEF LowEta, HighEta, Infinity

\* An extent is widened by a cell.
LEMMA WidenedIs ==
  ASSUME NEW C, \A c \in C : GoodCell(c), NEW ext, ExtentOf(ext, C), NEW c, GoodCell(c)
  PROVE  ExtentOf(Widened(ext, c), C \cup {c})
<1> DEFINE w == Widened(ext, c)
<1>1. w.min = Smaller(ext.min, LowEta(c)) /\ w.max = Larger(ext.max, HighEta(c))
  BY DEF Widened, LowEta, HighEta
<1>2. /\ LowEta(c) \in Int /\ HighEta(c) \in Int /\ LowEta(c) <= Infinity /\ -Infinity <= HighEta(c)
  BY EtaOfCell
<1>3. \A d \in C : LowEta(d) \in Int /\ HighEta(d) \in Int
  BY EtaOfCell
<1> HIDE DEF w
<1> SUFFICES ExtentOf(w, C \cup {c})
  BY DEF w
<1>4. CASE C = {}
  <2>1. ext.min = Infinity /\ ext.max = -Infinity
    BY <1>4 DEF ExtentOf, NoExtent
  <2>2. w.min = LowEta(c) /\ w.max = HighEta(c)
    BY <1>1, <1>2, <2>1 DEF Smaller, Larger, Infinity
  <2> QED
    BY <1>2, <1>4, <2>2 DEF ExtentOf
<1>5. CASE C # {}
  <2>1. /\ ext.min \in Int /\ (\E d \in C : ext.min = LowEta(d)) /\ \A d \in C : ext.min <= LowEta(d)
        /\ ext.max \in Int /\ (\E d \in C : ext.max = HighEta(d)) /\ \A d \in C : HighEta(d) <= ext.max
    BY <1>5 DEF ExtentOf
  <2>2. /\ w.min \in Int /\ w.min <= ext.min /\ w.min <= LowEta(c) /\ (w.min = ext.min \/ w.min = LowEta(c))
        /\ w.max \in Int /\ ext.max <= w.max /\ HighEta(c) <= w.max /\ (w.max = ext.max \/ w.max = HighEta(c))
    BY <1>1, <1>2, <2>1 DEF Smaller, Larger
  <2>3. \A d \in C : w.min <= LowEta(d) /\ HighEta(d) <= w.max
    BY <1>3, <2>1, <2>2
  <2>4. (\E d \in C \cup {c} : w.min = LowEta(d)) /\ (\E d \in C \cup {c} : w.max = HighEta(d))
    BY <2>1, <2>2
  <2> QED
    BY <2>2, <2>3, <2>4 DEF ExtentOf
<1> QED
  BY <1>4, <1>5

\* One cell is entered into the flags ...
LEMMA ScannedFlags ==
  ASSUME NEW S, NEW c, OneSystem(S \cup {c}), \A d \in S \cup {c} : GoodCell(d),
         NEW s, NEW R, c.layer \notin R, FlagsOf(s.flags, S, R)
  PROVE  FlagsOf(Scanned(s, c).flags, S \cup {c}, R)
<1> DEFINE l == c.layer
           fl == s.flags
           g == IF l \in DOMAIN fl THEN fl[l] ELSE NewFlags(c)
           h == [g EXCEPT !.extent[SideOf(c)] = Widened(@, c)]
           r == Scanned(s, c).flags
<1>1. r = With(fl, l, h)
  BY DEF Scanned
<1>2. /\ {"sys", "extent"} \subseteq DOMAIN g /\ DOMAIN g.extent = Sides /\ g.sys = c.sys
      /\ \A side \in Sides : ExtentOf(g.extent[side], OnSide(S, l, side))
  <2>1. CASE l \in DOMAIN fl
    <3>1. PICK d \in S : d.layer = l
      BY <2>1 DEF FlagsOf, LayersOf
    <3>2. l \in LayersOf(S)
      BY <3>1 DEF LayersOf
    <3>3. fl[l].sys = d.sys /\ d.sys = c.sys
      BY <3>1, <3>2 DEF FlagsOf, CellsIn, OneSystem
    <3> QED
      BY <2>1, <3>2, <3>3 DEF FlagsOf
  <2>2. CASE l \notin DOMAIN fl
    <3>1. \A side \in Sides : OnSide(S, l, side) = {}
      BY <2>2 DEF FlagsOf, LayersOf, OnSide, CellsIn
    <3>2. NewFlags(c).extent = [side \in Sides |-> NoExtent] /\ NewFlags(c).sys = c.sys
          /\ DOMAIN NewFlags(c) = {"barrel", "sys", "extent"}
      BY DEF NewFlags, Sides
    <3> QED
      BY <2>2, <3>1, <3>2 DEF ExtentOf
  <2> QED
    BY <2>1, <2>2
<1>3. SideOf(c) \in Sides
  BY DEF SideOf, Sides
<1> HIDE DEF g
<1>4. /\ {"sys", "extent"} \subseteq DOMAIN h /\ h.sys = c.sys
      /\ h.extent = [g.extent EXCEPT ![SideOf(c)] = Widened(@, c)]
  BY <1>2
<1>5. DOMAIN h.extent = Sides
  BY <1>2, <1>4
<1>6. \A side \in Sides : h.extent[side] = IF side = SideOf(c) THEN Widened(g.extent[side], c) ELSE g.extent[side]
  BY <1>2, <1>3, <1>4
<1> HIDE DEF h, fl, r
<1>7. /\ \A side \in Sides : OnSide(S \cup {c}, l, side) =
           IF side = SideOf(c) THEN OnSide(S, l, side) \cup {c} ELSE OnSide(S, l, side)
      /\ \A m, side : m # l => OnSide(S \cup {c}, m, side) = OnSide(S, m, side)
      /\ \A m : m # l => CellsIn(S \cup {c}, m) = CellsIn(S, m)
      /\ LayersOf(S \cup {c}) = LayersOf(S) \cup {l}
  BY DEF OnSide, CellsIn, LayersOf
<1>8. ASSUME NEW side \in Sides PROVE ExtentOf(h.extent[side], OnSide(S \cup {c}, l, side))
  <2>1. CASE side = SideOf(c)
    <3>1. \A d \in OnSide(S, l, side) : GoodCell(d)
      BY DEF OnSide, CellsIn
    <3>2. ExtentOf(g.extent[side], OnSide(S, l, side)) /\ GoodCell(c)
      BY <1>2
    <3>3. ExtentOf(Widened(g.extent[side], c), OnSide(S, l, side) \cup {c})
      BY <3>1, <3>2, WidenedIs
    <3> QED
      BY <1>6, <1>7, <2>1, <3>3
  <2>2. CASE side # SideOf(c)
    BY <1>2, <1>6, <1>7, <2>2
  <2> QED
    BY <2>1, <2>2
<1>9. \A d \in CellsIn(S \cup {c}, l) : h.sys = d.sys
  BY <1>4 DEF CellsIn, OneSystem
<1>10. DOMAIN r = LayersOf(S \cup {c}) \cup R /\ r[l] = h /\ \A m \in DOMAIN fl : m # l => r[m] = fl[m]
  <2>1. DOMAIN fl = LayersOf(S) \cup R
    BY DEF FlagsOf, fl
  <2>2. DOMAIN With(fl, l, h) = DOMAIN fl \cup {l} /\ With(fl, l, h)[l] = h
        /\ \A m \in DOMAIN fl : m # l => With(fl, l, h)[m] = fl[m]
    BY DEF With
  <2> QED
    BY <1>1, <1>7, <2>1, <2>2
<1> SUFFICES ASSUME NEW m \in LayersOf(S \cup {c})
             PROVE  /\ {"sys", "extent"} \subseteq DOMAIN r[m] /\ DOMAIN r[m].extent = Sides
                    /\ \A d \in CellsIn(S \cup {c}, m) : r[m].sys = d.sys
                    /\ \A side \in Sides : ExtentOf(r[m].extent[side], OnSide(S \cup {c}, m, side))
  BY <1>10 DEF FlagsOf, r
<1>11. CASE m = l
  BY <1>4, <1>5, <1>8, <1>9, <1>10, <1>11
<1>12. CASE m # l
  <2>1. m \in LayersOf(S) /\ r[m] = fl[m]
    BY <1>7, <1>10, <1>12 DEF FlagsOf, fl
  <2>2. CellsIn(S \cup {c}, m) = CellsIn(S, m) /\ \A side \in Sides : OnSide(S \cup {c}, m, side) = OnSide(S, m, side)
    BY <1>7, <1>12
  <2> QED
    BY <2>1, <2>2 DEF FlagsOf, fl
<1> QED
  BY <1>11, <1>12

\* ... and into the lists.
LEMMA ScannedLists ==
  ASSUME NEW S, IsFiniteSet(S), NEW c, c \notin S, c.id \in Int, NEW s, ListsOf(s.ids, S)
  PROVE  ListsOf(Scanned(s, c).ids, S \cup {c})
<1> DEFINE l == c.layer
           is == s.ids
           h == IF l \in DOMAIN is THEN Append(is[l], c.id) ELSE <<c.id>>
           r == Scanned(s, c).ids
<1>1. r = With(is, l, h)
  BY DEF Scanned
<1>2. DOMAIN is = LayersOf(S)
  BY DEF ListsOf
<1> HIDE DEF r
<1>3. /\ CellsIn(S \cup {c}, l) = CellsIn(S, l) \cup {c} /\ c \notin CellsIn(S, l)
      /\ \A m : m # l => CellsIn(S \cup {c}, m) = CellsIn(S, m)
      /\ LayersOf(S \cup {c}) = LayersOf(S) \cup {l}
      /\ (l \notin LayersOf(S) => CellsIn(S, l) = {})
  BY DEF CellsIn, LayersOf
<1>4. IsFiniteSet(CellsIn(S, l)) /\ Cardinality(CellsIn(S, l)) \in Nat
  <2>1. CellsIn(S, l) \in SUBSET S
    BY DEF CellsIn
  <2>2. IsFiniteSet(CellsIn(S, l))
    BY <2>1, FS_Subset
  <2> QED
    BY <2>2, FS_CardinalityType
<1>5. Cardinality(CellsIn(S \cup {c}, l)) = Cardinality(CellsIn(S, l)) + 1
  <2>1. Cardinality(CellsIn(S, l) \cup {c}) =
          IF c \in CellsIn(S, l) THEN Cardinality(CellsIn(S, l)) ELSE Cardinality(CellsIn(S, l)) + 1
    BY <1>4, FS_AddElement
  <2> QED
    BY <1>3, <2>1
<1>6. {d.id : d \in CellsIn(S \cup {c}, l)} = {d.id : d \in CellsIn(S, l)} \cup {c.id}
  BY <1>3
<1>7. /\ h \in Seq(Int) /\ Len(h) = Cardinality(CellsIn(S, l)) + 1
      /\ ToSet(h) = {d.id : d \in CellsIn(S, l)} \cup {c.id}
  <2>1. CASE l \in DOMAIN is
    <3> DEFINE t == is[l]
    <3>1. t \in Seq(Int) /\ Len(t) = Cardinality(CellsIn(S, l)) /\ ToSet(t) = {d.id : d \in CellsIn(S, l)}
      BY <2>1 DEF ListsOf
    <3>2. h = Append(t, c.id)
      BY <2>1
    <3> HIDE DEF t, h
    <3>3. /\ h \in Seq(Int) /\ Len(h) = Len(t) + 1 /\ Len(t) \in Nat
          /\ \A i \in 1 .. Len(t) : h[i] = t[i]
          /\ h[Len(t) + 1] = c.id
      BY <3>1, <3>2, AppendProperties
    <3>4. ToSet(h) = ToSet(t) \cup {c.id}
      <4>1. ToSet(h) = {h[i] : i \in 1 .. Len(t) + 1} /\ ToSet(t) = {t[i] : i \in 1 .. Len(t)}
        <5>1. DOMAIN h = 1 .. Len(t) + 1 /\ DOMAIN t = 1 .. Len(t)
          BY <3>1, <3>3
        <5> QED
          BY <5>1 DEF ToSet
      <4>2. 1 .. Len(t) + 1 = (1 .. Len(t)) \cup {Len(t) + 1}
        BY <3>3
      <4> QED
        BY <4>1, <4>2, <3>3
    <3> QED
      BY <3>1, <3>3, <3>4
  <2>2. CASE l \notin DOMAIN is
    <3>1. h = <<c.id>>
      BY <2>2
    <3>2. h \in Seq(Int) /\ Len(h) = 1 /\ ToSet(h) = {c.id}
      <4>1. <<c.id>> \in Seq(Int) /\ Len(<<c.id>>) = 1 /\ DOMAIN <<c.id>> = {1} /\ <<c.id>>[1] = c.id
        OBVIOUS
      <4> HIDE DEF h
      <4>2. DOMAIN h = {1} /\ h[1] = c.id
        BY <3>1, <4>1
      <4> QED
        BY <3>1, <4>1, <4>2 DEF ToSet
    <3>3. CellsIn(S, l) = {} /\ Cardinality(CellsIn(S, l)) = 0
      BY <1>2, <1>3, <2>2, FS_EmptySet
    <3> QED
      BY <3>2, <3>3
  <2> QED
    BY <2>1, <2>2
<1> HIDE DEF h, is
<1>8. DOMAIN r = LayersOf(S \cup {c}) /\ r[l] = h /\ \A m \in DOMAIN is : m # l => r[m] = is[m]
  BY <1>1, <1>2, <1>3 DEF With
<1> SUFFICES ASSUME NEW m \in DOMAIN r
             PROVE  /\ r[m] \in Seq(Int) /\ Len(r[m]) = Cardinality(CellsIn(S \cup {c}, m))
                    /\ ToSet(r[m]) = {d.id : d \in CellsIn(S \cup {c}, m)}
  BY <1>8 DEF ListsOf, r
<1>9. CASE m = l
  BY <1>5, <1>6, <1>7, <1>8, <1>9
<1>10. CASE m # l
  <2>1. m \in DOMAIN is /\ r[m] = is[m] /\ CellsIn(S \cup {c}, m) = CellsIn(S, m)
    BY <1>2, <1>3, <1>8, <1>10
  <2> QED
    BY <2>1 DEF ListsOf, is
<1> QED
  BY <1>9, <1>10

\* The loop over the cells.
IsScan(known, knownIds, cells, f) ==
  f = [i \in 0 .. Len(cells) |->
         IF i = 0 THEN [flags |-> known, ids |-> knownIds] ELSE Scanned(f[i - 1], cells[i])]
\* The loop ends with some flags and lists.
LEMMA ScanExists ==
  ASSUME NEW known, NEW knownIds, NEW cells, Len(cells) \in Nat
  PROVE  \E f : IsScan(known, knownIds, cells, f)
<1> DEFINE n == Len(cells)
           St(f, i) == IF i = 0 THEN [flags |-> known, ids |-> knownIds] ELSE Scanned(f[i - 1], cells[i])
           Upto(k, f) == \A i \in 0 .. n : i <= k => f[i] = St(f, i)
           T == {k \in Nat : \E f : Upto(k, f)}
<1>1. 0 \in T
  <2> DEFINE f == [i \in 0 .. n |-> [flags |-> known, ids |-> knownIds]]
  <2>1. Upto(0, f)
    OBVIOUS
  <2> HIDE DEF Upto
  <2> QED
    BY <2>1
<1>2. ASSUME NEW k \in Nat, k \in T PROVE k + 1 \in T
  <2>1. PICK f : Upto(k, f)
    BY <1>2
  <2> DEFINE g == [i \in 0 .. n |-> IF i <= k THEN f[i] ELSE St(f, i)]
  <2>2. \A i \in 0 .. n : i <= k + 1 => g[i] = St(f, i)
    <3> HIDE DEF St
    <3> QED
      BY <2>1
  <2>3. \A i \in 0 .. n : i <= k => g[i] = f[i]
    OBVIOUS
  <2> HIDE DEF g
  <2>4. ASSUME NEW i \in 0 .. n, i <= k + 1 PROVE St(f, i) = St(g, i)
    <3>1. CASE i = 0
      BY <3>1
    <3>2. CASE i # 0
      <4>1. i - 1 \in 0 .. n /\ i - 1 <= k
        BY <2>4, <3>2
      <4>2. g[i - 1] = f[i - 1]
        BY <2>3, <4>1
      <4> QED
        BY <4>2
    <3> QED
      BY <3>1, <3>2
  <2> HIDE DEF St
  <2>5. Upto(k + 1, g)
    BY <2>2, <2>4
  <2> HIDE DEF Upto
  <2> QED
    BY <2>5
<1> HIDE DEF T
<1>3. n \in T
  BY <1>1, <1>2, NatInduct
<1>4. PICK f : Upto(n, f)
  BY <1>3 DEF T
<1> DEFINE F == [i \in 0 .. n |-> f[i]]
<1>5. ASSUME NEW i \in 0 .. n PROVE F[i] = St(F, i)
  <2>1. F[i] = St(f, i)
    <3> HIDE DEF St
    <3> QED
      BY <1>4
  <2>2. CASE i = 0
    BY <2>1, <2>2
  <2>3. CASE i # 0
    <3>1. i - 1 \in 0 .. n
      BY <2>3
    <3>2. F[i - 1] = f[i - 1]
      BY <3>1
    <3> HIDE DEF F
    <3> QED
      BY <2>1, <3>2
  <2> QED
    BY <2>2, <2>3
<1>6. F = [i \in 0 .. n |-> F[i]]
  OBVIOUS
<1> HIDE DEF F
<1>7. F = [i \in 0 .. n |-> St(F, i)]
  <2> HIDE DEF St
  <2> QED
    BY <1>5, <1>6
<1> QED
  BY <1>7 DEF IsScan

\* What a scan of the cells S, each once in any order, makes of flags that are
\* new, or those of the same cells.
Listing(cells, S) ==
  /\ cells \in Seq(S) /\ \A c \in S : \E i \in 1 .. Len(cells) : cells[i] = c
  /\ \A i, j \in 1 .. Len(cells) : cells[i] = cells[j] => i = j
LEMMA ScanIs ==
  ASSUME NEW S, GoodCells(S), NEW cells, Listing(cells, S),
         NEW K, K = {} \/ K = S, NEW R, R \cap LayersOf(S) = {},
         NEW known, FlagsOf(known, K, R), NEW knownIds
  PROVE  /\ FlagsOf(Scan(known, knownIds, cells).flags, S, R)
         /\ LayersOf(S) \subseteq DOMAIN Scan(known, knownIds, cells).ids
         /\ knownIds = Empty => ListsOf(Scan(known, knownIds, cells).ids, S)
<1> DEFINE n == Len(cells)
           f == CHOOSE g : IsScan(known, knownIds, cells, g)
           P(i) == {cells[j] : j \in 1 .. i}
           Good(i) == /\ FlagsOf(f[i].flags, K \cup P(i), R)
                      /\ LayersOf(P(i)) \subseteq DOMAIN f[i].ids
                      /\ knownIds = Empty => ListsOf(f[i].ids, P(i))
           T == {i \in Nat : i <= n => Good(i)}
<1>1. n \in Nat /\ \A i \in 1 .. n : cells[i] \in S
  BY DEF Listing
<1>2. IsScan(known, knownIds, cells, f)
  <2>1. \E g : IsScan(known, knownIds, cells, g)
    BY <1>1, ScanExists
  <2> QED
    BY <2>1
<1>3. Scan(known, knownIds, cells) = f[n]
  BY DEF Scan, IsScan
<1> HIDE DEF f
<1>4. /\ f[0] = [flags |-> known, ids |-> knownIds]
      /\ \A i \in 0 .. n : i # 0 => f[i] = Scanned(f[i - 1], cells[i])
  <2> DEFINE St(i) == IF i = 0 THEN [flags |-> known, ids |-> knownIds] ELSE Scanned(f[i - 1], cells[i])
  <2>1. f = [i \in 0 .. n |-> St(i)]
    BY <1>2 DEF IsScan
  <2> HIDE DEF St
  <2>2. \A i \in 0 .. n : f[i] = St(i)
    BY <2>1
  <2>3. 0 \in 0 .. n
    BY <1>1
  <2> QED
    BY <2>2, <2>3 DEF St
<1>5. 0 \in T
  <2>1. P(0) = {} /\ K \cup P(0) = K
    OBVIOUS
  <2>2. f[0].flags = known /\ f[0].ids = knownIds
    BY <1>4
  <2>3. ListsOf(Empty, {}) /\ LayersOf({}) = {}
    BY DEF ListsOf, LayersOf, Empty
  <2> HIDE DEF P
  <2>4. Good(0)
    BY <2>1, <2>2, <2>3
  <2> QED
    BY <2>4
<1>6. ASSUME NEW i \in Nat, i \in T PROVE i + 1 \in T
  <2> SUFFICES ASSUME i + 1 <= n PROVE Good(i + 1)
    OBVIOUS
  <2> DEFINE c == cells[i + 1]
  <2>1. i + 1 \in 1 .. n /\ i + 1 \in 0 .. n /\ i + 1 # 0 /\ (i + 1) - 1 = i /\ i <= n
    BY <1>1
  <2>2. Good(i) /\ f[i + 1] = Scanned(f[i], c)
    BY <1>4, <1>6, <2>1
  <2>3. c \in S /\ GoodCell(c) /\ c.id \in Int
    BY <1>1, <2>1 DEF GoodCells, Identified
  <2>4. c \notin P(i)
    <3> SUFFICES ASSUME NEW j \in 1 .. i, cells[j] = c PROVE FALSE
      OBVIOUS
    <3>1. j \in 1 .. n /\ j # i + 1
      BY <2>1
    <3> QED
      BY <2>1, <3>1 DEF Listing
  <2>5. P(i + 1) = P(i) \cup {c} /\ P(i) \subseteq S
    <3>1. 1 .. i + 1 = (1 .. i) \cup {i + 1}
      OBVIOUS
    <3>2. \A j \in 1 .. i : j \in 1 .. n
      BY <2>1
    <3> QED
      BY <1>1, <3>1, <3>2
  <2>6. IsFiniteSet(P(i))
    <3>1. P(i) \in SUBSET S /\ IsFiniteSet(S)
      BY <2>5 DEF GoodCells, Identified
    <3> QED
      BY <3>1, FS_Subset
  <2> HIDE DEF P, c
  <2>7. /\ FlagsOf(f[i].flags, K \cup P(i), R) /\ LayersOf(P(i)) \subseteq DOMAIN f[i].ids
        /\ knownIds = Empty => ListsOf(f[i].ids, P(i))
    BY <2>2
  <2>8. (K \cup P(i)) \cup {c} \subseteq S
    BY <2>3, <2>5
  <2>9. OneSystem((K \cup P(i)) \cup {c}) /\ \A d \in (K \cup P(i)) \cup {c} : GoodCell(d)
    BY <2>8 DEF GoodCells, OneSystem
  <2>10. FlagsOf(Scanned(f[i], c).flags, (K \cup P(i)) \cup {c}, R)
    <3>1. c.layer \notin R
      BY <2>3 DEF LayersOf
    <3> QED
      BY <2>7, <2>9, <3>1, ScannedFlags
  <2>11. knownIds = Empty => ListsOf(Scanned(f[i], c).ids, P(i) \cup {c})
    BY <2>3, <2>4, <2>6, <2>7, ScannedLists
  <2>13. LayersOf(P(i) \cup {c}) \subseteq DOMAIN Scanned(f[i], c).ids
    BY <2>7 DEF Scanned, With, LayersOf
  <2>12. (K \cup P(i)) \cup {c} = K \cup P(i + 1)
    BY <2>5
  <2> QED
    BY <2>2, <2>5, <2>10, <2>11, <2>12, <2>13
<1> HIDE DEF T
<1>7. n \in T
  BY <1>1, <1>5, <1>6, NatInduct
<1>8. Good(n)
  BY <1>1, <1>7 DEF T
<1>9. P(n) = S /\ K \cup P(n) = S
  <2>1. \A c \in S : \E i \in 1 .. n : cells[i] = c
    BY DEF Listing
  <2>2. P(n) = S
    BY <1>1, <2>1
  <2> QED
    BY <2>2
<1> HIDE DEF P
<1> QED
  BY <1>3, <1>8, <1>9

\* A list that names each cell once has their layers and their number.
LEMMA LayersListed ==
  ASSUME NEW S, NEW cells, Listing(cells, S), IsFiniteSet(S)
  PROVE  LayersIn(cells) = LayersOf(S) /\ Len(cells) = Cardinality(S) /\ ToSet(cells) = S
<1>1. cells \in [1 .. Len(cells) -> S] /\ Len(cells) \in Nat
  BY DEF Listing
<1>2. DOMAIN cells = 1 .. Len(cells)
  BY DEF Listing
<1>3. LayersIn(cells) = LayersOf(S) /\ ToSet(cells) = S
  BY <1>1, <1>2 DEF Listing, LayersIn, LayersOf, ToSet
<1>4. cells \in Injection(1 .. Len(cells), S)
  <2>1. IsInjective(cells)
    BY <1>2 DEF Listing, IsInjective
  <2> QED
    BY <1>1, <2>1 DEF Injection
<1>5. cells \in Surjection(1 .. Len(cells), S)
  BY <1>1 DEF Listing, Surjection
<1>6. Cardinality(1 .. Len(cells)) = Cardinality(S)
  BY <1>4, <1>5, FS_Injection
<1>7. Cardinality(1 .. Len(cells)) = Len(cells)
  <2>1. 1 \in Int /\ Len(cells) \in Int
    BY <1>1
  <2>2. Cardinality(1 .. Len(cells)) = IF 1 > Len(cells) THEN 0 ELSE Len(cells) - 1 + 1
    BY <2>1, FS_Interval
  <2> QED
    BY <1>1, <2>2
<1> QED
  BY <1>3, <1>6, <1>7

\* A detector's cells as they are given, and as they are stored.
LEMMA GivenAndStored ==
  ASSUME NEW df \in DataFrames
  PROVE  /\ GoodCells(CellsOf(df)) /\ CellsOf(df) # {}
         /\ Listing(df, CellsOf(df)) /\ Listing(DataFile(CellsOf(df)), CellsOf(df))
<1> DEFINE S == CellsOf(df)
           data == DataFile(S)
<1>1. /\ df \in Seq(S) /\ df # <<>>
      /\ \A c \in S : GoodCell(c)
      /\ \A i, j \in DOMAIN df : /\ df[i].id = df[j].id => i = j
                                 /\ df[i].layer = df[j].layer => df[i].sys = df[j].sys
  BY CellAssumption
<1>2. DOMAIN df = 1 .. Len(df) /\ Len(df) \in Nat /\ Len(df) # 0
  BY <1>1
<1>3. S = {df[i] : i \in 1 .. Len(df)}
  BY <1>2 DEF CellsOf, ToSet
<1>4. \A c \in S : c.id \in Int
  BY <1>1 DEF GoodCell
<1> HIDE DEF S
<1>5. S # {} /\ \A c, d \in S : c.id = d.id => c = d
  BY <1>1, <1>2, <1>3
<1>6. OneSystem(S)
  BY <1>1, <1>2, <1>3 DEF OneSystem
<1>7. IsFiniteSet(S)
  <2>1. df \in Surjection(1 .. Len(df), S)
    BY <1>1, <1>2, <1>3 DEF Surjection
  <2>2. IsFiniteSet(1 .. Len(df))
    BY <1>2, FS_Interval
  <2> QED
    BY <2>1, <2>2, FS_Surjection
<1>8. Identified(S)
  BY <1>4, <1>5, <1>7 DEF Identified
<1>9. Listing(df, S)
  BY <1>1, <1>2, <1>3 DEF Listing
<1>10. InOrder(data, S)
  BY <1>8, DataInOrder
<1>11. Listing(data, S)
  <2> DEFINE n == Cardinality(S)
  <2>1. n \in Nat /\ data \in [1 .. n -> S]
    BY <1>10 DEF InOrder
  <2>2. data \in Seq(S) /\ Len(data) = n
    BY <2>1
  <2>3. \A i, j \in 1 .. n : data[i] = data[j] => i = j
    <3> SUFFICES ASSUME NEW i \in 1 .. n, NEW j \in 1 .. n, i < j PROVE data[i] # data[j]
      <4>1. \A i, j \in 1 .. n : i = j \/ i < j \/ j < i
        BY <2>1
      <4> QED
        BY <4>1
    <3>1. data[i].id < data[j].id /\ data[i].id \in Int
      BY <1>4, <1>10, <2>1 DEF InOrder
    <3> QED
      BY <3>1
  <2> QED
    BY <1>10, <2>2, <2>3 DEF Listing, InOrder
<1> QED
  BY <1>1, <1>5, <1>6, <1>8, <1>9, <1>11 DEF GoodCells, S

\* The invariant --------------------------------------------------------------
\* The files can be mapped, their cells are the first of a detector, or they are
\* those of a whole detector.
Readable == disk.data \notin Unmappable /\ disk.index \notin Unmappable
Begun(df) ==
  \E m \in 1 .. Len(DataFile(CellsOf(df))) : disk.data = SubSeq(DataFile(CellsOf(df)), 1, m)
Filed(df) == disk.data = DataFile(CellsOf(df)) /\ disk.index = IndexFile(CellsOf(df))
Whole == \E df \in DataFrames : Filed(df)
OnDisk == ToSet(disk.data)
DiskInv ==
  /\ Readable => \E df \in DataFrames : Begun(df)
  /\ disk = [data |-> disk.data, index |-> disk.index, trees |-> disk.trees]
  /\ ~Whole /\ ~mixed => DOMAIN disk.trees = {} /\ \A t \in Readers : DOMAIN handle[t] = {}

\* The object knows nothing, or the layers of the cells on the disk, and lists
\* these cells unless build() ran again and nothing was loaded since.
Known == ids # Empty
Others == DOMAIN flags \ LayersOf(OnDisk)
ObjectInv ==
  /\ Known => Readable /\ FlagsOf(flags, OnDisk, Others)
  /\ Known /\ ~again =>
       /\ ListsOf(ids, OnDisk)
       /\ counts = [layers |-> Cardinality(LayersOf(OnDisk)), cells |-> Cardinality(OnDisk)]
  /\ ~Known => flags = Empty
  /\ again => mixed
  /\ building # {} => Known /\ Whole
  /\ building # {} /\ ~again => building \subseteq LayersOf(OnDisk)
  /\ ~Known \/ (building # {} /\ ~again) =>
       /\ ~IsLoaded /\ queries = {}
       /\ \A t \in Readers : handle[t] = Empty
  /\ IsLoaded /\ ~again => store.data = disk.data /\ store.index = disk.index

\* A tree is that of its layer, unless a build was cut off or ran again.  While
\* a first one goes on, what it has written is right whatever was there before.
RightTree(tree, S, l) ==
  \E c \in CellsIn(S, l) : tree = UNION {BoxesOf(d, c.sys) : d \in CellsIn(S, l)}
TreesInv ==
  /\ Whole /\ (~mixed \/ (building # {} /\ ~again)) =>
       \A l \in (LayersOf(OnDisk) \cap DOMAIN disk.trees) \ building :
         RightTree(disk.trees[l], OnDisk, l)
  /\ DOMAIN handle = Readers /\ handle = [t \in Readers |-> handle[t]]
  /\ Known /\ ~mixed => \A t \in Readers : \A l \in DOMAIN handle[t] :
                          l \in LayersOf(OnDisk) => RightTree(handle[t][l], OnDisk, l)

\* What was looked up is read by its caller.
Found(t) ==
  /\ scratch[t] \in CellsIn(OnDisk, asked[t].layer)
  /\ (\E c \in CellsIn(OnDisk, asked[t].layer) : IsInside(c, asked[t].pos)) =>
       IsTouching(scratch[t], asked[t].pos)
LookupInv ==
  /\ DOMAIN scratch = Readers /\ DOMAIN asked = Readers
  /\ \A t \in Readers :
       asked[t] # None =>
         /\ Known /\ scratch[t].id = asked[t].id
         /\ asked[t].layer \notin alt =>
              IsLoaded /\ (asked[t].pos # None /\ ~mixed => Found(t))
GeoInv == DiskInv /\ ObjectInv /\ TreesInv /\ LookupInv

\* Nothing is known of no layers.
LEMMA EmptyIs ==
  /\ DOMAIN Empty = {} /\ FlagsOf(Empty, {}, {})
  /\ \A f : DOMAIN f # {} => f # Empty
<1>1. DOMAIN Empty = {}
  BY DEF Empty
<1> QED
  BY <1>1 DEF FlagsOf, LayersOf

\* The files of a detector: its cells, found by their ids.
LEMMA FilesAre ==
  ASSUME NEW df \in DataFrames, NEW data, data = DataFile(CellsOf(df)),
         NEW index, index = IndexFile(CellsOf(df))
  PROVE  /\ data \notin Unmappable /\ index \notin Unmappable /\ ToSet(data) = CellsOf(df)
         /\ GoodCells(ToSet(data)) /\ ToSet(data) # {} /\ LayersOf(ToSet(data)) # {}
         /\ Listing(data, ToSet(data)) /\ Listing(df, ToSet(data))
         /\ LayersIn(df) = LayersOf(ToSet(data)) /\ Len(df) = Cardinality(ToSet(data))
         /\ Len(data) = Cardinality(ToSet(data))
         /\ \A c \in ToSet(data) :
              /\ FindOffset(index, c.id) # None /\ FindOffset(index, c.id) \in DOMAIN data
              /\ data[FindOffset(index, c.id)] = c
<1> DEFINE S == CellsOf(df)
<1>1. GoodCells(S) /\ S # {} /\ Listing(df, S) /\ Listing(data, S)
  BY GivenAndStored
<1>2. IsFiniteSet(S) /\ Identified(S)
  BY <1>1 DEF GoodCells, Identified
<1>3. Len(data) = Cardinality(S) /\ ToSet(data) = S /\ DOMAIN data = 1 .. Len(data)
  <2>1. Len(data) = Cardinality(S) /\ ToSet(data) = S
    <3> HIDE DEF S
    <3> QED
      BY <1>1, <1>2, LayersListed
  <2>2. data \in Seq(S)
    BY <1>1 DEF Listing
  <2> QED
    BY <2>1, <2>2
<1>4. LayersIn(df) = LayersOf(S) /\ Len(df) = Cardinality(S)
  BY <1>1, <1>2, LayersListed
<1>5. ASSUME NEW c \in S
      PROVE  /\ FindOffset(index, c.id) # None /\ FindOffset(index, c.id) \in DOMAIN data
             /\ data[FindOffset(index, c.id)] = c
  <2>1. FindOffset(index, c.id) \in 1 .. Cardinality(S) /\ data[FindOffset(index, c.id)] = c
    BY <1>2, StoreFinds
  <2>2. 1 .. Cardinality(S) \subseteq Nat
    OBVIOUS
  <2> QED
    BY <1>3, <2>1, <2>2, FileAssumption
<1>6. data \notin Unmappable /\ index \notin Unmappable
  <2>1. data # None /\ index # None
    BY FileAssumption
  <2>2. DOMAIN data # {}
    BY <1>1, <1>3 DEF ToSet
  <2>3. DOMAIN index = DOMAIN data
    BY DEF IndexFile
  <2>4. DOMAIN <<>> = {}
    OBVIOUS
  <2> QED
    BY <2>1, <2>2, <2>3, <2>4 DEF Unmappable
<1>7. LayersOf(S) # {}
  BY <1>1 DEF LayersOf
<1> HIDE DEF S
<1> QED
  BY <1>1, <1>3, <1>4, <1>5, <1>6, <1>7 DEF S

\* What the invariant says of a store that can be read, also one cut off ...
LEMMA DiskIs ==
  ASSUME DiskInv, Readable
  PROVE  /\ GoodCells(OnDisk) /\ OnDisk # {} /\ LayersOf(OnDisk) # {}
         /\ Listing(disk.data, OnDisk)
         /\ LayersIn(disk.data) = LayersOf(OnDisk) /\ Len(disk.data) = Cardinality(OnDisk)
<1>1. PICK df \in DataFrames : Begun(df)
  BY DEF DiskInv
<1> DEFINE S == CellsOf(df)
           data == DataFile(S)
           all == disk.data
<1>2. GoodCells(S) /\ Listing(data, S)
  BY GivenAndStored
<1>3. data \in Seq(S) /\ Len(data) \in Nat
  BY <1>2 DEF Listing
<1>4. PICK m \in 1 .. Len(data) : all = SubSeq(data, 1, m)
  BY <1>1 DEF Begun
<1> HIDE DEF data, S, all
<1>5. all \in Seq(S) /\ Len(all) = m /\ DOMAIN all = 1 .. m /\ \A i \in 1 .. m : all[i] = data[i]
  BY <1>3, <1>4
<1>6. ToSet(all) = {all[i] : i \in 1 .. m}
  BY <1>5 DEF ToSet
<1>7. ToSet(all) \in SUBSET S /\ ToSet(all) # {}
  BY <1>3, <1>5, <1>6
<1>8. GoodCells(ToSet(all))
  <2>1. IsFiniteSet(ToSet(all))
    BY <1>2, <1>7, FS_Subset DEF GoodCells, Identified
  <2> QED
    BY <1>2, <1>7, <2>1 DEF GoodCells, Identified, OneSystem
<1>9. Listing(all, ToSet(all))
  <2>1. all \in Seq(ToSet(all))
    BY <1>5, <1>6
  <2>2. ASSUME NEW i \in 1 .. m, NEW j \in 1 .. m, all[i] = all[j]
        PROVE  i = j
    <3>1. data[i] = data[j] /\ i \in 1 .. Len(data) /\ j \in 1 .. Len(data)
      BY <1>3, <1>5, <2>2
    <3>2. \A x, y \in 1 .. Len(data) : data[x] = data[y] => x = y
      BY <1>2 DEF Listing
    <3> QED
      BY <3>1, <3>2
  <2> QED
    BY <1>5, <1>6, <2>1, <2>2 DEF Listing
<1>10. LayersIn(all) = LayersOf(ToSet(all)) /\ Len(all) = Cardinality(ToSet(all))
  BY <1>8, <1>9, LayersListed DEF GoodCells, Identified
<1>11. LayersOf(ToSet(all)) # {}
  BY <1>7 DEF LayersOf
<1> QED
  BY <1>7, <1>8, <1>9, <1>10, <1>11 DEF OnDisk, all

\* ... and of a whole one, whose files begin with all of themselves.
LEMMA BeginsWhole ==
  ASSUME NEW df \in DataFrames
  PROVE  \E m \in 1 .. Len(DataFile(CellsOf(df))) : DataFile(CellsOf(df)) = SubSeq(DataFile(CellsOf(df)), 1, m)
<1> DEFINE data == DataFile(CellsOf(df))
<1>1. data \in Seq(CellsOf(df)) /\ data # <<>>
  <2>1. data \notin Unmappable
    BY FilesAre
  <2>2. data \in Seq(CellsOf(df))
    BY GivenAndStored DEF Listing
  <2> QED
    BY <2>1, <2>2 DEF Unmappable
<1> HIDE DEF data
<1>2. Len(data) \in 1 .. Len(data) /\ SubSeq(data, 1, Len(data)) = data
  BY <1>1
<1> QED
  BY <1>2 DEF data

LEMMA WholeIs ==
  ASSUME Whole
  PROVE  /\ Readable /\ \E df \in DataFrames : Begun(df)
         /\ \A c \in OnDisk : /\ IsStored(c.id) /\ FindOffset(disk.index, c.id) \in DOMAIN disk.data
                              /\ StoredCell(c.id) = c
<1>1. PICK df \in DataFrames : disk.data = DataFile(CellsOf(df)) /\ disk.index = IndexFile(CellsOf(df))
  BY DEF Whole, Filed
<1>2. /\ Readable
      /\ \A c \in OnDisk : /\ IsStored(c.id) /\ FindOffset(disk.index, c.id) \in DOMAIN disk.data
                           /\ StoredCell(c.id) = c
  BY <1>1, FilesAre DEF OnDisk, Readable, IsStored, StoredCell
<1>3. Begun(df)
  BY <1>1, BeginsWhole DEF Begun
<1> QED
  BY <1>2, <1>3

\* A new geometry, and one that starts again.
LEMMA GeoInvFirst ==
  ASSUME GeoInit PROVE GeoInv
<1>1. DOMAIN disk.trees = {} /\ \A t \in Readers : DOMAIN handle[t] = {}
  BY EmptyIs DEF GeoInit, NoFiles
<1>2. DiskInv
  BY <1>1 DEF GeoInit, DiskInv, NoFiles, Readable, Unmappable
<1>3. ~Known /\ ObjectInv
  BY DEF GeoInit, ObjectInv, Known, IsLoaded, Unmapped
<1>4. TreesInv
  BY <1>1, <1>3 DEF GeoInit, TreesInv
<1>5. LookupInv
  BY DEF GeoInit, LookupInv
<1> QED
  BY <1>2, <1>3, <1>4, <1>5 DEF GeoInv

\* What does not touch the files leaves them as they are.
LEMMA SameFiles ==
  ASSUME disk'.data = disk.data, disk'.index = disk.index
  PROVE  /\ Readable' = Readable /\ Whole' = Whole /\ OnDisk' = OnDisk
         /\ (\E df \in DataFrames : Begun(df))' = (\E df \in DataFrames : Begun(df))
BY DEF Readable, Whole, Filed, OnDisk, Begun

\* A fresh object has opened nothing and listed nothing.
LEMMA FreshKeeps ==
  ASSUME FreshObject, building' = {}, again' = FALSE,
         scratch' = [t \in Readers |-> NoCell], asked' = [t \in Readers |-> None],
         (\E df \in DataFrames : Begun(df))' \/ ~Readable',
         disk' = [data |-> disk'.data, index |-> disk'.index, trees |-> disk'.trees],
         ~Whole' /\ ~mixed' => DOMAIN disk'.trees = {},
         Whole' /\ ~mixed' => \A l \in LayersOf(OnDisk') \cap DOMAIN disk'.trees :
                                RightTree(disk'.trees[l], OnDisk', l)
  PROVE  GeoInv'
<1>1. /\ ids' = Empty /\ flags' = Empty /\ queries' = {}
      /\ store' = Unmapped /\ handle' = [t \in Readers |-> Empty]
  BY DEF FreshObject
<1>2. \A t \in Readers : DOMAIN handle'[t] = {}
  BY <1>1, EmptyIs
<1>3. DiskInv'
  BY <1>2 DEF DiskInv
<1>4. ~Known' /\ ~IsLoaded'
  BY <1>1 DEF Known, IsLoaded, Unmapped
<1>5. ObjectInv'
  BY <1>1, <1>4 DEF ObjectInv
<1>6. TreesInv'
  BY <1>1, <1>4 DEF TreesInv
<1>7. LookupInv'
  BY DEF LookupInv
<1> QED
  BY <1>3, <1>5, <1>6, <1>7 DEF GeoInv

LEMMA RestartKeeps ==
  ASSUME GeoInv, Restart PROVE GeoInv'
<1>1. /\ FreshObject /\ building' = {} /\ again' = FALSE /\ disk' = disk
      /\ scratch' = [t \in Readers |-> NoCell] /\ asked' = [t \in Readers |-> None]
      /\ mixed' = (mixed \/ building \cap DOMAIN disk.trees # {})
  BY DEF Restart
<1>2. Readable' = Readable /\ Whole' = Whole /\ OnDisk' = OnDisk
      /\ (\E df \in DataFrames : Begun(df))' = (\E df \in DataFrames : Begun(df))
  BY <1>1, SameFiles
<1>3. ~Whole' /\ ~mixed' => DOMAIN disk'.trees = {}
  BY <1>1, <1>2 DEF GeoInv, DiskInv
<1>4. ASSUME Whole', ~mixed', NEW l \in LayersOf(OnDisk') \cap DOMAIN disk'.trees
      PROVE  RightTree(disk'.trees[l], OnDisk', l)
  <2>1. ~mixed /\ l \notin building
    BY <1>1, <1>4
  <2> QED
    BY <1>1, <1>2, <1>4, <2>1 DEF GeoInv, TreesInv
<1>5. (\E df \in DataFrames : Begun(df))' \/ ~Readable'
  BY <1>2 DEF GeoInv, DiskInv
<1>6. disk' = [data |-> disk'.data, index |-> disk'.index, trees |-> disk'.trees]
  BY <1>1 DEF GeoInv, DiskInv
<1> QED
  BY <1>1, <1>3, <1>4, <1>5, <1>6, FreshKeeps

\* The store is cut off: it has the first cells of a detector.
LEMMA CutOffKeeps ==
  ASSUME GeoInv, NEW df \in DataFrames, NEW m, NEW n, CutOff(df, m, n) PROVE GeoInv'
<1> DEFINE data == DataFile(CellsOf(df))
           index == IndexFile(CellsOf(df))
<1>1. /\ FreshObject /\ building' = {} /\ again' = FALSE
      /\ disk' = [disk EXCEPT !.data = SubSeq(data, 1, m), !.index = SubSeq(index, 1, n)]
      /\ scratch' = [t \in Readers |-> NoCell] /\ asked' = [t \in Readers |-> None]
      /\ mixed' = (mixed \/ DOMAIN disk.trees # {}) /\ m \in 0 .. Cardinality(CellsOf(df))
  BY DEF CutOff
<1>2. Len(data) = Cardinality(CellsOf(df)) /\ data \in Seq(CellsOf(df))
  <2>1. Len(data) = Cardinality(ToSet(data)) /\ ToSet(data) = CellsOf(df)
    BY FilesAre
  <2> QED
    BY <2>1, GivenAndStored DEF Listing
<1>3. disk = [data |-> disk.data, index |-> disk.index, trees |-> disk.trees]
  BY DEF GeoInv, DiskInv
<1> HIDE DEF index
<1>4. disk' = [data |-> SubSeq(data, 1, m), index |-> SubSeq(index, 1, n), trees |-> disk.trees]
  BY <1>1, <1>3
<1>5. disk'.data = SubSeq(data, 1, m) /\ disk'.trees = disk.trees
      /\ disk' = [data |-> disk'.data, index |-> disk'.index, trees |-> disk'.trees]
  BY <1>4
<1>6. (\E d \in DataFrames : Begun(d))' \/ ~Readable'
  <2>1. CASE m = 0
    <3>1. SubSeq(data, 1, 0) = <<>>
      BY <1>2
    <3> QED
      BY <1>5, <2>1, <3>1 DEF Readable, Unmappable
  <2>2. CASE m # 0
    <3>1. m \in 1 .. Len(data)
      BY <1>1, <1>2, <2>2
    <3>2. Begun(df)'
      BY <1>5, <3>1 DEF Begun, data
    <3> QED
      BY <3>2
  <2> QED
    BY <2>1, <2>2
<1>7. ~mixed' => DOMAIN disk'.trees = {}
  BY <1>1, <1>5
<1> HIDE DEF data
<1> QED
  BY <1>1, <1>5, <1>6, <1>7, FreshKeeps

\* build() writes the files and scans the cells it was given.
LEMMA BuildStoreKeeps ==
  ASSUME GeoInv, NEW df \in DataFrames, BuildStore(df) PROVE GeoInv'
<1> DEFINE known == [l \in DOMAIN flags \ LayersIn(df) |-> flags[l]]
           s == Scan(known, ids, df)
<1>1. /\ building = {} /\ flags' = s.flags /\ ids' = s.ids
      /\ counts' = [layers |-> Cardinality(LayersIn(df)), cells |-> Len(df)]
      /\ building' = DOMAIN s.ids
      /\ disk' = [disk EXCEPT !.data = DataFile(CellsOf(df)), !.index = IndexFile(CellsOf(df))]
      /\ store' = store /\ queries' = queries /\ alt' = alt /\ handle' = handle
      /\ again' = (again \/ ids # Empty) /\ mixed' = (mixed \/ ids # Empty)
      /\ scratch' = scratch /\ asked' = asked
  BY DEF BuildStore
<1>2. disk'.data = DataFile(CellsOf(df)) /\ disk'.index = IndexFile(CellsOf(df))
      /\ disk' = [data |-> disk'.data, index |-> disk'.index, trees |-> disk'.trees]
  <2>1. disk = [data |-> disk.data, index |-> disk.index, trees |-> disk.trees]
    BY DEF GeoInv, DiskInv
  <2>2. disk' = [data |-> DataFile(CellsOf(df)), index |-> IndexFile(CellsOf(df)), trees |-> disk.trees]
    BY <1>1, <2>1
  <2> QED
    BY <2>2
<1>3. Whole' /\ Readable' /\ DiskInv'
  <2>1. Whole'
    BY <1>2 DEF Whole, Filed
  <2>2. Readable'
    BY <1>2, FilesAre DEF Readable
  <2>3. Begun(df)'
    BY <1>2, BeginsWhole DEF Begun
  <2> QED
    BY <1>2, <2>1, <2>2, <2>3 DEF DiskInv
<1>4. /\ GoodCells(OnDisk') /\ OnDisk' # {} /\ LayersOf(OnDisk') # {} /\ Listing(df, OnDisk')
      /\ LayersIn(df) = LayersOf(OnDisk') /\ Len(df) = Cardinality(OnDisk')
  BY <1>2, FilesAre DEF OnDisk
<1>5. FlagsOf(known, {}, DOMAIN known) /\ DOMAIN known \cap LayersOf(OnDisk') = {}
  BY <1>4 DEF FlagsOf, LayersOf
<1> DEFINE R == DOMAIN known
<1> HIDE DEF known
<1>6. /\ FlagsOf(flags', OnDisk', R) /\ LayersOf(OnDisk') \subseteq DOMAIN ids'
      /\ ids = Empty => ListsOf(ids', OnDisk')
  BY <1>1, <1>4, <1>5, ScanIs
<1>7. FlagsOf(flags', OnDisk', Others')
  <2>1. Others' = R
    BY <1>5, <1>6 DEF Others, FlagsOf
  <2> QED
    BY <1>6, <2>1
<1>8. Known'
  BY <1>4, <1>6, EmptyIs DEF Known
<1>9. ids = Empty => ~IsLoaded /\ queries = {} /\ \A t \in Readers : handle[t] = Empty
  BY DEF GeoInv, ObjectInv, Known
<1> HIDE DEF s
<1>10. ObjectInv'
  <2>1. IsLoaded' = IsLoaded
    BY <1>1 DEF IsLoaded
  <2>2. ~again' => ListsOf(ids', OnDisk') /\ building' = LayersOf(OnDisk')
    BY <1>1, <1>6 DEF ListsOf
  <2>3. again' => mixed'
    BY <1>1 DEF GeoInv, ObjectInv
  <2> QED
    BY <1>1, <1>3, <1>4, <1>7, <1>8, <1>9, <2>1, <2>2, <2>3 DEF ObjectInv
<1>11. TreesInv'
  <2>1. again' => mixed'
    BY <1>1 DEF GeoInv, ObjectInv
  <2>2. ~again' => (LayersOf(OnDisk') \cap DOMAIN disk'.trees) \ building' = {}
    BY <1>1, <1>6 DEF ListsOf
  <2>3. ~mixed' => \A t \in Readers : DOMAIN handle'[t] = {}
    BY <1>1, <1>9, EmptyIs
  <2>4. DOMAIN handle' = Readers /\ handle' = [t \in Readers |-> handle'[t]]
    BY <1>1 DEF GeoInv, TreesInv
  <2> QED
    BY <2>1, <2>2, <2>3, <2>4 DEF TreesInv
<1>12. LookupInv'
  <2>1. \A t \in Readers : asked[t] # None => mixed'
    BY <1>1 DEF GeoInv, LookupInv, Known
  <2> QED
    BY <1>1, <1>8, <2>1 DEF GeoInv, LookupInv, IsLoaded
<1> QED
  BY <1>3, <1>10, <1>11, <1>12 DEF GeoInv

\* The tree of a layer's list of ids is that of the layer.
LEMMA TreeOfLayer ==
  ASSUME Whole, FlagsOf(flags, OnDisk, Others), ListsOf(ids, OnDisk), NEW l \in DOMAIN ids
  PROVE  RightTree(TreeOf([i \in DOMAIN ids[l] |-> StoredCell(ids[l][i])], flags[l].sys), OnDisk, l)
<1> DEFINE C == CellsIn(OnDisk, l)
           cells == [i \in DOMAIN ids[l] |-> StoredCell(ids[l][i])]
<1>1. \A c \in OnDisk : StoredCell(c.id) = c
  BY WholeIs
<1>2. ToSet(ids[l]) = {c.id : c \in C}
  BY DEF ListsOf
<1>3. \A i \in DOMAIN ids[l] : cells[i] \in C
  <2> TAKE i \in DOMAIN ids[l]
  <2>1. ids[l][i] \in {c.id : c \in C}
    BY <1>2 DEF ToSet
  <2>2. PICK c \in C : ids[l][i] = c.id
    BY <2>1
  <2> QED
    BY <1>1, <2>2 DEF CellsIn
<1>4. \A c \in C : \E i \in DOMAIN ids[l] : cells[i] = c
  <2> TAKE c \in C
  <2>1. PICK i \in DOMAIN ids[l] : ids[l][i] = c.id
    BY <1>2 DEF ToSet
  <2> QED
    BY <1>1, <2>1 DEF CellsIn
<1>5. l \in LayersOf(OnDisk) /\ \E c \in C : TRUE
  <2>1. l \in LayersOf(OnDisk)
    BY DEF ListsOf
  <2> QED
    BY <2>1 DEF LayersOf, CellsIn
<1>6. PICK c \in C : TRUE
  BY <1>5
<1>7. flags[l].sys = c.sys
  BY <1>5, <1>6 DEF FlagsOf
<1>8. DOMAIN cells = DOMAIN ids[l]
  OBVIOUS
<1> HIDE DEF cells, C
<1>9. TreeOf(cells, c.sys) = UNION {BoxesOf(d, c.sys) : d \in C}
  BY <1>3, <1>4, <1>8 DEF TreeOf
<1> QED
  BY <1>6, <1>7, <1>9 DEF RightTree, C, cells

\* One tree is written.
LEMMA BuildTreeKeeps ==
  ASSUME GeoInv, NEW l \in building, BuildTree(l) PROVE GeoInv'
<1> DEFINE tree == TreeOf([i \in DOMAIN ids[l] |-> StoredCell(ids[l][i])], flags[l].sys)
<1>1. /\ disk' = [disk EXCEPT !.trees = With(disk.trees, l, tree)] /\ again' = again
      /\ building' = building \ {l} /\ mixed' = (mixed /\ (building' # {} \/ again))
      /\ ids' = ids /\ flags' = flags /\ counts' = counts /\ store' = store /\ queries' = queries
      /\ alt' = alt /\ handle' = handle /\ scratch' = scratch /\ asked' = asked
  BY DEF BuildTree, objectVars
<1>2. Whole /\ Known /\ Readable /\ FlagsOf(flags, OnDisk, Others)
  BY DEF GeoInv, ObjectInv
<1>3. ASSUME ~again
      PROVE  /\ ListsOf(ids, OnDisk) /\ building \subseteq LayersOf(OnDisk)
             /\ ~IsLoaded /\ queries = {} /\ \A t \in Readers : handle[t] = Empty
  BY <1>2, <1>3 DEF GeoInv, ObjectInv
<1>4. again => mixed /\ mixed'
  BY <1>1 DEF GeoInv, ObjectInv
<1> HIDE DEF tree
<1>5. disk'.data = disk.data /\ disk'.index = disk.index /\ disk'.trees = With(disk.trees, l, tree)
      /\ disk' = [data |-> disk'.data, index |-> disk'.index, trees |-> disk'.trees]
  <2>1. disk = [data |-> disk.data, index |-> disk.index, trees |-> disk.trees]
    BY DEF GeoInv, DiskInv
  <2>2. disk' = [data |-> disk.data, index |-> disk.index, trees |-> With(disk.trees, l, tree)]
    BY <1>1, <2>1
  <2> QED
    BY <2>2
<1>6. Readable' = Readable /\ Whole' = Whole /\ OnDisk' = OnDisk
      /\ (\E df \in DataFrames : Begun(df))' = (\E df \in DataFrames : Begun(df))
  BY <1>5, SameFiles
<1>7. DiskInv'
  BY <1>2, <1>5, <1>6 DEF GeoInv, DiskInv
<1>8. ObjectInv'
  BY <1>1, <1>2, <1>4, <1>5, <1>6 DEF GeoInv, ObjectInv, Known, IsLoaded, Others
<1>9. TreesInv'
  <2>1. ASSUME ~again, NEW m \in (LayersOf(OnDisk) \cap DOMAIN disk'.trees) \ building'
        PROVE  RightTree(disk'.trees[m], OnDisk, m)
    <3>1. CASE m = l
      <4>1. disk'.trees[m] = tree
        BY <1>5, <3>1 DEF With
      <4>2. l \in DOMAIN ids
        BY <1>3, <2>1 DEF ListsOf
      <4> QED
        BY <1>2, <1>3, <2>1, <3>1, <4>1, <4>2, TreeOfLayer DEF tree
    <3>2. CASE m # l
      <4>1. m \in DOMAIN disk.trees /\ disk'.trees[m] = disk.trees[m] /\ m \notin building
        BY <1>1, <1>5, <2>1, <3>2 DEF With
      <4> QED
        BY <1>2, <2>1, <4>1 DEF GeoInv, TreesInv
    <3> QED
      BY <3>1, <3>2
  <2>2. ~again => \A t \in Readers : DOMAIN handle'[t] = {}
    BY <1>1, <1>3, EmptyIs
  <2>3. DOMAIN handle' = Readers /\ handle' = [t \in Readers |-> handle'[t]]
    BY <1>1 DEF GeoInv, TreesInv
  <2>4. again' = again
    BY <1>1
  <2> QED
    BY <1>4, <1>6, <2>1, <2>2, <2>3, <2>4 DEF TreesInv
<1>10. LookupInv'
  <2>1. \A t \in Readers : asked[t] # None => asked[t].layer \in alt \/ mixed'
    BY <1>3, <1>4 DEF GeoInv, LookupInv
  <2> QED
    BY <1>1, <1>2, <2>1 DEF GeoInv, LookupInv, Known, IsLoaded
<1> QED
  BY <1>7, <1>8, <1>9, <1>10 DEF GeoInv

\* A build() gives up, which only one that ran again can.
LEMMA BuildThrowsKeeps ==
  ASSUME GeoInv, BuildThrows PROVE GeoInv'
<1>1. /\ disk' = disk /\ flags' = flags /\ ids' = ids /\ counts' = counts /\ store' = store
      /\ queries' = queries /\ alt' = alt /\ handle' = handle /\ again' = again /\ mixed' = mixed
      /\ scratch' = scratch /\ asked' = asked /\ building' = {}
  BY DEF BuildThrows, objectVars
<1>2. PICK l \in building : \E id \in ToSet(ids[l]) : ~IsStored(id)
  BY DEF BuildThrows
<1>3. Known /\ Whole
  BY DEF GeoInv, ObjectInv
<1>4. again /\ mixed
  <2> SUFFICES ASSUME ~again PROVE FALSE
    BY DEF GeoInv, ObjectInv
  <2>1. ListsOf(ids, OnDisk) /\ l \in LayersOf(OnDisk)
    BY <1>3 DEF GeoInv, ObjectInv
  <2>2. PICK id \in ToSet(ids[l]) : ~IsStored(id)
    BY <1>2
  <2>3. PICK c \in CellsIn(OnDisk, l) : id = c.id
    BY <2>1, <2>2 DEF ListsOf
  <2> QED
    BY <1>3, <2>2, <2>3, WholeIs DEF CellsIn
<1>5. Readable' = Readable /\ Whole' = Whole /\ OnDisk' = OnDisk
      /\ (\E df \in DataFrames : Begun(df))' = (\E df \in DataFrames : Begun(df))
  BY <1>1, SameFiles
<1>6. DiskInv'
  BY <1>1, <1>5 DEF GeoInv, DiskInv
<1>7. ObjectInv'
  BY <1>1, <1>3, <1>4, <1>5 DEF GeoInv, ObjectInv, Known, IsLoaded, Others
<1>8. TreesInv'
  BY <1>1, <1>4 DEF GeoInv, TreesInv
<1>9. LookupInv'
  BY <1>1, <1>4 DEF GeoInv, LookupInv, Known, IsLoaded
<1> QED
  BY <1>6, <1>7, <1>8, <1>9 DEF GeoInv

\* load() reads the files and scans their cells, and opens trees.
LEMMA LoadKeeps ==
  ASSUME GeoInv, NEW t \in Readers, Load(t) PROVE GeoInv'
<1>1. /\ building = {} /\ disk' = disk /\ alt' = alt /\ building' = building /\ mixed' = mixed
      /\ scratch' = scratch /\ asked' = asked
  BY DEF Load
<1>2. Readable' = Readable /\ Whole' = Whole /\ OnDisk' = OnDisk
      /\ (\E df \in DataFrames : Begun(df))' = (\E df \in DataFrames : Begun(df))
  BY <1>1, SameFiles
<1>3. CASE ~Readable
  <2>1. ~Known
    BY <1>3 DEF GeoInv, ObjectInv
  <2>2. /\ store' = Unmapped /\ flags' = flags /\ ids' = ids /\ counts' = counts
        /\ queries' = queries /\ handle' = handle /\ again' = again
    BY <1>3 DEF Load, Readable
  <2>3. DiskInv'
    BY <1>1, <1>2, <2>2 DEF GeoInv, DiskInv
  <2>4. ObjectInv'
    BY <1>1, <2>1, <2>2 DEF GeoInv, ObjectInv, Known, IsLoaded, Unmapped
  <2>5. TreesInv'
    BY <1>1, <1>2, <2>1, <2>2 DEF GeoInv, TreesInv, Known
  <2>6. LookupInv'
    BY <1>1, <2>1 DEF GeoInv, LookupInv
  <2> QED
    BY <2>3, <2>4, <2>5, <2>6 DEF GeoInv
<1>4. CASE Readable
  <2> DEFINE s == Scan(flags, Empty, disk.data)
             there == DOMAIN s.ids \cap DOMAIN disk.trees
  <2>1. /\ store' = [data |-> disk.data, index |-> disk.index] /\ again' = FALSE
        /\ flags' = s.flags /\ ids' = s.ids
        /\ counts' = [layers |-> Cardinality(LayersIn(disk.data)), cells |-> Len(disk.data)]
        /\ LoadTrees(t, s)
    BY <1>4 DEF Load, LoadStart, Readable
  <2>2. /\ GoodCells(OnDisk) /\ OnDisk # {} /\ LayersOf(OnDisk) # {} /\ Listing(disk.data, OnDisk)
        /\ LayersIn(disk.data) = LayersOf(OnDisk) /\ Len(disk.data) = Cardinality(OnDisk)
    BY <1>4, DiskIs DEF GeoInv
  <2>3. FlagsOf(flags, OnDisk, Others) \/ FlagsOf(flags, {}, {})
    BY EmptyIs DEF GeoInv, ObjectInv
  <2>4. PICK R : R \cap LayersOf(OnDisk) = {} /\ FlagsOf(s.flags, OnDisk, R)
    <3>1. Others \cap LayersOf(OnDisk) = {} /\ {} \cap LayersOf(OnDisk) = {}
      BY DEF Others
    <3> QED
      BY <2>2, <2>3, <3>1, ScanIs
  <2>5. ListsOf(s.ids, OnDisk)
    <3>1. Others \cap LayersOf(OnDisk) = {} /\ {} \cap LayersOf(OnDisk) = {}
      BY DEF Others
    <3> QED
      BY <2>2, <2>3, <3>1, ScanIs
  <2> HIDE DEF s
  <2>6. DOMAIN ids' = LayersOf(OnDisk) /\ DOMAIN s.ids = LayersOf(OnDisk)
    BY <2>1, <2>5 DEF ListsOf
  <2>7. Known'
    BY <2>2, <2>6, EmptyIs DEF Known
  <2>8. IsLoaded'
    BY <1>4, <2>1 DEF IsLoaded, Readable, Unmappable
  <2>9. FlagsOf(flags', OnDisk', Others')
    <3>1. Others' = R
      BY <1>2, <2>1, <2>4 DEF Others, FlagsOf
    <3> QED
      BY <1>2, <2>1, <2>4, <3>1
  <2>10. ObjectInv'
    BY <1>1, <1>2, <1>4, <2>1, <2>2, <2>5, <2>7, <2>9 DEF ObjectInv
  <2>11. PICK opened \in SUBSET there, broken \in SUBSET (DOMAIN s.ids \ there) :
           /\ queries' = queries \cup opened \cup broken
           /\ handle' = [u \in Readers |->
                [l \in (DOMAIN handle[u] \ (opened \cup broken)) \cup (IF u = t THEN opened ELSE {}) |->
                   IF l \in opened THEN disk.trees[l] ELSE handle[u][l]]]
    BY <2>1 DEF LoadTrees
  <2>12. ASSUME NEW u \in Readers, NEW l \in DOMAIN handle'[u]
         PROVE  /\ l \in opened \/ l \in DOMAIN handle[u]
                /\ handle'[u][l] = IF l \in opened THEN disk.trees[l] ELSE handle[u][l]
    <3> DEFINE D == (DOMAIN handle[u] \ (opened \cup broken)) \cup (IF u = t THEN opened ELSE {})
    <3>1. handle'[u] = [k \in D |-> IF k \in opened THEN disk.trees[k] ELSE handle[u][k]]
      BY <2>11
    <3>2. l \in D
      BY <2>12, <3>1
    <3>3. D \subseteq opened \cup DOMAIN handle[u]
      OBVIOUS
    <3> HIDE DEF D
    <3> QED
      BY <3>1, <3>2, <3>3
  <2>13. opened \subseteq DOMAIN disk.trees
    OBVIOUS
  <2>14. DiskInv'
    <3>1. ASSUME ~Whole, ~mixed, NEW u \in Readers PROVE DOMAIN handle'[u] = {}
      <4>1. DOMAIN disk.trees = {} /\ DOMAIN handle[u] = {}
        BY <3>1 DEF GeoInv, DiskInv
      <4> QED
        BY <2>12, <2>13, <4>1
    <3> QED
      BY <1>1, <1>2, <3>1 DEF GeoInv, DiskInv
  <2>15. ASSUME ~mixed, NEW u \in Readers, NEW l \in DOMAIN handle'[u], l \in LayersOf(OnDisk)
         PROVE  RightTree(handle'[u][l], OnDisk, l)
    <3>1. CASE l \in opened
      <4>1. l \in (LayersOf(OnDisk) \cap DOMAIN disk.trees) \ building
        BY <1>1, <2>13, <2>15, <3>1
      <4>2. Whole
        BY <2>15, <4>1 DEF GeoInv, DiskInv
      <4>3. RightTree(disk.trees[l], OnDisk, l)
        BY <2>15, <4>1, <4>2 DEF GeoInv, TreesInv
      <4> QED
        BY <2>12, <3>1, <4>3
    <3>2. CASE l \notin opened
      <4>1. l \in DOMAIN handle[u] /\ handle'[u][l] = handle[u][l]
        BY <2>12, <3>2
      <4>2. Known
        BY <4>1, EmptyIs DEF GeoInv, ObjectInv
      <4> QED
        BY <2>15, <4>1, <4>2 DEF GeoInv, TreesInv
    <3> QED
      BY <3>1, <3>2
  <2>16. TreesInv'
    <3>1. DOMAIN handle' = Readers /\ handle' = [u \in Readers |-> handle'[u]]
      BY <2>11
    <3> HIDE DEF there
    <3> QED
      BY <1>1, <1>2, <2>15, <3>1 DEF GeoInv, TreesInv
  <2>17. LookupInv'
    <3>1. \A u \in Readers : Found(u)' = Found(u)
      BY <1>1, <1>2 DEF Found
    <3> QED
      BY <1>1, <2>7, <2>8, <3>1 DEF GeoInv, LookupInv
  <2> QED
    BY <2>10, <2>14, <2>16, <2>17 DEF GeoInv
<1> QED
  BY <1>3, <1>4

\* A handler takes over layers, and trees are lost: nothing that is known
\* becomes wrong.
LEMMA SetAltKeeps ==
  ASSUME GeoInv, NEW first, NEW last, SetAltGeoHandler(first, last) PROVE GeoInv'
<1>1. /\ alt \subseteq alt' /\ disk' = disk /\ flags' = flags /\ ids' = ids /\ counts' = counts
      /\ store' = store /\ queries' = queries /\ building' = building /\ again' = again /\ mixed' = mixed
      /\ handle' = handle /\ scratch' = scratch /\ asked' = asked
  BY DEF SetAltGeoHandler
<1>2. Readable' = Readable /\ Whole' = Whole /\ OnDisk' = OnDisk
      /\ (\E df \in DataFrames : Begun(df))' = (\E df \in DataFrames : Begun(df))
  BY <1>1, SameFiles
<1>3. DiskInv'
  BY <1>1, <1>2 DEF GeoInv, DiskInv
<1>4. ObjectInv'
  BY <1>1, <1>2 DEF GeoInv, ObjectInv, Known, IsLoaded, Others
<1>5. TreesInv'
  BY <1>1, <1>2 DEF GeoInv, TreesInv, Known
<1>6. LookupInv'
  <2>1. \A u \in Readers : Found(u)' = Found(u)
    BY <1>1, <1>2 DEF Found
  <2> QED
    BY <1>1, <2>1 DEF GeoInv, LookupInv, Known, IsLoaded
<1> QED
  BY <1>3, <1>4, <1>5, <1>6 DEF GeoInv

LEMMA LoseTreesKeeps ==
  ASSUME GeoInv, LoseTrees PROVE GeoInv'
<1>1. /\ disk' = [disk EXCEPT !.trees = Empty] /\ building = {} /\ building' = building
      /\ flags' = flags /\ ids' = ids /\ counts' = counts /\ store' = store /\ queries' = queries
      /\ alt' = alt /\ handle' = handle /\ again' = again /\ mixed' = mixed /\ scratch' = scratch /\ asked' = asked
  BY DEF LoseTrees, objectVars
<1>2. disk'.data = disk.data /\ disk'.index = disk.index /\ disk'.trees = Empty
      /\ disk' = [data |-> disk'.data, index |-> disk'.index, trees |-> disk'.trees]
  <2>1. disk = [data |-> disk.data, index |-> disk.index, trees |-> disk.trees]
    BY DEF GeoInv, DiskInv
  <2>2. disk' = [data |-> disk.data, index |-> disk.index, trees |-> Empty]
    BY <1>1, <2>1
  <2> QED
    BY <2>2
<1>3. Readable' = Readable /\ Whole' = Whole /\ OnDisk' = OnDisk
      /\ (\E df \in DataFrames : Begun(df))' = (\E df \in DataFrames : Begun(df))
  BY <1>2, SameFiles
<1>4. DOMAIN disk'.trees = {} /\ DiskInv'
  <2>1. DOMAIN disk'.trees = {}
    BY <1>2, EmptyIs
  <2> QED
    BY <1>1, <1>2, <1>3, <2>1 DEF GeoInv, DiskInv
<1>5. ObjectInv'
  BY <1>1, <1>2, <1>3 DEF GeoInv, ObjectInv, Known, IsLoaded, Others
<1>6. TreesInv'
  BY <1>1, <1>3, <1>4 DEF GeoInv, TreesInv, Known
<1>7. LookupInv'
  <2>1. \A u \in Readers : Found(u)' = Found(u)
    BY <1>1, <1>3 DEF Found
  <2> QED
    BY <1>1, <2>1 DEF GeoInv, LookupInv, Known, IsLoaded
<1> QED
  BY <1>4, <1>5, <1>6, <1>7 DEF GeoInv

\* The tree a thread looks into is that of the layer.
LEMMA LookedInto ==
  ASSUME GeoInv, NEW t \in Readers, NEW l \in DOMAIN ids, HasTree(t, l), ~mixed
  PROVE  /\ Whole /\ ~again /\ Known
         /\ l \in LayersOf(OnDisk) /\ RightTree(TreeFor(t, l), OnDisk, l)
<1>1. Known /\ ~again
  BY EmptyIs DEF Known, GeoInv, ObjectInv
<1>2. l \in LayersOf(OnDisk)
  BY <1>1 DEF GeoInv, ObjectInv, ListsOf
<1>3. building = {}
  BY <1>1 DEF GeoInv, ObjectInv, HasTree
<1>4. CASE l \in DOMAIN handle[t]
  <2>1. Whole
    BY <1>4 DEF GeoInv, DiskInv
  <2> QED
    BY <1>1, <1>2, <1>4, <2>1 DEF GeoInv, TreesInv, TreeFor
<1>5. CASE l \notin DOMAIN handle[t]
  <2>1. l \in DOMAIN disk.trees /\ TreeFor(t, l) = disk.trees[l]
    BY <1>5 DEF HasTree, TreeFor
  <2>2. Whole
    BY <2>1 DEF GeoInv, DiskInv
  <2> QED
    BY <1>1, <1>2, <1>3, <2>1, <2>2 DEF GeoInv, TreesInv
<1> QED
  BY <1>4, <1>5

\* What get_cell(layer, pos) answers with.
LEMMA AnswerIs ==
  ASSUME GeoInv, NEW t \in Readers, NEW l \in DOMAIN ids, l \notin alt, NEW pos \in Positions,
         NEW cell \in Answers(t, l, pos), cell # NoCell
  PROVE  /\ IsLoaded
         /\ ~mixed => /\ cell \in CellsIn(OnDisk, l)
                      /\ (\E c \in CellsIn(OnDisk, l) : IsInside(c, pos)) => IsTouching(cell, pos)
<1>1. HasTree(t, l)
  BY DEF Answers
<1>2. PICK id \in Nearest(TreeFor(t, l), QueryPoint(flags[l].sys, pos)) : cell \in Get(id)
  BY <1>1 DEF Answers
<1>3. IsLoaded
  BY <1>2 DEF Get
<1>4. ASSUME ~mixed
      PROVE  /\ cell \in CellsIn(OnDisk, l)
             /\ (\E c \in CellsIn(OnDisk, l) : IsInside(c, pos)) => IsTouching(cell, pos)
  <2>1. /\ Whole /\ ~again /\ Known
        /\ l \in LayersOf(OnDisk) /\ RightTree(TreeFor(t, l), OnDisk, l)
    BY <1>1, <1>4, LookedInto
  <2>2. FlagsOf(flags, OnDisk, Others) /\ store.data = disk.data /\ store.index = disk.index
    BY <1>3, <2>1 DEF GeoInv, ObjectInv
  <2>3. PICK c \in CellsIn(OnDisk, l) :
          TreeFor(t, l) = UNION {BoxesOf(d, c.sys) : d \in CellsIn(OnDisk, l)}
    BY <2>1 DEF RightTree
  <2>4. flags[l].sys = c.sys
    BY <2>1, <2>2 DEF FlagsOf
  <2>5. \A d \in CellsIn(OnDisk, l) : GoodCell(d) /\ (IsXYZ(d) <=> c.sys = "XYZ")
    <3>1. GoodCells(OnDisk)
      BY <2>1, WholeIs, DiskIs DEF GeoInv
    <3> QED
      BY <2>3, <3>1 DEF GoodCells, OneSystem, CellsIn, IsXYZ
  <2>6. GoodPosition(pos)
    BY PositionAssumption DEF GoodPosition
  <2>7. id \in Nearest(UNION {BoxesOf(d, c.sys) : d \in CellsIn(OnDisk, l)}, QueryPoint(c.sys, pos))
    BY <1>2, <2>3, <2>4
  <2>8. PICK d \in CellsIn(OnDisk, l) :
          d.id = id /\ ((\E e \in CellsIn(OnDisk, l) : IsInside(e, pos)) => IsTouching(d, pos))
    BY <2>5, <2>6, <2>7, NearestTouches
  <2>9. cell = d
    <3>1. FindOffset(disk.index, id) \in DOMAIN disk.data /\ disk.data[FindOffset(disk.index, id)] = d
      BY <2>1, <2>8, WholeIs DEF CellsIn, StoredCell
    <3>2. cell \in Under(disk.data, disk.index, id)
      BY <1>2, <1>3, <2>1, <2>2 DEF Get
    <3> QED
      BY <3>1, <3>2 DEF Under
  <2> QED
    BY <2>8, <2>9
<1> QED
  BY <1>3, <1>4

\* The answer is given to the thread that asked.
LEMMA AnsweredKeeps ==
  ASSUME GeoInv, NEW t \in Readers, NEW l, NEW pos, NEW cell, Known,
         Answered(t, cell, [layer |-> l, pos |-> pos, id |-> cell.id]),
         l \notin alt /\ cell # NoCell =>
           /\ IsLoaded
           /\ pos # None /\ ~mixed =>
                /\ cell \in CellsIn(OnDisk, l)
                /\ (\E c \in CellsIn(OnDisk, l) : IsInside(c, pos)) => IsTouching(cell, pos),
         OnDisk' = OnDisk, ids' = ids, alt' = alt, store' = store, again' = again /\ mixed' = mixed
  PROVE  LookupInv'
<1> DEFINE request == [layer |-> l, pos |-> pos, id |-> cell.id]
<1>1. DOMAIN scratch = Readers /\ DOMAIN asked = Readers
  BY DEF GeoInv, LookupInv
<1>2. \A u \in Readers : asked'[u] = asked[u] /\ scratch'[u] = scratch[u] => Found(u)' = Found(u)
  BY DEF Found
<1>3. CASE cell = NoCell
  <2>1. asked' = [asked EXCEPT ![t] = None] /\ scratch' = scratch
    BY <1>3 DEF Answered
  <2>2. ASSUME NEW u \in Readers, asked'[u] # None
        PROVE  asked'[u] = asked[u] /\ scratch'[u] = scratch[u]
    BY <1>1, <2>1, <2>2
  <2>3. DOMAIN scratch' = Readers /\ DOMAIN asked' = Readers
    BY <1>1, <2>1
  <2> QED
    BY <1>2, <2>2, <2>3 DEF GeoInv, LookupInv, Known, IsLoaded
<1>4. CASE cell # NoCell
  <2>1. asked' = [asked EXCEPT ![t] = request] /\ scratch' = [scratch EXCEPT ![t] = cell]
    BY <1>4 DEF Answered, Kept
  <2>2. DOMAIN scratch' = Readers /\ DOMAIN asked' = Readers
    BY <1>1, <2>1
  <2>3. ASSUME NEW u \in Readers, asked'[u] # None
        PROVE  /\ scratch'[u].id = asked'[u].id
               /\ asked'[u].layer \notin alt =>
                    IsLoaded /\ (asked'[u].pos # None /\ ~mixed => Found(u)')
    <3>1. CASE u = t
      <4>1. asked'[u] = request /\ scratch'[u] = cell
        BY <1>1, <2>1, <3>1
      <4>2. request.layer = l /\ request.pos = pos /\ request.id = cell.id
        OBVIOUS
      <4> HIDE DEF request
      <4> QED
        BY <1>4, <4>1, <4>2 DEF Found
    <3>2. CASE u # t
      <4>1. asked'[u] = asked[u] /\ scratch'[u] = scratch[u]
        BY <1>1, <2>1, <3>2
      <4> QED
        BY <1>2, <2>3, <4>1 DEF GeoInv, LookupInv
    <3> QED
      BY <3>1, <3>2
  <2> QED
    BY <2>2, <2>3 DEF LookupInv, Known, IsLoaded
<1> QED
  BY <1>3, <1>4

\* A cell is looked up by its place or by its number, and given back.
LEMMA GetCellKeeps ==
  ASSUME GeoInv, NEW t \in Readers, NEW l \in DOMAIN ids, NEW pos \in Positions, GetCell(t, l, pos)
  PROVE  GeoInv'
<1>1. /\ disk' = disk /\ flags' = flags /\ ids' = ids /\ counts' = counts /\ store' = store
      /\ queries' = queries /\ alt' = alt /\ building' = building /\ again' = again /\ mixed' = mixed
  BY DEF GetCell
<1>2. PICK cell \in Answers(t, l, pos) : Answered(t, cell, [layer |-> l, pos |-> pos, id |-> cell.id])
  BY DEF GetCell
<1>3. Readable' = Readable /\ Whole' = Whole /\ OnDisk' = OnDisk
      /\ (\E df \in DataFrames : Begun(df))' = (\E df \in DataFrames : Begun(df))
  BY <1>1, SameFiles
<1>4. Known
  BY EmptyIs DEF Known
<1>5. DOMAIN handle = Readers /\ handle = [u \in Readers |-> handle[u]]
  BY DEF GeoInv, TreesInv
<1>6. ASSUME l \notin alt, HasTree(t, l) PROVE DiskInv' /\ ObjectInv' /\ TreesInv'
  <2>1. handle' = [handle EXCEPT ![t] = With(handle[t], l, TreeFor(t, l))]
    BY <1>6 DEF GetCell, Opened
  <2>2. ObjectInv'
    <3>1. queries # {} /\ ~(building # {} /\ ~again)
      BY <1>6 DEF GeoInv, ObjectInv, HasTree
    <3> QED
      BY <1>1, <1>3, <1>4, <3>1 DEF GeoInv, ObjectInv, Known, IsLoaded, Others
  <2>3. ASSUME ~mixed, NEW u \in Readers, NEW m \in DOMAIN handle'[u], m \in LayersOf(OnDisk)
        PROVE  RightTree(handle'[u][m], OnDisk, m)
    <3>1. CASE u = t /\ m = l
      <4>1. handle'[u][m] = TreeFor(t, l)
        BY <1>5, <2>1, <3>1 DEF With
      <4> QED
        BY <1>6, <2>3, <3>1, <4>1, LookedInto
    <3>2. CASE ~(u = t /\ m = l)
      <4>1. m \in DOMAIN handle[u] /\ handle'[u][m] = handle[u][m]
        BY <1>5, <2>1, <2>3, <3>2 DEF With
      <4> QED
        BY <1>4, <2>3, <4>1 DEF GeoInv, TreesInv
    <3> QED
      BY <3>1, <3>2
  <2>4. DOMAIN handle' = Readers /\ handle' = [u \in Readers |-> handle'[u]]
    BY <1>5, <2>1
  <2>5. TreesInv'
    BY <1>1, <1>3, <1>4, <2>3, <2>4 DEF GeoInv, TreesInv, Known
  <2>6. DiskInv'
    <3>1. Whole \/ mixed
      BY <1>6, LookedInto
    <3> QED
      BY <1>1, <1>3, <3>1 DEF GeoInv, DiskInv
  <2> QED
    BY <2>2, <2>5, <2>6
<1>7. ASSUME ~(l \notin alt /\ HasTree(t, l)) PROVE DiskInv' /\ ObjectInv' /\ TreesInv'
  <2>1. handle' = handle
    BY <1>7 DEF GetCell, Opened
  <2>2. ObjectInv'
    BY <1>1, <1>3, <2>1 DEF GeoInv, ObjectInv, Known, IsLoaded, Others
  <2>3. TreesInv'
    BY <1>1, <1>3, <2>1 DEF GeoInv, TreesInv, Known
  <2>4. DiskInv'
    BY <1>1, <1>3, <2>1 DEF GeoInv, DiskInv
  <2> QED
    BY <2>2, <2>3, <2>4
<1>8. LookupInv'
  <2>1. l \notin alt /\ cell # NoCell =>
          /\ IsLoaded
          /\ ~mixed => /\ cell \in CellsIn(OnDisk, l)
                       /\ (\E c \in CellsIn(OnDisk, l) : IsInside(c, pos)) => IsTouching(cell, pos)
    BY <1>2, AnswerIs
  <2> QED
    BY <1>1, <1>2, <1>3, <1>4, <2>1, AnsweredKeeps
<1> QED
  BY <1>6, <1>7, <1>8 DEF GeoInv

LEMMA GetCellAtIdxKeeps ==
  ASSUME GeoInv, NEW t \in Readers, NEW l \in DOMAIN ids, NEW i, GetCellAtIdx(t, l, i)
  PROVE  GeoInv'
<1>1. /\ disk' = disk /\ flags' = flags /\ ids' = ids /\ counts' = counts /\ store' = store
      /\ queries' = queries /\ alt' = alt /\ building' = building /\ again' = again /\ mixed' = mixed
      /\ handle' = handle
  BY DEF GetCellAtIdx, objectVars
<1>2. PICK cell \in IF l \in DOMAIN ids /\ i \in DOMAIN ids[l] THEN Get(ids[l][i]) ELSE {NoCell} :
        Answered(t, cell, [layer |-> l, pos |-> None, id |-> cell.id])
  BY DEF GetCellAtIdx
<1>3. Readable' = Readable /\ Whole' = Whole /\ OnDisk' = OnDisk
      /\ (\E df \in DataFrames : Begun(df))' = (\E df \in DataFrames : Begun(df))
  BY <1>1, SameFiles
<1>4. Known
  BY EmptyIs DEF Known
<1>5. cell # NoCell => IsLoaded
  BY <1>2 DEF Get
<1>6. DiskInv'
  BY <1>1, <1>3 DEF GeoInv, DiskInv
<1>7. ObjectInv'
  BY <1>1, <1>3 DEF GeoInv, ObjectInv, Known, IsLoaded, Others
<1>8. TreesInv'
  BY <1>1, <1>3 DEF GeoInv, TreesInv, Known
<1>9. LookupInv'
  BY <1>1, <1>2, <1>3, <1>4, <1>5, AnsweredKeeps
<1> QED
  BY <1>6, <1>7, <1>8, <1>9 DEF GeoInv

LEMMA ReleaseKeeps ==
  ASSUME GeoInv, NEW t \in Readers, Release(t) PROVE GeoInv'
<1>1. /\ disk' = disk /\ flags' = flags /\ ids' = ids /\ counts' = counts /\ store' = store
      /\ queries' = queries /\ alt' = alt /\ building' = building /\ again' = again /\ mixed' = mixed /\ handle' = handle
      /\ asked' = [asked EXCEPT ![t] = None] /\ scratch' = [scratch EXCEPT ![t] = NoCell]
  BY DEF Release, objectVars
<1>2. Readable' = Readable /\ Whole' = Whole /\ OnDisk' = OnDisk
      /\ (\E df \in DataFrames : Begun(df))' = (\E df \in DataFrames : Begun(df))
  BY <1>1, SameFiles
<1>3. DiskInv' /\ ObjectInv'
  BY <1>1, <1>2 DEF GeoInv, DiskInv, ObjectInv, Known, IsLoaded, Others
<1>4. TreesInv'
  BY <1>1, <1>2 DEF GeoInv, TreesInv, Known
<1>5. LookupInv'
  <2>1. DOMAIN scratch = Readers /\ DOMAIN asked = Readers
    BY DEF GeoInv, LookupInv
  <2>2. ASSUME NEW u \in Readers, asked'[u] # None
        PROVE  asked'[u] = asked[u] /\ scratch'[u] = scratch[u] /\ Found(u)' = Found(u)
    <3>1. asked'[u] = asked[u] /\ scratch'[u] = scratch[u]
      BY <1>1, <2>1, <2>2
    <3> QED
      BY <1>2, <3>1 DEF Found
  <2>3. DOMAIN scratch' = Readers /\ DOMAIN asked' = Readers
    BY <1>1, <2>1
  <2> QED
    BY <1>1, <2>2, <2>3 DEF GeoInv, LookupInv, Known, IsLoaded
<1> QED
  BY <1>3, <1>4, <1>5 DEF GeoInv

\* The extrapolation only reads the geometry.
LEMMA OthersKeep ==
  ASSUME GeoInv, UNCHANGED geoVars PROVE GeoInv'
<1>1. /\ disk' = disk /\ flags' = flags /\ ids' = ids /\ counts' = counts /\ store' = store
      /\ queries' = queries /\ alt' = alt /\ building' = building /\ again' = again /\ mixed' = mixed /\ handle' = handle
      /\ asked' = asked /\ scratch' = scratch
  BY DEF geoVars
<1>2. Readable' = Readable /\ Whole' = Whole /\ OnDisk' = OnDisk
      /\ (\E df \in DataFrames : Begun(df))' = (\E df \in DataFrames : Begun(df))
  BY <1>1, SameFiles
<1>3. DiskInv' /\ ObjectInv' /\ TreesInv'
  BY <1>1, <1>2 DEF GeoInv, DiskInv, ObjectInv, TreesInv, Known, IsLoaded, Others
<1>4. LookupInv'
  <2>1. \A u \in Readers : Found(u)' = Found(u)
    BY <1>1, <1>2 DEF Found
  <2> QED
    BY <1>1, <2>1 DEF GeoInv, LookupInv, Known, IsLoaded
<1> QED
  BY <1>3, <1>4 DEF GeoInv

\* Whatever is done with it, what a geometry knows is what is on the disk unless
\* it was built again and not loaded since, its trees are those of its layers
\* unless a build was cut off or ran again, and its callers read what they were
\* given.
THEOREM GeoInvAlways ==
  ExtrapolationSpec => []GeoInv
<1>1. ExtrapolationInit => GeoInv
  BY GeoInvFirst DEF ExtrapolationInit
<1>2. GeoInv /\ [ExtrapolationNext]_extrapolationVars => GeoInv'
  <2> SUFFICES ASSUME GeoInv, [ExtrapolationNext]_extrapolationVars PROVE GeoInv'
    OBVIOUS
  <2>1. CASE GeoStep
    <3>1. CASE Restart
      BY <3>1, RestartKeeps
    <3>2. CASE LoseTrees
      BY <3>2, LoseTreesKeeps
    <3>3. CASE \E df \in DataFrames : BuildStore(df)
      BY <3>3, BuildStoreKeeps
    <3>4. CASE \E l \in building : BuildTree(l)
      BY <3>4, BuildTreeKeeps
    <3>5. CASE Load(MainThread)
      BY <3>5, BoundaryAssumption, LoadKeeps
    <3>6. CASE \E l \in DOMAIN ids : SetAltGeoHandler(l, l)
      BY <3>6, SetAltKeeps
    <3>7. CASE \E t \in Readers : \E l \in DOMAIN ids, pos \in Positions : GetCell(t, l, pos)
      BY <3>7, GetCellKeeps
    <3>8. CASE \E t \in Readers : \E l \in DOMAIN ids, i \in {1, 4} : GetCellAtIdx(t, l, i)
      BY <3>8, GetCellAtIdxKeeps
    <3>9. CASE \E t \in Readers : Release(t)
      BY <3>9, ReleaseKeeps
    <3>10. CASE \E df \in DataFrames, cut \in Cuts : CutOff(df, cut[1], cut[2])
      BY <3>10, CutOffKeeps
    <3>11. CASE BuildThrows
      BY <3>11, BuildThrowsKeeps
    <3> QED
      BY <2>1, <3>1, <3>2, <3>3, <3>4, <3>5, <3>6, <3>7, <3>8, <3>9, <3>10, <3>11 DEF GeoStep
  <2>2. CASE UNCHANGED geoVars
    BY <2>2, OthersKeep
  <2>3. CASE UNCHANGED extrapolationVars
    BY <2>2, <2>3 DEF extrapolationVars
  <2>4. CASE ExtrapolationNext /\ ~GeoStep
    BY <2>2, <2>4 DEF ExtrapolationNext, Extrapolate, NewResult, BoundaryStep, LayerStep, ClearStart, ClearLayer
  <2> QED
    BY <2>1, <2>3, <2>4
<1> QED
  BY <1>1, <1>2, PTL DEF ExtrapolationSpec

\* A cell that is looked up by its place is a cell of the layer, and the one the
\* place is in, if there is one: the boxes of the trees agree with is_inside()
\* for every geometry, also across the end of the angle's range (RTreeHelpers,
\* CellStore::get, CaloGeo::get_cell).
THEOREM LookupsHit ==
  ExtrapolationSpec => []HitIsInItsCell
<1>1. GeoInv => HitIsInItsCell
  <2> SUFFICES ASSUME GeoInv, NEW t \in Readers, asked[t] # None, asked[t].layer \notin alt,
                      asked[t].pos # None, ~mixed
               PROVE  /\ scratch[t] \in StoredIn(asked[t].layer)
                      /\ (\E c \in StoredIn(asked[t].layer) : IsInside(c, asked[t].pos))
                           => IsTouching(scratch[t], asked[t].pos)
    BY DEF HitIsInItsCell
  <2>1. IsLoaded /\ Found(t)
    BY DEF GeoInv, LookupInv
  <2>2. store.data = disk.data
    BY <2>1 DEF GeoInv, ObjectInv
  <2>3. StoredIn(asked[t].layer) = CellsIn(OnDisk, asked[t].layer)
    BY <2>2 DEF StoredIn, CellsIn, OnDisk
  <2> QED
    BY <2>1, <2>3 DEF Found
<1> QED
  BY <1>1, GeoInvAlways, PTL

\* The smallest and the largest of the ends of some cells.
LEMMA EndsAre ==
  ASSUME NEW C, C # {}, \A c \in C : GoodCell(c), NEW ext, ExtentOf(ext, C)
  PROVE  /\ ext.min = Min({c.eta - Half(c.deta) : c \in C})
         /\ ext.max = Max({c.eta + Half(c.deta) : c \in C})
<1> DEFINE Lows == {c.eta - Half(c.deta) : c \in C}
           Highs == {c.eta + Half(c.deta) : c \in C}
<1>1. /\ ext.min \in Int /\ (\E c \in C : ext.min = LowEta(c)) /\ \A c \in C : ext.min <= LowEta(c)
      /\ ext.max \in Int /\ (\E c \in C : ext.max = HighEta(c)) /\ \A c \in C : HighEta(c) <= ext.max
  BY DEF ExtentOf
<1>2. Lows \subseteq Int /\ Highs \subseteq Int
  BY EtaOfCell DEF LowEta, HighEta
<1>3. ext.min \in Lows /\ \A x \in Lows : ext.min <= x
  BY <1>1 DEF LowEta
<1>4. ext.max \in Highs /\ \A x \in Highs : x <= ext.max
  BY <1>1 DEF HighEta
<1> HIDE DEF Lows, Highs
<1>5. Min(Lows) = ext.min
  <2>1. ASSUME NEW x \in Lows, \A y \in Lows : x <= y PROVE x = ext.min
    <3>1. x <= ext.min /\ ext.min <= x
      BY <1>3, <2>1
    <3>2. x \in Int /\ ext.min \in Int
      BY <1>2, <1>3
    <3> QED
      BY <3>1, <3>2
  <2> QED
    BY <1>3, <2>1 DEF Min
<1>6. Max(Highs) = ext.max
  <2>1. ASSUME NEW x \in Highs, \A y \in Highs : x >= y PROVE x = ext.max
    <3>1. x >= ext.max /\ x <= ext.max
      BY <1>4, <2>1
    <3>2. x \in Int /\ ext.max \in Int
      BY <1>2, <1>4
    <3> QED
      BY <3>1, <3>2
  <2>2. \A y \in Highs : ext.max >= y
    BY <1>2, <1>4
  <2> QED
    BY <1>4, <2>1, <2>2 DEF Max
<1> QED
  BY <1>5, <1>6 DEF Lows, Highs

\* After a load(), whatever was built, built again, cut off and loaded before,
\* the lists hold each stored cell once and the extents are those of the cells,
\* and a caller reads the cell it was given until its own next lookup
\* (CaloGeo::load, CellStore::get).
THEOREM CellsAreAsStored ==
  ExtrapolationSpec => []CellsAsStored
<1>1. GeoInv => ReadsItsCell
  BY DEF GeoInv, LookupInv, ReadsItsCell
<1>2. GeoInv => LayersDescribeStore
  <2> SUFFICES ASSUME GeoInv, IsLoaded, ~again PROVE LayersDescribeStore
    BY DEF LayersDescribeStore
  <2>1. Known /\ store.data = disk.data
    BY DEF GeoInv, ObjectInv
  <2>2. /\ Readable /\ FlagsOf(flags, OnDisk, Others) /\ ListsOf(ids, OnDisk)
        /\ counts = [layers |-> Cardinality(LayersOf(OnDisk)), cells |-> Cardinality(OnDisk)]
    BY <2>1 DEF GeoInv, ObjectInv
  <2>3. GoodCells(OnDisk) /\ Len(store.data) = Cardinality(OnDisk)
    BY <2>1, <2>2, DiskIs DEF GeoInv
  <2>4. counts = [layers |-> Cardinality(DOMAIN ids), cells |-> Len(store.data)]
    BY <2>2, <2>3 DEF ListsOf
  <2>5. ASSUME NEW l \in DOMAIN ids
        PROVE  /\ ToSet(ids[l]) = {c.id : c \in StoredIn(l)}
               /\ Len(ids[l]) = Cardinality(StoredIn(l))
               /\ \A side \in {"positive", "negative"} :
                    LET there == {c \in StoredIn(l) : SideOf(c) = side} IN
                    there # {} =>
                      /\ flags[l].extent[side].min = Min({c.eta - Half(c.deta) : c \in there})
                      /\ flags[l].extent[side].max = Max({c.eta + Half(c.deta) : c \in there})
    <3>1. StoredIn(l) = CellsIn(OnDisk, l)
      BY <2>1 DEF StoredIn, CellsIn, OnDisk
    <3>2. ToSet(ids[l]) = {c.id : c \in StoredIn(l)} /\ Len(ids[l]) = Cardinality(StoredIn(l))
      BY <2>2, <3>1 DEF ListsOf
    <3>3. ASSUME NEW side \in {"positive", "negative"}, NEW C,
                 C = {c \in StoredIn(l) : SideOf(c) = side}, C # {}
          PROVE  /\ flags[l].extent[side].min = Min({c.eta - Half(c.deta) : c \in C})
                 /\ flags[l].extent[side].max = Max({c.eta + Half(c.deta) : c \in C})
      <4>1. C = OnSide(OnDisk, l, side)
        BY <3>1, <3>3 DEF OnSide
      <4>2. l \in LayersOf(OnDisk) /\ side \in Sides
        BY <2>2 DEF ListsOf, Sides
      <4>3. ExtentOf(flags[l].extent[side], C)
        BY <2>2, <4>1, <4>2 DEF FlagsOf
      <4>4. \A c \in C : GoodCell(c)
        BY <2>3, <4>1 DEF GoodCells, OnSide, CellsIn
      <4> QED
        BY <3>3, <4>3, <4>4, EndsAre
    <3> QED
      BY <3>2, <3>3
  <2> QED
    BY <2>4, <2>5 DEF LayersDescribeStore
<1>3. GeoInv => CellsAsStored
  BY <1>1, <1>2 DEF CellsAsStored
<1> QED
  BY <1>3, GeoInvAlways, PTL
=============================================================================
