---------------------- MODULE SimulationSteppingProofs ----------------------
(***************************************************************************)
(* Theorems about SimulationStepping.                                       *)
(***************************************************************************)
EXTENDS SimulationStepping, SequenceTheorems, TLAPS

(***************************************************************************)
(* Types.  Each group of variables has its own invariant, so that an       *)
(* action is looked at only by the groups that it changes.                 *)
(***************************************************************************)
Kinds == {"step", "update", "post"}

ClockTypes ==
  /\ pc \in Labels /\ run \in Nat /\ stopTime \in Nat
  /\ timeNow \in Nat /\ numSteps \in Nat
  /\ calendar \subseteq Entries /\ evt \in Entries
  /\ done \in [Kinds -> Nat]

EventTypes ==
  /\ defined \in BOOLEAN /\ lastSender \in {"supervisor", "actors"}
  /\ sent \in Nat
  /\ {unCommittedEvents, fromSupervisor, fromActors} \subseteq [Names -> SUBSET Nat]
  /\ commits \in [Names -> Seq([batch : SUBSET Nat, at : Types \cup {"none"}])]
  /\ seen \in [Pollers -> [Names -> Seq(SUBSET Nat)]]

ActorTypes ==
  /\ DOMAIN rtActors \subseteq Actors /\ rtActors \in [DOMAIN rtActors -> States]
  /\ unCommittedActors \in [DOMAIN unCommittedActors -> States]
  /\ worldCoords \subseteq Actors /\ clashed \subseteq Actors
  /\ latest \in [Actors -> Nat] /\ updates \in Nat

CallTypes == creating \in Actors \cup {World} /\ call \in [Callers -> Actors \cup {World}]

LEMMA TypesInGroups == TypeOK <=> ClockTypes /\ EventTypes /\ ActorTypes /\ CallTypes
BY DEF TypeOK, ClockTypes, EventTypes, ActorTypes, CallTypes, Kinds

\* Calls of clients leave the clock alone, and the thread's own actions mostly
\* leave the events or the actors alone.
LEMMA ClientKeepsClock == Client => UNCHANGED <<pc, run, clock>>
BY DEF Client, SendEvents, SetRuntimeActors, RefuseRuntimeActors, UpdateActorPose,
       BeginAddActor, EndAddActor

LEMMA EntryTypes ==
  ASSUME NEW t \in Nat, NEW type \in Types \cup {"none"}, NEW n \in Nat
  PROVE  /\ At(t, type, n) \in Entries
         /\ At(t, type, n).time = t /\ At(t, type, n).type = type /\ At(t, type, n).steps = n
BY DEF At, Entries

LEMMA StepTimes ==
  ASSUME NEW n \in Nat
  PROVE  StepSize * n \in Nat /\ StepSize * (n + 1) = StepSize * n + StepSize
BY SteppingAssumption

LEMMA ClockTypesInit == Init => ClockTypes
BY EntryTypes, SteppingAssumption
   DEF Init, ClockTypes, Labels, Kinds, NotDone, NoEvent, Types, At, Entries

LEMMA ClockTypesStep == ClockTypes /\ [Next]_vars => ClockTypes'
<1> SUFFICES ASSUME ClockTypes, [Next]_vars PROVE ClockTypes'
  OBVIOUS
<1> USE SteppingAssumption DEF ClockTypes, Labels, Kinds, clock, Continue, Counted
<1>1. CASE StartSimulation
  <2>1. stopTime' \in Nat /\ done' \in [Kinds -> Nat]
    BY <1>1 DEF StartSimulation, NotDone
  <2>2. calendar' \subseteq Entries
    <3>1. At(stopTime', "stop", 0) \in Entries
      BY <2>1, EntryTypes DEF Types
    <3>2. \A type \in {"start", "step", "update", "post"} : At(0, type, 0) \in Entries
      BY EntryTypes DEF Types
    <3> QED BY <1>1, <3>1, <3>2 DEF StartSimulation
  <2>3. pc' \in Labels /\ run' \in Nat /\ UNCHANGED <<timeNow, evt, numSteps>>
    BY <1>1 DEF StartSimulation
  <2> QED BY <2>1, <2>2, <2>3
<1>2. CASE PopNextEvent
  <2>1. PICK e \in calendar : /\ calendar' = calendar \ {e}
                              /\ evt' = IF e.type = "stop" THEN [e EXCEPT !.steps = numSteps] ELSE e
    BY <1>2 DEF PopNextEvent
  <2>2. e \in Entries /\ calendar' \subseteq Entries
    BY <2>1
  <2>3. [e EXCEPT !.steps = numSteps] \in Entries
    BY <2>2 DEF Entries
  <2>4. evt' \in Entries
    BY <2>1, <2>2, <2>3
  <2>5. pc' = "publish" /\ UNCHANGED <<run, timeNow, numSteps, done, stopTime>>
    BY <1>2 DEF PopNextEvent
  <2> QED BY <2>2, <2>4, <2>5
<1>3. CASE Publish \/ ExecuteScenario \/ EndScenario \/ ScenarioDone \/ CommitStop
  BY <1>3 DEF Publish, ExecuteScenario, EndScenario, ScenarioDone, CommitStop
<1>4. ASSUME NEW a \in Actors, NEW mode \in Modes, RefuseActor(a, mode) \/ InitializeActor(a, mode)
      PROVE  ClockTypes'
  BY <1>4 DEF RefuseActor, InitializeActor
<1>5. CASE CreateActor \/ CommitStart \/ GoOn \/ StopRequested
  BY <1>5 DEF CreateActor, CommitStart, GoOn, StopRequested
<1>6. CASE CommitStep
  <2>1. evt.steps \in Nat
    BY DEF Entries
  <2>2. At(StepSize * (evt.steps + 1), "step", evt.steps + 1) \in Entries
    <3>1. evt.steps + 1 \in Nat /\ StepSize * (evt.steps + 1) \in Nat
      BY <2>1, StepTimes
    <3> QED BY <3>1, EntryTypes DEF Types
  <2> QED BY <1>6, <2>1, <2>2 DEF CommitStep
<1>7. CASE CommitUpdate
  <2>1. At(StepSize * (numSteps + 1), "update", 0) \in Entries
    BY EntryTypes, StepTimes DEF Types
  <2> QED BY <1>7, <2>1 DEF CommitUpdate
<1>8. CASE CommitPostStep
  <2>1. At(StepSize * (numSteps + 1), "post", 0) \in Entries
    BY EntryTypes, StepTimes DEF Types
  <2> QED BY <1>8, <2>1 DEF CommitPostStep
<1>9. CASE AdvanceTime
  <2>1. timeNow' \in Nat
    BY <1>9 DEF AdvanceTime, Entries
  <2> QED BY <1>9, <2>1 DEF AdvanceTime
<1>10. CASE PublishStopEvent
  <2>1. evt' \in Entries
    BY <1>10, EntryTypes DEF PublishStopEvent, Types
  <2> QED BY <1>10, <2>1 DEF PublishStopEvent
<1>11. CASE CleanupModel
  <2>1. NoEvent \in Entries
    BY EntryTypes DEF NoEvent
  <2> QED BY <1>11, <2>1 DEF CleanupModel
<1>12. CASE CleanupActors \/ CleanupEvents
  BY <1>12 DEF CleanupActors, CleanupEvents
<1>13. CASE Client \/ UNCHANGED vars
  BY <1>13, ClientKeepsClock DEF vars
<1> QED
  BY <1>1, <1>2, <1>3, <1>4, <1>5, <1>6, <1>7, <1>8, <1>9, <1>10, <1>11, <1>12, <1>13
  DEF Next, SimulationThread

-----------------------------------------------------------------------------
LEMMA BatchTypes ==
  ASSUME NEW queue \in SUBSET Nat
  PROVE  Batch(queue) \in Seq(SUBSET Nat)
<1>1. <<>> \in Seq(SUBSET Nat)
  BY EmptySeq
<1>2. <<queue>> \in Seq(SUBSET Nat)
  OBVIOUS
<1> QED BY <1>1, <1>2 DEF Batch

LEMMA ReceivedTypes == EventTypes => \A n \in Names : ReceiveEvents(n) \in Seq(SUBSET Nat)
<1> SUFFICES ASSUME EventTypes, NEW n \in Names PROVE ReceiveEvents(n) \in Seq(SUBSET Nat)
  OBVIOUS
<1>1. Batch(fromSupervisor[n]) \in Seq(SUBSET Nat) /\ Batch(fromActors[n]) \in Seq(SUBSET Nat)
  BY BatchTypes DEF EventTypes
<1> QED BY <1>1, ConcatProperties DEF ReceiveEvents

LEMMA PollTypes == ASSUME EventTypes, NEW q \in Pollers, Poll(q)
                   PROVE  seen' \in [Pollers -> [Names -> Seq(SUBSET Nat)]]
<1>1. ASSUME NEW n \in Names PROVE seen[q][n] \o ReceiveEvents(n) \in Seq(SUBSET Nat)
  <2>1. seen[q][n] \in Seq(SUBSET Nat)
    BY DEF EventTypes
  <2>2. ReceiveEvents(n) \in Seq(SUBSET Nat)
    BY ReceivedTypes
  <2> QED BY <2>1, <2>2, ConcatProperties
<1>2. [n \in Names |-> seen[q][n] \o ReceiveEvents(n)] \in [Names -> Seq(SUBSET Nat)]
  BY <1>1
<1>3. seen' = [seen EXCEPT ![q] = [n \in Names |-> seen[q][n] \o ReceiveEvents(n)]]
  BY DEF Poll
<1> QED BY <1>2, <1>3 DEF EventTypes

LEMMA CommitTypes ==
  ASSUME EventTypes, evt \in Entries, NEW sender \in {"supervisor", "actors"},
         CommitEventUpdates(sender)
  PROVE  EventTypes'
<1> USE DEF EventTypes
<1> DEFINE C == [batch : SUBSET Nat, at : Types \cup {"none"}]
           e(n) == [batch |-> unCommittedEvents[n], at |-> evt.type]
<1>1. \A n \in Names : e(n) \in C /\ commits[n] \in Seq(C)
  BY DEF Entries
<1>2. commits' = [n \in Names |-> IF unCommittedEvents[n] = {} THEN commits[n] ELSE Append(commits[n], e(n))]
  BY DEF CommitEventUpdates
<1> HIDE DEF C, e
<1>3. \A n \in Names : Append(commits[n], e(n)) \in Seq(C)
  BY <1>1, AppendProperties
<1>4. commits' \in [Names -> Seq(C)]
  BY <1>1, <1>2, <1>3
<1>5. NoEvents \in [Names -> SUBSET Nat]
  BY DEF NoEvents
<1> QED BY <1>4, <1>5 DEF CommitEventUpdates, C

LEMMA NothingTypes == /\ NoEvents \in [Names -> SUBSET Nat]
                      /\ \A S : NoBatches \in [Names -> Seq(S)]
BY EmptySeq DEF NoEvents, NoBatches

LEMMA EventTypesInit == Init => EventTypes
<1> SUFFICES ASSUME Init PROVE EventTypes
  OBVIOUS
<1>1. commits \in [Names -> Seq([batch : SUBSET Nat, at : Types \cup {"none"}])]
  BY NothingTypes DEF Init
<1>2. seen \in [Pollers -> [Names -> Seq(SUBSET Nat)]]
  <2>1. NoBatches \in [Names -> Seq(SUBSET Nat)]
    BY NothingTypes
  <2> QED BY <2>1 DEF Init
<1> QED BY <1>1, <1>2, NothingTypes DEF Init, EventTypes

LEMMA EventTypesStep == EventTypes /\ ClockTypes /\ [Next]_vars => EventTypes'
<1> SUFFICES ASSUME EventTypes, ClockTypes, [Next]_vars PROVE EventTypes'
  OBVIOUS
<1>0. evt \in Entries
  BY DEF ClockTypes
<1>1. ASSUME UNCHANGED events PROVE EventTypes'
  BY <1>1 DEF events, EventTypes
<1>2. CASE StartSimulation
  BY <1>2, NothingTypes DEF StartSimulation, EventTypes
<1>3. CASE Publish
  <2>1. seen' \in [Pollers -> [Names -> Seq(SUBSET Nat)]]
    BY <1>3, PollTypes DEF Publish, Pollers, EventTypes
  <2> QED BY <1>3, <2>1 DEF Publish, EventTypes
<1>4. CASE ExecuteScenario
  <2>1. seen' \in [Pollers -> [Names -> Seq(SUBSET Nat)]]
    BY <1>4, PollTypes DEF ExecuteScenario, Pollers
  <2> QED BY <1>4, <2>1 DEF ExecuteScenario, EventTypes
<1>5. CASE CommitStart \/ CommitStep \/ CommitUpdate
  BY <1>0, <1>5, CommitTypes DEF CommitStart, CommitStep, CommitUpdate
<1>6. CASE CleanupEvents
  BY <1>6, NothingTypes DEF CleanupEvents, EventTypes
<1>12. ASSUME NEW n \in Names, SendEvents(n) PROVE EventTypes'
  <2>1. sent + 1 \in Nat
    BY DEF EventTypes
  <2>2. unCommittedEvents' \in [Names -> SUBSET Nat]
    BY <1>12, <2>1 DEF SendEvents, EventTypes
  <2> QED BY <1>12, <2>1, <2>2 DEF SendEvents, EventTypes
<1>7. CASE PopNextEvent \/ EndScenario \/ ScenarioDone \/ CommitPostStep \/ CommitStop \/ AdvanceTime
  BY <1>1, <1>7 DEF PopNextEvent, EndScenario, ScenarioDone, CommitPostStep, CommitStop, AdvanceTime
<1>8. CASE CreateActor \/ GoOn \/ StopRequested \/ PublishStopEvent \/ CleanupModel \/ CleanupActors
  BY <1>1, <1>8 DEF CreateActor, GoOn, StopRequested, PublishStopEvent, CleanupModel, CleanupActors
<1>9. ASSUME NEW a \in Actors, NEW mode \in Modes, RefuseActor(a, mode) \/ InitializeActor(a, mode)
      PROVE  EventTypes'
  BY <1>1, <1>9 DEF RefuseActor, InitializeActor
<1>10. CASE Client
  BY <1>1, <1>12, <1>10 DEF Client, SetRuntimeActors, RefuseRuntimeActors, UpdateActorPose,
     BeginAddActor, EndAddActor
<1>11. CASE UNCHANGED vars
  BY <1>1, <1>11 DEF vars
<1> QED
  BY <1>2, <1>3, <1>4, <1>5, <1>6, <1>7, <1>8, <1>9, <1>10, <1>11 DEF Next, SimulationThread

-----------------------------------------------------------------------------
LEMMA FamilyOfActors == \A a : WithDescendants(a) \subseteq Actors
BY DEF WithDescendants

\* A map of actors.
IsMap(f) == DOMAIN f \subseteq Actors /\ f \in [DOMAIN f -> States]

LEMMA EmptyMap == IsMap(<<>>) /\ DOMAIN <<>> = {}
BY DEF IsMap

LEMMA AddedActors ==
  ASSUME NEW rt, IsMap(rt), NEW a
  PROVE  /\ IsMap(AddRuntimeActors(rt, a))
         /\ DOMAIN rt \subseteq DOMAIN AddRuntimeActors(rt, a)
         /\ \A b \in DOMAIN rt : AddRuntimeActors(rt, a)[b] = rt[b]
         /\ \A b \in DOMAIN AddRuntimeActors(rt, a) \ DOMAIN rt :
              AddRuntimeActors(rt, a)[b] = [pose |-> 0, local |-> 0]
<1>1. [pose |-> 0, local |-> 0] \in States
  BY DEF States
<1> QED BY <1>1, FamilyOfActors DEF AddRuntimeActors, IsMap

LEMMA DerivedTypes ==
  ASSUME NEW a, NEW state \in States
  PROVE  Derived(a, state) \in States
BY DEF Derived, States

LEMMA CommitActorTypes ==
  ASSUME ActorTypes, NEW rt, IsMap(rt), CommitActorUpdates(rt)
  PROVE  ActorTypes' /\ DOMAIN rtActors' = DOMAIN rt
<1>1. IsMap(rtActors') /\ DOMAIN rtActors' = DOMAIN rt
  BY DerivedTypes DEF CommitActorUpdates, IsMap, ActorTypes
<1>2. unCommittedActors' \in [DOMAIN unCommittedActors' -> States]
  BY EmptyMap DEF CommitActorUpdates, IsMap
<1> QED BY <1>1, <1>2 DEF CommitActorUpdates, IsMap, ActorTypes

LEMMA ActorTypesInit == Init => ActorTypes
BY EmptyMap DEF Init, ActorTypes, IsMap

LEMMA ActorTypesStep == ActorTypes /\ [Next]_vars => ActorTypes'
<1> SUFFICES ASSUME ActorTypes, [Next]_vars PROVE ActorTypes'
  OBVIOUS
<1>1. ASSUME UNCHANGED actors PROVE ActorTypes'
  BY <1>1 DEF actors, ActorTypes
<1>2. IsMap(rtActors)
  BY DEF IsMap, ActorTypes
<1>3. \A a : IsMap(AddRuntimeActors(rtActors, a))
  BY <1>2, AddedActors
<1>4. CASE CreateActor \/ CommitStep
  BY <1>2, <1>3, <1>4, CommitActorTypes DEF CreateActor, CommitStep
<1>5. ASSUME NEW c \in Callers, EndAddActor(c) PROVE ActorTypes'
  BY <1>3, <1>5, CommitActorTypes DEF EndAddActor
<1>6. CASE CleanupActors
  BY <1>6, EmptyMap DEF CleanupActors, ActorTypes, IsMap
<1>7. ASSUME NEW a \in Actors, SetRuntimeActors(a) PROVE ActorTypes'
  <2>1. [pose |-> updates + 1, local |-> updates + 1] \in States
    BY DEF ActorTypes, States
  <2>2. unCommittedActors' \in [DOMAIN unCommittedActors' -> States]
    BY <1>7, <2>1 DEF SetRuntimeActors, Uncommitted, ActorTypes
  <2> QED BY <1>7, <2>2 DEF SetRuntimeActors, Accepted, ActorTypes
<1>8. ASSUME NEW a \in Actors, RefuseRuntimeActors(a) PROVE ActorTypes'
  BY <1>8 DEF RefuseRuntimeActors, ActorTypes
<1>9. ASSUME NEW a \in Actors, NEW frame \in {"world", "parent"}, UpdateActorPose(a, frame)
      PROVE  ActorTypes'
  <2>1. /\ [rtActors[a] EXCEPT !.pose = updates + 1] \in States
        /\ [rtActors[a] EXCEPT !.local = updates + 1] \in States
    BY <1>9 DEF UpdateActorPose, ActorTypes, States
  <2>2. unCommittedActors' \in [DOMAIN unCommittedActors' -> States]
    BY <1>9, <2>1 DEF UpdateActorPose, Uncommitted, ActorTypes
  <2> QED BY <1>9, <2>2 DEF UpdateActorPose, Accepted, ActorTypes
<1>10. CASE StartSimulation \/ PopNextEvent \/ Publish \/ ExecuteScenario \/ EndScenario \/ ScenarioDone
  BY <1>1, <1>10 DEF StartSimulation, PopNextEvent, Publish, ExecuteScenario, EndScenario, ScenarioDone
<1>11. CASE CommitStart \/ CommitUpdate \/ CommitPostStep \/ CommitStop \/ AdvanceTime
  BY <1>1, <1>11 DEF CommitStart, CommitUpdate, CommitPostStep, CommitStop, AdvanceTime
<1>12. CASE GoOn \/ StopRequested \/ PublishStopEvent \/ CleanupModel \/ CleanupEvents
  BY <1>1, <1>12 DEF GoOn, StopRequested, PublishStopEvent, CleanupModel, CleanupEvents
<1>13. ASSUME NEW a \in Actors, NEW mode \in Modes, RefuseActor(a, mode) \/ InitializeActor(a, mode)
       PROVE  ActorTypes'
  BY <1>1, <1>13 DEF RefuseActor, InitializeActor
<1>14. ASSUME (\E n \in Names : SendEvents(n)) \/ (\E a \in Actors, c \in Callers : BeginAddActor(c, a)) PROVE ActorTypes'
  BY <1>1, <1>14 DEF SendEvents, BeginAddActor
<1>15. CASE UNCHANGED vars
  BY <1>1, <1>15 DEF vars
<1> QED
  BY <1>4, <1>5, <1>6, <1>7, <1>8, <1>9, <1>10, <1>11, <1>12, <1>13, <1>14, <1>15
  DEF Next, SimulationThread, Client

LEMMA CallTypesStep == CallTypes /\ [Next]_vars => CallTypes'
<1> SUFFICES ASSUME CallTypes, [Next]_vars PROVE CallTypes'
  OBVIOUS
<1> USE DEF CallTypes
<1>1. CASE SimulationThread \/ StartSimulation
  BY <1>1 DEF SimulationThread, StartSimulation, PopNextEvent, Publish, ExecuteScenario, RefuseActor,
     InitializeActor, CreateActor, EndScenario, ScenarioDone, CommitStart, CommitStep, CommitUpdate,
     CommitPostStep, CommitStop, AdvanceTime, GoOn, StopRequested, PublishStopEvent, CleanupModel,
     CleanupActors, CleanupEvents
<1>2. CASE Client
  BY <1>2 DEF Client, SendEvents, SetRuntimeActors, RefuseRuntimeActors, UpdateActorPose,
     BeginAddActor, EndAddActor
<1>3. CASE UNCHANGED vars
  BY <1>3 DEF vars
<1> QED BY <1>1, <1>2, <1>3 DEF Next

\* The types of all variables are as stated.
THEOREM SteppingTypes == Spec => []TypeOK
<1>1. Init => TypeOK
  <2>1. Init => CallTypes
    BY DEF Init, CallTypes
  <2> QED BY <2>1, ClockTypesInit, EventTypesInit, ActorTypesInit, TypesInGroups
<1>2. TypeOK /\ [Next]_vars => TypeOK'
  <2>1. TypeOK' <=> ClockTypes' /\ EventTypes' /\ ActorTypes' /\ CallTypes'
    BY DEF TypeOK, ClockTypes, EventTypes, ActorTypes, CallTypes, Kinds
  <2> QED BY <2>1, TypesInGroups, ClockTypesStep, EventTypesStep, ActorTypesStep, CallTypesStep
<1> QED BY <1>1, <1>2, PTL DEF Spec

-----------------------------------------------------------------------------
(***************************************************************************)
(* Updates of actors.  What is pending for an actor carries its last       *)
(* accepted update in the frame that mWorldCoordSet names; an actor that   *)
(* does not exist has none.                                                *)
(***************************************************************************)
Pending == DOMAIN unCommittedActors

PendingIsLatest(a) ==
  latest[a] = IF a \in worldCoords THEN unCommittedActors[a].pose ELSE unCommittedActors[a].local

UpdatesInv ==
  /\ Pending \subseteq DOMAIN rtActors
  /\ worldCoords \subseteq Pending
  /\ \A a \in Actors \ DOMAIN rtActors : latest[a] = 0
  /\ \A a \in DOMAIN rtActors \ (Pending \cup clashed) : Arrives(a)
  /\ \A a \in Pending \ clashed : PendingIsLatest(a)

\* UpdateActors gives a pending state to both frames.
LEMMA DerivedArrives ==
  ASSUME ActorTypes, NEW a \in Pending, PendingIsLatest(a)
  PROVE  LET state == Derived(a, unCommittedActors[a])
         IN  /\ latest[a] \in {state.pose, state.local}
             /\ Parent[a] = World => state.pose = state.local
BY DEF Derived, PendingIsLatest, Pending, ActorTypes, States

LEMMA CommitKeepsUpdates ==
  ASSUME ActorTypes, UpdatesInv, NEW rt, IsMap(rt), DOMAIN rtActors \subseteq DOMAIN rt,
         \A a \in DOMAIN rtActors : rt[a] = rtActors[a],
         \A a \in DOMAIN rt \ DOMAIN rtActors : rt[a] = [pose |-> 0, local |-> 0],
         CommitActorUpdates(rt)
  PROVE  UpdatesInv'
<1>1. DOMAIN rtActors' = DOMAIN rt /\ Pending' = {} /\ worldCoords' = {}
  BY EmptyMap DEF CommitActorUpdates, Pending
<1>2. latest' = latest /\ clashed' = clashed
  BY DEF CommitActorUpdates
<1>3. \A a \in DOMAIN rt \ clashed : Arrives(a)'
  <2> SUFFICES ASSUME NEW a \in DOMAIN rt \ clashed PROVE Arrives(a)'
    OBVIOUS
  <2>1. CASE a \in Pending
    <3>1. rtActors'[a] = Derived(a, unCommittedActors[a])
      BY <2>1 DEF CommitActorUpdates, Pending
    <3> QED BY <1>2, <2>1, <3>1, DerivedArrives DEF UpdatesInv, Arrives
  <2>2. CASE a \notin Pending
    <3>1. rtActors'[a] = rt[a]
      BY <2>2 DEF CommitActorUpdates, Pending
    <3>2. CASE a \in DOMAIN rtActors
      BY <1>2, <2>2, <3>1, <3>2 DEF UpdatesInv, Arrives
    <3>3. CASE a \notin DOMAIN rtActors
      BY <1>2, <3>1, <3>3 DEF UpdatesInv, Arrives, IsMap
    <3> QED BY <3>2, <3>3
  <2> QED BY <2>1, <2>2
<1>4. \A a \in Actors \ DOMAIN rt : latest[a] = 0
  BY DEF UpdatesInv
<1> QED BY <1>1, <1>2, <1>3, <1>4 DEF UpdatesInv

\* An accepted update is entered as pending.
LEMMA AcceptedIsPending ==
  ASSUME ActorTypes, UpdatesInv, NEW a \in DOMAIN rtActors \ Pending, Accepted(a),
         NEW state \in States, Uncommitted(a, state),
         \/ worldCoords' = worldCoords \cup {a} /\ state.pose = updates + 1
         \/ worldCoords' = worldCoords /\ state.local = updates + 1,
         UNCHANGED rtActors
  PROVE  UpdatesInv'
<1>1. Pending' = Pending \cup {a} /\ worldCoords' \subseteq Pending' /\ a \notin worldCoords
  BY DEF Uncommitted, UpdatesInv, Pending
<1>2. /\ latest'[a] = updates + 1 /\ clashed' = clashed \ {a}
      /\ \A b \in Actors \ {a} : latest'[b] = latest[b]
  BY DEF Accepted, ActorTypes
<1>3. unCommittedActors'[a] = state /\ \A b \in Pending : unCommittedActors'[b] = unCommittedActors[b]
  BY DEF Uncommitted, Pending
<1>4. PendingIsLatest(a)'
  BY <1>1, <1>2, <1>3 DEF PendingIsLatest
<1>5. \A b \in Pending \ clashed : PendingIsLatest(b)'
  BY <1>1, <1>2, <1>3 DEF PendingIsLatest, UpdatesInv, ActorTypes
<1>6. \A b \in DOMAIN rtActors \ (Pending \cup {a} \cup clashed) : Arrives(b)'
  BY <1>2 DEF Arrives, UpdatesInv, ActorTypes
<1>7. \A b \in Actors \ DOMAIN rtActors : latest'[b] = 0
  BY <1>2 DEF UpdatesInv
<1> QED BY <1>1, <1>2, <1>4, <1>5, <1>6, <1>7 DEF UpdatesInv

LEMMA UpdatesStep == ActorTypes /\ UpdatesInv /\ [Next]_vars => UpdatesInv'
<1> SUFFICES ASSUME ActorTypes, UpdatesInv, [Next]_vars PROVE UpdatesInv'
  OBVIOUS
<1>1. ASSUME UNCHANGED actors PROVE UpdatesInv'
  BY <1>1 DEF actors, UpdatesInv, Pending, PendingIsLatest, Arrives
<1>2. IsMap(rtActors)
  BY DEF IsMap, ActorTypes
<1>3. CASE CommitStep
  BY <1>2, <1>3, CommitKeepsUpdates DEF CommitStep
<1>4. ASSUME NEW a, CommitActorUpdates(AddRuntimeActors(rtActors, a)) PROVE UpdatesInv'
  BY <1>2, <1>4, AddedActors, CommitKeepsUpdates
<1>5. CASE CreateActor
  BY <1>4, <1>5 DEF CreateActor
<1>6. ASSUME NEW c \in Callers, EndAddActor(c) PROVE UpdatesInv'
  BY <1>4, <1>6 DEF EndAddActor
<1>7. CASE CleanupActors
  BY <1>7, EmptyMap DEF CleanupActors, UpdatesInv, Pending
<1>8. ASSUME NEW a \in Actors, SetRuntimeActors(a) PROVE UpdatesInv'
  <2>1. [pose |-> updates + 1, local |-> updates + 1] \in States
    BY DEF ActorTypes, States
  <2> QED BY <1>8, <2>1, AcceptedIsPending DEF SetRuntimeActors, Pending
<1>9. ASSUME NEW a \in Actors, NEW frame \in {"world", "parent"}, UpdateActorPose(a, frame)
      PROVE  UpdatesInv'
  <2>1. rtActors[a] \in States /\ updates + 1 \in Nat
    BY <1>9 DEF UpdateActorPose, ActorTypes
  <2>2. CASE frame = "world"
    <3>1. /\ [rtActors[a] EXCEPT !.pose = updates + 1] \in States
          /\ [rtActors[a] EXCEPT !.pose = updates + 1].pose = updates + 1
      BY <2>1 DEF States
    <3> QED BY <1>9, <2>2, <3>1, AcceptedIsPending DEF UpdateActorPose, Pending
  <2>3. CASE frame = "parent"
    <3>1. /\ [rtActors[a] EXCEPT !.local = updates + 1] \in States
          /\ [rtActors[a] EXCEPT !.local = updates + 1].local = updates + 1
      BY <2>1 DEF States
    <3> QED BY <1>9, <2>3, <3>1, AcceptedIsPending DEF UpdateActorPose, Pending
  <2> QED BY <2>2, <2>3
<1>10. ASSUME NEW a \in Actors, RefuseRuntimeActors(a) PROVE UpdatesInv'
  BY <1>10 DEF RefuseRuntimeActors, UpdatesInv, Pending, PendingIsLatest, Arrives
<1>11. CASE StartSimulation \/ PopNextEvent \/ Publish \/ ExecuteScenario \/ EndScenario \/ ScenarioDone
  BY <1>1, <1>11 DEF StartSimulation, PopNextEvent, Publish, ExecuteScenario, EndScenario, ScenarioDone
<1>12. CASE CommitStart \/ CommitUpdate \/ CommitPostStep \/ CommitStop \/ AdvanceTime
  BY <1>1, <1>12 DEF CommitStart, CommitUpdate, CommitPostStep, CommitStop, AdvanceTime
<1>13. CASE GoOn \/ StopRequested \/ PublishStopEvent \/ CleanupModel \/ CleanupEvents
  BY <1>1, <1>13 DEF GoOn, StopRequested, PublishStopEvent, CleanupModel, CleanupEvents
<1>14. ASSUME NEW a \in Actors, NEW mode \in Modes, RefuseActor(a, mode) \/ InitializeActor(a, mode)
       PROVE  UpdatesInv'
  BY <1>1, <1>14 DEF RefuseActor, InitializeActor
<1>15. ASSUME (\E n \in Names : SendEvents(n)) \/ (\E a \in Actors, c \in Callers : BeginAddActor(c, a)) PROVE UpdatesInv'
  BY <1>1, <1>15 DEF SendEvents, BeginAddActor
<1>16. CASE UNCHANGED vars
  BY <1>1, <1>16 DEF vars
<1> QED
  BY <1>3, <1>5, <1>6, <1>7, <1>8, <1>9, <1>10, <1>11, <1>12, <1>13, <1>14, <1>15, <1>16
  DEF Next, SimulationThread, Client

\* An accepted update of an actor is in the world as soon as it is not pending,
\* whatever threads add actors meanwhile, and what is pending belongs to an actor
\* that exists.
THEOREM UpdatesArrive == Spec => []AcceptedUpdatesArrive
<1>1. Init => UpdatesInv
  BY EmptyMap DEF Init, UpdatesInv, Pending
<1>2. UpdatesInv => AcceptedUpdatesArrive
  BY DEF UpdatesInv, AcceptedUpdatesArrive, Pending
<1>3. TypeOK => ActorTypes
  BY TypesInGroups
<1>4. TypeOK /\ UpdatesInv /\ [Next]_vars => UpdatesInv'
  BY <1>3, UpdatesStep
<1> QED BY <1>1, <1>2, <1>4, SteppingTypes, PTL DEF Spec

-----------------------------------------------------------------------------
(***************************************************************************)
(* The calendar.  While the loop runs it holds one event of each type, the *)
(* one in hand excepted, and the start event until that is processed.  The *)
(* events of a step are due when as many of their type have been done.     *)
(***************************************************************************)
Looping == {"pop", "publish", "execute", "scenario", "create", "commit", "advance", "check"}
InHand(type) == Processing /\ evt.type = type

Due == [start  |-> At(0, "start", 0),
        step   |-> At(StepSize * done.step, "step", done.step),
        update |-> At(StepSize * done.update, "update", 0),
        post   |-> At(StepSize * done.post, "post", 0),
        stop   |-> At(stopTime, "stop", 0)]

Starting == Due.start \in calendar \/ InHand("start")

\* The calendar and the event in hand.
CalendarInv ==
  /\ \A e \in calendar : \E type \in Types : e = Due[type]
  /\ \A type \in Types \ {"start"} : Due[type] \in calendar \/ InHand(type)
  /\ Processing => /\ evt.type \in Types /\ Due[evt.type] \notin calendar
                   /\ evt = IF evt.type = "stop" THEN At(stopTime, "stop", numSteps) ELSE Due[evt.type]

\* The numbers of events done, and of steps.
CountInv ==
  /\ done.post <= done.update /\ done.update <= done.step /\ done.step <= done.post + 1
  /\ pc \in Looping => \/ done.step = numSteps + 1 /\ StepSize * numSteps <= stopTime + Tolerance
                       \/ done.step = 0 /\ numSteps = 0

\* All events of a step are done, and the next one is a step or the stop.
BetweenSteps ==
  /\ done.step = done.post
  /\ Processing => evt.type \in {"start", "step", "stop"}
  /\ Starting => /\ done.step = 0 /\ timeNow = 0 /\ pc # "check" /\ pc # "advance"
                 /\ Processing => evt.type = "start"
  /\ pc \in {"pop", "check"} /\ StepSize * done.step <= stopTime + Tolerance =>
       timeNow = StepSize * done.step
  /\ InHand("step") => timeNow = StepSize * done.step /\ timeNow <= stopTime + Tolerance
  /\ InHand("stop") => StepSize * done.step > stopTime + Tolerance

\* The step has been taken, its update or its post-step event is next.
WithinStep ==
  /\ done.step = done.post + 1
  /\ timeNow = StepSize * done.post
  /\ ~ Starting /\ pc # "check" /\ pc # "advance"
  /\ Processing => evt.type = IF done.update = done.post THEN "update" ELSE "post"

ClockInv ==
  /\ CountInv
  /\ pc \in Looping => CalendarInv /\ (BetweenSteps \/ WithinStep)
  /\ pc \in {"cleanup_actors", "cleanup_events", "idle"} => timeNow = 0 /\ numSteps = 0

\* The order of two events.
LEMMA BeforeByType ==
  ASSUME NEW t \in Nat, NEW u \in Nat, NEW x \in Types, NEW y \in Types, NEW m, NEW n
  PROVE  Before(At(t, x, m), At(u, y, n)) <=>
           t < u - Tolerance \/ (t <= u + Tolerance /\ Priority[x] < Priority[y])
BY DEF Before, At

LEMMA Priorities ==
  /\ Priority["start"] < Priority["step"] /\ Priority["step"] < Priority["update"]
  /\ Priority["update"] < Priority["post"] /\ Priority["post"] < Priority["stop"]
  /\ \A type \in Types : Priority[type] \in Nat
BY DEF Priority, Types

LEMMA DistinctTypes ==
  \A t, u, x, y, m, n : x # y => At(t, x, m) # At(u, y, n)
BY DEF At

\* The start event comes first.
LEMMA StartIsFirst ==
  ASSUME NEW st \in Nat, NEW cal, NEW e, IsFirst(e, cal),
         At(0, "start", 0) \in cal,
         \A f \in cal : \/ \E type \in {"start", "step", "update", "post"} : f = At(0, type, 0)
                       \/ f = At(st, "stop", 0)
  PROVE  e = At(0, "start", 0)
<1> SUFFICES ASSUME e # At(0, "start", 0) PROVE FALSE
  OBVIOUS
<1>1. Before(e, At(0, "start", 0))
  BY DEF IsFirst
<1>2. e \in cal
  BY DEF IsFirst
<1>3. CASE \E type \in {"step", "update", "post"} : e = At(0, type, 0)
  <2>1. PICK type \in {"step", "update", "post"} : e = At(0, type, 0)
    BY <1>3
  <2> QED BY <1>1, <2>1, BeforeByType, Priorities, SteppingAssumption DEF Types
<1>4. CASE e = At(st, "stop", 0)
  BY <1>1, <1>4, BeforeByType, Priorities, SteppingAssumption DEF Types
<1> QED BY <1>2, <1>3, <1>4

\* Between two steps the next step comes first, unless the stop time is earlier.
LEMMA StepOrStopIsFirst ==
  ASSUME NEW n \in Nat, NEW st \in Nat, NEW cal, NEW e, IsFirst(e, cal),
         At(StepSize * n, "step", n) \in cal, At(st, "stop", 0) \in cal,
         \A f \in cal : \/ f = At(StepSize * n, "step", n) \/ f = At(st, "stop", 0)
                       \/ \E type \in {"update", "post"} : f = At(StepSize * n, type, 0)
  PROVE  e = IF StepSize * n <= st + Tolerance THEN At(StepSize * n, "step", n) ELSE At(st, "stop", 0)
<1>1. StepSize * n \in Nat
  BY StepTimes
<1>2. ASSUME NEW type \in {"update", "post"}, e = At(StepSize * n, type, 0) PROVE FALSE
  <2>1. Before(e, At(StepSize * n, "step", n))
    BY <1>2, DistinctTypes DEF IsFirst
  <2> QED BY <1>1, <1>2, <2>1, BeforeByType, Priorities, SteppingAssumption DEF Types
<1>3. CASE e = At(StepSize * n, "step", n)
  <2>1. Before(e, At(st, "stop", 0))
    BY <1>3, DistinctTypes DEF IsFirst
  <2> QED BY <1>1, <1>3, <2>1, BeforeByType, Priorities, SteppingAssumption DEF Types
<1>4. CASE e = At(st, "stop", 0)
  <2>1. Before(e, At(StepSize * n, "step", n))
    BY <1>4, DistinctTypes DEF IsFirst
  <2> QED BY <1>1, <1>4, <2>1, BeforeByType, Priorities, SteppingAssumption DEF Types
<1> QED BY <1>2, <1>3, <1>4 DEF IsFirst

\* Within a step its update comes first, then its post-step event.
LEMMA RestOfStepIsFirst ==
  ASSUME NEW n \in Nat, NEW u \in {n, n + 1}, NEW st \in Nat, NEW cal,
         StepSize * n <= st + Tolerance,
         At(StepSize * u, "update", 0) \in cal, At(StepSize * n, "post", 0) \in cal,
         \A f \in cal : \/ f = At(StepSize * (n + 1), "step", n + 1) \/ f = At(st, "stop", 0)
                       \/ f = At(StepSize * u, "update", 0) \/ f = At(StepSize * n, "post", 0)
  PROVE  LET first == IF u = n THEN At(StepSize * n, "update", 0) ELSE At(StepSize * n, "post", 0)
         IN  /\ \A e : IsFirst(e, cal) => e = first
             /\ HasPresentEvent(cal, StepSize * n)
<1> DEFINE first == IF u = n THEN At(StepSize * n, "update", 0) ELSE At(StepSize * n, "post", 0)
<1>1. /\ StepSize * n \in Nat /\ StepSize * (n + 1) \in Nat
      /\ StepSize * (n + 1) = StepSize * n + StepSize
  BY StepTimes
<1>2. first \in cal /\ first.time = StepSize * n
  BY DEF At
<1>3. ASSUME NEW f \in cal, f # first PROVE Before(first, f) /\ ~ Before(f, first)
  <2>1. CASE f = At(StepSize * (n + 1), "step", n + 1)
    BY <1>1, <2>1, BeforeByType, Priorities, SteppingAssumption DEF Types
  <2>2. CASE f = At(st, "stop", 0)
    BY <1>1, <2>2, BeforeByType, Priorities, SteppingAssumption DEF Types
  <2>3. CASE f = At(StepSize * u, "update", 0) /\ u = n + 1
    BY <1>1, <2>3, BeforeByType, Priorities, SteppingAssumption DEF Types
  <2>4. CASE f = At(StepSize * n, "post", 0) /\ u = n
    BY <1>1, <2>4, BeforeByType, Priorities, SteppingAssumption DEF Types
  <2> QED BY <1>3, <2>1, <2>2, <2>3, <2>4
<1>4. IsFirst(first, cal)
  BY <1>2, <1>3 DEF IsFirst
<1>5. \A e : IsFirst(e, cal) => e = first
  BY <1>2, <1>3 DEF IsFirst
<1>6. HasPresentEvent(cal, StepSize * n)
  <2>1. first.time <= StepSize * n + Tolerance
    BY <1>1, <1>2, SteppingAssumption
  <2> HIDE DEF first
  <2> QED BY <1>2, <1>4, <2>1 DEF HasPresentEvent
<1> QED BY <1>5, <1>6

LEMMA DueByType ==
  /\ Due["start"] = At(0, "start", 0)
  /\ Due["step"] = At(StepSize * done.step, "step", done.step)
  /\ Due["update"] = At(StepSize * done.update, "update", 0)
  /\ Due["post"] = At(StepSize * done.post, "post", 0)
  /\ Due["stop"] = At(stopTime, "stop", 0)
  /\ \A type \in Types : Due[type].type = type
BY DEF Due, At, Types

\* The thread goes on with the event in hand.
LEMMA SameEventInHand ==
  ASSUME ClockInv, UNCHANGED clock, Processing, Processing', pc \in Looping, pc' \in Looping
  PROVE  ClockInv'
<1>1. pc' \notin {"pop", "check", "advance", "cleanup_actors", "cleanup_events", "idle"}
  BY DEF Processing
<1>2. CountInv'
  BY DEF ClockInv, CountInv, clock
<1>3. CalendarInv'
  BY DEF ClockInv, CalendarInv, Due, InHand, clock
<1>4. BetweenSteps \/ WithinStep
  BY DEF ClockInv
<1>5. BetweenSteps => BetweenSteps'
  BY <1>1 DEF BetweenSteps, Starting, Due, InHand, clock
<1>6. WithinStep => WithinStep'
  BY <1>1 DEF WithinStep, Starting, Due, InHand, clock
<1> QED BY <1>1, <1>2, <1>3, <1>4, <1>5, <1>6 DEF ClockInv

\* The loop ends.
LEMMA LoopLeft ==
  ASSUME ClockInv, pc' \in {"abort", "cleanup"}, UNCHANGED done
  PROVE  ClockInv'
BY DEF ClockInv, CountInv, Looping

LEMMA ClockStart == ClockTypes /\ ClockInv /\ StartSimulation => ClockInv'
<1> SUFFICES ASSUME ClockTypes, ClockInv, StartSimulation PROVE ClockInv'
  OBVIOUS
<1>1. /\ pc' = "pop" /\ timeNow' = 0 /\ numSteps' = 0
      /\ done'.step = 0 /\ done'.update = 0 /\ done'.post = 0
  BY DEF StartSimulation, ClockInv, NotDone
<1>2. StepSize * 0 = 0
  BY SteppingAssumption
<1>3. \A type \in {"start", "step", "update", "post"} : Due'[type] = At(0, type, 0)
  BY <1>1, <1>2 DEF Due, At
<1>4. Due'["stop"] = At(stopTime', "stop", 0)
  BY DEF Due
<1>5. /\ \A e \in calendar' : \E type \in Types : e = Due'[type]
      /\ \A type \in Types : Due'[type] \in calendar'
  BY <1>3, <1>4 DEF StartSimulation, Types
<1>6. ~ Processing'
  BY <1>1 DEF Processing
<1>7. CalendarInv'
  BY <1>5, <1>6 DEF CalendarInv
<1>8. CountInv'
  BY <1>1 DEF CountInv
<1>9. BetweenSteps'
  BY <1>1, <1>2, <1>6 DEF BetweenSteps, InHand
<1> QED BY <1>1, <1>7, <1>8, <1>9 DEF ClockInv

LEMMA ClockPop == ClockTypes /\ ClockInv /\ PopNextEvent => ClockInv'
<1> SUFFICES ASSUME ClockTypes, ClockInv, PopNextEvent PROVE ClockInv'
  OBVIOUS
<1>1. PICK e \in calendar : /\ IsFirst(e, calendar) /\ calendar' = calendar \ {e}
                            /\ evt' = IF e.type = "stop" THEN [e EXCEPT !.steps = numSteps] ELSE e
  BY DEF PopNextEvent
<1>2. /\ pc = "pop" /\ pc' = "publish" /\ UNCHANGED <<timeNow, numSteps, done, stopTime>>
      /\ ~ Processing /\ Processing' /\ CountInv /\ CalendarInv /\ pc \in Looping
  BY DEF PopNextEvent, ClockInv, Processing, Looping
<1>3. PICK type \in Types : e = Due[type]
  BY <1>1, <1>2 DEF CalendarInv
<1>4. Due' = Due /\ e.type = type
  BY <1>2, <1>3, DueByType DEF Due
<1>5. evt' = (IF type = "stop" THEN At(stopTime, "stop", numSteps) ELSE Due[type]) /\ evt'.type = type
  BY <1>1, <1>3, <1>4, DueByType DEF At
<1>6. CalendarInv'
  <2>1. \A x \in Types \ {type} : Due[x] # e
    BY <1>3, DueByType
  <2>2. \A x \in Types \ {"start"} : Due[x] \in calendar
    BY <1>2 DEF CalendarInv, InHand
  <2>3. \A x \in Types \ {"start"} : Due'[x] \in calendar' \/ InHand(x)'
    BY <1>1, <1>2, <1>4, <1>5, <2>1, <2>2 DEF InHand
  <2>4. \A f \in calendar' : \E x \in Types : f = Due'[x]
    BY <1>1, <1>2, <1>4 DEF CalendarInv
  <2> QED BY <1>1, <1>2, <1>3, <1>4, <1>5, <2>3, <2>4 DEF CalendarInv
<1>7. /\ \A x \in Types \ {"start"} : Due[x] \in calendar
      /\ Starting <=> Due["start"] \in calendar
      /\ Starting' <=> Due["start"] \in calendar' \/ type = "start"
  BY <1>2, <1>4, <1>5 DEF CalendarInv, Starting, InHand
<1>8. CASE Starting
  <2>1. BetweenSteps
    BY <1>2, <1>8 DEF ClockInv, WithinStep
  <2>2. done.step = 0 /\ done.update = 0 /\ done.post = 0 /\ timeNow = 0
    BY <1>2, <1>8, <2>1 DEF BetweenSteps, CountInv, ClockTypes, Kinds
  <2>3. \A f \in calendar : \/ \E x \in {"start", "step", "update", "post"} : f = At(0, x, 0)
                            \/ f = At(stopTime, "stop", 0)
    <3>1. StepSize * 0 = 0
      BY SteppingAssumption
    <3> QED BY <1>2, <2>2, <3>1, DueByType DEF CalendarInv, Types
  <2>4. e = At(0, "start", 0)
    BY <1>1, <1>7, <1>8, <2>3, DueByType, StartIsFirst DEF ClockTypes
  <2>5. type = "start"
    BY <1>4, <2>4 DEF At
  <2> QED BY <1>2, <1>5, <1>6, <2>1, <2>2, <2>5 DEF ClockInv, BetweenSteps, CountInv, InHand
<1>9. CASE BetweenSteps /\ ~ Starting
  <2>1. done.step \in Nat /\ done.update = done.step /\ done.post = done.step
    BY <1>2, <1>9 DEF BetweenSteps, CountInv, ClockTypes, Kinds
  <2>2. \A f \in calendar : \/ f = At(StepSize * done.step, "step", done.step)
                            \/ f = At(stopTime, "stop", 0)
                            \/ \E x \in {"update", "post"} : f = At(StepSize * done.step, x, 0)
    BY <1>2, <1>7, <1>9, <2>1, DueByType DEF CalendarInv, Types
  <2>3. /\ At(StepSize * done.step, "step", done.step) \in calendar
        /\ At(stopTime, "stop", 0) \in calendar
    BY <1>7, DueByType DEF Types
  <2>4. e = IF StepSize * done.step <= stopTime + Tolerance
            THEN At(StepSize * done.step, "step", done.step) ELSE At(stopTime, "stop", 0)
    BY <1>1, <2>1, <2>2, <2>3, StepOrStopIsFirst DEF ClockTypes
  <2>5. type = IF StepSize * done.step <= stopTime + Tolerance THEN "step" ELSE "stop"
    BY <1>4, <2>4 DEF At
  <2>6. /\ type \in {"step", "stop"} /\ ~ Starting'
        /\ type = "step" => timeNow = StepSize * done.step /\ timeNow <= stopTime + Tolerance
    BY <1>1, <1>2, <1>7, <1>9, <2>5 DEF BetweenSteps
  <2>7. type = "stop" => StepSize * done.step > stopTime + Tolerance
    <3>1. StepSize * done.step \in Nat
      BY <2>1, StepTimes
    <3>2. stopTime + Tolerance \in Nat
      BY SteppingAssumption DEF ClockTypes
    <3> QED BY <2>5, <3>1, <3>2
  <2>8. BetweenSteps'
    BY <1>2, <1>5, <1>9, <2>6, <2>7 DEF BetweenSteps, InHand
  <2> QED BY <1>2, <1>6, <2>8 DEF ClockInv, CountInv
<1>10. CASE WithinStep
  <2>1. /\ done.post \in Nat /\ done.step = done.post + 1 /\ done.update \in {done.post, done.post + 1}
        /\ done.update \in Nat /\ numSteps = done.post
    BY <1>2, <1>10 DEF WithinStep, CountInv, ClockTypes, Kinds
  <2>2. StepSize * done.post <= stopTime + Tolerance
    BY <1>2, <2>1 DEF CountInv
  <2>3. \A f \in calendar : \/ f = At(StepSize * (done.post + 1), "step", done.post + 1)
                            \/ f = At(stopTime, "stop", 0)
                            \/ f = At(StepSize * done.update, "update", 0)
                            \/ f = At(StepSize * done.post, "post", 0)
    BY <1>2, <1>7, <1>10, <2>1, DueByType DEF CalendarInv, Types, WithinStep
  <2>4. /\ At(StepSize * done.update, "update", 0) \in calendar
        /\ At(StepSize * done.post, "post", 0) \in calendar
    BY <1>7, DueByType DEF Types
  <2>5. e = IF done.update = done.post THEN At(StepSize * done.post, "update", 0)
            ELSE At(StepSize * done.post, "post", 0)
    BY <1>1, <2>1, <2>2, <2>3, <2>4, RestOfStepIsFirst DEF ClockTypes
  <2>6. type = IF done.update = done.post THEN "update" ELSE "post"
    BY <1>4, <2>5 DEF At
  <2>7. WithinStep'
    BY <1>1, <1>2, <1>5, <1>7, <1>10, <2>6 DEF WithinStep
  <2> QED BY <1>2, <1>6, <2>7 DEF ClockInv, CountInv
<1> QED BY <1>2, <1>8, <1>9, <1>10 DEF ClockInv

LEMMA ClockCommitStart == ClockTypes /\ ClockInv /\ CommitStart => ClockInv'
<1> SUFFICES ASSUME ClockTypes, ClockInv, CommitStart PROVE ClockInv'
  OBVIOUS
<1>1. /\ pc' = "check" /\ UNCHANGED clock /\ InHand("start") /\ Processing /\ ~ Processing'
      /\ pc \in Looping
  BY DEF CommitStart, InHand, Processing, Looping
<1>2. BetweenSteps /\ CalendarInv /\ CountInv
  BY <1>1 DEF ClockInv, WithinStep, Starting
<1>3. done.step = 0 /\ timeNow = 0 /\ StepSize * 0 = 0 /\ Due["start"] \notin calendar
  BY <1>1, <1>2, SteppingAssumption DEF BetweenSteps, Starting, CalendarInv, InHand
<1>4. CalendarInv'
  BY <1>1, <1>2 DEF CalendarInv, Due, InHand, clock
<1>5. BetweenSteps'
  BY <1>1, <1>2, <1>3 DEF BetweenSteps, Starting, Due, InHand, clock
<1> QED BY <1>1, <1>2, <1>4, <1>5 DEF ClockInv, CountInv, clock

\* An event of a type is renewed: the calendar is as before it was popped.
LEMMA Renewed ==
  ASSUME ClockTypes, CalendarInv, NEW type \in Kinds, InHand(type), Counted(type),
         UNCHANGED stopTime, calendar' = calendar \cup {Due'[type]}, ~ Processing', ~ Starting
  PROVE  CalendarInv' /\ ~ Starting'
<1>1. /\ \A x \in Types \ {type} : Due'[x] = Due[x]
      /\ \A x \in Types : Due'[x].type = x
  <2>1. \A x \in Kinds \ {type} : done'[x] = done[x]
    BY DEF Counted, ClockTypes, Kinds
  <2> QED BY <2>1 DEF Due, Types, Kinds, At
<1>2. /\ evt.type = type /\ Due[type] \notin calendar
      /\ \A x \in Types \ {"start", type} : Due[x] \in calendar
  BY DEF CalendarInv, InHand, Types, Kinds
<1>3. \A e \in calendar : \E x \in Types \ {type} : e = Due[x]
  BY <1>2 DEF CalendarInv
<1>4. \A e \in calendar' : \E x \in Types : e = Due'[x]
  BY <1>1, <1>3 DEF Kinds, Types
<1>5. \A x \in Types \ {"start"} : Due'[x] \in calendar'
  BY <1>1, <1>2
<1>6. Due'["start"] \notin calendar'
  BY <1>1 DEF Starting, Types, Kinds
<1> QED BY <1>4, <1>5, <1>6 DEF CalendarInv, Starting, InHand

LEMMA ClockCommitStep == ClockTypes /\ ClockInv /\ CommitStep => ClockInv'
<1> SUFFICES ASSUME ClockTypes, ClockInv, CommitStep PROVE ClockInv'
  OBVIOUS
<1>1. /\ InHand("step") /\ Processing /\ pc \in Looping /\ CalendarInv /\ CountInv /\ BetweenSteps
  BY DEF CommitStep, InHand, Processing, Looping, ClockInv, WithinStep
<1>2. evt = At(StepSize * done.step, "step", done.step) /\ evt.steps = done.step
  BY <1>1, DueByType DEF CalendarInv, InHand, At
<1>3. /\ UNCHANGED <<timeNow, stopTime>> /\ numSteps' = done.step
      /\ done' = [done EXCEPT !["step"] = @ + 1]
      /\ pc' = IF HasPresentEvent(calendar', timeNow) THEN "pop" ELSE "advance"
      /\ calendar' = calendar \cup {At(StepSize * (done.step + 1), "step", done.step + 1)}
  BY <1>2 DEF CommitStep, Counted, Continue
<1>4. /\ done'.step = done.step + 1 /\ done'.update = done.update /\ done'.post = done.post
      /\ done.step \in Nat /\ done.update = done.step /\ done.post = done.step
  BY <1>1, <1>3 DEF BetweenSteps, CountInv, ClockTypes, Kinds
<1>5. timeNow = StepSize * done.step /\ timeNow <= stopTime + Tolerance /\ ~ Starting /\ ~ Processing'
  <2>1. ~ Starting
    BY <1>1 DEF BetweenSteps, InHand
  <2> QED BY <1>1, <1>3, <2>1 DEF BetweenSteps, Processing
<1>6. CalendarInv' /\ ~ Starting'
  <2>1. Due'["step"] = At(StepSize * (done.step + 1), "step", done.step + 1)
    BY <1>4 DEF Due
  <2> QED BY <1>1, <1>3, <1>5, <2>1, Renewed DEF Kinds, Counted
<1>7. HasPresentEvent(calendar', timeNow)
  <2>1. \A f \in calendar' : \/ f = At(StepSize * (done.step + 1), "step", done.step + 1)
                             \/ f = At(stopTime, "stop", 0)
                             \/ f = At(StepSize * done.step, "update", 0)
                             \/ f = At(StepSize * done.step, "post", 0)
    BY <1>3, <1>4, <1>6 DEF CalendarInv, Types, Due, Starting
  <2>2. /\ At(StepSize * done.step, "update", 0) \in calendar'
        /\ At(StepSize * done.step, "post", 0) \in calendar'
    BY <1>4, <1>5, <1>6 DEF CalendarInv, Types, Due, InHand
  <2> QED BY <1>4, <1>5, <2>1, <2>2, RestOfStepIsFirst DEF ClockTypes
<1>8. pc' = "pop"
  BY <1>3, <1>7
<1>9. CountInv'
  BY <1>3, <1>4, <1>5 DEF CountInv
<1>10. WithinStep'
  BY <1>3, <1>4, <1>5, <1>6, <1>8 DEF WithinStep
<1> QED BY <1>6, <1>8, <1>9, <1>10 DEF ClockInv

LEMMA ClockCommitUpdate == ClockTypes /\ ClockInv /\ CommitUpdate => ClockInv'
<1> SUFFICES ASSUME ClockTypes, ClockInv, CommitUpdate PROVE ClockInv'
  OBVIOUS
<1>1. /\ InHand("update") /\ Processing /\ pc \in Looping /\ CalendarInv /\ CountInv /\ WithinStep
  BY DEF CommitUpdate, InHand, Processing, Looping, ClockInv, BetweenSteps
<1>2. /\ done.update = done.post /\ done.post \in Nat /\ done.step = done.post + 1
      /\ numSteps = done.post /\ StepSize * done.post <= stopTime + Tolerance
      /\ timeNow = StepSize * done.post /\ ~ Starting
  BY <1>1 DEF WithinStep, CountInv, ClockTypes, Kinds, InHand
<1>3. /\ UNCHANGED <<timeNow, stopTime, numSteps>>
      /\ done' = [done EXCEPT !["update"] = @ + 1]
      /\ pc' = IF HasPresentEvent(calendar', timeNow) THEN "pop" ELSE "advance"
      /\ calendar' = calendar \cup {At(StepSize * (done.post + 1), "update", 0)}
  BY <1>2 DEF CommitUpdate, Counted, Continue
<1>4. done'.step = done.step /\ done'.update = done.post + 1 /\ done'.post = done.post
  BY <1>2, <1>3 DEF ClockTypes, Kinds
<1>5. ~ Processing'
  BY <1>3 DEF Processing
<1>6. CalendarInv' /\ ~ Starting'
  <2>1. Due'["update"] = At(StepSize * (done.post + 1), "update", 0)
    BY <1>4 DEF Due
  <2> QED BY <1>1, <1>2, <1>3, <1>5, <2>1, Renewed DEF Kinds, Counted
<1>7. HasPresentEvent(calendar', timeNow)
  <2>1. \A f \in calendar' : \/ f = At(StepSize * (done.post + 1), "step", done.post + 1)
                             \/ f = At(stopTime, "stop", 0)
                             \/ f = At(StepSize * (done.post + 1), "update", 0)
                             \/ f = At(StepSize * done.post, "post", 0)
    BY <1>2, <1>3, <1>4, <1>6 DEF CalendarInv, Types, Due, Starting
  <2>2. /\ At(StepSize * (done.post + 1), "update", 0) \in calendar'
        /\ At(StepSize * done.post, "post", 0) \in calendar'
    BY <1>4, <1>5, <1>6 DEF CalendarInv, Types, Due, InHand
  <2> QED BY <1>2, <2>1, <2>2, RestOfStepIsFirst DEF ClockTypes
<1>8. pc' = "pop"
  BY <1>3, <1>7
<1>9. CountInv'
  BY <1>1, <1>2, <1>3, <1>4 DEF CountInv
<1>10. WithinStep'
  BY <1>2, <1>3, <1>4, <1>5, <1>6, <1>8 DEF WithinStep
<1> QED BY <1>6, <1>8, <1>9, <1>10 DEF ClockInv

LEMMA ClockCommitPostStep == ClockTypes /\ ClockInv /\ CommitPostStep => ClockInv'
<1> SUFFICES ASSUME ClockTypes, ClockInv, CommitPostStep PROVE ClockInv'
  OBVIOUS
<1>1. /\ InHand("post") /\ Processing /\ pc \in Looping /\ CalendarInv /\ CountInv /\ WithinStep
  BY DEF CommitPostStep, InHand, Processing, Looping, ClockInv, BetweenSteps
<1>2. /\ done.update = done.post + 1 /\ done.post \in Nat /\ done.step = done.post + 1
      /\ numSteps = done.post /\ StepSize * done.post <= stopTime + Tolerance
      /\ timeNow = StepSize * done.post /\ ~ Starting
  BY <1>1 DEF WithinStep, CountInv, ClockTypes, Kinds, InHand
<1>3. /\ UNCHANGED <<timeNow, stopTime, numSteps>>
      /\ done' = [done EXCEPT !["post"] = @ + 1]
      /\ pc' = IF HasPresentEvent(calendar', timeNow) THEN "pop" ELSE "advance"
      /\ calendar' = calendar \cup {At(StepSize * (done.post + 1), "post", 0)}
  BY <1>2 DEF CommitPostStep, Counted, Continue
<1>4. done'.step = done.post + 1 /\ done'.update = done.post + 1 /\ done'.post = done.post + 1
  BY <1>2, <1>3 DEF ClockTypes, Kinds
<1>5. ~ Processing' /\ pc' \in {"pop", "advance"}
  BY <1>3 DEF Processing
<1>6. CalendarInv' /\ ~ Starting'
  <2>1. Due'["post"] = At(StepSize * (done.post + 1), "post", 0)
    BY <1>4 DEF Due
  <2> QED BY <1>1, <1>2, <1>3, <1>5, <2>1, Renewed DEF Kinds, Counted
<1>7. CountInv'
  BY <1>1, <1>2, <1>3, <1>4 DEF CountInv
<1>8. StepSize * (done.post + 1) <= stopTime + Tolerance => pc' # "pop"
  <2> SUFFICES ASSUME StepSize * (done.post + 1) <= stopTime + Tolerance, NEW e,
                      IsFirst(e, calendar'), e.time <= timeNow + Tolerance
               PROVE  FALSE
    BY <1>3 DEF HasPresentEvent
  <2>1. \A f \in calendar' : \/ f = At(StepSize * (done.post + 1), "step", done.post + 1)
                             \/ f = At(stopTime, "stop", 0)
                             \/ \E x \in {"update", "post"} : f = At(StepSize * (done.post + 1), x, 0)
    BY <1>2, <1>3, <1>4, <1>6 DEF CalendarInv, Types, Due, Starting
  <2>2. /\ At(StepSize * (done.post + 1), "step", done.post + 1) \in calendar'
        /\ At(stopTime, "stop", 0) \in calendar'
    BY <1>3, <1>4, <1>5, <1>6 DEF CalendarInv, Types, Due, InHand
  <2>3. e = At(StepSize * (done.post + 1), "step", done.post + 1)
    <3>1. done.post + 1 \in Nat
      BY <1>2
    <3> QED BY <2>1, <2>2, <3>1, StepOrStopIsFirst DEF ClockTypes
  <2>4. e.time = StepSize * done.post + StepSize /\ StepSize * done.post \in Nat
    BY <1>2, <2>3, StepTimes DEF At
  <2> QED BY <1>2, <2>4, SteppingAssumption
<1>9. BetweenSteps'
  BY <1>3, <1>4, <1>5, <1>6, <1>8 DEF BetweenSteps, InHand
<1> QED BY <1>5, <1>6, <1>7, <1>9 DEF ClockInv

LEMMA ClockAdvance == ClockTypes /\ ClockInv /\ AdvanceTime => ClockInv'
<1> SUFFICES ASSUME ClockTypes, ClockInv, AdvanceTime PROVE ClockInv'
  OBVIOUS
<1>1. PICK e \in calendar : IsFirst(e, calendar) /\ timeNow' = e.time
  BY DEF AdvanceTime
<1>2. /\ pc = "advance" /\ pc' = "check" /\ ~ Processing /\ ~ Processing' /\ pc \in Looping
      /\ UNCHANGED <<calendar, evt, numSteps, done, stopTime>>
      /\ CalendarInv /\ CountInv /\ BetweenSteps
  BY DEF AdvanceTime, Processing, Looping, ClockInv, WithinStep
<1>3. /\ done.step \in Nat /\ done.update = done.step /\ done.post = done.step
      /\ ~ Starting /\ ~ Starting'
  BY <1>2 DEF BetweenSteps, CountInv, ClockTypes, Kinds, Starting, Due, InHand
<1>4. CalendarInv'
  BY <1>2 DEF CalendarInv, Due, InHand
<1>5. StepSize * done.step <= stopTime + Tolerance => timeNow' = StepSize * done.step
  <2>1. \A f \in calendar : \/ f = At(StepSize * done.step, "step", done.step)
                            \/ f = At(stopTime, "stop", 0)
                            \/ \E x \in {"update", "post"} : f = At(StepSize * done.step, x, 0)
    BY <1>2, <1>3, DueByType DEF CalendarInv, Types, Starting
  <2>2. /\ At(StepSize * done.step, "step", done.step) \in calendar
        /\ At(stopTime, "stop", 0) \in calendar
    BY <1>2, DueByType DEF CalendarInv, Types, InHand
  <2>3. e = IF StepSize * done.step <= stopTime + Tolerance
            THEN At(StepSize * done.step, "step", done.step) ELSE At(stopTime, "stop", 0)
    BY <1>1, <1>3, <2>1, <2>2, StepOrStopIsFirst DEF ClockTypes
  <2> QED BY <1>1, <2>3 DEF At
<1>6. BetweenSteps'
  BY <1>2, <1>3, <1>5 DEF BetweenSteps, InHand
<1> QED BY <1>2, <1>4, <1>6 DEF ClockInv, CountInv

LEMMA ClockGoOn == ClockInv /\ GoOn => ClockInv'
<1> SUFFICES ASSUME ClockInv, GoOn PROVE ClockInv'
  OBVIOUS
<1>1. /\ pc = "check" /\ pc' = "pop" /\ UNCHANGED clock /\ ~ Processing /\ ~ Processing'
      /\ pc \in Looping
  BY DEF GoOn, Processing, Looping
<1>2. CalendarInv /\ CountInv /\ BetweenSteps
  BY <1>1 DEF ClockInv, WithinStep
<1>3. CalendarInv'
  BY <1>1, <1>2 DEF CalendarInv, Due, InHand, clock
<1>4. BetweenSteps'
  BY <1>1, <1>2 DEF BetweenSteps, Starting, Due, InHand, clock
<1> QED BY <1>1, <1>2, <1>3, <1>4 DEF ClockInv, CountInv, clock

LEMMA ClockStep == ClockTypes /\ ClockInv /\ [Next]_vars => ClockInv'
<1> SUFFICES ASSUME ClockTypes, ClockInv, [Next]_vars PROVE ClockInv'
  OBVIOUS
<1>1. CASE Publish \/ ExecuteScenario \/ CreateActor \/ ScenarioDone
  BY <1>1, SameEventInHand
     DEF Publish, ExecuteScenario, CreateActor, ScenarioDone, Processing, Looping, clock
<1>2. ASSUME NEW a \in Actors, NEW mode \in Modes, RefuseActor(a, mode) \/ InitializeActor(a, mode)
      PROVE  ClockInv'
  BY <1>2, LoopLeft, SameEventInHand
     DEF RefuseActor, InitializeActor, Processing, Looping, clock
<1>3. CASE EndScenario \/ CommitStop \/ StopRequested \/ PublishStopEvent
  BY <1>3, LoopLeft DEF EndScenario, CommitStop, StopRequested, PublishStopEvent, clock
<1>4. CASE CleanupModel
  BY <1>4 DEF CleanupModel, ClockInv, CountInv, Looping
<1>5. CASE CleanupActors \/ CleanupEvents
  BY <1>5 DEF CleanupActors, CleanupEvents, ClockInv, CountInv, Looping, clock
<1>6. CASE UNCHANGED <<pc, clock>>
  BY <1>6 DEF ClockInv, CountInv, CalendarInv, BetweenSteps, WithinStep, Starting, InHand, Processing,
     Due, clock
<1>7. CASE Client \/ UNCHANGED vars
  BY <1>6, <1>7, ClientKeepsClock DEF vars
<1> QED
  BY <1>1, <1>2, <1>3, <1>4, <1>5, <1>7, ClockStart, ClockPop, ClockCommitStart, ClockCommitStep,
     ClockCommitUpdate, ClockCommitPostStep, ClockAdvance, ClockGoOn
  DEF Next, SimulationThread

LEMMA ClockInvariant == Spec => [](ClockTypes /\ ClockInv)
<1>1. Init => ClockInv
  BY DEF Init, ClockInv, CountInv, Looping, NotDone
<1>2. TypeOK => ClockTypes
  BY TypesInGroups
<1>3. TypeOK /\ ClockInv /\ [Next]_vars => ClockInv'
  BY <1>2, ClockStep
<1> QED BY <1>1, <1>2, <1>3, SteppingTypes, PTL DEF Spec

\* A step, its update and its post-step event come in this order, at the same time.
THEOREM StepsInCycles == Spec => []StepCycle
<1>1. ClockTypes /\ ClockInv => StepCycle
  <2> SUFFICES ASSUME ClockTypes, ClockInv PROVE StepCycle
    OBVIOUS
  <2>1. ASSUME Processing, evt.type \in {"update", "post"}
        PROVE  timeNow = StepSize * numSteps /\ done.step = numSteps + 1
    <3>1. pc \in Looping /\ WithinStep
      BY <2>1 DEF ClockInv, BetweenSteps, Processing, Looping
    <3> QED BY <3>1 DEF ClockInv, CountInv, WithinStep, ClockTypes, Kinds
  <2> QED BY <2>1 DEF StepCycle, ClockInv, CountInv
<1> QED BY <1>1, ClockInvariant, PTL

\* A run that reaches its stop time has taken the steps that are due by then.
THEOREM StopsAtStopTime == Spec => []StopsOnTime
<1>1. ClockTypes /\ ClockInv => StopsOnTime
  <2> SUFFICES ASSUME ClockTypes, ClockInv, Processing, evt.type = "stop" PROVE StopsOnTime
    BY DEF StopsOnTime
  <2>1. pc \in Looping /\ BetweenSteps /\ CountInv /\ CalendarInv
    BY DEF ClockInv, WithinStep, Processing, Looping
  <2>2. /\ done.step = done.update /\ done.update = done.post
        /\ StepSize * done.step > stopTime + Tolerance
    BY <2>1 DEF BetweenSteps, CountInv, ClockTypes, Kinds, InHand
  <2>3. done.step = numSteps + 1 /\ StepSize * numSteps <= stopTime + Tolerance
    <3>1. StepSize * 0 = 0 /\ ~ (0 > stopTime + Tolerance)
      BY SteppingAssumption DEF ClockTypes
    <3> QED BY <2>1, <2>2, <3>1 DEF CountInv
  <2>4. evt.steps = numSteps
    BY <2>1 DEF CalendarInv, At
  <2>5. /\ done.step - 1 = numSteps /\ numSteps * StepSize = StepSize * numSteps
        /\ done.step * StepSize = StepSize * done.step
    BY <2>3, SteppingAssumption DEF ClockTypes, Kinds
  <2> QED BY <2>2, <2>3, <2>4, <2>5 DEF StopsOnTime
<1> QED BY <1>1, ClockInvariant, PTL

-----------------------------------------------------------------------------
(***************************************************************************)
(* User-defined events.  What a poller has still to receive is in the two  *)
(* queues, in the order of the commits: of a step until its update is      *)
(* committed only what was committed last.                                 *)
(***************************************************************************)
Updating == done.step = done.post + 1 /\ done.update = done.post
Closing == done.step = done.post + 1 /\ done.update = done.post + 1

\* The poller of the event in hand has received what there is.
HasPolled(p) ==
  CASE p = "step"     -> InHand("step") /\ pc = "commit"
    [] p = "post"     -> ~ (Updating \/ Closing) \/ (InHand("post") /\ pc = "commit")
    [] p = "executor" -> (InHand("start") \/ InHand("update")) /\ pc \in {"scenario", "create", "commit"}

Outstanding(p, n) ==
  CASE HasPolled(p)                      -> <<>>
    [] ~ HasPolled(p) /\ p = "executor"  -> Batch(fromSupervisor[n]) \o (IF Updating THEN Batch(fromActors[n]) ELSE <<>>)
    [] ~ HasPolled(p) /\ p # "executor"  -> Batch(fromActors[n]) \o (IF Updating THEN <<>> ELSE Batch(fromSupervisor[n]))

Kept(c, p) == IF p = "post" /\ c # <<>> /\ c[1].at = "start" THEN Tail(c) ELSE c
Batches(c) == [k \in DOMAIN c |-> c[k].batch]

Received(p, n) == Batches(Kept(commits[n], p)) = seen[p][n] \o Outstanding(p, n)

QueuesInv ==
  /\ pc \notin Looping => SeenInOrder
  /\ pc \in Looping =>
       /\ \A p \in Pollers, n \in Names : Received(p, n)
       /\ Starting => fromSupervisor = NoEvents /\ fromActors = NoEvents /\ commits = NoBatches
       /\ ~ Starting => lastSender = IF Updating THEN "actors" ELSE "supervisor"
       /\ pc \in {"execute", "scenario", "create"} => evt.type \in {"start", "update"}

Commits == [batch : SUBSET Nat, at : Types \cup {"none"}]

LEMMA BatchesOfCommits ==
  ASSUME NEW c \in Seq(Commits)
  PROVE  /\ Batches(c) \in Seq(SUBSET Nat) /\ Len(Batches(c)) = Len(c)
         /\ \A k \in 1 .. Len(c) : Batches(c)[k] = c[k].batch
<1>1. Len(c) \in Nat /\ DOMAIN c = 1 .. Len(c) /\ \A k \in 1 .. Len(c) : c[k] \in Commits
  BY LenProperties, ElementOfSeq
<1>2. Batches(c) \in [1 .. Len(c) -> SUBSET Nat]
  BY <1>1 DEF Batches, Commits
<1>3. Batches(c) \in Seq(SUBSET Nat)
  BY <1>1, <1>2, SeqDef
<1>4. Len(Batches(c)) = Len(c)
  BY <1>1, <1>2, <1>3
<1> QED BY <1>1, <1>3, <1>4 DEF Batches

LEMMA BatchesAppend ==
  ASSUME NEW c \in Seq(Commits), NEW e \in Commits
  PROVE  Batches(Append(c, e)) = Batches(c) \o <<e.batch>>
<1>1. e.batch \in SUBSET Nat
  BY DEF Commits
<1>2. Append(c, e) \in Seq(Commits) /\ Len(Append(c, e)) = Len(c) + 1 /\ Len(c) \in Nat
  BY AppendProperties, LenProperties
<1>3. /\ Batches(c) \in Seq(SUBSET Nat) /\ Len(Batches(c)) = Len(c)
      /\ Batches(Append(c, e)) \in Seq(SUBSET Nat) /\ Len(Batches(Append(c, e))) = Len(c) + 1
  BY <1>2, BatchesOfCommits
<1>4. /\ Append(Batches(c), e.batch) \in Seq(SUBSET Nat)
      /\ Len(Append(Batches(c), e.batch)) = Len(c) + 1
  BY <1>1, <1>3, AppendProperties
<1>5. ASSUME NEW k \in 1 .. Len(c) + 1 PROVE Batches(Append(c, e))[k] = Append(Batches(c), e.batch)[k]
  <2>1. Batches(Append(c, e))[k] = Append(c, e)[k].batch
    BY <1>2, BatchesOfCommits
  <2>2. CASE k \in 1 .. Len(c)
    BY <1>1, <1>3, <2>1, <2>2, AppendProperties, BatchesOfCommits
  <2>3. CASE k = Len(c) + 1
    BY <1>1, <1>3, <2>1, <2>3, AppendProperties
  <2>4. k \in 1 .. Len(c) \/ k = Len(c) + 1
    BY <1>2
  <2> QED BY <2>2, <2>3, <2>4
<1>6. Batches(Append(c, e)) = Append(Batches(c), e.batch)
  BY <1>3, <1>4, <1>5, SeqEqual
<1> QED BY <1>1, <1>3, <1>6, AppendIsConcat

\* A commit adds its batch, if there is one, to what every poller is to receive.
LEMMA CommitExtends ==
  ASSUME EventTypes, evt \in Entries, NEW sender, CommitEventUpdates(sender),
         NEW p \in Pollers, NEW n \in Names, commits[n] # <<>> \/ evt.type # "start"
  PROVE  /\ Kept(commits[n], p) \in Seq(Commits)
         /\ Batches(Kept(commits'[n], p)) = Batches(Kept(commits[n], p)) \o Batch(unCommittedEvents[n])
<1> DEFINE e == [batch |-> unCommittedEvents[n], at |-> evt.type]
<1>1. e \in Commits /\ commits[n] \in Seq(Commits) /\ e.batch = unCommittedEvents[n] /\ e.at = evt.type
  BY DEF EventTypes, Commits, Entries
<1>2. commits'[n] = IF unCommittedEvents[n] = {} THEN commits[n] ELSE Append(commits[n], e)
  BY DEF CommitEventUpdates
<1> HIDE DEF e
<1>3. commits[n] # <<>> => Tail(commits[n]) \in Seq(Commits) /\ Len(commits[n]) \in Nat /\ 1 \in 1 .. Len(commits[n])
  BY <1>1, HeadTailProperties, EmptySeq
<1>4. Kept(commits[n], p) \in Seq(Commits)
  BY <1>1, <1>3 DEF Kept
<1>5. CASE unCommittedEvents[n] = {}
  <2>1. Batches(Kept(commits[n], p)) \in Seq(SUBSET Nat)
    BY <1>4, BatchesOfCommits
  <2> QED BY <1>2, <1>4, <1>5, <2>1, ConcatEmptySeq DEF Batch
<1>6. CASE unCommittedEvents[n] # {}
  <2>1. Append(commits[n], e) # <<>>
    BY <1>1, AppendProperties
  <2>2. Append(commits[n], e)[1] = IF commits[n] = <<>> THEN e ELSE commits[n][1]
    BY <1>1, <1>3, AppendProperties
  <2>3. commits[n] # <<>> => Tail(Append(commits[n], e)) = Append(Tail(commits[n]), e)
    BY <1>1, HeadTailAppend
  <2>4. Kept(Append(commits[n], e), p) = Append(Kept(commits[n], p), e)
    BY <1>1, <2>1, <2>2, <2>3 DEF Kept
  <2> QED BY <1>1, <1>2, <1>4, <1>6, <2>4, BatchesAppend DEF Batch
<1> QED BY <1>4, <1>5, <1>6

LEMMA StartBatchIsDropped ==
  ASSUME EventTypes, evt \in Entries, evt.type = "start", NEW sender, CommitEventUpdates(sender),
         NEW n \in Names, commits[n] = <<>>
  PROVE  /\ Batches(Kept(commits'[n], "post")) = <<>>
         /\ \A p \in {"step", "executor"} : Batches(Kept(commits'[n], p)) = Batch(unCommittedEvents[n])
<1>1. Batches(<<>>) = <<>>
  BY DEF Batches
<1>2. CASE unCommittedEvents[n] = {}
  BY <1>1, <1>2 DEF CommitEventUpdates, Kept, Batch
<1>3. CASE unCommittedEvents[n] # {}
  <2> DEFINE e == [batch |-> unCommittedEvents[n], at |-> "start"]
  <2>1. commits'[n] = <<e>> /\ e.at = "start" /\ e.batch = unCommittedEvents[n]
    <3>1. commits'[n] = Append(commits[n], e)
      BY <1>3 DEF CommitEventUpdates
    <3>2. Append(<<>>, e) = <<e>>
      OBVIOUS
    <3> QED BY <3>1, <3>2
  <2> HIDE DEF e
  <2>2. Tail(<<e>>) = <<>> /\ <<e>> # <<>> /\ <<e>>[1] = e
    OBVIOUS
  <2>3. Batches(<<e>>) = <<e.batch>>
    BY DEF Batches
  <2> QED BY <1>1, <1>3, <2>1, <2>2, <2>3 DEF Kept, Batch
<1> QED BY <1>2, <1>3

\* Nothing is received out of order if what is outstanding completes it.
LEMMA ReceivedInOrder ==
  ASSUME EventTypes, \A p \in Pollers, n \in Names : Received(p, n)
  PROVE  SeenInOrder
<1> SUFFICES ASSUME NEW p \in Pollers, NEW n \in Names
             PROVE  /\ Len(seen[p][n]) <= Len(Promised(p, n))
                    /\ \A k \in DOMAIN seen[p][n] : seen[p][n][k] = Promised(p, n)[k].batch
  BY DEF SeenInOrder
<1> DEFINE c == Kept(commits[n], p)
<1>1. Promised(p, n) = c
  BY DEF Promised, Kept
<1>2. c \in Seq(Commits)
  BY HeadTailProperties DEF EventTypes, Commits, Kept
<1>3. seen[p][n] \in Seq(SUBSET Nat) /\ Outstanding(p, n) \in Seq(SUBSET Nat)
  <2>1. Batch(fromSupervisor[n]) \in Seq(SUBSET Nat) /\ Batch(fromActors[n]) \in Seq(SUBSET Nat)
    BY BatchTypes DEF EventTypes
  <2>2. <<>> \in Seq(SUBSET Nat)
    BY EmptySeq
  <2> QED BY <2>1, <2>2, ConcatProperties DEF EventTypes, Outstanding
<1>4. Batches(c) = seen[p][n] \o Outstanding(p, n)
  BY DEF Received
<1> HIDE DEF c
<1>5. /\ Len(c) = Len(seen[p][n]) + Len(Outstanding(p, n))
      /\ \A k \in 1 .. Len(seen[p][n]) : c[k].batch = seen[p][n][k]
  <2>1. Len(seen[p][n]) \in Nat /\ Len(Outstanding(p, n)) \in Nat
    BY <1>3, LenProperties
  <2> QED BY <1>2, <1>3, <1>4, <2>1, BatchesOfCommits, ConcatProperties
<1> QED BY <1>1, <1>3, <1>5, LenProperties

LEMMA BatchSequences ==
  ASSUME EventTypes, NEW n \in Names
  PROVE  /\ Batch(fromSupervisor[n]) \in Seq(SUBSET Nat) /\ Batch(fromActors[n]) \in Seq(SUBSET Nat)
         /\ Batch(unCommittedEvents[n]) \in Seq(SUBSET Nat) /\ <<>> \in Seq(SUBSET Nat)
         /\ ReceiveEvents(n) \in Seq(SUBSET Nat)
         /\ \A p \in Pollers : seen[p][n] \in Seq(SUBSET Nat) /\ Outstanding(p, n) \in Seq(SUBSET Nat)
<1>1. /\ Batch(fromSupervisor[n]) \in Seq(SUBSET Nat) /\ Batch(fromActors[n]) \in Seq(SUBSET Nat)
      /\ Batch(unCommittedEvents[n]) \in Seq(SUBSET Nat)
  BY BatchTypes DEF EventTypes
<1>2. <<>> \in Seq(SUBSET Nat)
  BY EmptySeq
<1>3. \A p \in Pollers : Outstanding(p, n) \in Seq(SUBSET Nat)
  BY <1>1, <1>2, ConcatProperties DEF Outstanding
<1> QED BY <1>1, <1>2, <1>3, ReceivedTypes DEF EventTypes

\* A poller that receives what is outstanding has received everything.
LEMMA PollerReceives ==
  ASSUME EventTypes, NEW q \in Pollers, Poll(q), commits' = commits,
         \A n \in Names : Received(q, n) /\ Outstanding(q, n) = ReceiveEvents(n) /\ Outstanding(q, n)' = <<>>,
         \A p \in Pollers \ {q}, n \in Names : Received(p, n) /\ Outstanding(p, n)' = Outstanding(p, n)
  PROVE  \A p \in Pollers, n \in Names : Received(p, n)'
<1>1. /\ \A n \in Names : seen'[q][n] = seen[q][n] \o ReceiveEvents(n)
      /\ \A p \in Pollers \ {q}, n \in Names : seen'[p][n] = seen[p][n]
  BY DEF EventTypes, Poll
<1>2. ASSUME NEW n \in Names PROVE Received(q, n)'
  <2>1. seen'[q][n] \in Seq(SUBSET Nat)
    <3>1. seen[q][n] \in Seq(SUBSET Nat) /\ ReceiveEvents(n) \in Seq(SUBSET Nat)
      BY BatchSequences
    <3> QED BY <1>1, <3>1, ConcatProperties
  <2>2. seen'[q][n] \o <<>> = seen'[q][n]
    BY <2>1, ConcatEmptySeq
  <2>3. Batches(Kept(commits[n], q)) = seen'[q][n]
    BY <1>1 DEF Received
  <2> QED BY <2>2, <2>3 DEF Received
<1>3. ASSUME NEW p \in Pollers \ {q}, NEW n \in Names PROVE Received(p, n)'
  <2>1. Received(p, n) /\ Outstanding(p, n)' = Outstanding(p, n) /\ seen'[p][n] = seen[p][n]
    BY <1>1
  <2> QED BY <2>1 DEF Received
<1> QED BY <1>2, <1>3

LEMMA BatchesAssociate == \A a, b, c \in Seq(SUBSET Nat) : (a \o b) \o c = a \o (b \o c)
BY ConcatAssociative

\* A commit adds to what is outstanding.
LEMMA CommitIsOutstanding ==
  ASSUME EventTypes, evt \in Entries, NEW sender, CommitEventUpdates(sender),
         NEW p \in Pollers, NEW n \in Names, commits[n] # <<>> \/ evt.type # "start", Received(p, n),
         Outstanding(p, n)' = Outstanding(p, n) \o Batch(unCommittedEvents[n])
  PROVE  Received(p, n)'
<1>1. Batches(Kept(commits'[n], p)) = Batches(Kept(commits[n], p)) \o Batch(unCommittedEvents[n])
  BY CommitExtends
<1>2. Batches(Kept(commits[n], p)) = seen[p][n] \o Outstanding(p, n)
  BY DEF Received
<1>3. /\ seen[p][n] \in Seq(SUBSET Nat) /\ Outstanding(p, n) \in Seq(SUBSET Nat)
      /\ Batch(unCommittedEvents[n]) \in Seq(SUBSET Nat)
  BY BatchSequences
<1>4. (seen[p][n] \o Outstanding(p, n)) \o Batch(unCommittedEvents[n])
        = seen[p][n] \o (Outstanding(p, n) \o Batch(unCommittedEvents[n]))
  BY <1>3, BatchesAssociate
<1>5. seen' = seen
  BY DEF CommitEventUpdates
<1> QED BY <1>1, <1>2, <1>4, <1>5 DEF Received

LEMMA UnchangedReceived ==
  ASSUME UNCHANGED <<seen, commits>>, NEW p \in Pollers, NEW n \in Names, Received(p, n), Outstanding(p, n)' = Outstanding(p, n)
  PROVE  Received(p, n)'
BY DEF Received

\* The thread goes on without a poll or a commit.
LEMMA QueuesUnchanged ==
  ASSUME EventTypes, QueuesInv, UNCHANGED <<seen, commits, fromSupervisor, fromActors, lastSender, done>>,
         pc' \in Looping => /\ pc \in Looping
                            /\ \A p \in Pollers : HasPolled(p)' <=> HasPolled(p)
                            /\ Starting' <=> Starting
                            /\ (pc' \in {"execute", "scenario", "create"} => evt'.type \in {"start", "update"})
  PROVE  QueuesInv'
<1>1. SeenInOrder'
  <2>1. SeenInOrder
    BY ReceivedInOrder DEF QueuesInv
  <2> QED BY <2>1 DEF SeenInOrder, Promised
<1>2. Updating' <=> Updating
  BY DEF Updating
<1>3. ASSUME pc' \in Looping, NEW p \in Pollers, NEW n \in Names PROVE Received(p, n)'
  <2>1. HasPolled(p)' <=> HasPolled(p)
    BY <1>3
  <2>2. /\ (IF Updating THEN Batch(fromActors[n]) ELSE <<>>)'
             = (IF Updating THEN Batch(fromActors[n]) ELSE <<>>)
        /\ (IF Updating THEN <<>> ELSE Batch(fromSupervisor[n]))'
             = (IF Updating THEN <<>> ELSE Batch(fromSupervisor[n]))
        /\ Batch(fromSupervisor[n])' = Batch(fromSupervisor[n])
        /\ Batch(fromActors[n])' = Batch(fromActors[n])
    BY <1>2 DEF Batch
  <2>3. Outstanding(p, n)' = Outstanding(p, n)
    BY <2>1, <2>2 DEF Outstanding
  <2>4. Received(p, n)
    BY <1>3 DEF QueuesInv
  <2> QED BY <2>3, <2>4, UnchangedReceived
<1>4. ASSUME pc' \in Looping
      PROVE  /\ Starting' => fromSupervisor' = NoEvents /\ fromActors' = NoEvents /\ commits' = NoBatches
             /\ ~ Starting' => lastSender' = IF Updating' THEN "actors" ELSE "supervisor"
             /\ pc' \in {"execute", "scenario", "create"} => evt'.type \in {"start", "update"}
  BY <1>2, <1>4 DEF QueuesInv
<1> QED BY <1>1, <1>3, <1>4 DEF QueuesInv

\* What the clock says of the three parts of a step.
LEMMA PartsOfStep ==
  ASSUME ClockTypes, ClockInv, pc \in Looping
  PROVE  /\ InHand("start") => Starting
         /\ InHand("step") \/ InHand("stop") => ~ Updating /\ ~ Closing /\ ~ Starting
         /\ InHand("update") => Updating /\ ~ Closing /\ ~ Starting
         /\ InHand("post") => Closing /\ ~ Updating /\ ~ Starting
         /\ Starting => ~ Updating /\ ~ Closing
         /\ Updating => ~ Closing
         /\ Processing => evt.type \in Types
<1>1. CountInv /\ CalendarInv
  BY DEF ClockInv
<1>2. done.step \in Nat /\ done.update \in Nat /\ done.post \in Nat
  BY DEF ClockTypes, Kinds
<1>3. CASE BetweenSteps
  BY <1>1, <1>2, <1>3 DEF BetweenSteps, CountInv, CalendarInv, InHand, Updating, Closing, Starting
<1>4. CASE WithinStep
  BY <1>1, <1>2, <1>4 DEF WithinStep, CountInv, CalendarInv, InHand, Updating, Closing, Starting
<1> QED BY <1>3, <1>4 DEF ClockInv

LEMMA NoLongerStarting ==
  ASSUME ~ Starting, NEW t, NEW type \in Kinds, NEW n, ~ Processing',
         calendar' = calendar \cup {At(t, type, n)}
  PROVE  ~ Starting'
BY DistinctTypes DEF Starting, InHand, Due, Kinds

LEMMA QueuesStart == ClockInv /\ StartSimulation => QueuesInv'
<1> SUFFICES ASSUME ClockInv, StartSimulation PROVE QueuesInv'
  OBVIOUS
<1>1. /\ pc' = "pop" /\ commits' = NoBatches /\ fromSupervisor' = NoEvents /\ fromActors' = NoEvents
      /\ At(0, "start", 0) \in calendar'
  BY DEF StartSimulation
<1>2. ASSUME NEW p \in Pollers, NEW n \in Names PROVE Received(p, n)'
  <2>1. Kept(commits'[n], p) = <<>>
    BY <1>1 DEF Kept, NoBatches
  <2>2. Batches(Kept(commits'[n], p)) = <<>>
    BY <2>1 DEF Batches
  <2>3. seen'[p][n] = <<>>
    BY DEF StartSimulation, NoBatches
  <2>4. Outstanding(p, n)' = <<>>
    BY <1>1, ConcatEmptySeq DEF Outstanding, Batch, NoEvents
  <2> QED BY <2>2, <2>3, <2>4 DEF Received
<1>3. Starting'
  BY <1>1 DEF Starting, Due
<1> QED BY <1>1, <1>2, <1>3 DEF QueuesInv, Looping

LEMMA QueuesPop == EventTypes /\ ClockInv /\ QueuesInv /\ PopNextEvent => QueuesInv'
<1> SUFFICES ASSUME EventTypes, ClockInv, QueuesInv, PopNextEvent PROVE QueuesInv'
  OBVIOUS
<1>1. PICK e \in calendar : /\ calendar' = calendar \ {e}
                            /\ evt' = IF e.type = "stop" THEN [e EXCEPT !.steps = numSteps] ELSE e
  BY DEF PopNextEvent
<1>2. /\ pc = "pop" /\ pc' = "publish" /\ pc \in Looping /\ ~ Processing /\ Processing'
      /\ UNCHANGED <<seen, commits, fromSupervisor, fromActors, lastSender, done, stopTime>>
  BY DEF PopNextEvent, Looping, Processing, events
<1>3. PICK type \in Types : e = Due[type]
  BY <1>1, <1>2 DEF ClockInv, CalendarInv
<1>4. e.type = type /\ evt'.type = type
  BY <1>1, <1>3, DueByType
<1>5. Starting' <=> Starting
  <2>1. Due'.start = Due.start /\ Due.start.type = "start"
    BY DEF Due, At
  <2> QED BY <1>1, <1>2, <1>3, <1>4, <2>1 DEF Starting, InHand
<1>6. \A p \in Pollers : HasPolled(p)' <=> HasPolled(p)
  BY <1>2 DEF HasPolled, Pollers, Updating, Closing
<1> QED BY <1>2, <1>5, <1>6, QueuesUnchanged

LEMMA QueuesPublish == EventTypes /\ ClockTypes /\ ClockInv /\ QueuesInv /\ Publish => QueuesInv'
<1> SUFFICES ASSUME EventTypes, ClockTypes, ClockInv, QueuesInv, Publish PROVE QueuesInv'
  OBVIOUS
<1>1. /\ pc = "publish" /\ pc \in Looping /\ Processing /\ InHand(evt.type)
      /\ UNCHANGED <<calendar, evt, done, stopTime, commits, fromSupervisor, fromActors, lastSender>>
  BY DEF Publish, Looping, Processing, InHand, clock
<1>2. /\ pc' = IF evt.type \in {"start", "update"} THEN "execute" ELSE "commit"
      /\ pc' \in Looping /\ Processing'
  BY DEF Publish, Looping, Processing
<1>3. /\ Starting' <=> Starting
      /\ Updating' <=> Updating
      /\ Closing' <=> Closing
      /\ \A type \in Types : InHand(type)' <=> InHand(type)
  BY <1>1, <1>2 DEF Starting, Updating, Closing, InHand, Due
<1>4. \A p \in Pollers, n \in Names : Received(p, n)
  BY <1>1 DEF QueuesInv
<1>5. CASE evt.type \in {"step", "post"}
  <2> PICK q \in {"step", "post"} : q = evt.type
    BY <1>5
  <2>1. q \in Pollers /\ q # "executor" /\ pc' = "commit" /\ Poll(q)
    BY <1>2, <1>5 DEF Pollers, Publish
  <2>2. ~ Updating /\ ~ Starting /\ lastSender = "supervisor" /\ (q = "post" => Closing)
    <3>1. ~ Updating /\ ~ Starting /\ (q = "post" => Closing)
      BY <1>1, <1>5, PartsOfStep
    <3> QED BY <1>1, <3>1 DEF QueuesInv
  <2>3. ~ HasPolled(q) /\ HasPolled(q)'
    BY <1>1, <1>2, <1>5, <2>1, <2>2 DEF HasPolled, InHand, Processing
  <2>4. ASSUME NEW n \in Names
        PROVE  Outstanding(q, n) = ReceiveEvents(n) /\ Outstanding(q, n)' = <<>>
    <3>1. Outstanding(q, n) = ReceiveEvents(n)
      BY <2>1, <2>2, <2>3 DEF Outstanding, ReceiveEvents
    <3>2. Outstanding(q, n)' = <<>>
      BY <2>3 DEF Outstanding
    <3> QED BY <3>1, <3>2
  <2>6. ASSUME NEW p \in Pollers \ {q}, NEW n \in Names PROVE Outstanding(p, n)' = Outstanding(p, n)
    <3>1. HasPolled(p)' <=> HasPolled(p)
      BY <1>1, <1>3, <1>5, <2>1 DEF HasPolled, Pollers, InHand, Types
    <3> QED BY <1>1, <1>3, <3>1 DEF Outstanding, Batch
  <2>7. \A p \in Pollers, n \in Names : Received(p, n)'
    <3>1. /\ q \in Pollers /\ commits' = commits
          /\ \A n \in Names : Received(q, n)
          /\ \A p \in Pollers \ {q}, n \in Names : Received(p, n) /\ Outstanding(p, n)' = Outstanding(p, n)
      BY <1>1, <1>4, <2>1, <2>6
    <3> QED BY <2>1, <2>4, <3>1, PollerReceives
  <2> QED BY <1>1, <1>2, <1>3, <2>1, <2>2, <2>7 DEF QueuesInv
<1>6. CASE evt.type \notin {"step", "post"}
  <2>1. seen' = seen
    BY <1>6 DEF Publish
  <2>2. \A p \in Pollers : HasPolled(p)' <=> HasPolled(p)
    BY <1>1, <1>2, <1>3, <1>6 DEF HasPolled, Pollers, InHand, Types
  <2> QED BY <1>1, <1>2, <1>3, <2>1, <2>2, QueuesUnchanged
<1> QED BY <1>5, <1>6

LEMMA QueuesExecute == EventTypes /\ ClockTypes /\ ClockInv /\ QueuesInv /\ ExecuteScenario => QueuesInv'
<1> SUFFICES ASSUME EventTypes, ClockTypes, ClockInv, QueuesInv, ExecuteScenario PROVE QueuesInv'
  OBVIOUS
<1>1. /\ pc = "execute" /\ pc' = "scenario" /\ pc \in Looping /\ pc' \in Looping
      /\ Processing /\ Processing' /\ InHand(evt.type) /\ evt.type \in {"start", "update"}
      /\ UNCHANGED <<calendar, evt, done, stopTime, commits, fromSupervisor, fromActors, lastSender>>
      /\ Poll("executor")
  BY DEF ExecuteScenario, Looping, Processing, InHand, clock, QueuesInv
<1>2. /\ Starting' <=> Starting
      /\ Updating' <=> Updating
      /\ Closing' <=> Closing
      /\ \A type \in Types : InHand(type)' <=> InHand(type)
  BY <1>1 DEF Starting, Updating, Closing, InHand, Due
<1>3. \A p \in Pollers, n \in Names : Received(p, n)
  BY <1>1 DEF QueuesInv
<1>4. ~ HasPolled("executor") /\ HasPolled("executor")'
  BY <1>1 DEF HasPolled, InHand
<1>5. ASSUME NEW n \in Names
      PROVE  Outstanding("executor", n) = ReceiveEvents(n) /\ Outstanding("executor", n)' = <<>>
  <2>1. CASE evt.type = "start"
    <3>1. Starting
      BY <1>1, <2>1, PartsOfStep
    <3>2. fromSupervisor = NoEvents /\ fromActors = NoEvents
      BY <1>1, <3>1 DEF QueuesInv
    <3> QED BY <1>4, <3>2, ConcatEmptySeq DEF Outstanding, ReceiveEvents, Batch, NoEvents
  <2>2. CASE evt.type = "update"
    <3>1. Updating /\ ~ Starting
      BY <1>1, <2>2, PartsOfStep
    <3>2. lastSender = "actors"
      BY <1>1, <3>1 DEF QueuesInv
    <3> QED BY <1>4, <3>1, <3>2 DEF Outstanding, ReceiveEvents
  <2> QED BY <1>1, <2>1, <2>2
<1>7. ASSUME NEW p \in Pollers \ {"executor"}, NEW n \in Names PROVE Outstanding(p, n)' = Outstanding(p, n)
  <2>1. HasPolled(p)' <=> HasPolled(p)
    BY <1>1, <1>2 DEF HasPolled, Pollers, InHand, Types
  <2> QED BY <1>1, <1>2, <2>1 DEF Outstanding, Batch
<1>8. \A p \in Pollers, n \in Names : Received(p, n)'
  <2>1. /\ "executor" \in Pollers /\ commits' = commits
        /\ \A n \in Names : Received("executor", n)
        /\ \A p \in Pollers \ {"executor"}, n \in Names : Received(p, n) /\ Outstanding(p, n)' = Outstanding(p, n)
    BY <1>1, <1>3, <1>7 DEF Pollers
  <2> QED BY <1>1, <1>5, <2>1, PollerReceives
<1> QED BY <1>1, <1>2, <1>8 DEF QueuesInv

\* The rest of the thread's actions that neither poll nor commit, and the clients.
LEMMA QueuesGoOn ==
  ASSUME EventTypes, ClockTypes, QueuesInv, UNCHANGED <<clock, commits, seen, fromSupervisor, fromActors, lastSender>>,
         \/ pc = "scenario" /\ pc' \in {"create", "commit"}
         \/ pc = "create" /\ pc' = "scenario"
         \/ pc = "check" /\ pc' = "pop"
         \/ pc' = pc
         \/ pc' \notin Looping
  PROVE  QueuesInv'
<1>1. UNCHANGED <<calendar, evt, done, stopTime>>
  BY DEF clock
<1>2. ASSUME pc' \in Looping
      PROVE  /\ pc \in Looping
             /\ Processing' <=> Processing
             /\ pc' \in {"execute", "scenario", "create"} => evt'.type \in {"start", "update"}
  BY <1>1, <1>2 DEF QueuesInv, Looping, Processing
<1>3. ASSUME pc' \in Looping
      PROVE  /\ Starting' <=> Starting
             /\ Updating' <=> Updating
             /\ Closing' <=> Closing
             /\ \A type \in Types : InHand(type)' <=> InHand(type)
  BY <1>1, <1>2, <1>3 DEF Starting, Updating, Closing, InHand, Due
<1>4. ASSUME pc' \in Looping, NEW p \in Pollers PROVE HasPolled(p)' <=> HasPolled(p)
  <2>1. CASE pc' = pc
    BY <1>3, <1>4, <2>1 DEF HasPolled, Pollers, Types
  <2>2. CASE pc = "check" /\ pc' = "pop"
    BY <1>3, <1>4, <2>2 DEF HasPolled, Pollers, Types
  <2>3. CASE pc \in {"scenario", "create"} /\ pc' \in {"scenario", "create", "commit"}
    <3>1. evt.type \in {"start", "update"} /\ ~ InHand("step") /\ ~ InHand("post")
      BY <2>3 DEF QueuesInv, Looping, InHand
    <3> QED BY <1>3, <1>4, <2>3, <3>1 DEF HasPolled, Pollers, Types
  <2> QED BY <1>4, <2>1, <2>2, <2>3
<1> QED BY <1>1, <1>2, <1>3, <1>4, QueuesUnchanged

LEMMA QueuesAdvance == EventTypes /\ QueuesInv /\ AdvanceTime => QueuesInv'
<1> SUFFICES ASSUME EventTypes, QueuesInv, AdvanceTime PROVE QueuesInv'
  OBVIOUS
<1>1. /\ pc = "advance" /\ pc' = "check" /\ pc \in Looping /\ ~ Processing /\ ~ Processing'
      /\ UNCHANGED <<calendar, evt, done, stopTime, seen, commits, fromSupervisor, fromActors, lastSender>>
  BY DEF AdvanceTime, Looping, Processing, events
<1>2. Starting' <=> Starting
  BY <1>1 DEF Starting, InHand, Due
<1>3. \A p \in Pollers : HasPolled(p)' <=> HasPolled(p)
  BY <1>1 DEF HasPolled, Pollers, Updating, Closing
<1> QED BY <1>1, <1>2, <1>3, QueuesUnchanged

LEMMA QueuesCommitStart ==
  EventTypes /\ ClockTypes /\ ClockInv /\ QueuesInv /\ CommitStart => QueuesInv'
<1> SUFFICES ASSUME EventTypes, ClockTypes, ClockInv, QueuesInv, CommitStart PROVE QueuesInv'
  OBVIOUS
<1>1. /\ pc = "commit" /\ pc' = "check" /\ pc \in Looping /\ evt.type = "start" /\ InHand("start")
      /\ UNCHANGED <<calendar, evt, done, stopTime, seen>> /\ Processing /\ ~ Processing'
      /\ CommitEventUpdates("supervisor")
  BY DEF CommitStart, Looping, Processing, InHand, clock, CommitEventUpdates
<1>2. Starting /\ ~ Updating /\ ~ Closing /\ Due.start \notin calendar
  BY <1>1, PartsOfStep DEF ClockInv, CalendarInv
<1>3. ~ Starting' /\ ~ Updating' /\ ~ Closing'
  BY <1>1, <1>2 DEF Starting, InHand, Due, Updating, Closing
<1>4. /\ fromSupervisor = NoEvents /\ fromActors = NoEvents /\ commits = NoBatches /\ \A p \in Pollers, n \in Names : Received(p, n)
      /\ lastSender' = "supervisor" /\ fromSupervisor' = unCommittedEvents /\ fromActors' = NoEvents
  BY <1>1, <1>2 DEF QueuesInv, CommitEventUpdates
<1>5. ASSUME NEW p \in Pollers, NEW n \in Names PROVE seen[p][n] = <<>>
  <2>1. Kept(commits[n], p) = <<>>
    BY <1>4 DEF Kept, NoBatches
  <2>2. Batches(Kept(commits[n], p)) = <<>>
    BY <2>1 DEF Batches
  <2>3. Outstanding(p, n) = <<>>
    BY <1>4, ConcatEmptySeq DEF Outstanding, Batch, NoEvents
  <2>4. seen[p][n] \o <<>> = <<>> /\ seen[p][n] \in Seq(SUBSET Nat)
    BY <1>4, <2>2, <2>3 DEF Received, EventTypes
  <2> QED BY <2>4, ConcatEmptySeq
<1>6. ASSUME NEW n \in Names
      PROVE  /\ Batches(Kept(commits'[n], "post")) = <<>>
             /\ \A p \in {"step", "executor"} : Batches(Kept(commits'[n], p)) = Batch(unCommittedEvents[n])
  <2>1. commits[n] = <<>>
    BY <1>4 DEF NoBatches
  <2> QED BY <1>1, <2>1, StartBatchIsDropped DEF ClockTypes
<1>7. /\ \A n \in Names : Batch(unCommittedEvents[n]) \in Seq(SUBSET Nat)
      /\ Batch({}) = <<>>
  BY BatchSequences DEF Batch
<1>8. ASSUME NEW p \in Pollers, NEW n \in Names PROVE Received(p, n)'
  <2>1. Batches(Kept(commits'[n], p)) = Outstanding(p, n)'
    <3>1. HasPolled("post")' /\ ~ HasPolled("step")' /\ ~ HasPolled("executor")'
      BY <1>1, <1>3 DEF HasPolled
    <3>2. CASE p = "post"
      BY <1>6, <3>1, <3>2 DEF Outstanding
    <3>3. CASE p = "step"
      <4>1. Outstanding(p, n)' = <<>> \o Batch(unCommittedEvents[n])
        BY <1>3, <1>4, <1>7, <3>1, <3>3 DEF Outstanding, Batch, NoEvents
      <4> QED BY <1>6, <1>7, <3>3, <4>1, ConcatEmptySeq
    <3>4. CASE p = "executor"
      <4>1. Outstanding(p, n)' = Batch(unCommittedEvents[n]) \o <<>>
        BY <1>3, <1>4, <3>1, <3>4 DEF Outstanding, Batch, NoEvents
      <4> QED BY <1>6, <1>7, <3>4, <4>1, ConcatEmptySeq
    <3> QED BY <3>2, <3>3, <3>4 DEF Pollers
  <2>2. Outstanding(p, n)' \in Seq(SUBSET Nat)
    BY <1>6, <1>7, <2>1, EmptySeq DEF Pollers
  <2>3. seen'[p][n] = <<>>
    BY <1>1, <1>5
  <2> QED BY <2>1, <2>2, <2>3, ConcatEmptySeq DEF Received
<1> QED BY <1>1, <1>3, <1>4, <1>8 DEF QueuesInv, Looping

\* What the other two kinds of commit have in common.
LEMMA QueuesCommit ==
  ASSUME EventTypes, ClockTypes, QueuesInv, pc \in Looping, pc' \in {"pop", "advance"}, evt.type # "start",
         NEW sender \in {"supervisor", "actors"}, CommitEventUpdates(sender), ~ Starting',
         sender = IF Updating' THEN "actors" ELSE "supervisor",
         \A p \in Pollers, n \in Names : Outstanding(p, n)' = Outstanding(p, n) \o Batch(unCommittedEvents[n])
  PROVE  QueuesInv'
<1>1. ASSUME NEW p \in Pollers, NEW n \in Names PROVE Received(p, n)'
  <2>1. Received(p, n)
    BY DEF QueuesInv
  <2>2. Outstanding(p, n)' = Outstanding(p, n) \o Batch(unCommittedEvents[n])
    OBVIOUS
  <2> QED BY <2>1, <2>2, CommitIsOutstanding DEF ClockTypes
<1>2. lastSender' = IF Updating' THEN "actors" ELSE "supervisor"
  BY DEF CommitEventUpdates
<1> QED BY <1>1, <1>2 DEF QueuesInv, Looping

LEMMA QueuesCommitStep ==
  EventTypes /\ ClockTypes /\ ClockInv /\ QueuesInv /\ CommitStep => QueuesInv'
<1> SUFFICES ASSUME EventTypes, ClockTypes, ClockInv, QueuesInv, CommitStep PROVE QueuesInv'
  OBVIOUS
<1>1. /\ pc = "commit" /\ pc' \in {"pop", "advance"} /\ pc \in Looping /\ InHand("step")
      /\ evt.type = "step" /\ ~ Processing' /\ CommitEventUpdates("actors")
      /\ calendar' = calendar \cup {At(StepSize * (evt.steps + 1), "step", evt.steps + 1)}
      /\ done' = [done EXCEPT !["step"] = @ + 1]
  BY DEF CommitStep, Continue, Counted, Looping, Processing, InHand
<1>2. ~ Updating /\ ~ Closing /\ ~ Starting
  BY <1>1, PartsOfStep
<1>3. Updating'
  <2>1. CountInv /\ done.step = done.post
    BY <1>1, <1>2 DEF ClockInv, BetweenSteps, WithinStep, CountInv, Updating, Closing, InHand
  <2> QED BY <1>1, <2>1 DEF ClockTypes, Kinds, CountInv, Updating
<1>4. ~ Starting'
  BY <1>1, <1>2, NoLongerStarting DEF Kinds
<1>5. fromActors' = unCommittedEvents /\ fromSupervisor' = fromSupervisor
  BY <1>1 DEF CommitEventUpdates
<1>6. /\ HasPolled("step") /\ HasPolled("post") /\ ~ HasPolled("executor")
      /\ ~ HasPolled("step")' /\ ~ HasPolled("post")' /\ ~ HasPolled("executor")'
  BY <1>1, <1>2, <1>3 DEF HasPolled, InHand, Processing
<1>7. \A n \in Names : Batch(unCommittedEvents[n]) \in Seq(SUBSET Nat) /\ Batch(fromSupervisor[n]) \in Seq(SUBSET Nat)
  BY BatchSequences
<1>8. ASSUME NEW p \in Pollers, NEW n \in Names PROVE Outstanding(p, n)' = Outstanding(p, n) \o Batch(unCommittedEvents[n])
  <2>1. CASE p = "executor"
    <3>1. Outstanding(p, n) = Batch(fromSupervisor[n]) \o <<>>
      BY <1>2, <1>6, <2>1 DEF Outstanding
    <3>2. Outstanding(p, n)' = Batch(fromSupervisor[n]) \o Batch(unCommittedEvents[n])
      BY <1>3, <1>5, <1>6, <2>1 DEF Outstanding, Batch
    <3> QED BY <1>7, <3>1, <3>2, ConcatEmptySeq
  <2>2. CASE p # "executor"
    <3>1. Outstanding(p, n) = <<>>
      BY <1>6, <2>2 DEF Outstanding, Pollers
    <3>2. Outstanding(p, n)' = Batch(unCommittedEvents[n]) \o <<>>
      BY <1>3, <1>5, <1>6, <2>2 DEF Outstanding, Batch, Pollers
    <3> QED BY <1>7, <3>1, <3>2, ConcatEmptySeq
  <2> QED BY <2>1, <2>2
<1> QED BY <1>1, <1>3, <1>4, <1>8, QueuesCommit

LEMMA QueuesCommitUpdate ==
  EventTypes /\ ClockTypes /\ ClockInv /\ QueuesInv /\ CommitUpdate => QueuesInv'
<1> SUFFICES ASSUME EventTypes, ClockTypes, ClockInv, QueuesInv, CommitUpdate PROVE QueuesInv'
  OBVIOUS
<1>1. /\ pc = "commit" /\ pc' \in {"pop", "advance"} /\ pc \in Looping /\ InHand("update")
      /\ evt.type = "update" /\ ~ Processing' /\ CommitEventUpdates("supervisor")
      /\ calendar' = calendar \cup {At(StepSize * (numSteps + 1), "update", 0)}
      /\ done' = [done EXCEPT !["update"] = @ + 1]
  BY DEF CommitUpdate, Continue, Counted, Looping, Processing, InHand
<1>2. Updating /\ ~ Closing /\ ~ Starting
  BY <1>1, PartsOfStep
<1>3. Closing' /\ ~ Updating'
  BY <1>1, <1>2 DEF ClockTypes, Kinds, Updating, Closing
<1>4. ~ Starting'
  BY <1>1, <1>2, NoLongerStarting DEF Kinds
<1>5. fromSupervisor' = unCommittedEvents /\ fromActors' = fromActors
  BY <1>1 DEF CommitEventUpdates
<1>6. /\ ~ HasPolled("step") /\ ~ HasPolled("post") /\ HasPolled("executor")
      /\ ~ HasPolled("step")' /\ ~ HasPolled("post")' /\ ~ HasPolled("executor")'
  BY <1>1, <1>2, <1>3 DEF HasPolled, InHand, Processing
<1>7. \A n \in Names : Batch(unCommittedEvents[n]) \in Seq(SUBSET Nat) /\ Batch(fromActors[n]) \in Seq(SUBSET Nat)
  BY BatchSequences
<1>8. ASSUME NEW p \in Pollers, NEW n \in Names PROVE Outstanding(p, n)' = Outstanding(p, n) \o Batch(unCommittedEvents[n])
  <2>1. CASE p = "executor"
    <3>1. Outstanding(p, n) = <<>>
      BY <1>6, <2>1 DEF Outstanding
    <3>2. Outstanding(p, n)' = Batch(unCommittedEvents[n]) \o <<>>
      BY <1>3, <1>5, <1>6, <2>1 DEF Outstanding, Batch
    <3> QED BY <1>7, <3>1, <3>2, ConcatEmptySeq
  <2>2. CASE p # "executor"
    <3>1. Outstanding(p, n) = Batch(fromActors[n]) \o <<>>
      BY <1>2, <1>6, <2>2 DEF Outstanding, Pollers
    <3>2. Outstanding(p, n)' = Batch(fromActors[n]) \o Batch(unCommittedEvents[n])
      BY <1>3, <1>5, <1>6, <2>2 DEF Outstanding, Batch, Pollers
    <3> QED BY <1>7, <3>1, <3>2, ConcatEmptySeq
  <2> QED BY <2>1, <2>2
<1> QED BY <1>1, <1>3, <1>4, <1>8, QueuesCommit

LEMMA QueuesCommitPostStep ==
  EventTypes /\ ClockTypes /\ ClockInv /\ QueuesInv /\ CommitPostStep => QueuesInv'
<1> SUFFICES ASSUME EventTypes, ClockTypes, ClockInv, QueuesInv, CommitPostStep PROVE QueuesInv'
  OBVIOUS
<1>1. /\ pc = "commit" /\ pc' \in {"pop", "advance"} /\ pc \in Looping /\ InHand("post")
      /\ evt.type = "post" /\ ~ Processing'
      /\ UNCHANGED <<seen, commits, fromSupervisor, fromActors, lastSender>>
      /\ calendar' = calendar \cup {At(StepSize * (numSteps + 1), "post", 0)}
      /\ done' = [done EXCEPT !["post"] = @ + 1]
  BY DEF CommitPostStep, Continue, Counted, Looping, Processing, InHand, events
<1>2. Closing /\ ~ Updating /\ ~ Starting
  BY <1>1, PartsOfStep
<1>3. ~ Closing' /\ ~ Updating'
  BY <1>1, <1>2 DEF ClockTypes, Kinds, Updating, Closing
<1>4. ~ Starting'
  BY <1>1, <1>2, NoLongerStarting DEF Kinds
<1>5. /\ ~ HasPolled("step") /\ HasPolled("post") /\ ~ HasPolled("executor")
      /\ ~ HasPolled("step")' /\ HasPolled("post")' /\ ~ HasPolled("executor")'
  BY <1>1, <1>2, <1>3 DEF HasPolled, InHand, Processing
<1>6. ASSUME NEW p \in Pollers, NEW n \in Names PROVE Received(p, n)'
  <2>1. Outstanding(p, n)' = Outstanding(p, n)
    BY <1>1, <1>2, <1>3, <1>5 DEF Outstanding, Pollers, Batch
  <2>2. Received(p, n)
    BY <1>1 DEF QueuesInv
  <2> QED BY <1>1, <2>1, <2>2, UnchangedReceived
<1>7. lastSender = "supervisor"
  BY <1>1, <1>2 DEF QueuesInv
<1> QED BY <1>1, <1>3, <1>4, <1>6, <1>7 DEF QueuesInv, Looping

LEMMA QueuesInit == Init => QueuesInv
<1> SUFFICES ASSUME Init PROVE QueuesInv
  OBVIOUS
<1>1. pc \notin Looping /\ commits = NoBatches /\ \A p \in Pollers, n \in Names : seen[p][n] = <<>>
  BY DEF Init, Looping, NoBatches
<1>2. \A p \in Pollers, n \in Names : Promised(p, n) = <<>>
  BY <1>1 DEF Promised, NoBatches
<1>3. Len(<<>>) = 0 /\ DOMAIN <<>> = {}
  OBVIOUS
<1> QED BY <1>1, <1>2, <1>3 DEF QueuesInv, SeenInOrder

LEMMA QueuesStep ==
  EventTypes /\ ClockTypes /\ ClockInv /\ QueuesInv /\ [Next]_vars => QueuesInv'
<1> SUFFICES ASSUME EventTypes, ClockTypes, ClockInv, QueuesInv, [Next]_vars PROVE QueuesInv'
  OBVIOUS
<1>1. ASSUME UNCHANGED <<clock, commits, seen, fromSupervisor, fromActors, lastSender>>,
             \/ pc = "scenario" /\ pc' \in {"create", "commit"}
             \/ pc = "create" /\ pc' = "scenario"
             \/ pc = "check" /\ pc' = "pop"
             \/ pc' = pc
             \/ pc' \notin Looping
      PROVE  QueuesInv'
  BY <1>1, QueuesGoOn
<1>2. ASSUME pc' \notin Looping, UNCHANGED <<seen, commits>> PROVE QueuesInv'
  <2>1. SeenInOrder
    BY ReceivedInOrder DEF QueuesInv
  <2>2. SeenInOrder'
    BY <1>2, <2>1 DEF SeenInOrder, Promised
  <2> QED BY <1>2, <2>2 DEF QueuesInv
<1>3. ASSUME NEW a \in Actors, NEW mode \in Modes, RefuseActor(a, mode) \/ InitializeActor(a, mode)
      PROVE  QueuesInv'
  BY <1>1, <1>3 DEF RefuseActor, InitializeActor, events, Looping
<1>4. CASE CreateActor \/ EndScenario \/ ScenarioDone
  BY <1>1, <1>4 DEF CreateActor, EndScenario, ScenarioDone, events, Looping
<1>5. CASE CommitStop \/ GoOn \/ StopRequested
  BY <1>1, <1>5 DEF CommitStop, GoOn, StopRequested, events, Looping
<1>6. CASE PublishStopEvent \/ CleanupModel \/ CleanupActors \/ CleanupEvents
  BY <1>2, <1>6 DEF PublishStopEvent, CleanupModel, CleanupActors, CleanupEvents, events, Looping
<1>7. CASE Client
  <2>1. UNCHANGED <<pc, clock>>
    BY <1>7, ClientKeepsClock
  <2>2. UNCHANGED <<commits, seen, fromSupervisor, fromActors, lastSender>>
    BY <1>7 DEF Client, SendEvents, SetRuntimeActors, RefuseRuntimeActors, UpdateActorPose,
       BeginAddActor, EndAddActor, events
  <2> QED BY <1>1, <2>1, <2>2
<1>8. CASE UNCHANGED vars
  BY <1>1, <1>8 DEF vars, events
<1> QED
  BY <1>3, <1>4, <1>5, <1>6, <1>7, <1>8, QueuesStart, QueuesPop, QueuesPublish, QueuesExecute,
     QueuesCommitStart, QueuesCommitStep, QueuesCommitUpdate, QueuesCommitPostStep, QueuesAdvance
  DEF Next, SimulationThread

\* A client that polls at every step event or at every post-step event, and the
\* scenario executor, receive every user-defined event once, those of each name in
\* the order of their commits.
THEOREM EventsSeenInOrder == Spec => []SeenInOrder
<1>1. TypeOK => EventTypes /\ ClockTypes
  BY TypesInGroups
<1>2. EventTypes /\ QueuesInv => SeenInOrder
  BY ReceivedInOrder DEF QueuesInv
<1>3. Spec => [](EventTypes /\ ClockTypes /\ ClockInv)
  BY <1>1, ClockInvariant, SteppingTypes, PTL
<1>4. Spec => []QueuesInv
  BY <1>3, QueuesInit, QueuesStep, PTL DEF Spec
<1> QED BY <1>2, <1>3, <1>4, PTL
=============================================================================
