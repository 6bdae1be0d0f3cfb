------------------------- MODULE SimulationStepping -------------------------
(***************************************************************************)
(* What the simulation thread does between the start and the end of a run  *)
(* (Simulation.cpp, EventCalendar.h): it takes events from a calendar,     *)
(* publishes each one, hands it to the scenario executor, commits what     *)
(* clients have sent meanwhile and renews the event.  Clients call at any  *)
(* moment: they send user-defined events, set the state of actors, and add *)
(* actors.                                                                 *)
(*                                                                         *)
(* Times are whole numbers of a unit that is no coarser than the           *)
(* calendar's tolerance.  The barrier that holds up a publication until    *)
(* the subscribers are ready is EventPublisher's subject; here, clients    *)
(* that poll during a publication do so before the thread goes on.  A call *)
(* acts in one step, under its lock, except for AddRuntimeActor, which     *)
(* publishes an event between its two halves.                              *)
(***************************************************************************)
EXTENDS Integers, Sequences

CONSTANTS
  Actors, World,  \* the actors of the scenario, and the world they are in
  Parent,         \* the parent of each actor
  Callers,        \* threads that answer AddRuntimeActor
  Names,          \* names of user-defined events that the scenario declares
  StepSize, Tolerance,
  StopTimes,      \* maximal simulation times that a run may be given
  MaxRuns, MaxCalls  \* bounds: of runs, and of events and updates together

ASSUME SteppingAssumption ==
  /\ Tolerance \in Nat /\ StepSize \in Nat /\ StepSize > 2 * Tolerance
  /\ StopTimes \subseteq Nat
  /\ World \notin Actors /\ Parent \in [Actors -> Actors \cup {World}]

VARIABLES
  pc,           \* what the simulation thread does next
  run,          \* runs started so far
  timeNow, calendar,    \* EventCalendar::TimeNow, Events
  evt,          \* the event in hand
  numSteps,     \* mNumSteps
  (* user-defined events, by their name *)
  defined,      \* whether mCustomEventDefinitionMap is filled
  unCommittedEvents, fromSupervisor, fromActors,
  lastSender,   \* mLastSender, one for all names
  (* actors *)
  rtActors, unCommittedActors, worldCoords,
  creating,     \* the actor that the scenario is creating
  call,         \* what each caller is adding
  (* what the properties look back at *)
  done,         \* step, update and post-step events processed in this run
  stopTime,     \* mStopTime
  commits,      \* batches of events of a name in the order of their commits
  seen,         \* batches of each name that each poller has received
  latest,       \* the last update that was accepted for each actor
  clashed,      \* actors for which SetRuntimeActors has been refused since then
  sent, updates \* counts, for the bounds

clock == <<timeNow, calendar, evt, numSteps, done, stopTime>>
events == <<defined, unCommittedEvents, fromSupervisor, fromActors, lastSender,
            commits, seen, sent>>
actors == <<rtActors, unCommittedActors, worldCoords, latest, clashed, updates>>
vars == <<pc, run, clock, events, actors, creating, call>>

-----------------------------------------------------------------------------
(* The calendar *)

Types == {"start", "step", "update", "post", "stop"}
Priority == [start |-> 0, step |-> 1000, update |-> 1500, post |-> 2000,
             stop |-> 2147483647]
At(t, type, steps) == [time |-> t, type |-> type, steps |-> steps]

\* TimedEvent::operator<
\* Mutant: times are compared without a tolerance.
Before_Exact(e, f) ==
  \/ e.time < f.time
  \/ e.time = f.time /\ Priority[e.type] < Priority[f.type]
Before(e, f) ==
  \/ e.time < f.time - Tolerance
  \/ /\ e.time <= f.time + Tolerance
     /\ Priority[e.type] < Priority[f.type]

\* *Events.begin()
IsFirst(e, cal) == e \in cal /\ \A f \in cal \ {e} : Before(e, f)

HasPresentEvent(cal, t) == \E e \in cal : IsFirst(e, cal) /\ e.time <= t + Tolerance

-----------------------------------------------------------------------------
(* User-defined events: mCustomEventMap has a pair of queues for each name. *)

NoEvents == [n \in Names |-> {}]
NoBatches == [n \in Names |-> <<>>]

\* A queue as batches: what one commit has put there, unless that is nothing.
Batch(queue) == IF queue = {} THEN <<>> ELSE <<queue>>

\* What ReceiveEvents returns of name n: its two queues, the one committed last at
\* the end.  A request for several names is answered name by name: what the answer
\* holds of one name precedes all that it holds of the next.
\* Mutant: always the same order.
ReceiveEvents_Fixed(n) == Batch(fromSupervisor[n]) \o Batch(fromActors[n])
ReceiveEvents(n) ==
  IF lastSender = "supervisor" THEN Batch(fromActors[n]) \o Batch(fromSupervisor[n])
  ELSE Batch(fromSupervisor[n]) \o Batch(fromActors[n])

\* A poller asks for all names.
Poll(p) == seen' = [seen EXCEPT ![p] = [n \in Names |-> @[n] \o ReceiveEvents(n)]]

\* CommitEventUpdates: what was sent since the last commit replaces the queues of
\* the kind of sender, whoever sent it, under every name.
CommitEventUpdates(sender) ==
  /\ lastSender' = sender
  /\ fromSupervisor' = IF sender = "supervisor" THEN unCommittedEvents ELSE fromSupervisor
  /\ fromActors' = IF sender = "actors" THEN unCommittedEvents ELSE fromActors
  /\ unCommittedEvents' = NoEvents
  /\ commits' = [n \in Names |->
       IF unCommittedEvents[n] = {} THEN commits[n]
       ELSE Append(commits[n], [batch |-> unCommittedEvents[n], at |-> evt.type])]
  /\ UNCHANGED <<defined, seen, sent>>

-----------------------------------------------------------------------------
(* Actors *)

\* AddDescendants, with the actor itself: the least family that is closed under children.
\* Mutant: the parent is added, not the children.
WithDescendants_Up(a) == {a, Parent[a]}
WithDescendants(a) ==
  LET Closed(family) == a \in family /\ \A b \in Actors : Parent[b] \in family => b \in family
  IN {b \in Actors : \A family \in SUBSET Actors : Closed(family) => b \in family}

\* AddRuntimeActors: the insertion into the map keeps what is there.
\* Mutant: it replaces what is there.
AddRuntimeActors_Replace(rt, a) ==
  [b \in DOMAIN rt \cup WithDescendants(a) |->
     IF b \in WithDescendants(a) THEN [pose |-> 0, local |-> 0] ELSE rt[b]]
AddRuntimeActors(rt, a) ==
  [b \in DOMAIN rt \cup WithDescendants(a) |->
     IF b \in DOMAIN rt THEN rt[b] ELSE [pose |-> 0, local |-> 0]]

\* UpdateActors: of the two poses of an actor the one that its last call has not
\* set follows the other.  Only children of the world are treated; the code for
\* deeper levels is commented out.
Derived(a, state) ==
  IF Parent[a] # World THEN state
  ELSE IF a \in worldCoords THEN [state EXCEPT !.local = state.pose]
  ELSE [state EXCEPT !.pose = state.local]

\* CommitActorUpdates, on the map rt.
CommitActorUpdates(rt) ==
  /\ rtActors' = [a \in DOMAIN rt |->
       IF a \in DOMAIN unCommittedActors THEN Derived(a, unCommittedActors[a]) ELSE rt[a]]
  /\ unCommittedActors' = <<>>
  /\ worldCoords' = {}
  /\ UNCHANGED <<latest, clashed, updates>>

-----------------------------------------------------------------------------
NoEvent == At(0, "none", 0)
Pollers == {"step", "post", "executor"}
NotDone == [step |-> 0, update |-> 0, post |-> 0]

Init ==
  /\ pc = "idle" /\ run = 0
  /\ timeNow = 0 /\ calendar = {} /\ evt = NoEvent /\ numSteps = 0
  /\ defined = FALSE /\ unCommittedEvents = NoEvents /\ fromSupervisor = NoEvents
  /\ fromActors = NoEvents /\ lastSender = "supervisor"
  /\ rtActors = <<>> /\ unCommittedActors = <<>> /\ worldCoords = {}
  /\ creating = World /\ call = [c \in Callers |-> World]
  /\ done = NotDone /\ stopTime = 0 /\ commits = NoBatches
  /\ seen = [p \in Pollers |-> NoBatches]
  /\ latest = [a \in Actors |-> 0] /\ clashed = {} /\ sent = 0 /\ updates = 0

IsSimulationRunning == pc # "idle"

-----------------------------------------------------------------------------
(* The simulation thread *)

\* Setup, and the launch of the loop.
StartSimulation ==
  /\ pc = "idle" /\ run < MaxRuns
  /\ pc' = "pop" /\ run' = run + 1
  /\ stopTime' \in StopTimes
  /\ calendar' = {At(0, type, 0) : type \in {"start", "step", "update", "post"}}
                 \cup {At(stopTime', "stop", 0)}
  /\ done' = NotDone
  /\ defined' = TRUE /\ fromSupervisor' = NoEvents /\ fromActors' = NoEvents
  /\ commits' = NoBatches /\ seen' = [p \in Pollers |-> NoBatches]
  /\ UNCHANGED <<timeNow, evt, numSteps, unCommittedEvents, lastSender, sent>>
  /\ UNCHANGED <<actors, creating, call>>

\* ProcessEvent: PopNextEvent.  A stop event is given the number of steps.
PopNextEvent ==
  /\ pc = "pop"
  /\ \E e \in calendar :
       /\ IsFirst(e, calendar)
       /\ calendar' = calendar \ {e}
       /\ evt' = IF e.type = "stop" THEN [e EXCEPT !.steps = numSteps] ELSE e
  /\ pc' = "publish"
  /\ UNCHANGED <<run, timeNow, numSteps, done, stopTime, events, actors, creating, call>>

\* PublishEvent: the clients that poll at this event do so now.
Publish ==
  /\ pc = "publish"
  /\ IF evt.type \in {"step", "post"} THEN Poll(evt.type) ELSE UNCHANGED seen
  /\ pc' = IF evt.type \in {"start", "update"} THEN "execute" ELSE "commit"
  /\ UNCHANGED <<run, clock, defined, unCommittedEvents, fromSupervisor, fromActors,
                 lastSender, commits, sent, actors, creating, call>>

\* The scenario executor (PhaseDiagramExecutor) starts on an event.
ExecuteScenario ==
  /\ pc = "execute"
  /\ Poll("executor")
  /\ pc' = "scenario"
  /\ UNCHANGED <<run, clock, defined, unCommittedEvents, fromSupervisor, fromActors,
                 lastSender, commits, sent, actors, creating, call>>

\* InitializeActor, when the mode of creation does not agree with the actor.
RefuseActor(a, mode) ==
  /\ pc = "scenario"
  /\ \/ mode = "create" /\ a \in DOMAIN rtActors
     \/ mode = "no_create" /\ a \notin DOMAIN rtActors
  /\ pc' = "abort"
  /\ UNCHANGED <<run, clock, events, actors, creating, call>>

\* InitializeActor, up to the publication of the event.
\* Mutant: no early return for an actor that exists.
InitializeActor_Anew(a, mode) ==
  /\ pc = "scenario" /\ mode # "no_create" /\ Parent[a] = World
  /\ creating' = a /\ pc' = "create"
  /\ UNCHANGED <<run, clock, events, actors, call>>
InitializeActor(a, mode) ==
  /\ pc = "scenario" /\ mode # "no_create"
  /\ a \notin DOMAIN rtActors /\ Parent[a] = World
  /\ creating' = a /\ pc' = "create"
  /\ UNCHANGED <<run, clock, events, actors, call>>

CreateActor ==
  /\ pc = "create"
  /\ CommitActorUpdates(AddRuntimeActors(rtActors, creating))
  /\ creating' = World /\ pc' = "scenario"
  /\ UNCHANGED <<run, clock, events, call>>

\* The scenario ends by an exception, or is done with the event.
EndScenario == /\ pc = "scenario" /\ pc' = "abort"
               /\ UNCHANGED <<run, clock, events, actors, creating, call>>
ScenarioDone == /\ pc = "scenario" /\ pc' = "commit"
                /\ UNCHANGED <<run, clock, events, actors, creating, call>>

\* The rest of ProcessEvent, by the kind of the event.
Continue(cal) == IF HasPresentEvent(cal, timeNow) THEN "pop" ELSE "advance"
Counted(type) == done' = [done EXCEPT ![type] = @ + 1]

CommitStart ==
  /\ pc = "commit" /\ evt.type = "start"
  /\ CommitEventUpdates("supervisor")
  /\ pc' = "check"
  /\ UNCHANGED <<run, clock, actors, creating, call>>

CommitStep ==
  /\ pc = "commit" /\ evt.type = "step"
  /\ CommitActorUpdates(rtActors)
  /\ CommitEventUpdates("actors")
  /\ numSteps' = evt.steps
  /\ calendar' = calendar \cup {At(StepSize * (evt.steps + 1), "step", evt.steps + 1)}
  /\ Counted("step")
  /\ pc' = Continue(calendar')
  /\ UNCHANGED <<run, timeNow, evt, stopTime, creating, call>>

\* Mutant: the event is renewed for the step at hand.
CommitUpdate_Again ==
  /\ pc = "commit" /\ evt.type = "update"
  /\ CommitEventUpdates("supervisor")
  /\ calendar' = calendar \cup {At(StepSize * numSteps, "update", 0)}
  /\ Counted("update")
  /\ pc' = Continue(calendar')
  /\ UNCHANGED <<run, timeNow, evt, numSteps, stopTime, actors, creating, call>>
CommitUpdate ==
  /\ pc = "commit" /\ evt.type = "update"
  /\ CommitEventUpdates("supervisor")
  /\ calendar' = calendar \cup {At(StepSize * (numSteps + 1), "update", 0)}
  /\ Counted("update")
  /\ pc' = Continue(calendar')
  /\ UNCHANGED <<run, timeNow, evt, numSteps, stopTime, actors, creating, call>>

CommitPostStep ==
  /\ pc = "commit" /\ evt.type = "post"
  /\ calendar' = calendar \cup {At(StepSize * (numSteps + 1), "post", 0)}
  /\ Counted("post")
  /\ pc' = Continue(calendar')
  /\ UNCHANGED <<run, timeNow, evt, numSteps, stopTime, events, actors, creating, call>>

\* A stop event ends the loop.
CommitStop ==
  /\ pc = "commit" /\ evt.type = "stop"
  /\ pc' = "cleanup"
  /\ UNCHANGED <<run, clock, events, actors, creating, call>>

AdvanceTime ==
  /\ pc = "advance"
  /\ \E e \in calendar : IsFirst(e, calendar) /\ timeNow' = e.time
  /\ pc' = "check"
  /\ UNCHANGED <<run, calendar, evt, numSteps, done, stopTime, events, actors,
                 creating, call>>

\* Between two times the loop looks at the requests (SimulationControl).
GoOn == /\ pc = "check" /\ pc' = "pop"
        /\ UNCHANGED <<run, clock, events, actors, creating, call>>
StopRequested == /\ pc = "check" /\ pc' = "abort"
                 /\ UNCHANGED <<run, clock, events, actors, creating, call>>

\* PublishStopEvent, after a request or an exception.
PublishStopEvent ==
  /\ pc = "abort" /\ pc' = "cleanup"
  /\ evt' = At(numSteps * StepSize, "stop", numSteps)
  /\ UNCHANGED <<run, timeNow, calendar, numSteps, done, stopTime, events, actors,
                 creating, call>>

\* Cleanup: three critical sections.
CleanupModel ==
  /\ pc = "cleanup" /\ pc' = "cleanup_actors"
  /\ numSteps' = 0 /\ calendar' = {} /\ timeNow' = 0
  /\ evt' = NoEvent
  /\ UNCHANGED <<run, done, stopTime, events, actors, creating, call>>
CleanupActors ==
  /\ pc = "cleanup_actors" /\ pc' = "cleanup_events"
  /\ rtActors' = <<>> /\ unCommittedActors' = <<>> /\ worldCoords' = {}
  /\ latest' = [a \in Actors |-> 0] /\ clashed' = {}
  /\ UNCHANGED <<run, clock, events, updates, creating, call>>
CleanupEvents ==
  /\ pc = "cleanup_events" /\ pc' = "idle"
  /\ defined' = FALSE /\ unCommittedEvents' = NoEvents /\ lastSender' = "supervisor"
  /\ fromSupervisor' = NoEvents /\ fromActors' = NoEvents
  /\ UNCHANGED <<run, clock, commits, seen, sent, actors, creating, call>>

Modes == {"automatic", "create", "no_create"}

SimulationThread ==
  \/ PopNextEvent \/ Publish \/ ExecuteScenario
  \/ \E a \in Actors, mode \in Modes : RefuseActor(a, mode) \/ InitializeActor(a, mode)
  \/ CreateActor \/ EndScenario \/ ScenarioDone
  \/ CommitStart \/ CommitStep \/ CommitUpdate \/ CommitPostStep \/ CommitStop
  \/ AdvanceTime \/ GoOn \/ StopRequested \/ PublishStopEvent
  \/ CleanupModel \/ CleanupActors \/ CleanupEvents

-----------------------------------------------------------------------------
(* Calls of clients *)

\* SendEvents, for an event with a valid definition of name n.
SendEvents(n) ==
  /\ IsSimulationRunning /\ defined /\ sent + updates < MaxCalls
  /\ sent' = sent + 1
  /\ unCommittedEvents' = [unCommittedEvents EXCEPT ![n] = @ \cup {sent + 1}]
  /\ UNCHANGED <<defined, fromSupervisor, fromActors, lastSender, commits, seen>>
  /\ UNCHANGED <<pc, run, clock, actors, creating, call>>

Uncommitted(a, state) ==
  unCommittedActors' = [b \in DOMAIN unCommittedActors \cup {a} |->
                          IF b = a THEN state ELSE unCommittedActors[b]]
Accepted(a) ==
  /\ sent + updates < MaxCalls /\ updates' = updates + 1
  /\ latest' = [latest EXCEPT ![a] = updates + 1]
  /\ clashed' = clashed \ {a}

\* The first update of an actor within a step is stored, any other refused.
SetRuntimeActors(a) ==
  /\ IsSimulationRunning /\ a \in DOMAIN rtActors \ DOMAIN unCommittedActors
  /\ Accepted(a)
  /\ Uncommitted(a, [pose |-> updates + 1, local |-> updates + 1])
  /\ worldCoords' = worldCoords \cup {a}
  /\ UNCHANGED <<pc, run, clock, events, rtActors, creating, call>>

\* A refused call enters the actor into mWorldCoordSet all the same.
RefuseRuntimeActors(a) ==
  /\ IsSimulationRunning /\ a \in DOMAIN rtActors \cap DOMAIN unCommittedActors
  /\ worldCoords' = worldCoords \cup {a}
  /\ clashed' = clashed \cup {a}
  /\ UNCHANGED <<pc, run, clock, events, rtActors, unCommittedActors, latest,
                 updates, creating, call>>

\* SetActorPoses and SetVehiclePoses: UpdateActorPose in one of two frames.
UpdateActorPose(a, frame) ==
  /\ IsSimulationRunning /\ a \in DOMAIN rtActors \ DOMAIN unCommittedActors
  /\ Accepted(a)
  /\ Uncommitted(a, IF frame = "world" THEN [rtActors[a] EXCEPT !.pose = updates + 1]
                    ELSE [rtActors[a] EXCEPT !.local = updates + 1])
  /\ worldCoords' = IF frame = "world" THEN worldCoords \cup {a} ELSE worldCoords
  /\ UNCHANGED <<pc, run, clock, events, rtActors, creating, call>>

\* AddRuntimeActor: an actor that exists, or that comes with its parent, is left
\* alone; else the event is published, with no lock held.
BeginAddActor(c, a) ==
  /\ IsSimulationRunning /\ call[c] = World
  /\ a \notin DOMAIN rtActors /\ Parent[a] = World
  /\ call' = [call EXCEPT ![c] = a]
  /\ UNCHANGED <<pc, run, clock, events, actors, creating>>

EndAddActor(c) ==
  /\ call[c] # World
  /\ CommitActorUpdates(AddRuntimeActors(rtActors, call[c]))
  /\ call' = [call EXCEPT ![c] = World]
  /\ UNCHANGED <<pc, run, clock, events, creating>>

Client ==
  \/ \E n \in Names : SendEvents(n)
  \/ \E a \in Actors :
       \/ SetRuntimeActors(a) \/ RefuseRuntimeActors(a)
       \/ \E frame \in {"world", "parent"} : UpdateActorPose(a, frame)
       \/ \E c \in Callers : BeginAddActor(c, a)
  \/ \E c \in Callers : EndAddActor(c)

Next == StartSimulation \/ SimulationThread \/ Client

Spec == Init /\ [][Next]_vars

\* The simulation thread goes on while it can.
FairSpec == Spec /\ WF_vars(SimulationThread)

-----------------------------------------------------------------------------
(* Properties *)

Labels == {"idle", "pop", "publish", "execute", "scenario", "create", "commit",
           "advance", "check", "abort", "cleanup", "cleanup_actors", "cleanup_events"}
Entries == [time : Nat, type : Types \cup {"none"}, steps : Nat]
States == [pose : Nat, local : Nat]

TypeOK ==
  /\ pc \in Labels /\ run \in Nat /\ stopTime \in Nat
  /\ timeNow \in Nat /\ numSteps \in Nat
  /\ calendar \subseteq Entries /\ evt \in Entries
  /\ defined \in BOOLEAN /\ lastSender \in {"supervisor", "actors"}
  /\ sent \in Nat /\ updates \in Nat
  /\ {unCommittedEvents, fromSupervisor, fromActors} \subseteq [Names -> SUBSET Nat]
  /\ commits \in [Names -> Seq([batch : SUBSET Nat, at : Types \cup {"none"}])]
  /\ seen \in [Pollers -> [Names -> Seq(SUBSET Nat)]]
  /\ DOMAIN rtActors \subseteq Actors /\ rtActors \in [DOMAIN rtActors -> States]
  /\ unCommittedActors \in [DOMAIN unCommittedActors -> States]
  /\ worldCoords \subseteq Actors /\ clashed \subseteq Actors
  /\ creating \in Actors \cup {World}
  /\ call \in [Callers -> Actors \cup {World}]
  /\ latest \in [Actors -> Nat]
  /\ done \in [{"step", "update", "post"} -> Nat]

Processing == pc \in {"publish", "execute", "scenario", "create", "commit"}

\* A run that reaches its stop time has taken exactly the steps that are due by
\* then, up to the tolerance, each with its update and post-step event, and the
\* stop event reports the last of them (EventCalendar orders by time first, with
\* a tolerance, then by priority).
StopsOnTime ==
  Processing /\ evt.type = "stop" =>
    /\ done.step = done.update /\ done.update = done.post
    /\ (done.step - 1) * StepSize <= stopTime + Tolerance
    /\ done.step * StepSize > stopTime + Tolerance
    /\ evt.steps = done.step - 1

\* Every step is followed by one update and one post-step event before the next
\* step, at the time of the step (events of one type are renewed by themselves,
\* each from the number of steps at the moment).
StepCycle ==
  /\ done.post <= done.update /\ done.update <= done.step
  /\ done.step <= done.post + 1
  /\ Processing /\ evt.type \in {"update", "post"} =>
       timeNow = StepSize * numSteps /\ done.step = numSteps + 1

\* Batches of a name that a poller may expect: what was sent before the start
\* event is handled is dropped before the first post-step event.
Promised(p, n) ==
  IF p = "post" /\ commits[n] # <<>> /\ commits[n][1].at = "start" THEN Tail(commits[n])
  ELSE commits[n]

\* A client that polls at every step event or at every post-step event, and the
\* scenario executor, receive every user-defined event once, those of one name in
\* the order of their commits, although each of the two queues of a name drops its
\* batch at every second commit and one flag tells the order for all names.  (No
\* order holds between events of two names: the answer goes name by name.)
SeenInOrder ==
  \A p \in Pollers, n \in Names :
    /\ Len(seen[p][n]) <= Len(Promised(p, n))
    /\ \A k \in DOMAIN seen[p][n] : seen[p][n][k] = Promised(p, n)[k].batch

Arrives(a) ==
  /\ latest[a] \in {rtActors[a].pose, rtActors[a].local}
  /\ Parent[a] = World => rtActors[a].pose = rtActors[a].local

\* An update of an actor that was accepted is in the world as soon as it is no
\* longer pending, in both frames, whatever calls add actors at the same time;
\* and what is pending belongs to an actor that exists (CommitActorUpdates
\* dereferences what it finds).  Actors for which a second update by
\* SetRuntimeActors was refused are excepted.
AcceptedUpdatesArrive ==
  /\ DOMAIN unCommittedActors \subseteq DOMAIN rtActors
  /\ \A a \in DOMAIN rtActors \ (DOMAIN unCommittedActors \cup clashed) : Arrives(a)

\* The same without the exception: a call that was refused with an error ("has
\* been updated more than once within one step") changes nothing.
RefusedCallsHaveNoEffect ==
  \A a \in DOMAIN rtActors \ DOMAIN unCommittedActors : Arrives(a)

\* A run ends, at its stop time at the latest, and cleans up.
RunsEnd == IsSimulationRunning ~> pc = "idle"
=============================================================================
