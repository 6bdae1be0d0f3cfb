# A verification project for the scenario simulation server

The program (`src/scenario_server`) is a gRPC server that runs one scenario
simulation at a time and keeps a set of clients in lock step with it.  This
directory holds TLA+ modules of its concurrent core, TLC configurations that
check them on small instances, and proofs checked by TLAPS.  Line numbers refer
to files under `src/scenario_server` unless a path is given.

## 1. The system

Threads: one asynchronous **simulation thread** per run (`simLoop` in
`StartSimulation`, Simulation.cpp:515), one asynchronous **restarting thread**
per accepted restart (`restartFcn`, 671), one **gRPC thread** per call in
progress (a `SubscribeEvents` call lasts as long as the subscription), and the
thread that destroys the server.

| Component | State | Operations | Interacts with | What makes it correct |
|---|---|---|---|---|
| Event publisher (`EventPublisher`) | map of clients with their streams and profiles; negotiated timeouts; sets of unready and of silent clients; two mutexes, a condition variable | register, add, remove, cancel all; broadcast; publish and wait; ready, busy | called by the simulation thread, gRPC threads and the destructor; writes to streams owned by gRPC threads | no acknowledgment skipped, no lost wake-up, only silent clients timed out, no write to a dead stream, every round ends |
| Simulation server (`SimulationServer`) | ownership of all parts, `mCanceled`, logging flag | every RPC; destruction | delegates to publisher, simulation, loggers | destruction ends every call |
| Simulation control (`Simulation`, first half) | two futures, stop flag, stop cause, step counter, pause flags, status, uploaded world, settings; six locks, a condition variable | start, stop, request to stop, restart, step, pause, resume, upload, settings | runs the loop; publishes events; calendar, scenario executor | one loop at a time, a stable world, no lost pause, resume, step or stop, restarts that happen |
| Event calendar and stepping (`EventCalendar`, `ProcessEvent`) | ordered set of timed events, current time, number of steps | schedule, pop, advance; renew step, update and post-step events | used by the simulation thread | every step has its three events in order, the run stops at its stop time and comes to it |
| Custom events (`CustomEventDefinition`, `SendEvents`, `CommitEventUpdates`, `ReceiveEvents`) | uncommitted events, two queues per name, the last sender | send, commit, receive | clients, simulation thread, phase executor | each batch of a name is seen once by every receiver, in order |
| Runtime actors | actor map, uncommitted updates, the actors that were updated in world coordinates | create, add, set states and poses, commit, clean up | clients, simulation thread, publisher | an accepted update arrives, a refused one has no effect |
| Phase diagram executor, phases, actions | phase tree with states, phases to dispatch and in process, action status | update, dispatch, complete, preempt | calendar events, clients, conditions | no two actions in conflict, clients hear of every end, super steps end in a fixed point |
| Conditions | the last answer of each condition, what it sampled | apply, check, enforce, list dependencies | phases, actors, parameters, custom events | durations are exact, the reported answers agree |
| RaceTrack | the sorted order of the children of each parallel phase | sort | phases, conditions | an actor is created before it is needed, cycles are reported |
| Loggers (`MessageLogger`) | three logs, bounded, with index queues and counters | add, cull, query | every RPC, publisher | indices follow the log, queries are exact |
| Pacer, `~Simulation` | wake-up flag | sleep, break; wait for both futures | stop, restart | a stop is not delayed for long, destruction ends |
| Configuration, parameters, conversions, client wrappers | none of interest | lookups and conversions, remote calls | | |

What is hard: the publisher is a barrier over clients that may answer late,
twice, never, be busy, leave, or come back under the same id, with a timeout
racing all of it and a second mutex around the map; simulation control decides
on flags that are checked and changed in different critical sections by callers,
the loop and the restarting thread.  `PROJECT.json` lists each such place.

## 2. Plan

Order of work, most important first.  The modules in bold exist.

1. **EventPublisher**, with the abstract **StepBarrier** it implements, and the
   proofs **EventPublisherProofs**, of the refinement too.
2. **SimulationControl** with **SimulationControlProofs**.
3. **SimulationStepping** with **SimulationSteppingProofs**: the calendar, custom
   events and runtime actors.  They are one module, because each is committed by
   events of the calendar.
4. **PhaseDiagram** on **RaceTrack** on **Conditions**: the scenario logic, with
   **ConditionsProofs**, **PhaseDiagramProofs**, **PhaseTreeProofs** and
   **PhaseUpdateProofs**.
5. **LogIndex** and **MessageLog**: the three logs, with **MessageLogProofs** of both.
6. Left: the pacer and `~Simulation` in SimulationControl (its proofs have to
   follow).

The modules are composed by EXTENDS where the code calls (phases call race
track and conditions, logs call the index functions) and kept apart where the
code has threads and locks of its own: each of EventPublisher, SimulationControl,
SimulationStepping, PhaseDiagram and MessageLog has the others' effects as
nondeterministic steps (a publication, a stop request, an exception, a commit).

## 3. The modules

### EventPublisher

Each thread has a label in `pc`; a step is a critical section, or the part of
one up to the point where it waits for another lock.

| Model | Code |
|---|---|
| `registered`, `stream`, `synchronous`, `proposed` | `IdToSubscribers` and the entries' `mContext`/`mWriter` (one variable: both are set and dropped together), `mProfile` |
| `maxProposed`, `timeoutValue` | `mMaxProposedTimeOut`, one entry of `mTimeoutValues` (the lookup finds it or not) |
| `unready`, `noHeartBeat` | `UnreadySynchronousClients`, `NoHeartBeatSynchronousClients` |
| `woken`, `notifying` | the state of the condition variable; a call between its unlock and its `notify_one` (EventPublisher.cpp:225-230) |
| `owed`, `heard`, `pending` | history, read by properties only (`owed` also decides when an honest client calls `SetReady`) |
| `StartPublish` .. `EndExpiry` | `SynchronousPublishAndWait` line by line; `WakeReady`, `SleepAgain` and `TimeOut` are the outcomes of `wait_for` |
| `CheckRegistered` .. `EraseEntry` | the three parts of `RemoveSubscriberInternal`, run by a publisher, a handler or the destructor |
| `CancelStream`, `LeaveServingLoop` | the polling loop of `SubscribeEvents` |
| `BeginShutdown`, `CancelNext`, `CancelDone` | `~SimulationServer` and `CancelSubscribers` |

`ClientsReadyMutex` is `ReadyFree`; `ClientAddRemoveMutex` is recursive and is
`AddRemoveFree`.  Events that need no `SetReady` only write to streams and are
left out.  A `wait_for` may return at any time (its deadline is not measured),
which includes spurious wake-ups.

### StepBarrier

What the callers of `SynchronousPublishAndWait` rely on, without threads, locks
or the map: a round asks a set of clients, ends only when nobody is awaited, and
drops after a timeout only clients that stayed silent for a whole wait, during
which no answer sneaks in.  `EventPublisher` instantiates it with the refinement
mapping `BarrierPhase`, `ClientStatus`.

### SimulationControl

| Model | Code |
|---|---|
| `simulator`, `restarter`, `waitsFor` | the futures; assigning to a future destroys the old one, which blocks until its thread has ended |
| `requestToStop`, `numStepRequests`, `isPaused`, `wasPaused`, `status` | the members of the same names |
| `notified` | the state of `mIsPausedCV` |
| `world`, `model`, `scenario` | `mWorld`; the world that the maps built by `Setup` point into; whether `mScenario` is set |
| `settings`, `stepSize` | the settings and the copy that `Setup` takes |
| `ScenarioFree` .. `StopCauseFree` | the locks, each as the set of labels at which it is held |

A caller's call begins with `Call`; `CheckRunning` is the look at the future
that most calls begin with, as its own step, because it is its own critical
section.  Everything up to the next lock or wait is one step.  One pass of the
loop over the events of a time step is the step `LoopEvent`, which may take any
finite time.  `UploadMap` has the locking of `UploadScenario`.

### SimulationStepping

The simulation thread between `Setup` and the end of `Cleanup`; clients call at
any moment, each call one step under its lock, except for `AddRuntimeActor`, which
publishes an event between its halves.  Times are whole multiples of a unit no
coarser than the calendar's tolerance.

| Model | Code |
|---|---|
| `calendar`, `timeNow`, `Before`, `IsFirst`, `HasPresentEvent` | `Events`, `TimeNow`, `TimedEvent::operator<`, `PopNextEvent`, `HasPresentEvent` |
| `pc` | where the thread is in `ProcessEvent`: pop, publish, execute the scenario, commit, then the next event, the next time, or the end |
| `unCommittedEvents`, `fromSupervisor`, `fromActors`, `lastSender`, `CommitEventUpdates`, `ReceiveEvents`, `Poll` | the custom events by name, the two queues of each name, the one last sender for all of them; the commit that drops the older batch of one queue of every name; the answer for one name, and that of a poller that asks for all |
| `CommitStart` .. `CommitStop` | the branches of `ProcessEvent` (843-910), each with the renewal of its event |
| `rtActors`, `unCommittedActors`, `worldCoords`, `CommitActorUpdates`, `Derived` | `RtActors`, `UnCommittedRtActors`, `mWorldCoordSet`, `UpdateActors` with the poses in the frame of the world and of the parent |
| `InitializeActor`, `CreateActor`, `BeginAddActor`, `EndAddActor` | the two ways an actor comes into being |
| `commits`, `seen`, `latest`, `clashed`, `done` | history, read by properties only |

### Conditions, RaceTrack, PhaseDiagram

`Conditions` has one operator per class of condition and one each for applying,
checking, enforcing and explaining; a world record stands for what a check reads
from the simulation.  Doubles are whole numbers, compared with the code's tolerance
(`Tolerance`), and a simulation step takes `StepSize` units, more than the tolerance.
The custom events of a step are a sequence, as a check takes them in order up to the
first that satisfies it or throws; a parameter belongs to an actor or to its behavior,
and that of a Simulink agent must be text.  A condition on a parameter registers no
dependency (`DependencyOf`), as in the code.  `RaceTrack` is `RaceTrack::Sort`: the racers, the
dependencies on them, and for a parallel phase the orders of its children that
respect them (any of them: the graph library's choice).  Both are recursive
functions, without state.

`PhaseDiagram` is `PhaseDiagramExecutor::ProcessEvent` with all of `Phase` and
`Action`.  The recursion of `Phase::Update` is a sequence `todo` of tasks, so that
a client's thread may act between any two of them.

| Model | Code |
|---|---|
| `mState`, `mPosition`, `mExecOrder`, `mIsInitPending`, `mChildrenDone`, `mEventStatus`, `mHasPhaseStateTransition`, `mPhasesToDispatch`, `mPhasesInProcess` | the members of the same names |
| `mCondition`, `sample` | `mState` of a condition; the time or the speed that it sampled when it was applied |
| `OnStart`, `KeepWaiting`, `OnRun`, `OnEnd`, `UpdateEnded` | `Phase::Update` by the state of the phase |
| `OrderChildren`, `UpdateMix`, `UpdateSerial`, `UpdateActionPhase`, `Join`, `SkipFirstUpdate`, `KeepRunning` | `DoRunUpdate` of each kind of phase |
| `DetectConflict`, `Preempted`, `Completed` | `DetectAndResolveConflict`, `Action::Preempt`, `Action::Complete` |
| `RepeatUpdate`, `BeginDispatch` .. `EndDispatch` | the super-step loop and the dispatch after it, with the moments between publication, list and status |
| `ReportComplete`, `WriteDone`, `PublishDone` | `NotifyActionComplete` of a client: the read of the status (Action.cpp:76), its write (83) and the publication (84) are three steps, whatever the simulation thread does in between; a write may be overtaken by one of the simulation thread that also read the status before |
| `Owed`, `PublishEnd` | the publications that `Preempt` and `Complete` in the simulation thread owe after their writes (Action.cpp:64, 84), each a step of its own before the thread goes on; what is published is read from the status once more and may be the other thread's |
| `Explained`, `CanSummarize` | the summary of the scenario, of which only the exception is kept |

### LogIndex, MessageLog

`LogIndex` is the arithmetic of the indices: culling, the search for an interval
of times, positions from numbers with the casts between `int` and `size_t`.
`MessageLog` is the three logs.  A thread reads the time and takes the lock later
(`BeginCall`, then `AddMessage`), so entries may be out of order; a report is
indexed and stored in two steps, because no lock is held.

## 4. What the runs check

| Run | Shows | Bounds |
|---|---|---|
| `publisher_safety` | types; `NoLostWakeup`, `TimeoutsTrackSubscribers`, `BarrierHonoured`, `OnlyAwaitedClientsExpire`, `OnlySilentClientsExpire`, `ImplementsBarrier` | two clients, two handlers, two synchronous events, one effective `SetBusy`; two proposals below and above the configured timeout; ids not reused |
| `publisher_liveness` | `StreamsOpen`, `RoundEnds`, `ShutdownCompletes` | each id registers up to twice; one event, no `SetBusy`: a client that is busy for ever keeps a round open by design |
| `publisher_two_publishers` | violation, section 6 | two publishers |
| `control_steps` | types; `WorldStable`, `NoLostResume`, `OneRun`, `NoStepWithheld`, `StepsTaken`, `StopEndsLoop` | one caller starts (paused, stepping or running) and steps; one stops, resumes, steps, uploads (a valid and an invalid world), sets; three calls each, two runs; no pause call, since a pause may withhold steps by design |
| `control_restart` | `RestartHappens`, `RestartKeepsPause` | one start; restart, stop, pause and resume, two calls each; runs do not end by themselves |
| `control_stop_lost` | violation, section 6 | |
| `message_log` | types; `IndicesFollowLog`, `CallQueriesAreExact`, `StateQueriesAreExact`, `ReportQueriesAreExact` | two threads and a reporter, two clients, services and types, one actor, no limit or a limit of two, times 0..2, three entries in all |
| `stepping` | types; `StopsOnTime`, `StepCycle`, `SeenInOrder`, `AcceptedUpdatesArrive`, `RunsEnd` | a car and its trailer; step 4, tolerance 1, stop times 0, 2, 3, 5 (on a step, between two, within the tolerance before and after one); one run; events of two names and updates of both actors, three in all |
| `stepping_lost_pose` | violation, section 6 | |
| `phases` | types; `TreeConsistent`, `NoConflictInForce`, `EndedPhasesAreClosed`, `ClientsHearOfEnds`, `StableAfterUpdate`, `ActorsExistWhenNeeded`, `ReportsAgree`, `DurationsAreExact`, `EventsEnd` | eight scenarios (`MCPhaseDiagram`), three steps of 4 units, tolerance 1, durations on a step (4), before one (3, 7) and within the tolerance after one (5, which the code ends at 4); clients report the actions that a scenario names (`reported`): those that conflict, preempt or end, one or two each |
| `phases_early_end` | violation, section 6 | one scenario, for a car that exists |
| `phases_late_completion` | violation, section 6 | `CutIn` |

Why the bounds are enough.  Publisher: one client has to leave while another one
is awaited, and a stale handler has to meet a new registration; what one round
leaves behind meets the next.  Control: the counter passes zero in both directions,
and a second run meets what the first one left.  Log: three entries and a limit of
two make a log drop an entry and go on, and two times out of order need two threads.
Stepping: two batches of a name in each other's queue, while another name has one or
none, are what a commit may confuse; the
stop times are the four positions relative to a step.  Phases: each scenario is
built for a mechanism — dependencies between cars (`Follow`, `LateLead`, and the
cycle of `Circle`), three conflicting actions in nested parallel and serial phases
(`CutIn`), failure and collision (`Crash`), events, parameters and operations
(`Signals`), an end condition on an actor of the same phase (`Until`), a condition on
a parameter of a car that a parallel phase creates (`Compare`) — and three
steps let a duration pass and a late event come.

Symmetry is used in runs without liveness only.  Deadlock is not checked: the
bounds on events, registrations, calls and steps make every instance stop.  Some
properties hold in the instance that the run names and fail in a larger one, and
the restriction is part of the statement: `OneRun` with one caller that starts,
`RestartHappens` for runs that do not end by themselves, `OnlyAwaitedClientsExpire`
and `BarrierHonoured` for ids that are not reused, `StateQueriesAreExact` and the
other queries for logs that are sorted by time, `AcceptedUpdatesArrive` for actors
without a refused update.

**Fairness.** Weak fairness of every server thread: its steps are enabled when
locks it waits for are free, and threads hold locks for a finite time; a timed
wait returns at its deadline.  Nothing is assumed of clients or callers: no
fairness of `Register`, `AddSubscriber`, `SetClientReady`, `SetClientBusy`,
`CancelStream`, `StartPublish`, `BeginShutdown`, `Call`, nor of `Client` in
SimulationStepping, of `BeginUpdate` or a client's report in PhaseDiagram (that a
report which has begun is completed is).  That `LoopEvent` in SimulationControl
ends, and a publication in SimulationStepping, rests on `RoundEnds`; that a
pass of the simulation thread over a scenario ends, on `EventsEnd`.

## 5. What is proved

All theorems are about `Spec` for every value of the constants that meets the
named assumption of the module (`ConstantsAssumption`, `ControlAssumption`,
`SteppingAssumption`, `LogAssumption`, `DiagramAssumption`); those about LogIndex are
about its operators.

**`EventPublisherProofs`, any number of publishers, ids reused or not.**

* `TypeCorrect`.
* `WritersStayOpen` (`StreamsOpen`).  Strengthened by: a client outside the map
  has no stream (`MembersInv`).
* `TimeoutsAreCurrent` (`TimeoutsTrackSubscribers`), from lemmas that
  characterise `Largest`: adding a proposal needs no look at the others, removing
  one does.
* `HeardClientsSurvive` (`OnlySilentClientsExpire`): the silent set and the set
  of clients heard since the wait began stay disjoint.

**`EventPublisherProofs`, one publisher** (`RpcPublishers = {}`; finding 1 below
is what a second one does).

* `WakeupNotLost` (`NoLostWakeup`), inductive given the types.
* `BarrierIsHonoured` (`BarrierHonoured`), also for ids used once
  (`MaxJoins = 1`): with reused ids a slow handler may remove its successor.
  The publisher decides on `unready` alone, so the invariant `BarrierInv` says
  that every pending client is unready; that is preserved because nobody is
  removing a pending client, because the handler of a registered client is the
  only one that ever served it, and because the destructor removes clients only
  after the simulation thread has ended.
* `AwaitedClientsExpire` (`OnlyAwaitedClientsExpire`), under the same
  assumptions.  `ExpiryInv`: an awaited or silent client is a subscriber until
  its entry is erased; it is silent without being awaited only while its own
  handler removes it; a client that is being expired has left the silent set,
  which is empty outside of a wait and its expiry.

**`EventPublisherProofs`, the refinement, one publisher.** `BarrierRefinement`
(`ImplementsBarrier`): initial states map to initial states and every action to
a step of the barrier or a stutter, from an invariant that relates the set of
silent clients to the label of the publisher.

**`SimulationControlProofs`, any number of callers, runs and racing restarts.**

* `ControlTypes`.
* `WorldIsStable` (`WorldStable`).  The invariant: whoever is between `Setup` and
  the end of `StartSimulation` holds `mScenarioMutex` shared and has set the model
  to the current world, and an active loop is either the current future, which
  an upload sees, or belongs to a thread that holds the lock.
* `RestartInheritsPause` (`RestartKeepsPause`).  The invariant: a restarting
  thread that runs is the one in `mRestarter`, unless its caller is still
  exchanging the futures under a lock that the thread needs before it looks.

**`SimulationControlProofs`, one caller starts and nobody restarts**
(`SingleStarter`; section 6 lists what happens otherwise; the other callers
make any other calls).

* `OneRunAtATime` (`OneRun`).  The invariant: while the starter is past its check
  no loop is active, and every active loop is the current future.
* `ResumeNotLost` (`NoLostResume`): since there is one loop, a single
  notification cannot reach the wrong one.
* `StepsAreNotWithheld` (`NoStepWithheld`), when also nobody calls pause.  The
  invariant: the pause flag is set only when the counter is zero, except between
  two runs, where a start may overtake the pause of the old loop.

**`SimulationSteppingProofs`, any actors, callers, runs and stop times, a step
size above twice the tolerance.**

* `SteppingTypes`.
* `UpdatesArrive` (`AcceptedUpdatesArrive`).  `UpdatesInv`: whatever is pending
  belongs to an actor that exists, and carries the latest accepted pose in the frame
  in which it was given, which `worldCoords` tells.
* `StepsInCycles` (`StepCycle`) and `StopsAtStopTime` (`StopsOnTime`).  `ClockInv`
  says what the calendar holds: of each kind of event exactly one, at the time that
  the number of such events done so far determines (`Due`), except for the one
  in hand; and that the thread is either between two steps or within one, where
  the post-step is at most one event behind.  That the order of the calendar then
  picks the right event rests on the step size being above twice the
  tolerance: two events of different steps are never taken for simultaneous.
* `EventsSeenInOrder` (`SeenInOrder`), for any names.  `QueuesInv`: of each name, what
  was committed is what a poller has received followed by what lies in the two queues
  of the name for it, where the part of the cycle (`Updating`, `Closing`) tells which
  queue is older.  Hence no commit drops a batch that a poller has still to receive.
  Nothing is claimed across names: an answer goes name by name
  (Simulation.cpp:1784-1797), so a newer event of one name precedes an older one of the
  next.

**`MessageLogProofs`, every index.**  `BisectFinds`: the bisection, a recursive
function on ranges of places, returns the first place at which a predicate fails,
if it holds up to some place.  No induction rule is used, since the library's take
an operator as a parameter; instead, that the recursion has a solution is shown by
giving it (the unique splitting place of each range), and the solution is right
because a range of minimal length for which it were wrong would lead to a
shorter one.  `TimeQueriesAreExact`: hence a query by time of a sorted index that
follows its log is exact, also with bounds outside of the log and after drops.

**`MessageLogProofs`, any threads, clients, limits and numbers of entries.**

* `LogTypes`.
* `IndicesAlwaysFollow` (`IndicesFollowLog`), inductive given the types.  An
  addition is split into what is kept of the log and what is appended
  (`AddMessageByParts`); dropping from the log and culling an index commute
  (`ListsShrink`, `IndexShrinks`), as do appending to both.
* `CallQueriesAlwaysExact`, `StateQueriesAlwaysExact`: from `IndicesFollowLog` and
  from `WorldFollows` (the same for the time index of the world log, which an
  update that joins the last state leaves as it is) by `TimeQueriesAreExact`.
* `ReportQueriesAlwaysExact`, for one reporting thread (`Reporters = {d}`).
  `DiagFollows`: the indices by client and type are ahead of the log from
  `BeginReport` on, the time index from `IndexReport` on, by the very report that
  the thread is about to store.  With two reporters two reports get one number.

**`ConditionsProofs`, all conditions that are nested like a data model** (`AreTrees`:
each operand belongs to one composite condition, none is nested in itself).

* `AnswersFacts`.  A check is a recursive function; that the recursion has a
  solution is proved (`RecursionExists`) for any step that depends on what is below
  alone, by taking a lowest condition above which the solution could not be extended.
* `ChecksAgree`.  What a check evaluates is what can be reached by `OperandsAsked`
  (`RecursionReaches`).  Of a composite condition, a check of conditions that are no
  operands evaluates the condition and its operands up to the deciding one, or
  neither it nor any operand, since nothing else holds them; hence new states agree with
  new ones and old with old, and an operand behind the deciding one does not matter.
* `SameAnswers`.  A check answers the same whatever phases have completed meanwhile, if
  no leaf below its condition asks for a completion (a lowest condition that answered
  differently would have an operand that does).

**`PhaseDiagramProofs`, every scenario** that is a tree of phases with each action in
one of them (`DiagramAssumption`: the data model nests phases in phases,
`CreatePhase` refuses unknown kinds of phases, `RegisterPhase` ids used twice).

* `EndedPhasesStayClosed` (`EndedPhasesAreClosed`), `ConflictsAreResolved`
  (`NoConflictInForce`) and `ClientsAlwaysHearOfEnds` (`ClientsHearOfEnds`), all from
  `DiagramInvariant`.  None of the three is inductive: that a new phase preempts what
  conflicts with it rests on a dispatched action being in a *listed* phase
  (`ListedRun`, `Closed`), since only those are searched; that clients hear of an end
  if and only if they were told to begin rests on what is published but not yet
  dispatched belonging to the one phase that the thread is sending (`ToldToStart`,
  `Sent`); and a client's report may find its action interrupted, but never skipped
  (`Reported`).  Since statuses are written and published in separate steps of two
  threads, `ToldOfEnd` says that the status of an ended action has been published, or is
  owed by the thread that wrote it; and `NewsBounded` counts what has been published and
  what each thread may still publish, so that no end is told more than twice.  A step that ends phases is treated once, as `EndsAll` of any set of
  phases, so that nothing depends on which phases end.

**`PhaseTreeProofs`, every scenario, nested to any depth.**  `TreeStaysConsistent`
(`TreeConsistent`).  The tree alone is not inductive: whether a phase may start, or be
passed by its parent, depends on the nested calls of `Phase::Update` that the thread
is in.  `TreeInv` therefore also says of `todo` that whoever called for a task still
runs and, if serial, is at that child (`Called`), and that what is done after a task
concerns nothing below its phase (`Follows`): so a phase that ends takes no pending call
with it, and a phase is updated only once in a pass.  The latter needs the execution
orders to be injective (`IsOrder`).  That `OnEnd` ends exactly the phases that can be
reached (`EndingFacts`) is a fact about a recursive function on the tree; it is proved
(`RecursionReaches` of ConditionsProofs) by giving the solution of the recursion and looking at a lowest
phase at which another one would differ.

**`PhaseUpdateProofs`, every scenario** whose phases and actions have conditions that
are no operands of others, each created for one phase or action (`ConditionAssumption`),
and whose actors are known.

* `ReportsStayInAgreement` (`ReportsAgree`): every step leaves the states alone or
  changes them by checks none of which threw, and `ChecksAgree` applies to each.
* `TypesHold` (`TypeOK`), from the invariants of PhaseDiagramProofs (statuses, lists,
  reports), PhaseTreeProofs (the tree, positions) and of the reports.
* `UpdatesLeaveNothing` (`StableAfterUpdate`).  The last pass over the tree checks each
  phase at another moment; that all answers still hold at its end has three reasons.
  What is checked stays the same: while `mHasPhaseStateTransition` is FALSE no
  phase has changed its state and no condition was applied, and what does change, the
  clients' completion of actions, is excepted (`SameAnswers` of ConditionsProofs).  Every
  phase is come to: `Frontier` gives a set (`Visited`) of phases that the pass has come
  to or has called for, closed under what their updates go on to, in which each that has
  no task waiting in `todo` is `Settled`; when `todo` is empty the set holds all
  phases that are live (`LivePhases`, the solution of the recursion of `Live`).  And none
  of them is held back by its initial actions: while `mIsInitPending` is set, a
  running phase has its update still to come, and a transition has happened
  (`PendingUpdates`), so that another pass follows.
* `DurationsEndExactly` (`DurationsAreExact`), for durations longer than the tolerance
  (`PositiveDurations`) and any step size above it.  A duration less the tolerance is
  the least time to wait (`LeastTime`).  A phase cannot end too early, since what its condition has
  sampled is the step on which the phase began to run (`SampleInv`): `OnRun` applies the
  condition, and as no other phase or action has it, nothing applies it again.  Nor too
  late: up to the last step no phase that is live has run for its least time, and between
  events none has up to now (`OnTime`).  `UpdatesLeaveNothing` gives the strict bound at the
  end of every update event, the next event adds one step, and a phase that begins to
  run has its whole least time before it.  The bound covers every phase that can end by
  itself, since only live phases are updated (`CalledLive`), and a phase that has begun
  to run and is live has been live ever since (`LiveBefore`): what a phase that begins to
  run goes on to has not begun yet (`OperationsIdle`, and the tree for its children).
  A duration that is no longer than the tolerance has to be excepted: a phase with initial actions that the
  start event runs, which updates the root only once, is held back by them and ends one
  step late.

Only model-checked: the liveness properties `RoundEnds`, `ShutdownCompletes`,
`RestartHappens`, `StepsTaken`, `StopEndsLoop`, `RunsEnd` and `EventsEnd` (liveness
under fairness and `ENABLED` are outside what the prover handles), and of PhaseDiagram
`ActorsExistWhenNeeded`.
`ActorsExistWhenNeeded` is about the scenarios of the run: a phase that is told to
create an actor which exists fails in any scenario.  No module declares a RECURSIVE
operator.

## 6. Where the code departs from what it says

Each has a run whose counterexample shows it.

1. `publisher_two_publishers`: `AddRuntimeActor` publishes synchronously from a
   gRPC thread; the assertion of EventPublisher.cpp:144 fails while the simulation
   thread waits (line 229: only one thread ever waits).
2. `control_stop_lost`: a stop between the loop's look at the flag (577) and its
   pause by the step counter (584-593) waits for a loop that sleeps.
3. `stepping_lost_pose`: a `SetRuntimeActors` that is refused ("has been updated
   more than once within one step", Simulation.cpp:1160) still records the actor
   in `mWorldCoordSet` (1164); the commit (1332-1338) then overwrites a pose that was
   accepted before in the frame of the parent.
4. `phases_early_end`: the super step clears the flag that keeps a phase from
   ending before its initial actions are dispatched (Phase.cpp:204-206).
5. `phases_late_completion`: an action that the simulation thread interrupts after a
   client's report has read its status becomes done (Action.cpp:83; lines 70 and 90: "Do
   nothing if the action is already in one of the completed states").  Both ends are
   published, in either order, so that the last news need not be the final status.

The models also contain the following, for which no run is kept.

*Publisher.* The lock cycle between `CancelSubscribers` and a gRPC publisher; a
null `mContext` for an id registered again; a client removed between its unready
flag (EventPublisher.cpp:285) and its entry (300-310) is awaited by a publication
that begins in between, against EventPublisher.h:41-42; a subscriber that joins
between lines 155 and 159 gets the event but is not awaited; a publication that
uses a timeout looked up before a longer proposal.

*Control.* Two overlapping starts both pass the check of Simulation.cpp:499 and
launch two loops (let both callers start, check `OneRun`); if the run ends by
itself during the stop of a restart, the stop flag stays set and the restart is
abandoned at 676 after it reported success (`EndsByItself = TRUE` in
`control_restart`), as it is if an invalid world is uploaded meanwhile; the
deadlock of two overlapping restarts (684 against 632); a stop that waits for the
next run if a start comes between; settings changed while a start is under way;
`NotifyActionComplete` with a null `mScenario` while a run cleans up; a resume in
single-stepping mode that leaves a paused loop paused (775-777).

*Stepping.* An actor added after the run has ended (1077-1086 after 432-440) makes
the next run refuse to create it (963-966; `MaxRuns = 2`); a client that polls at
post-step events never sees what was sent before the start event's commit; the
commit of a gRPC `AddRuntimeActor` also commits the pending updates of other
actors in the middle of a step; during the publication of a step event the
time is already that of the step and the number of steps is not.

*Phases and conditions.* A condition on a parameter does not register its actor
(Condition.h:537-546 does not override `AddDependency`, of which line 44 says that it
names "all the actors that this condition depends on"), so that a phase that waits for
it may be updated before the phase that creates the actor, and the scenario fails
(scenario `Compare`; `ActorsExistWhenNeeded` without `ParameterLacksActor`).  An end condition of a composite phase on an actor that
one of its own children creates ends the scenario with "Unexpected error" from
`FindSiblingAncestors` (scenario `Until`; Phase.h:79-80 says that neither the own
actor nor end triggers are considered, Phase.cpp:256-270 considers them); of
several phases that may create an actor, the one that is visited first counts as
its racer, even if another one runs before it or it must not create; a
completion that is reported between the publication and the list of phases in
process is ignored; operations of an ended phase are not ended; a condition on
a custom event holds if a parameter it names is missing; a "greater than" for
doubles accepts equality within the tolerance, in a parameter's comparison
though not in an actor's speed.

*Logs.* The index of an actor added to a state that exists is one too high
(MessageLogger.cpp:542 after 493), against MessageLogger.h:210.  A client filter that matches nothing together with a time interval
returns everything in the interval; a time query with one bound returns nothing
from the communication log; a query of the world log outside its times returns all
of it; a buffer that "can be expanded but not contracted" is contracted; logs are
not sorted across runs or racing threads, which the searches need; a query by
actor reads out of bounds (585-587), since the culling works on a copy of the
actor's index (642-657); a query of diagnostics between the index and the log of
a report (705, 707) reads past the end.

## 7. What is not modelled

* The pacer and `~Simulation` (left in the plan).  The pacer sleeps with a timeout
  in the middle of a pass of the loop; `LoopEvent` takes any finite time instead, so
  what it shows of a stop holds although `ApplyPacing` may lose the wake-up of a
  stop (Simulation.cpp:1855 after 726) and sleep until its deadline.
* `AllocateActorSimulator` (whose use counts are never decreased, against
  EventPublisher.h:82-83), replay mode, contents of events and streams, the stop cause.
* Durations of wall-clock time: timeouts may fire at any moment after the wait
  began.
* In EventPublisher: the name of a timed-out client is looked up without
  `ClientAddRemoveMutex` (EventPublisher.cpp:177-178), and an erase between `find` and
  `operator[]` makes the latter insert a null entry; `ExpireClient` leaves the lookup out,
  so no property speaks of it.
* In SimulationStepping: the order within a batch of events of a name and the comparison
  behind it (Simulation.h:379), polls for some of the names only, attributes and definitions of events; states other
  than two poses; a poll in the middle of a commit (each is under its lock).  Data
  races are not modelled as torn values (`RtActors` is written at 997 without its
  lock); `AdvanceTime` is one step.
* In PhaseDiagram: the world actor, the initial speed along a path, the position
  action (its `CheckStatus` throws "Not implemented yet"), texts of the summary,
  the status queries of clients, which read phases without a lock.  The statuses that
  one task of the simulation thread changes are read and written in one step, their
  publications come after it, in any order; each of a client's read, write and
  publication is a step, and one client reports at a time (`mActionCompletedMutex`).
  Positions are on a line and collide when equal, tolerances are whole numbers.
  The longitudinal, lane and lateral-offset conditions answer what the code
  answers while its map service is commented out.  A condition belongs to
  one phase.
* In MessageLog: published events, whose logging is commented out
  (EventPublisher.cpp:505-511), `ClearMessages`, which nothing calls (the
  connections are commented out, 450, 685), the origin of the world, conversions of times, the
  torn reads of `mCachedSimTime`.  A report that asks for a stop
  (SimulationServer.cpp:445-458) is a stop in SimulationControl.
* Conversions, client-side wrappers (`src/scenario/ScenarioGrpcClient.cpp`,
  `src/roadrunner`) and configuration lookups keep no state that these properties
  depend on.
