------------------------- MODULE SimulationControl --------------------------
(***************************************************************************)
(* Simulation.cpp: starting, stopping, restarting, pausing and stepping.    *)
(*                                                                         *)
(* Threads.  Callers are gRPC threads, each serving one call at a time;     *)
(* Runs are the asynchronous simulation loops (simLoop, the future          *)
(* mSimulator); Restarters are the asynchronous threads of RestartSimulation*)
(* (restartFcn, the future mRestarter).  One pass of the loop (the events   *)
(* of one time step, with their publication and pacing) is one step; it may *)
(* take any finite time.                                                    *)
(*                                                                         *)
(* Locks.  A shared_mutex lets readers in while a writer waits.  A lock is  *)
(* a set of labels, those at which it is held between two steps; critical   *)
(* sections that wait for nothing are one step.                             *)
(***************************************************************************)
EXTENDS Integers

CONSTANTS
  Callers, Runs, Restarters,
  None,
  Ops,            \* the calls each caller may make
  StartModes,     \* step requests a start may ask for: 0, 1 (pause), 2 (single stepping)
  Worlds,         \* the scenarios that may be uploaded
  InvalidWorlds,  \* those that Setup rejects with an exception
  Settings,       \* step sizes and maximal times that may be set
  EndsByItself,   \* may a run reach its end, by a stop event or an exception?
  MaxCalls        \* bound: how many calls each caller makes

Operations == {"start", "stop", "request", "restart", "step", "pause", "resume",
               "upload", "settings", "notify"}
Threads == Callers \cup Restarters

ASSUME ControlAssumption ==
  /\ Callers \cap Restarters = {}
  /\ None \notin Callers \cup Restarters \cup Runs \cup Worlds
  /\ Ops \in [Callers -> SUBSET Operations]
  /\ StartModes \subseteq 0 .. 2 /\ 0 \in StartModes
  /\ Worlds # {} /\ InvalidWorlds \subseteq Worlds /\ Settings # {}
  /\ EndsByItself \in BOOLEAN /\ MaxCalls \in [Callers -> Nat]

VARIABLES
  pc, op,           \* where each thread is, and in which call
  failed,           \* the result of StopSimulationRequested, in the callers of it
  waitsFor,         \* the old future that an assignment to a future destroys
  runPc,            \* where each simulation loop is
  simulator,        \* mSimulator
  restarter,        \* mRestarter
  requestToStop,    \* mRequestToStop
  numStepRequests,  \* mNumStepRequests
  isPaused, wasPaused,
  notified,         \* runs whose wait on mIsPausedCV was notified
  status,           \* mSimulationStatus
  world,            \* mWorld
  model,            \* the world mActorMap, mBehaviorMap and mScenario point into
  scenario,         \* is mScenario set?
  settings,         \* the time variables of mSimulationSettings
  stepSize,         \* mStepSize and mStopTime
  calls             \* counter for the bound

call    == <<pc, op, failed, waitsFor, calls>>
futures == <<simulator, restarter>>
pausing == <<numStepRequests, isPaused, wasPaused, notified>>
data    == <<world, model, scenario, settings, stepSize>>
vars == <<call, runPc, futures, requestToStop, pausing, status, data>>

-----------------------------------------------------------------------------
(* The locks.                                                               *)

At(t, labels) == pc[t] \in labels

ScenarioShared == {"reset", "status", "ispaused", "launch", "assign"}
SimulatorShared == {"cause", "flag", "unpause", "awaiting", "waiting"}

ScenarioFree      == \A t \in Threads : ~At(t, ScenarioShared)
SimulatorReadable == \A t \in Threads : ~At(t, {"assign"})
SimulatorFree     == SimulatorReadable /\ \A t \in Threads : ~At(t, SimulatorShared)
RestarterUnlocked == TRUE     \* a mutant: mRestarterMutex is not taken
RestarterFree     == \A t \in Threads : ~At(t, {"swap", "reassign"})
StatusFree == /\ \A t \in Threads : ~At(t, {"ispaused"})
              /\ \A r \in Runs : runPc[r] \notin {"stopPaused", "publishPaused"}
StopCauseFree == \A r \in Runs : runPc[r] \notin {"publish", "publishPaused"}

Active(r) == runPc[r] \notin {"none", "done"}
RunningByStatus == status # "stopped"     \* a mutant: the status is asked, not the future
IsRunning == simulator # None /\ Active(simulator)
RestartIsRunning == restarter # None /\ pc[restarter] # "done"

Init ==
  /\ pc = [t \in Threads |-> IF t \in Callers THEN "idle" ELSE "none"]
  /\ op = [t \in Threads |-> "start"]
  /\ failed = [t \in Threads |-> FALSE]
  /\ waitsFor = [t \in Threads |-> None]
  /\ runPc = [r \in Runs |-> "none"]
  /\ simulator = None /\ restarter = None
  /\ requestToStop = FALSE /\ numStepRequests = 0
  /\ isPaused = FALSE /\ wasPaused = FALSE /\ notified = {}
  /\ status = "stopped"
  /\ world \in Worlds \cup {None} /\ model = None /\ scenario = FALSE
  /\ settings \in Settings /\ stepSize = settings
  /\ calls = [t \in Callers |-> 0]

Finished(t) == IF t \in Callers THEN "idle" ELSE "done"
Goto(t, label) == pc' = [pc EXCEPT ![t] = label]
Return(t) == Goto(t, Finished(t))

(* Mutant: nobody is notified. *)
NotifyNobody == UNCHANGED notified

(* notify_one on mIsPausedCV, called with mSimStatusMutex held. *)
NotifyPaused ==
  LET waiting == {r \in Runs : runPc[r] = "paused"} \ notified
  IN IF waiting = {} THEN UNCHANGED notified
     ELSE \E r \in waiting : notified' = notified \cup {r}

-----------------------------------------------------------------------------
(* A call begins; most calls first look whether the simulation is running.  *)

FirstLabel(o) == CASE o \in {"stop", "request"} -> "stop"
                   [] o = "restart"             -> "restart"
                   [] o = "upload"              -> "upload"
                   [] OTHER                     -> "check"

Call(t, o) ==
  /\ pc[t] = "idle" /\ o \in Ops[t] /\ calls[t] < MaxCalls[t]
  /\ calls' = [calls EXCEPT ![t] = @ + 1]
  /\ op' = [op EXCEPT ![t] = o]
  /\ failed' = [failed EXCEPT ![t] = FALSE]
  /\ Goto(t, FirstLabel(o))
  /\ UNCHANGED <<waitsFor, runPc, futures, requestToStop, pausing, status, data>>

NeedsRun == {"step", "pause", "resume", "notify"}

CheckRunning(t) ==
  /\ pc[t] = "check" /\ SimulatorReadable
  /\ IF IsRunning = (op[t] \in NeedsRun)
     THEN Goto(t, IF op[t] = "start" THEN "setup" ELSE "act")
     ELSE Return(t)
  /\ UNCHANGED <<op, failed, waitsFor, calls, runPc, futures, requestToStop, pausing, status, data>>

-----------------------------------------------------------------------------
(* StartSimulation.  mScenarioMutex is shared from Setup to the return.     *)

Setup(t) ==
  /\ pc[t] = "setup"
  /\ IF world = None \/ world \in InvalidWorlds
     THEN Return(t) /\ UNCHANGED <<scenario, stepSize>>
     ELSE Goto(t, "reset") /\ scenario' = TRUE /\ stepSize' = settings
  /\ model' = IF world = None THEN model ELSE world
  /\ UNCHANGED <<op, failed, waitsFor, calls, runPc, futures, requestToStop, pausing, status,
                 world, settings>>

ResetRequests(t) ==
  /\ pc[t] = "reset"
  /\ requestToStop' = FALSE
  /\ \E n \in IF t \in Callers THEN StartModes ELSE {0} : numStepRequests' = n
  /\ Goto(t, "status")
  /\ UNCHANGED <<op, failed, waitsFor, calls, runPc, futures, isPaused, wasPaused, notified,
                 status, data>>

LockStatus(t) ==
  /\ pc[t] = "status" /\ StatusFree
  /\ Goto(t, "ispaused")
  /\ UNCHANGED <<op, failed, waitsFor, calls, runPc, futures, requestToStop, pausing, status, data>>

SetPaused(t) ==
  /\ pc[t] = "ispaused" /\ RestarterFree
  /\ isPaused' = IF RestartIsRunning THEN wasPaused ELSE FALSE
  /\ Goto(t, "launch")
  /\ UNCHANGED <<op, failed, waitsFor, calls, runPc, futures, requestToStop, numStepRequests,
                 wasPaused, notified, status, data>>

(* mSimulator = std::async(simLoop): the new loop is launched, then the     *)
(* assignment waits for the loop of the old future, if it is still running. *)
Launch(t) ==
  /\ pc[t] = "launch" /\ SimulatorFree
  /\ \E r \in Runs : /\ runPc[r] = "none"
                     /\ runPc' = [runPc EXCEPT ![r] = "begin"]
                     /\ simulator' = r
  /\ IF IsRunning THEN Goto(t, "assign") ELSE Return(t)
  /\ waitsFor' = [waitsFor EXCEPT ![t] = simulator]
  /\ UNCHANGED <<op, failed, calls, restarter, requestToStop, pausing, status, data>>

AssignSimulator(t) ==
  /\ pc[t] = "assign" /\ ~Active(waitsFor[t])
  /\ Return(t)
  /\ UNCHANGED <<op, failed, waitsFor, calls, runPc, futures, requestToStop, pausing, status, data>>

-----------------------------------------------------------------------------
(* StopSimulation, StopSimulationRequested.  mSimulatorMutex is shared by   *)
(* each of the two parts of StopSimulation.                                 *)

StopRequested(t) ==
  /\ pc[t] = "stop" /\ SimulatorReadable
  /\ failed' = [failed EXCEPT ![t] = ~IsRunning]
  /\ IF IsRunning THEN Goto(t, "cause")
     ELSE IF op[t] = "request" THEN Return(t) ELSE Goto(t, "await")
  /\ UNCHANGED <<op, waitsFor, calls, runPc, futures, requestToStop, pausing, status, data>>

RecordCause(t) ==
  /\ pc[t] = "cause" /\ StopCauseFree
  /\ Goto(t, "flag")
  /\ UNCHANGED <<op, failed, waitsFor, calls, runPc, futures, requestToStop, pausing, status, data>>

RequestStop(t) ==
  /\ pc[t] = "flag"
  /\ requestToStop' = TRUE
  /\ Goto(t, "unpause")
  /\ UNCHANGED <<op, failed, waitsFor, calls, runPc, futures, pausing, status, data>>

Unpause(t) ==
  /\ pc[t] = "unpause" /\ StatusFree
  /\ isPaused' = FALSE
  /\ IF isPaused THEN NotifyPaused ELSE UNCHANGED notified
  /\ IF op[t] = "request" THEN Return(t) ELSE Goto(t, "await")
  /\ UNCHANGED <<op, failed, waitsFor, calls, runPc, futures, requestToStop, numStepRequests,
                 wasPaused, status, data>>

AfterStop(t) == IF op[t] = "restart" /\ ~failed[t] THEN Goto(t, "relaunch") ELSE Return(t)

AwaitEnd(t) ==
  /\ pc[t] = "await" /\ SimulatorReadable
  /\ IF IsRunning THEN Goto(t, "awaiting") ELSE AfterStop(t)
  /\ UNCHANGED <<op, failed, waitsFor, calls, runPc, futures, requestToStop, pausing, status, data>>

EndSeen(t) ==
  /\ pc[t] = "awaiting" /\ ~IsRunning
  /\ AfterStop(t)
  /\ UNCHANGED <<op, failed, waitsFor, calls, runPc, futures, requestToStop, pausing, status, data>>

-----------------------------------------------------------------------------
(* RestartSimulation: after StopSimulation, a new thread waits for the end  *)
(* of the loop and starts the simulation again, unless a stop is requested. *)

CheckRestart(t) ==
  /\ pc[t] = "restart" /\ RestarterFree
  /\ IF RestartIsRunning THEN Return(t) ELSE Goto(t, "save")
  /\ UNCHANGED <<op, failed, waitsFor, calls, runPc, futures, requestToStop, pausing, status, data>>

SavePaused(t) ==
  /\ pc[t] = "save" /\ StatusFree
  /\ wasPaused' = isPaused
  /\ Goto(t, "stop")
  /\ UNCHANGED <<op, failed, waitsFor, calls, runPc, futures, requestToStop, numStepRequests,
                 isPaused, notified, status, data>>

LaunchRestart(t) ==
  /\ pc[t] = "relaunch" /\ RestarterFree
  /\ \E k \in Restarters :
       /\ pc[k] = "none"
       /\ pc' = [pc EXCEPT ![k] = "wait", ![t] = "swap"]
       /\ waitsFor' = [waitsFor EXCEPT ![t] = k]
  /\ UNCHANGED <<op, failed, calls, runPc, futures, requestToStop, pausing, status, data>>

(* The assignment to mRestarter stores the new future, whose thread is      *)
(* running already, and then waits for the thread of the old one.           *)
AssignRestarter(t) ==
  /\ \/ /\ pc[t] = "swap"
        /\ restarter' = waitsFor[t]
        /\ waitsFor' = [waitsFor EXCEPT ![t] = restarter]
        /\ IF RestartIsRunning THEN Goto(t, "reassign") ELSE Return(t)
     \/ /\ pc[t] = "reassign" /\ pc[waitsFor[t]] = "done"
        /\ Return(t)
        /\ UNCHANGED <<restarter, waitsFor>>
  /\ UNCHANGED <<op, failed, calls, runPc, simulator, requestToStop, pausing, status, data>>

RestartWait(k) ==
  /\ \/ pc[k] = "wait" /\ SimulatorReadable /\ Goto(k, "waiting")
     \/ pc[k] = "waiting" /\ ~IsRunning /\ Goto(k, "recheck")
  /\ UNCHANGED <<op, failed, waitsFor, calls, runPc, futures, requestToStop, pausing, status, data>>

RestartCheck(k) ==
  /\ pc[k] = "recheck"
  /\ IF requestToStop THEN Return(k) ELSE Goto(k, "check")
  /\ UNCHANGED <<op, failed, waitsFor, calls, runPc, futures, requestToStop, pausing, status, data>>

-----------------------------------------------------------------------------
(* StepSimulation, PauseOrResumeSimulation.                                 *)

Step(t) ==
  /\ pc[t] = "act" /\ op[t] = "step" /\ StatusFree
  /\ IF numStepRequests = 0 /\ ~isPaused
     THEN UNCHANGED <<numStepRequests, isPaused, notified>>
     ELSE numStepRequests' = numStepRequests + 1 /\ isPaused' = FALSE /\ NotifyPaused
  /\ Return(t)
  /\ UNCHANGED <<op, failed, waitsFor, calls, runPc, futures, requestToStop, wasPaused, status, data>>

Pause(t) ==
  /\ pc[t] = "act" /\ op[t] = "pause" /\ StatusFree
  /\ isPaused' = TRUE
  /\ Return(t)
  /\ UNCHANGED <<op, failed, waitsFor, calls, runPc, futures, requestToStop, numStepRequests,
                 wasPaused, notified, status, data>>

Resume(t) ==
  /\ pc[t] = "act" /\ op[t] = "resume" /\ StatusFree
  /\ numStepRequests' = 0
  /\ IF numStepRequests = 0 /\ isPaused
     THEN isPaused' = FALSE /\ NotifyPaused
     ELSE UNCHANGED <<isPaused, notified>>
  /\ Return(t)
  /\ UNCHANGED <<op, failed, waitsFor, calls, runPc, futures, requestToStop, wasPaused, status, data>>

(* Mutant: the scenario is replaced under a simulation that is starting. *)
UploadUnlocked(t) ==
  /\ pc[t] = "upload" /\ SimulatorReadable
  /\ IF IsRunning THEN UNCHANGED world ELSE world' \in Worlds
  /\ Return(t)
  /\ UNCHANGED <<op, failed, waitsFor, calls, runPc, futures, requestToStop, pausing, status,
                 model, scenario, settings, stepSize>>

(* UploadScenario checks for a running simulation under the unique lock;    *)
(* SetSimulationSettings has checked for it before it takes its own lock.   *)
Upload(t) ==
  /\ pc[t] = "upload" /\ ScenarioFree /\ SimulatorReadable
  /\ IF IsRunning THEN UNCHANGED world ELSE world' \in Worlds
  /\ Return(t)
  /\ UNCHANGED <<op, failed, waitsFor, calls, runPc, futures, requestToStop, pausing, status,
                 model, scenario, settings, stepSize>>

SetSettings(t) ==
  /\ pc[t] = "act" /\ op[t] = "settings"
  /\ settings' \in Settings
  /\ Return(t)
  /\ UNCHANGED <<op, failed, waitsFor, calls, runPc, futures, requestToStop, pausing, status,
                 world, model, scenario, stepSize>>

(* NotifyActionComplete calls through mScenario, a null pointer after       *)
(* Cleanup: the server crashes (the other threads are left to go on).       *)
NotifyAction(t) ==
  /\ pc[t] = "act" /\ op[t] = "notify"
  /\ IF scenario THEN Return(t) ELSE Goto(t, "crashed")
  /\ UNCHANGED <<op, failed, waitsFor, calls, runPc, futures, requestToStop, pausing, status, data>>

-----------------------------------------------------------------------------
(* simLoop.                                                                 *)

RunTo(r, label) == runPc' = [runPc EXCEPT ![r] = label]

LoopBegin(r) ==
  /\ runPc[r] = "begin" /\ StatusFree
  /\ status' = "running"
  /\ RunTo(r, "event")
  /\ UNCHANGED <<call, futures, requestToStop, pausing, data>>

(* ProcessEvent or ProcessPresentEvents.  The loop is left after a stop     *)
(* event or an exception, whose stop event PublishStopEvent has sent.       *)
LoopEvent(r) ==
  /\ runPc[r] = "event"
  /\ \/ scenario /\ RunTo(r, "check")
     \/ (EndsByItself \/ ~scenario) /\ RunTo(r, "cleanup")
     \/ ~scenario /\ RunTo(r, "crashed")
  /\ UNCHANGED <<call, futures, requestToStop, pausing, status, data>>

(* Mutant: the stop request is not reset when it is served. *)
CheckWithoutReset(r) ==
  /\ runPc[r] = "check"
  /\ RunTo(r, IF requestToStop THEN "stop" ELSE "count")
  /\ UNCHANGED <<call, futures, requestToStop, pausing, status, data>>

LoopCheck(r) ==
  /\ runPc[r] = "check"
  /\ requestToStop' = FALSE
  /\ RunTo(r, IF requestToStop THEN "stop" ELSE "count")
  /\ UNCHANGED <<call, futures, pausing, status, data>>

LockStopCause(r) ==
  /\ StopCauseFree
  /\ \/ runPc[r] = "stop" /\ RunTo(r, "publish")
     \/ runPc[r] = "stopPaused" /\ RunTo(r, "publishPaused")
  /\ UNCHANGED <<call, futures, requestToStop, pausing, status, data>>

PublishStop(r) ==
  /\ runPc[r] \in {"publish", "publishPaused"}
  /\ RunTo(r, IF scenario THEN "cleanup" ELSE "crashed")
  /\ UNCHANGED <<call, futures, requestToStop, pausing, status, data>>

(* Mutants: the counter is decreased at zero too; the loop pauses one step  *)
(* early.                                                                   *)
CountBelowZero(r) ==
  /\ runPc[r] = "count" /\ StatusFree
  /\ numStepRequests' = numStepRequests - 1
  /\ isPaused' = (isPaused \/ numStepRequests = 1)
  /\ IF isPaused' THEN status' = "paused" /\ RunTo(r, "paused")
     ELSE RunTo(r, "event") /\ UNCHANGED status
  /\ UNCHANGED <<call, futures, requestToStop, wasPaused, notified, data>>

PauseEarly(r) ==
  /\ runPc[r] = "count" /\ StatusFree
  /\ numStepRequests' = IF numStepRequests > 0 THEN numStepRequests - 1 ELSE 0
  /\ isPaused' = (isPaused \/ numStepRequests = 2)
  /\ IF isPaused' THEN status' = "paused" /\ RunTo(r, "paused")
     ELSE RunTo(r, "event") /\ UNCHANGED status
  /\ UNCHANGED <<call, futures, requestToStop, wasPaused, notified, data>>

LoopCount(r) ==
  /\ runPc[r] = "count" /\ StatusFree
  /\ numStepRequests' = IF numStepRequests > 0 THEN numStepRequests - 1 ELSE 0
  /\ isPaused' = (isPaused \/ numStepRequests = 1)
  /\ IF isPaused' THEN status' = "paused" /\ RunTo(r, "paused")
     ELSE RunTo(r, "event") /\ UNCHANGED status
  /\ UNCHANGED <<call, futures, requestToStop, wasPaused, notified, data>>

LoopWake(r) ==
  /\ runPc[r] = "paused" /\ r \in notified /\ StatusFree
  /\ notified' = notified \ {r}
  /\ \/ isPaused /\ UNCHANGED <<runPc, requestToStop, status>>
     \/ ~isPaused /\ requestToStop
        /\ requestToStop' = FALSE /\ RunTo(r, "stopPaused") /\ UNCHANGED status
     \/ ~isPaused /\ ~requestToStop
        /\ status' = "running" /\ RunTo(r, "event") /\ UNCHANGED requestToStop
  /\ UNCHANGED <<call, futures, numStepRequests, isPaused, wasPaused, data>>

LoopCleanup(r) ==
  /\ runPc[r] = "cleanup"
  /\ scenario' = FALSE
  /\ RunTo(r, "stopped")
  /\ UNCHANGED <<call, futures, requestToStop, pausing, status, world, model, settings, stepSize>>

(* The status is reported before the future is ready. *)
LoopStopped(r) ==
  /\ runPc[r] = "stopped" /\ StatusFree
  /\ status' = "stopped"
  /\ RunTo(r, "ending")
  /\ UNCHANGED <<call, futures, requestToStop, pausing, data>>

LoopEnd(r) ==
  /\ runPc[r] = "ending"
  /\ RunTo(r, "done")
  /\ UNCHANGED <<call, futures, requestToStop, pausing, status, data>>

-----------------------------------------------------------------------------
StartStep(t) ==
  CheckRunning(t) \/ Setup(t) \/ ResetRequests(t) \/ LockStatus(t) \/ SetPaused(t)
    \/ Launch(t) \/ AssignSimulator(t)

StopStep(t) ==
  StopRequested(t) \/ RecordCause(t) \/ RequestStop(t) \/ Unpause(t) \/ AwaitEnd(t) \/ EndSeen(t)

RestartStep(t) == CheckRestart(t) \/ SavePaused(t) \/ LaunchRestart(t) \/ AssignRestarter(t)

ActStep(t) ==
  Step(t) \/ Pause(t) \/ Resume(t) \/ Upload(t) \/ SetSettings(t) \/ NotifyAction(t)

CallerStep(t) == StartStep(t) \/ StopStep(t) \/ RestartStep(t) \/ ActStep(t)
RestarterStep(k) == RestartWait(k) \/ RestartCheck(k) \/ StartStep(k)

LoopStep(r) ==
  LoopBegin(r) \/ LoopEvent(r) \/ LoopCheck(r) \/ LockStopCause(r) \/ PublishStop(r)
    \/ LoopCount(r) \/ LoopWake(r) \/ LoopCleanup(r) \/ LoopStopped(r) \/ LoopEnd(r)

Next ==
  \/ \E t \in Callers : CallerStep(t) \/ \E o \in Operations : Call(t, o)
  \/ \E k \in Restarters : RestarterStep(k)
  \/ \E r \in Runs : LoopStep(r)

Spec == Init /\ [][Next]_vars

(* Threads keep running, locks are granted, events end and publications     *)
(* return (EventPublisher!RoundEnds).  Nobody has to make a call.           *)
Fairness ==
  /\ \A t \in Callers : WF_vars(CallerStep(t))
  /\ \A k \in Restarters : WF_vars(RestarterStep(k))
  /\ \A r \in Runs : WF_vars(LoopStep(r))

FairSpec == Spec /\ Fairness
-----------------------------------------------------------------------------
(* Properties.                                                              *)

CallerLabels == {"idle", "check", "setup", "act", "stop", "restart", "save", "relaunch", "upload",
                 "flag", "unpause", "await", "cause", "awaiting", "swap",
                 "reassign", "crashed"}
                \cup ScenarioShared
RestarterLabels == {"none", "wait", "waiting", "recheck", "check", "setup", "done"}
                   \cup ScenarioShared
LoopLabels == {"none", "begin", "event", "check", "stop", "publish", "count", "paused", "stopPaused",
               "publishPaused", "cleanup", "stopped", "ending", "done", "crashed"}

LabelsOK ==
  /\ pc \in [Threads -> CallerLabels \cup RestarterLabels]
  /\ \A t \in Callers : pc[t] \in CallerLabels
  /\ \A k \in Restarters : pc[k] \in RestarterLabels
  /\ op \in [Threads -> Operations] /\ \A k \in Restarters : op[k] = "start"

DataOK ==
  /\ failed \in [Threads -> BOOLEAN]
  /\ waitsFor \in [Threads -> Runs \cup Restarters \cup {None}]
  /\ runPc \in [Runs -> LoopLabels]
  /\ simulator \in Runs \cup {None} /\ restarter \in Restarters \cup {None}
  /\ requestToStop \in BOOLEAN /\ numStepRequests \in Nat
  /\ isPaused \in BOOLEAN /\ wasPaused \in BOOLEAN /\ notified \subseteq Runs
  /\ status \in {"stopped", "running", "paused"}
  /\ world \in Worlds \cup {None} /\ model \in Worlds \cup {None}
  /\ scenario \in BOOLEAN
  /\ settings \in Settings /\ stepSize \in Settings
  /\ calls \in [Callers -> Nat]

TypeOK == LabelsOK /\ DataOK

(* The actor map, the behaviour map and the scenario executor of a run      *)
(* point into the uploaded world, which is never replaced under a running   *)
(* simulation: UploadScenario and StartSimulation check for a running one   *)
(* at different moments, and only mScenarioMutex keeps them apart.          *)
WorldStable == (\E r \in Runs : Active(r)) => model = world

(* A loop that may leave its pause was notified: neither StepSimulation,    *)
(* nor a resume, nor a stop is slept through.                               *)
NoLostResume == \A r \in Runs : runPc[r] = "paused" /\ ~isPaused => r \in notified

(* Unless it was told to pause, the loop never waits while step requests    *)
(* are outstanding, however StepSimulation calls and steps overlap.         *)
NoStepWithheld ==
  \A r \in Runs : runPc[r] = "paused" /\ numStepRequests > 0 => r \in notified

(* There is never more than one simulation loop: Simulation.cpp:498, early  *)
(* return if simulation has already started.                                *)
OneRun == \A r, s \in Runs : Active(r) /\ Active(s) => r = s

(* A restarted simulation is paused if and only if the old one was, however *)
(* early the restarting thread runs: it cannot look at mRestarter before    *)
(* its own future has been assigned to it.                                  *)
RestartKeepsPause ==
  [][\A k \in Restarters : pc[k] = "ispaused" /\ pc'[k] = "launch" => isPaused' = wasPaused]_vars

(* StopSimulation wakes a paused loop and returns when it has ended         *)
(* (Simulation.cpp:695, wait until the engine loop is finished).            *)
StopReturns == \A t \in Callers : pc[t] = "flag" ~> pc[t] = "idle"

(* A stop request ends the loop that runs, whatever steps are requested     *)
(* meanwhile.  It is missed in one way only: the loop has paused itself     *)
(* again by its step counter, and a later call resumes it.                  *)
StopEndsLoop == \A r \in Runs : Active(r) /\ requestToStop ~> ~Active(r) \/ isPaused

(* A restart that was accepted starts the simulation again, unless a stop   *)
(* is called for meanwhile (Simulation.cpp:670, run a future to restart     *)
(* simulation).                                                             *)
StopCalled == \E t \in Callers : pc[t] = "stop" /\ op[t] \in {"stop", "request"}
RestartHappens == \A k \in Restarters : pc[k] = "wait" ~> IsRunning \/ StopCalled

(* Every accepted step request is taken, unless the simulation ends.        *)
StepsTaken == numStepRequests > 0 ~> numStepRequests = 0 \/ ~IsRunning

=============================================================================
