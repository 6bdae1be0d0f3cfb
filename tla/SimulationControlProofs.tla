---------------------- MODULE SimulationControlProofs ----------------------
(***************************************************************************)
(* Theorems about SimulationControl.                                        *)
(***************************************************************************)
EXTENDS SimulationControl, TLAPS

(* The types, in two halves: where the threads are, and everything else.    *)

MayGoto(t, l) == /\ t \in Callers => l \in CallerLabels
                 /\ t \in Restarters => l \in RestarterLabels

LEMMA GotoLabel ==
  ASSUME LabelsOK, NEW t \in Threads, NEW l, MayGoto(t, l), Goto(t, l), UNCHANGED op
  PROVE  LabelsOK'
<1>1. l \in CallerLabels \cup RestarterLabels
  BY DEF MayGoto, Threads
<1>2. pc' \in [Threads -> CallerLabels \cup RestarterLabels]
  BY <1>1 DEF Goto, LabelsOK
<1>3. pc'[t] = l /\ \A s \in Threads \ {t} : pc'[s] = pc[s]
  BY DEF Goto, LabelsOK
<1>4. \A s \in Callers : pc'[s] \in CallerLabels
  BY <1>3 DEF LabelsOK, MayGoto, Threads
<1>5. \A s \in Restarters : pc'[s] \in RestarterLabels
  BY <1>3 DEF LabelsOK, MayGoto, Threads
<1> QED BY <1>2, <1>4, <1>5 DEF LabelsOK

LEMMA LabelsStep == LabelsOK /\ [Next]_vars => LabelsOK'
<1> SUFFICES ASSUME LabelsOK, [Next]_vars PROVE LabelsOK'
  OBVIOUS
<1>1. ASSUME NEW t \in Threads, NEW l, MayGoto(t, l), Goto(t, l), UNCHANGED op PROVE LabelsOK'
  BY <1>1, GotoLabel
<1> USE ControlAssumption DEF LabelsOK, Threads, call, MayGoto
<1>2. \A t \in Threads : MayGoto(t, Finished(t))
  BY DEF Finished, CallerLabels, RestarterLabels
<1>3. ASSUME NEW t \in Callers, NEW o \in Operations, Call(t, o) PROVE LabelsOK'
  <2>1. FirstLabel(o) \in CallerLabels
    BY DEF FirstLabel, CallerLabels
  <2> QED BY <1>3, <2>1 DEF Call, Goto
<1>4. ASSUME NEW t \in Threads, StartStep(t) PROVE LabelsOK'
  <2>1. op[t] = "start" \/ t \in Callers
    OBVIOUS
  <2>2. \/ \E l \in {"setup", Finished(t)} \cup ScenarioShared : Goto(t, l)
        \/ t \in Callers /\ Goto(t, "act")
    BY <1>4, <2>1 DEF StartStep, CheckRunning, Setup, ResetRequests, LockStatus, SetPaused, Launch,
                AssignSimulator, Return, ScenarioShared
  <2>3. UNCHANGED op
    BY <1>4 DEF StartStep, CheckRunning, Setup, ResetRequests, LockStatus, SetPaused, Launch,
                AssignSimulator
  <2>4. \A l \in {"setup"} \cup ScenarioShared : MayGoto(t, l)
    BY DEF CallerLabels, RestarterLabels
  <2>5. t \in Callers => MayGoto(t, "act")
    BY DEF CallerLabels
  <2> QED BY <1>1, <1>2, <2>2, <2>3, <2>4, <2>5
<1>5. ASSUME NEW t \in Callers, StopStep(t) \/ ActStep(t) PROVE LabelsOK'
  <2>1. \E l \in {"cause", "flag", "unpause", "await", "awaiting", "relaunch", "crashed", Finished(t)} :
          Goto(t, l)
    BY <1>5 DEF StopStep, StopRequested, RecordCause, RequestStop, Unpause, AwaitEnd, EndSeen,
                AfterStop, ActStep, Step, Pause, Resume, Upload, SetSettings, NotifyAction, Return
  <2>2. UNCHANGED op
    BY <1>5 DEF StopStep, StopRequested, RecordCause, RequestStop, Unpause, AwaitEnd, EndSeen,
                ActStep, Step, Pause, Resume, Upload, SetSettings, NotifyAction
  <2>3. \A l \in {"cause", "flag", "unpause", "await", "awaiting", "relaunch", "crashed"} :
          MayGoto(t, l)
    BY DEF CallerLabels
  <2> QED BY <1>1, <1>2, <2>1, <2>2, <2>3
<1>6. ASSUME NEW t \in Callers, RestartStep(t) PROVE LabelsOK'
  <2>1. CASE LaunchRestart(t)
    <3>1. PICK k \in Restarters : pc' = [pc EXCEPT ![k] = "wait", ![t] = "swap"]
      BY <2>1 DEF LaunchRestart
    <3>2. "wait" \in RestarterLabels /\ "swap" \in CallerLabels /\ UNCHANGED op
      BY <2>1 DEF LaunchRestart, CallerLabels, RestarterLabels
    <3>3. pc' \in [Threads -> CallerLabels \cup RestarterLabels]
      BY <3>1, <3>2
    <3>4. pc'[t] = "swap" /\ pc'[k] = "wait" /\ \A s \in Threads \ {t, k} : pc'[s] = pc[s]
      BY <3>1
    <3>5. \A s \in Callers : pc'[s] \in CallerLabels
      BY <3>2, <3>4
    <3>6. \A s \in Restarters : pc'[s] \in RestarterLabels
      BY <3>2, <3>4
    <3> QED BY <3>2, <3>3, <3>5, <3>6
  <2>2. CASE CheckRestart(t) \/ SavePaused(t) \/ AssignRestarter(t)
    <3>1. (\E l \in {"save", "stop", "reassign", Finished(t)} : Goto(t, l)) /\ UNCHANGED op
      BY <2>2 DEF CheckRestart, SavePaused, AssignRestarter, Return
    <3>2. MayGoto(t, "save") /\ MayGoto(t, "stop") /\ MayGoto(t, "reassign")
      BY DEF CallerLabels
    <3> QED BY <1>1, <1>2, <3>1, <3>2
  <2> QED BY <1>6, <2>1, <2>2 DEF RestartStep
<1>7. ASSUME NEW k \in Restarters, RestartWait(k) \/ RestartCheck(k) PROVE LabelsOK'
  <2>1. (\E l \in {"waiting", "recheck", "check", Finished(k)} : Goto(k, l)) /\ UNCHANGED op
    BY <1>7 DEF RestartWait, RestartCheck, Return
  <2>2. \A l \in {"waiting", "recheck", "check"} : MayGoto(k, l)
    BY DEF RestarterLabels
  <2> QED BY <1>1, <1>2, <2>1, <2>2
<1>8. ASSUME NEW r \in Runs, LoopStep(r) PROVE UNCHANGED <<pc, op>>
  BY <1>8 DEF LoopStep, LoopBegin, LoopEvent, LoopCheck, LockStopCause, PublishStop, LoopCount,
              LoopWake, LoopCleanup, LoopStopped, LoopEnd
<1>9. CASE UNCHANGED <<pc, op>>
  BY <1>9
<1> QED
  BY <1>3, <1>4, <1>5, <1>6, <1>7, <1>8, <1>9
  DEF Next, CallerStep, RestarterStep, vars

(* What a thread stores in mRestarter is a restarting thread.               *)
SwapOK == \A t \in Callers : pc[t] = "swap" => waitsFor[t] \in Restarters

LEMMA SwapStep == LabelsOK /\ DataOK /\ SwapOK /\ [Next]_vars => SwapOK'
<1> SUFFICES ASSUME LabelsOK, DataOK, SwapOK, [Next]_vars PROVE SwapOK'
  OBVIOUS
<1> USE ControlAssumption DEF LabelsOK, DataOK, SwapOK, Threads, Goto, Return, Finished, call
<1>1. ASSUME NEW t \in Callers, NEW o \in Operations, Call(t, o) PROVE SwapOK'
  BY <1>1 DEF Call, FirstLabel
<1>2. ASSUME NEW t \in Threads, CheckRunning(t) \/ Setup(t) \/ ResetRequests(t) \/ LockStatus(t)
      PROVE  SwapOK'
  BY <1>2 DEF CheckRunning, Setup, ResetRequests, LockStatus
<1>3. ASSUME NEW t \in Threads, SetPaused(t) \/ AssignSimulator(t) PROVE SwapOK'
  <2>1. CASE SetPaused(t)
    BY <2>1 DEF SetPaused
  <2>2. CASE AssignSimulator(t)
    BY <2>2 DEF AssignSimulator
  <2> QED BY <1>3, <2>1, <2>2
<1>4. ASSUME NEW t \in Threads, Launch(t) PROVE SwapOK'
  <2>1. /\ \A s \in Threads \ {t} : pc'[s] = pc[s] /\ waitsFor'[s] = waitsFor[s]
        /\ pc'[t] # "swap"
    BY <1>4 DEF Launch
  <2> QED BY <2>1
<1>5. ASSUME NEW t \in Callers, StopStep(t) PROVE SwapOK'
  BY <1>5 DEF StopStep, StopRequested, RecordCause, RequestStop, Unpause, AwaitEnd, EndSeen,
              AfterStop
<1>6. ASSUME NEW t \in Callers, CheckRestart(t) \/ SavePaused(t) \/ AssignRestarter(t) PROVE SwapOK'
  BY <1>6 DEF CheckRestart, SavePaused, AssignRestarter
<1>7. ASSUME NEW t \in Callers, LaunchRestart(t) PROVE SwapOK'
  <2>1. PICK k \in Restarters : /\ pc' = [pc EXCEPT ![k] = "wait", ![t] = "swap"]
                                /\ waitsFor' = [waitsFor EXCEPT ![t] = k]
    BY <1>7 DEF LaunchRestart
  <2>2. \A s \in Callers \ {t} : pc'[s] = pc[s] /\ waitsFor'[s] = waitsFor[s]
    BY <2>1
  <2>3. waitsFor'[t] = k
    BY <2>1
  <2> QED BY <2>2, <2>3
<1>8. ASSUME NEW t \in Callers, ActStep(t) PROVE SwapOK'
  BY <1>8 DEF ActStep, Step, Pause, Resume, Upload, SetSettings, NotifyAction
<1>9. ASSUME NEW k \in Restarters, RestartWait(k) \/ RestartCheck(k) PROVE SwapOK'
  BY <1>9 DEF RestartWait, RestartCheck
<1>10. ASSUME NEW r \in Runs, LoopStep(r) PROVE SwapOK'
  BY <1>10 DEF LoopStep, LoopBegin, LoopEvent, LoopCheck, LockStopCause, PublishStop, LoopCount,
               LoopWake, LoopCleanup, LoopStopped, LoopEnd
<1>11. CASE UNCHANGED vars
  BY <1>11 DEF vars
<1> QED
  BY <1>1, <1>2, <1>3, <1>4, <1>5, <1>6, <1>7, <1>8, <1>9, <1>10, <1>11
  DEF Next, CallerStep, RestarterStep, StartStep, RestartStep

LEMMA DataStep == LabelsOK /\ DataOK /\ SwapOK /\ [Next]_vars => DataOK'
<1> SUFFICES ASSUME LabelsOK, DataOK, SwapOK, [Next]_vars PROVE DataOK'
  OBVIOUS
<1> USE ControlAssumption DEF DataOK, call, futures, pausing, data
<1>1. ASSUME NEW t \in Callers, NEW o \in Operations, Call(t, o) PROVE DataOK'
  BY <1>1 DEF Call, Threads
<1>2. ASSUME NEW t \in Threads, StartStep(t) PROVE DataOK'
  <2>1. CASE CheckRunning(t) \/ LockStatus(t) \/ AssignSimulator(t)
    BY <2>1 DEF CheckRunning, LockStatus, AssignSimulator
  <2>2. CASE Setup(t)
    BY <2>2 DEF Setup
  <2>3. CASE ResetRequests(t)
    <3>1. numStepRequests' \in 0 .. 2
      BY <2>3 DEF ResetRequests
    <3>2. numStepRequests' \in Nat
      BY <3>1
    <3>3. requestToStop' \in BOOLEAN
      BY <2>3 DEF ResetRequests
    <3>4. UNCHANGED <<failed, waitsFor, calls, runPc, simulator, restarter, isPaused, wasPaused,
                      notified, status, data>>
      BY <2>3 DEF ResetRequests
    <3> QED BY <3>2, <3>3, <3>4
  <2>4. CASE SetPaused(t)
    BY <2>4 DEF SetPaused
  <2>5. CASE Launch(t)
    BY <2>5 DEF Launch, LoopLabels
  <2> QED BY <1>2, <2>1, <2>2, <2>3, <2>4, <2>5 DEF StartStep
<1>3. ASSUME NEW t \in Callers, StopStep(t) PROVE DataOK'
  <2>1. CASE StopRequested(t)
    BY <2>1 DEF StopRequested, IsRunning, Active
  <2>2. CASE RecordCause(t) \/ AwaitEnd(t) \/ EndSeen(t)
    BY <2>2 DEF RecordCause, AwaitEnd, EndSeen
  <2>3. CASE RequestStop(t)
    BY <2>3 DEF RequestStop
  <2>4. CASE Unpause(t)
    <3>1. isPaused' \in BOOLEAN /\ notified' \subseteq Runs
      BY <2>4 DEF Unpause, NotifyPaused
    <3>2. UNCHANGED <<failed, waitsFor, calls, runPc, futures, requestToStop, numStepRequests,
                      wasPaused, status, data>>
      BY <2>4 DEF Unpause
    <3> QED BY <3>1, <3>2
  <2> QED BY <1>3, <2>1, <2>2, <2>3, <2>4 DEF StopStep
<1>4. ASSUME NEW t \in Callers, RestartStep(t) PROVE DataOK'
  <2>1. CASE CheckRestart(t) \/ SavePaused(t)
    BY <2>1 DEF CheckRestart, SavePaused
  <2>2. CASE LaunchRestart(t)
    BY <2>2 DEF LaunchRestart, Threads
  <2>3. CASE AssignRestarter(t)
    <3>1. restarter' \in Restarters \cup {None}
      BY <2>3 DEF AssignRestarter, SwapOK
    <3>2. waitsFor' \in [Threads -> Runs \cup Restarters \cup {None}]
      BY <2>3 DEF AssignRestarter, Threads
    <3> QED BY <2>3, <3>1, <3>2 DEF AssignRestarter
  <2> QED BY <1>4, <2>1, <2>2, <2>3 DEF RestartStep
<1>5. ASSUME NEW t \in Callers, ActStep(t) PROVE DataOK'
  <2>1. CASE Step(t) \/ Pause(t)
    <3>1. isPaused' \in BOOLEAN
      BY <2>1, ZenonT(30) DEF Step, Pause
    <3>2. numStepRequests' = numStepRequests \/ numStepRequests' = numStepRequests + 1
      BY <2>1, ZenonT(30) DEF Step, Pause
    <3>3. numStepRequests' \in Nat
      BY <3>2
    <3>4. notified' \subseteq Runs
      BY <2>1 DEF Step, Pause, NotifyPaused
    <3>5. UNCHANGED <<failed, waitsFor, runPc, simulator, restarter, requestToStop, wasPaused,
                      status, data, calls>>
      BY <2>1 DEF Step, Pause
    <3> QED BY <3>1, <3>3, <3>4, <3>5
  <2>2. CASE Resume(t)
    <3>1. isPaused' \in BOOLEAN /\ numStepRequests' \in Nat /\ notified' \subseteq Runs
      BY <2>2 DEF Resume, NotifyPaused
    <3>2. UNCHANGED <<failed, waitsFor, calls, runPc, futures, requestToStop, wasPaused,
                      status, data>>
      BY <2>2 DEF Resume
    <3> QED BY <3>1, <3>2
  <2>3. CASE Upload(t) \/ SetSettings(t) \/ NotifyAction(t)
    BY <2>3 DEF Upload, SetSettings, NotifyAction
  <2> QED BY <1>5, <2>1, <2>2, <2>3 DEF ActStep
<1>6. ASSUME NEW k \in Restarters, RestartWait(k) \/ RestartCheck(k) PROVE DataOK'
  BY <1>6 DEF RestartWait, RestartCheck
<1>7. ASSUME NEW r \in Runs, LoopStep(r) PROVE DataOK'
  <2>1. ASSUME NEW label \in LoopLabels, RunTo(r, label) PROVE runPc' \in [Runs -> LoopLabels]
    BY <2>1 DEF RunTo
  <2>2. /\ {"event", "check", "stop", "publish", "count", "paused"} \subseteq LoopLabels
        /\ {"stopPaused", "publishPaused", "cleanup", "stopped", "ending", "done"} \subseteq LoopLabels
        /\ "crashed" \in LoopLabels
    BY DEF LoopLabels
  <2>3. CASE LoopBegin(r)
    BY <2>1, <2>2, <2>3 DEF LoopBegin
  <2>4. CASE LoopEvent(r)
    BY <2>1, <2>2, <2>4 DEF LoopEvent
  <2>5. CASE LoopCheck(r)
    <3>1. runPc' \in [Runs -> LoopLabels]
      BY <2>1, <2>2, <2>5 DEF LoopCheck
    <3>2. requestToStop' \in BOOLEAN
      BY <2>5 DEF LoopCheck
    <3>3. UNCHANGED <<call, futures, pausing, status, data>>
      BY <2>5 DEF LoopCheck
    <3> QED BY <3>1, <3>2, <3>3
  <2>6. CASE LockStopCause(r)
    BY <2>1, <2>2, <2>6 DEF LockStopCause
  <2>7. CASE PublishStop(r)
    BY <2>1, <2>2, <2>7 DEF PublishStop
  <2>8. CASE LoopCount(r)
    <3>1. numStepRequests' \in Nat /\ isPaused' \in BOOLEAN
      BY <2>8 DEF LoopCount
    <3>2. runPc' \in [Runs -> LoopLabels] /\ status' \in {"stopped", "running", "paused"}
      BY <2>1, <2>2, <2>8 DEF LoopCount
    <3>3. UNCHANGED <<failed, waitsFor, calls, futures, requestToStop, wasPaused, notified, data>>
      BY <2>8 DEF LoopCount
    <3> QED BY <3>1, <3>2, <3>3
  <2>9. CASE LoopWake(r)
    <3>1. runPc' \in [Runs -> LoopLabels] /\ requestToStop' \in BOOLEAN
      BY <2>1, <2>2, <2>9 DEF LoopWake
    <3>2. status' \in {"stopped", "running", "paused"} /\ notified' \subseteq Runs
      BY <2>9 DEF LoopWake
    <3>3. UNCHANGED <<failed, waitsFor, calls, futures, numStepRequests, isPaused, wasPaused, data>>
      BY <2>9 DEF LoopWake
    <3> QED BY <3>1, <3>2, <3>3
  <2>10. CASE LoopCleanup(r)
    BY <2>1, <2>2, <2>10 DEF LoopCleanup
  <2>11. CASE LoopStopped(r)
    BY <2>1, <2>2, <2>11 DEF LoopStopped
  <2>12. CASE LoopEnd(r)
    BY <2>1, <2>2, <2>12 DEF LoopEnd
  <2> QED
    BY <1>7, <2>3, <2>4, <2>5, <2>6, <2>7, <2>8, <2>9, <2>10, <2>11, <2>12 DEF LoopStep
<1>8. CASE UNCHANGED vars
  BY <1>8 DEF vars
<1> QED
  BY <1>1, <1>2, <1>3, <1>4, <1>5, <1>6, <1>7, <1>8
  DEF Next, CallerStep, RestarterStep, Threads

(* Every variable keeps its type, for any callers, calls and runs.          *)
THEOREM ControlTypes == Spec => []TypeOK
<1>1. Init => TypeOK /\ SwapOK
  <2> SUFFICES ASSUME Init PROVE TypeOK /\ SwapOK
    OBVIOUS
  <2>1. LabelsOK
    BY ControlAssumption DEF Init, LabelsOK, Threads, CallerLabels, RestarterLabels, Operations
  <2>2. DataOK
    BY ControlAssumption DEF Init, DataOK, LoopLabels
  <2>3. SwapOK
    BY DEF Init, SwapOK, Threads
  <2> QED BY <2>1, <2>2, <2>3 DEF TypeOK
<1>2. TypeOK /\ SwapOK /\ [Next]_vars => (TypeOK /\ SwapOK)'
  BY LabelsStep, DataStep, SwapStep DEF TypeOK
<1>3. QED BY <1>1, <1>2, PTL DEF Spec

-----------------------------------------------------------------------------
(* The uploaded world is not replaced under a running simulation.           *)

(* A thread between Setup and the return of StartSimulation has set up the  *)
(* current world; a loop that is not mSimulator's is the one of the old     *)
(* future, for which an assignment waits.                                   *)
WorldInv ==
  /\ \A t \in Threads : At(t, ScenarioShared) => model = world
  /\ \A r \in Runs : Active(r) => model = world
  /\ \A r \in Runs : Active(r) =>
       \/ r = simulator
       \/ \E t \in Threads : pc[t] = "assign" /\ waitsFor[t] = r

LEMMA WorldStep == TypeOK /\ WorldInv /\ [Next]_vars => WorldInv'
<1> SUFFICES ASSUME TypeOK, WorldInv, [Next]_vars PROVE WorldInv'
  OBVIOUS
<1> USE ControlAssumption
    DEF TypeOK, LabelsOK, DataOK, WorldInv, Active, At, Threads, ScenarioShared, Goto, Return, Finished,
        call, futures, pausing, data
<1>1. ASSUME NEW t \in Callers, NEW o \in Operations, Call(t, o) PROVE WorldInv'
  BY <1>1 DEF Call, FirstLabel
<1>2. ASSUME NEW t \in Threads, CheckRunning(t) PROVE WorldInv'
  BY <1>2 DEF CheckRunning
<1>3. ASSUME NEW t \in Threads, Setup(t) PROVE WorldInv'
  BY <1>3 DEF Setup
<1>4. ASSUME NEW t \in Threads, ResetRequests(t) \/ LockStatus(t) \/ SetPaused(t) PROVE WorldInv'
  <2>1. CASE ResetRequests(t)
    BY <2>1 DEF ResetRequests
  <2>2. CASE LockStatus(t)
    BY <2>2 DEF LockStatus
  <2>3. CASE SetPaused(t)
    BY <2>3 DEF SetPaused
  <2> QED BY <1>4, <2>1, <2>2, <2>3
<1>5. ASSUME NEW t \in Threads, Launch(t) PROVE WorldInv'
  <2>1. model = world /\ UNCHANGED <<model, world>> /\ pc[t] = "launch"
    BY <1>5 DEF Launch
  <2>2. \A s \in Threads : At(s, ScenarioShared)' => model' = world'
    BY <2>1
  <2>3. \A s \in Threads : pc[s] # "assign"
    BY <1>5 DEF Launch, SimulatorFree, SimulatorReadable
  <2>4. \A r \in Runs : Active(r) => r = simulator /\ IsRunning
    BY <2>3 DEF IsRunning
  <2>5. PICK r \in Runs : runPc' = [runPc EXCEPT ![r] = "begin"] /\ simulator' = r
    BY <1>5 DEF Launch
  <2>6. IsRunning => pc'[t] = "assign" /\ waitsFor'[t] = simulator
    BY <1>5 DEF Launch
  <2>7. \A s \in Runs : Active(s)' => s = r \/ Active(s)
    BY <2>5
  <2> QED BY <2>1, <2>2, <2>4, <2>5, <2>6, <2>7
<1>6. ASSUME NEW t \in Threads, AssignSimulator(t) PROVE WorldInv'
  BY <1>6 DEF AssignSimulator
<1>7. ASSUME NEW t \in Callers, StopStep(t) PROVE WorldInv'
  BY <1>7 DEF StopStep, StopRequested, RecordCause, RequestStop, Unpause, AwaitEnd, EndSeen,
              AfterStop
<1>8. ASSUME NEW t \in Callers, RestartStep(t) PROVE WorldInv'
  BY <1>8 DEF RestartStep, CheckRestart, SavePaused, LaunchRestart, AssignRestarter
<1>9. ASSUME NEW t \in Callers, Step(t) \/ Pause(t) \/ Resume(t) \/ SetSettings(t) \/ NotifyAction(t)
      PROVE  WorldInv'
  BY <1>9 DEF Step, Pause, Resume, SetSettings, NotifyAction
<1>10. ASSUME NEW t \in Callers, Upload(t) PROVE WorldInv'
  <2>1. /\ \A s \in Threads : ~At(s, ScenarioShared) /\ ~At(s, ScenarioShared)'
        /\ UNCHANGED <<runPc, simulator, waitsFor, model>>
    BY <1>10 DEF Upload, ScenarioFree
  <2>2. CASE IsRunning
    BY <1>10, <2>1, <2>2 DEF Upload
  <2>3. CASE ~IsRunning
    <3>1. \A r \in Runs : ~Active(r)
      BY <2>1, <2>3 DEF IsRunning
    <3> QED BY <2>1, <3>1
  <2> QED BY <2>2, <2>3
<1>11. ASSUME NEW k \in Restarters, RestartWait(k) \/ RestartCheck(k) PROVE WorldInv'
  BY <1>11 DEF RestartWait, RestartCheck
<1>12. ASSUME NEW r \in Runs, LoopStep(r) PROVE WorldInv'
  <2>1. /\ UNCHANGED <<pc, waitsFor, simulator, model, world>>
        /\ \A s \in Runs : Active(s)' => Active(s)
    BY <1>12 DEF LoopStep, RunTo, LoopBegin, LoopEvent, LoopCheck, LockStopCause, PublishStop,
                 LoopCount, LoopWake, LoopCleanup, LoopStopped, LoopEnd
  <2> QED BY <2>1
<1>13. CASE UNCHANGED vars
  BY <1>13 DEF vars
<1> QED
  BY <1>1, <1>2, <1>3, <1>4, <1>5, <1>6, <1>7, <1>8, <1>9, <1>10, <1>11, <1>12, <1>13
  DEF Next, CallerStep, RestarterStep, StartStep, ActStep

(* mScenarioMutex keeps uploads and simulations apart, although both look   *)
(* for a running simulation before they act, whoever calls what and         *)
(* whatever else goes wrong (two loops at a time, a lost restart).          *)
THEOREM WorldIsStable == Spec => []WorldStable
<1>1. Init => WorldInv
  BY ControlAssumption DEF Init, WorldInv, Active, At, ScenarioShared, Threads
<1>2. WorldInv => WorldStable
  BY DEF WorldInv, WorldStable
<1>3. QED BY <1>1, <1>2, WorldStep, ControlTypes, PTL DEF Spec

-----------------------------------------------------------------------------
(* One loop at a time, with a single caller that starts simulations.        *)

SingleStarter(s) ==
  \A t \in Callers : "restart" \notin Ops[t] /\ ("start" \in Ops[t] => t = s)

Starting == {"setup", "reset", "status", "ispaused", "launch"}
Restarting == {"restart", "save", "relaunch", "swap", "reassign"}

NobodyRestarts ==
  /\ \A t \in Callers : pc[t] \notin Restarting /\ op[t] # "restart"
  /\ \A k \in Restarters : pc[k] = "none"
OnlyOneStarts(s) ==
  \A t \in Callers : /\ pc[t] # "idle" /\ op[t] = "start" => t = s
                     /\ pc[t] \in Starting \cup {"assign"} => t = s
StartsAlone == \A t \in Callers : pc[t] \in Starting => \A r \in Runs : ~Active(r)
NobodyAssigns == \A t \in Callers : pc[t] # "assign"
SimulatorIsTheRun == \A r \in Runs : Active(r) => r = simulator

StarterInv(s) ==
  NobodyRestarts /\ OnlyOneStarts(s) /\ StartsAlone /\ NobodyAssigns /\ SimulatorIsTheRun

LEMMA StarterStep ==
  ASSUME NEW s \in Callers, SingleStarter(s), TypeOK, StarterInv(s), [Next]_vars
  PROVE  StarterInv(s)'
<1> USE ControlAssumption
    DEF TypeOK, LabelsOK, DataOK, StarterInv, NobodyRestarts, OnlyOneStarts, StartsAlone,
        NobodyAssigns, SimulatorIsTheRun, Starting, Restarting, Active, Threads, Goto, Return,
        Finished, call, futures, pausing, data
<1>1. ASSUME NEW t \in Callers, NEW o \in Operations, Call(t, o) PROVE StarterInv(s)'
  <2>1. o # "restart" /\ (o = "start" => t = s)
    BY <1>1 DEF Call, SingleStarter
  <2> QED BY <1>1, <2>1 DEF Call, FirstLabel
<1>2. ASSUME NEW t \in Callers, CheckRunning(t) PROVE StarterInv(s)'
  <2>1. CASE pc'[t] = "setup"
    <3>0. pc[t] = "check" /\ op[t] = "start" /\ op[t] \notin NeedsRun
      BY <1>2, <2>1 DEF CheckRunning, NeedsRun
    <3>1. op[t] = "start" /\ t = s /\ ~IsRunning
      <4>1. ~IsRunning
        BY <1>2, <2>1, <3>0 DEF CheckRunning
      <4> QED BY <3>0, <4>1
    <3>2. \A r \in Runs : ~Active(r)
      BY <3>1 DEF IsRunning
    <3> QED BY <1>2, <2>1, <3>1, <3>2 DEF CheckRunning
  <2>2. CASE pc'[t] # "setup"
    BY <1>2, <2>2 DEF CheckRunning
  <2> QED BY <2>1, <2>2
<1>3. ASSUME NEW t \in Callers, Setup(t) \/ ResetRequests(t) \/ LockStatus(t) \/ SetPaused(t)
      PROVE  StarterInv(s)'
  <2>1. CASE Setup(t)
    BY <2>1 DEF Setup
  <2>2. CASE ResetRequests(t) \/ LockStatus(t)
    BY <2>2 DEF ResetRequests, LockStatus
  <2>3. CASE SetPaused(t)
    BY <2>3 DEF SetPaused
  <2> QED BY <1>3, <2>1, <2>2, <2>3
<1>4. ASSUME NEW t \in Callers, Launch(t) PROVE StarterInv(s)'
  <2>1. ~IsRunning
    BY <1>4 DEF Launch, IsRunning
  <2>2. PICK r \in Runs : runPc' = [runPc EXCEPT ![r] = "begin"] /\ simulator' = r
    BY <1>4 DEF Launch
  <2>3. \A q \in Runs : Active(q)' => q = r
    BY <1>4, <2>2 DEF Launch
  <2>4. pc' = [pc EXCEPT ![t] = "idle"] /\ UNCHANGED op
    BY <1>4, <2>1 DEF Launch
  <2>5. \A c \in Callers : pc'[c] \notin Starting
    BY <1>4, <2>4 DEF Launch
  <2> QED BY <2>2, <2>3, <2>4, <2>5
<1>5. ASSUME NEW t \in Callers, StopStep(t) PROVE StarterInv(s)'
  BY <1>5 DEF StopStep, StopRequested, RecordCause, RequestStop, Unpause, AwaitEnd, EndSeen,
              AfterStop
<1>6. ASSUME NEW t \in Callers, ActStep(t) PROVE StarterInv(s)'
  BY <1>6 DEF ActStep, Step, Pause, Resume, Upload, SetSettings, NotifyAction
<1>7. ASSUME NEW t \in Callers, RestartStep(t) \/ AssignSimulator(t) PROVE FALSE
  BY <1>7 DEF RestartStep, CheckRestart, SavePaused, LaunchRestart, AssignRestarter,
              AssignSimulator
<1>8. ASSUME NEW k \in Restarters, RestarterStep(k) PROVE FALSE
  BY <1>8 DEF RestarterStep, RestartWait, RestartCheck, StartStep, CheckRunning, Setup,
              ResetRequests, LockStatus, SetPaused, Launch, AssignSimulator
<1>9. ASSUME NEW r \in Runs, LoopStep(r) PROVE StarterInv(s)'
  <2>1. /\ UNCHANGED <<pc, op, simulator>>
        /\ \A q \in Runs : Active(q)' => Active(q)
    BY <1>9 DEF LoopStep, RunTo, LoopBegin, LoopEvent, LoopCheck, LockStopCause, PublishStop,
                LoopCount, LoopWake, LoopCleanup, LoopStopped, LoopEnd
  <2> QED BY <2>1
<1>10. CASE UNCHANGED vars
  BY <1>10 DEF vars
<1> QED
  BY <1>1, <1>2, <1>3, <1>4, <1>5, <1>6, <1>7, <1>8, <1>9, <1>10 DEF Next, CallerStep, StartStep

LEMMA StarterInvariant ==
  ASSUME NEW s \in Callers, SingleStarter(s)
  PROVE  Spec => [](TypeOK /\ StarterInv(s))
<1>1. Init => StarterInv(s)
  BY ControlAssumption
  DEF Init, StarterInv, NobodyRestarts, OnlyOneStarts, StartsAlone, NobodyAssigns,
      SimulatorIsTheRun, Starting, Restarting, Active, Threads
<1>2. TypeOK /\ StarterInv(s) /\ [Next]_vars => StarterInv(s)'
  BY StarterStep
<1>3. QED BY <1>1, <1>2, ControlTypes, PTL DEF Spec

(* With a single caller that starts simulations and no restarts, the early  *)
(* return of StartSimulation does what its comment says, whatever the other *)
(* callers do: the status, the future and the old loop never disagree.      *)
THEOREM OneRunAtATime ==
  ASSUME NEW s \in Callers, SingleStarter(s)
  PROVE  Spec => []OneRun
<1>1. StarterInv(s) => OneRun
  BY DEF StarterInv, SimulatorIsTheRun, OneRun
<1>2. QED BY <1>1, StarterInvariant, PTL

LEMMA ResumeStep ==
  ASSUME NEW s \in Callers, TypeOK, StarterInv(s), NoLostResume, [Next]_vars
  PROVE  NoLostResume'
<1> USE ControlAssumption
    DEF TypeOK, LabelsOK, DataOK, NoLostResume, Threads, Goto, Return, Finished, call, futures,
        pausing, data
<1>1. \A q, r \in Runs : runPc[q] = "paused" /\ runPc[r] = "paused" => q = r
  BY DEF StarterInv, SimulatorIsTheRun, Active
<1>2. ASSUME NotifyPaused, UNCHANGED runPc PROVE NoLostResume'
  <2>1. \A r \in Runs : runPc[r] = "paused" => r \in notified'
    BY <1>1, <1>2 DEF NotifyPaused
  <2> QED BY <1>2, <2>1
<1>3. ASSUME NEW t \in Callers, NEW o \in Operations, Call(t, o) PROVE NoLostResume'
  BY <1>3 DEF Call
<1>4. ASSUME NEW t \in Threads, StartStep(t) PROVE NoLostResume'
  <2>1. CASE SetPaused(t)
    <3>1. t \in Callers /\ pc[t] \in Starting
      BY <2>1 DEF SetPaused, StarterInv, NobodyRestarts, Starting
    <3>2. \A r \in Runs : runPc[r] # "paused"
      BY <3>1 DEF StarterInv, StartsAlone, Active
    <3> QED BY <2>1, <3>2 DEF SetPaused
  <2>2. CASE Launch(t)
    BY <2>2 DEF Launch
  <2>3. CASE CheckRunning(t) \/ Setup(t) \/ ResetRequests(t) \/ LockStatus(t) \/ AssignSimulator(t)
    BY <2>3 DEF CheckRunning, Setup, ResetRequests, LockStatus, AssignSimulator
  <2> QED BY <1>4, <2>1, <2>2, <2>3 DEF StartStep
<1>5. ASSUME NEW t \in Callers, StopStep(t) PROVE NoLostResume'
  <2>1. CASE Unpause(t)
    <3>1. CASE isPaused
      BY <1>2, <2>1, <3>1 DEF Unpause
    <3>2. CASE ~isPaused
      BY <2>1, <3>2 DEF Unpause
    <3> QED BY <3>1, <3>2
  <2>2. CASE StopRequested(t) \/ RecordCause(t) \/ RequestStop(t) \/ AwaitEnd(t) \/ EndSeen(t)
    BY <2>2 DEF StopRequested, RecordCause, RequestStop, AwaitEnd, EndSeen, AfterStop
  <2> QED BY <1>5, <2>1, <2>2 DEF StopStep
<1>6. ASSUME NEW t \in Callers, ActStep(t) PROVE NoLostResume'
  <2>1. CASE Step(t)
    <3>1. UNCHANGED <<isPaused, notified, runPc>> \/ (NotifyPaused /\ UNCHANGED runPc)
      BY <2>1 DEF Step
    <3> QED BY <1>2, <3>1
  <2>2. CASE Resume(t)
    <3>1. UNCHANGED <<isPaused, notified, runPc>> \/ (NotifyPaused /\ UNCHANGED runPc)
      BY <2>2 DEF Resume
    <3> QED BY <1>2, <3>1
  <2>3. CASE Pause(t) \/ Upload(t) \/ SetSettings(t) \/ NotifyAction(t)
    BY <2>3 DEF Pause, Upload, SetSettings, NotifyAction
  <2> QED BY <1>6, <2>1, <2>2, <2>3 DEF ActStep
<1>7. ASSUME NEW t \in Callers, RestartStep(t) PROVE NoLostResume'
  BY <1>7 DEF RestartStep, CheckRestart, SavePaused, LaunchRestart, AssignRestarter
<1>8. ASSUME NEW k \in Restarters, RestartWait(k) \/ RestartCheck(k) PROVE NoLostResume'
  BY <1>8 DEF RestartWait, RestartCheck
<1>9. ASSUME NEW r \in Runs, LoopStep(r) PROVE NoLostResume'
  <2>1. CASE LoopCount(r)
    BY <2>1 DEF LoopCount, RunTo
  <2>2. CASE LoopWake(r)
    BY <2>2 DEF LoopWake, RunTo
  <2>3. CASE ~LoopCount(r) /\ ~LoopWake(r)
    BY <1>9, <2>3 DEF LoopStep, RunTo, LoopBegin, LoopEvent, LoopCheck, LockStopCause, PublishStop,
                      LoopCleanup, LoopStopped, LoopEnd
  <2> QED BY <2>1, <2>2, <2>3
<1>10. CASE UNCHANGED vars
  BY <1>10 DEF vars
<1> QED
  BY <1>3, <1>4, <1>5, <1>6, <1>7, <1>8, <1>9, <1>10 DEF Next, CallerStep, RestarterStep

(* Whoever takes the loop out of its pause notifies it, and the single      *)
(* notification cannot go to another loop because there is none.            *)
THEOREM ResumeNotLost ==
  ASSUME NEW s \in Callers, SingleStarter(s)
  PROVE  Spec => []NoLostResume
<1>1. Init => NoLostResume
  BY DEF Init, NoLostResume
<1>2. TypeOK /\ StarterInv(s) /\ NoLostResume /\ [Next]_vars => NoLostResume'
  BY ResumeStep
<1>3. QED BY <1>1, <1>2, StarterInvariant, PTL DEF Spec

-----------------------------------------------------------------------------
(* The step counter, when in addition nobody calls for a pause.             *)

NobodyPauses == \A t \in Callers : "pause" \notin Ops[t]

PausedAtZero ==      \* between two runs, a new start may overtake an old pause
  isPaused => \/ numStepRequests = 0
              \/ \E t \in Callers : pc[t] \in {"status", "ispaused"}
StepInv ==
  /\ restarter = None
  /\ \A t \in Callers : op[t] # "pause"
  /\ PausedAtZero

LEMMA CounterStep ==
  ASSUME NEW s \in Callers, NobodyPauses, TypeOK, StarterInv(s), StepInv, [Next]_vars
  PROVE  StepInv'
<1> USE ControlAssumption
    DEF TypeOK, LabelsOK, DataOK, StepInv, PausedAtZero, Threads, Goto, Return, Finished, call,
        futures, pausing, data
<1>1. ASSUME NEW t \in Callers, NEW o \in Operations, Call(t, o) PROVE StepInv'
  BY <1>1 DEF Call, NobodyPauses
<1>2. ASSUME NEW t \in Callers, CheckRunning(t) PROVE StepInv'
  BY <1>2 DEF CheckRunning
<1>3. ASSUME NEW t \in Callers, Setup(t) PROVE StepInv'
  BY <1>3 DEF Setup
<1>4. ASSUME NEW t \in Callers, ResetRequests(t) \/ LockStatus(t) PROVE StepInv'
  <2>1. pc'[t] \in {"status", "ispaused"}
    BY <1>4 DEF ResetRequests, LockStatus
  <2> QED BY <1>4, <2>1 DEF ResetRequests, LockStatus
<1>5. ASSUME NEW t \in Callers, SetPaused(t) PROVE StepInv'
  BY <1>5 DEF SetPaused, RestartIsRunning
<1>6. ASSUME NEW t \in Callers, Launch(t) PROVE StepInv'
  <2>1. \A c \in Callers : pc[c] \in {"status", "ispaused"} => pc'[c] = pc[c]
    BY <1>6 DEF Launch
  <2> QED BY <1>6, <2>1 DEF Launch
<1>7. ASSUME NEW t \in Callers, StopStep(t) PROVE StepInv'
  BY <1>7 DEF StopStep, StopRequested, RecordCause, RequestStop, Unpause, AwaitEnd, EndSeen,
              AfterStop
<1>8. ASSUME NEW t \in Callers, ActStep(t) PROVE StepInv'
  BY <1>8 DEF ActStep, Step, Pause, Resume, Upload, SetSettings, NotifyAction
<1>9. ASSUME NEW t \in Callers, RestartStep(t) \/ AssignSimulator(t) PROVE FALSE
  BY <1>9 DEF RestartStep, CheckRestart, SavePaused, LaunchRestart, AssignRestarter,
              AssignSimulator, StarterInv, NobodyRestarts, NobodyAssigns, Restarting
<1>10. ASSUME NEW k \in Restarters, RestarterStep(k) PROVE FALSE
  BY <1>10 DEF RestarterStep, RestartWait, RestartCheck, StartStep, CheckRunning, Setup,
               ResetRequests, LockStatus, SetPaused, Launch, AssignSimulator, StarterInv,
               NobodyRestarts
<1>11. ASSUME NEW r \in Runs, LoopStep(r) PROVE StepInv'
  <2>1. CASE LoopCount(r)
    <3>1. \A c \in Callers : pc[c] \notin {"status", "ispaused"}
      BY <2>1 DEF LoopCount, StarterInv, StartsAlone, Starting, Active
    <3> QED BY <2>1, <3>1 DEF LoopCount
  <2>2. CASE ~LoopCount(r)
    <3>1. UNCHANGED <<pc, op, restarter, isPaused, numStepRequests>>
      BY <1>11, <2>2 DEF LoopStep, LoopBegin, LoopEvent, LoopCheck, LockStopCause, PublishStop,
                         LoopWake, LoopCleanup, LoopStopped, LoopEnd
    <3> QED BY <3>1
  <2> QED BY <2>1, <2>2
<1>12. CASE UNCHANGED vars
  BY <1>12 DEF vars
<1> QED
  BY <1>1, <1>2, <1>3, <1>4, <1>5, <1>6, <1>7, <1>8, <1>9, <1>10, <1>11, <1>12
  DEF Next, CallerStep, StartStep

LEMMA WithheldStep ==
  ASSUME NEW s \in Callers, TypeOK, StarterInv(s), StepInv, NoStepWithheld, [Next]_vars
  PROVE  NoStepWithheld'
<1> USE ControlAssumption
    DEF TypeOK, LabelsOK, DataOK, NoStepWithheld, Threads, Goto, Return, Finished, call, futures,
        pausing, data
<1>1. \A r \in Runs : Active(r) /\ isPaused => numStepRequests = 0
  BY DEF StepInv, PausedAtZero, StarterInv, StartsAlone, Starting
<1>2. \A q, r \in Runs : runPc[q] = "paused" /\ runPc[r] = "paused" => q = r
  BY DEF StarterInv, SimulatorIsTheRun, Active
<1>3. ASSUME NotifyPaused, UNCHANGED runPc PROVE NoStepWithheld'
  <2>1. \A r \in Runs : runPc[r] = "paused" => r \in notified'
    BY <1>2, <1>3 DEF NotifyPaused
  <2> QED BY <1>3, <2>1
<1>4. ASSUME UNCHANGED <<runPc, numStepRequests>>, notified \subseteq notified'
      PROVE  NoStepWithheld'
  BY <1>4
<1>5. ASSUME NEW t \in Callers, NEW o \in Operations, Call(t, o) PROVE NoStepWithheld'
  BY <1>5 DEF Call
<1>6. ASSUME NEW t \in Threads, StartStep(t) PROVE NoStepWithheld'
  <2>1. CASE ResetRequests(t)
    <3>1. t \in Callers /\ pc[t] \in Starting
      BY <2>1 DEF ResetRequests, StarterInv, NobodyRestarts, Starting
    <3>2. \A r \in Runs : runPc[r] # "paused"
      BY <3>1 DEF StarterInv, StartsAlone, Active
    <3> QED BY <2>1, <3>2 DEF ResetRequests
  <2>2. CASE Launch(t)
    BY <2>2 DEF Launch
  <2>3. CASE CheckRunning(t) \/ Setup(t) \/ LockStatus(t) \/ SetPaused(t) \/ AssignSimulator(t)
    BY <2>3 DEF CheckRunning, Setup, LockStatus, SetPaused, AssignSimulator
  <2> QED BY <1>6, <2>1, <2>2, <2>3 DEF StartStep
<1>7. ASSUME NEW t \in Callers, StopStep(t) PROVE NoStepWithheld'
  <2>1. UNCHANGED <<runPc, numStepRequests>> /\ notified \subseteq notified'
    BY <1>7 DEF StopStep, StopRequested, RecordCause, RequestStop, Unpause, AwaitEnd, EndSeen,
                AfterStop, NotifyPaused
  <2> QED BY <1>4, <2>1
<1>8. ASSUME NEW t \in Callers, ActStep(t) PROVE NoStepWithheld'
  <2>1. CASE Step(t)
    <3>1. \/ UNCHANGED <<runPc, numStepRequests, notified>>
          \/ NotifyPaused /\ UNCHANGED runPc
      BY <2>1 DEF Step
    <3> QED BY <1>3, <3>1
  <2>2. CASE Resume(t)
    BY <2>2 DEF Resume
  <2>3. CASE Pause(t) \/ Upload(t) \/ SetSettings(t) \/ NotifyAction(t)
    BY <2>3 DEF Pause, Upload, SetSettings, NotifyAction
  <2> QED BY <1>8, <2>1, <2>2, <2>3 DEF ActStep
<1>9. ASSUME NEW t \in Callers, RestartStep(t) PROVE NoStepWithheld'
  BY <1>9 DEF RestartStep, CheckRestart, SavePaused, LaunchRestart, AssignRestarter
<1>10. ASSUME NEW k \in Restarters, RestartWait(k) \/ RestartCheck(k) PROVE NoStepWithheld'
  BY <1>10 DEF RestartWait, RestartCheck
<1>11. ASSUME NEW r \in Runs, LoopStep(r) PROVE NoStepWithheld'
  <2>1. CASE LoopCount(r)
    <3>1. runPc'[r] = "paused" => numStepRequests' = 0
      BY <1>1, <2>1 DEF LoopCount, RunTo, Active
    <3>2. /\ UNCHANGED notified
          /\ numStepRequests' > 0 => numStepRequests > 0
          /\ \A q \in Runs \ {r} : runPc'[q] = runPc[q]
      BY <2>1 DEF LoopCount, RunTo
    <3> QED BY <3>1, <3>2
  <2>2. CASE LoopWake(r)
    BY <1>1, <2>2 DEF LoopWake, RunTo, Active
  <2>3. CASE ~LoopCount(r) /\ ~LoopWake(r)
    BY <1>11, <2>3 DEF LoopStep, RunTo, LoopBegin, LoopEvent, LoopCheck, LockStopCause,
                       PublishStop, LoopCleanup, LoopStopped, LoopEnd
  <2> QED BY <2>1, <2>2, <2>3
<1>12. CASE UNCHANGED vars
  BY <1>12 DEF vars
<1> QED
  BY <1>5, <1>6, <1>7, <1>8, <1>9, <1>10, <1>11, <1>12 DEF Next, CallerStep, RestarterStep

(* Step requests that overlap with the loop counting them down are never    *)
(* left in the counter of a sleeping loop, for any number of callers.       *)
THEOREM StepsAreNotWithheld ==
  ASSUME NEW s \in Callers, SingleStarter(s), NobodyPauses
  PROVE  Spec => []NoStepWithheld
<1>1. Init => StepInv /\ NoStepWithheld
  BY ControlAssumption DEF Init, StepInv, PausedAtZero, NoStepWithheld, Threads
<1>2. TypeOK /\ StarterInv(s) /\ StepInv /\ [Next]_vars => StepInv'
  BY CounterStep
<1>3. TypeOK /\ StarterInv(s) /\ StepInv /\ NoStepWithheld /\ [Next]_vars => NoStepWithheld'
  BY WithheldStep
<1>4. QED BY <1>1, <1>2, <1>3, StarterInvariant, PTL DEF Spec

-----------------------------------------------------------------------------
(* Restarts: a restarting thread that runs is the one in mRestarter, except *)
(* while a caller exchanges the futures, which it does under the lock.      *)

RestartersKnown ==
  \A k \in Restarters : pc[k] \notin {"none", "done"} =>
    \/ restarter = k
    \/ \E t \in Callers : pc[t] \in {"swap", "reassign"} /\ waitsFor[t] = k

LEMMA KnownStep ==
  ASSUME TypeOK, RestartersKnown, [Next]_vars
  PROVE  RestartersKnown'
<1> USE ControlAssumption
    DEF TypeOK, LabelsOK, DataOK, RestartersKnown, Threads, Goto, call, futures
<1>1. ASSUME NEW t \in Threads, NEW l, pc[t] \notin {"none", "done", "swap", "reassign"},
             Goto(t, l), UNCHANGED <<restarter, waitsFor>>
      PROVE  RestartersKnown'
  BY <1>1
<1>2. ASSUME NEW t \in Callers, NEW o \in Operations, Call(t, o) PROVE RestartersKnown'
  BY <1>1, <1>2 DEF Call
<1>3. ASSUME NEW t \in Threads, StartStep(t) PROVE RestartersKnown'
  <2>1. CASE Launch(t)
    <3>1. /\ pc[t] \notin {"none", "done", "swap", "reassign"} /\ UNCHANGED restarter
          /\ \A u \in Threads \ {t} : pc'[u] = pc[u] /\ waitsFor'[u] = waitsFor[u]
      BY <2>1 DEF Launch, Return
    <3> QED BY <3>1
  <2>2. CASE ~Launch(t)
    <3>1. /\ pc[t] \notin {"none", "done", "swap", "reassign"} /\ UNCHANGED <<restarter, waitsFor>>
          /\ \E l : Goto(t, l)
      BY <1>3, <2>2 DEF StartStep, CheckRunning, Setup, ResetRequests, LockStatus, SetPaused,
                        AssignSimulator, Return
    <3> QED BY <1>1, <3>1
  <2> QED BY <2>1, <2>2
<1>4. ASSUME NEW t \in Callers, StopStep(t) \/ ActStep(t) \/ CheckRestart(t) \/ SavePaused(t)
      PROVE  RestartersKnown'
  <2>1. /\ pc[t] \notin {"none", "done", "swap", "reassign"} /\ UNCHANGED <<restarter, waitsFor>>
        /\ \E l : Goto(t, l)
    BY <1>4 DEF StopStep, StopRequested, RecordCause, RequestStop, Unpause, AwaitEnd, EndSeen,
                AfterStop, ActStep, Step, Pause, Resume, Upload, SetSettings, NotifyAction,
                CheckRestart, SavePaused, Return
  <2> QED BY <1>1, <2>1
<1>5. ASSUME NEW t \in Callers, LaunchRestart(t) PROVE RestartersKnown'
  <2>1. PICK k \in Restarters : /\ pc' = [pc EXCEPT ![k] = "wait", ![t] = "swap"]
                                /\ waitsFor' = [waitsFor EXCEPT ![t] = k]
    BY <1>5 DEF LaunchRestart
  <2>2. pc'[t] = "swap" /\ waitsFor'[t] = k
    BY <2>1
  <2>3. \A j \in Restarters \ {k} : pc'[j] \notin {"none", "done"} => restarter' = j
    BY <1>5, <2>1 DEF LaunchRestart, RestarterFree, At
  <2> QED BY <2>2, <2>3
<1>6. ASSUME NEW t \in Callers, AssignRestarter(t) PROVE RestartersKnown'
  <2>1. CASE pc[t] = "swap"
    <3>1. /\ restarter' = waitsFor[t] /\ waitsFor' = [waitsFor EXCEPT ![t] = restarter]
          /\ RestartIsRunning => pc' = [pc EXCEPT ![t] = "reassign"]
          /\ ~RestartIsRunning => pc' = [pc EXCEPT ![t] = Finished(t)]
      BY <1>6, <2>1 DEF AssignRestarter, Return
    <3>2. \A u \in Threads \ {t} : pc'[u] = pc[u] /\ waitsFor'[u] = waitsFor[u]
      BY <3>1
    <3>3. ASSUME NEW k \in Restarters, pc'[k] \notin {"none", "done"}, restarter = k
          PROVE  pc'[t] = "reassign" /\ waitsFor'[t] = k
      BY <3>1, <3>2, <3>3 DEF RestartIsRunning
    <3> QED BY <3>1, <3>2, <3>3
  <2>2. CASE pc[t] = "reassign"
    <3>1. /\ UNCHANGED <<restarter, waitsFor>> /\ pc[waitsFor[t]] = "done"
          /\ \A u \in Threads \ {t} : pc'[u] = pc[u]
      BY <1>6, <2>2 DEF AssignRestarter, Return
    <3> QED BY <3>1
  <2> QED BY <1>6, <2>1, <2>2 DEF AssignRestarter
<1>7. ASSUME NEW k \in Restarters, RestartWait(k) \/ RestartCheck(k) PROVE RestartersKnown'
  <2>1. /\ pc[k] \notin {"none", "done", "swap", "reassign"} /\ UNCHANGED <<restarter, waitsFor>>
        /\ \E l : Goto(k, l)
    BY <1>7 DEF RestartWait, RestartCheck, Return
  <2> QED BY <1>1, <2>1
<1>8. CASE (\E r \in Runs : LoopStep(r)) \/ UNCHANGED vars
  <2>1. UNCHANGED <<pc, restarter, waitsFor>>
    BY <1>8 DEF vars, LoopStep, LoopBegin, LoopEvent, LoopCheck, LockStopCause, PublishStop,
                LoopCount, LoopWake, LoopCleanup, LoopStopped, LoopEnd
  <2> QED BY <2>1
<1> QED
  BY <1>2, <1>3, <1>4, <1>5, <1>6, <1>7, <1>8 DEF Next, CallerStep, RestarterStep, RestartStep

(* Only its own look at mRestarter takes a restarting thread from           *)
(* "ispaused" to "launch".                                                  *)
LEMMA RestarterLooks ==
  ASSUME TypeOK, [Next]_vars, NEW k \in Restarters, pc[k] = "ispaused", pc'[k] = "launch"
  PROVE  SetPaused(k)
<1> USE ControlAssumption DEF TypeOK, LabelsOK, Threads, Goto, Return, Finished, call
<1>1. ASSUME NEW t \in Callers, CallerStep(t) \/ \E o \in Operations : Call(t, o)
      PROVE  pc'[k] = pc[k]
  BY <1>1 DEF CallerStep, StartStep, CheckRunning, Setup, ResetRequests, LockStatus, SetPaused,
              Launch, AssignSimulator, StopStep, StopRequested, RecordCause, RequestStop, Unpause,
              AwaitEnd, EndSeen, AfterStop, RestartStep, CheckRestart, SavePaused, LaunchRestart,
              AssignRestarter, ActStep, Step, Pause, Resume, Upload, SetSettings, NotifyAction, Call
<1>2. ASSUME NEW j \in Restarters, RestarterStep(j), j # k PROVE pc'[k] = pc[k]
  BY <1>2 DEF RestarterStep, RestartWait, RestartCheck, StartStep, CheckRunning, Setup,
              ResetRequests, LockStatus, SetPaused, Launch, AssignSimulator
<1>3. ASSUME RestarterStep(k) PROVE SetPaused(k)
  BY <1>3 DEF RestarterStep, RestartWait, RestartCheck, StartStep, CheckRunning, Setup,
              ResetRequests, LockStatus, Launch, AssignSimulator
<1>4. CASE (\E r \in Runs : LoopStep(r)) \/ UNCHANGED vars
  BY <1>4 DEF vars, LoopStep, LoopBegin, LoopEvent, LoopCheck, LockStopCause, PublishStop,
              LoopCount, LoopWake, LoopCleanup, LoopStopped, LoopEnd
<1> QED BY <1>1, <1>2, <1>3, <1>4 DEF Next

(* A restarting thread always finds its own future in mRestarter, so the    *)
(* new simulation inherits the pause of the old one, for any number of      *)
(* callers and of overlapping restarts.                                     *)
THEOREM RestartInheritsPause == Spec => RestartKeepsPause
<1>1. Init => RestartersKnown
  BY ControlAssumption DEF Init, RestartersKnown, Threads
<1>2. TypeOK /\ RestartersKnown /\ [Next]_vars => RestartersKnown'
  BY KnownStep
<1>3. TypeOK /\ RestartersKnown /\ [Next]_vars =>
        [\A k \in Restarters : pc[k] = "ispaused" /\ pc'[k] = "launch" => isPaused' = wasPaused]_vars
  <2> SUFFICES ASSUME TypeOK, RestartersKnown, [Next]_vars,
                      NEW k \in Restarters, pc[k] = "ispaused", pc'[k] = "launch"
               PROVE  isPaused' = wasPaused
    OBVIOUS
  <2>1. SetPaused(k)
    BY RestarterLooks
  <2>2. restarter = k
    BY <2>1 DEF SetPaused, RestarterFree, At, RestartersKnown, Threads
  <2>3. RestartIsRunning
    BY <2>2, ControlAssumption DEF RestartIsRunning
  <2> QED BY <2>1, <2>3 DEF SetPaused
<1>4. QED BY <1>1, <1>2, <1>3, ControlTypes, PTL DEF Spec, RestartKeepsPause
=============================================================================
