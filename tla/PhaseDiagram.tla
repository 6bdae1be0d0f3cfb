---------------------------- MODULE PhaseDiagram ----------------------------
(***************************************************************************)
(* The scenario logic: a tree of phases that the simulation thread updates *)
(* when it processes the start event and every scenario update event       *)
(* (Phase.h, Phase.cpp, Action.h, Action.cpp, PhaseDiagramExecutor.cpp).   *)
(*                                                                         *)
(* The recursive calls of Phase::Update are a sequence of tasks, todo, of  *)
(* which the simulation thread takes the first one: "update" a phase,      *)
(* "join" a child that has been updated, "finish" the update of a running  *)
(* phase.  Between two tasks a client's thread may report the completion   *)
(* of an action; such a report reads the status of the action, writes it   *)
(* and publishes it in three steps, and the simulation thread publishes    *)
(* the ends that it has written in steps of their own: no lock protects    *)
(* the status of an action.  An exception ends the scenario.               *)
(*                                                                         *)
(* A diagram d has the fields root; phase, with for each phase the record  *)
(* [kind, children, operations, start, end, actor, mode, actions]; action, *)
(* with [kind, interval, condition, continuous, instantaneous, parameter]; *)
(* conditions; parent, the parent of each actor; events, those that        *)
(* clients may send; motions, the speeds and positions that clients may    *)
(* give to the actors; reported, the actions that clients may report as    *)
(* complete; parameters, those of each actor and of each behavior; and     *)
(* simulink, the actors whose behavior is a Simulink agent.                *)
(***************************************************************************)
EXTENDS RaceTrack

CONSTANTS
  Diagrams,  \* the scenarios that may have been uploaded
  StepSize,  \* the simulation time of a step, in the unit of the tolerance
  MaxSteps   \* bound on the steps of a run

\* Steps are longer than the tolerance of comparisons, which is a thousandth.
ASSUME StepAssumption == StepSize \in Nat /\ StepSize > Tolerance

VARIABLES
  diagram,
  mState, mPosition, mExecOrder, mIsInitPending, mChildrenDone,   \* phases
  mEventStatus,             \* actions
  mCondition, sample,       \* mState of each condition, and what it has sampled
  mHasPhaseStateTransition, mPhasesToDispatch, mPhasesInProcess,  \* the executor
  mUserDefinedEvents,
  now, created, motion, parameters, emitted,  \* the simulation
  stage, todo, sending,     \* the simulation thread
  outcome,
  report,                   \* the action that a client's thread is completing
  written,                  \* whether that thread has written the action's status
  published, notified,      \* what the clients have been told
  owed,                     \* the ends that the simulation thread has still to publish
  ranAt                     \* the step on which each phase has begun to run

phases == <<mState, mPosition, mExecOrder, mIsInitPending, mChildrenDone>>
conditions == <<mCondition, sample>>
executor == <<mHasPhaseStateTransition, mPhasesToDispatch, mPhasesInProcess, mUserDefinedEvents>>
simulation == <<now, created, motion, parameters, emitted, ranAt>>
clients == <<report, written, published, notified, owed>>
vars == <<diagram, phases, mEventStatus, conditions, executor, simulation,
          stage, todo, sending, outcome, clients>>

Phases == DOMAIN diagram.phase
ActionIds == DOMAIN diagram.action
NoPhase == "none"
NoAction == "none"
Nothing == "nothing"
Terminal == {"skipped", "interrupted", "done"}

Kind(p) == diagram.phase[p].kind
IsActionPhase(p) == Kind(p) \in {"drive", "system"}

\* The actions of a phase by their interval; those of a system phase are all final.
ActionsOf(p, interval) ==
  {a \in ToSet(diagram.phase[p].actions) : diagram.action[a].interval = interval}
Final(p) == ActionsOf(p, "end")

\* The phases right below a phase.
Nested(d, p) == ToSet(d.phase[p].children) \cup ToSet(d.phase[p].operations)

\* The data model nests phases in phases and puts the actions at the leaves; CreatePhase
\* refuses other kinds of phases, and RegisterPhase ids that are used twice.  CreateActor
\* throws for an actor that the scenario does not know; no phase here names one.
ASSUME DiagramAssumption ==
  \A d \in Diagrams :
    LET Ps == DOMAIN d.phase
    IN  /\ d.root \in Ps /\ NoPhase \notin Ps /\ NoAction \notin DOMAIN d.action
        /\ \A p \in Ps :
             /\ d.phase[p].kind \in {"mix", "serial", "drive", "system"}
             /\ d.phase[p].children \in Seq(Ps \ {d.root})
             /\ d.phase[p].operations \in Seq(Ps \ {d.root})
             /\ IsInjective(d.phase[p].children \o d.phase[p].operations)
             /\ d.phase[p].actions \in Seq(DOMAIN d.action)
             /\ d.phase[p].kind = "drive" => d.phase[p].actor \in DOMAIN d.parent
             /\ \A q \in Ps \ {p} :
                  /\ Nested(d, p) \cap Nested(d, q) = {}
                  /\ ToSet(d.phase[p].actions) \cap ToSet(d.phase[q].actions) = {}
        /\ \A S \in SUBSET Ps : S # {} => \E p \in S : Nested(d, p) \cap S = {}

\* The phases and actions that have a condition, and what for.
UsesOf(d, c) ==
  {<<p, "start">> : p \in {p \in DOMAIN d.phase : d.phase[p].start = c}}
    \cup {<<p, "end">> : p \in {p \in DOMAIN d.phase : d.phase[p].end = c}}
    \cup {<<a, "action">> : a \in {a \in DOMAIN d.action : d.action[a].condition = c}}

(***************************************************************************)
(* The conditions of phases and of actions are those of the data model     *)
(* that are no operands; each is created for one phase or action.          *)
(***************************************************************************)
ASSUME ConditionAssumption ==
  \A d \in Diagrams :
    LET possible == Whole(d.conditions) \cup {NoCondition}
    IN  /\ AreTrees(d.conditions) /\ NoCondition \notin DOMAIN d.conditions
        /\ \A p \in DOMAIN d.phase : d.phase[p].start \in possible /\ d.phase[p].end \in possible
        /\ \A a \in DOMAIN d.action : d.action[a].condition \in possible
        /\ \A c \in DOMAIN d.conditions : \A x, y \in UsesOf(d, c) : x = y

Task(do, p, child) == [do |-> do, phase |-> p, child |-> child]
Update(p) == Task("update", p, p)

-----------------------------------------------------------------------------
Init ==
  /\ diagram \in Diagrams
  /\ mState = [p \in Phases |-> "idle"]
  /\ mPosition = [p \in Phases |-> 1]
  /\ mExecOrder = [p \in Phases |-> << >>]
  /\ mIsInitPending = [p \in Phases |-> ActionsOf(p, "start") # {}]
  /\ mChildrenDone = [p \in Phases |-> FALSE]
  /\ mEventStatus = [a \in ActionIds |-> "unspecified"]
  /\ mCondition = [c \in DOMAIN diagram.conditions |-> "not yet evaluated"]
  /\ sample = [c \in DOMAIN diagram.conditions |-> 0]
  /\ mHasPhaseStateTransition = FALSE /\ mPhasesToDispatch = {} /\ mPhasesInProcess = {}
  /\ mUserDefinedEvents = << >>
  /\ now = 0 /\ created = {} /\ motion \in diagram.motions
  /\ parameters = diagram.parameters /\ emitted = {}
  /\ stage = "new" /\ todo = << >> /\ sending = NoPhase
  /\ outcome = "running"
  /\ report = NoAction /\ written = FALSE /\ published = {}
  /\ notified = [a \in ActionIds |-> << >>] /\ owed = [a \in ActionIds |-> Nothing]
  /\ ranAt = [p \in Phases |-> 0]

-----------------------------------------------------------------------------
(* Actions of phases. *)

HasCompleted(status, p) ==
  IF IsActionPhase(p) THEN \A a \in Final(p) : status[a] \in Terminal ELSE mChildrenDone[p]

\* What a check reads, given the statuses of the actions.
World(status) ==
  [actors |-> created, speed |-> motion.speed, position |-> motion.position,
   parent |-> diagram.parent, parameters |-> parameters, simulink |-> diagram.simulink,
   phases |-> mState,
   completed |-> {p \in Phases : HasCompleted(status, p)},
   now |-> now, events |-> mUserDefinedEvents, sample |-> sample]

Ask(c, w) == IF c = NoCondition THEN "yes" ELSE Check(diagram.conditions, c, w)
StatesAfter(c, w, states) == StatesAfterChecks(diagram.conditions, {c} \ {NoCondition}, w, states)

CheckStatus(a, w) ==
  LET action == diagram.action[a]
  IN  CASE action.kind = "position"    -> "error"
        [] action.kind = "userDefined" -> Truth(action.instantaneous)
        [] OTHER -> Ask(action.condition, w)

\* The conditions that CheckStatus asks about.
AskedBy(actions) ==
  {diagram.action[a].condition :
     a \in {a \in actions : diagram.action[a].kind \notin {"position", "userDefined"}}}
    \ {NoCondition}

StatesAfterActions(actions, w, states) ==
  StatesAfterChecks(diagram.conditions, AskedBy(actions), w, states)

HasRegularEnding(a) ==
  diagram.action[a].kind \in {"speed", "longitudinalDistance"} => ~ diagram.action[a].continuous

ControlDimensions(action) ==
  CASE action.kind \in {"laneChange", "lateralOffset"}   -> {"lateral"}
    [] action.kind \in {"speed", "longitudinalDistance"} -> {"longitudinal"}
    [] OTHER -> {}

\* Two actions of one actor.
InConflictWith(a, b) ==
  LET old == diagram.action[a]
      new == diagram.action[b]
  IN  IF old.kind = "changeParameter"
      THEN new.kind = "changeParameter" /\ old.parameter.name = new.parameter.name
      ELSE ControlDimensions(old) \cap ControlDimensions(new) # {}

\* Preempt: what becomes of the statuses, and what the clients are told.
Preempted(actions, status) ==
  [a \in ActionIds |->
     CASE a \in actions /\ status[a] = "unspecified" -> "skipped"
       [] a \in actions /\ status[a] = "dispatched"  -> "interrupted"
       [] OTHER -> status[a]]

Completed(actions, status) ==
  [a \in ActionIds |-> IF a \in actions /\ status[a] = "dispatched" THEN "done" ELSE status[a]]

DispatchFinalActions(p, status) ==
  [a \in ActionIds |->
     IF a \in Final(p) /\ status[a] = "unspecified" THEN "dispatched" ELSE status[a]]

\* NotifyActionComplete is to publish the end of an actor's action that had been dispatched.
IsActorAction(a) == \E p \in Phases : Kind(p) = "drive" /\ a \in Final(p)

\* Mutant: only completed actions are reported.
Owed_Done(status) ==
  [a \in ActionIds |->
     IF IsActorAction(a) /\ mEventStatus[a] = "dispatched" /\ status[a] = "done"
     THEN status[a] ELSE owed[a]]

Owed(status) ==
  [a \in ActionIds |->
     IF IsActorAction(a) /\ mEventStatus[a] = "dispatched" /\ status[a] # "dispatched"
     THEN status[a] ELSE owed[a]]

NothingOwed == \A a \in ActionIds : owed[a] = Nothing

-----------------------------------------------------------------------------
(* The simulation thread begins to process an event. *)

ThreadDone == todo = << >> /\ outcome = "running" /\ NothingOwed

\* The start event precedes every event that clients have sent.
BeginStart ==
  /\ ThreadDone /\ stage = "new"
  /\ stage' = "start" /\ todo' = <<Update(diagram.root)>>
  /\ mHasPhaseStateTransition' = FALSE
  /\ UNCHANGED <<diagram, phases, mEventStatus, conditions, mPhasesToDispatch, mPhasesInProcess,
                 mUserDefinedEvents, simulation, sending, outcome, clients>>

\* Before the next update event, a step has committed what clients have sent.
BeginUpdate ==
  /\ ThreadDone /\ stage = "idle" /\ now < MaxSteps * StepSize
  /\ now' = now + StepSize
  /\ motion' \in diagram.motions
  /\ \E sent \in SUBSET diagram.events : mUserDefinedEvents' \in SetToSeqs(sent \cup emitted)
  /\ emitted' = {}
  /\ stage' = "update" /\ todo' = <<Update(diagram.root)>>
  /\ mHasPhaseStateTransition' = FALSE
  /\ UNCHANGED <<diagram, phases, mEventStatus, conditions, mPhasesToDispatch, mPhasesInProcess,
                 created, parameters, ranAt, sending, outcome, clients>>

First(do, p, state) ==
  /\ todo # << >> /\ Head(todo).do = do /\ Head(todo).phase = p
  /\ mState[p] = state

Throw(what) ==
  /\ outcome' = what /\ todo' = << >>
  /\ UNCHANGED <<diagram, phases, mEventStatus, conditions, executor, simulation, stage, sending,
                 clients>>

(***************************************************************************)
(* Phase::Update of a phase in each of its states.  A phase that changes   *)
(* its state is updated again; an ended one has nothing to do.             *)
(***************************************************************************)
OnStart(p) ==
  LET c == diagram.phase[p].start
      w == World(mEventStatus)
  IN  /\ First("update", p, "idle")
      /\ IF c # NoCondition /\ ~ CanApply(diagram.conditions, c, w) THEN Throw("error")
         ELSE /\ mState' = [mState EXCEPT ![p] = "start"]
              /\ sample' = SamplesAfterApply(diagram.conditions, {c} \ {NoCondition}, w)
              /\ mHasPhaseStateTransition' = TRUE
              /\ UNCHANGED <<diagram, mPosition, mExecOrder, mIsInitPending, mChildrenDone,
                             mEventStatus, mCondition, mPhasesToDispatch, mPhasesInProcess,
                             mUserDefinedEvents, simulation, stage, todo, sending, outcome,
                             clients>>

KeepWaiting(p) ==
  LET c == diagram.phase[p].start
      w == World(mEventStatus)
  IN  /\ First("update", p, "start")
      /\ Ask(c, w) = "no"
      /\ mCondition' = StatesAfter(c, w, mCondition)
      /\ todo' = Tail(todo)
      /\ UNCHANGED <<diagram, phases, mEventStatus, sample, executor, simulation, stage, sending,
                     outcome, clients>>

UpdateEnded(p) ==
  /\ First("update", p, "end")
  /\ todo' = Tail(todo)
  /\ UNCHANGED <<diagram, phases, mEventStatus, conditions, executor, simulation, stage, sending,
                 outcome, clients>>
-----------------------------------------------------------------------------
(* A phase runs. *)

\* Simulation::InitializeActor creates the actor of a drive phase, unless the behavior of
\* its parent creates it.
MustCreate(p) ==
  /\ Kind(p) = "drive" /\ diagram.phase[p].actor \notin created
  /\ diagram.phase[p].mode # "noCreate"
  /\ diagram.parent[diagram.phase[p].actor] \notin DOMAIN diagram.parent

InitialSpeeds(p) ==
  SelectSeq(diagram.phase[p].actions,
            LAMBDA a : a \in ActionsOf(p, "start") /\ diagram.action[a].kind = "speed")

InitialSpeedConditions(p) ==
  [i \in DOMAIN InitialSpeeds(p) |-> diagram.conditions[diagram.action[InitialSpeeds(p)[i]].condition]]

CannotInitialize(p) ==
  \/ /\ Kind(p) = "drive"
     /\ diagram.phase[p].mode = "create" /\ diagram.phase[p].actor \in created
  \/ /\ Kind(p) = "drive"
     /\ diagram.phase[p].mode = "noCreate" /\ diagram.phase[p].actor \notin created
  \/ /\ MustCreate(p)
     /\ \/ InitialSpeeds(p) = << >>
        \/ \E c \in ToSet(InitialSpeedConditions(p)) : IsRelative(c) /\ c.ref \notin created

CreatedBy(p) ==
  LET actor == diagram.phase[p].actor
  IN  {actor} \cup {b \in DOMAIN diagram.parent : IsParentOrAncestor(diagram.parent, actor, b)}

\* The world once the actor exists and the phase runs.
RunWorld(p, status) ==
  LET w == World(status)
  IN  [w EXCEPT !.phases[p] = "run",
                !.actors = IF MustCreate(p) THEN created \cup CreatedBy(p) ELSE created,
                !.speed = IF MustCreate(p)
                          THEN [motion.speed EXCEPT ![diagram.phase[p].actor] =
                                  EnforcedSpeed(Last(InitialSpeedConditions(p)), w)]
                          ELSE motion.speed]

\* The conditions that Phase::OnRun and ActionPhase::OnRun apply.
\* Mutant: the end condition has been applied when the phase started.
AppliedOnRun_NotEnd(p) ==
  {diagram.action[a].condition : a \in ToSet(diagram.phase[p].actions)} \ {NoCondition}

AppliedOnRun(p) ==
  ({diagram.phase[p].end} \cup
     {diagram.action[a].condition : a \in ToSet(diagram.phase[p].actions)}) \ {NoCondition}

\* ChangeParameterAction::Apply overwrites a parameter that exists, of the actor or of its
\* behavior.
ChangedParameters(p) ==
  LET actions == SelectSeq(diagram.phase[p].actions,
                           LAMBDA a : diagram.action[a].kind = "changeParameter")
      Change(ps, a) ==
        LET new == diagram.action[a].parameter
        IN  IF new.name \in DOMAIN ps[new.scope][diagram.phase[p].actor]
            THEN [ps EXCEPT ![new.scope][diagram.phase[p].actor][new.name] = new.value] ELSE ps
  IN  FoldLeft(Change, parameters, actions)

\* The end of a scenario is explained by the condition that has caused it, if any.
Explained(c, states, end) ==
  IF c # NoCondition /\ ~ CanSummarize(diagram.conditions, c, states) THEN "error" ELSE end

\* EmitAction::Apply sends an event, ScenarioSuccess and ScenarioFailure throw.
EmittedBy(p) == {diagram.action[a].parameter : a \in {a \in Final(p) : diagram.action[a].kind = "emit"}}
VerdictOf(p, states) ==
  LET actions == diagram.phase[p].actions
      verdicts == {i \in DOMAIN actions : /\ actions[i] \in Final(p)
                                         /\ diagram.action[actions[i]].kind \in {"success", "failure"}}
  IN  IF verdicts = {} THEN "running"
      ELSE Explained(diagram.phase[p].start, states, diagram.action[actions[Min(verdicts)]].kind)

(***************************************************************************)
(* The actions of a phase that conflict with one of a new phase of the     *)
(* same actor; NotifyActorActionPhaseStarted looks for them among the      *)
(* phases in process, or about to be.                                      *)
(***************************************************************************)
DetectConflict(q, p) ==
  IF diagram.phase[q].actor # diagram.phase[p].actor THEN {}
  ELSE {a \in Final(q) : \E b \in Final(p) : InConflictWith(a, b)}

\* Mutant: phases in process are not considered.
Rivals_ToDispatch(p) == UNION {DetectConflict(q, p) : q \in mPhasesToDispatch}

Rivals(p) == UNION {DetectConflict(q, p) : q \in mPhasesToDispatch \cup mPhasesInProcess}

OnRun(p) ==
  LET c == diagram.phase[p].start
      status == CASE Kind(p) = "drive"  -> Preempted(Rivals(p), mEventStatus)
                  [] Kind(p) = "system" -> DispatchFinalActions(p, mEventStatus)
                  [] OTHER -> mEventStatus
      w == RunWorld(p, status)
      applied == AppliedOnRun(p)
      samples == SamplesAfterApply(diagram.conditions, applied, w)
      checked == [w EXCEPT !.sample = samples, !.parameters = ChangedParameters(p)]
      initial == ActionsOf(p, "start")
      broken == \/ Ask(c, World(mEventStatus)) = "error"
                \/ CannotInitialize(p)
                \/ \E id \in applied : ~ CanApply(diagram.conditions, id, w)
                \/ \E a \in initial : CheckStatus(a, checked) = "error"
  IN  /\ First("update", p, "start")
      /\ Ask(c, World(mEventStatus)) # "no"
      /\ IF broken THEN Throw("error")
         ELSE /\ mState' = [mState EXCEPT ![p] = "run"]
              /\ ranAt' = [ranAt EXCEPT ![p] = now]
              /\ created' = w.actors
              /\ motion' = [motion EXCEPT !.speed = w.speed]
              /\ mEventStatus' = status
              /\ owed' = Owed(status)
              /\ mPhasesToDispatch' = mPhasesToDispatch \cup (IF Kind(p) = "drive" THEN {p} ELSE {})
              /\ sample' = samples
              /\ parameters' = ChangedParameters(p)
              /\ mCondition' = StatesAfterActions(initial, checked,
                                 StatesAfter(c, World(mEventStatus), mCondition))
              /\ emitted' = emitted \cup EmittedBy(p)
              /\ outcome' = VerdictOf(p, mCondition')
              /\ mHasPhaseStateTransition' = TRUE
              /\ todo' = IF outcome' = "running" THEN todo ELSE << >>
              /\ UNCHANGED <<diagram, mPosition, mExecOrder, mIsInitPending, mChildrenDone,
                             mPhasesInProcess, mUserDefinedEvents, now, stage, sending, report,
                             written, published, notified>>

-----------------------------------------------------------------------------
(* A running phase is updated: its children, its operations, then itself. *)

UpdateAndJoin(p, child) == <<Update(child), Task("join", p, child)>>

Rest(p) ==
  [i \in DOMAIN diagram.phase[p].operations |-> Update(diagram.phase[p].operations[i])]
    \o <<Task("finish", p, p)>> \o Tail(todo)

\* The first update of a parallel phase generates the execution orders.
OrderChildren(p) ==
  /\ First("update", p, "run") /\ Kind(p) = "mix" /\ mExecOrder[p] = << >>
  /\ \E deps \in {MemberDeps(diagram, p, created, mIsInitPending)} :
       IF SortResult(diagram, p, deps) # "sorted" THEN Throw(SortResult(diagram, p, deps))
       ELSE \E orders \in ExecOrders(diagram, p, deps) :
              /\ mExecOrder' = [q \in Phases |->
                                  IF q \in DOMAIN orders THEN orders[q] ELSE mExecOrder[q]]
              /\ UNCHANGED <<diagram, mState, mPosition, mIsInitPending, mChildrenDone,
                             mEventStatus, conditions, executor, simulation, stage, todo,
                             sending, outcome, clients>>

UpdateMix(p) ==
  LET order == mExecOrder[p]
      child(i) == diagram.phase[p].children[order[(i + 1) \div 2]]
      tasks == [i \in 1 .. 2 * Len(order) |->
                  IF i % 2 = 1 THEN Update(child(i)) ELSE Task("join", p, child(i))]
  IN  /\ First("update", p, "run") /\ Kind(p) = "mix" /\ order # << >>
      /\ mChildrenDone' = [mChildrenDone EXCEPT ![p] = TRUE]
      /\ todo' = tasks \o Rest(p)
      /\ UNCHANGED <<diagram, mState, mPosition, mExecOrder, mIsInitPending, mEventStatus,
                     conditions, executor, simulation, stage, sending, outcome, clients>>

UpdateSerial(p) ==
  LET children == diagram.phase[p].children
  IN  /\ First("update", p, "run") /\ Kind(p) = "serial"
      /\ todo' = (IF mPosition[p] <= Len(children) THEN UpdateAndJoin(p, children[mPosition[p]])
                  ELSE << >>) \o Rest(p)
      /\ UNCHANGED <<diagram, phases, mEventStatus, conditions, executor, simulation, stage,
                     sending, outcome, clients>>

\* An action phase checks its invariant actions; a violation is only logged.
UpdateActionPhase(p) ==
  LET invariants == ActionsOf(p, "invariant")
      w == World(mEventStatus)
  IN  /\ First("update", p, "run") /\ IsActionPhase(p)
      /\ IF \E a \in invariants : CheckStatus(a, w) = "error" THEN Throw("error")
         ELSE /\ mCondition' = StatesAfterActions(invariants, w, mCondition)
              /\ todo' = Rest(p)
              /\ UNCHANGED <<diagram, phases, mEventStatus, sample, executor, simulation, stage,
                             sending, outcome, clients>>

\* Mutant: a serial phase steps over its last child.
NextPosition_Past(p) == mPosition[p] + 2

NextPosition(p) == mPosition[p] + 1

Join(p) ==
  LET ended == mState[Head(todo).child] = "end"
      children == diagram.phase[p].children
      next == NextPosition(p)
  IN  /\ First("join", p, "run")
      /\ mPosition' = IF Kind(p) = "serial" /\ ended THEN [mPosition EXCEPT ![p] = next]
                      ELSE mPosition
      /\ mChildrenDone' = [mChildrenDone EXCEPT ![p] =
                            IF Kind(p) = "mix" THEN @ /\ ended ELSE @ \/ (ended /\ next > Len(children))]
      /\ todo' = (IF Kind(p) = "serial" /\ ended /\ next <= Len(children)
                  THEN UpdateAndJoin(p, children[next]) ELSE << >>) \o Tail(todo)
      /\ UNCHANGED <<diagram, mState, mExecOrder, mIsInitPending, mEventStatus, conditions,
                     executor, simulation, stage, sending, outcome, clients>>

\* The initial actions of a phase have to be dispatched before its end is evaluated.
SkipFirstUpdate(p) ==
  /\ First("finish", p, "run") /\ mIsInitPending[p]
  /\ mIsInitPending' = [mIsInitPending EXCEPT ![p] = FALSE]
  /\ todo' = Tail(todo)
  /\ UNCHANGED <<diagram, mState, mPosition, mExecOrder, mChildrenDone, mEventStatus, conditions,
                 executor, simulation, stage, sending, outcome, clients>>

(***************************************************************************)
(* UpdatePhaseStatus completes the final actions whose objective is met;   *)
(* then the phase ends if its end condition is satisfied or, when it has   *)
(* none, if it has completed.                                              *)
(***************************************************************************)
Open(p) == {a \in Final(p) : IsActionPhase(p) /\ mEventStatus[a] = "dispatched"}

StatusAfterUpdate(p) ==
  Completed({a \in Open(p) :
               CheckStatus(a, World(mEventStatus)) = "yes" /\ HasRegularEnding(a)},
            mEventStatus)

Ends(p) ==
  LET c == diagram.phase[p].end
      status == StatusAfterUpdate(p)
  IN  IF \E a \in Open(p) : CheckStatus(a, World(mEventStatus)) = "error" THEN "error"
      ELSE IF c = NoCondition THEN Truth(HasCompleted(status, p))
      ELSE Ask(c, World(status))

StatesAfterFinish(p) ==
  StatesAfter(diagram.phase[p].end, World(StatusAfterUpdate(p)),
              StatesAfterActions(Open(p), World(mEventStatus), mCondition))

KeepRunning(p) ==
  /\ First("finish", p, "run") /\ ~ mIsInitPending[p]
  /\ Ends(p) = "no"
  /\ mEventStatus' = StatusAfterUpdate(p)
  /\ owed' = Owed(mEventStatus')
  /\ mCondition' = StatesAfterFinish(p)
  /\ todo' = Tail(todo)
  /\ UNCHANGED <<diagram, phases, sample, executor, simulation, stage, sending, outcome, report,
                 written, published, notified>>
(***************************************************************************)
(* A phase ends with all that is below it: OnEnd of a parallel phase ends  *)
(* every child, of a serial one those that it has not passed.  The         *)
(* operations of a phase are not ended with it.                            *)
(***************************************************************************)
\* Mutant: the current child of a serial phase is taken for a passed one.
Remaining_Next(p) ==
  LET children == diagram.phase[p].children
  IN  {children[i] : i \in {i \in DOMAIN children : Kind(p) = "mix" \/ i > mPosition[p]}}

Remaining(p) ==
  LET children == diagram.phase[p].children
  IN  {children[i] : i \in {i \in DOMAIN children : Kind(p) = "mix" \/ i >= mPosition[p]}}

EndingWith(p) ==
  LET ending[q \in Phases] ==
        {q} \cup IF IsActionPhase(q) THEN {} ELSE UNION {ending[r] : r \in Remaining(q)}
  IN  ending[p]

\* NotifyActorActionPhaseEnded: running phases leave the executor's lists.
\* Mutant: a phase stays in process.
InProcessAfter_Stay(ending) == mPhasesInProcess

InProcessAfter(ending) == mPhasesInProcess \ {q \in ending : mState[q] = "run"}

OnEnd(p) ==
  LET ending == EndingWith(p)
      actions == UNION {Final(q) : q \in {q \in ending : IsActionPhase(q) /\ mState[q] # "end"}}
  IN  /\ First("finish", p, "run") /\ ~ mIsInitPending[p]
      /\ Ends(p) # "no"
      /\ IF Ends(p) = "error" THEN Throw("error")
         ELSE /\ mState' = [q \in Phases |-> IF q \in ending THEN "end" ELSE mState[q]]
              /\ mEventStatus' = Preempted(actions, StatusAfterUpdate(p))
              /\ owed' = Owed(mEventStatus')
              /\ mPhasesToDispatch' = mPhasesToDispatch \ {q \in ending : mState[q] = "run"}
              /\ mPhasesInProcess' = InProcessAfter(ending)
              /\ mCondition' = StatesAfterFinish(p)
              /\ mHasPhaseStateTransition' = TRUE
              /\ outcome' = IF p = diagram.root
                            THEN Explained(diagram.phase[p].end, mCondition', "success")
                            ELSE outcome
              /\ todo' = IF p = diagram.root THEN << >> ELSE Tail(todo)
              /\ UNCHANGED <<diagram, mPosition, mExecOrder, mIsInitPending, mChildrenDone,
                             sample, mUserDefinedEvents, simulation, stage, sending, report,
                             written, published, notified>>

-----------------------------------------------------------------------------
(***************************************************************************)
(* Super-step: an update event updates the root until nothing changes, the *)
(* start event updates it once.  Then the actions of new phases are        *)
(* dispatched.                                                             *)
(***************************************************************************)
\* Mutant: the root is updated once.
UpdatesAgain_Never == FALSE

\* Mutant: the root is updated again and again.
UpdatesAgain_Always == stage = "update"

UpdatesAgain == stage = "update" /\ mHasPhaseStateTransition

RepeatUpdate ==
  /\ ThreadDone /\ stage \in {"start", "update"} /\ UpdatesAgain
  /\ mHasPhaseStateTransition' = FALSE
  /\ todo' = <<Update(diagram.root)>>
  /\ UNCHANGED <<diagram, phases, mEventStatus, conditions, mPhasesToDispatch, mPhasesInProcess,
                 mUserDefinedEvents, simulation, stage, sending, outcome, clients>>

BeginDispatch ==
  /\ ThreadDone /\ stage \in {"start", "update"} /\ ~ UpdatesAgain
  /\ mUserDefinedEvents' = << >>
  /\ stage' = "dispatch"
  /\ UNCHANGED <<diagram, phases, mEventStatus, conditions, mHasPhaseStateTransition,
                 mPhasesToDispatch, mPhasesInProcess, simulation, todo, sending, outcome, clients>>

GetUnskippedActions(p) == {a \in ToSet(diagram.phase[p].actions) : mEventStatus[a] # "skipped"}

\* A phase all of whose actions have been skipped is passed over.
PassOver(p) ==
  /\ stage = "dispatch" /\ sending = NoPhase /\ p \in mPhasesToDispatch
  /\ GetUnskippedActions(p) = {}
  /\ mPhasesToDispatch' = mPhasesToDispatch \ {p}
  /\ UNCHANGED <<diagram, phases, mEventStatus, conditions, mHasPhaseStateTransition,
                 mPhasesInProcess, mUserDefinedEvents, simulation, stage, todo, sending, outcome,
                 clients>>

PublishActions(p) ==
  /\ stage = "dispatch" /\ sending = NoPhase /\ p \in mPhasesToDispatch
  /\ GetUnskippedActions(p) # {}
  /\ published' = published \cup GetUnskippedActions(p)
  /\ sending' = p
  /\ UNCHANGED <<diagram, phases, mEventStatus, conditions, executor, simulation, stage, todo,
                 outcome, report, written, notified, owed>>

PutInProcess(p) ==
  /\ sending = p /\ p \notin mPhasesInProcess
  /\ mPhasesInProcess' = mPhasesInProcess \cup {p}
  /\ UNCHANGED <<diagram, phases, mEventStatus, conditions, mHasPhaseStateTransition,
                 mPhasesToDispatch, mUserDefinedEvents, simulation, stage, todo, sending, outcome,
                 clients>>

NotifyActionEventDispatched(p) ==
  /\ sending = p /\ p \in mPhasesInProcess
  /\ mEventStatus' = DispatchFinalActions(p, mEventStatus)
  /\ sending' = NoPhase
  /\ mPhasesToDispatch' = mPhasesToDispatch \ {p}
  /\ UNCHANGED <<diagram, phases, conditions, mHasPhaseStateTransition, mPhasesInProcess,
                 mUserDefinedEvents, simulation, stage, todo, outcome, clients>>

EndDispatch ==
  /\ stage = "dispatch" /\ sending = NoPhase /\ mPhasesToDispatch = {}
  /\ stage' = "idle"
  /\ UNCHANGED <<diagram, phases, mEventStatus, conditions, executor, simulation, todo, sending,
                 outcome, clients>>

-----------------------------------------------------------------------------
(***************************************************************************)
(* PhaseDiagramExecutor::NotifyActionComplete for a client.  A report of   *)
(* an action that is in no phase in process, or that is not dispatched,    *)
(* changes nothing (one that is not yet dispatched is refused).            *)
(***************************************************************************)
ReportComplete(a) ==
  /\ report = NoAction /\ a \in published \cap diagram.reported
  /\ \E p \in mPhasesInProcess : a \in Final(p)
  /\ mEventStatus[a] = "dispatched"
  /\ report' = a
  /\ UNCHANGED <<diagram, phases, mEventStatus, conditions, executor, simulation, stage, todo,
                 sending, outcome, written, published, notified, owed>>

(***************************************************************************)
(* Action::Complete has read the status and goes on whatever has become of *)
(* it.  When the simulation thread has ended the action since, its write   *)
(* may have been the later one, as it has read the status before, too.     *)
(***************************************************************************)
WriteDone ==
  /\ report # NoAction /\ ~ written
  /\ \/ mEventStatus' = [mEventStatus EXCEPT ![report] = "done"]
     \/ mEventStatus[report] # "dispatched" /\ UNCHANGED mEventStatus
  /\ written' = TRUE
  /\ UNCHANGED <<diagram, phases, conditions, executor, simulation, stage, todo, sending, outcome,
                 report, published, notified, owed>>

\* What is published is the status that was written, or what has become of it.
PublishDone ==
  /\ report # NoAction /\ written
  /\ \E said \in {"done", mEventStatus[report]} :
       notified' = [notified EXCEPT ![report] = Append(@, said)]
  /\ report' = NoAction /\ written' = FALSE
  /\ UNCHANGED <<diagram, phases, mEventStatus, conditions, executor, simulation, stage, todo,
                 sending, outcome, published, owed>>

\* The simulation thread publishes an end that it has written, before it goes on.
PublishEnd(a) ==
  /\ owed[a] # Nothing
  /\ \E said \in {owed[a], mEventStatus[a]} :
       notified' = [notified EXCEPT ![a] = Append(@, said)]
  /\ owed' = [owed EXCEPT ![a] = Nothing]
  /\ UNCHANGED <<diagram, phases, mEventStatus, conditions, executor, simulation, stage, todo,
                 sending, outcome, report, written, published>>

-----------------------------------------------------------------------------
UpdatePhase(p) ==
  \/ OnStart(p) \/ KeepWaiting(p) \/ OnRun(p) \/ UpdateEnded(p)
  \/ OrderChildren(p) \/ UpdateMix(p) \/ UpdateSerial(p) \/ UpdateActionPhase(p)
  \/ Join(p) \/ SkipFirstUpdate(p) \/ KeepRunning(p) \/ OnEnd(p)

Dispatch(p) ==
  PassOver(p) \/ PublishActions(p) \/ PutInProcess(p) \/ NotifyActionEventDispatched(p)

ProcessEvent ==
  \/ \E a \in ActionIds : PublishEnd(a)
  \/ /\ NothingOwed
     /\ \/ \E p \in Phases : UpdatePhase(p) \/ Dispatch(p)
        \/ RepeatUpdate \/ BeginDispatch \/ EndDispatch

Complete == WriteDone \/ PublishDone

Client == Complete \/ \E a \in ActionIds : ReportComplete(a)

Next == BeginStart \/ BeginUpdate \/ ProcessEvent \/ Client

Spec == Init /\ [][Next]_vars

FairSpec == Spec /\ WF_vars(ProcessEvent) /\ WF_vars(Complete)

-----------------------------------------------------------------------------
Statuses == {"unspecified", "dispatched"} \cup Terminal

Outcomes == {"running", "success", "failure", "error", "unexpected error", "circular dependency"}

(* Types; a serial phase's position is at most one past its last child. *)
TypeOK ==
  /\ mState \in [Phases -> {"idle", "start", "run", "end"}]
  /\ \A p \in Phases : mPosition[p] \in 1 .. Len(diagram.phase[p].children) + 1
  /\ mIsInitPending \in [Phases -> BOOLEAN] /\ mChildrenDone \in [Phases -> BOOLEAN]
  /\ mEventStatus \in [ActionIds -> Statuses]
  /\ mCondition \in [DOMAIN diagram.conditions -> {"not yet evaluated", "yes", "no"}]
  /\ mPhasesToDispatch \subseteq Phases /\ mPhasesInProcess \subseteq Phases
  /\ created \subseteq DOMAIN diagram.parent
  /\ stage \in {"new", "start", "update", "dispatch", "idle"}
  /\ outcome \in Outcomes /\ sending \in Phases \cup {NoPhase}
  /\ report \in ActionIds \cup {NoAction} /\ written \in BOOLEAN /\ published \subseteq ActionIds
  /\ owed \in [ActionIds -> {Nothing, "interrupted", "done"}]

Children(p) == ToSet(diagram.phase[p].children)

(***************************************************************************)
(* The tree is consistent: a phase is only ever idle or ended under a      *)
(* parent that does not run, and below an ended one everything has ended;  *)
(* a serial phase has ended the children that it has passed and not begun  *)
(* those that it has not reached (Phase.cpp: MixPhase, SerialPhase).       *)
(***************************************************************************)
TreeConsistent ==
  \A p \in Phases : ~ IsActionPhase(p) =>
    /\ mState[p] \in {"idle", "start"} => \A q \in Children(p) : mState[q] = "idle"
    /\ mState[p] = "end" => \A q \in Children(p) : mState[q] = "end"
    /\ Kind(p) = "serial" /\ mState[p] = "run" =>
         \A i \in DOMAIN diagram.phase[p].children :
           LET q == diagram.phase[p].children[i]
           IN  /\ i < mPosition[p] => mState[q] = "end"
               /\ i > mPosition[p] => mState[q] = "idle"

(***************************************************************************)
(* Whatever phases run at the same time, two actions that control the same *)
(* thing of one actor are never both in force, that is dispatched or about *)
(* to be (DetectAndResolveConflict: LIFO/Preemptive policy).               *)
(***************************************************************************)
InForce(p) ==
  {a \in Final(p) : \/ mEventStatus[a] = "dispatched"
                    \/ mEventStatus[a] = "unspecified" /\ p \in mPhasesToDispatch}

NoConflictInForce ==
  \A p, q \in {p \in Phases : Kind(p) = "drive"} :
    p # q /\ diagram.phase[p].actor = diagram.phase[q].actor =>
      \A a \in InForce(p), b \in InForce(q) : ~ InConflictWith(a, b)

(***************************************************************************)
(* An ended phase of an actor has left the executor's lists, so that a     *)
(* later phase cannot preempt it and a client cannot complete it, and none *)
(* of its actions is left open (ActorActionPhase::OnEnd).                  *)
(***************************************************************************)
EndedPhasesAreClosed ==
  \A p \in Phases : Kind(p) = "drive" /\ mState[p] = "end" =>
    /\ p \notin mPhasesToDispatch \cup mPhasesInProcess
    /\ \A a \in Final(p) : mEventStatus[a] \in Terminal

(***************************************************************************)
(* What clients are told of an actor's action agrees with its status: they *)
(* hear of its end if and only if they have been told to execute it, and   *)
(* an action that was skipped has never been published.  Both threads may  *)
(* end the same action and then publish in any order, so that the last     *)
(* news may not be how the action has ended; but once neither of them has  *)
(* a publication left, that is among at most two news (Action::Preempt,    *)
(* Action::Complete).                                                      *)
(***************************************************************************)
PublicationPending(a) == owed[a] # Nothing \/ (report = a /\ written)

ClientsHearOfEnds ==
  \A a \in ActionIds : IsActorAction(a) =>
    /\ mEventStatus[a] = "skipped" => a \notin published
    /\ notified[a] # << >> => mEventStatus[a] \in {"interrupted", "done"}
    /\ mEventStatus[a] \in {"interrupted", "done"} =>
         /\ a \in published
         /\ PublicationPending(a) \/ mEventStatus[a] \in ToSet(notified[a])
    /\ Len(notified[a]) <= 2

(***************************************************************************)
(* The comment on both switches of Action::Preempt and Action::Complete:   *)
(* "Do nothing if the action is already in one of the completed states".   *)
(* A client's thread that has read the status before the simulation thread *)
(* interrupts the action writes it after.                                  *)
(***************************************************************************)
EndedActionsStay ==
  [][\A a \in ActionIds : mEventStatus[a] \in Terminal => mEventStatus'[a] = mEventStatus[a]]_vars

\* What the update of a running phase goes on to.
GoesOnTo(p) ==
  IF mState[p] # "run" THEN {}
  ELSE ToSet(diagram.phase[p].operations) \cup
       {diagram.phase[p].children[i] :
          i \in {i \in DOMAIN diagram.phase[p].children :
                   Kind(p) = "mix" \/ (Kind(p) = "serial" /\ i = mPosition[p])}}

Live ==
  LET live[p \in Phases] == {p} \cup UNION {live[q] : q \in GoesOnTo(p)}
  IN  live[diagram.root]

(***************************************************************************)
(* The comment in PhaseDiagramExecutor::ProcessEvent: the scenario is "in  *)
(* a stable status at the end of each step, in term that no feasible phase *)
(* state transition can further happen".  Conditions on the completion of  *)
(* actions are excepted, since clients complete actions at any moment.     *)
(***************************************************************************)
IsFeasible(c) ==
  /\ c # NoCondition
  /\ \A i \in Leaves(diagram.conditions, c) : diagram.conditions[i].kind # "actionsComplete"
  /\ Check(diagram.conditions, c, World(mEventStatus)) = "yes"

StableAfterUpdate ==
  (ThreadDone /\ stage = "update" /\ ~ UpdatesAgain) =>
    \A p \in Live :
      /\ mState[p] # "idle"
      /\ mState[p] = "start" => ~ IsFeasible(diagram.phase[p].start)
      /\ mState[p] = "run" => ~ IsFeasible(diagram.phase[p].end) /\ ~ mIsInitPending[p]

(***************************************************************************)
(* A phase that needs another phase's actor finds it: the scenario fails   *)
(* for want of an actor only while a phase that would create an actor is   *)
(* still waiting for its start condition (RaceTrack::Sort), or when the    *)
(* condition is one on a parameter, which registers no dependency.         *)
(***************************************************************************)
CreatorWaits ==
  \E p \in Phases : MustCreate(p) /\ mState[p] = "start" /\ diagram.phase[p].start # NoCondition

ParameterLacksActor ==
  \E c \in DOMAIN diagram.conditions :
    diagram.conditions[c].kind = "parameter" /\ diagram.conditions[c].actor \notin created

ActorsExistWhenNeeded == outcome = "error" => CreatorWaits \/ ParameterLacksActor

(***************************************************************************)
(* The reported states of conditions agree with each other, so that the    *)
(* summary of an ended scenario can name the cause (OrCondition and        *)
(* AndCondition::GetSummary throw otherwise).                              *)
(***************************************************************************)
ReportsAgree ==
  \A i \in DOMAIN diagram.conditions :
    LET c == diagram.conditions[i]
        answers == {mCondition[j] : j \in ToSet(c.operands)}
    IN  IsComposite(c) =>
          /\ c.kind = "or" /\ mCondition[i] = "yes" => "yes" \in answers
          /\ c.kind = "or" /\ mCondition[i] = "no" => answers = {"no"}
          /\ c.kind = "and" /\ mCondition[i] = "yes" => answers = {"yes"}
          /\ c.kind = "and" /\ mCondition[i] = "no" => "no" \in answers

(***************************************************************************)
(* A phase that ends by its own duration condition does so on the very     *)
(* first step on which the duration, but for the tolerance, has passed     *)
(* since the phase began to run.                                           *)
(***************************************************************************)
IsDuration(c) == c # NoCondition /\ diagram.conditions[c].kind = "duration"

DurationsAreExact ==
  [][\A p \in Phases :
       /\ todo # << >> /\ Head(todo) = Task("finish", p, p)
       /\ mState[p] = "run" /\ mState'[p] = "end" /\ IsDuration(diagram.phase[p].end)
       => LET least == diagram.conditions[diagram.phase[p].end].duration - Tolerance
          IN  now - ranAt[p] >= least /\ now - StepSize - ranAt[p] < least]_vars

(***************************************************************************)
(* The comment in Phase::DoRunUpdate on the initial actions of a phase:    *)
(* "These actions must be dispatched before we evaluate any end            *)
(* condition."  The flag behind it lasts for one update of the phase, and  *)
(* a super-step updates it again before anything is dispatched.            *)
(***************************************************************************)
InitialActionsPrecedeEnd ==
  [][\A p \in Phases :
       /\ todo # << >> /\ Head(todo) = Task("finish", p, p)
       /\ mState[p] = "run" /\ mState'[p] = "end" /\ ActionsOf(p, "start") # {}
       => ActionsOf(p, "start") \subseteq published]_vars

(***************************************************************************)
(* The thread gets to the end of every event: the super-step loop stops.   *)
(***************************************************************************)
EventsEnd == (stage \in {"start", "update", "dispatch"}) ~> (stage = "idle" \/ outcome # "running")
=============================================================================
