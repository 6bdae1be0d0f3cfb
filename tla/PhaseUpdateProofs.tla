-------------------------- MODULE PhaseUpdateProofs --------------------------
(***************************************************************************)
(* What the updates of a scenario achieve: the states that its conditions  *)
(* report agree with each other, every variable keeps its type, an update  *)
(* event ends only when no transition is left, and durations are exact.    *)
(***************************************************************************)
EXTENDS PhaseDiagramProofs, PhaseTreeProofs

-----------------------------------------------------------------------------
(* The states of conditions. *)

IsReport(d, states) ==
  states \in [DOMAIN d.conditions -> Reports] /\ Agree(d.conditions, states)

ReportInv == diagram \in Diagrams /\ IsReport(diagram, mCondition)

LEMMA ConditionFacts ==
  ASSUME NEW d \in Diagrams
  PROVE  /\ AreTrees(d.conditions) /\ NoCondition \notin DOMAIN d.conditions
         /\ Whole(d.conditions) \subseteq DOMAIN d.conditions
         /\ \A p \in DOMAIN d.phase : /\ {d.phase[p].start} \ {NoCondition} \subseteq Whole(d.conditions)
                                      /\ {d.phase[p].end} \ {NoCondition} \subseteq Whole(d.conditions)
         /\ \A a \in DOMAIN d.action :
              {d.action[a].condition} \ {NoCondition} \subseteq Whole(d.conditions)
<1>1. /\ AreTrees(d.conditions) /\ NoCondition \notin DOMAIN d.conditions
      /\ \A p \in DOMAIN d.phase : /\ d.phase[p].start \in Whole(d.conditions) \cup {NoCondition}
                                   /\ d.phase[p].end \in Whole(d.conditions) \cup {NoCondition}
      /\ \A a \in DOMAIN d.action : d.action[a].condition \in Whole(d.conditions) \cup {NoCondition}
  BY ConditionAssumption
<1>2. Whole(d.conditions) \subseteq DOMAIN d.conditions
  BY DEF Whole
<1>3. QED
  BY <1>1, <1>2

LEMMA ConditionChecked ==
  ASSUME diagram \in Diagrams, NEW c, {c} \ {NoCondition} \subseteq Whole(diagram.conditions),
         NEW w, Ask(c, w) # "error", NEW states, IsReport(diagram, states)
  PROVE  IsReport(diagram, StatesAfter(c, w, states))
<1> DEFINE ids == {c} \ {NoCondition}
<1>1. AreTrees(diagram.conditions) /\ ids \in SUBSET Whole(diagram.conditions)
  BY ConditionFacts
<1>2. \A id \in ids : Answers(diagram.conditions, w)[id] # "error"
  BY DEF Ask, Check
<1>3. states \in [DOMAIN diagram.conditions -> Reports] /\ Agree(diagram.conditions, states)
  BY DEF IsReport
<1> HIDE DEF ids
<1>4. /\ StatesAfterChecks(diagram.conditions, ids, w, states) \in [DOMAIN diagram.conditions -> Reports]
      /\ Agree(diagram.conditions, StatesAfterChecks(diagram.conditions, ids, w, states))
  BY <1>1, <1>2, <1>3, ChecksAgree
<1>5. QED
  BY <1>4 DEF IsReport, StatesAfter, ids

LEMMA ActionsChecked ==
  ASSUME diagram \in Diagrams, NEW actions \in SUBSET ActionIds, NEW w,
         \A a \in actions : CheckStatus(a, w) # "error", NEW states, IsReport(diagram, states)
  PROVE  IsReport(diagram, StatesAfterActions(actions, w, states))
<1> DEFINE ids == AskedBy(actions)
<1>1. AreTrees(diagram.conditions)
  BY ConditionFacts
<1>2. ASSUME NEW id \in ids
      PROVE  id \in Whole(diagram.conditions) /\ Answers(diagram.conditions, w)[id] # "error"
  <2>1. PICK a \in actions : /\ diagram.action[a].kind \notin {"position", "userDefined"}
                             /\ id = diagram.action[a].condition /\ id # NoCondition
    BY <1>2 DEF AskedBy
  <2>2. id \in Whole(diagram.conditions)
    BY <2>1, ConditionFacts DEF ActionIds
  <2>3. CheckStatus(a, w) = Ask(id, w)
    BY <2>1, Zenon DEF CheckStatus
  <2>4. QED
    BY <2>1, <2>2, <2>3 DEF Ask, Check
<1>3. states \in [DOMAIN diagram.conditions -> Reports] /\ Agree(diagram.conditions, states)
  BY DEF IsReport
<1> HIDE DEF ids
<1>4. ids \in SUBSET Whole(diagram.conditions) /\ \A id \in ids : Answers(diagram.conditions, w)[id] # "error"
  BY <1>2
<1>5. /\ StatesAfterChecks(diagram.conditions, ids, w, states) \in [DOMAIN diagram.conditions -> Reports]
      /\ Agree(diagram.conditions, StatesAfterChecks(diagram.conditions, ids, w, states))
  BY <1>1, <1>3, <1>4, ChecksAgree
<1>6. QED
  BY <1>5 DEF IsReport, StatesAfterActions, ids

LEMMA ActionsOfPhase ==
  ASSUME diagram \in Diagrams, NEW p \in Phases
  PROVE  \A interval : ActionsOf(p, interval) \in SUBSET ActionIds
<1>1. diagram.phase[p].actions \in Seq(ActionIds)
  BY DiagramAssumption DEF Phases, ActionIds
<1>2. ToSet(diagram.phase[p].actions) \subseteq ActionIds
  BY <1>1 DEF ToSet
<1>3. QED
  BY <1>2 DEF ActionsOf

-----------------------------------------------------------------------------
(* The steps that check conditions. *)

LEMMA KeepWaitingReports ==
  ASSUME ReportInv, NEW p \in Phases, KeepWaiting(p)
  PROVE  ReportInv'
<1> DEFINE c == diagram.phase[p].start
           w == World(mEventStatus)
<1>1. diagram' = diagram /\ Ask(c, w) = "no" /\ mCondition' = StatesAfter(c, w, mCondition)
  BY DEF KeepWaiting
<1>2. {c} \ {NoCondition} \subseteq Whole(diagram.conditions)
  BY ConditionFacts DEF ReportInv, Phases
<1> HIDE DEF c, w
<1>3. IsReport(diagram, StatesAfter(c, w, mCondition))
  BY <1>1, <1>2, ConditionChecked DEF ReportInv
<1>4. QED
  BY <1>1, <1>3 DEF ReportInv

LEMMA ActionPhaseReports ==
  ASSUME ReportInv, NEW p \in Phases, UpdateActionPhase(p)
  PROVE  ReportInv'
<1> DEFINE actions == ActionsOf(p, "invariant")
           w == World(mEventStatus)
<1>1. CASE \E a \in actions : CheckStatus(a, w) = "error"
  BY <1>1 DEF UpdateActionPhase, Throw, ReportInv, conditions
<1>2. CASE ~ \E a \in actions : CheckStatus(a, w) = "error"
  <2>1. diagram' = diagram /\ mCondition' = StatesAfterActions(actions, w, mCondition)
    BY <1>2 DEF UpdateActionPhase
  <2>2. actions \in SUBSET ActionIds
    BY ActionsOfPhase DEF ReportInv
  <2> HIDE DEF actions, w
  <2>3. IsReport(diagram, StatesAfterActions(actions, w, mCondition))
    BY <1>2, <2>2, ActionsChecked DEF ReportInv
  <2>4. QED
    BY <2>1, <2>3 DEF ReportInv
<1>3. QED
  BY <1>1, <1>2

LEMMA FinishReports ==
  ASSUME ReportInv, NEW p \in Phases, Ends(p) # "error"
  PROVE  IsReport(diagram, StatesAfterFinish(p))
<1> DEFINE c == diagram.phase[p].end
           w == World(StatusAfterUpdate(p))
           v == World(mEventStatus)
           between == StatesAfterActions(Open(p), v, mCondition)
<1>1. /\ \A a \in Open(p) : CheckStatus(a, v) # "error"
      /\ Ends(p) = IF c = NoCondition THEN Truth(HasCompleted(StatusAfterUpdate(p), p)) ELSE Ask(c, w)
  BY DEF Ends
<1>2. {c} \ {NoCondition} \subseteq Whole(diagram.conditions) /\ diagram \in Diagrams
      /\ Open(p) \in SUBSET ActionIds
  BY ConditionFacts, ActionsOfPhase DEF ReportInv, Phases, Open, Final
<1>3. Ask(c, w) # "error"
  BY <1>1 DEF Ask
<1> HIDE DEF c, w, v
<1>4. IsReport(diagram, between)
  BY <1>1, <1>2, ActionsChecked DEF ReportInv
<1> HIDE DEF between
<1>5. IsReport(diagram, StatesAfter(c, w, between))
  BY <1>2, <1>3, <1>4, ConditionChecked
<1>6. QED
  BY <1>5 DEF StatesAfterFinish, c, w, v, between

LEMMA OnRunReports ==
  ASSUME ReportInv, NEW p \in Phases, OnRun(p)
  PROVE  ReportInv'
<1> DEFINE c == diagram.phase[p].start
           w == World(mEventStatus)
           initial == ActionsOf(p, "start")
<1>1. /\ diagram' = diagram
      /\ \/ mCondition' = mCondition
         \/ /\ Ask(c, w) # "error"
            /\ \E checked : /\ \A a \in initial : CheckStatus(a, checked) # "error"
                            /\ mCondition' = StatesAfterActions(initial, checked, StatesAfter(c, w, mCondition))
  BY DEF OnRun, Throw, conditions
<1>2. {c} \ {NoCondition} \subseteq Whole(diagram.conditions) /\ diagram \in Diagrams
      /\ initial \in SUBSET ActionIds
  BY ConditionFacts, ActionsOfPhase DEF ReportInv, Phases
<1> HIDE DEF c, w, initial
<1>3. CASE mCondition' = mCondition
  BY <1>1, <1>3 DEF ReportInv
<1>4. ASSUME Ask(c, w) # "error", NEW checked, \A a \in initial : CheckStatus(a, checked) # "error",
             mCondition' = StatesAfterActions(initial, checked, StatesAfter(c, w, mCondition))
      PROVE  ReportInv'
  <2> DEFINE between == StatesAfter(c, w, mCondition)
  <2>1. IsReport(diagram, between)
    BY <1>2, <1>4, ConditionChecked DEF ReportInv
  <2> HIDE DEF between
  <2>2. IsReport(diagram, StatesAfterActions(initial, checked, between))
    BY <1>2, <1>4, <2>1, ActionsChecked
  <2>3. QED
    BY <1>1, <1>2, <1>4, <2>2 DEF ReportInv, between
<1>5. QED
  BY <1>1, <1>3, <1>4

LEMMA KeepRunningReports ==
  ASSUME ReportInv, NEW p \in Phases, KeepRunning(p)
  PROVE  ReportInv'
<1>1. diagram' = diagram /\ Ends(p) # "error" /\ mCondition' = StatesAfterFinish(p)
  BY DEF KeepRunning
<1>2. QED
  BY <1>1, FinishReports DEF ReportInv

LEMMA OnEndReports ==
  ASSUME ReportInv, NEW p \in Phases, OnEnd(p)
  PROVE  ReportInv'
<1>1. diagram' = diagram /\ (mCondition' = mCondition \/ (Ends(p) # "error" /\ mCondition' = StatesAfterFinish(p)))
  BY DEF OnEnd, Throw, conditions
<1>2. QED
  BY <1>1, FinishReports DEF ReportInv

LEMMA ReportInvInit == Init => ReportInv
<1>1. SUFFICES ASSUME Init PROVE ReportInv
  OBVIOUS
<1>2. diagram \in Diagrams /\ mCondition = [c \in DOMAIN diagram.conditions |-> "not yet evaluated"]
  BY <1>1 DEF Init
<1>3. mCondition \in [DOMAIN diagram.conditions -> Reports]
  BY <1>2 DEF Reports
<1>4. Agree(diagram.conditions, mCondition)
  BY <1>2 DEF Agree
<1>5. QED
  BY <1>2, <1>3, <1>4 DEF ReportInv, IsReport

LEMMA ReportInvStep == ReportInv /\ [Next]_vars => ReportInv'
<1>1. SUFFICES ASSUME ReportInv, [Next]_vars PROVE ReportInv'
  OBVIOUS
<1>2. UNCHANGED <<diagram, mCondition>> => ReportInv'
  BY <1>1 DEF ReportInv
<1>3. ASSUME NEW p \in Phases, UpdatePhase(p)
      PROVE  ReportInv'
  <2>1. CASE OnStart(p) \/ UpdateEnded(p) \/ OrderChildren(p)
    BY <1>2, <2>1 DEF OnStart, UpdateEnded, OrderChildren, Throw, conditions
  <2>2. CASE UpdateMix(p) \/ UpdateSerial(p) \/ Join(p) \/ SkipFirstUpdate(p)
    BY <1>2, <2>2 DEF UpdateMix, UpdateSerial, Join, SkipFirstUpdate, conditions
  <2>3. CASE KeepWaiting(p)
    BY <1>1, <2>3, KeepWaitingReports
  <2>4. CASE OnRun(p)
    BY <1>1, <2>4, OnRunReports
  <2>5. CASE UpdateActionPhase(p)
    BY <1>1, <2>5, ActionPhaseReports
  <2>6. CASE KeepRunning(p)
    BY <1>1, <2>6, KeepRunningReports
  <2>7. CASE OnEnd(p)
    BY <1>1, <2>7, OnEndReports
  <2>8. QED
    BY <1>3, <2>1, <2>2, <2>3, <2>4, <2>5, <2>6, <2>7 DEF UpdatePhase
<1>4. ASSUME NEW p \in Phases, Dispatch(p)
      PROVE  ReportInv'
  BY <1>2, <1>4 DEF Dispatch, PassOver, PublishActions, PutInProcess,
                    NotifyActionEventDispatched, conditions
<1>5. CASE BeginStart \/ BeginUpdate \/ RepeatUpdate \/ BeginDispatch \/ EndDispatch
  BY <1>2, <1>5 DEF BeginStart, BeginUpdate, RepeatUpdate, BeginDispatch, EndDispatch, conditions
<1>6. CASE NewsOnly
  BY <1>2, <1>6, NewsFrame
<1>7. QED
  BY <1>1, <1>3, <1>4, <1>5, <1>6 DEF Next, ProcessEvent, NewsOnly

(***************************************************************************)
(* Whatever a scenario checks, in whatever order and however its actions   *)
(* are completed meanwhile, the states reported of a composite condition   *)
(* and of its operands agree, so that the cause of a scenario's end can be *)
(* named (Condition.cpp: OrCondition, AndCondition).                       *)
(***************************************************************************)
THEOREM ReportsStayInAgreement == Spec => []ReportsAgree
<1>1. ReportInv => ReportsAgree
  BY DEF ReportInv, IsReport, Agree, ReportsAgree
<1>2. QED
  BY <1>1, ReportInvInit, ReportInvStep, PTL DEF Spec

-----------------------------------------------------------------------------
(***************************************************************************)
(* Types.  The types of the states, the positions and the statuses are     *)
(* part of the invariants of PhaseTreeProofs and PhaseDiagramProofs.       *)
(***************************************************************************)
OtherTypes ==
  /\ mIsInitPending \in [Phases -> BOOLEAN] /\ mChildrenDone \in [Phases -> BOOLEAN]
  /\ created \subseteq DOMAIN diagram.parent
  /\ stage \in {"new", "start", "update", "dispatch", "idle"}
  /\ outcome \in Outcomes /\ published \subseteq ActionIds /\ written \in BOOLEAN

LEMMA SmallestOne ==
  ASSUME NEW S \in SUBSET Nat, S # {}
  PROVE  Min(S) \in S
<1>1. PICK k \in S : \A j \in S : ~ (<<j, k>> \in OpToRel(<, Nat))
  BY NatLessThanWellFounded, WFMin
<1>2. \A j \in S : ~ (j < k)
  BY <1>1 DEF OpToRel
<1>3. \A j \in S : k <= j
  BY <1>2
<1>4. QED
  BY <1>3 DEF Min

LEMMA VerdictTypes ==
  ASSUME diagram \in Diagrams, NEW p \in Phases, NEW states
  PROVE  VerdictOf(p, states) \in Outcomes
<1> DEFINE actions == diagram.phase[p].actions
           verdicts == {i \in DOMAIN actions :
                          /\ actions[i] \in Final(p)
                          /\ diagram.action[actions[i]].kind \in {"success", "failure"}}
           kind == diagram.action[actions[Min(verdicts)]].kind
<1>1. actions \in Seq(DOMAIN diagram.action)
  BY DiagramAssumption DEF Phases
<1>2. VerdictOf(p, states) = IF verdicts = {} THEN "running"
                             ELSE Explained(diagram.phase[p].start, states, kind)
  BY DEF VerdictOf
<1>3. verdicts # {} => Min(verdicts) \in verdicts
  <2>1. verdicts \in SUBSET Nat
    BY <1>1
  <2> HIDE DEF verdicts
  <2>2. QED
    BY <2>1, SmallestOne
<1>4. verdicts # {} => kind \in {"success", "failure"}
  BY <1>3
<1> HIDE DEF verdicts, kind
<1>5. QED
  BY <1>2, <1>4 DEF Explained, Outcomes

LEMMA OnRunTypes ==
  ASSUME diagram \in Diagrams, OtherTypes, NEW p \in Phases, OnRun(p), ~ Throw("error")
  PROVE  /\ UNCHANGED <<diagram, mIsInitPending, mChildrenDone, stage, published, written>>
         /\ created' \subseteq DOMAIN diagram.parent /\ outcome' \in Outcomes
<1> DEFINE status == CASE Kind(p) = "drive"  -> Preempted(Rivals(p), mEventStatus)
                       [] Kind(p) = "system" -> DispatchFinalActions(p, mEventStatus)
                       [] OTHER -> mEventStatus
<1>1. /\ UNCHANGED <<diagram, mIsInitPending, mChildrenDone, stage, published, written>>
      /\ created' = RunWorld(p, status).actors
      /\ outcome' = VerdictOf(p, mCondition')
  BY DEF OnRun
<1>2. \A st : RunWorld(p, st).actors = IF MustCreate(p) THEN created \cup CreatedBy(p) ELSE created
  BY DEF RunWorld, World
<1>3. MustCreate(p) => CreatedBy(p) \subseteq DOMAIN diagram.parent
  <2>1. Kind(p) = "drive" => diagram.phase[p].actor \in DOMAIN diagram.parent
    BY DiagramAssumption DEF Phases, Kind
  <2>2. QED
    BY <2>1 DEF MustCreate, CreatedBy
<1> HIDE DEF status
<1>4. created' \subseteq DOMAIN diagram.parent
  BY <1>1, <1>2, <1>3 DEF OtherTypes
<1>5. QED
  BY <1>1, <1>4, VerdictTypes

LEMMA OtherTypesInit == Init => OtherTypes
<1>1. SUFFICES ASSUME Init PROVE OtherTypes
  OBVIOUS
<1>2. mIsInitPending = [p \in Phases |-> ActionsOf(p, "start") # {}] /\ mChildrenDone = [p \in Phases |-> FALSE]
  BY <1>1 DEF Init
<1>3. created = {} /\ stage = "new" /\ outcome = "running" /\ published = {} /\ written = FALSE
  BY <1>1 DEF Init
<1>4. mIsInitPending \in [Phases -> BOOLEAN] /\ mChildrenDone \in [Phases -> BOOLEAN]
  BY <1>2
<1>5. QED
  BY <1>3, <1>4 DEF OtherTypes, Outcomes

LEMMA ThrowTypes ==
  ASSUME OtherTypes, NEW what \in Outcomes, Throw(what)
  PROVE  OtherTypes'
BY DEF Throw, OtherTypes, phases, simulation, clients, Phases, ActionIds

LEMMA OtherTypesStep ==
  ASSUME diagram \in Diagrams, OtherTypes, [Next]_vars
  PROVE  OtherTypes'
<1> USE DEF OtherTypes, Phases, ActionIds
<1>1. "error" \in Outcomes /\ {"unexpected error", "circular dependency", "success"} \subseteq Outcomes
  BY DEF Outcomes
<1>2. ASSUME NEW p \in Phases, UpdatePhase(p)
      PROVE  OtherTypes'
  <2>1. CASE OnStart(p)
    BY <1>1, <2>1, ThrowTypes DEF OnStart, simulation, clients
  <2>2. CASE KeepWaiting(p) \/ UpdateEnded(p)
    BY <2>2 DEF KeepWaiting, UpdateEnded, phases, simulation, clients
  <2>3. CASE OnRun(p)
    BY <1>1, <2>3, ThrowTypes, OnRunTypes
  <2>4. CASE OrderChildren(p)
    BY <1>1, <2>4, ThrowTypes DEF OrderChildren, SortResult, simulation, clients
  <2>5. CASE UpdateMix(p)
    BY <2>5 DEF UpdateMix, simulation, clients
  <2>6. CASE UpdateSerial(p)
    BY <2>6 DEF UpdateSerial, phases, simulation, clients
  <2>7. CASE UpdateActionPhase(p)
    BY <1>1, <2>7, ThrowTypes DEF UpdateActionPhase, phases, simulation, clients
  <2>8. CASE Join(p)
    <3>1. /\ UNCHANGED <<diagram, mIsInitPending, created, stage, outcome, published, written>>
          /\ \E b : mChildrenDone' = [mChildrenDone EXCEPT ![p] = b] /\ b \in BOOLEAN
      BY <2>8 DEF Join, simulation, clients
    <3>2. QED
      BY <3>1
  <2>9. CASE SkipFirstUpdate(p)
    BY <2>9 DEF SkipFirstUpdate, simulation, clients
  <2>10. CASE KeepRunning(p)
    BY <2>10 DEF KeepRunning, phases, simulation, clients
  <2>11. CASE OnEnd(p)
    <3>1. CASE Throw("error")
      BY <1>1, <3>1, ThrowTypes
    <3>2. CASE ~ Throw("error")
      <4>1. /\ UNCHANGED <<diagram, mIsInitPending, mChildrenDone, created, stage, published, written>>
            /\ \/ outcome' = Explained(diagram.phase[p].end, mCondition', "success")
               \/ outcome' = outcome
        BY <2>11, <3>2 DEF OnEnd, simulation
      <4>2. outcome' \in Outcomes
        BY <1>1, <4>1 DEF Explained
      <4>3. QED
        BY <4>1, <4>2
    <3>3. QED
      BY <3>1, <3>2
  <2>12. QED
    BY <1>2, <2>1, <2>2, <2>3, <2>4, <2>5, <2>6, <2>7, <2>8, <2>9, <2>10, <2>11 DEF UpdatePhase
<1>3. ASSUME NEW p \in Phases, PassOver(p) \/ PutInProcess(p) \/ NotifyActionEventDispatched(p)
      PROVE  OtherTypes'
  BY <1>3 DEF PassOver, PutInProcess, NotifyActionEventDispatched, phases, simulation, clients
<1>4. ASSUME NEW p \in Phases, PublishActions(p)
      PROVE  OtherTypes'
  <2>1. ToSet(diagram.phase[p].actions) \subseteq ActionIds
    <3>1. diagram.phase[p].actions \in Seq(ActionIds)
      BY DiagramAssumption
    <3> HIDE DEF ActionIds
    <3>2. QED
      BY <3>1 DEF ToSet
  <2>2. QED
    BY <1>4, <2>1 DEF PublishActions, GetUnskippedActions, phases, simulation
<1>5. CASE BeginStart \/ BeginUpdate \/ RepeatUpdate \/ BeginDispatch \/ EndDispatch
  BY <1>5 DEF BeginStart, BeginUpdate, RepeatUpdate, BeginDispatch, EndDispatch, phases, simulation,
              clients
<1>6. CASE NewsOnly
  <2>1. written' \in BOOLEAN
    BY <1>6 DEF NewsOnly, Client, Complete, ReportComplete, WriteDone, PublishDone, PublishEnd,
                vars, clients
  <2>2. QED
    BY <1>6, <2>1, NewsFrame
<1>7. QED
  BY <1>2, <1>3, <1>4, <1>5, <1>6 DEF Next, ProcessEvent, Dispatch, NewsOnly

(***************************************************************************)
(* Every variable keeps its type; a serial phase's position never gets     *)
(* further than one past its last child (Phase.cpp: SerialPhase).          *)
(***************************************************************************)
THEOREM TypesHold == Spec => []TypeOK
<1> DEFINE Inv == DiagramInv /\ TreeInv /\ ReportInv /\ OtherTypes
<1>1. Init => Inv
  BY DiagramInvInit, InitTree, ReportInvInit, OtherTypesInit
<1>2. Inv /\ [Next]_vars => Inv'
  <2>1. SUFFICES ASSUME Inv, [Next]_vars PROVE Inv'
    OBVIOUS
  <2>2. diagram \in Diagrams
    BY <2>1 DEF TreeInv
  <2>3. DiagramInv' /\ TreeInv' /\ ReportInv'
    BY <2>1, DiagramInvStep, NextTree, StutterTree, ReportInvStep
  <2>4. OtherTypes'
    BY <2>1, <2>2, OtherTypesStep
  <2>5. QED
    BY <2>3, <2>4
<1>3. Inv => TypeOK
  <2>1. SUFFICES ASSUME Inv PROVE TypeOK
    OBVIOUS
  <2>2. diagram \in Diagrams /\ Phases = Ps(diagram)
    BY <2>1 DEF TreeInv, Phases, Ps
  <2>3. /\ mState \in [Phases -> {"idle", "start", "run", "end"}]
        /\ mEventStatus \in [ActionIds -> Statuses]
        /\ mPhasesToDispatch \subseteq Phases /\ mPhasesInProcess \subseteq Phases
        /\ sending \in Phases \cup {NoPhase}
        /\ owed \in [ActionIds -> {Nothing, "interrupted", "done"}]
    BY <2>1 DEF DiagramInv, Typed, ListedRun, Listed, Drives, Control
  <2>4. report \in ActionIds \cup {NoAction}
    BY <2>1, <2>2, FinalActions DEF DiagramInv, Reported, Drives
  <2>5. mCondition \in [DOMAIN diagram.conditions -> {"not yet evaluated", "yes", "no"}]
    BY <2>1 DEF ReportInv, IsReport, Reports
  <2>6. \A p \in Phases : mPosition[p] \in 1 .. Len(diagram.phase[p].children) + 1
    BY <2>1, <2>2 DEF TreeInv, TreeState
  <2>7. QED
    BY <2>1, <2>3, <2>4, <2>5, <2>6 DEF OtherTypes, TypeOK
<1>4. QED
  BY <1>1, <1>2, <1>3, PTL DEF Spec

-----------------------------------------------------------------------------
(* The phases that an update of the root comes to. *)

GoesOn(d, st, pos, p) ==
  IF st[p] # "run" THEN {}
  ELSE OperationsIn(d, p) \cup
       {d.phase[p].children[i] :
          i \in {i \in 1 .. Len(d.phase[p].children) :
                   d.phase[p].kind = "mix" \/ (d.phase[p].kind = "serial" /\ i = pos[p])}}

LiveMap(d, st, pos) == [p \in Ps(d) |-> GoesOn(d, st, pos, p)]
LiveIn(d, st, pos) == Reached(Ps(d), LiveMap(d, st, pos), d.root)

LEMMA GoesOnFacts ==
  ASSUME NEW d \in Diagrams, NEW st, NEW pos, NEW p \in Ps(d)
  PROVE  /\ GoesOn(d, st, pos, p) \subseteq Nested(d, p)
         /\ GoesOn(d, st, pos, p) \in SUBSET Ps(d)
<1>1. /\ d.phase[p].children \in Seq(Ps(d)) /\ Nested(d, p) \subseteq Ps(d)
      /\ Nested(d, p) = ChildrenIn(d, p) \cup OperationsIn(d, p)
  BY DiagramFacts
<1>2. ChildrenIn(d, p) = {d.phase[p].children[i] : i \in 1 .. Len(d.phase[p].children)}
  BY <1>1 DEF ChildrenIn, ToSet
<1>3. GoesOn(d, st, pos, p) \subseteq Nested(d, p)
  BY <1>1, <1>2 DEF GoesOn
<1>4. QED
  BY <1>1, <1>3

LEMMA LiveFacts ==
  ASSUME NEW d \in Diagrams, NEW st, NEW pos
  PROVE  /\ LiveMap(d, st, pos) \in [Ps(d) -> SUBSET Ps(d)]
         /\ WellFounded(Ps(d), LiveMap(d, st, pos))
         /\ d.root \in LiveIn(d, st, pos) /\ LiveIn(d, st, pos) \subseteq Ps(d)
         /\ \A p \in LiveIn(d, st, pos) : GoesOn(d, st, pos, p) \subseteq LiveIn(d, st, pos)
         /\ \A S \in SUBSET Ps(d) :
              d.root \in S /\ (\A p \in S : GoesOn(d, st, pos, p) \subseteq S)
                => LiveIn(d, st, pos) \subseteq S
<1> DEFINE D == Ps(d)
           R == LiveMap(d, st, pos)
           N == NestedMap(d)
<1>1. /\ N \in [D -> SUBSET D] /\ WellFounded(D, N) /\ d.root \in D
      /\ \A p \in D : N[p] = Nested(d, p)
  BY DiagramFacts DEF NestedMap
<1>2. R \in [D -> SUBSET D] /\ \A p \in D : R[p] = GoesOn(d, st, pos, p) /\ R[p] \subseteq N[p]
  BY <1>1, GoesOnFacts DEF LiveMap
<1> HIDE DEF N, R, D
<1>3. WellFounded(D, R)
  <2>1. SUFFICES ASSUME NEW S \in SUBSET D, S # {} PROVE \E x \in S : R[x] \cap S = {}
    BY DEF WellFounded
  <2>2. PICK x \in S : N[x] \cap S = {}
    BY <1>1, <2>1 DEF WellFounded
  <2>3. QED
    BY <1>2, <2>2
<1>4. /\ d.root \in Reached(D, R, d.root) /\ Reached(D, R, d.root) \subseteq D
      /\ ClosedUnder(R, Reached(D, R, d.root))
      /\ \A S \in SUBSET D : d.root \in S /\ ClosedUnder(R, S) => Reached(D, R, d.root) \subseteq S
  BY <1>1, <1>2, ReachedFacts
<1>5. LiveIn(d, st, pos) = Reached(D, R, d.root)
  BY DEF LiveIn, D, R
<1> DEFINE L == Reached(D, R, d.root)
<1> HIDE DEF L
<1>6. \A p \in L : GoesOn(d, st, pos, p) \subseteq L
  BY <1>2, <1>4 DEF ClosedUnder, L
<1>7. ASSUME NEW S \in SUBSET D, d.root \in S, \A p \in S : GoesOn(d, st, pos, p) \subseteq S
      PROVE  L \subseteq S
  <2>1. ClosedUnder(R, S)
    BY <1>2, <1>7 DEF ClosedUnder
  <2>2. QED
    BY <1>4, <1>7, <2>1 DEF L
<1>8. QED
  BY <1>2, <1>3, <1>4, <1>5, <1>6, <1>7 DEF L, D, R

\* The recursion of Live gathers these phases.
LEMMA LivePhases ==
  ASSUME diagram \in Diagrams
  PROVE  Live = LiveIn(diagram, mState, mPosition)
<1> DEFINE D == Ps(diagram)
           R == LiveMap(diagram, mState, mPosition)
<1>1. Phases = D /\ diagram.root \in D /\ \A p \in D : diagram.phase[p].children \in Seq(D)
  BY DiagramFacts DEF Phases, Ps
<1>2. R \in [D -> SUBSET D] /\ WellFounded(D, R)
  BY LiveFacts
<1>3. ASSUME NEW p \in D PROVE GoesOnTo(p) = R[p]
  <2>1. DOMAIN diagram.phase[p].children = 1 .. Len(diagram.phase[p].children)
    BY <1>1
  <2>2. QED
    BY <2>1 DEF GoesOnTo, GoesOn, LiveMap, OperationsIn, Kind
<1> HIDE DEF R
<1>4. \A f : [p \in D |-> {p} \cup UNION {f[q] : q \in GoesOnTo(p)}] = [p \in D |-> ReachedFrom(R, f, p)]
  BY <1>3 DEF ReachedFrom
<1>5. Live = (CHOOSE f : f = [p \in D |-> {p} \cup UNION {f[q] : q \in GoesOnTo(p)}])[diagram.root]
  BY <1>1 DEF Live
<1>6. Live = (CHOOSE f : f = [p \in D |-> ReachedFrom(R, f, p)])[diagram.root]
  BY <1>4, <1>5
<1>7. Live = Reached(D, R, diagram.root)
  BY <1>1, <1>2, <1>6, RecursionReaches
<1>8. QED
  BY <1>7 DEF LiveIn, R

\* What was live and is not among phases that have been left stays live.
LEMMA LiveKept ==
  ASSUME NEW d \in Diagrams, NEW st, NEW pos, NEW st2, NEW pos2, NEW left,
         \A p \in left \cap Ps(d) : Nested(d, p) \subseteq left,
         \A p \in Ps(d) \ left : GoesOn(d, st, pos, p) \subseteq GoesOn(d, st2, pos2, p) \cup left
  PROVE  LiveIn(d, st, pos) \subseteq LiveIn(d, st2, pos2) \cup left
<1> DEFINE L2 == LiveIn(d, st2, pos2)
           S == Ps(d) \cap (L2 \cup left)
<1>1. /\ d.root \in L2 /\ L2 \subseteq Ps(d) /\ d.root \in Ps(d)
      /\ \A p \in L2 : GoesOn(d, st2, pos2, p) \subseteq L2
  BY LiveFacts, DiagramFacts
<1> HIDE DEF L2
<1>2. S \in SUBSET Ps(d) /\ d.root \in S
  BY <1>1
<1>3. ASSUME NEW p \in S PROVE GoesOn(d, st, pos, p) \subseteq S
  <2>1. /\ GoesOn(d, st, pos, p) \subseteq Nested(d, p)
        /\ GoesOn(d, st, pos, p) \subseteq Ps(d)
    BY <1>3, GoesOnFacts
  <2>2. CASE p \in left
    BY <1>3, <2>1, <2>2
  <2>3. CASE p \notin left
    BY <1>1, <1>3, <2>1, <2>3
  <2>4. QED
    BY <2>2, <2>3
<1>4. LiveIn(d, st, pos) \subseteq S
  <2> HIDE DEF S
  <2>1. QED
    BY <1>2, <1>3, LiveFacts
<1>5. QED
  BY <1>4 DEF L2

-----------------------------------------------------------------------------
(* The phases that the tasks of one kind are about. *)

Waiting(s, do) == {s[i].phase : i \in {i \in 1 .. Len(s) : s[i].do = do}}

LEMMA WaitingFirst ==
  ASSUME NEW T, NEW s \in Seq(T), s # << >>, NEW do
  PROVE  /\ Waiting(s, do) = Waiting(Tail(s), do) \cup
                              (IF Head(s).do = do THEN {Head(s).phase} ELSE {})
<1>1. /\ Head(s) = s[1] /\ 1 \in 1 .. Len(s) /\ Len(Tail(s)) = Len(s) - 1 /\ Len(s) \in Nat
      /\ \A i \in 1 .. Len(Tail(s)) : Tail(s)[i] = s[i + 1] /\ i + 1 \in 1 .. Len(s)
      /\ \A i \in 1 .. Len(s) : i # 1 => i - 1 \in 1 .. Len(Tail(s)) /\ Tail(s)[i - 1] = s[i]
  OBVIOUS
<1> DEFINE t == Tail(s)
<1> HIDE DEF t
<1>2. ASSUME NEW x \in Waiting(s, do)
      PROVE  x \in Waiting(t, do) \/ (s[1].do = do /\ x = s[1].phase)
  <2>1. PICK i \in 1 .. Len(s) : s[i].do = do /\ x = s[i].phase
    BY <1>2 DEF Waiting
  <2>2. CASE i = 1
    BY <2>1, <2>2
  <2>3. CASE i # 1
    <3>1. i - 1 \in 1 .. Len(t) /\ t[i - 1] = s[i]
      BY <1>1, <2>1, <2>3 DEF t
    <3>2. QED
      BY <2>1, <3>1 DEF Waiting
  <2>4. QED
    BY <2>2, <2>3
<1>3. ASSUME NEW x \in Waiting(t, do)
      PROVE  x \in Waiting(s, do)
  <2>1. PICK i \in 1 .. Len(t) : t[i].do = do /\ x = t[i].phase
    BY <1>3 DEF Waiting
  <2>2. i + 1 \in 1 .. Len(s) /\ s[i + 1] = t[i]
    BY <1>1, <2>1 DEF t
  <2>3. QED
    BY <2>1, <2>2 DEF Waiting
<1>4. s[1].do = do => s[1].phase \in Waiting(s, do)
  BY <1>1 DEF Waiting
<1>5. QED
  BY <1>1, <1>2, <1>3, <1>4 DEF t

LEMMA WaitingBoth ==
  ASSUME NEW T, NEW n \in Seq(T), NEW r \in Seq(T), NEW do
  PROVE  Waiting(n \o r, do) = Waiting(n, do) \cup Waiting(r, do)
<1> DEFINE s == n \o r
<1>1. /\ Len(s) = Len(n) + Len(r) /\ Len(n) \in Nat /\ Len(r) \in Nat
      /\ \A i \in 1 .. Len(n) : i \in 1 .. Len(s) /\ s[i] = n[i]
      /\ \A i \in 1 .. Len(r) : i + Len(n) \in 1 .. Len(s) /\ s[i + Len(n)] = r[i]
      /\ \A i \in 1 .. Len(s) : i \notin 1 .. Len(n) => i - Len(n) \in 1 .. Len(r) /\ s[i] = r[i - Len(n)]
  OBVIOUS
<1> HIDE DEF s
<1>2. ASSUME NEW x \in Waiting(s, do) PROVE x \in Waiting(n, do) \cup Waiting(r, do)
  <2>1. PICK i \in 1 .. Len(s) : s[i].do = do /\ x = s[i].phase
    BY <1>2 DEF Waiting
  <2>2. QED
    BY <1>1, <2>1 DEF Waiting
<1>3. ASSUME NEW x \in Waiting(n, do) PROVE x \in Waiting(s, do)
  BY <1>1, <1>3 DEF Waiting
<1>4. ASSUME NEW x \in Waiting(r, do) PROVE x \in Waiting(s, do)
  BY <1>1, <1>4 DEF Waiting
<1>5. QED
  BY <1>2, <1>3, <1>4 DEF s

\* The thread takes the first task and puts others in its place.
LEMMA WaitingNext ==
  ASSUME TreeInv, NEW p \in Phases, NEW do, NEW state, First(do, p, state), NEW other
  PROVE  /\ Waiting(todo, other) = Waiting(Tail(todo), other) \cup (IF do = other THEN {p} ELSE {})
         /\ Tail(todo) \in Seq(Tasks(diagram))
<1> DEFINE T == Tasks(diagram)
<1>1. /\ todo \in Seq(T) /\ todo # << >> /\ Head(todo).do = do /\ Head(todo).phase = p
  BY DEF TreeInv, First
<1> HIDE DEF T
<1>2. Waiting(todo, other) = Waiting(Tail(todo), other) \cup
                               (IF Head(todo).do = other THEN {Head(todo).phase} ELSE {})
  BY <1>1, WaitingFirst
<1>3. Tail(todo) \in Seq(T)
  BY <1>1
<1>4. QED
  BY <1>1, <1>2, <1>3 DEF T

\* Tasks that all do the same are waiting for nothing else.
LEMMA WaitingSame ==
  ASSUME NEW s, NEW do, \A i \in 1 .. Len(s) : s[i].do = do
  PROVE  /\ Waiting(s, do) = {s[i].phase : i \in 1 .. Len(s)}
         /\ \A other : other # do => Waiting(s, other) = {}
BY DEF Waiting

LEMMA WaitingOne ==
  ASSUME NEW t, NEW do
  PROVE  Waiting(<<t>>, do) = IF t.do = do THEN {t.phase} ELSE {}
<1>1. Len(<<t>>) = 1 /\ <<t>>[1] = t /\ 1 .. 1 = {1}
  OBVIOUS
<1>2. QED
  BY <1>1 DEF Waiting

LEMMA WaitingPhases ==
  ASSUME NEW d, NEW s \in Seq(Tasks(d)), NEW do
  PROVE  Waiting(s, do) \subseteq Ps(d)
<1> DEFINE T == Tasks(d)
<1> HIDE DEF T
<1>1. \A i \in 1 .. Len(s) : s[i] \in T
  BY DEF T
<1>2. \A t \in T : t.phase \in Ps(d)
  BY DEF T, Tasks
<1>3. QED
  BY <1>1, <1>2 DEF Waiting

\* A running phase calls for its operations and then for its own end.
LEMMA WaitingRest ==
  ASSUME NEW d \in Diagrams, NEW p \in Ps(d), NEW r \in Seq(Tasks(d))
  PROVE  /\ RestOf(d, p, r) \in Seq(Tasks(d))
         /\ Waiting(RestOf(d, p, r), "update") = OperationsIn(d, p) \cup Waiting(r, "update")
         /\ Waiting(RestOf(d, p, r), "finish") = {p} \cup Waiting(r, "finish")
         /\ Waiting(RestOf(d, p, r), "join") = Waiting(r, "join")
<1> DEFINE T == Tasks(d)
           o == d.phase[p].operations
           n == [i \in DOMAIN o |-> Update(o[i])]
           t == Task("finish", p, p)
<1>1. o \in Seq(Ps(d)) /\ OperationsIn(d, p) = {o[i] : i \in 1 .. Len(o)} /\ DOMAIN o = 1 .. Len(o)
  <2>1. o \in Seq(Ps(d))
    BY DiagramFacts
  <2>2. QED
    BY <2>1 DEF OperationsIn, ToSet
<1>2. t \in T /\ t.phase = p /\ t.do = "finish"
  BY DEF Task, Tasks
<1>3. RestOf(d, p, r) = n \o <<t>> \o r
  BY DEF RestOf
<1> HIDE DEF o, t, T
<1>4. \A i \in 1 .. Len(o) : Update(o[i]) \in T /\ Update(o[i]).phase = o[i] /\ Update(o[i]).do = "update"
  BY <1>1 DEF Update, Task, Tasks, T
<1>5. n \in Seq(T) /\ Len(n) = Len(o) /\ \A i \in 1 .. Len(o) : n[i] = Update(o[i])
  BY <1>1, <1>4
<1> HIDE DEF n
<1>6. /\ Waiting(n, "update") = OperationsIn(d, p)
      /\ Waiting(n, "finish") = {} /\ Waiting(n, "join") = {}
  <2>1. \A i \in 1 .. Len(n) : n[i].do = "update" /\ n[i].phase = o[i]
    BY <1>4, <1>5
  <2>2. {n[i].phase : i \in 1 .. Len(n)} = OperationsIn(d, p)
    BY <1>1, <1>5, <2>1
  <2>3. /\ Waiting(n, "update") = {n[i].phase : i \in 1 .. Len(n)}
        /\ \A other : other # "update" => Waiting(n, other) = {}
    BY <2>1, WaitingSame
  <2>4. QED
    BY <2>2, <2>3
<1>7. <<t>> \in Seq(T) /\ r \in Seq(T)
  BY <1>2 DEF T
<1> DEFINE one == <<t>>
           m == n \o one
<1> HIDE DEF one
<1>8. \A do : Waiting(n \o one, do) = Waiting(n, do) \cup Waiting(one, do)
  <2>1. n \in Seq(T) /\ one \in Seq(T)
    BY <1>5, <1>7 DEF one
  <2>2. QED
    BY <2>1, WaitingBoth
<1>9. m \in Seq(T)
  BY <1>5, <1>7 DEF one
<1> HIDE DEF m
<1>10. \A do : Waiting(m \o r, do) = Waiting(m, do) \cup Waiting(r, do)
  BY <1>7, <1>9, WaitingBoth
<1>11. m \o r \in Seq(T)
  BY <1>7, <1>9
<1>12. Waiting(one, "update") = {} /\ Waiting(one, "finish") = {p} /\ Waiting(one, "join") = {}
  BY <1>2, WaitingOne DEF one
<1>13. RestOf(d, p, r) = m \o r
  BY <1>3 DEF m, one
<1>14. \A do : Waiting(m, do) = Waiting(n, do) \cup Waiting(one, do)
  BY <1>8 DEF m
<1>15. \A do : Waiting(RestOf(d, p, r), do) = (Waiting(n, do) \cup Waiting(one, do)) \cup Waiting(r, do)
  BY <1>10, <1>13, <1>14
<1>16. Waiting(RestOf(d, p, r), "update") = OperationsIn(d, p) \cup Waiting(r, "update")
  BY <1>6, <1>12, <1>15
<1>17. Waiting(RestOf(d, p, r), "finish") = {p} \cup Waiting(r, "finish")
  BY <1>6, <1>12, <1>15
<1>18. Waiting(RestOf(d, p, r), "join") = Waiting(r, "join")
  BY <1>6, <1>12, <1>15
<1>19. RestOf(d, p, r) \in Seq(Tasks(d))
  BY <1>11, <1>13 DEF T
<1>20. QED
  BY <1>16, <1>17, <1>18, <1>19

LEMMA WaitingPair ==
  ASSUME NEW d, NEW p \in Ps(d), NEW c \in Ps(d), NEW r \in Seq(Tasks(d))
  PROVE  /\ Waiting(UpdateAndJoin(p, c) \o r, "update") = {c} \cup Waiting(r, "update")
         /\ Waiting(UpdateAndJoin(p, c) \o r, "finish") = Waiting(r, "finish")
         /\ Waiting(UpdateAndJoin(p, c) \o r, "join") = {p} \cup Waiting(r, "join")
<1> DEFINE T == Tasks(d)
           n == UpdateAndJoin(p, c)
           u == Update(c)
           j == Task("join", p, c)
<1>1. /\ u \in T /\ u.phase = c /\ u.do = "update"
      /\ j \in T /\ j.phase = p /\ j.do = "join"
  BY DEF Update, Task, Tasks
<1>2. n = <<u, j>>
  BY DEF UpdateAndJoin
<1> HIDE DEF u, j, T
<1>3. n \in Seq(T) /\ Len(n) = 2 /\ n[1] = u /\ n[2] = j /\ r \in Seq(T)
  BY <1>1, <1>2 DEF T
<1> HIDE DEF n
<1>4. \A do : Waiting(n \o r, do) = Waiting(n, do) \cup Waiting(r, do)
  BY <1>3, WaitingBoth
<1>5. 1 .. 2 = {1, 2}
  OBVIOUS
<1>6. Waiting(n, "update") = {c} /\ Waiting(n, "finish") = {} /\ Waiting(n, "join") = {p}
  BY <1>1, <1>3, <1>5 DEF Waiting
<1>7. QED
  BY <1>4, <1>6 DEF n

\* A parallel phase calls for all of its children.
LEMMA AllInOrder ==
  ASSUME NEW n \in Nat, NEW o \in Seq(1 .. n), IsInjective(o), Len(o) = n
  PROVE  \A k \in 1 .. n : \E i \in 1 .. n : o[i] = k
<1> DEFINE S == 1 .. n
<1>1. IsFiniteSet(S)
  BY FS_Interval
<1>2. o \in [S -> S] /\ DOMAIN o = S
  <2>1. DOMAIN o = S
    OBVIOUS
  <2>2. \A i \in S : o[i] \in S
    OBVIOUS
  <2>3. o = [i \in S |-> o[i]]
    BY <2>1
  <2>4. QED
    BY <2>1, <2>2, <2>3
<1> HIDE DEF S
<1>3. o \in Injection(S, S)
  BY <1>2 DEF Injection
<1>4. o \in Surjection(S, S)
  BY <1>1, <1>3, FS_Injection
<1>5. QED
  BY <1>4 DEF Surjection, S

LEMMA WaitingPairs ==
  ASSUME NEW d \in Diagrams, NEW p \in Ps(d), NEW o, IsOrder(d, p, o), o # << >>
  PROVE  /\ PairsOf(d, p, o) \in Seq(Tasks(d))
         /\ Waiting(PairsOf(d, p, o), "update") = ChildrenIn(d, p)
         /\ Waiting(PairsOf(d, p, o), "finish") = {}
         /\ Waiting(PairsOf(d, p, o), "join") \subseteq {p}
<1> DEFINE c == d.phase[p].children
           n == Len(c)
           T == Tasks(d)
           s == PairsOf(d, p, o)
<1>1. /\ c \in Seq(Ps(d)) /\ n \in Nat /\ ChildrenIn(d, p) = {c[i] : i \in 1 .. n}
      /\ \A i \in 1 .. n : c[i] \in Ps(d)
  <2>1. c \in Seq(Ps(d))
    BY DiagramFacts
  <2>2. QED
    BY <2>1 DEF ChildrenIn, ToSet
<1>2. o \in Seq(1 .. n) /\ IsInjective(o) /\ Len(o) = n
  BY DEF IsOrder
<1>3. \A i \in 1 .. n : o[i] \in 1 .. n
  BY <1>2
<1>4. \A k \in 1 .. n : \E i \in 1 .. n : o[i] = k
  BY <1>1, <1>2, AllInOrder
<1>5. s = [i \in 1 .. 2 * n |-> IF i % 2 = 1 THEN Update(c[o[(i + 1) \div 2]])
                                ELSE Task("join", p, c[o[(i + 1) \div 2]])]
  BY <1>2 DEF PairsOf
<1>6. \A q \in Ps(d) : /\ Update(q) \in T /\ Update(q).do = "update" /\ Update(q).phase = q
                       /\ Task("join", p, q) \in T /\ Task("join", p, q).do = "join"
                       /\ Task("join", p, q).phase = p
  BY DEF Update, Task, Tasks
<1> HIDE DEF c, n, T, s
<1>7. 2 * n \in Nat /\ \A i \in 1 .. 2 * n : (i + 1) \div 2 \in 1 .. n
  BY <1>1, HalfFacts
<1>8. /\ s \in Seq(T) /\ Len(s) = 2 * n
      /\ \A i \in 1 .. 2 * n : \/ s[i] = Update(c[o[(i + 1) \div 2]]) /\ i % 2 = 1
                               \/ s[i] = Task("join", p, c[o[(i + 1) \div 2]])
  <2>1. \A i \in 1 .. 2 * n : c[o[(i + 1) \div 2]] \in Ps(d)
    BY <1>1, <1>3, <1>7
  <2>2. \A i \in 1 .. 2 * n : s[i] \in T
    BY <1>5, <1>6, <2>1
  <2>3. s \in Seq(T) /\ Len(s) = 2 * n
    BY <1>5, <1>7, <2>2, SequenceOf
  <2>4. QED
    BY <1>5, <2>3
<1>9. ASSUME NEW i \in 1 .. 2 * n
      PROVE  /\ s[i].do = "update" => s[i].phase \in ChildrenIn(d, p)
             /\ s[i].do # "finish"
             /\ s[i].do = "join" => s[i].phase = p
  <2>1. c[o[(i + 1) \div 2]] \in Ps(d) /\ c[o[(i + 1) \div 2]] \in ChildrenIn(d, p)
    BY <1>1, <1>3, <1>7
  <2>2. QED
    BY <1>6, <1>8, <2>1
<1>10. ASSUME NEW q \in ChildrenIn(d, p)
       PROVE  \E i \in 1 .. 2 * n : s[i].do = "update" /\ s[i].phase = q
  <2>1. PICK k \in 1 .. n : q = c[k]
    BY <1>1
  <2>2. PICK j \in 1 .. n : o[j] = k
    BY <1>4
  <2>3. 2 * j - 1 \in 1 .. 2 * n /\ (2 * j - 1) % 2 = 1 /\ ((2 * j - 1) + 1) \div 2 = j
    BY <1>1
  <2>4. s[2 * j - 1] = Update(q)
    BY <1>5, <2>1, <2>2, <2>3
  <2>5. QED
    BY <1>1, <1>6, <2>1, <2>3, <2>4
<1>11. QED
  BY <1>8, <1>9, <1>10 DEF Waiting, s, T

-----------------------------------------------------------------------------
(***************************************************************************)
(* A phase whose first update is still to come is about to be updated, and *)
(* the root is going to be updated again after it: the phase has begun to  *)
(* run in this very update.                                                *)
(***************************************************************************)
UpdateCalled(p) == p \in Waiting(todo, "update") \cup Waiting(todo, "finish")

Stopped == outcome # "running" => todo = << >>

PendingUpdates ==
  outcome = "running" =>
    \A p \in Phases : mState[p] = "run" /\ mIsInitPending[p] =>
                        UpdateCalled(p) /\ mHasPhaseStateTransition

LEMMA PendingKept ==
  ASSUME PendingUpdates, diagram' = diagram, outcome' = "running" => outcome = "running",
         \A q \in Phases : outcome' = "running" /\ mState'[q] = "run" /\ mIsInitPending'[q] =>
           /\ mState[q] = "run" /\ mIsInitPending[q]
           /\ UpdateCalled(q) => UpdateCalled(q)'
           /\ mHasPhaseStateTransition => mHasPhaseStateTransition'
  PROVE  PendingUpdates'
BY DEF PendingUpdates, Phases

\* A step that takes the first task, which is not about q, or calls for q again.
LEMMA PendingPops ==
  ASSUME TreeInv, PendingUpdates, NEW p \in Phases, NEW do, NEW state, First(do, p, state),
         UNCHANGED <<diagram, mIsInitPending, mHasPhaseStateTransition>>,
         outcome' = "running" => outcome = "running",
         \A q \in Phases : mState'[q] = "run" => mState[q] = "run",
         \A other \in {"update", "finish"} :
           Waiting(Tail(todo), other) \subseteq Waiting(todo, other)',
         do \in {"update", "finish"} /\ mState'[p] = "run" /\ mIsInitPending[p] => UpdateCalled(p)'
  PROVE  PendingUpdates'
<1>1. ASSUME NEW q \in Phases, mState'[q] = "run", mIsInitPending[q], UpdateCalled(q)
      PROVE  UpdateCalled(q)'
  <2>1. \A other \in {"update", "finish"} :
          Waiting(todo, other) = Waiting(Tail(todo), other) \cup (IF do = other THEN {p} ELSE {})
    BY WaitingNext
  <2>2. CASE q = p /\ do \in {"update", "finish"}
    BY <1>1, <2>2
  <2>3. CASE ~ (q = p /\ do \in {"update", "finish"})
    BY <1>1, <2>1, <2>3 DEF UpdateCalled
  <2>4. QED
    BY <2>2, <2>3
<1>2. QED
  BY <1>1, PendingKept

\* What the update of a running phase calls for.
LEMMA RestCalls ==
  ASSUME TreeInv, NEW p \in Phases, First("update", p, "run")
  PROVE  /\ Rest(p) \in Seq(Tasks(diagram))
         /\ Waiting(Rest(p), "update") = OperationsIn(diagram, p) \cup Waiting(Tail(todo), "update")
         /\ Waiting(Rest(p), "finish") = {p} \cup Waiting(Tail(todo), "finish")
         /\ Waiting(Rest(p), "join") = Waiting(Tail(todo), "join")
<1>1. diagram \in Diagrams /\ p \in Ps(diagram)
  BY DEF TreeInv, Phases, Ps
<1> DEFINE r == Tail(todo)
<1>2. r \in Seq(Tasks(diagram)) /\ Rest(p) = RestOf(diagram, p, r)
  BY WaitingNext DEF Rest, RestOf
<1> HIDE DEF r
<1>3. /\ RestOf(diagram, p, r) \in Seq(Tasks(diagram))
      /\ Waiting(RestOf(diagram, p, r), "update") = OperationsIn(diagram, p) \cup Waiting(r, "update")
      /\ Waiting(RestOf(diagram, p, r), "finish") = {p} \cup Waiting(r, "finish")
      /\ Waiting(RestOf(diagram, p, r), "join") = Waiting(r, "join")
  BY <1>1, <1>2, WaitingRest
<1>4. QED
  BY <1>2, <1>3 DEF r

LEMMA MixCalls ==
  ASSUME TreeInv, NEW p \in Phases, UpdateMix(p)
  PROVE  /\ Waiting(todo, "update")' = ChildrenIn(diagram, p) \cup OperationsIn(diagram, p)
                                         \cup Waiting(Tail(todo), "update")
         /\ Waiting(todo, "finish")' = {p} \cup Waiting(Tail(todo), "finish")
         /\ Waiting(todo, "join")' \subseteq {p} \cup Waiting(Tail(todo), "join")
<1> DEFINE n == PairsOf(diagram, p, mExecOrder[p])
           r == Rest(p)
           T == Tasks(diagram)
<1>1. /\ diagram \in Diagrams /\ p \in Ps(diagram) /\ First("update", p, "run")
      /\ mExecOrder[p] # << >> /\ IsOrder(diagram, p, mExecOrder[p])
      /\ todo' = n \o r
  BY DEF UpdateMix, TreeInv, Phases, Ps, PairsOf
<1>2. /\ r \in Seq(T)
      /\ Waiting(r, "update") = OperationsIn(diagram, p) \cup Waiting(Tail(todo), "update")
      /\ Waiting(r, "finish") = {p} \cup Waiting(Tail(todo), "finish")
      /\ Waiting(r, "join") = Waiting(Tail(todo), "join")
  BY <1>1, RestCalls
<1>3. /\ n \in Seq(T) /\ Waiting(n, "update") = ChildrenIn(diagram, p)
      /\ Waiting(n, "finish") = {} /\ Waiting(n, "join") \subseteq {p}
  BY <1>1, WaitingPairs
<1> HIDE DEF n, r, T
<1>4. \A do : Waiting(n \o r, do) = Waiting(n, do) \cup Waiting(r, do)
  BY <1>2, <1>3, WaitingBoth
<1>5. QED
  BY <1>1, <1>2, <1>3, <1>4

LEMMA SerialCalls ==
  ASSUME TreeInv, NEW p \in Phases, UpdateSerial(p)
  PROVE  /\ Waiting(todo, "update")' =
              {diagram.phase[p].children[i] :
                 i \in {i \in 1 .. Len(diagram.phase[p].children) : i = mPosition[p]}}
              \cup OperationsIn(diagram, p) \cup Waiting(Tail(todo), "update")
         /\ Waiting(todo, "finish")' = {p} \cup Waiting(Tail(todo), "finish")
         /\ Waiting(todo, "join")' \subseteq {p} \cup Waiting(Tail(todo), "join")
<1> DEFINE r == Rest(p)
           c == diagram.phase[p].children
           T == Tasks(diagram)
           n == IF mPosition[p] <= Len(c) THEN UpdateAndJoin(p, c[mPosition[p]]) ELSE << >>
<1>1. /\ diagram \in Diagrams /\ p \in Ps(diagram) /\ First("update", p, "run")
      /\ todo' = n \o r
  BY DEF UpdateSerial, TreeInv, Phases, Ps
<1>2. /\ r \in Seq(T)
      /\ Waiting(r, "update") = OperationsIn(diagram, p) \cup Waiting(Tail(todo), "update")
      /\ Waiting(r, "finish") = {p} \cup Waiting(Tail(todo), "finish")
      /\ Waiting(r, "join") = Waiting(Tail(todo), "join")
  BY <1>1, RestCalls
<1>3. c \in Seq(Ps(diagram)) /\ Len(c) \in Nat /\ mPosition[p] \in 1 .. Len(c) + 1
  <2>1. c \in Seq(Ps(diagram))
    BY <1>1, DiagramFacts
  <2>2. mPosition[p] \in 1 .. Len(c) + 1
    BY <1>1 DEF TreeInv, TreeState
  <2> HIDE DEF c
  <2>3. QED
    BY <2>1, <2>2
<1>4. CASE mPosition[p] > Len(c)
  <2>1. n = << >> /\ {i \in 1 .. Len(c) : i = mPosition[p]} = {}
    BY <1>3, <1>4
  <2> HIDE DEF n, r, T, c
  <2>2. todo' = r
    BY <1>1, <1>2, <2>1, NothingFirst
  <2>3. QED
    BY <1>2, <2>1, <2>2 DEF c
<1>5. CASE mPosition[p] <= Len(c)
  <2>1. /\ n = UpdateAndJoin(p, c[mPosition[p]]) /\ c[mPosition[p]] \in Ps(diagram)
        /\ {i \in 1 .. Len(c) : i = mPosition[p]} = {mPosition[p]}
    BY <1>3, <1>5
  <2> HIDE DEF n, r, c
  <2>2. /\ Waiting(n \o r, "update") = {c[mPosition[p]]} \cup Waiting(r, "update")
        /\ Waiting(n \o r, "finish") = Waiting(r, "finish")
        /\ Waiting(n \o r, "join") = {p} \cup Waiting(r, "join")
    BY <1>1, <1>2, <2>1, WaitingPair
  <2>3. QED
    BY <1>1, <1>2, <2>1, <2>2 DEF c
<1>6. QED
  BY <1>3, <1>4, <1>5

LEMMA JoinCalls ==
  ASSUME TreeInv, NEW p \in Phases, Join(p)
  PROVE  /\ Waiting(todo, "update")' =
              (IF Kind(p) = "serial"
               THEN {diagram.phase[p].children[i] :
                       i \in {i \in 1 .. Len(diagram.phase[p].children) :
                                i = mPosition'[p] /\ mPosition'[p] # mPosition[p]}}
               ELSE {})
              \cup Waiting(Tail(todo), "update")
         /\ Waiting(todo, "finish")' = Waiting(Tail(todo), "finish")
         /\ Waiting(todo, "join")' \subseteq {p} \cup Waiting(Tail(todo), "join")
         /\ Kind(p) # "serial" => mPosition' = mPosition
         /\ \A q \in Phases : q # p => mPosition'[q] = mPosition[q]
<1> DEFINE r == Tail(todo)
           c == diagram.phase[p].children
           T == Tasks(diagram)
           next == mPosition[p] + 1
           ended == mState[Head(todo).child] = "end"
           n == IF Kind(p) = "serial" /\ ended /\ next <= Len(c)
                THEN UpdateAndJoin(p, c[next]) ELSE << >>
<1>1. /\ diagram \in Diagrams /\ p \in Ps(diagram) /\ First("join", p, "run")
      /\ todo' = n \o r
      /\ mPosition' = IF Kind(p) = "serial" /\ ended THEN [mPosition EXCEPT ![p] = next]
                      ELSE mPosition
  BY DEF Join, NextPosition, TreeInv, Phases, Ps
<1>2. r \in Seq(T)
  BY <1>1, WaitingNext
<1>3. /\ c \in Seq(Ps(diagram)) /\ Len(c) \in Nat /\ mPosition[p] \in 1 .. Len(c) + 1
      /\ mPosition \in [Phases -> Nat]
  <2>1. c \in Seq(Ps(diagram))
    BY <1>1, DiagramFacts
  <2>2. mPosition[p] \in 1 .. Len(c) + 1 /\ mPosition \in [Phases -> Nat]
    BY <1>1 DEF TreeInv, TreeState, Phases, Ps
  <2> HIDE DEF c
  <2>3. QED
    BY <2>1, <2>2
<1>4. /\ Kind(p) # "serial" => mPosition' = mPosition
      /\ \A q \in Phases : q # p => mPosition'[q] = mPosition[q]
      /\ Kind(p) = "serial" /\ ended => mPosition'[p] = next /\ next # mPosition[p]
      /\ ~ (Kind(p) = "serial" /\ ended) => mPosition'[p] = mPosition[p]
  <2>1. next # mPosition[p] /\ mPosition \in [Phases -> Nat]
    BY <1>3
  <2> HIDE DEF n, r, T, c, next, ended
  <2>2. CASE Kind(p) = "serial" /\ ended
    <3>1. mPosition' = [mPosition EXCEPT ![p] = next]
      BY <1>1, <2>2
    <3>2. QED
      BY <2>1, <2>2, <3>1
  <2>3. CASE ~ (Kind(p) = "serial" /\ ended)
    BY <1>1, <2>3
  <2>4. QED
    BY <2>2, <2>3
<1>5. CASE ~ (Kind(p) = "serial" /\ ended /\ next <= Len(c))
  <2>1. n = << >>
    BY <1>5
  <2>2. Kind(p) = "serial" => {i \in 1 .. Len(c) : i = mPosition'[p] /\ mPosition'[p] # mPosition[p]} = {}
    BY <1>3, <1>4, <1>5
  <2> HIDE DEF n, r, T, c, next, ended
  <2>3. todo' = r
    BY <1>1, <1>2, <2>1, NothingFirst
  <2>4. QED
    BY <1>4, <2>2, <2>3 DEF c, r
<1>6. CASE Kind(p) = "serial" /\ ended /\ next <= Len(c)
  <2>1. /\ n = UpdateAndJoin(p, c[next]) /\ c[next] \in Ps(diagram)
        /\ {i \in 1 .. Len(c) : i = mPosition'[p] /\ mPosition'[p] # mPosition[p]} = {next}
    BY <1>3, <1>4, <1>6
  <2> HIDE DEF n, r, c, next, ended
  <2>2. /\ Waiting(n \o r, "update") = {c[next]} \cup Waiting(r, "update")
        /\ Waiting(n \o r, "finish") = Waiting(r, "finish")
        /\ Waiting(n \o r, "join") = {p} \cup Waiting(r, "join")
    BY <1>1, <1>2, <2>1, WaitingPair
  <2>3. QED
    BY <1>1, <1>4, <1>6, <2>1, <2>2 DEF c, r
<1>7. QED
  BY <1>5, <1>6

LEMMA StoppedStep ==
  ASSUME Stopped, [Next]_vars
  PROVE  Stopped'
<1>1. ASSUME NEW p \in Phases, UpdatePhase(p)
      PROVE  Stopped'
  <2>1. todo # << >> /\ outcome = "running"
    BY <1>1 DEF Stopped, UpdatePhase, First, OnStart, KeepWaiting, OnRun, UpdateEnded, OrderChildren,
                UpdateMix, UpdateSerial, UpdateActionPhase, Join, SkipFirstUpdate, KeepRunning, OnEnd
  <2>2. (\E what : Throw(what)) => Stopped'
    BY DEF Throw, Stopped
  <2>3. CASE OnStart(p) \/ KeepWaiting(p) \/ UpdateEnded(p) \/ OrderChildren(p) \/ UpdateMix(p)
    BY <2>1, <2>2, <2>3 DEF OnStart, KeepWaiting, UpdateEnded, OrderChildren, UpdateMix, Stopped
  <2>4. CASE UpdateSerial(p) \/ UpdateActionPhase(p) \/ Join(p) \/ SkipFirstUpdate(p) \/ KeepRunning(p)
    BY <2>1, <2>2, <2>4 DEF UpdateSerial, UpdateActionPhase, Join, SkipFirstUpdate, KeepRunning, Stopped
  <2>5. CASE OnRun(p)
    <3>1. (\E what : Throw(what)) \/ (todo' = IF outcome' = "running" THEN todo ELSE << >>)
      BY <2>5 DEF OnRun
    <3>2. QED
      BY <2>2, <3>1 DEF Stopped
  <2>6. CASE OnEnd(p)
    <3>1. \/ \E what : Throw(what)
          \/ p = diagram.root /\ todo' = << >>
          \/ p # diagram.root /\ outcome' = outcome
      BY <2>6 DEF OnEnd
    <3>2. QED
      BY <2>1, <2>2, <3>1 DEF Stopped
  <2>7. QED
    BY <1>1, <2>3, <2>4, <2>5, <2>6 DEF UpdatePhase
<1>2. ASSUME NEW p \in Phases, Dispatch(p)
      PROVE  Stopped'
  BY <1>2 DEF Dispatch, PassOver, PublishActions, PutInProcess, NotifyActionEventDispatched, Stopped
<1>3. CASE BeginStart \/ BeginUpdate \/ RepeatUpdate \/ BeginDispatch \/ EndDispatch
  BY <1>3 DEF BeginStart, BeginUpdate, RepeatUpdate, BeginDispatch, EndDispatch, Stopped, ThreadDone
<1>4. CASE NewsOnly
  BY <1>4, NewsFrame DEF Stopped
<1>5. QED
  BY <1>1, <1>2, <1>3, <1>4 DEF Next, ProcessEvent, NewsOnly

\* Whoever throws, ends the scenario.
LEMMA UpdatingThrows ==
  ASSUME NEW p \in Phases, UpdatePhase(p), outcome' = "running", Stopped
  PROVE  /\ todo # << >> /\ outcome = "running"
         /\ \A what : what # "running" => ~ Throw(what)
         /\ diagram' = diagram /\ stage' = stage
<1>1. todo # << >> /\ outcome = "running"
  BY DEF Stopped, UpdatePhase, First, OnStart, KeepWaiting, OnRun, UpdateEnded, OrderChildren,
         UpdateMix, UpdateSerial, UpdateActionPhase, Join, SkipFirstUpdate, KeepRunning, OnEnd
<1>2. diagram' = diagram /\ stage' = stage
  BY DEF UpdatePhase, Throw, OnStart, KeepWaiting, OnRun, UpdateEnded, OrderChildren,
         UpdateMix, UpdateSerial, UpdateActionPhase, Join, SkipFirstUpdate, KeepRunning, OnEnd
<1>3. \A what : what # "running" => ~ Throw(what)
  BY DEF Throw
<1>4. QED
  BY <1>1, <1>2, <1>3

LEMMA PendingStep ==
  ASSUME TreeInv, OtherTypes, Stopped, PendingUpdates, [Next]_vars
  PROVE  PendingUpdates'
<1>1. /\ diagram \in Diagrams /\ Phases = Ps(diagram) /\ mState \in [Phases -> States]
      /\ mIsInitPending \in [Phases -> BOOLEAN]
  BY DEF TreeInv, TreeState, Phases, Ps, OtherTypes
<1>2. SUFFICES ASSUME outcome' = "running" PROVE PendingUpdates'
  BY DEF PendingUpdates
<1>3. ASSUME NEW p \in Phases, UpdatePhase(p)
      PROVE  PendingUpdates'
  <2>1. /\ todo # << >> /\ outcome = "running" /\ diagram' = diagram
        /\ ~ Throw("error") /\ \A what : what # "running" => ~ Throw(what)
    BY <1>2, <1>3, UpdatingThrows
  <2>2. CASE OnStart(p)
    <3>1. /\ mState' = [mState EXCEPT ![p] = "start"] /\ mHasPhaseStateTransition' = TRUE
          /\ todo' = todo /\ mIsInitPending' = mIsInitPending
      BY <2>1, <2>2 DEF OnStart
    <3>2. \A q \in Phases : mState'[q] = "run" => mState[q] = "run"
      BY <1>1, <3>1
    <3>3. \A q \in Phases : UpdateCalled(q) => UpdateCalled(q)'
      BY <3>1 DEF UpdateCalled
    <3>4. QED
      BY <2>1, <3>1, <3>2, <3>3, PendingKept
  <2>3. CASE OnRun(p)
    <3>1. /\ mState' = [mState EXCEPT ![p] = "run"] /\ mHasPhaseStateTransition' = TRUE
          /\ todo' = todo /\ mIsInitPending' = mIsInitPending
          /\ First("update", p, "start")
      BY <1>2, <2>1, <2>3 DEF OnRun
    <3>2. p \in Waiting(todo, "update")
      BY <3>1, WaitingNext
    <3>3. ASSUME NEW q \in Phases, mState'[q] = "run", mIsInitPending'[q]
          PROVE  UpdateCalled(q)'
      <4>1. UpdateCalled(q)
        BY <1>1, <2>1, <3>1, <3>2, <3>3 DEF PendingUpdates, UpdateCalled
      <4>2. QED
        BY <3>1, <4>1 DEF UpdateCalled
    <3>4. QED
      BY <2>1, <3>1, <3>3 DEF PendingUpdates, Phases
  <2>4. CASE KeepWaiting(p) \/ UpdateEnded(p)
    <3>1. PICK state \in {"start", "end"} :
            /\ First("update", p, state) /\ todo' = Tail(todo)
            /\ UNCHANGED <<diagram, mState, mIsInitPending, mHasPhaseStateTransition, outcome>>
      BY <2>4 DEF KeepWaiting, UpdateEnded, phases, executor
    <3>2. mState'[p] # "run"
      BY <3>1 DEF First
    <3>3. QED
      BY <3>1, <3>2, PendingPops
  <2>5. CASE OrderChildren(p)
    <3>1. SortResult(diagram, p, MemberDeps(diagram, p, created, mIsInitPending)) # "running"
      BY DEF SortResult
    <3>2. UNCHANGED <<diagram, mState, mIsInitPending, mHasPhaseStateTransition, outcome, todo>>
      BY <2>1, <2>5, <3>1 DEF OrderChildren, executor
    <3>3. \A q \in Phases : UpdateCalled(q) => UpdateCalled(q)'
      BY <3>2 DEF UpdateCalled
    <3>4. QED
      BY <3>2, <3>3, PendingKept
  <2>6. CASE UpdateMix(p) \/ UpdateSerial(p) \/ UpdateActionPhase(p)
    <3>1. /\ First("update", p, "run")
          /\ UNCHANGED <<diagram, mState, mIsInitPending, mHasPhaseStateTransition, outcome>>
      BY <2>1, <2>6 DEF UpdateMix, UpdateSerial, UpdateActionPhase, phases, executor
    <3>2. /\ p \in Waiting(todo, "finish")'
          /\ \A other \in {"update", "finish"} :
               Waiting(Tail(todo), other) \subseteq Waiting(todo, other)'
      <4>1. CASE UpdateMix(p)
        BY <4>1, MixCalls
      <4>2. CASE UpdateSerial(p)
        BY <4>2, SerialCalls
      <4>3. CASE UpdateActionPhase(p)
        <5>1. todo' = Rest(p)
          BY <2>1, <4>3 DEF UpdateActionPhase
        <5>2. QED
          BY <3>1, <5>1, RestCalls
      <4>4. QED
        BY <2>6, <4>1, <4>2, <4>3
    <3>3. UpdateCalled(p)'
      BY <3>2 DEF UpdateCalled
    <3>4. QED
      BY <3>1, <3>2, <3>3, PendingPops
  <2>7. CASE Join(p)
    <3>1. /\ First("join", p, "run")
          /\ UNCHANGED <<diagram, mState, mIsInitPending, mHasPhaseStateTransition, outcome>>
      BY <2>7 DEF Join, executor
    <3>2. \A other \in {"update", "finish"} : Waiting(Tail(todo), other) \subseteq Waiting(todo, other)'
      BY <2>7, JoinCalls
    <3>3. QED
      BY <3>1, <3>2, PendingPops
  <2>8. CASE SkipFirstUpdate(p)
    <3>1. /\ First("finish", p, "run") /\ todo' = Tail(todo)
          /\ mIsInitPending' = [mIsInitPending EXCEPT ![p] = FALSE]
          /\ UNCHANGED <<diagram, mState, mHasPhaseStateTransition, outcome>>
      BY <2>8 DEF SkipFirstUpdate, executor
    <3>2. \A q \in Phases : mIsInitPending'[q] => mIsInitPending[q] /\ q # p
      BY <1>1, <3>1
    <3>3. ASSUME NEW q \in Phases, q # p, UpdateCalled(q) PROVE UpdateCalled(q)'
      <4>1. \A other : Waiting(todo, other) \subseteq Waiting(todo', other) \cup {p}
        BY <3>1, WaitingNext
      <4>2. QED
        BY <3>3, <4>1 DEF UpdateCalled
    <3>4. QED
      BY <3>1, <3>2, <3>3, PendingKept
  <2>9. CASE KeepRunning(p)
    <3>1. /\ First("finish", p, "run") /\ todo' = Tail(todo) /\ ~ mIsInitPending[p]
          /\ UNCHANGED <<diagram, mState, mIsInitPending, mHasPhaseStateTransition, outcome>>
      BY <2>9 DEF KeepRunning, phases, executor
    <3>2. QED
      BY <3>1, PendingPops
  <2>10. CASE OnEnd(p)
    <3>1. /\ First("finish", p, "run") /\ ~ mIsInitPending[p]
          /\ mState' = [q \in Phases |-> IF q \in EndingWith(p) THEN "end" ELSE mState[q]]
          /\ mHasPhaseStateTransition' = TRUE /\ mIsInitPending' = mIsInitPending
          /\ p # diagram.root => todo' = Tail(todo)
          /\ p = diagram.root => outcome' = Explained(diagram.phase[p].end, mCondition', "success")
      BY <2>1, <2>10 DEF OnEnd
    <3>2. p # diagram.root
      BY <1>2, <3>1 DEF Explained
    <3>3. \A q \in Phases : mState'[q] = "run" => mState[q] = "run"
      BY <3>1
    <3>4. ASSUME NEW q \in Phases, q # p, UpdateCalled(q) PROVE UpdateCalled(q)'
      <4>1. \A other : Waiting(todo, other) \subseteq Waiting(todo', other) \cup {p}
        BY <3>1, <3>2, WaitingNext
      <4>2. QED
        BY <3>4, <4>1 DEF UpdateCalled
    <3>5. QED
      BY <2>1, <3>1, <3>3, <3>4, PendingKept
  <2>11. QED
    BY <1>3, <2>2, <2>3, <2>4, <2>5, <2>6, <2>7, <2>8, <2>9, <2>10 DEF UpdatePhase
<1>4. CASE UNCHANGED <<diagram, mState, mIsInitPending, mHasPhaseStateTransition, outcome, todo>>
  <2>1. \A q \in Phases : UpdateCalled(q) => UpdateCalled(q)'
    BY <1>4 DEF UpdateCalled
  <2>2. QED
    BY <1>4, <2>1, PendingKept
<1>5. ASSUME NEW p \in Phases, Dispatch(p)
      PROVE  PendingUpdates'
  BY <1>4, <1>5 DEF Dispatch, PassOver, PublishActions, PutInProcess,
                    NotifyActionEventDispatched, phases, executor
<1>6. CASE BeginStart \/ BeginUpdate \/ RepeatUpdate
  <2>1. todo = << >> /\ outcome = "running" /\ UNCHANGED <<diagram, mState, mIsInitPending>>
    BY <1>6 DEF BeginStart, BeginUpdate, RepeatUpdate, ThreadDone, phases
  <2>2. \A q \in Phases : ~ UpdateCalled(q)
    BY <2>1 DEF UpdateCalled, Waiting
  <2>3. QED
    BY <2>1, <2>2 DEF PendingUpdates, Phases
<1>7. CASE BeginDispatch \/ EndDispatch
  BY <1>4, <1>7 DEF BeginDispatch, EndDispatch, phases, executor
<1>8. CASE NewsOnly
  BY <1>4, <1>8, NewsFrame
<1>9. QED
  BY <1>3, <1>5, <1>6, <1>7, <1>8 DEF Next, ProcessEvent, NewsOnly

-----------------------------------------------------------------------------
(***************************************************************************)
(* The phases that the updates of the root have visited since the last     *)
(* transition.  The update of one has gone on to all that it goes on to    *)
(* now, and has found no transition, unless it is still about to.          *)
(***************************************************************************)
Settled(p) ==
  /\ mState[p] # "idle"
  /\ mState[p] = "start" => ~ IsFeasible(diagram.phase[p].start)
  /\ mState[p] = "run" => ~ IsFeasible(diagram.phase[p].end)

Goes(p) == GoesOn(diagram, mState, mPosition, p)

Visited(W) ==
  /\ W \in SUBSET Phases /\ diagram.root \in W
  /\ \A p \in W \ Waiting(todo, "update") :
       Goes(p) \subseteq W /\ (Settled(p) \/ p \in Waiting(todo, "finish"))

Quiescing == stage = "update" /\ outcome = "running" /\ ~ mHasPhaseStateTransition

Frontier == Quiescing => \E W : Visited(W)

\* The completion of actions apart, conditions answer the same after a step.
SameWorld ==
  UNCHANGED <<diagram, mState, created, motion, parameters, now, mUserDefinedEvents, sample>>

LEMMA FeasibleKept ==
  ASSUME diagram \in Diagrams, SameWorld, NEW c \in DOMAIN diagram.conditions \cup {NoCondition},
         IsFeasible(c)'
  PROVE  IsFeasible(c)
<1> DEFINE w == World(mEventStatus)
           v == World(mEventStatus)'
           all == diagram.conditions
<1>1. AreTrees(all)
  BY ConditionFacts
<1>2. diagram' = diagram
  BY DEF SameWorld
<1>3. /\ c # NoCondition /\ Check(all, c, v) = "yes"
      /\ \A i \in Leaves(all, c) : all[i].kind # "actionsComplete"
  BY <1>2 DEF IsFeasible
<1>4. AlikeButCompleted(w, v)
  BY DEF World, AlikeButCompleted, SameWorld
<1> HIDE DEF w, v, all
<1>5. c \in DOMAIN all
  BY <1>3 DEF all
<1>6. Check(all, c, w) = Check(all, c, v)
  BY <1>1, <1>3, <1>4, <1>5, SameAnswers
<1>7. QED
  BY <1>3, <1>6 DEF IsFeasible, w, all

LEMMA SettledKept ==
  ASSUME diagram \in Diagrams, SameWorld, NEW p \in Phases, Settled(p)
  PROVE  Settled(p)'
<1>1. diagram' = diagram /\ mState' = mState
  BY DEF SameWorld
<1> DEFINE s == diagram.phase[p].start
           e == diagram.phase[p].end
<1>2. s \in DOMAIN diagram.conditions \cup {NoCondition} /\ e \in DOMAIN diagram.conditions \cup {NoCondition}
  <2>1. /\ {s} \ {NoCondition} \subseteq Whole(diagram.conditions)
        /\ {e} \ {NoCondition} \subseteq Whole(diagram.conditions)
        /\ Whole(diagram.conditions) \subseteq DOMAIN diagram.conditions
    BY ConditionFacts DEF Phases
  <2> HIDE DEF s, e
  <2>2. QED
    BY <2>1
<1>3. ASSUME NEW c, c = s \/ c = e PROVE IsFeasible(c)' => IsFeasible(c)
  <2>1. c \in DOMAIN diagram.conditions \cup {NoCondition}
    BY <1>2, <1>3
  <2>2. QED
    BY <2>1, FeasibleKept
<1>4. QED
  BY <1>1, <1>3 DEF Settled

\* How a step keeps what has been visited.
LEMMA VisitedKept ==
  ASSUME diagram' = diagram, Waiting(todo, "update")' \in SUBSET Phases, NEW W, Visited(W),
         \A q \in Phases :
           \/ Goes(q)' \subseteq Waiting(todo, "update")'
           \/ /\ q \in Waiting(todo, "update") => q \in Waiting(todo, "update")'
              /\ Goes(q)' \subseteq Goes(q) \cup Waiting(todo, "update")',
         \A q \in Phases :
           \/ Settled(q)' \/ q \in Waiting(todo, "finish")'
           \/ /\ q \in Waiting(todo, "update") => q \in Waiting(todo, "update")'
              /\ q \in Waiting(todo, "finish") => q \in Waiting(todo, "finish")'
              /\ Settled(q) => Settled(q)'
  PROVE  \E V : Visited(V)'
<1> DEFINE u == Waiting(todo, "update")
           u2 == Waiting(todo, "update")'
           f == Waiting(todo, "finish")
           f2 == Waiting(todo, "finish")'
<1>1. Phases' = Phases /\ diagram'.root = diagram.root
  BY DEF Phases
<1>2. W \in SUBSET Phases /\ diagram.root \in W
      /\ \A q \in W \ u : Goes(q) \subseteq W /\ (Settled(q) \/ q \in f)
  BY DEF Visited
<1> HIDE DEF u, u2, f, f2
<1>3. u2 \in SUBSET Phases
  BY DEF u2
<1> PICK V : V = W \cup u2
  OBVIOUS
<1>4. ASSUME NEW q \in V \ u2
      PROVE  Goes(q)' \subseteq V /\ (Settled(q)' \/ q \in f2)
  <2>1. q \in W /\ q \notin u2 /\ q \in Phases
    BY <1>2, <1>4
  <2>2. Goes(q)' \subseteq V
    <3>1. CASE Goes(q)' \subseteq u2
      BY <3>1
    <3>2. CASE q \notin u /\ Goes(q)' \subseteq Goes(q) \cup u2
      BY <1>2, <2>1, <3>2
    <3>3. QED
      BY <2>1, <3>1, <3>2 DEF u, u2
  <2>3. Settled(q)' \/ q \in f2
    BY <1>2, <2>1 DEF u, u2, f, f2
  <2>4. QED
    BY <2>2, <2>3
<1>5. V \in SUBSET Phases' /\ diagram'.root \in V
  BY <1>1, <1>2, <1>3
<1>6. Visited(V)'
  BY <1>4, <1>5 DEF Visited, u2, f2
<1>7. QED
  BY <1>6

\* The thread takes a task of p and nothing has changed for the other phases.
LEMMA VisitedPops ==
  ASSUME TreeInv, TreeInv', NEW W, Visited(W), SameWorld,
         NEW p \in Phases, NEW do, NEW state, First(do, p, state),
         \A q \in Phases : q # p => mPosition'[q] = mPosition[q],
         \A other \in {"update", "finish"} :
           Waiting(Tail(todo), other) \subseteq Waiting(todo, other)',
         Goes(p)' \subseteq Goes(p) \cup Waiting(todo, "update")',
         do = "update" => Goes(p)' \subseteq Waiting(todo, "update")',
         do \in {"update", "finish"} => Settled(p)' \/ p \in Waiting(todo, "finish")'
  PROVE  \E V : Visited(V)'
<1>1. diagram' = diagram /\ mState' = mState /\ diagram \in Diagrams
  BY DEF SameWorld, TreeInv
<1>2. \A other : Waiting(todo, other) = Waiting(Tail(todo), other) \cup (IF do = other THEN {p} ELSE {})
  BY WaitingNext
<1>3. Waiting(todo, "update")' \in SUBSET Phases
  <2>1. todo' \in Seq(Tasks(diagram))
    BY <1>1 DEF TreeInv
  <2>2. Waiting(todo', "update") \subseteq Ps(diagram)
    BY <2>1, WaitingPhases
  <2>3. QED
    BY <2>2 DEF Phases, Ps
<1>4. \A q \in Phases : q # p => Goes(q)' = Goes(q)
  <2>1. SUFFICES ASSUME NEW q \in Phases, q # p PROVE Goes(q)' = Goes(q)
    OBVIOUS
  <2>2. mPosition'[q] = mPosition[q]
    BY <2>1
  <2>3. Goes(q)' = GoesOn(diagram, mState, mPosition', q)
    BY <1>1 DEF Goes
  <2>4. QED
    BY <2>2, <2>3 DEF Goes, GoesOn
<1>5. \A q \in Phases : Settled(q) => Settled(q)'
  BY <1>1, SettledKept
<1>6. ASSUME NEW q \in Phases
      PROVE  \/ Goes(q)' \subseteq Waiting(todo, "update")'
             \/ /\ q \in Waiting(todo, "update") => q \in Waiting(todo, "update")'
                /\ Goes(q)' \subseteq Goes(q) \cup Waiting(todo, "update")'
  BY <1>2, <1>4
<1>7. ASSUME NEW q \in Phases
      PROVE  \/ Settled(q)' \/ q \in Waiting(todo, "finish")'
             \/ /\ q \in Waiting(todo, "update") => q \in Waiting(todo, "update")'
                /\ q \in Waiting(todo, "finish") => q \in Waiting(todo, "finish")'
                /\ Settled(q) => Settled(q)'
  BY <1>2, <1>5
<1>8. QED
  BY <1>1, <1>3, <1>6, <1>7, VisitedKept

LEMMA VisitedSame ==
  ASSUME TreeInv, NEW W, Visited(W), SameWorld, UNCHANGED <<mPosition, todo>>
  PROVE  \E V : Visited(V)'
<1>1. diagram' = diagram /\ mState' = mState /\ diagram \in Diagrams
  BY DEF SameWorld, TreeInv
<1>2. \A q \in Phases : Goes(q)' = Goes(q)
  BY <1>1 DEF Goes
<1>3. \A q \in Phases : Settled(q) => Settled(q)'
  BY <1>1, SettledKept
<1>4. Phases' = Phases /\ diagram'.root = diagram.root
  BY <1>1 DEF Phases
<1>5. \A do : Waiting(todo, do)' = Waiting(todo, do)
  OBVIOUS
<1>6. Visited(W)'
  BY <1>2, <1>3, <1>4, <1>5 DEF Visited
<1>7. QED
  BY <1>6

LEMMA VisitedRoot ==
  ASSUME diagram \in Diagrams, diagram' = diagram, todo' = <<Update(diagram.root)>>
  PROVE  \E V : Visited(V)'
<1> DEFINE t == Update(diagram.root)
<1>1. t.do = "update" /\ t.phase = diagram.root
  BY DEF Update, Task
<1>2. Waiting(<<t>>, "update") = {diagram.root}
  BY <1>1, WaitingOne
<1>3. Waiting(todo, "update")' = {diagram.root} /\ diagram'.root = diagram.root /\ Phases' = Phases
  BY <1>2 DEF Phases
<1>4. diagram.root \in Phases
  BY DiagramFacts DEF Phases, Ps
<1> PICK V : V = {diagram.root}
  OBVIOUS
<1>5. Visited(V)'
  BY <1>3, <1>4 DEF Visited
<1>6. QED
  BY <1>5

LEMMA RunningGoes ==
  ASSUME TreeInv, NEW p \in Phases
  PROVE  /\ Goes(p) \subseteq ChildrenIn(diagram, p) \cup OperationsIn(diagram, p)
         /\ mState[p] # "run" => Goes(p) = {}
         /\ Goes(p) \subseteq OperationsIn(diagram, p) \cup
              {diagram.phase[p].children[i] :
                 i \in {i \in 1 .. Len(diagram.phase[p].children) :
                          Kind(p) = "mix" \/ (Kind(p) = "serial" /\ i = mPosition[p])}}
<1>1. diagram \in Diagrams /\ p \in Ps(diagram)
  BY DEF TreeInv, Phases, Ps
<1>2. Goes(p) \subseteq ChildrenIn(diagram, p) \cup OperationsIn(diagram, p)
  BY <1>1, GoesOnFacts, DiagramFacts DEF Goes
<1>3. QED
  BY <1>2 DEF Goes, GoesOn, Kind

\* A phase that keeps waiting or running has found that it is not to change.
LEMMA KeepWaitingSettles ==
  ASSUME NEW p \in Phases, KeepWaiting(p)
  PROVE  Settled(p)' /\ Goes(p)' = {}
<1> DEFINE c == diagram.phase[p].start
           w == World(mEventStatus)
<1>1. /\ mState[p] = "start" /\ Ask(c, w) = "no"
      /\ SameWorld /\ mEventStatus' = mEventStatus /\ mChildrenDone' = mChildrenDone
  BY DEF KeepWaiting, First, SameWorld, simulation, executor, phases
<1>2. World(mEventStatus)' = w
  BY <1>1 DEF World, SameWorld, HasCompleted, Phases, IsActionPhase, Kind, Final, ActionsOf
<1> HIDE DEF w
<1>3. ASSUME NEW x, x = c PROVE ~ IsFeasible(x)'
  BY <1>1, <1>2, <1>3 DEF IsFeasible, Ask, SameWorld
<1>4. mState'[p] = "start" /\ diagram' = diagram
  BY <1>1 DEF SameWorld
<1>5. QED
  BY <1>3, <1>4 DEF Settled, Goes, GoesOn

LEMMA KeepRunningSettles ==
  ASSUME NEW p \in Phases, KeepRunning(p)
  PROVE  Settled(p)'
<1> DEFINE c == diagram.phase[p].end
           w == World(StatusAfterUpdate(p))
<1>1. /\ mState[p] = "run" /\ Ends(p) = "no"
      /\ SameWorld /\ mEventStatus' = StatusAfterUpdate(p) /\ mChildrenDone' = mChildrenDone
  BY DEF KeepRunning, First, SameWorld, simulation, executor, phases
<1>2. c # NoCondition => Ask(c, w) = "no"
  BY <1>1 DEF Ends
<1>3. World(mEventStatus)' = w
  BY <1>1 DEF World, SameWorld, HasCompleted, Phases, IsActionPhase, Kind, Final, ActionsOf
<1> HIDE DEF w
<1>4. ASSUME NEW x, x = c PROVE ~ IsFeasible(x)'
  BY <1>1, <1>2, <1>3, <1>4 DEF IsFeasible, Ask, SameWorld
<1>5. mState'[p] = "run" /\ diagram' = diagram
  BY <1>1 DEF SameWorld
<1>6. QED
  BY <1>4, <1>5 DEF Settled

LEMMA UpdatesVisit ==
  ASSUME TreeInv, TreeInv', Stopped, PendingUpdates, NEW W, Visited(W), ~ mHasPhaseStateTransition,
         NEW p \in Phases, UpdatePhase(p), outcome' = "running", ~ mHasPhaseStateTransition'
  PROVE  \E V : Visited(V)'
<1>1. /\ todo # << >> /\ outcome = "running" /\ diagram' = diagram
      /\ ~ Throw("error") /\ \A what : what # "running" => ~ Throw(what)
  BY UpdatingThrows
<1>2. ~ OnStart(p) /\ ~ OnRun(p) /\ ~ OnEnd(p)
  BY <1>1 DEF OnStart, OnRun, OnEnd
<1>3. CASE KeepWaiting(p)
  <2>1. /\ First("update", p, "start") /\ todo' = Tail(todo) /\ SameWorld /\ mPosition' = mPosition
    BY <1>3 DEF KeepWaiting, SameWorld, simulation, executor, phases
  <2>2. Settled(p)' /\ Goes(p)' = {}
    BY <1>3, KeepWaitingSettles
  <2>3. QED
    BY <2>1, <2>2, VisitedPops
<1>4. CASE UpdateEnded(p)
  <2>1. /\ First("update", p, "end") /\ todo' = Tail(todo) /\ SameWorld /\ mPosition' = mPosition
    BY <1>4 DEF UpdateEnded, SameWorld, simulation, executor, phases, conditions
  <2>2. Settled(p)' /\ Goes(p)' = {}
    <3>1. mState'[p] = "end"
      BY <2>1 DEF First, SameWorld
    <3>2. QED
      BY <3>1 DEF Settled, Goes, GoesOn
  <2>3. QED
    BY <2>1, <2>2, VisitedPops
<1>5. CASE OrderChildren(p)
  <2>1. SortResult(diagram, p, MemberDeps(diagram, p, created, mIsInitPending)) # "running"
    BY DEF SortResult
  <2>2. SameWorld /\ UNCHANGED <<mPosition, todo>>
    BY <1>1, <1>5, <2>1 DEF OrderChildren, SameWorld, executor, simulation, conditions
  <2>3. QED
    BY <2>2, VisitedSame
<1>6. CASE UpdateMix(p)
  <2>1. First("update", p, "run") /\ SameWorld /\ mPosition' = mPosition
    BY <1>6 DEF UpdateMix, SameWorld, executor, simulation, conditions
  <2>2. /\ Waiting(todo, "update")' = ChildrenIn(diagram, p) \cup OperationsIn(diagram, p)
                                         \cup Waiting(Tail(todo), "update")
        /\ Waiting(todo, "finish")' = {p} \cup Waiting(Tail(todo), "finish")
    BY <1>6, MixCalls
  <2>3. Goes(p)' = Goes(p)
    BY <2>1 DEF Goes, SameWorld
  <2>4. Goes(p)' \subseteq Waiting(todo, "update")'
    BY <2>2, <2>3, RunningGoes
  <2>5. QED
    BY <2>1, <2>2, <2>4, VisitedPops
<1>7. CASE UpdateSerial(p)
  <2> DEFINE current == {diagram.phase[p].children[i] :
                           i \in {i \in 1 .. Len(diagram.phase[p].children) : i = mPosition[p]}}
  <2>1. First("update", p, "run") /\ SameWorld /\ mPosition' = mPosition /\ Kind(p) = "serial"
    BY <1>7 DEF UpdateSerial, SameWorld, executor, simulation, conditions, phases
  <2>2. /\ Waiting(todo, "update")' = current \cup OperationsIn(diagram, p)
                                         \cup Waiting(Tail(todo), "update")
        /\ Waiting(todo, "finish")' = {p} \cup Waiting(Tail(todo), "finish")
    BY <1>7, SerialCalls
  <2>3. Goes(p)' = Goes(p)
    BY <2>1 DEF Goes, SameWorld
  <2>4. Goes(p) \subseteq OperationsIn(diagram, p) \cup current
    BY <2>1, RunningGoes
  <2> HIDE DEF current
  <2>5. Goes(p)' \subseteq Waiting(todo, "update")'
    BY <2>2, <2>3, <2>4
  <2>6. QED
    BY <2>1, <2>2, <2>5, VisitedPops
<1>8. CASE UpdateActionPhase(p)
  <2>1. /\ First("update", p, "run") /\ SameWorld /\ mPosition' = mPosition
        /\ Kind(p) \notin {"mix", "serial"} /\ todo' = Rest(p)
    BY <1>1, <1>8 DEF UpdateActionPhase, SameWorld, executor, simulation, phases, IsActionPhase
  <2>2. /\ Waiting(todo, "update")' = OperationsIn(diagram, p) \cup Waiting(Tail(todo), "update")
        /\ Waiting(todo, "finish")' = {p} \cup Waiting(Tail(todo), "finish")
    BY <2>1, RestCalls
  <2>3. Goes(p)' = Goes(p)
    BY <2>1 DEF Goes, SameWorld
  <2>4. Goes(p) \subseteq OperationsIn(diagram, p)
    BY <2>1, RunningGoes
  <2>5. QED
    BY <2>1, <2>2, <2>3, <2>4, VisitedPops
<1>9. CASE Join(p)
  <2> DEFINE c == diagram.phase[p].children
             new == IF Kind(p) = "serial"
                    THEN {c[i] : i \in {i \in 1 .. Len(c) : i = mPosition'[p] /\ mPosition'[p] # mPosition[p]}}
                    ELSE {}
  <2>1. First("join", p, "run") /\ SameWorld
    BY <1>9 DEF Join, SameWorld, executor, simulation, conditions
  <2>2. /\ Waiting(todo, "update")' = new \cup Waiting(Tail(todo), "update")
        /\ Waiting(todo, "finish")' = Waiting(Tail(todo), "finish")
        /\ Kind(p) # "serial" => mPosition' = mPosition
        /\ \A q \in Phases : q # p => mPosition'[q] = mPosition[q]
    BY <1>9, JoinCalls
  <2>3. Goes(p)' \subseteq Goes(p) \cup new
    <3>1. CASE mPosition'[p] = mPosition[p]
      BY <2>1, <3>1 DEF Goes, GoesOn, SameWorld
    <3>2. CASE mPosition'[p] # mPosition[p]
      <4>1. Kind(p) = "serial" /\ diagram.phase[p].kind = "serial"
        BY <2>2, <3>2 DEF Kind
      <4>2. new = {c[i] : i \in {i \in 1 .. Len(c) : i = mPosition'[p]}}
        BY <3>2, <4>1
      <4>3. Goes(p)' = OperationsIn(diagram, p) \cup {c[i] : i \in {i \in 1 .. Len(c) : i = mPosition'[p]}}
        BY <2>1, <4>1 DEF Goes, GoesOn, SameWorld, First
      <4>4. OperationsIn(diagram, p) \subseteq Goes(p)
        BY <2>1 DEF Goes, GoesOn, First
      <4>5. QED
        BY <4>2, <4>3, <4>4
    <3>3. QED
      BY <3>1, <3>2
  <2> HIDE DEF new
  <2>4. QED
    BY <2>1, <2>2, <2>3, VisitedPops
<1>10. CASE SkipFirstUpdate(p)
  BY <1>1, <1>10 DEF SkipFirstUpdate, First, PendingUpdates
<1>11. CASE KeepRunning(p)
  <2>1. /\ First("finish", p, "run") /\ todo' = Tail(todo) /\ SameWorld /\ mPosition' = mPosition
    BY <1>11 DEF KeepRunning, SameWorld, simulation, executor, phases
  <2>2. Settled(p)'
    BY <1>11, KeepRunningSettles
  <2>3. Goes(p)' = Goes(p)
    BY <2>1 DEF Goes, SameWorld
  <2>4. QED
    BY <2>1, <2>2, <2>3, VisitedPops
<1>12. QED
  BY <1>2, <1>3, <1>4, <1>5, <1>6, <1>7, <1>8, <1>9, <1>10, <1>11 DEF UpdatePhase

LEMMA FrontierStep ==
  ASSUME TreeInv, TreeInv', Control, Stopped, PendingUpdates, Frontier, [Next]_vars
  PROVE  Frontier'
<1>1. SUFFICES ASSUME Quiescing' PROVE \E V : Visited(V)'
  BY DEF Frontier
<1>2. stage' = "update" /\ outcome' = "running" /\ ~ mHasPhaseStateTransition'
  BY <1>1 DEF Quiescing
<1>3. ASSUME NEW p \in Phases, UpdatePhase(p)
      PROVE  \E V : Visited(V)'
  <2>1. outcome = "running" /\ stage = "update"
    BY <1>2, <1>3, UpdatingThrows
  <2>2. ~ mHasPhaseStateTransition
    BY <1>2, <1>3, UpdatingThrows
       DEF UpdatePhase, OnStart, KeepWaiting, OnRun, UpdateEnded, OrderChildren, UpdateMix, UpdateSerial,
           UpdateActionPhase, Join, SkipFirstUpdate, KeepRunning, OnEnd, executor, Throw
  <2>3. PICK W : Visited(W)
    BY <2>1, <2>2 DEF Frontier, Quiescing
  <2>4. QED
    BY <1>2, <1>3, <2>2, <2>3, UpdatesVisit
<1>4. ASSUME SameWorld, UNCHANGED <<mPosition, todo, stage, outcome, mHasPhaseStateTransition>>
      PROVE  \E V : Visited(V)'
  <2>1. PICK W : Visited(W)
    BY <1>2, <1>4 DEF Frontier, Quiescing
  <2>2. QED
    BY <1>4, <2>1, VisitedSame
<1>5. ASSUME NEW p \in Phases, Dispatch(p)
      PROVE  \E V : Visited(V)'
  BY <1>4, <1>5 DEF Dispatch, PassOver, PublishActions, PutInProcess, NotifyActionEventDispatched,
                    SameWorld, phases, executor, simulation, conditions
<1>6. CASE BeginUpdate \/ RepeatUpdate
  <2>1. diagram \in Diagrams /\ diagram' = diagram /\ todo' = <<Update(diagram.root)>>
    BY <1>6 DEF BeginUpdate, RepeatUpdate, TreeInv
  <2>2. QED
    BY <2>1, VisitedRoot
<1>7. CASE BeginStart \/ BeginDispatch \/ EndDispatch
  BY <1>2, <1>7 DEF BeginStart, BeginDispatch, EndDispatch
<1>8. CASE NewsOnly
  BY <1>4, <1>8, NewsFrame DEF SameWorld
<1>9. QED
  BY <1>3, <1>5, <1>6, <1>7, <1>8 DEF Next, ProcessEvent, NewsOnly

UpdateInv ==
  /\ TreeInv /\ OtherTypes /\ Control
  /\ Stopped /\ PendingUpdates /\ Frontier

LEMMA UpdateInvInit == Init => UpdateInv
<1>1. SUFFICES ASSUME Init PROVE UpdateInv
  OBVIOUS
<1>2. TreeInv /\ OtherTypes /\ Control
  BY <1>1, InitTree, OtherTypesInit, DiagramInvInit DEF DiagramInv
<1>3. outcome = "running" /\ todo = << >> /\ stage = "new" /\ mState = [p \in Phases |-> "idle"]
  BY <1>1 DEF Init
<1>4. QED
  BY <1>2, <1>3 DEF UpdateInv, Stopped, PendingUpdates, Frontier, Quiescing

LEMMA UpdateInvStep == DiagramInv /\ UpdateInv /\ [Next]_vars => UpdateInv'
<1>1. SUFFICES ASSUME DiagramInv, UpdateInv, [Next]_vars PROVE UpdateInv'
  OBVIOUS
<1>2. /\ TreeInv /\ OtherTypes /\ Control /\ Stopped /\ PendingUpdates /\ Frontier
      /\ diagram \in Diagrams
  BY <1>1 DEF UpdateInv, TreeInv
<1>3. TreeInv'
  BY <1>1, <1>2, NextTree, StutterTree
<1>4. OtherTypes' /\ Control'
  BY <1>1, <1>2, OtherTypesStep, DiagramInvStep DEF DiagramInv
<1>5. Stopped' /\ PendingUpdates' /\ Frontier'
  BY <1>1, <1>2, <1>3, StoppedStep, PendingStep, FrontierStep
<1>6. QED
  BY <1>3, <1>4, <1>5 DEF UpdateInv

LEMMA UpdatesEndStable ==
  ASSUME UpdateInv
  PROVE  StableAfterUpdate
<1>1. SUFFICES ASSUME ThreadDone, stage = "update", ~ UpdatesAgain, NEW p \in Live
               PROVE  /\ mState[p] # "idle"
                      /\ mState[p] = "start" => ~ IsFeasible(diagram.phase[p].start)
                      /\ mState[p] = "run" => ~ IsFeasible(diagram.phase[p].end) /\ ~ mIsInitPending[p]
  BY DEF StableAfterUpdate
<1>2. todo = << >> /\ outcome = "running" /\ ~ mHasPhaseStateTransition
  BY <1>1 DEF ThreadDone, UpdatesAgain
<1>3. \A do : Waiting(todo, do) = {}
  BY <1>2 DEF Waiting
<1>4. PICK W : Visited(W)
  BY <1>1, <1>2 DEF UpdateInv, Frontier, Quiescing
<1>5. /\ W \in SUBSET Phases /\ diagram.root \in W
      /\ \A q \in W : Goes(q) \subseteq W /\ Settled(q)
  BY <1>3, <1>4 DEF Visited
<1>6. Live \subseteq W
  <2>1. diagram \in Diagrams /\ W \in SUBSET Ps(diagram)
    BY <1>5 DEF UpdateInv, TreeInv, Phases, Ps
  <2>2. LiveIn(diagram, mState, mPosition) \subseteq W
    BY <1>5, <2>1, LiveFacts DEF Goes
  <2>3. QED
    BY <2>1, <2>2, LivePhases
<1>7. Settled(p) /\ p \in Phases
  BY <1>1, <1>5, <1>6
<1>8. mState[p] = "run" => ~ mIsInitPending[p]
  BY <1>2, <1>7 DEF UpdateInv, PendingUpdates
<1>9. QED
  BY <1>7, <1>8 DEF Settled

(***************************************************************************)
(* In every scenario the updates of an update event end only when no phase *)
(* that they come to can change its state any more: "in a stable status at *)
(* the end of each step" (PhaseDiagramExecutor::ProcessEvent).             *)
(***************************************************************************)
THEOREM UpdatesLeaveNothing == Spec => []StableAfterUpdate
<1>1. UpdateInv => StableAfterUpdate
  BY UpdatesEndStable
<1>2. QED
  BY <1>1, DiagramInvInit, DiagramInvStep, UpdateInvInit, UpdateInvStep, PTL DEF Spec

-----------------------------------------------------------------------------
(* Durations: each is measured from the step on which its phase began to run. *)

LeastTime(p) == diagram.conditions[diagram.phase[p].end].duration - Tolerance

Timed(p) == mState[p] = "run" /\ IsDuration(diagram.phase[p].end)

Clock == now \in Nat /\ ranAt \in [Phases -> Nat]

SampledAtRun == \A p \in Phases : Timed(p) => sample[diagram.phase[p].end] = ranAt[p]

LEMMA SamplesFacts ==
  ASSUME NEW all, NEW ids, NEW w, NEW i \in DOMAIN all
  PROVE  /\ (\A id \in ids : i \notin Leaves(all, id)) => SamplesAfterApply(all, ids, w)[i] = w.sample[i]
         /\ (\E id \in ids : i \in Leaves(all, id)) /\ all[i].kind = "duration"
              => SamplesAfterApply(all, ids, w)[i] = w.now
<1> DEFINE applied == UNION {Leaves(all, id) : id \in ids}
<1>1. SamplesAfterApply(all, ids, w)[i] =
        CASE i \in applied /\ all[i].kind = "duration" -> w.now
          [] i \in applied /\ SamplesAtStart(all[i]) -> w.speed[all[i].ref]
          [] OTHER -> w.sample[i]
  BY DEF SamplesAfterApply
<1>2. i \in applied <=> \E id \in ids : i \in Leaves(all, id)
  OBVIOUS
<1> HIDE DEF applied
<1>3. i \notin applied => SamplesAfterApply(all, ids, w)[i] = w.sample[i]
  BY <1>1, Zenon
<1>4. i \in applied /\ all[i].kind = "duration" /\ ~ SamplesAtStart(all[i])
        => SamplesAfterApply(all, ids, w)[i] = w.now
  BY <1>1, Zenon
<1>5. all[i].kind = "duration" => ~ SamplesAtStart(all[i])
  BY DEF SamplesAtStart
<1>6. QED
  BY <1>2, <1>3, <1>4, <1>5

\* The duration at the end of a phase is no part of what else is applied.
LEMMA OwnDuration ==
  ASSUME diagram \in Diagrams, NEW p \in Phases, IsDuration(diagram.phase[p].end)
  PROVE  LET c == diagram.phase[p].end
         IN  /\ c \in DOMAIN diagram.conditions /\ c \in Whole(diagram.conditions)
             /\ Leaves(diagram.conditions, c) = {c} /\ ~ IsComposite(diagram.conditions[c])
             /\ diagram.conditions[c].kind = "duration"
             /\ \A q \in Phases : diagram.phase[q].start # c
             /\ \A q \in Phases : diagram.phase[q].end = c => q = p
             /\ \A a \in ActionIds : diagram.action[a].condition # c
<1> DEFINE c == diagram.phase[p].end
           all == diagram.conditions
<1>1. c # NoCondition /\ all[c].kind = "duration"
  BY DEF IsDuration
<1>2. AreTrees(all) /\ c \in Whole(all) /\ c \in DOMAIN all
  <2>1. /\ AreTrees(all) /\ Whole(all) \subseteq DOMAIN all
        /\ {c} \ {NoCondition} \subseteq Whole(all)
    BY ConditionFacts DEF Phases
  <2> HIDE DEF c, all
  <2>2. QED
    BY <1>1, <2>1
<1>3. \A x, y \in UsesOf(diagram, c) : x = y
  BY <1>2, ConditionAssumption
<1>4. <<p, "end">> \in UsesOf(diagram, c)
  BY DEF UsesOf, Phases
<1>5. ASSUME NEW q \in Phases, diagram.phase[q].start = c PROVE FALSE
  <2>1. <<q, "start">> \in UsesOf(diagram, c)
    BY <1>5 DEF UsesOf, Phases
  <2>2. <<q, "start">> = <<p, "end">>
    BY <1>3, <1>4, <2>1
  <2>3. QED
    BY <2>2
<1>6. ASSUME NEW q \in Phases, diagram.phase[q].end = c PROVE q = p
  <2>1. <<q, "end">> \in UsesOf(diagram, c)
    BY <1>6 DEF UsesOf, Phases
  <2>2. <<q, "end">> = <<p, "end">>
    BY <1>3, <1>4, <2>1
  <2>3. QED
    BY <2>2
<1>7. ASSUME NEW a \in ActionIds, diagram.action[a].condition = c PROVE FALSE
  <2>1. <<a, "action">> \in UsesOf(diagram, c)
    BY <1>7 DEF UsesOf, ActionIds
  <2>2. <<a, "action">> = <<p, "end">>
    BY <1>3, <1>4, <2>1
  <2>3. QED
    BY <2>2
<1>8. ~ IsComposite(all[c]) /\ Leaves(all, c) = {c}
  <2>1. ~ IsComposite(all[c])
    BY <1>1 DEF IsComposite
  <2>2. QED
    BY <1>2, <2>1, LeavesFacts
<1>9. QED
  BY <1>1, <1>2, <1>5, <1>6, <1>7, <1>8

\* The steps that do not end the scenario, by what they do to phases and to times.
Idles ==
  /\ UNCHANGED <<mState, mPosition, sample, ranAt, now>>
  /\ stage' = stage \/ stage # "update"

LEMMA TimedSteps ==
  ASSUME Stopped, [Next]_vars, outcome' = "running"
  PROVE  /\ outcome = "running" /\ diagram' = diagram
         /\ \/ \E p \in Phases : ~ Throw("error") /\ (OnStart(p) \/ OnRun(p) \/ OnEnd(p))
            \/ \E p \in Phases : Join(p)
            \/ Idles \/ BeginUpdate
            \/ stage = "update" /\ BeginDispatch
<1>1. ASSUME NEW p \in Phases, UpdatePhase(p)
      PROVE  /\ outcome = "running" /\ diagram' = diagram
             /\ \/ ~ Throw("error") /\ (OnStart(p) \/ OnRun(p) \/ OnEnd(p))
                \/ Join(p)
                \/ Idles
  <2>1. /\ outcome = "running" /\ diagram' = diagram /\ stage' = stage
        /\ ~ Throw("error") /\ \A what : what # "running" => ~ Throw(what)
    BY <1>1, UpdatingThrows
  <2>2. CASE KeepWaiting(p) \/ UpdateEnded(p) \/ KeepRunning(p) \/ UpdateSerial(p)
    BY <2>1, <2>2 DEF KeepWaiting, UpdateEnded, KeepRunning, UpdateSerial, Idles, phases, conditions, simulation
  <2>3. CASE UpdateMix(p) \/ UpdateActionPhase(p) \/ SkipFirstUpdate(p)
    BY <2>1, <2>3 DEF UpdateMix, UpdateActionPhase, SkipFirstUpdate, Idles, phases, conditions, simulation
  <2>4. CASE OrderChildren(p)
    <3>1. SortResult(diagram, p, MemberDeps(diagram, p, created, mIsInitPending)) # "running"
      BY DEF SortResult
    <3>2. QED
      BY <2>1, <2>4, <3>1 DEF OrderChildren, Idles, conditions, simulation
  <2>5. QED
    BY <1>1, <2>1, <2>2, <2>3, <2>4 DEF UpdatePhase
<1>2. ASSUME NEW p \in Phases, Dispatch(p)
      PROVE  outcome = "running" /\ diagram' = diagram /\ Idles
  BY <1>2 DEF Dispatch, PassOver, PublishActions, PutInProcess, NotifyActionEventDispatched, Idles,
              phases, conditions, simulation
<1>3. CASE BeginStart \/ RepeatUpdate \/ EndDispatch
  BY <1>3 DEF BeginStart, RepeatUpdate, EndDispatch, Idles, phases, conditions, simulation
<1>4. CASE BeginUpdate
  BY <1>4 DEF BeginUpdate
<1>5. CASE BeginDispatch
  BY <1>5 DEF BeginDispatch, Idles, phases, conditions, simulation
<1>6. CASE NewsOnly
  BY <1>6, NewsFrame DEF Idles
<1>7. QED
  BY <1>1, <1>2, <1>3, <1>4, <1>5, <1>6 DEF Next, ProcessEvent, NewsOnly

LEMMA ClockStep ==
  ASSUME Clock, [Next]_vars
  PROVE  Clock'
<1>1. ASSUME UNCHANGED <<diagram, now, ranAt>> PROVE Clock'
  BY <1>1 DEF Clock, Phases
<1>2. ASSUME NEW p \in Phases, UpdatePhase(p)
      PROVE  Clock'
  <2>1. CASE OnRun(p)
    <3>1. \/ UNCHANGED <<diagram, now, ranAt>>
          \/ diagram' = diagram /\ now' = now /\ ranAt' = [ranAt EXCEPT ![p] = now]
      BY <2>1 DEF OnRun, Throw, simulation
    <3>2. QED
      BY <1>1, <3>1 DEF Clock, Phases
  <2>2. CASE OnStart(p) \/ KeepWaiting(p) \/ UpdateEnded(p) \/ OrderChildren(p) \/ UpdateMix(p)
    BY <1>1, <2>2 DEF OnStart, KeepWaiting, UpdateEnded, OrderChildren, UpdateMix, Throw, simulation
  <2>3. CASE UpdateSerial(p) \/ UpdateActionPhase(p) \/ Join(p) \/ SkipFirstUpdate(p)
             \/ KeepRunning(p) \/ OnEnd(p)
    BY <1>1, <2>3 DEF UpdateSerial, UpdateActionPhase, Join, SkipFirstUpdate, KeepRunning, OnEnd,
                      Throw, simulation
  <2>4. QED
    BY <1>2, <2>1, <2>2, <2>3 DEF UpdatePhase
<1>3. ASSUME NEW p \in Phases, Dispatch(p)
      PROVE  Clock'
  BY <1>1, <1>3 DEF Dispatch, PassOver, PublishActions, PutInProcess, NotifyActionEventDispatched,
                    simulation
<1>4. CASE BeginUpdate
  BY <1>4, StepAssumption DEF BeginUpdate, Clock, Phases
<1>5. CASE BeginStart \/ RepeatUpdate \/ BeginDispatch \/ EndDispatch
  BY <1>1, <1>5 DEF BeginStart, RepeatUpdate, BeginDispatch, EndDispatch, simulation
<1>6. CASE NewsOnly
  BY <1>1, <1>6, NewsFrame
<1>7. QED
  BY <1>2, <1>3, <1>4, <1>5, <1>6 DEF Next, ProcessEvent, NewsOnly

\* What is applied when a phase starts or runs leaves the durations of other phases alone.
LEMMA OthersSample ==
  ASSUME diagram \in Diagrams, NEW p \in Phases, IsDuration(diagram.phase[p].end),
         NEW ids \in SUBSET Whole(diagram.conditions), NEW w, w.sample = sample
  PROVE  LET c == diagram.phase[p].end
         IN  /\ c \notin ids => SamplesAfterApply(diagram.conditions, ids, w)[c] = sample[c]
             /\ c \in ids => SamplesAfterApply(diagram.conditions, ids, w)[c] = w.now
<1> DEFINE c == diagram.phase[p].end
           all == diagram.conditions
<1>1. AreTrees(all) /\ Whole(all) \subseteq DOMAIN all
  BY ConditionFacts
<1>2. c \in DOMAIN all /\ c \in Whole(all) /\ Leaves(all, c) = {c} /\ all[c].kind = "duration"
  BY OwnDuration
<1> HIDE DEF c, all
<1>3. ASSUME NEW id \in ids, c \in Leaves(all, id) PROVE c = id
  <2>1. id \in DOMAIN all
    BY <1>1 DEF all
  <2>2. QED
    BY <1>1, <1>2, <1>3, <2>1, WholeApart
<1>4. c \notin ids => SamplesAfterApply(all, ids, w)[c] = w.sample[c]
  BY <1>2, <1>3, SamplesFacts
<1>5. c \in ids => SamplesAfterApply(all, ids, w)[c] = w.now
  BY <1>2, SamplesFacts
<1>6. QED
  BY <1>4, <1>5 DEF c, all

LEMMA OnStartTimes ==
  ASSUME NEW p \in Phases, OnStart(p), ~ Throw("error")
  PROVE  /\ First("update", p, "idle") /\ mState' = [mState EXCEPT ![p] = "start"]
         /\ UNCHANGED <<diagram, mPosition, now, ranAt, stage, todo>>
         /\ \E w : /\ w.now = now /\ w.sample = sample
                   /\ sample' = SamplesAfterApply(diagram.conditions,
                                                  {diagram.phase[p].start} \ {NoCondition}, w)
<1>1. World(mEventStatus).now = now /\ World(mEventStatus).sample = sample
  BY DEF World
<1>2. QED
  BY <1>1 DEF OnStart, simulation

LEMMA OnRunTimes ==
  ASSUME NEW p \in Phases, OnRun(p), ~ Throw("error")
  PROVE  /\ First("update", p, "start") /\ mState' = [mState EXCEPT ![p] = "run"]
         /\ ranAt' = [ranAt EXCEPT ![p] = now] /\ UNCHANGED <<diagram, mPosition, now, stage>>
         /\ todo' = IF outcome' = "running" THEN todo ELSE << >>
         /\ \E w : /\ w.now = now /\ w.sample = sample
                   /\ sample' = SamplesAfterApply(diagram.conditions, AppliedOnRun(p), w)
<1> DEFINE status == CASE Kind(p) = "drive"  -> Preempted(Rivals(p), mEventStatus)
                       [] Kind(p) = "system" -> DispatchFinalActions(p, mEventStatus)
                       [] OTHER -> mEventStatus
           w == RunWorld(p, status)
<1>1. \A st : RunWorld(p, st).now = now /\ RunWorld(p, st).sample = sample
  BY DEF RunWorld, World
<1>2. sample' = SamplesAfterApply(diagram.conditions, AppliedOnRun(p), w)
  BY DEF OnRun
<1>3. /\ First("update", p, "start") /\ mState' = [mState EXCEPT ![p] = "run"]
      /\ ranAt' = [ranAt EXCEPT ![p] = now] /\ UNCHANGED <<diagram, mPosition, now, stage>>
      /\ todo' = IF outcome' = "running" THEN todo ELSE << >>
  BY DEF OnRun
<1> HIDE DEF status
<1>4. w.now = now /\ w.sample = sample
  BY <1>1
<1>5. QED
  BY <1>2, <1>3, <1>4

LEMMA OnEndTimes ==
  ASSUME diagram \in Diagrams, NEW p \in Phases, OnEnd(p), ~ Throw("error"), outcome' = "running"
  PROVE  /\ First("finish", p, "run") /\ ~ mIsInitPending[p] /\ Ends(p) = "yes"
         /\ mState' = [q \in Phases |-> IF q \in EndingWith(p) THEN "end" ELSE mState[q]]
         /\ UNCHANGED <<diagram, mPosition, sample, now, ranAt, stage>>
         /\ p # diagram.root /\ todo' = Tail(todo)
<1>1. Ends(p) # "no" /\ Ends(p) # "error" /\ p # diagram.root
  BY DEF OnEnd, Explained
<1>2. Ends(p) \in Verdicts
  <2>1. /\ AreTrees(diagram.conditions)
        /\ diagram.phase[p].end # NoCondition => diagram.phase[p].end \in DOMAIN diagram.conditions
    BY ConditionFacts DEF Phases
  <2>2. \A w : Ask(diagram.phase[p].end, w) \in Verdicts
    BY <2>1, AnswersFacts DEF Ask, Check, Verdicts
  <2>3. QED
    BY <2>2 DEF Ends, Truth, Verdicts
<1>3. QED
  BY <1>1, <1>2 DEF OnEnd, Verdicts, simulation

SampleInv == outcome = "running" => SampledAtRun

LEMMA SampleStep ==
  ASSUME diagram \in Diagrams, Clock, mState \in [Phases -> States], Stopped, SampleInv, [Next]_vars
  PROVE  SampleInv'
<1>1. SUFFICES ASSUME outcome' = "running" PROVE SampledAtRun'
  BY DEF SampleInv
<1>2. SampledAtRun /\ diagram' = diagram
  BY <1>1, TimedSteps DEF SampleInv
<1>3. Phases' = Phases /\ \A q \in Phases : Timed(q)' <=> mState'[q] = "run" /\ IsDuration(diagram.phase[q].end)
  BY <1>2 DEF Phases, Timed, IsDuration
<1>4. SUFFICES ASSUME NEW q \in Phases, mState'[q] = "run", IsDuration(diagram.phase[q].end)
               PROVE  sample'[diagram.phase[q].end] = ranAt'[q]
  BY <1>2, <1>3 DEF SampledAtRun
<1> DEFINE c == diagram.phase[q].end
<1>5. ASSUME mState[q] = "run" PROVE sample[c] = ranAt[q]
  BY <1>2, <1>4, <1>5 DEF SampledAtRun, Timed
<1>6. /\ \A p \in Phases : diagram.phase[p].start # c
      /\ \A p \in Phases : diagram.phase[p].end = c => p = q
      /\ \A a \in ActionIds : diagram.action[a].condition # c
  BY <1>4, OwnDuration
<1>7. CASE sample' = sample /\ ranAt' = ranAt /\ mState[q] = "run"
  BY <1>5, <1>7
<1>8. ASSUME NEW p \in Phases, OnStart(p), ~ Throw("error")
      PROVE  sample'[c] = ranAt'[q]
  <2> DEFINE ids == {diagram.phase[p].start} \ {NoCondition}
  <2>1. /\ mState' = [mState EXCEPT ![p] = "start"] /\ ranAt' = ranAt
        /\ \E w : w.sample = sample /\ sample' = SamplesAfterApply(diagram.conditions, ids, w)
    BY <1>8, OnStartTimes
  <2>2. ids \in SUBSET Whole(diagram.conditions) /\ c \notin ids
    BY <1>6, ConditionFacts DEF Phases
  <2>3. mState[q] = "run"
    BY <1>4, <2>1
  <2> HIDE DEF ids, c
  <2>4. PICK w : w.sample = sample /\ sample' = SamplesAfterApply(diagram.conditions, ids, w)
    BY <2>1
  <2>5. sample'[c] = sample[c]
    BY <1>4, <2>2, <2>4, OthersSample DEF c
  <2>6. QED
    BY <1>5, <2>1, <2>3, <2>5
<1>9. ASSUME NEW p \in Phases, OnRun(p), ~ Throw("error")
      PROVE  sample'[c] = ranAt'[q]
  <2> DEFINE ids == AppliedOnRun(p)
  <2>1. /\ mState' = [mState EXCEPT ![p] = "run"] /\ ranAt' = [ranAt EXCEPT ![p] = now]
        /\ \E w : w.now = now /\ w.sample = sample /\ sample' = SamplesAfterApply(diagram.conditions, ids, w)
    BY <1>9, OnRunTimes
  <2>2. ids \in SUBSET Whole(diagram.conditions)
    <3>1. ToSet(diagram.phase[p].actions) \subseteq ActionIds
      <4>1. diagram.phase[p].actions \in Seq(ActionIds)
        BY DiagramAssumption DEF Phases, ActionIds
      <4>2. QED
        BY <4>1 DEF ToSet
    <3>2. QED
      BY <3>1, ConditionFacts DEF AppliedOnRun, Phases, ActionIds
  <2>3. c \in ids <=> q = p
    <3>1. ToSet(diagram.phase[p].actions) \subseteq ActionIds
      <4>1. diagram.phase[p].actions \in Seq(ActionIds)
        BY DiagramAssumption DEF Phases, ActionIds
      <4>2. QED
        BY <4>1 DEF ToSet
    <3>2. c # NoCondition
      BY <1>4 DEF IsDuration
    <3>3. QED
      BY <1>6, <3>1, <3>2 DEF AppliedOnRun
  <2> HIDE DEF ids, c
  <2>4. PICK w : /\ w.now = now /\ w.sample = sample
                 /\ sample' = SamplesAfterApply(diagram.conditions, ids, w)
    BY <2>1
  <2>5. /\ c \notin ids => sample'[c] = sample[c]
        /\ c \in ids => sample'[c] = now
    BY <1>4, <2>2, <2>4, OthersSample DEF c
  <2>6. CASE q = p
    BY <2>1, <2>3, <2>5, <2>6 DEF Clock
  <2>7. CASE q # p
    <3>1. mState[q] = "run" /\ ranAt'[q] = ranAt[q]
      BY <1>4, <2>1, <2>7 DEF Clock
    <3>2. QED
      BY <1>5, <2>3, <2>5, <2>7, <3>1
  <2>8. QED
    BY <2>6, <2>7
<1>10. ASSUME NEW p \in Phases, OnEnd(p), ~ Throw("error")
       PROVE  sample'[c] = ranAt'[q]
  <2>1. /\ mState' = [r \in Phases |-> IF r \in EndingWith(p) THEN "end" ELSE mState[r]]
        /\ sample' = sample /\ ranAt' = ranAt
    BY <1>1, <1>10, OnEndTimes
  <2>2. QED
    BY <1>4, <1>7, <2>1
<1>11. ASSUME NEW p \in Phases, Join(p)
       PROVE  sample'[c] = ranAt'[q]
  BY <1>4, <1>7, <1>11 DEF Join, simulation, conditions
<1>12. CASE Idles \/ BeginUpdate \/ BeginDispatch
  BY <1>4, <1>7, <1>12 DEF Idles, BeginUpdate, BeginDispatch, simulation, conditions, phases
<1>13. QED
  BY <1>1, <1>8, <1>9, <1>10, <1>11, <1>12, TimedSteps

-----------------------------------------------------------------------------
(* A phase that has begun to run and is live has been live ever since. *)

\* The operations of a phase that does not run yet have not begun.
OperationsIdle ==
  outcome = "running" =>
    \A p \in Phases : mState[p] \in {"idle", "start"} =>
                        \A q \in OperationsIn(diagram, p) : mState[q] = "idle"

LEMMA ParentsRun ==
  ASSUME TreeInv, NEW p \in Phases, NEW state, First("update", p, state)
  PROVE  \A q \in Phases : p \in Nested(diagram, q) => mState[q] = "run"
BY FirstTask DEF Called, Phases, Ps

LEMMA OperationsStep ==
  ASSUME TreeInv, Stopped, OperationsIdle, [Next]_vars
  PROVE  OperationsIdle'
<1>1. SUFFICES ASSUME outcome' = "running", NEW p \in Phases', mState'[p] \in {"idle", "start"},
                      NEW q \in OperationsIn(diagram', p)
               PROVE  mState'[q] = "idle"
  BY DEF OperationsIdle
<1>2. outcome = "running" /\ diagram' = diagram
  BY <1>1, TimedSteps
<1>3. /\ diagram \in Diagrams /\ Phases = Ps(diagram) /\ mState \in [Phases -> States]
      /\ p \in Phases /\ q \in OperationsIn(diagram, p)
  BY <1>1, <1>2 DEF TreeInv, TreeState, Phases, Ps
<1>4. /\ q \in Phases /\ q \in Nested(diagram, p)
      /\ \A r \in Phases : q \in ChildrenIn(diagram, r) => FALSE
  <2>1. \A r \in Phases : ChildrenIn(diagram, r) \subseteq Nested(diagram, r)
    BY <1>3, DiagramFacts
  <2>2. q \in Nested(diagram, p) /\ Nested(diagram, p) \subseteq Phases
    BY <1>3, DiagramFacts
  <2>3. \A r \in Phases : r # p => Nested(diagram, p) \cap Nested(diagram, r) = {}
    BY <1>3, DiagramFacts
  <2>4. ChildrenIn(diagram, p) \cap OperationsIn(diagram, p) = {}
    BY <1>3, NestedOnce
  <2>5. QED
    BY <1>3, <2>1, <2>2, <2>3, <2>4
<1>5. mState[p] \in {"idle", "start"} => mState[q] = "idle"
  BY <1>2, <1>3 DEF OperationsIdle
<1>6. CASE mState' = mState
  BY <1>1, <1>5, <1>6
<1>7. ASSUME NEW r \in Phases, NEW old, NEW new, First("update", r, old),
             <<old, new>> \in {<<"idle", "start">>, <<"start", "run">>},
             mState' = [mState EXCEPT ![r] = new]
      PROVE  mState'[q] = "idle"
  <2>1. mState[p] \in {"idle", "start"}
    BY <1>1, <1>3, <1>7 DEF First
  <2>2. q # r
    BY <1>3, <1>4, <1>7, <2>1, ParentsRun
  <2>3. QED
    BY <1>3, <1>4, <1>5, <1>7, <2>1, <2>2
<1>8. ASSUME NEW r \in Phases, OnEnd(r), ~ Throw("error")
      PROVE  mState'[q] = "idle"
  <2>1. /\ First("finish", r, "run")
        /\ mState' = [x \in Phases |-> IF x \in EndingWith(r) THEN "end" ELSE mState[x]]
    BY <1>1, <1>3, <1>8, OnEndTimes
  <2>2. mState[p] \in {"idle", "start"} /\ p \notin EndingWith(r)
    BY <1>1, <1>3, <2>1
  <2>3. mState[q] = "idle" /\ q # r
    BY <1>5, <2>1, <2>2 DEF First
  <2>4. /\ EndingWith(r) \subseteq Below(diagram, r) /\ Below(diagram, r) \subseteq Phases
        /\ \A x \in EndingWith(r) : x # r => \E y \in EndingWith(r) : x \in ChildrenIn(diagram, y)
    BY <1>3, EndingFacts, BelowFacts
  <2>5. q \notin EndingWith(r)
    BY <1>4, <2>3, <2>4
  <2>6. QED
    BY <1>4, <2>1, <2>3, <2>5
<1>9. ASSUME NEW r \in Phases, Join(r)
      PROVE  mState'[q] = "idle"
  BY <1>6, <1>9 DEF Join
<1>10. CASE Idles \/ BeginUpdate \/ BeginDispatch
  BY <1>6, <1>10 DEF Idles, BeginUpdate, BeginDispatch, phases
<1>11. ASSUME NEW r \in Phases, OnStart(r), ~ Throw("error")
       PROVE  mState'[q] = "idle"
  BY <1>7, <1>11, OnStartTimes
<1>12. ASSUME NEW r \in Phases, OnRun(r), ~ Throw("error")
       PROVE  mState'[q] = "idle"
  BY <1>7, <1>12, OnRunTimes
<1>13. QED
  BY <1>1, <1>8, <1>9, <1>10, <1>11, <1>12, TimedSteps

\* What is live after a step was live before it, or has been added.
LEMMA LiveGrows ==
  ASSUME NEW d \in Diagrams, NEW st, NEW pos, NEW st2, NEW pos2, NEW new \in SUBSET Ps(d),
         \A p \in new : st2[p] # "run",
         \A p \in Ps(d) : GoesOn(d, st2, pos2, p) \subseteq GoesOn(d, st, pos, p) \cup new
  PROVE  \A p \in LiveIn(d, st2, pos2) : st2[p] = "run" => p \in LiveIn(d, st, pos)
<1> DEFINE L == LiveIn(d, st, pos)
           S == L \cup new
<1>1. /\ d.root \in L /\ L \subseteq Ps(d)
      /\ \A p \in L : GoesOn(d, st, pos, p) \subseteq L
  BY LiveFacts
<1> HIDE DEF L
<1>2. \A p \in new : GoesOn(d, st2, pos2, p) = {}
  BY DEF GoesOn
<1>3. S \in SUBSET Ps(d) /\ d.root \in S /\ \A p \in S : GoesOn(d, st2, pos2, p) \subseteq S
  BY <1>1, <1>2
<1> HIDE DEF S
<1>4. LiveIn(d, st2, pos2) \subseteq S
  BY <1>3, LiveFacts
<1>5. QED
  BY <1>4 DEF S, L

LEMMA JoinGoes ==
  ASSUME TreeInv, NEW p \in Phases, Join(p)
  PROVE  /\ First("join", p, "run") /\ UNCHANGED <<diagram, mState, sample, now, ranAt, stage>>
         /\ \A q \in Phases : q # p => mPosition'[q] = mPosition[q]
         /\ \E new \in SUBSET Phases :
              /\ Goes(p)' \subseteq Goes(p) \cup new
              /\ \A q \in new : mState[q] = "idle"
              /\ Waiting(todo, "update")' = new \cup Waiting(Tail(todo), "update")
              /\ new \subseteq Goes(p)'
<1> DEFINE c == diagram.phase[p].children
           advanced == Kind(p) = "serial" /\ mPosition'[p] # mPosition[p]
           at == {i \in 1 .. Len(c) : i = mPosition'[p] /\ mPosition'[p] # mPosition[p]}
           new == IF Kind(p) = "serial" THEN {c[i] : i \in at} ELSE {}
<1>1. /\ First("join", p, "run") /\ UNCHANGED <<diagram, mState, sample, now, ranAt, stage>>
  BY DEF Join, simulation, conditions
<1>2. /\ Waiting(todo, "update")' = new \cup Waiting(Tail(todo), "update")
      /\ Kind(p) # "serial" => mPosition' = mPosition
      /\ \A q \in Phases : q # p => mPosition'[q] = mPosition[q]
  BY JoinCalls
<1>3. /\ diagram \in Diagrams /\ Phases = Ps(diagram) /\ c \in Seq(Phases)
      /\ mPosition \in [Phases -> Nat] /\ Consistent(diagram, mState, mPosition)
      /\ mState[p] = "run"
  BY <1>1, DiagramFacts DEF TreeInv, TreeState, Phases, Ps, First
<1>4. advanced => mPosition'[p] = mPosition[p] + 1
  BY <1>3 DEF Join, NextPosition
<1>5. CASE ~ advanced
  <2>1. new = {} /\ mPosition'[p] = mPosition[p]
    BY <1>2, <1>5
  <2>2. Goes(p)' = Goes(p)
    BY <1>1, <2>1 DEF Goes, GoesOn
  <2> HIDE DEF new
  <2>3. QED
    BY <1>1, <1>2, <2>1, <2>2
<1>6. CASE advanced
  <2>1. new = {c[i] : i \in {i \in 1 .. Len(c) : i = mPosition'[p]}} /\ diagram.phase[p].kind = "serial"
    BY <1>6 DEF Kind
  <2>2. /\ Goes(p)' = OperationsIn(diagram, p) \cup {c[i] : i \in {i \in 1 .. Len(c) : i = mPosition'[p]}}
        /\ OperationsIn(diagram, p) \subseteq Goes(p)
    BY <1>1, <1>3, <2>1 DEF Goes, GoesOn
  <2>3. new \in SUBSET Phases
    BY <1>3, <2>1
  <2>4. \A i \in 1 .. Len(c) : i > mPosition[p] => mState[c[i]] = "idle"
    BY <1>3, <2>1 DEF Consistent
  <2>5. \A q \in new : mState[q] = "idle"
    <3>1. \A i \in 1 .. Len(c) : i = mPosition'[p] => i > mPosition[p]
      BY <1>3, <1>4, <1>6
    <3>2. QED
      BY <2>1, <2>4, <3>1
  <2> HIDE DEF new
  <2>6. QED
    BY <1>1, <1>2, <2>1, <2>2, <2>3, <2>5
<1>7. QED
  BY <1>5, <1>6

LiveNow == LiveIn(diagram, mState, mPosition)

LEMMA LiveBefore ==
  ASSUME TreeInv, Stopped, OperationsIdle, [Next]_vars, outcome' = "running"
  PROVE  \A q \in LiveIn(diagram, mState', mPosition') : mState'[q] = "run" => q \in LiveNow
<1> DEFINE st == mState
           pos == mPosition
           st2 == mState'
           pos2 == mPosition'
           was(q) == GoesOn(diagram, st, pos, q)
           is(q) == GoesOn(diagram, st2, pos2, q)
<1>1. /\ diagram \in Diagrams /\ Phases = Ps(diagram) /\ mState \in [Phases -> States]
      /\ Consistent(diagram, mState, mPosition) /\ outcome = "running"
  BY TimedSteps DEF TreeInv, TreeState, Phases, Ps
<1>2. ASSUME NEW new \in SUBSET Phases, \A q \in new : st2[q] # "run",
             \A q \in Phases : is(q) \subseteq was(q) \cup new
      PROVE  \A q \in LiveIn(diagram, st2, pos2) : st2[q] = "run" => q \in LiveIn(diagram, st, pos)
  <2> HIDE DEF st, pos, st2, pos2
  <2>1. QED
    BY <1>1, <1>2, LiveGrows
<1>3. CASE mState' = mState /\ mPosition' = mPosition
  BY <1>3 DEF LiveNow
<1>4. CASE /\ mPosition' = mPosition
           /\ \A q \in Phases : mState'[q] = "run" => mState[q] = "run"
  <2> DEFINE none == {q \in Phases : FALSE}
  <2>1. none \in SUBSET Phases /\ \A q \in none : st2[q] # "run"
    OBVIOUS
  <2>2. \A q \in Phases : is(q) \subseteq was(q) \cup none
    BY <1>4 DEF GoesOn
  <2> HIDE DEF none
  <2>3. QED
    BY <1>2, <2>1, <2>2 DEF LiveNow
<1>5. ASSUME NEW p \in Phases, OnRun(p), ~ Throw("error")
      PROVE  \A q \in LiveIn(diagram, st2, pos2) : st2[q] = "run" => q \in LiveNow
  <2>1. /\ First("update", p, "start") /\ mState' = [mState EXCEPT ![p] = "run"]
        /\ mPosition' = mPosition
    BY <1>5, OnRunTimes
  <2>2. mState[p] = "start" /\ \A q \in Phases : q # p => mState'[q] = mState[q]
    BY <1>1, <2>1 DEF First
  <2>3. \A q \in OperationsIn(diagram, p) : mState[q] = "idle"
    BY <1>1, <2>2 DEF OperationsIdle
  <2>4. is(p) \in SUBSET Phases /\ \A q \in is(p) : mState[q] = "idle"
    <3>1. is(p) \in SUBSET Phases
      BY <1>1, GoesOnFacts
    <3>2. CASE diagram.phase[p].kind \in {"mix", "serial"}
      <4>1. \A q \in ChildrenIn(diagram, p) : mState[q] = "idle"
        BY <1>1, <2>2, <3>2 DEF Consistent
      <4>2. is(p) \subseteq ChildrenIn(diagram, p) \cup OperationsIn(diagram, p)
        BY <1>1, GoesOnFacts, DiagramFacts
      <4>3. QED
        BY <2>3, <3>1, <4>1, <4>2
    <3>3. CASE diagram.phase[p].kind \notin {"mix", "serial"}
      <4>1. is(p) \subseteq OperationsIn(diagram, p)
        BY <3>3 DEF GoesOn
      <4>2. QED
        BY <2>3, <3>1, <4>1
    <3>4. QED
      BY <3>2, <3>3
  <2>5. \A q \in is(p) : q # p /\ st2[q] # "run"
    BY <2>2, <2>4
  <2>6. \A q \in Phases : q # p => is(q) = was(q)
    BY <2>1, <2>2 DEF GoesOn
  <2>7. \A q \in Phases : is(q) \subseteq was(q) \cup is(p)
    BY <2>6
  <2>8. QED
    BY <1>2, <2>4, <2>5, <2>7 DEF LiveNow
<1>6. ASSUME NEW p \in Phases, OnStart(p), ~ Throw("error")
      PROVE  \A q \in LiveIn(diagram, st2, pos2) : st2[q] = "run" => q \in LiveNow
  <2>1. mState' = [mState EXCEPT ![p] = "start"] /\ mPosition' = mPosition
    BY <1>6, OnStartTimes
  <2>2. QED
    BY <1>1, <1>4, <2>1
<1>7. ASSUME NEW p \in Phases, OnEnd(p), ~ Throw("error")
      PROVE  \A q \in LiveIn(diagram, st2, pos2) : st2[q] = "run" => q \in LiveNow
  <2>1. /\ mState' = [q \in Phases |-> IF q \in EndingWith(p) THEN "end" ELSE mState[q]]
        /\ mPosition' = mPosition
    BY <1>1, <1>7, OnEndTimes
  <2>2. QED
    BY <1>4, <2>1
<1>8. ASSUME NEW p \in Phases, Join(p)
      PROVE  \A q \in LiveIn(diagram, st2, pos2) : st2[q] = "run" => q \in LiveNow
  <2>1. /\ diagram' = diagram /\ mState' = mState
        /\ \A q \in Phases : q # p => mPosition'[q] = mPosition[q]
        /\ \E new \in SUBSET Phases : Goes(p)' \subseteq Goes(p) \cup new /\ \A q \in new : mState[q] = "idle"
    BY <1>8, JoinGoes
  <2>2. PICK new \in SUBSET Phases : Goes(p)' \subseteq Goes(p) \cup new /\ \A q \in new : mState[q] = "idle"
    BY <2>1
  <2>3. Goes(p)' = is(p) /\ Goes(p) = was(p)
    BY <2>1 DEF Goes
  <2>4. \A q \in Phases : q # p => is(q) = was(q)
    BY <2>1 DEF GoesOn
  <2>5. \A q \in Phases : is(q) \subseteq was(q) \cup new
    BY <2>2, <2>3, <2>4
  <2>6. \A q \in new : st2[q] # "run"
    BY <2>1, <2>2
  <2>7. QED
    BY <1>2, <2>5, <2>6 DEF LiveNow
<1>9. CASE Idles \/ BeginUpdate \/ BeginDispatch
  BY <1>3, <1>9 DEF Idles, BeginUpdate, BeginDispatch, phases
<1>10. QED
  BY <1>5, <1>6, <1>7, <1>8, <1>9, TimedSteps

-----------------------------------------------------------------------------
(* Only live phases are updated. *)

CalledLive ==
  /\ Waiting(todo, "update") \subseteq LiveNow
  /\ Waiting(todo, "join") \subseteq LiveNow
  /\ Waiting(todo, "finish") \subseteq LiveNow

\* The thread takes a task of a live phase; what is done after it is about live phases.
LEMMA CalledFirst ==
  ASSUME TreeInv, CalledLive, NEW p \in Phases, NEW do \in {"update", "join", "finish"},
         NEW state, First(do, p, state)
  PROVE  /\ p \in LiveNow
         /\ Waiting(Tail(todo), "update") \subseteq LiveNow
         /\ Waiting(Tail(todo), "join") \subseteq LiveNow
         /\ Waiting(Tail(todo), "finish") \subseteq LiveNow
<1>1. \A other : Waiting(todo, other) = Waiting(Tail(todo), other) \cup (IF do = other THEN {p} ELSE {})
  BY WaitingNext
<1>2. QED
  BY <1>1 DEF CalledLive

\* What was live stays live when phases go on to more than before.
LEMMA LiveStays ==
  ASSUME diagram \in Diagrams, diagram' = diagram,
         \A p \in Phases : Goes(p) \subseteq Goes(p)'
  PROVE  LiveNow \subseteq LiveNow'
<1> DEFINE st == mState
           pos == mPosition
           st2 == mState'
           pos2 == mPosition'
           none == {q \in Phases : FALSE}
<1>1. /\ \A p \in none \cap Ps(diagram) : Nested(diagram, p) \subseteq none
      /\ none = {}
  OBVIOUS
<1>2. \A p \in Ps(diagram) \ none : GoesOn(diagram, st, pos, p) \subseteq GoesOn(diagram, st2, pos2, p) \cup none
  BY DEF Goes, Phases, Ps
<1> HIDE DEF st, pos, st2, pos2, none
<1>3. LiveIn(diagram, st, pos) \subseteq LiveIn(diagram, st2, pos2) \cup none
  BY <1>1, <1>2, LiveKept
<1>4. QED
  BY <1>1, <1>3 DEF LiveNow, st, pos, st2, pos2

LEMMA CalledSame ==
  ASSUME diagram \in Diagrams, CalledLive, UNCHANGED <<diagram, mState, mPosition, todo>>
  PROVE  CalledLive'
BY DEF CalledLive, LiveNow

\* A running phase calls for what it goes on to.
LEMMA CalledUpdate ==
  ASSUME TreeInv, CalledLive, NEW p \in Phases, First("update", p, "run"),
         UNCHANGED <<diagram, mState, mPosition>>,
         Waiting(todo, "update")' \subseteq Goes(p) \cup Waiting(Tail(todo), "update"),
         Waiting(todo, "join")' \subseteq {p} \cup Waiting(Tail(todo), "join"),
         Waiting(todo, "finish")' \subseteq {p} \cup Waiting(Tail(todo), "finish")
  PROVE  CalledLive'
<1>1. /\ p \in LiveNow
      /\ Waiting(Tail(todo), "update") \subseteq LiveNow
      /\ Waiting(Tail(todo), "join") \subseteq LiveNow
      /\ Waiting(Tail(todo), "finish") \subseteq LiveNow
  BY CalledFirst
<1>2. Goes(p) \subseteq LiveNow
  BY <1>1, LiveFacts DEF Goes, LiveNow, TreeInv
<1>3. LiveNow' = LiveNow
  BY DEF LiveNow
<1>4. QED
  BY <1>1, <1>2, <1>3 DEF CalledLive

LEMMA CalledPops ==
  ASSUME TreeInv, CalledLive, NEW p \in Phases, NEW do \in {"update", "join", "finish"},
         NEW state, First(do, p, state), UNCHANGED <<diagram, mState, mPosition>>, todo' = Tail(todo)
  PROVE  CalledLive'
<1>1. LiveNow' = LiveNow
  BY DEF LiveNow
<1>2. QED
  BY <1>1, CalledFirst DEF CalledLive

\* A phase that ends takes only phases with it that are not waited for.
LEMMA CalledAfterEnd ==
  ASSUME TreeInv, CalledLive, NEW p \in Phases, First("finish", p, "run"), diagram' = diagram,
         mState' = [q \in Phases |-> IF q \in EndingWith(p) THEN "end" ELSE mState[q]],
         mPosition' = mPosition, todo' = Tail(todo)
  PROVE  CalledLive'
<1> DEFINE st == mState
           pos == mPosition
           st2 == mState'
           left == Below(diagram, p)
           rest == Tail(todo)
<1>1. diagram \in Diagrams /\ Phases = Ps(diagram) /\ p \in Ps(diagram)
  BY DEF TreeInv, Phases, Ps
<1>2. /\ EndingWith(p) \subseteq left /\ left \subseteq Phases
      /\ \A q \in left : Nested(diagram, q) \subseteq left
  BY <1>1, EndingFacts, BelowFacts
<1>3. \A q \in Phases \ left : st2[q] = st[q]
  BY <1>2
<1>4. \A q \in Phases \ left : GoesOn(diagram, st, pos, q) \subseteq GoesOn(diagram, st2, pos, q) \cup left
  BY <1>3 DEF GoesOn
<1>5. \A i \in 1 .. Len(rest) : rest[i].phase \notin left
  BY FirstTask DEF Follows, First
<1>6. \A do : Waiting(rest, do) \cap left = {}
  <2> HIDE DEF rest, left
  <2>1. QED
    BY <1>5 DEF Waiting
<1>7. /\ Waiting(rest, "update") \subseteq LiveNow
      /\ Waiting(rest, "join") \subseteq LiveNow
      /\ Waiting(rest, "finish") \subseteq LiveNow
  BY CalledFirst
<1>8. LiveNow = LiveIn(diagram, st, pos) /\ LiveNow' = LiveIn(diagram, st2, pos)
  BY DEF LiveNow
<1>9. CalledLive' = (/\ Waiting(rest, "update") \subseteq LiveNow'
                     /\ Waiting(rest, "join") \subseteq LiveNow'
                     /\ Waiting(rest, "finish") \subseteq LiveNow')
  BY DEF CalledLive
<1> HIDE DEF st, pos, st2, left, rest
<1>10. LiveIn(diagram, st, pos) \subseteq LiveIn(diagram, st2, pos) \cup left
  <2>1. \A q \in left \cap Ps(diagram) : Nested(diagram, q) \subseteq left
    BY <1>2
  <2>2. QED
    BY <1>1, <1>4, <2>1, LiveKept
<1>11. QED
  BY <1>6, <1>7, <1>8, <1>9, <1>10

LEMMA CalledAfterJoin ==
  ASSUME TreeInv, CalledLive, NEW p \in Phases, Join(p)
  PROVE  CalledLive'
<1> DEFINE st == mState
           pos == mPosition
           pos2 == mPosition'
           rest == Tail(todo)
           child == Head(todo).child
           left == IF pos2[p] = pos[p] THEN {} ELSE Below(diagram, child)
           c == diagram.phase[p].children
<1>1. diagram \in Diagrams /\ Phases = Ps(diagram) /\ p \in Ps(diagram)
  BY DEF TreeInv, Phases, Ps
<1>2. /\ First("join", p, "run") /\ diagram' = diagram /\ mState' = mState
      /\ \A q \in Phases : q # p => pos2[q] = pos[q]
      /\ \E new \in SUBSET Phases : /\ Waiting(todo, "update")' = new \cup Waiting(rest, "update")
                                    /\ new \subseteq Goes(p)'
  BY JoinGoes
<1>3. PICK new \in SUBSET Phases : /\ Waiting(todo, "update")' = new \cup Waiting(rest, "update")
                                   /\ new \subseteq Goes(p)'
  BY <1>2
<1>4. /\ Waiting(todo, "finish")' = Waiting(rest, "finish")
      /\ Waiting(todo, "join")' \subseteq {p} \cup Waiting(rest, "join")
      /\ Kind(p) # "serial" => pos2 = pos
  BY JoinCalls
<1>5. /\ st[p] = "run" /\ child \in ChildrenIn(diagram, p) /\ IsCurrent(diagram, pos, p, child)
      /\ Head(todo).do = "join" /\ Head(todo).phase = p
      /\ \A i \in 1 .. Len(rest) : Follows(diagram, Head(todo), rest[i])
  BY <1>2, FirstTask DEF Called
<1>6. child \in Ps(diagram) /\ child \in Nested(diagram, p)
  BY <1>1, <1>5, DiagramFacts
<1>7. /\ left \in SUBSET Phases /\ p \notin left
      /\ \A q \in left : Nested(diagram, q) \subseteq left
      /\ pos2[p] # pos[p] => child \in left
  BY <1>1, <1>6, BelowFacts
<1>8. \A i \in 1 .. Len(rest) : rest[i].phase \notin left
  <2>1. CASE pos2[p] = pos[p]
    BY <2>1
  <2>2. CASE pos2[p] # pos[p]
    <3>1. diagram.phase[p].kind = "serial"
      BY <1>4, <2>2 DEF Kind
    <3> HIDE DEF rest, pos, pos2
    <3>2. QED
      BY <1>5, <2>2, <3>1 DEF Follows
  <2>3. QED
    BY <2>1, <2>2
<1>9. \A q \in Phases \ left : GoesOn(diagram, st, pos, q) \subseteq GoesOn(diagram, st, pos2, q) \cup left
  <2>1. ASSUME NEW q \in Phases, q # p
        PROVE  GoesOn(diagram, st, pos, q) = GoesOn(diagram, st, pos2, q)
    BY <1>2, <2>1 DEF GoesOn
  <2>2. CASE pos2[p] = pos[p]
    <3>1. GoesOn(diagram, st, pos, p) = GoesOn(diagram, st, pos2, p)
      BY <2>2 DEF GoesOn
    <3>2. QED
      BY <2>1, <3>1
  <2>3. CASE pos2[p] # pos[p]
    <3>1. diagram.phase[p].kind = "serial"
      BY <1>4, <2>3 DEF Kind
    <3>2. child = c[pos[p]]
      BY <1>5, <3>1 DEF IsCurrent
    <3>3. GoesOn(diagram, st, pos, p) \subseteq OperationsIn(diagram, p) \cup {child}
      BY <3>1, <3>2 DEF GoesOn
    <3>4. OperationsIn(diagram, p) \subseteq GoesOn(diagram, st, pos2, p)
      BY <1>5 DEF GoesOn
    <3>5. child \in left
      BY <1>7, <2>3
    <3> HIDE DEF left, child, pos, pos2, st
    <3>6. QED
      BY <2>1, <3>3, <3>4, <3>5
  <2>4. QED
    BY <2>2, <2>3
<1>10. /\ p \in LiveNow
       /\ Waiting(rest, "update") \subseteq LiveNow
       /\ Waiting(rest, "join") \subseteq LiveNow
       /\ Waiting(rest, "finish") \subseteq LiveNow
  BY <1>2, CalledFirst
<1>11. \A do : Waiting(rest, do) \cap left = {}
  <2> HIDE DEF rest, left
  <2>1. QED
    BY <1>8 DEF Waiting
<1>12. /\ LiveNow = LiveIn(diagram, st, pos) /\ LiveNow' = LiveIn(diagram, st, pos2)
       /\ Goes(p)' = GoesOn(diagram, st, pos2, p)
  BY <1>2 DEF LiveNow, Goes
<1> HIDE DEF st, pos, pos2, rest, child, left, c
<1>13. LiveIn(diagram, st, pos) \subseteq LiveIn(diagram, st, pos2) \cup left
  <2>1. \A q \in left \cap Ps(diagram) : Nested(diagram, q) \subseteq left
    BY <1>7
  <2>2. QED
    BY <1>1, <1>9, <2>1, LiveKept
<1>14. p \in LiveIn(diagram, st, pos2)
  BY <1>7, <1>10, <1>12, <1>13
<1>15. new \subseteq LiveIn(diagram, st, pos2)
  BY <1>1, <1>3, <1>12, <1>14, LiveFacts
<1>16. QED
  BY <1>3, <1>4, <1>10, <1>11, <1>12, <1>13, <1>14, <1>15 DEF CalledLive

LEMMA CalledStep ==
  ASSUME TreeInv, Stopped, CalledLive, [Next]_vars
  PROVE  CalledLive'
<1>1. diagram \in Diagrams /\ Phases = Ps(diagram) /\ mState \in [Phases -> States]
  BY DEF TreeInv, TreeState, Phases, Ps
<1>2. ASSUME todo' = << >> PROVE CalledLive'
  BY <1>2 DEF CalledLive, Waiting
<1>3. ASSUME UNCHANGED <<diagram, mState, mPosition, todo>> PROVE CalledLive'
  BY <1>1, <1>3, CalledSame
<1>4. ASSUME NEW p \in Phases, UpdatePhase(p), outcome' = "running"
      PROVE  CalledLive'
  <2>1. /\ diagram' = diagram /\ ~ Throw("error") /\ \A what : what # "running" => ~ Throw(what)
    BY <1>4, UpdatingThrows
  <2>2. ASSUME NEW old, First("update", p, old), old # "run", NEW new,
               mState' = [mState EXCEPT ![p] = new], mPosition' = mPosition, todo' = todo
        PROVE  CalledLive'
    <3>1. mState[p] # "run" /\ \A q \in Phases : q # p => mState'[q] = mState[q]
      BY <1>1, <2>2 DEF First
    <3>2. \A q \in Phases : Goes(q) \subseteq Goes(q)'
      BY <2>1, <2>2, <3>1 DEF Goes, GoesOn
    <3>3. LiveNow \subseteq LiveNow'
      BY <1>1, <2>1, <3>2, LiveStays
    <3>4. QED
      BY <2>2, <3>3 DEF CalledLive
  <2>3. CASE OnStart(p)
    BY <2>1, <2>2, <2>3, OnStartTimes
  <2>4. CASE OnRun(p)
    BY <1>4, <2>1, <2>2, <2>4, OnRunTimes
  <2>5. CASE KeepWaiting(p) \/ UpdateEnded(p)
    BY <2>5, CalledPops DEF KeepWaiting, UpdateEnded, phases
  <2>6. CASE SkipFirstUpdate(p) \/ KeepRunning(p)
    BY <2>6, CalledPops DEF SkipFirstUpdate, KeepRunning, phases
  <2>7. CASE OrderChildren(p)
    <3>1. SortResult(diagram, p, MemberDeps(diagram, p, created, mIsInitPending)) # "running"
      BY DEF SortResult
    <3>2. QED
      BY <1>3, <2>1, <2>7, <3>1 DEF OrderChildren
  <2>8. CASE UpdateMix(p)
    <3>1. First("update", p, "run") /\ UNCHANGED <<diagram, mState, mPosition>> /\ Kind(p) = "mix"
      BY <2>8 DEF UpdateMix
    <3>2. ChildrenIn(diagram, p) \cup OperationsIn(diagram, p) \subseteq Goes(p)
      <4>1. ChildrenIn(diagram, p) = {diagram.phase[p].children[i] : i \in 1 .. Len(diagram.phase[p].children)}
        <5>1. diagram.phase[p].children \in Seq(Phases)
          BY <1>1, DiagramFacts
        <5>2. QED
          BY <5>1 DEF ChildrenIn, ToSet
      <4>2. QED
        BY <3>1, <4>1 DEF Goes, GoesOn, First, Kind
    <3>3. QED
      BY <2>8, <3>1, <3>2, MixCalls, CalledUpdate
  <2>9. CASE UpdateSerial(p)
    <3>1. First("update", p, "run") /\ UNCHANGED <<diagram, mState, mPosition>> /\ Kind(p) = "serial"
      BY <2>9 DEF UpdateSerial, phases
    <3>2. {diagram.phase[p].children[i] :
             i \in {i \in 1 .. Len(diagram.phase[p].children) : i = mPosition[p]}}
          \cup OperationsIn(diagram, p) \subseteq Goes(p)
      BY <3>1 DEF Goes, GoesOn, First, Kind
    <3>3. QED
      BY <2>9, <3>1, <3>2, SerialCalls, CalledUpdate
  <2>10. CASE UpdateActionPhase(p)
    <3>1. /\ First("update", p, "run") /\ UNCHANGED <<diagram, mState, mPosition>>
          /\ todo' = Rest(p)
      BY <2>1, <2>10 DEF UpdateActionPhase, phases
    <3>2. OperationsIn(diagram, p) \subseteq Goes(p)
      BY <3>1 DEF Goes, GoesOn, First
    <3>3. QED
      BY <3>1, <3>2, RestCalls, CalledUpdate
  <2>11. CASE Join(p)
    BY <2>11, CalledAfterJoin
  <2>12. CASE OnEnd(p)
    <3>1. /\ First("finish", p, "run")
          /\ mState' = [q \in Phases |-> IF q \in EndingWith(p) THEN "end" ELSE mState[q]]
          /\ mPosition' = mPosition /\ todo' = Tail(todo)
      BY <1>1, <1>4, <2>1, <2>12, OnEndTimes
    <3>2. QED
      BY <2>1, <3>1, CalledAfterEnd
  <2>13. QED
    BY <1>4, <2>3, <2>4, <2>5, <2>6, <2>7, <2>8, <2>9, <2>10, <2>11, <2>12 DEF UpdatePhase
<1>5. ASSUME NEW p \in Phases, Dispatch(p)
      PROVE  CalledLive'
  BY <1>3, <1>5 DEF Dispatch, PassOver, PublishActions, PutInProcess, NotifyActionEventDispatched, phases
<1>6. CASE BeginStart \/ BeginUpdate \/ RepeatUpdate
  <2> DEFINE t == Update(diagram.root)
  <2>1. todo' = <<t>> /\ UNCHANGED <<diagram, mState, mPosition>>
    BY <1>6 DEF BeginStart, BeginUpdate, RepeatUpdate, phases
  <2>2. t.do = "update" /\ t.phase = diagram.root
    BY DEF Update, Task
  <2> HIDE DEF t
  <2>3. /\ Waiting(todo, "update")' = {diagram.root}
        /\ Waiting(todo, "join")' = {} /\ Waiting(todo, "finish")' = {}
    BY <2>1, <2>2, WaitingOne
  <2>4. diagram.root \in LiveNow /\ LiveNow' = LiveNow
    BY <1>1, <2>1, LiveFacts DEF LiveNow
  <2>5. QED
    BY <2>3, <2>4 DEF CalledLive
<1>7. CASE BeginDispatch \/ EndDispatch
  BY <1>3, <1>7 DEF BeginDispatch, EndDispatch, phases
<1>8. CASE NewsOnly
  BY <1>3, <1>8, NewsFrame
<1>9. CASE outcome' # "running"
  BY <1>2, <1>9, StoppedStep DEF Stopped
<1>10. QED
  BY <1>4, <1>5, <1>6, <1>7, <1>8, <1>9 DEF Next, ProcessEvent, NewsOnly

-----------------------------------------------------------------------------
(* No live phase runs for longer than its duration. *)

\* A duration that the tolerance makes up for, of a phase whose initial actions delay its
\* end, is excepted.
PositiveDurations ==
  \A d \in Diagrams : \A c \in DOMAIN d.conditions :
    d.conditions[c].kind = "duration" =>
      d.conditions[c].duration \in Nat /\ d.conditions[c].duration > Tolerance

LEMMA DurationCheck ==
  ASSUME diagram \in Diagrams, NEW p \in Phases, IsDuration(diagram.phase[p].end), NEW w
  PROVE  Check(diagram.conditions, diagram.phase[p].end, w)
           = Truth(w.now - w.sample[diagram.phase[p].end] >= LeastTime(p))
<1> DEFINE c == diagram.phase[p].end
           all == diagram.conditions
<1>1. AreTrees(all) /\ c \in DOMAIN all /\ ~ IsComposite(all[c]) /\ all[c].kind = "duration"
  BY OwnDuration, ConditionFacts
<1>2. LeastTime(p) = all[c].duration - Tolerance
  BY DEF LeastTime
<1> HIDE DEF c, all
<1>3. Check(all, c, w) = SingularCheck(c, all[c], w)
  BY <1>1, AnswersFacts DEF Check, AnswerOf
<1>4. SingularCheck(c, all[c], w) = CheckDuration(c, all[c], w)
  <2> DEFINE kind == all[c].kind
  <2>1. kind = "duration" /\ kind # "phaseState" /\ kind # "actionsComplete"
    BY <1>1
  <2>2. QED
    BY <2>1 DEF SingularCheck
<1>5. QED
  BY <1>2, <1>3, <1>4 DEF CheckDuration, c, all

LEMMA LeastTimeFacts ==
  ASSUME PositiveDurations, diagram \in Diagrams, NEW p \in Phases,
         IsDuration(diagram.phase[p].end)
  PROVE  LeastTime(p) \in Nat \ {0}
<1>1. /\ diagram.phase[p].end \in DOMAIN diagram.conditions
      /\ diagram.conditions[diagram.phase[p].end].kind = "duration"
  BY OwnDuration
<1>2. \A duration \in Nat : duration > Tolerance => duration - Tolerance \in Nat \ {0}
  BY ToleranceAssumption
<1>3. QED
  BY <1>1, <1>2 DEF PositiveDurations, LeastTime

OnTime ==
  outcome = "running" =>
    \A p \in LiveNow : Timed(p) =>
      /\ now - StepSize - ranAt[p] < LeastTime(p)
      /\ stage # "update" => now - ranAt[p] < LeastTime(p)

\* An update event is over only when no duration has passed.
LEMMA UpdatesCatchUp ==
  ASSUME UpdateInv, PositiveDurations, Clock, SampleInv, BeginDispatch, stage = "update",
         NEW p \in LiveNow, Timed(p)
  PROVE  now - ranAt[p] < LeastTime(p)
<1> DEFINE c == diagram.phase[p].end
           w == World(mEventStatus)
<1>1. diagram \in Diagrams /\ ThreadDone /\ outcome = "running" /\ ~ UpdatesAgain
  BY DEF UpdateInv, TreeInv, BeginDispatch, ThreadDone
<1>2. p \in Live /\ p \in Phases /\ mState[p] = "run" /\ IsDuration(c)
  <2>1. LiveNow \subseteq Phases
    BY <1>1, LiveFacts DEF LiveNow, Phases, Ps
  <2>2. QED
    BY <1>1, <2>1, LivePhases DEF LiveNow, Timed
<1>3. ~ IsFeasible(c)
  BY <1>1, <1>2, UpdatesEndStable DEF StableAfterUpdate
<1>4. /\ c # NoCondition /\ Leaves(diagram.conditions, c) = {c}
      /\ diagram.conditions[c].kind = "duration" /\ c \in DOMAIN diagram.conditions
  BY <1>1, <1>2, OwnDuration DEF IsDuration
<1>5. Check(diagram.conditions, c, w) # "yes"
  BY <1>3, <1>4 DEF IsFeasible
<1>6. w.now = now /\ w.sample = sample /\ sample[c] = ranAt[p]
  BY <1>1, <1>2 DEF World, SampleInv, SampledAtRun, Timed
<1>7. ~ (now - ranAt[p] >= LeastTime(p))
  <2> HIDE DEF w
  <2>1. Check(diagram.conditions, c, w) = Truth(w.now - w.sample[c] >= LeastTime(p))
    BY <1>1, <1>2, DurationCheck
  <2>2. QED
    BY <1>5, <1>6, <2>1 DEF Truth
<1>8. LeastTime(p) \in Nat /\ now \in Nat /\ ranAt[p] \in Nat
  BY <1>1, <1>2, LeastTimeFacts DEF Clock
<1>9. QED
  BY <1>7, <1>8

LEMMA OnTimeStep ==
  ASSUME UpdateInv, PositiveDurations, Clock, SampleInv, OperationsIdle, OnTime, [Next]_vars
  PROVE  OnTime'
<1>1. SUFFICES ASSUME outcome' = "running", NEW q \in LiveNow', Timed(q)'
               PROVE  /\ now' - StepSize - ranAt'[q] < LeastTime(q)'
                      /\ stage' # "update" => now' - ranAt'[q] < LeastTime(q)'
  BY DEF OnTime
<1>2. TreeInv /\ OtherTypes /\ Stopped /\ diagram \in Diagrams
  BY DEF UpdateInv, TreeInv
<1>3. outcome = "running" /\ diagram' = diagram
  BY <1>1, <1>2, TimedSteps
<1>4. q \in LiveIn(diagram, mState', mPosition') /\ mState'[q] = "run" /\ LeastTime(q)' = LeastTime(q)
  BY <1>1, <1>3 DEF LiveNow, Timed, LeastTime
<1>5. q \in Phases /\ IsDuration(diagram.phase[q].end)
  <2> DEFINE st2 == mState'
             pos2 == mPosition'
  <2>1. q \in LiveIn(diagram, st2, pos2)
    BY <1>4
  <2> HIDE DEF st2, pos2
  <2>2. q \in Phases
    BY <1>2, <2>1, LiveFacts DEF Phases, Ps
  <2>3. IsDuration(diagram.phase[q].end)
    BY <1>1, <1>3 DEF Timed, IsDuration
  <2>4. QED
    BY <2>2, <2>3
<1>6. /\ LeastTime(q) \in Nat \ {0} /\ now \in Nat /\ ranAt[q] \in Nat
      /\ StepSize \in Nat
  BY <1>2, <1>5, LeastTimeFacts, StepAssumption DEF Clock
<1>7. mState[q] = "run" => /\ q \in LiveNow
                           /\ now - StepSize - ranAt[q] < LeastTime(q)
                           /\ stage # "update" => now - ranAt[q] < LeastTime(q)
  <2>1. mState'[q] = "run" => q \in LiveNow
    BY <1>1, <1>2, <1>4, LiveBefore
  <2>2. QED
    BY <1>3, <1>4, <1>5, <2>1 DEF OnTime, Timed
<1>8. CASE /\ mState[q] = "run" /\ UNCHANGED <<now, ranAt>>
           /\ stage' = stage \/ stage # "update"
  BY <1>4, <1>7, <1>8
<1>9. ASSUME NEW p \in Phases, OnStart(p), ~ Throw("error")
      PROVE  mState[q] = "run" /\ UNCHANGED <<now, ranAt, stage>>
  BY <1>2, <1>4, <1>5, <1>9, OnStartTimes DEF TreeInv, TreeState, Phases, Ps
<1>10. ASSUME NEW p \in Phases, OnRun(p), ~ Throw("error")
       PROVE  /\ now' - StepSize - ranAt'[q] < LeastTime(q)'
              /\ stage' # "update" => now' - ranAt'[q] < LeastTime(q)'
  <2>1. /\ mState' = [mState EXCEPT ![p] = "run"] /\ ranAt' = [ranAt EXCEPT ![p] = now]
        /\ UNCHANGED <<now, stage>>
    BY <1>10, OnRunTimes
  <2>2. CASE q = p
    <3>1. ranAt'[q] = now
      BY <1>5, <2>1, <2>2 DEF Clock
    <3>2. QED
      BY <1>4, <1>6, <2>1, <3>1
  <2>3. CASE q # p
    <3>1. mState[q] = "run" /\ ranAt'[q] = ranAt[q]
      BY <1>4, <2>1, <2>3 DEF Clock
    <3>2. QED
      BY <1>4, <1>7, <2>1, <3>1
  <2>4. QED
    BY <2>2, <2>3
<1>11. ASSUME NEW p \in Phases, OnEnd(p), ~ Throw("error")
       PROVE  mState[q] = "run" /\ UNCHANGED <<now, ranAt, stage>>
  <2>1. /\ mState' = [r \in Phases |-> IF r \in EndingWith(p) THEN "end" ELSE mState[r]]
        /\ UNCHANGED <<now, ranAt, stage>>
    BY <1>1, <1>2, <1>11, OnEndTimes
  <2>2. QED
    BY <1>4, <1>5, <2>1
<1>12. ASSUME NEW p \in Phases, Join(p)
       PROVE  mState[q] = "run" /\ UNCHANGED <<now, ranAt, stage>>
  BY <1>4, <1>12 DEF Join, simulation
<1>13. CASE Idles
  BY <1>4, <1>8, <1>13 DEF Idles
<1>14. CASE BeginUpdate
  <2>1. stage # "update" /\ stage' = "update" /\ now' = now + StepSize /\ UNCHANGED <<mState, ranAt>>
    BY <1>14 DEF BeginUpdate, phases
  <2>2. now - ranAt[q] < LeastTime(q)
    BY <1>4, <1>7, <2>1
  <2>3. QED
    BY <1>4, <1>6, <2>1, <2>2
<1>15. CASE stage = "update" /\ BeginDispatch
  <2>1. UNCHANGED <<mState, now, ranAt>>
    BY <1>15 DEF BeginDispatch, phases, simulation
  <2>2. now - ranAt[q] < LeastTime(q)
    BY <1>4, <1>5, <1>7, <1>15, <2>1, UpdatesCatchUp DEF Timed
  <2>3. QED
    BY <1>4, <1>6, <2>1, <2>2
<1>16. QED
  BY <1>1, <1>2, <1>8, <1>9, <1>10, <1>11, <1>12, <1>13, <1>14, <1>15, TimedSteps

DurationInv == Clock /\ SampleInv /\ OperationsIdle /\ CalledLive /\ OnTime

LEMMA DurationInvInit == Init => DurationInv
<1>1. SUFFICES ASSUME Init PROVE DurationInv
  OBVIOUS
<1>2. /\ mState = [p \in Phases |-> "idle"] /\ todo = << >> /\ now = 0
      /\ ranAt = [p \in Phases |-> 0] /\ diagram \in Diagrams
  BY <1>1 DEF Init
<1>3. Clock
  BY <1>2 DEF Clock
<1>4. SampleInv /\ CalledLive
  BY <1>2 DEF SampleInv, SampledAtRun, Timed, CalledLive, Waiting
<1>5. OperationsIdle
  <2>1. \A p \in Phases : OperationsIn(diagram, p) \subseteq Nested(diagram, p)
    BY DEF Nested, OperationsIn
  <2>2. \A p \in Phases : Nested(diagram, p) \subseteq Phases
    BY <1>2, DiagramFacts DEF Phases, Ps
  <2>3. QED
    BY <1>2, <2>1, <2>2 DEF OperationsIdle
<1>6. OnTime
  <2>1. LiveNow \subseteq Phases
    BY <1>2, LiveFacts DEF LiveNow, Phases, Ps
  <2>2. QED
    BY <1>2, <2>1 DEF OnTime, Timed
<1>7. QED
  BY <1>3, <1>4, <1>5, <1>6 DEF DurationInv

LEMMA DurationInvStep ==
  ASSUME PositiveDurations, UpdateInv, DurationInv, [Next]_vars
  PROVE  DurationInv'
<1>1. /\ TreeInv /\ Stopped /\ diagram \in Diagrams /\ mState \in [Phases -> States]
      /\ Clock /\ SampleInv /\ OperationsIdle /\ CalledLive /\ OnTime
  BY DEF UpdateInv, DurationInv, TreeInv, TreeState, Phases, Ps
<1>2. Clock' /\ SampleInv' /\ OperationsIdle' /\ CalledLive' /\ OnTime'
  BY <1>1, ClockStep, SampleStep, OperationsStep, CalledStep, OnTimeStep
<1>3. QED
  BY <1>2 DEF DurationInv

\* The only step that ends a phase whose update finishes.
LEMMA FinishEnds ==
  ASSUME [Next]_vars, NEW p \in Phases, todo # << >>, Head(todo) = Task("finish", p, p),
         mState[p] = "run", mState'[p] = "end"
  PROVE  First("finish", p, "run") /\ Ends(p) # "no" /\ Ends(p) # "error"
<1>1. Head(todo).do = "finish" /\ Head(todo).phase = p
  BY DEF Task
<1>2. mState' # mState
  OBVIOUS
<1>3. ASSUME NEW q \in Phases, UpdatePhase(q)
      PROVE  q = p /\ OnEnd(p)
  <2>1. ~ (OnStart(q) \/ KeepWaiting(q) \/ OnRun(q) \/ UpdateEnded(q) \/ OrderChildren(q)
           \/ UpdateMix(q) \/ UpdateSerial(q) \/ UpdateActionPhase(q) \/ Join(q))
    BY <1>1 DEF OnStart, KeepWaiting, OnRun, UpdateEnded, OrderChildren, UpdateMix, UpdateSerial,
                UpdateActionPhase, Join, First
  <2>2. ~ (SkipFirstUpdate(q) \/ KeepRunning(q))
    BY <1>2 DEF SkipFirstUpdate, KeepRunning, phases
  <2>3. OnEnd(q)
    BY <1>3, <2>1, <2>2 DEF UpdatePhase
  <2>4. q = p
    BY <1>1, <2>3 DEF OnEnd, First
  <2>5. QED
    BY <2>3, <2>4
<1>4. OnEnd(p)
  <2>1. ASSUME NEW q \in Phases PROVE ~ Dispatch(q)
    BY <1>2 DEF Dispatch, PassOver, PublishActions, PutInProcess, NotifyActionEventDispatched, phases
  <2>2. ~ (BeginStart \/ BeginUpdate \/ RepeatUpdate \/ BeginDispatch \/ EndDispatch)
    BY <1>2 DEF BeginStart, BeginUpdate, RepeatUpdate, BeginDispatch, EndDispatch, phases
  <2>3. ~ NewsOnly
    BY <1>2, NewsFrame
  <2>4. QED
    BY <1>3, <2>1, <2>2, <2>3 DEF Next, ProcessEvent, NewsOnly
<1>5. Ends(p) # "error"
  BY <1>2, <1>4 DEF OnEnd, Throw, phases
<1>6. QED
  BY <1>4, <1>5 DEF OnEnd

\* A duration condition that is no longer "no" has passed.
LEMMA EndsWhenPassed ==
  ASSUME diagram \in Diagrams, NEW p \in Phases, IsDuration(diagram.phase[p].end),
         Ends(p) # "no", Ends(p) # "error"
  PROVE  now - sample[diagram.phase[p].end] >= LeastTime(p)
<1> DEFINE c == diagram.phase[p].end
           status == StatusAfterUpdate(p)
           w == World(status)
<1>1. c # NoCondition
  BY DEF IsDuration
<1>2. Ends(p) = Check(diagram.conditions, c, w)
  BY <1>1 DEF Ends, Ask
<1>3. w.now = now /\ w.sample = sample
  <2> HIDE DEF status
  <2>1. QED
    BY DEF World
<1> HIDE DEF w
<1>4. Check(diagram.conditions, c, w) = Truth(w.now - w.sample[c] >= LeastTime(p))
  BY DurationCheck
<1>5. QED
  BY <1>2, <1>3, <1>4 DEF Truth

LEMMA EndsExactly ==
  ASSUME PositiveDurations, UpdateInv, DurationInv, [Next]_vars, NEW p \in Phases,
         todo # << >>, Head(todo) = Task("finish", p, p),
         mState[p] = "run", mState'[p] = "end", IsDuration(diagram.phase[p].end)
  PROVE  now - ranAt[p] >= LeastTime(p) /\ now - StepSize - ranAt[p] < LeastTime(p)
<1>1. /\ TreeInv /\ diagram \in Diagrams /\ outcome = "running"
      /\ Clock /\ SampledAtRun /\ CalledLive /\ OnTime
  BY DEF UpdateInv, DurationInv, TreeInv, Stopped, SampleInv
<1>2. First("finish", p, "run") /\ Ends(p) # "no" /\ Ends(p) # "error"
  BY FinishEnds
<1>3. now - ranAt[p] >= LeastTime(p)
  BY <1>1, <1>2, EndsWhenPassed DEF SampledAtRun, Timed
<1>4. now - StepSize - ranAt[p] < LeastTime(p)
  BY <1>1, <1>2, CalledFirst DEF OnTime, Timed
<1>5. QED
  BY <1>3, <1>4

(***************************************************************************)
(* When every duration is longer than the tolerance, a phase whose end     *)
(* condition is a duration ends on the very first step on which that       *)
(* duration, less the tolerance, has passed since the phase began to run,  *)
(* whatever runs in parallel and whatever the clients do                   *)
(* (DurationCondition::Check, the super-step loop of                       *)
(* PhaseDiagramExecutor::ProcessEvent).                                    *)
(***************************************************************************)
THEOREM DurationsEndExactly ==
  ASSUME PositiveDurations
  PROVE  Spec => DurationsAreExact
<1>1. ASSUME UpdateInv, DurationInv, [Next]_vars
      PROVE  [\A p \in Phases :
                /\ todo # << >> /\ Head(todo) = Task("finish", p, p)
                /\ mState[p] = "run" /\ mState'[p] = "end" /\ IsDuration(diagram.phase[p].end)
                => LET least == diagram.conditions[diagram.phase[p].end].duration - Tolerance
                   IN  now - ranAt[p] >= least /\ now - StepSize - ranAt[p] < least]_vars
  BY <1>1, EndsExactly DEF LeastTime
<1>2. UpdateInv /\ DurationInv /\ [Next]_vars => DurationInv'
  BY DurationInvStep
<1>3. QED
  BY <1>1, <1>2, DiagramInvInit, DiagramInvStep, UpdateInvInit, UpdateInvStep, DurationInvInit, PTL
     DEF Spec, DurationsAreExact
=============================================================================
