------------------------- MODULE PhaseDiagramProofs -------------------------
(***************************************************************************)
(* Theorems about PhaseDiagram: which actions are in force, when a phase   *)
(* has closed its actions, and what the clients have been told of them.    *)
(***************************************************************************)
EXTENDS PhaseDiagram, TLAPS

Drives == {q \in Phases : Kind(q) = "drive"}
Listed == mPhasesToDispatch \cup mPhasesInProcess

-----------------------------------------------------------------------------
(***************************************************************************)
(* The inductive invariant.  The executor's lists hold running phases of   *)
(* actors only; an action is dispatched only while its phase is listed;    *)
(* while the thread updates phases it sends none, and an action that has   *)
(* been published but not yet dispatched belongs to the phase being sent.  *)
(* How an action has ended has been told, or one of the two threads has    *)
(* still to tell it; of each end, each thread tells once.                  *)
(***************************************************************************)
Typed ==
  /\ diagram \in Diagrams
  /\ mState \in [Phases -> {"idle", "start", "run", "end"}]
  /\ mEventStatus \in [ActionIds -> Statuses]
  /\ notified \in [ActionIds -> Seq(Statuses)]
  /\ owed \in [ActionIds -> {Nothing, "interrupted", "done"}]

Control ==
  /\ todo # << >> => stage \in {"start", "update"}
  /\ sending # NoPhase => stage = "dispatch" /\ sending \in mPhasesToDispatch

ListedRun == \A q \in Listed : q \in Drives /\ mState[q] = "run"

Closed ==
  \A q \in Drives : \A a \in Final(q) :
    /\ mState[q] = "end" => mEventStatus[a] \in Terminal
    /\ mEventStatus[a] = "dispatched" => q \in Listed

ToldToStart(q, a) ==
  /\ mEventStatus[a] = "unspecified" /\ a \in published => sending = q
  /\ mEventStatus[a] = "dispatched" => a \in published
  /\ mEventStatus[a] = "skipped" => a \notin published
  /\ mEventStatus[a] \in {"interrupted", "done"} => a \in published

Completing(a) == report = a /\ written

ToldOfEnd(a) ==
  /\ mEventStatus[a] \in {"interrupted", "done"} =>
       \/ mEventStatus[a] \in ToSet(notified[a])
       \/ owed[a] = mEventStatus[a]
       \/ Completing(a) /\ mEventStatus[a] = "done"
  /\ mEventStatus[a] \notin {"interrupted", "done"} =>
       notified[a] = << >> /\ owed[a] = Nothing /\ ~ Completing(a)

NewsLeft(a) == (IF owed[a] = Nothing THEN 0 ELSE 1) + (IF report = a THEN 1 ELSE 0)

NewsBounded(a) == Len(notified[a]) + NewsLeft(a) <= 2

Told ==
  \A q \in Drives : \A a \in Final(q) : ToldToStart(q, a) /\ ToldOfEnd(a) /\ NewsBounded(a)

Sent ==
  sending # NoPhase =>
    \A a \in Final(sending) : mEventStatus[a] # "skipped" => a \in published

Reported ==
  /\ written => report # NoAction
  /\ report # NoAction =>
       \E q \in Drives : /\ report \in Final(q)
                         /\ mEventStatus[report] \in {"dispatched", "interrupted", "done"}
  /\ \A a \in ActionIds : owed[a] # Nothing => \E q \in Drives : a \in Final(q)

DiagramInv ==
  Typed /\ Control /\ ListedRun /\ Closed /\ Told /\ Sent /\ Reported /\ NoConflictInForce

-----------------------------------------------------------------------------
(* Facts about a diagram and about the operators on statuses. *)

LEMMA FinalActions ==
  ASSUME diagram \in Diagrams
  PROVE  /\ NoPhase \notin Phases /\ NoAction \notin ActionIds
         /\ \A q \in Phases : Final(q) \subseteq ActionIds
         /\ \A q \in Phases, r \in Phases : q # r => Final(q) \cap Final(r) = {}
<1>1. NoPhase \notin Phases /\ NoAction \notin ActionIds
  BY DiagramAssumption DEF Phases, ActionIds
<1>2. ASSUME NEW q \in Phases PROVE Final(q) \subseteq ActionIds
  <2>1. diagram.phase[q].actions \in Seq(ActionIds)
    BY <1>2, DiagramAssumption DEF Phases, ActionIds
  <2>2. QED
    BY <2>1 DEF Final, ActionsOf, ToSet
<1>3. \A q \in Phases, r \in Phases : q # r => Final(q) \cap Final(r) = {}
  BY DiagramAssumption DEF Phases, Final, ActionsOf
<1>4. QED
  BY <1>1, <1>2, <1>3

LEMMA SameDiagram ==
  ASSUME diagram' = diagram
  PROVE  /\ Phases' = Phases /\ ActionIds' = ActionIds /\ Drives' = Drives
         /\ \A q : Final(q)' = Final(q)
         /\ \A q : Kind(q)' = Kind(q)
         /\ \A a, b : InConflictWith(a, b)' = InConflictWith(a, b)
BY DEF Phases, ActionIds, Drives, Final, ActionsOf, Kind, InConflictWith, ControlDimensions

LEMMA ConflictSymmetric ==
  ASSUME NEW a, NEW b, InConflictWith(a, b)
  PROVE  InConflictWith(b, a)
<1>1. ASSUME NEW k, k.kind = "changeParameter"
      PROVE  ControlDimensions(k) = {}
  BY <1>1 DEF ControlDimensions
<1>2. QED
  BY <1>1 DEF InConflictWith

LEMMA PreemptedStatus ==
  ASSUME NEW S, NEW status, NEW a \in ActionIds
  PROVE  /\ a \notin S => Preempted(S, status)[a] = status[a]
         /\ a \in S /\ status[a] = "unspecified" => Preempted(S, status)[a] = "skipped"
         /\ a \in S /\ status[a] = "dispatched" => Preempted(S, status)[a] = "interrupted"
         /\ a \in S /\ status[a] \notin {"unspecified", "dispatched"}
              => Preempted(S, status)[a] = status[a]
BY DEF Preempted

LEMMA StatusTypes ==
  ASSUME NEW S, NEW p, NEW status \in [ActionIds -> Statuses]
  PROVE  /\ Preempted(S, status) \in [ActionIds -> Statuses]
         /\ Completed(S, status) \in [ActionIds -> Statuses]
         /\ DispatchFinalActions(p, status) \in [ActionIds -> Statuses]
<1>1. Preempted(S, status) \in [ActionIds -> Statuses]
  <2>1. \A a \in ActionIds : Preempted(S, status)[a] \in Statuses
    BY PreemptedStatus DEF Statuses, Terminal
  <2>2. QED
    BY <2>1 DEF Preempted
<1>2. QED
  BY <1>1 DEF Completed, DispatchFinalActions, Statuses, Terminal

-----------------------------------------------------------------------------
(* Steps that leave the actions alone, and parts of the other steps. *)

\* The actions in force become fewer, and so no two of them get into conflict.
LEMMA FewerInForce ==
  ASSUME NoConflictInForce, diagram' = diagram, \A q \in Drives : InForce(q)' \subseteq InForce(q)
  PROVE  NoConflictInForce'
<1>1. SUFFICES ASSUME NEW p \in Drives, NEW q \in Drives, p # q,
                      diagram.phase[p].actor = diagram.phase[q].actor,
                      NEW a \in InForce(p)', NEW b \in InForce(q)'
               PROVE  ~ InConflictWith(a, b)'
  BY SameDiagram DEF NoConflictInForce, Drives
<1>2. a \in InForce(p) /\ b \in InForce(q)
  OBVIOUS
<1>3. ~ InConflictWith(a, b)
  BY <1>1, <1>2 DEF NoConflictInForce, Drives
<1>4. QED
  BY <1>3, SameDiagram

LEMMA SameNews ==
  ASSUME UNCHANGED <<diagram, mEventStatus, sending, clients>>, Told, Reported
  PROVE  Told' /\ Reported'
<1>1. UNCHANGED <<report, written, published, notified, owed>>
  BY DEF clients
<1>2. \A a : (NewsBounded(a)' <=> NewsBounded(a)) /\ (ToldOfEnd(a)' <=> ToldOfEnd(a))
  <2>1. SUFFICES ASSUME NEW a
                 PROVE  (NewsBounded(a)' <=> NewsBounded(a)) /\ (ToldOfEnd(a)' <=> ToldOfEnd(a))
    OBVIOUS
  <2>2. mEventStatus'[a] = mEventStatus[a] /\ notified'[a] = notified[a] /\ owed'[a] = owed[a]
    BY <1>1
  <2>3. NewsBounded(a)' <=> NewsBounded(a)
    BY <1>1, <2>2 DEF NewsBounded, NewsLeft
  <2>4. ToldOfEnd(a)' <=> ToldOfEnd(a)
    BY <1>1, <2>2 DEF ToldOfEnd, Completing
  <2>5. QED
    BY <2>3, <2>4
<1>3. \A q, a : ToldToStart(q, a)' <=> ToldToStart(q, a)
  BY <1>1 DEF ToldToStart
<1>4. Told'
  <2>1. SUFFICES ASSUME NEW q \in Drives, NEW a \in Final(q)
                 PROVE  ToldToStart(q, a)' /\ ToldOfEnd(a)' /\ NewsBounded(a)'
    BY SameDiagram DEF Told
  <2>2. ToldToStart(q, a) /\ ToldOfEnd(a) /\ NewsBounded(a)
    BY DEF Told
  <2>3. QED
    BY <1>2, <1>3, <2>2
<1>5. Reported'
  <2>1. ActionIds' = ActionIds /\ Drives' = Drives /\ \A q : Final(q)' = Final(q)
    BY SameDiagram
  <2>2. QED
    BY <1>1, <2>1 DEF Reported
<1>6. QED
  BY <1>4, <1>5

\* At most a phase starts to wait for its start condition.
Quiet ==
  /\ UNCHANGED <<diagram, mEventStatus, mPhasesToDispatch, mPhasesInProcess, sending, clients>>
  /\ mState' \in [Phases -> {"idle", "start", "run", "end"}]
  /\ \A q \in Phases : \/ mState'[q] = mState[q]
                       \/ mState[q] = "idle" /\ mState'[q] = "start"

LEMMA QuietStep ==
  ASSUME DiagramInv, Quiet, Control'
  PROVE  DiagramInv'
<1> USE DEF Quiet
<1>1. UNCHANGED <<diagram, mEventStatus, mPhasesToDispatch, mPhasesInProcess, sending, report,
                  written, published, notified, owed>>
  BY DEF clients
<1>2. Typed'
  BY <1>1, SameDiagram DEF DiagramInv, Typed
<1>3. Drives \subseteq Phases /\ Listed' = Listed
  BY <1>1 DEF Drives, Listed
<1>4. ListedRun'
  <2>1. SUFFICES ASSUME NEW q \in Listed PROVE q \in Drives /\ mState'[q] = "run"
    BY <1>1, <1>3, SameDiagram DEF ListedRun
  <2>2. q \in Drives /\ mState[q] = "run"
    BY DEF DiagramInv, ListedRun
  <2>3. QED
    BY <2>2, <1>3
<1>5. Closed'
  <2>1. SUFFICES ASSUME NEW q \in Drives, NEW a \in Final(q)
                 PROVE  /\ mState'[q] = "end" => mEventStatus[a] \in Terminal
                        /\ mEventStatus[a] = "dispatched" => q \in Listed
    BY <1>1, <1>3, SameDiagram DEF Closed
  <2>2. QED
    BY <1>3 DEF DiagramInv, Closed
<1>6. Told' /\ Sent' /\ Reported'
  <2>1. Told' /\ Reported'
    BY SameNews DEF DiagramInv
  <2>2. QED
    BY <1>1, <2>1, SameDiagram DEF DiagramInv, Sent
<1>7. NoConflictInForce'
  BY <1>1, SameDiagram, FewerInForce DEF InForce, DiagramInv
<1>8. QED
  BY <1>2, <1>4, <1>5, <1>6, <1>7 DEF DiagramInv

(***************************************************************************)
(* While the thread updates phases, final actions of actors are only       *)
(* closed: skipped before they are dispatched, interrupted or done after.  *)
(***************************************************************************)
Closes(old, new) ==
  \/ new = old
  \/ old = "unspecified" /\ new = "skipped"
  \/ old = "dispatched" /\ new \in {"interrupted", "done"}

LEMMA ClosingIsTold ==
  ASSUME DiagramInv, UNCHANGED <<diagram, sending, report, written, published, notified>>,
         sending = NoPhase,
         \A q \in Drives : \A a \in Final(q) : Closes(mEventStatus[a], mEventStatus'[a]),
         mEventStatus' \in [ActionIds -> Statuses],
         owed' = Owed(mEventStatus')
  PROVE  owed' \in [ActionIds -> {Nothing, "interrupted", "done"}] /\ Told' /\ Sent' /\ Reported'
<1>1. owed' \in [ActionIds -> {Nothing, "interrupted", "done"}]
  <2>1. SUFFICES ASSUME NEW a \in ActionIds
                 PROVE  Owed(mEventStatus')[a] \in {Nothing, "interrupted", "done"}
    BY DEF Owed
  <2>2. owed[a] \in {Nothing, "interrupted", "done"}
    BY DEF DiagramInv, Typed
  <2>3. IsActorAction(a) => Closes(mEventStatus[a], mEventStatus'[a])
    BY DEF IsActorAction, Drives
  <2>4. QED
    BY <2>2, <2>3 DEF Owed, Closes
<1>2. Told'
  <2>1. SUFFICES ASSUME NEW q \in Drives, NEW a \in Final(q)
                 PROVE  ToldToStart(q, a)' /\ ToldOfEnd(a)' /\ NewsBounded(a)'
    BY SameDiagram DEF Told
  <2>2. a \in ActionIds /\ IsActorAction(a) /\ q # NoPhase
    BY FinalActions DEF DiagramInv, Typed, Drives, IsActorAction
  <2>3. Closes(mEventStatus[a], mEventStatus'[a])
    OBVIOUS
  <2>4. owed'[a] = IF mEventStatus[a] = "dispatched" /\ mEventStatus'[a] # "dispatched"
                   THEN mEventStatus'[a] ELSE owed[a]
    BY <2>2 DEF Owed
  <2>5. ToldToStart(q, a) /\ ToldOfEnd(a) /\ NewsBounded(a)
    BY DEF DiagramInv, Told
  <2>6. CASE mEventStatus'[a] = mEventStatus[a]
    BY <2>4, <2>5, <2>6 DEF ToldToStart, ToldOfEnd, NewsBounded, NewsLeft, Completing
  <2>7. CASE mEventStatus[a] = "unspecified" /\ mEventStatus'[a] = "skipped"
    BY <2>2, <2>4, <2>5, <2>7 DEF ToldToStart, ToldOfEnd, NewsBounded, NewsLeft, Completing
  <2>8. CASE mEventStatus[a] = "dispatched" /\ mEventStatus'[a] \in {"interrupted", "done"}
    <3>1. owed'[a] = mEventStatus'[a] /\ notified'[a] = << >> /\ owed[a] = Nothing
      BY <2>4, <2>5, <2>8 DEF ToldOfEnd
    <3>2. NewsBounded(a)'
      BY <3>1 DEF NewsBounded, NewsLeft
    <3>3. QED
      BY <2>5, <2>8, <3>1, <3>2 DEF ToldToStart, ToldOfEnd
  <2>9. QED
    BY <2>3, <2>6, <2>7, <2>8 DEF Closes
<1>3. Sent'
  BY DEF Sent
<1>4. Reported'
  <2>1. SUFFICES ASSUME report # NoAction
                 PROVE  \E q \in Drives : report \in Final(q)
                                          /\ mEventStatus'[report] \in {"dispatched", "interrupted", "done"}
    <3>1. \A a \in ActionIds : owed'[a] # Nothing => \E q \in Drives : a \in Final(q)
      BY DEF Owed, IsActorAction, Drives, DiagramInv, Reported
    <3>2. QED
      BY <3>1, SameDiagram DEF DiagramInv, Reported
  <2>2. PICK q \in Drives : report \in Final(q)
                            /\ mEventStatus[report] \in {"dispatched", "interrupted", "done"}
    BY <2>1 DEF DiagramInv, Reported
  <2>3. Closes(mEventStatus[report], mEventStatus'[report])
    BY <2>2
  <2>4. QED
    BY <2>2, <2>3 DEF Closes
<1>5. QED
  BY <1>1, <1>2, <1>3, <1>4

-----------------------------------------------------------------------------
(* One lemma for each kind of step. *)

LEMMA Updating ==
  ASSUME DiagramInv, todo # << >>
  PROVE  stage \in {"start", "update"} /\ sending = NoPhase
BY DEF DiagramInv, Control

LEMMA ThrowStep ==
  ASSUME DiagramInv, NEW what, Throw(what)
  PROVE  DiagramInv'
<1>1. mState' \in [Phases -> {"idle", "start", "run", "end"}] /\ Control'
  BY DEF DiagramInv, Typed, Control, Throw, phases, executor
<1>2. Quiet
  BY <1>1 DEF Quiet, Throw, phases, executor
<1>3. QED
  BY <1>1, <1>2, QuietStep

LEMMA OnStartStep ==
  ASSUME DiagramInv, NEW p \in Phases, OnStart(p)
  PROVE  DiagramInv'
<1>1. CASE Throw("error")
  BY <1>1, ThrowStep
<1>2. CASE ~ Throw("error")
  <2>1. /\ mState[p] = "idle" /\ mState' = [mState EXCEPT ![p] = "start"]
        /\ UNCHANGED <<diagram, mEventStatus, mPhasesToDispatch, mPhasesInProcess, sending,
                       clients, stage, todo>>
    BY <1>2 DEF OnStart, First
  <2>2. mState \in [Phases -> {"idle", "start", "run", "end"}] /\ Control
    BY DEF DiagramInv, Typed
  <2>3. Control'
    BY <2>1, <2>2 DEF Control
  <2>4. Quiet
    BY <2>1, <2>2 DEF Quiet
  <2>5. QED
    BY <2>3, <2>4, QuietStep
<1>3. QED
  BY <1>1, <1>2

\* The updates that only look at the actions.
LEMMA QuietUpdates ==
  ASSUME DiagramInv, NEW p \in Phases,
         \/ KeepWaiting(p) \/ UpdateEnded(p) \/ OrderChildren(p) \/ UpdateMix(p)
         \/ UpdateSerial(p) \/ UpdateActionPhase(p) \/ Join(p) \/ SkipFirstUpdate(p)
  PROVE  DiagramInv'
<1>1. CASE \E what : Throw(what)
  BY <1>1, ThrowStep
<1>2. CASE ~ \E what : Throw(what)
  <2>1. /\ todo # << >>
        /\ UNCHANGED <<diagram, mState, mEventStatus, mPhasesToDispatch, mPhasesInProcess, sending,
                       clients, stage>>
    <3>1. CASE KeepWaiting(p) \/ UpdateEnded(p) \/ UpdateSerial(p)
      BY <3>1 DEF KeepWaiting, UpdateEnded, UpdateSerial, First, phases, executor
    <3>2. CASE UpdateMix(p) \/ Join(p) \/ SkipFirstUpdate(p)
      BY <3>2 DEF UpdateMix, Join, SkipFirstUpdate, First, executor
    <3>3. CASE OrderChildren(p) \/ UpdateActionPhase(p)
      BY <1>2, <3>3 DEF OrderChildren, UpdateActionPhase, First, phases, executor
    <3>4. QED
      BY <3>1, <3>2, <3>3
  <2>2. mState \in [Phases -> {"idle", "start", "run", "end"}] /\ Control'
    BY <2>1, Updating DEF DiagramInv, Typed, Control
  <2>3. Quiet
    BY <2>1, <2>2 DEF Quiet
  <2>4. QED
    BY <2>2, <2>3, QuietStep
<1>3. QED
  BY <1>1, <1>2

\* The steps between the updates of the root.
LEMMA EventSteps ==
  ASSUME DiagramInv, BeginStart \/ BeginUpdate \/ RepeatUpdate \/ BeginDispatch \/ EndDispatch
  PROVE  DiagramInv'
<1>1. UNCHANGED <<diagram, mState, mEventStatus, mPhasesToDispatch, mPhasesInProcess, sending, clients>>
  BY DEF BeginStart, BeginUpdate, RepeatUpdate, BeginDispatch, EndDispatch, phases, executor
<1>2. Control'
  <2>1. CASE BeginStart \/ BeginUpdate
    BY <2>1 DEF DiagramInv, Control, BeginStart, BeginUpdate
  <2>2. CASE RepeatUpdate
    BY <2>2 DEF DiagramInv, Control, RepeatUpdate
  <2>3. CASE BeginDispatch
    BY <2>3 DEF DiagramInv, Control, BeginDispatch, ThreadDone
  <2>4. CASE EndDispatch
    BY <2>4 DEF DiagramInv, Control, EndDispatch
  <2>5. QED
    BY <2>1, <2>2, <2>3, <2>4
<1>3. mState \in [Phases -> {"idle", "start", "run", "end"}]
  BY DEF DiagramInv, Typed
<1>4. Quiet
  BY <1>1, <1>3 DEF Quiet
<1>5. QED
  BY <1>2, <1>4, QuietStep

\* A phase whose actions have all been skipped leaves the list of new phases.
LEMMA PassOverStep ==
  ASSUME DiagramInv, NEW p \in Phases, PassOver(p)
  PROVE  DiagramInv'
<1>1. /\ UNCHANGED <<diagram, mState, mEventStatus, mPhasesInProcess, sending, stage, todo, report,
                     written, published, notified, owed>>
      /\ sending = NoPhase /\ mPhasesToDispatch' = mPhasesToDispatch \ {p}
      /\ GetUnskippedActions(p) = {}
  BY DEF PassOver, phases, clients
<1>2. Typed' /\ Control' /\ ListedRun'
  BY <1>1, SameDiagram DEF DiagramInv, Typed, Control, ListedRun, Listed
<1>3. Closed'
  <2>1. SUFFICES ASSUME NEW q \in Drives, NEW a \in Final(q)
                 PROVE  /\ mState[q] = "end" => mEventStatus[a] \in Terminal
                        /\ mEventStatus[a] = "dispatched" => q \in Listed'
    BY <1>1, SameDiagram DEF Closed
  <2>2. /\ mState[q] = "end" => mEventStatus[a] \in Terminal
        /\ mEventStatus[a] = "dispatched" => q \in Listed
    BY DEF DiagramInv, Closed
  <2>3. q = p => mEventStatus[a] = "skipped"
    BY <1>1 DEF GetUnskippedActions, Final, ActionsOf
  <2>4. QED
    BY <1>1, <2>2, <2>3 DEF Listed
<1>4. Told' /\ Sent' /\ Reported'
  <2>1. Told' /\ Reported'
    BY <1>1, SameNews DEF DiagramInv, clients
  <2>2. QED
    BY <1>1, <2>1, SameDiagram DEF DiagramInv, Sent
<1>5. NoConflictInForce'
  BY <1>1, SameDiagram, FewerInForce DEF InForce, DiagramInv
<1>6. QED
  BY <1>2, <1>3, <1>4, <1>5 DEF DiagramInv

\* The clients are told of the actions of a new phase that have not been skipped.
LEMMA PublishActionsStep ==
  ASSUME DiagramInv, NEW p \in Phases, PublishActions(p)
  PROVE  DiagramInv'
<1>1. /\ UNCHANGED <<diagram, mState, mEventStatus, mPhasesToDispatch, mPhasesInProcess, stage, todo,
                     report, written, notified, owed>>
      /\ stage = "dispatch" /\ sending = NoPhase /\ p \in mPhasesToDispatch
      /\ published' = published \cup GetUnskippedActions(p) /\ sending' = p
  BY DEF PublishActions, phases, executor
<1>2. Typed' /\ Control' /\ ListedRun' /\ Closed' /\ Reported'
  BY <1>1, SameDiagram DEF DiagramInv, Typed, Control, ListedRun, Listed, Closed, Reported
<1>3. Told'
  <2>1. SUFFICES ASSUME NEW q \in Drives, NEW a \in Final(q)
                 PROVE  ToldToStart(q, a)' /\ ToldOfEnd(a)' /\ NewsBounded(a)'
    BY <1>1, SameDiagram DEF Told
  <2>2. ToldToStart(q, a) /\ ToldOfEnd(a) /\ NewsBounded(a)
    BY DEF DiagramInv, Told
  <2>3. q \in Phases /\ q # NoPhase
    BY FinalActions DEF DiagramInv, Typed, Drives
  <2>4. a \in ToSet(diagram.phase[p].actions) => p = q
    BY <2>3, DiagramAssumption DEF DiagramInv, Typed, Phases, Final, ActionsOf
  <2>5. a \in published' => a \in published \/ (p = q /\ mEventStatus[a] # "skipped")
    BY <1>1, <2>4 DEF GetUnskippedActions
  <2>6. ToldToStart(q, a)'
    BY <1>1, <2>2, <2>3, <2>5 DEF ToldToStart
  <2>7. ToldOfEnd(a)' /\ NewsBounded(a)'
    BY <1>1, <2>2 DEF ToldOfEnd, NewsBounded, NewsLeft, Completing
  <2>8. QED
    BY <2>6, <2>7
<1>4. Sent'
  BY <1>1, SameDiagram DEF Sent, GetUnskippedActions, Final, ActionsOf
<1>5. NoConflictInForce'
  BY <1>1, SameDiagram, FewerInForce DEF InForce, DiagramInv
<1>6. QED
  BY <1>2, <1>3, <1>4, <1>5 DEF DiagramInv

LEMMA PutInProcessStep ==
  ASSUME DiagramInv, NEW p \in Phases, PutInProcess(p)
  PROVE  DiagramInv'
<1>1. /\ UNCHANGED <<diagram, mState, mEventStatus, mPhasesToDispatch, sending, stage, todo, report,
                     written, published, notified, owed>>
      /\ p \in mPhasesToDispatch /\ mPhasesInProcess' = mPhasesInProcess \cup {p}
  BY FinalActions DEF PutInProcess, phases, clients, DiagramInv, Control, Typed
<1>2. Listed' = Listed
  BY <1>1 DEF Listed
<1>3. Typed' /\ Control' /\ ListedRun' /\ Closed' /\ Sent'
  BY <1>1, <1>2, SameDiagram DEF DiagramInv, Typed, Control, ListedRun, Closed, Sent
<1>4. Told' /\ Reported'
  BY <1>1, SameNews DEF DiagramInv, clients
<1>5. NoConflictInForce'
  BY <1>1, SameDiagram, FewerInForce DEF InForce, DiagramInv
<1>6. QED
  BY <1>3, <1>4, <1>5 DEF DiagramInv

\* The actions of the phase that has been sent are dispatched; those of others are not.
LEMMA DispatchedStep ==
  ASSUME DiagramInv, NEW p \in Phases, NotifyActionEventDispatched(p)
  PROVE  DiagramInv'
<1>1. /\ UNCHANGED <<diagram, mState, mPhasesInProcess, stage, todo, report, written, published, notified,
                     owed>>
      /\ sending = p /\ sending' = NoPhase /\ p \in mPhasesInProcess
      /\ mPhasesToDispatch' = mPhasesToDispatch \ {p}
      /\ mEventStatus' = DispatchFinalActions(p, mEventStatus)
  BY DEF NotifyActionEventDispatched, phases, clients
<1>2. p \in Drives /\ mState[p] = "run" /\ Drives \subseteq Phases /\ p # NoPhase
  BY <1>1, FinalActions DEF DiagramInv, ListedRun, Listed, Drives, Typed
<1>3. \A q \in Drives : \A a \in Final(q) :
        /\ q # p => mEventStatus'[a] = mEventStatus[a]
        /\ q = p => mEventStatus'[a] = IF mEventStatus[a] = "unspecified" THEN "dispatched"
                                       ELSE mEventStatus[a]
  <2>1. \A q \in Drives : \A a \in Final(q) : a \in ActionIds /\ (q # p => a \notin Final(p))
    BY <1>2, FinalActions DEF DiagramInv, Typed
  <2>2. QED
    BY <1>1, <2>1 DEF DispatchFinalActions
<1>4. Typed' /\ Control' /\ ListedRun'
  BY <1>1, StatusTypes, SameDiagram DEF DiagramInv, Typed, Control, ListedRun, Listed
<1>5. Closed'
  <2>1. SUFFICES ASSUME NEW q \in Drives, NEW a \in Final(q)
                 PROVE  /\ mState[q] = "end" => mEventStatus'[a] \in Terminal
                        /\ mEventStatus'[a] = "dispatched" => q \in Listed'
    BY <1>1, SameDiagram DEF Closed
  <2>2. /\ mState[q] = "end" => mEventStatus[a] \in Terminal
        /\ mEventStatus[a] = "dispatched" => q \in Listed
    BY DEF DiagramInv, Closed
  <2>3. CASE q = p
    BY <1>1, <1>2, <2>3 DEF Listed
  <2>4. CASE q # p
    BY <1>1, <1>3, <2>2, <2>4 DEF Listed
  <2>5. QED
    BY <2>3, <2>4
<1>6. Told'
  <2>1. SUFFICES ASSUME NEW q \in Drives, NEW a \in Final(q)
                 PROVE  ToldToStart(q, a)' /\ ToldOfEnd(a)' /\ NewsBounded(a)'
    BY <1>1, SameDiagram DEF Told
  <2>2. ToldToStart(q, a) /\ ToldOfEnd(a) /\ NewsBounded(a)
    BY DEF DiagramInv, Told
  <2>3. q = p => (mEventStatus[a] # "skipped" => a \in published)
    BY <1>1, <1>2 DEF DiagramInv, Sent
  <2>4. /\ q # p => mEventStatus'[a] = mEventStatus[a]
        /\ q = p => mEventStatus'[a] = IF mEventStatus[a] = "unspecified" THEN "dispatched"
                                       ELSE mEventStatus[a]
    BY <1>3
  <2>5. ToldToStart(q, a)'
    BY <1>1, <2>2, <2>3, <2>4 DEF ToldToStart
  <2>6. ToldOfEnd(a)' /\ NewsBounded(a)'
    BY <1>1, <2>2, <2>4 DEF ToldOfEnd, NewsBounded, NewsLeft, Completing
  <2>7. QED
    BY <2>5, <2>6
<1>7. Sent'
  BY <1>1 DEF Sent
<1>8. Reported'
  <2>1. SUFFICES ASSUME report # NoAction
                 PROVE  \E q \in Drives : report \in Final(q)
                                          /\ mEventStatus'[report] \in {"dispatched", "interrupted", "done"}
    BY <1>1, SameDiagram DEF DiagramInv, Reported
  <2>2. PICK q \in Drives : report \in Final(q)
                            /\ mEventStatus[report] \in {"dispatched", "interrupted", "done"}
    BY <2>1 DEF DiagramInv, Reported
  <2>3. QED
    BY <1>3, <2>2
<1>9. NoConflictInForce'
  <2>1. SUFFICES ASSUME NEW q \in Drives, NEW a \in Final(q), a \in InForce(q)'
                 PROVE  a \in InForce(q)
    BY <1>1, SameDiagram, FewerInForce DEF InForce, DiagramInv
  <2>2. \/ mEventStatus'[a] = "dispatched"
        \/ mEventStatus'[a] = "unspecified" /\ q \in mPhasesToDispatch'
    BY <2>1 DEF InForce
  <2>3. CASE q = p
    <3>1. p \in mPhasesToDispatch
      BY <1>1, <1>2 DEF DiagramInv, Control
    <3>2. QED
      BY <1>1, <1>3, <2>2, <2>3, <3>1 DEF InForce
  <2>4. CASE q # p
    BY <1>1, <1>3, <2>2, <2>4 DEF InForce
  <2>5. QED
    BY <2>3, <2>4
<1>10. QED
  BY <1>4, <1>5, <1>6, <1>7, <1>8, <1>9 DEF DiagramInv

-----------------------------------------------------------------------------
(* A client completes an action. *)

LEMMA ReportCompleteStep ==
  ASSUME DiagramInv, NEW a \in ActionIds, ReportComplete(a)
  PROVE  DiagramInv'
<1>1. /\ UNCHANGED <<diagram, mState, mEventStatus, mPhasesToDispatch, mPhasesInProcess, sending,
                     stage, todo, written, published, notified, owed>>
      /\ report = NoAction /\ report' = a /\ mEventStatus[a] = "dispatched"
  BY DEF ReportComplete, phases, executor
<1>2. PICK p \in mPhasesInProcess : a \in Final(p)
  BY DEF ReportComplete
<1>3. p \in Drives /\ a # NoAction /\ ~ written
  BY <1>1, FinalActions DEF DiagramInv, Typed, ListedRun, Listed, Reported
<1>4. Reported'
  <2>1. report' \in Final(p) /\ mEventStatus'[report'] = "dispatched" /\ report' # NoAction
    BY <1>1, <1>2, <1>3
  <2>2. \A b \in ActionIds : owed'[b] # Nothing => \E q \in Drives : b \in Final(q)
    BY <1>1 DEF DiagramInv, Reported
  <2>3. QED
    BY <1>1, <1>3, <2>1, <2>2, SameDiagram DEF Reported
<1>5. Typed' /\ Control' /\ ListedRun' /\ Closed' /\ Sent'
  BY <1>1, SameDiagram DEF DiagramInv, Typed, Control, ListedRun, Listed, Closed, Sent
<1>6. Told'
  <2>1. SUFFICES ASSUME NEW q \in Drives, NEW b \in Final(q)
                 PROVE  ToldToStart(q, b)' /\ ToldOfEnd(b)' /\ NewsBounded(b)'
    BY <1>1, SameDiagram DEF Told
  <2>2. ToldToStart(q, b) /\ ToldOfEnd(b) /\ NewsBounded(b)
    BY DEF DiagramInv, Told
  <2>3. b # NoAction
    BY FinalActions DEF DiagramInv, Typed, Drives
  <2>4. ToldToStart(q, b)' /\ ToldOfEnd(b)'
    BY <1>1, <1>3, <2>2 DEF ToldToStart, ToldOfEnd, Completing
  <2>5. NewsBounded(b)'
    <3>1. CASE b = a
      <4>1. notified'[b] = << >> /\ owed'[b] = Nothing /\ report' = b
        BY <1>1, <2>2, <3>1 DEF ToldOfEnd
      <4>2. Len(<< >>) = 0
        OBVIOUS
      <4>3. QED
        BY <4>1, <4>2 DEF NewsBounded, NewsLeft
    <3>2. CASE b # a
      <4>1. notified'[b] = notified[b] /\ owed'[b] = owed[b] /\ report' # b /\ report # b
        BY <1>1, <2>3, <3>2
      <4>2. QED
        BY <2>2, <4>1 DEF NewsBounded, NewsLeft
    <3>3. QED
      BY <3>1, <3>2
  <2>6. QED
    BY <2>4, <2>5
<1>7. NoConflictInForce'
  BY <1>1, SameDiagram, FewerInForce DEF InForce, DiagramInv
<1>8. QED
  BY <1>4, <1>5, <1>6, <1>7 DEF DiagramInv

\* The action may have been interrupted after its status was read.
LEMMA WriteDoneStep ==
  ASSUME DiagramInv, WriteDone
  PROVE  DiagramInv'
<1>1. /\ UNCHANGED <<diagram, mState, mPhasesToDispatch, mPhasesInProcess, sending, stage, todo,
                     report, published, notified, owed>>
      /\ report # NoAction /\ ~ written /\ written' = TRUE
      /\ \/ mEventStatus' = [mEventStatus EXCEPT ![report] = "done"]
         \/ mEventStatus[report] # "dispatched" /\ mEventStatus' = mEventStatus
  BY DEF WriteDone, phases, executor
<1>2. PICK r \in Drives : report \in Final(r)
                          /\ mEventStatus[report] \in {"dispatched", "interrupted", "done"}
  BY <1>1 DEF DiagramInv, Reported
<1>3. report \in ActionIds /\ \A q \in Drives : Final(q) \subseteq ActionIds
  BY <1>2, FinalActions DEF DiagramInv, Typed, Drives
<1>4. report \in published
  BY <1>2 DEF DiagramInv, Told, ToldToStart
<1>5. mEventStatus \in [ActionIds -> Statuses]
  BY DEF DiagramInv, Typed
<1>6. \A a \in ActionIds :
        /\ a # report => mEventStatus'[a] = mEventStatus[a]
        /\ a = report => \/ mEventStatus'[a] = "done"
                         \/ mEventStatus'[a] = mEventStatus[a] /\ mEventStatus[a] # "dispatched"
  BY <1>1, <1>5
<1>7. Typed' /\ Control' /\ ListedRun'
  <2>1. "done" \in Statuses
    BY DEF Statuses, Terminal
  <2>2. mEventStatus' \in [ActionIds -> Statuses]
    BY <1>1, <1>5, <2>1
  <2>3. QED
    BY <1>1, <2>2, SameDiagram DEF DiagramInv, Typed, Control, ListedRun, Listed
<1>8. Closed'
  <2>1. SUFFICES ASSUME NEW q \in Drives, NEW a \in Final(q)
                 PROVE  /\ mState[q] = "end" => mEventStatus'[a] \in Terminal
                        /\ mEventStatus'[a] = "dispatched" => q \in Listed
    BY <1>1, SameDiagram DEF Closed, Listed
  <2>2. /\ mState[q] = "end" => mEventStatus[a] \in Terminal
        /\ mEventStatus[a] = "dispatched" => q \in Listed
    BY DEF DiagramInv, Closed
  <2>3. QED
    BY <1>3, <1>6, <2>2 DEF Terminal
<1>9. Told'
  <2>1. SUFFICES ASSUME NEW q \in Drives, NEW a \in Final(q)
                 PROVE  ToldToStart(q, a)' /\ ToldOfEnd(a)' /\ NewsBounded(a)'
    BY <1>1, SameDiagram DEF Told
  <2>2. ToldToStart(q, a) /\ ToldOfEnd(a) /\ NewsBounded(a)
    BY DEF DiagramInv, Told
  <2>3. NewsBounded(a)'
    BY <1>1, <2>2 DEF NewsBounded, NewsLeft
  <2>4. CASE a = report
    <3>1. mEventStatus'[a] = "done" \/ mEventStatus'[a] = mEventStatus[a]
      BY <1>3, <1>6, <2>4
    <3>2. mEventStatus'[a] \in {"interrupted", "done"}
      BY <1>2, <1>3, <1>6, <2>4
    <3>3. ToldToStart(q, a)'
      BY <1>1, <1>4, <2>4, <3>2 DEF ToldToStart
    <3>4. ToldOfEnd(a)'
      <4>1. CASE mEventStatus'[a] = "done"
        BY <1>1, <2>4, <4>1 DEF ToldOfEnd, Completing
      <4>2. CASE mEventStatus'[a] = mEventStatus[a]
        BY <1>1, <2>2, <3>2, <4>2 DEF ToldOfEnd, Completing
      <4>3. QED
        BY <3>1, <4>1, <4>2
    <3>5. QED
      BY <2>3, <3>3, <3>4
  <2>5. CASE a # report
    <3>1. mEventStatus'[a] = mEventStatus[a]
      BY <1>3, <1>6, <2>5
    <3>2. QED
      BY <1>1, <2>2, <2>3, <2>5, <3>1 DEF ToldToStart, ToldOfEnd, Completing
  <2>6. QED
    BY <2>4, <2>5
<1>10. Sent'
  <2>1. SUFFICES ASSUME sending # NoPhase, NEW a \in Final(sending), mEventStatus'[a] # "skipped"
                 PROVE  a \in published
    BY <1>1, SameDiagram DEF Sent
  <2>2. sending \in Drives
    BY <2>1 DEF DiagramInv, Control, ListedRun, Listed
  <2>3. QED
    BY <1>3, <1>4, <1>6, <2>1, <2>2 DEF DiagramInv, Sent
<1>11. Reported'
  <2>1. mEventStatus'[report] \in {"dispatched", "interrupted", "done"}
    BY <1>2, <1>3, <1>6
  <2>2. \A b \in ActionIds : owed'[b] # Nothing => \E q \in Drives : b \in Final(q)
    BY <1>1 DEF DiagramInv, Reported
  <2>3. report' = report /\ report \in Final(r)
    BY <1>1, <1>2
  <2>4. QED
    BY <1>1, <2>1, <2>2, <2>3, SameDiagram DEF Reported
<1>12. NoConflictInForce'
  <2>1. SUFFICES ASSUME NEW q \in Drives, NEW a \in Final(q), a \in InForce(q)'
                 PROVE  a \in InForce(q)
    BY <1>1, SameDiagram, FewerInForce DEF InForce, DiagramInv
  <2>2. \/ mEventStatus'[a] = "dispatched"
        \/ mEventStatus'[a] = "unspecified" /\ q \in mPhasesToDispatch
    BY <1>1, <2>1 DEF InForce
  <2>3. QED
    BY <1>3, <1>6, <2>2 DEF InForce
<1>13. QED
  BY <1>7, <1>8, <1>9, <1>10, <1>11, <1>12 DEF DiagramInv

-----------------------------------------------------------------------------
(* Either thread publishes an end. *)

LEMMA AppendTells ==
  ASSUME NEW news \in Seq(Statuses), NEW said \in Statuses
  PROVE  /\ Append(news, said) \in Seq(Statuses)
         /\ Len(Append(news, said)) = Len(news) + 1
         /\ ToSet(news) \subseteq ToSet(Append(news, said))
         /\ said \in ToSet(Append(news, said))
<1>1. /\ Append(news, said) \in Seq(Statuses) /\ Len(Append(news, said)) = Len(news) + 1
      /\ \A i \in 1 .. Len(news) : Append(news, said)[i] = news[i]
      /\ Append(news, said)[Len(news) + 1] = said
  OBVIOUS
<1>2. ASSUME NEW i \in 1 .. Len(news)
      PROVE  news[i] \in ToSet(Append(news, said))
  BY <1>1 DEF ToSet
<1>3. said \in ToSet(Append(news, said))
  BY <1>1 DEF ToSet
<1>4. ToSet(news) \subseteq ToSet(Append(news, said))
  BY <1>2 DEF ToSet
<1>5. QED
  BY <1>1, <1>3, <1>4

\* One more news of an action that has ended, by one who had still to publish it.
Publishes(b, said) ==
  /\ UNCHANGED <<diagram, mState, mEventStatus, mPhasesToDispatch, mPhasesInProcess, sending, stage,
                 todo, published>>
  /\ notified' = [notified EXCEPT ![b] = Append(@, said)]
  /\ \/ /\ report = b /\ written /\ report' = NoAction /\ written' = FALSE /\ owed' = owed
        /\ said \in {"done", mEventStatus[b]}
     \/ /\ owed[b] # Nothing /\ owed' = [owed EXCEPT ![b] = Nothing]
        /\ report' = report /\ written' = written
        /\ said \in {owed[b], mEventStatus[b]}

LEMMA PublishStep ==
  ASSUME DiagramInv, NEW b \in ActionIds, NEW said, Publishes(b, said),
         NEW r \in Drives, b \in Final(r)
  PROVE  DiagramInv'
<1>1. UNCHANGED <<diagram, mState, mEventStatus, mPhasesToDispatch, mPhasesInProcess, sending, stage,
                  todo, published>>
  BY DEF Publishes
<1>2. /\ notified \in [ActionIds -> Seq(Statuses)] /\ mEventStatus \in [ActionIds -> Statuses]
      /\ owed \in [ActionIds -> {Nothing, "interrupted", "done"}]
  BY DEF DiagramInv, Typed
<1>3. ToldOfEnd(b) /\ NewsBounded(b) /\ ToldToStart(r, b)
  BY DEF DiagramInv, Told
<1>4. mEventStatus[b] \in {"interrupted", "done"}
  BY <1>3 DEF ToldOfEnd, Completing, Publishes
<1>5. said \in Statuses
  BY <1>2, <1>4 DEF Publishes, Statuses, Terminal
<1>6. /\ notified'[b] = Append(notified[b], said)
      /\ \A a \in ActionIds : a # b => notified'[a] = notified[a]
      /\ notified' \in [ActionIds -> Seq(Statuses)]
  <2>1. Append(notified[b], said) \in Seq(Statuses)
    BY <1>2, <1>5, AppendTells
  <2>2. QED
    BY <1>2, <2>1 DEF Publishes
<1>7. /\ Len(notified'[b]) = Len(notified[b]) + 1 /\ Len(notified[b]) \in Nat
      /\ ToSet(notified[b]) \subseteq ToSet(notified'[b]) /\ said \in ToSet(notified'[b])
  BY <1>2, <1>5, <1>6, AppendTells
<1>8. b # NoAction /\ \A q \in Drives : Final(q) \subseteq ActionIds
  BY FinalActions DEF DiagramInv, Typed, Drives
<1>9. owed' \in [ActionIds -> {Nothing, "interrupted", "done"}]
  BY <1>2 DEF Publishes
<1>10. Typed' /\ Control' /\ ListedRun' /\ Closed' /\ Sent'
  BY <1>1, <1>6, <1>9, SameDiagram DEF DiagramInv, Typed, Control, ListedRun, Listed, Closed, Sent
<1>11. Reported'
  <2>1. ASSUME NEW a \in ActionIds, owed'[a] # Nothing
        PROVE  \E q \in Drives : a \in Final(q)
    <3>1. owed[a] # Nothing
      BY <1>2, <2>1 DEF Publishes
    <3>2. QED
      BY <3>1 DEF DiagramInv, Reported
  <2>2. \/ report' = NoAction /\ ~ written'
        \/ report' = report /\ written' = written
    BY DEF Publishes
  <2>3. ActionIds' = ActionIds /\ Drives' = Drives /\ \A q : Final(q)' = Final(q)
    BY <1>1, SameDiagram
  <2>4. QED
    BY <1>1, <2>1, <2>2, <2>3 DEF DiagramInv, Reported
<1>12. ToldOfEnd(b)'
  <2>1. \/ mEventStatus[b] \in ToSet(notified'[b])
        \/ owed'[b] = mEventStatus[b]
        \/ report' = b /\ written' /\ mEventStatus[b] = "done"
    BY <1>2, <1>3, <1>4, <1>7 DEF ToldOfEnd, Completing, Publishes
  <2>2. QED
    BY <1>1, <1>4, <2>1 DEF ToldOfEnd, Completing
<1>13. NewsBounded(b)'
  <2>1. NewsLeft(b) \in Int /\ NewsLeft(b)' = NewsLeft(b) - 1
    <3>1. CASE report = b /\ report' = NoAction /\ owed' = owed
      BY <1>8, <3>1 DEF NewsLeft
    <3>2. CASE owed[b] # Nothing /\ owed'[b] = Nothing /\ report' = report
      BY <1>8, <3>2 DEF NewsLeft
    <3>3. QED
      BY <1>2, <3>1, <3>2 DEF Publishes
  <2>2. Len(notified[b]) + NewsLeft(b) <= 2
    BY <1>3 DEF NewsBounded
  <2>3. Len(notified'[b]) + NewsLeft(b)' <= 2
    BY <1>7, <2>1, <2>2
  <2>4. QED
    BY <2>3 DEF NewsBounded
<1>14. Told'
  <2>1. SUFFICES ASSUME NEW q \in Drives, NEW a \in Final(q)
                 PROVE  ToldToStart(q, a)' /\ ToldOfEnd(a)' /\ NewsBounded(a)'
    BY <1>1, SameDiagram DEF Told
  <2>2. ToldToStart(q, a) /\ ToldOfEnd(a) /\ NewsBounded(a) /\ a \in ActionIds
    BY <1>8 DEF DiagramInv, Told
  <2>3. ToldToStart(q, a)'
    BY <1>1, <2>2 DEF ToldToStart
  <2>4. CASE a = b
    BY <1>12, <1>13, <2>3, <2>4
  <2>5. CASE a # b
    <3>1. /\ notified'[a] = notified[a] /\ owed'[a] = owed[a]
          /\ (report' = a) = (report = a) /\ Completing(a)' = Completing(a)
      <4>1. a # NoAction
        BY <2>2, FinalActions DEF DiagramInv, Typed
      <4>2. notified'[a] = notified[a] /\ owed'[a] = owed[a]
        BY <1>2, <1>6, <2>2, <2>5 DEF Publishes
      <4>3. (report' = a) = (report = a) /\ Completing(a)' = Completing(a)
        BY <2>5, <4>1 DEF Publishes, Completing
      <4>4. QED
        BY <4>2, <4>3
    <3>2. QED
      BY <1>1, <2>2, <2>3, <3>1 DEF ToldOfEnd, NewsBounded, NewsLeft
  <2>6. QED
    BY <2>4, <2>5
<1>15. NoConflictInForce'
  BY <1>1, SameDiagram, FewerInForce DEF InForce, DiagramInv
<1>16. QED
  BY <1>10, <1>11, <1>14, <1>15 DEF DiagramInv

LEMMA PublishDoneStep ==
  ASSUME DiagramInv, PublishDone
  PROVE  DiagramInv'
<1>1. PICK r \in Drives : report \in Final(r)
  BY DEF DiagramInv, Reported, PublishDone
<1>2. report \in ActionIds
  BY <1>1, FinalActions DEF DiagramInv, Typed, Drives
<1>3. PICK said \in {"done", mEventStatus[report]} :
        notified' = [notified EXCEPT ![report] = Append(@, said)]
  BY DEF PublishDone
<1>4. Publishes(report, said)
  BY <1>3 DEF PublishDone, Publishes, phases, executor
<1>5. QED
  BY <1>1, <1>2, <1>4, PublishStep

LEMMA PublishEndStep ==
  ASSUME DiagramInv, NEW a \in ActionIds, PublishEnd(a)
  PROVE  DiagramInv'
<1>1. PICK r \in Drives : a \in Final(r)
  BY DEF DiagramInv, Reported, PublishEnd
<1>2. PICK said \in {owed[a], mEventStatus[a]} :
        notified' = [notified EXCEPT ![a] = Append(@, said)]
  BY DEF PublishEnd
<1>3. Publishes(a, said)
  BY <1>2 DEF PublishEnd, Publishes, phases, executor
<1>4. QED
  BY <1>1, <1>3, PublishStep

-----------------------------------------------------------------------------
(* A phase begins to run, goes on, or ends. *)

\* What becomes of the final actions of actors when a phase begins to run.
LEMMA OnRunEffect ==
  ASSUME DiagramInv, NEW p \in Phases, OnRun(p), ~ Throw("error")
  PROVE  /\ todo # << >> /\ mState[p] = "start" /\ mState' = [mState EXCEPT ![p] = "run"]
         /\ UNCHANGED <<diagram, mPhasesInProcess, stage, sending, report, written, published, notified>>
         /\ mPhasesToDispatch' = mPhasesToDispatch \cup (IF Kind(p) = "drive" THEN {p} ELSE {})
         /\ mEventStatus' \in [ActionIds -> Statuses] /\ owed' = Owed(mEventStatus')
         /\ Kind(p) = "drive" => mEventStatus' = Preempted(Rivals(p), mEventStatus)
         /\ Kind(p) # "drive" =>
              \A q \in Drives : \A a \in Final(q) : mEventStatus'[a] = mEventStatus[a]
         /\ todo' = todo \/ todo' = << >>
<1> DEFINE status == CASE Kind(p) = "drive"  -> Preempted(Rivals(p), mEventStatus)
                       [] Kind(p) = "system" -> DispatchFinalActions(p, mEventStatus)
                       [] OTHER -> mEventStatus
<1>1. /\ todo # << >> /\ mState[p] = "start" /\ mState' = [mState EXCEPT ![p] = "run"]
      /\ UNCHANGED <<diagram, mPhasesInProcess, stage, sending, report, written, published, notified>>
      /\ mPhasesToDispatch' = mPhasesToDispatch \cup (IF Kind(p) = "drive" THEN {p} ELSE {})
      /\ mEventStatus' = status /\ owed' = Owed(status)
      /\ todo' = todo \/ todo' = << >>
  BY DEF OnRun, First
<1>2. /\ Kind(p) = "drive" => status = Preempted(Rivals(p), mEventStatus)
      /\ Kind(p) = "system" => status = DispatchFinalActions(p, mEventStatus)
      /\ Kind(p) \notin {"drive", "system"} => status = mEventStatus
  OBVIOUS
<1> HIDE DEF status
<1>3. status \in [ActionIds -> Statuses]
  <2>1. mEventStatus \in [ActionIds -> Statuses]
    BY DEF DiagramInv, Typed
  <2>2. Preempted(Rivals(p), mEventStatus) \in [ActionIds -> Statuses]
    BY <2>1, StatusTypes
  <2>3. DispatchFinalActions(p, mEventStatus) \in [ActionIds -> Statuses]
    BY <2>1, StatusTypes
  <2>4. QED
    BY <1>2, <2>1, <2>2, <2>3
<1>4. ASSUME Kind(p) # "drive", NEW q \in Drives, NEW a \in Final(q)
      PROVE  status[a] = mEventStatus[a]
  <2>1. a \in ActionIds /\ a \notin Final(p)
    BY <1>4, FinalActions DEF DiagramInv, Typed, Drives
  <2>2. DispatchFinalActions(p, mEventStatus)[a] = mEventStatus[a]
    BY <2>1 DEF DispatchFinalActions
  <2>3. QED
    BY <1>2, <1>4, <2>2
<1>5. QED
  BY <1>1, <1>2, <1>3, <1>4

\* A new phase of an actor skips or interrupts every action that it conflicts with.
LEMMA RunsWithoutConflict ==
  ASSUME DiagramInv, NEW p \in Phases, Kind(p) = "drive", mState[p] = "start", diagram' = diagram,
         mEventStatus' = Preempted(Rivals(p), mEventStatus),
         mPhasesToDispatch' = mPhasesToDispatch \cup {p}
  PROVE  NoConflictInForce'
<1>1. p \in Drives /\ Drives \subseteq Phases /\ p \notin Listed
  BY DEF Drives, DiagramInv, ListedRun
<1>2. ASSUME NEW q \in Drives, q # p, NEW a \in InForce(q)'
      PROVE  a \in InForce(q) /\ a \in Final(q) /\ a \notin Rivals(p) /\ q \in Listed
  <2>1. /\ a \in Final(q)
        /\ \/ mEventStatus'[a] = "dispatched"
           \/ mEventStatus'[a] = "unspecified" /\ q \in mPhasesToDispatch
    BY <1>2, SameDiagram DEF InForce
  <2>2. a \in ActionIds
    BY <1>1, <2>1, FinalActions DEF DiagramInv, Typed
  <2>3. mEventStatus'[a] = mEventStatus[a] /\ a \notin Rivals(p)
    <3>1. mEventStatus'[a] \in {"unspecified", "dispatched"}
      BY <2>1
    <3>2. QED
      BY <2>2, <3>1, PreemptedStatus
  <2>4. mEventStatus[a] = "dispatched" => q \in Listed
    BY <2>1 DEF DiagramInv, Closed
  <2>5. QED
    BY <2>1, <2>3, <2>4 DEF InForce, Listed
<1>3. ASSUME NEW q \in Drives, q # p, diagram.phase[p].actor = diagram.phase[q].actor,
             NEW a \in InForce(q)', NEW b \in Final(p)
      PROVE  ~ InConflictWith(a, b)
  <2>1. a \in Final(q) /\ a \notin Rivals(p) /\ q \in Listed
    BY <1>2, <1>3
  <2>2. a \notin DetectConflict(q, p)
    BY <2>1 DEF Rivals, Listed
  <2>3. QED
    BY <1>3, <2>1, <2>2 DEF DetectConflict
<1>4. SUFFICES ASSUME NEW q \in Drives, NEW r \in Drives, q # r,
                      diagram.phase[q].actor = diagram.phase[r].actor,
                      NEW a \in InForce(q)', NEW b \in InForce(r)'
               PROVE  ~ InConflictWith(a, b)
  BY SameDiagram DEF NoConflictInForce, Drives
<1>5. a \in Final(q) /\ b \in Final(r)
  BY SameDiagram DEF InForce
<1>6. CASE r = p
  BY <1>3, <1>4, <1>5, <1>6
<1>7. CASE q = p
  <2>1. ~ InConflictWith(b, a)
    BY <1>3, <1>4, <1>5, <1>7
  <2>2. QED
    BY <2>1, ConflictSymmetric
<1>8. CASE q # p /\ r # p
  <2>1. a \in InForce(q) /\ b \in InForce(r)
    BY <1>2, <1>8
  <2>2. QED
    BY <1>4, <2>1 DEF DiagramInv, NoConflictInForce, Drives
<1>9. QED
  BY <1>6, <1>7, <1>8

LEMMA OnRunStep ==
  ASSUME DiagramInv, NEW p \in Phases, OnRun(p)
  PROVE  DiagramInv'
<1>1. CASE Throw("error")
  BY <1>1, ThrowStep
<1>2. CASE ~ Throw("error")
  <2>1. /\ todo # << >> /\ mState[p] = "start" /\ mState' = [mState EXCEPT ![p] = "run"]
        /\ UNCHANGED <<diagram, mPhasesInProcess, stage, sending, report, written, published, notified>>
        /\ mPhasesToDispatch' = mPhasesToDispatch \cup (IF Kind(p) = "drive" THEN {p} ELSE {})
        /\ mEventStatus' \in [ActionIds -> Statuses] /\ owed' = Owed(mEventStatus')
        /\ todo' = todo \/ todo' = << >>
    BY <1>2, OnRunEffect
  <2>2. /\ Kind(p) = "drive" => mEventStatus' = Preempted(Rivals(p), mEventStatus)
        /\ Kind(p) # "drive" =>
             \A q \in Drives : \A a \in Final(q) : mEventStatus'[a] = mEventStatus[a]
    BY <1>2, OnRunEffect
  <2>3. sending = NoPhase /\ stage \in {"start", "update"}
    BY <2>1, Updating
  <2>4. \A q \in Drives : \A a \in Final(q) : Closes(mEventStatus[a], mEventStatus'[a])
    <3>1. SUFFICES ASSUME Kind(p) = "drive", NEW q \in Drives, NEW a \in Final(q)
                   PROVE  Closes(mEventStatus[a], mEventStatus'[a])
      BY <2>2 DEF Closes
    <3>2. a \in ActionIds
      BY FinalActions DEF DiagramInv, Typed, Drives
    <3>3. QED
      BY <2>2, <3>1, <3>2, PreemptedStatus DEF Closes
  <2>5. owed' \in [ActionIds -> {Nothing, "interrupted", "done"}] /\ Told' /\ Sent' /\ Reported'
    BY <2>1, <2>3, <2>4, ClosingIsTold
  <2>6. p \notin Listed /\ \A q \in Phases : q # p => mState'[q] = mState[q]
    BY <2>1 DEF DiagramInv, ListedRun, Typed
  <2>7. mState' \in [Phases -> {"idle", "start", "run", "end"}] /\ mState'[p] = "run"
    BY <2>1 DEF DiagramInv, Typed
  <2>8. Typed'
    BY <2>1, <2>5, <2>7, SameDiagram DEF DiagramInv, Typed
  <2>9. Control'
    BY <2>1, <2>3 DEF Control
  <2>10. ListedRun'
    <3>1. SUFFICES ASSUME NEW q \in Listed'
                   PROVE  q \in Drives /\ mState'[q] = "run"
      BY <2>1, SameDiagram DEF ListedRun
    <3>2. q \in Listed \/ (q = p /\ Kind(p) = "drive")
      BY <2>1 DEF Listed
    <3>3. QED
      BY <2>6, <2>7, <3>2 DEF DiagramInv, ListedRun, Drives
  <2>11. Closed'
    <3>1. SUFFICES ASSUME NEW q \in Drives, NEW a \in Final(q)
                   PROVE  /\ mState'[q] = "end" => mEventStatus'[a] \in Terminal
                          /\ mEventStatus'[a] = "dispatched" => q \in Listed'
      BY <2>1, SameDiagram DEF Closed
    <3>2. /\ mState[q] = "end" => mEventStatus[a] \in Terminal
          /\ mEventStatus[a] = "dispatched" => q \in Listed
      BY DEF DiagramInv, Closed
    <3>3. Closes(mEventStatus[a], mEventStatus'[a])
      BY <2>4
    <3>4. mState'[q] = "end" => mState[q] = "end"
      BY <2>6, <2>7 DEF Drives
    <3>5. q \in Listed => q \in Listed'
      BY <2>1 DEF Listed
    <3>6. QED
      BY <3>2, <3>3, <3>4, <3>5 DEF Closes, Terminal
  <2>12. NoConflictInForce'
    <3>1. CASE Kind(p) = "drive"
      BY <2>1, <2>2, <3>1, RunsWithoutConflict
    <3>2. CASE Kind(p) # "drive"
      <4>1. \A q \in Drives : InForce(q)' \subseteq InForce(q)
        BY <2>1, <2>2, <3>2, SameDiagram DEF InForce
      <4>2. QED
        BY <2>1, <4>1, FewerInForce DEF DiagramInv
    <3>3. QED
      BY <3>1, <3>2
  <2>13. QED
    BY <2>5, <2>8, <2>9, <2>10, <2>11, <2>12 DEF DiagramInv
<1>3. QED
  BY <1>1, <1>2

LEMMA CompletedStatus ==
  ASSUME NEW S, NEW status, NEW a \in ActionIds
  PROVE  Completed(S, status)[a] = status[a]
         \/ (status[a] = "dispatched" /\ Completed(S, status)[a] = "done")
BY DEF Completed

LEMMA UpdatedStatus ==
  ASSUME DiagramInv, NEW p \in Phases
  PROVE  /\ StatusAfterUpdate(p) \in [ActionIds -> Statuses]
         /\ \A a \in ActionIds : \/ StatusAfterUpdate(p)[a] = mEventStatus[a]
                                 \/ /\ mEventStatus[a] = "dispatched"
                                    /\ StatusAfterUpdate(p)[a] = "done"
<1>1. ASSUME NEW S
      PROVE  Completed(S, mEventStatus) \in [ActionIds -> Statuses]
  <2>1. mEventStatus \in [ActionIds -> Statuses]
    BY DEF DiagramInv, Typed
  <2>2. QED
    BY <2>1, StatusTypes
<1>2. QED
  BY <1>1, CompletedStatus DEF StatusAfterUpdate

(***************************************************************************)
(* The phases of a set E end, none of them when E is empty; their final    *)
(* actions are closed, and the running ones among them leave the lists.    *)
(***************************************************************************)
EndsAll(E) ==
  /\ todo # << >>
  /\ UNCHANGED <<diagram, stage, sending, report, written, published, notified>>
  /\ mState' = [q \in Phases |-> IF q \in E THEN "end" ELSE mState[q]]
  /\ mPhasesToDispatch' = mPhasesToDispatch \ {q \in E : mState[q] = "run"}
  /\ mPhasesInProcess' = mPhasesInProcess \ {q \in E : mState[q] = "run"}
  /\ mEventStatus' \in [ActionIds -> Statuses] /\ owed' = Owed(mEventStatus')
  /\ \A q \in Drives : \A a \in Final(q) :
       /\ Closes(mEventStatus[a], mEventStatus'[a])
       /\ q \in E => mEventStatus'[a] \in Terminal

LEMMA EndsAllStep ==
  ASSUME DiagramInv, NEW E, EndsAll(E)
  PROVE  DiagramInv'
<1>1. /\ todo # << >>
      /\ UNCHANGED <<diagram, stage, sending, report, written, published, notified>>
      /\ mState' = [q \in Phases |-> IF q \in E THEN "end" ELSE mState[q]]
      /\ mPhasesToDispatch' = mPhasesToDispatch \ {q \in E : mState[q] = "run"}
      /\ mPhasesInProcess' = mPhasesInProcess \ {q \in E : mState[q] = "run"}
      /\ mEventStatus' \in [ActionIds -> Statuses] /\ owed' = Owed(mEventStatus')
  BY DEF EndsAll
<1>2. \A q \in Drives : \A a \in Final(q) : Closes(mEventStatus[a], mEventStatus'[a])
  BY DEF EndsAll
<1>3. \A q \in Drives : \A a \in Final(q) : q \in E => mEventStatus'[a] \in Terminal
  BY DEF EndsAll
<1>4. sending = NoPhase /\ stage \in {"start", "update"}
  BY <1>1, Updating
<1>5. owed' \in [ActionIds -> {Nothing, "interrupted", "done"}] /\ Told' /\ Sent' /\ Reported'
  BY <1>1, <1>2, <1>4, ClosingIsTold
<1>6. Drives \subseteq Phases
  BY DEF Drives
<1>7. Typed'
  BY <1>1, <1>5, SameDiagram DEF DiagramInv, Typed
<1>8. Control'
  BY <1>1, <1>4 DEF Control
<1>9. \A q \in Listed' : q \in Listed /\ q \in Drives /\ q \notin E
  BY <1>1 DEF Listed, DiagramInv, ListedRun
<1>10. ListedRun'
  <2>1. SUFFICES ASSUME NEW q \in Listed'
                 PROVE  q \in Drives /\ mState'[q] = "run"
    BY <1>1, SameDiagram DEF ListedRun
  <2>2. q \in Listed /\ q \in Drives /\ q \notin E /\ mState[q] = "run"
    BY <1>9 DEF DiagramInv, ListedRun
  <2>3. QED
    BY <1>1, <1>6, <2>2
<1>11. Closed'
  <2>1. SUFFICES ASSUME NEW q \in Drives, NEW a \in Final(q)
                 PROVE  /\ mState'[q] = "end" => mEventStatus'[a] \in Terminal
                        /\ mEventStatus'[a] = "dispatched" => q \in Listed'
    BY <1>1, SameDiagram DEF Closed
  <2>2. /\ mState[q] = "end" => mEventStatus[a] \in Terminal
        /\ mEventStatus[a] = "dispatched" => q \in Listed
    BY DEF DiagramInv, Closed
  <2>3. Closes(mEventStatus[a], mEventStatus'[a])
    BY <1>2
  <2>4. CASE q \in E
    BY <1>3, <2>4 DEF Terminal
  <2>5. CASE q \notin E
    BY <1>1, <1>6, <2>2, <2>3, <2>5 DEF Closes, Terminal, Listed
  <2>6. QED
    BY <2>4, <2>5
<1>12. NoConflictInForce'
  <2>1. SUFFICES ASSUME NEW q \in Drives, NEW a \in Final(q), a \in InForce(q)'
                 PROVE  a \in InForce(q)
    BY <1>1, SameDiagram, FewerInForce DEF InForce, DiagramInv
  <2>2. \/ mEventStatus'[a] = "dispatched"
        \/ mEventStatus'[a] = "unspecified" /\ q \in mPhasesToDispatch
    BY <1>1, <2>1 DEF InForce
  <2>3. Closes(mEventStatus[a], mEventStatus'[a])
    BY <1>2
  <2>4. QED
    BY <2>2, <2>3 DEF InForce, Closes
<1>13. QED
  BY <1>5, <1>7, <1>8, <1>10, <1>11, <1>12 DEF DiagramInv

LEMMA KeepRunningStep ==
  ASSUME DiagramInv, NEW p \in Phases, KeepRunning(p)
  PROVE  DiagramInv'
<1>1. /\ UNCHANGED <<diagram, mState, mPhasesToDispatch, mPhasesInProcess, stage, sending, report,
                     written, published, notified>>
      /\ todo # << >> /\ mEventStatus' = StatusAfterUpdate(p) /\ owed' = Owed(mEventStatus')
  BY DEF KeepRunning, First, phases, executor, simulation
<1>2. mState' = [q \in Phases |-> IF q \in {} THEN "end" ELSE mState[q]]
  BY <1>1 DEF DiagramInv, Typed
<1>3. \A q \in Drives : \A a \in Final(q) : Closes(mEventStatus[a], mEventStatus'[a])
  <2>1. SUFFICES ASSUME NEW q \in Drives, NEW a \in Final(q)
                 PROVE  Closes(mEventStatus[a], mEventStatus'[a])
    OBVIOUS
  <2>2. a \in ActionIds
    BY FinalActions DEF DiagramInv, Typed, Drives
  <2>3. QED
    BY <1>1, <2>2, UpdatedStatus DEF Closes
<1>4. mEventStatus' \in [ActionIds -> Statuses]
  BY <1>1, UpdatedStatus
<1>5. EndsAll({})
  BY <1>1, <1>2, <1>3, <1>4 DEF EndsAll
<1>6. QED
  BY <1>5, EndsAllStep

LEMMA OnEndStep ==
  ASSUME DiagramInv, NEW p \in Phases, OnEnd(p)
  PROVE  DiagramInv'
<1>1. CASE Throw("error")
  BY <1>1, ThrowStep
<1>2. CASE ~ Throw("error")
  <2> DEFINE E == EndingWith(p)
             S == UNION {Final(q) : q \in {q \in E : IsActionPhase(q) /\ mState[q] # "end"}}
             status == StatusAfterUpdate(p)
  <2>1. /\ todo # << >>
        /\ UNCHANGED <<diagram, stage, sending, report, written, published, notified>>
        /\ mState' = [q \in Phases |-> IF q \in E THEN "end" ELSE mState[q]]
        /\ mPhasesToDispatch' = mPhasesToDispatch \ {q \in E : mState[q] = "run"}
        /\ mPhasesInProcess' = InProcessAfter(E)
        /\ mEventStatus' = Preempted(S, status) /\ owed' = Owed(mEventStatus')
    BY <1>2 DEF OnEnd, First
  <2>2. mPhasesInProcess' = mPhasesInProcess \ {q \in E : mState[q] = "run"}
    BY <2>1 DEF InProcessAfter
  <2> HIDE DEF E, status
  <2>3. /\ status \in [ActionIds -> Statuses]
        /\ \A a \in ActionIds : \/ status[a] = mEventStatus[a]
                                \/ mEventStatus[a] = "dispatched" /\ status[a] = "done"
    BY UpdatedStatus DEF status
  <2>4. ASSUME NEW q \in E, q \in Drives, mState[q] # "end"
        PROVE  Final(q) \subseteq S
    BY <2>4 DEF Drives, IsActionPhase
  <2> HIDE DEF S
  <2>5. mEventStatus' \in [ActionIds -> Statuses]
    BY <2>1, <2>3, StatusTypes
  <2>6. ASSUME NEW q \in Drives, NEW a \in Final(q)
        PROVE  /\ Closes(mEventStatus[a], mEventStatus'[a])
               /\ q \in E => mEventStatus'[a] \in Terminal
    <3>1. a \in ActionIds
      BY FinalActions DEF DiagramInv, Typed, Drives
    <3>2. /\ \/ status[a] = mEventStatus[a]
             \/ mEventStatus[a] = "dispatched" /\ status[a] = "done"
          /\ status[a] \in Statuses
      BY <2>3, <3>1
    <3>3. /\ a \notin S => mEventStatus'[a] = status[a]
          /\ a \in S /\ status[a] = "unspecified" => mEventStatus'[a] = "skipped"
          /\ a \in S /\ status[a] = "dispatched" => mEventStatus'[a] = "interrupted"
          /\ a \in S /\ status[a] \notin {"unspecified", "dispatched"}
               => mEventStatus'[a] = status[a]
      BY <2>1, <3>1, PreemptedStatus
    <3>4. Closes(mEventStatus[a], mEventStatus'[a])
      BY <3>2, <3>3 DEF Closes
    <3>5. q \in E /\ mState[q] # "end" => a \in S
      BY <2>4, <2>6
    <3>6. mState[q] = "end" => mEventStatus[a] \in Terminal
      BY DEF DiagramInv, Closed
    <3>7. QED
      BY <3>2, <3>3, <3>4, <3>5, <3>6 DEF Closes, Statuses, Terminal
  <2>7. EndsAll(E)
    BY <2>1, <2>2, <2>5, <2>6 DEF EndsAll
  <2>8. QED
    BY <2>7, EndsAllStep
<1>3. QED
  BY <1>1, <1>2

-----------------------------------------------------------------------------
LEMMA NoNewsYet ==
  ASSUME NEW a, notified[a] = << >>, owed[a] = Nothing, a # report
  PROVE  NewsBounded(a)
<1>1. NewsLeft(a) = 0 /\ Len(<< >>) = 0
  BY DEF NewsLeft
<1>2. QED
  BY <1>1 DEF NewsBounded

LEMMA DiagramInvInit == Init => DiagramInv
<1> SUFFICES ASSUME Init PROVE DiagramInv
  OBVIOUS
<1>1. << >> \in Seq(Statuses) /\ "unspecified" \in Statuses
  BY DEF Statuses
<1> USE DEF Init
<1>2. Typed
  BY <1>1 DEF Typed
<1>3. \A q \in Drives : \A a \in Final(q) :
        /\ a \in ActionIds /\ q \in Phases /\ mState[q] = "idle"
        /\ mEventStatus[a] = "unspecified" /\ notified[a] = << >>
        /\ owed[a] = Nothing /\ a # report
  BY <1>2, FinalActions DEF Typed, Drives
<1>4. \A q \in Drives : InForce(q) = {}
  BY <1>3 DEF InForce
<1>5. Control /\ ListedRun /\ Closed /\ Sent /\ Reported
  BY <1>3 DEF Control, ListedRun, Listed, Closed, Sent, Reported
<1>6. Told
  <2>1. SUFFICES ASSUME NEW q \in Drives, NEW a \in Final(q)
                 PROVE  ToldToStart(q, a) /\ ToldOfEnd(a) /\ NewsBounded(a)
    BY DEF Told
  <2>2. mEventStatus[a] = "unspecified" /\ notified[a] = << >> /\ owed[a] = Nothing /\ a # report
    BY <1>3
  <2>3. ToldToStart(q, a) /\ ToldOfEnd(a)
    BY <2>2 DEF ToldToStart, ToldOfEnd, Completing
  <2>4. QED
    BY <2>2, <2>3, NoNewsYet
<1>7. NoConflictInForce
  BY <1>4 DEF NoConflictInForce, Drives
<1>8. QED
  BY <1>2, <1>5, <1>6, <1>7 DEF DiagramInv

LEMMA DiagramInvStep == DiagramInv /\ [Next]_vars => DiagramInv'
<1> SUFFICES ASSUME DiagramInv, [Next]_vars PROVE DiagramInv'
  OBVIOUS
<1>1. CASE \E p \in Phases : UpdatePhase(p)
  <2>1. PICK p \in Phases : UpdatePhase(p)
    BY <1>1
  <2>2. CASE OnStart(p)
    BY <2>2, OnStartStep
  <2>3. CASE OnRun(p)
    BY <2>3, OnRunStep
  <2>4. CASE KeepRunning(p)
    BY <2>4, KeepRunningStep
  <2>5. CASE OnEnd(p)
    BY <2>5, OnEndStep
  <2>6. CASE \/ KeepWaiting(p) \/ UpdateEnded(p) \/ OrderChildren(p) \/ UpdateMix(p)
             \/ UpdateSerial(p) \/ UpdateActionPhase(p) \/ Join(p) \/ SkipFirstUpdate(p)
    BY <2>6, QuietUpdates
  <2>7. QED
    BY <2>1, <2>2, <2>3, <2>4, <2>5, <2>6 DEF UpdatePhase
<1>2. CASE \E p \in Phases : Dispatch(p)
  <2>1. PICK p \in Phases : Dispatch(p)
    BY <1>2
  <2>2. CASE PassOver(p)
    BY <2>2, PassOverStep
  <2>3. CASE PublishActions(p)
    BY <2>3, PublishActionsStep
  <2>4. CASE PutInProcess(p)
    BY <2>4, PutInProcessStep
  <2>5. CASE NotifyActionEventDispatched(p)
    BY <2>5, DispatchedStep
  <2>6. QED
    BY <2>1, <2>2, <2>3, <2>4, <2>5 DEF Dispatch
<1>3. CASE BeginStart \/ BeginUpdate \/ RepeatUpdate \/ BeginDispatch \/ EndDispatch
  BY <1>3, EventSteps
<1>4. CASE Client
  <2>1. CASE WriteDone
    BY <2>1, WriteDoneStep
  <2>2. CASE PublishDone
    BY <2>2, PublishDoneStep
  <2>3. CASE \E a \in ActionIds : ReportComplete(a)
    BY <2>3, ReportCompleteStep
  <2>4. QED
    BY <1>4, <2>1, <2>2, <2>3 DEF Client, Complete
<1>5. CASE \E a \in ActionIds : PublishEnd(a)
  BY <1>5, PublishEndStep
<1>6. CASE UNCHANGED vars
  <2>1. Quiet /\ Control'
    BY <1>6 DEF vars, phases, executor, Quiet, DiagramInv, Typed, Control
  <2>2. QED
    BY <2>1, QuietStep
<1>7. QED
  BY <1>1, <1>2, <1>3, <1>4, <1>5, <1>6 DEF Next, ProcessEvent

(***************************************************************************)
(* The invariant holds in every scenario: an action of an actor is         *)
(* dispatched only while its running phase is in the executor's lists, and *)
(* one that has been published is dispatched or belongs to the phase that  *)
(* the thread is sending (PhaseDiagramExecutor.cpp).                       *)
(***************************************************************************)
THEOREM DiagramInvariant == Spec => []DiagramInv
BY DiagramInvInit, DiagramInvStep, PTL DEF Spec

(***************************************************************************)
(* In every scenario, whatever its phases, and with clients completing     *)
(* actions at any moment, an ended phase of an actor is in no list of the  *)
(* executor and all its actions are closed (ActorActionPhase::OnEnd).      *)
(***************************************************************************)
THEOREM EndedPhasesStayClosed == Spec => []EndedPhasesAreClosed
<1>1. DiagramInv => EndedPhasesAreClosed
  <2>1. SUFFICES ASSUME DiagramInv, NEW p \in Drives, mState[p] = "end"
                 PROVE  /\ p \notin Listed
                        /\ \A a \in Final(p) : mEventStatus[a] \in Terminal
    BY DEF EndedPhasesAreClosed, Drives, Listed
  <2>2. p \notin Listed
    BY <2>1 DEF DiagramInv, ListedRun
  <2>3. \A a \in Final(p) : mEventStatus[a] \in Terminal
    BY <2>1 DEF DiagramInv, Closed
  <2>4. QED
    BY <2>2, <2>3
<1>2. QED
  BY <1>1, DiagramInvariant, PTL

(***************************************************************************)
(* In every scenario, two actions that control the same thing of one actor *)
(* are never both in force (ActorActionPhase::DetectAndResolveConflict).   *)
(***************************************************************************)
THEOREM ConflictsAreResolved == Spec => []NoConflictInForce
<1>1. DiagramInv => NoConflictInForce
  BY DEF DiagramInv
<1>2. QED
  BY <1>1, DiagramInvariant, PTL

(***************************************************************************)
(* In every scenario, clients hear of the end of exactly those actions of  *)
(* actors that they have been told to execute.  Whatever the order in      *)
(* which the two threads write and publish, how an action has ended is     *)
(* among at most two news once no publication is outstanding               *)
(* (Action::Preempt, Action::Complete).                                    *)
(***************************************************************************)
THEOREM ClientsAlwaysHearOfEnds == Spec => []ClientsHearOfEnds
<1>1. DiagramInv => ClientsHearOfEnds
  <2>1. SUFFICES ASSUME DiagramInv, NEW q \in Drives, NEW a \in Final(q)
                 PROVE
                 /\ mEventStatus[a] = "skipped" => a \notin published
                 /\ notified[a] # << >> => mEventStatus[a] \in {"interrupted", "done"}
                 /\ mEventStatus[a] \in {"interrupted", "done"} =>
                      /\ a \in published
                      /\ PublicationPending(a) \/ mEventStatus[a] \in ToSet(notified[a])
                 /\ Len(notified[a]) <= 2
    BY DEF ClientsHearOfEnds, IsActorAction, Drives
  <2>2. ToldToStart(q, a) /\ ToldOfEnd(a) /\ NewsBounded(a)
    BY <2>1 DEF DiagramInv, Told
  <2>3. Len(notified[a]) \in Nat
    BY <2>1, FinalActions DEF DiagramInv, Typed, Drives
  <2>4. Len(notified[a]) <= 2
    <3>1. NewsLeft(a) \in Nat
      BY DEF NewsLeft
    <3>2. QED
      BY <2>2, <2>3, <3>1 DEF NewsBounded
  <2>5. /\ mEventStatus[a] = "skipped" => a \notin published
        /\ notified[a] # << >> => mEventStatus[a] \in {"interrupted", "done"}
        /\ mEventStatus[a] \in {"interrupted", "done"} =>
             /\ a \in published
             /\ PublicationPending(a) \/ mEventStatus[a] \in ToSet(notified[a])
    BY <2>2 DEF ToldToStart, ToldOfEnd, Completing, PublicationPending, Nothing
  <2>6. QED
    BY <2>4, <2>5
<1>2. QED
  BY <1>1, DiagramInvariant, PTL
=============================================================================
