----------------------------- MODULE Conditions -----------------------------
(***************************************************************************)
(* How the conditions of a scenario are applied, checked and reported      *)
(* (Condition.h, Condition.cpp).  A scenario holds its conditions in a     *)
(* function from their ids to records whose field "kind" tells the class;  *)
(* a composite condition names its operands by their ids.  What a check    *)
(* reads is a record w of the world: the actors created so far, their      *)
(* speeds and positions on a line, the states of the phases, the events of *)
(* this step, and what conditions have sampled when they were applied.     *)
(*                                                                         *)
(* A check answers "yes" or "no", or "error" when the code throws.         *)
(***************************************************************************)
EXTENDS Integers, Sequences, FiniteSets, SequencesExt

CONSTANT Tolerance   \* the tolerance of the comparisons, in the unit of times, speeds and distances

ASSUME ToleranceAssumption == Tolerance \in Nat

Truth(b) == IF b THEN "yes" ELSE "no"

Distance(x, y) == IF x < y THEN y - x ELSE x - y

EpsilonEqual(x, y) == Distance(x, y) < Tolerance

-----------------------------------------------------------------------------
(* Comparisons. *)

DistanceHolds(rule, distance, threshold) ==
  CASE rule = "greaterThan" -> distance >= threshold - Tolerance
    [] rule = "lessThan"    -> distance <= threshold + Tolerance
    [] rule = "equalTo"     -> EpsilonEqual(distance, threshold)

\* ActorSpeedCondition compares against a range of speeds.
SpeedHolds(rule, pivot, min, max) ==
  CASE rule = "greaterOrEqual" -> pivot >= max - Tolerance
    [] rule = "greaterThan"    -> pivot > max + Tolerance
    [] rule = "lessOrEqual"    -> pivot <= min + Tolerance
    [] rule = "lessThan"       -> pivot < min - Tolerance
    [] rule = "notEqualTo"     -> pivot < min - Tolerance \/ pivot > max + Tolerance
    [] rule = "equalTo"        -> pivot >= min - Tolerance /\ pivot <= max + Tolerance

\* CompareValues is exact, for integers and Booleans; EpsilonCompareValues is for doubles.
CompareValues(rule, x, y) ==
  CASE rule = "equalTo"        -> x = y
    [] rule = "greaterOrEqual" -> x >= y
    [] rule = "greaterThan"    -> x > y
    [] rule = "lessOrEqual"    -> x <= y
    [] rule = "lessThan"       -> x < y
    [] rule = "notEqualTo"     -> x # y

EpsilonCompareValues(rule, x, y) ==
  CASE rule = "equalTo"        -> EpsilonEqual(x, y)
    [] rule = "greaterOrEqual" -> x >= y - Tolerance
    [] rule = "greaterThan"    -> x > y - Tolerance
    [] rule = "lessOrEqual"    -> x <= y + Tolerance
    [] rule = "lessThan"       -> x < y + Tolerance
    [] rule = "notEqualTo"     -> ~ EpsilonEqual(x, y)

(***************************************************************************)
(* A parameter has a declared type and a value; what it is compared with   *)
(* is always text, which can be converted or not: text |-> "number",       *)
(* "boolean" (0 or 1) or "words".                                          *)
(***************************************************************************)
CompareString(rule, x, y) ==
  CASE {x.text, y.text} = {"number"}  -> Truth(EpsilonCompareValues(rule, x.value, y.value))
    [] {x.text, y.text} = {"boolean"} -> Truth(CompareValues(rule, x.value, y.value))
    [] OTHER -> IF rule \in {"equalTo", "notEqualTo"}
                THEN Truth((x = y) <=> (rule = "equalTo"))
                ELSE "error"

CompareParameter(rule, x, y) ==
  CASE x.type = "string" -> CompareString(rule, [text |-> x.text, value |-> x.value], y)
    [] x.type = "double" /\ x.text = y.text ->
         Truth(EpsilonCompareValues(rule, x.value, y.value))
    [] x.type \in {"integer", "boolean"} /\ x.text = y.text ->
         Truth(CompareValues(rule, x.value, y.value))
    [] OTHER -> "error"

(* Every parameter that was found satisfies its expression; the others do not count. *)
CompareFound(found, expressions) ==
  LET answers == {CompareParameter(expressions[n].rule, found[n], expressions[n].value) :
                    n \in DOMAIN found \cap DOMAIN expressions}
  IN  IF "error" \in answers THEN "error" ELSE Truth("no" \notin answers)

\* The parameters of a Simulink behavior must be strings.
CompareBehaviorParameterForSimulinkAgent(found, expressions) ==
  IF \E n \in DOMAIN found \cap DOMAIN expressions : found[n].type # "string"
  THEN "error" ELSE CompareFound(found, expressions)

-----------------------------------------------------------------------------
IsParentOrAncestor(parent, a, b) ==
  LET above[x \in DOMAIN parent] ==
        IF parent[x] \in DOMAIN parent THEN {parent[x]} \cup above[parent[x]] ELSE {}
  IN  a \in above[b]

(***************************************************************************)
(* The pairs of actors, one of each group, that touch.  A group without    *)
(* members stands for all actors.  CollisionCondition::Check examines two  *)
(* actors that both groups contain one way round only, as a set does.      *)
(***************************************************************************)
Collisions(c, w) ==
  LET group1 == IF c.actors = {} THEN w.actors ELSE c.actors
      group2 == IF c.refs = {} THEN w.actors ELSE c.refs
      Touch(a, b) == /\ a # b
                     /\ ~ IsParentOrAncestor(w.parent, a, b) /\ ~ IsParentOrAncestor(w.parent, b, a)
                     /\ w.position[a] = w.position[b]
  IN  UNION {{{a, b} : b \in {b \in group2 : Touch(a, b)}} : a \in group1}

-----------------------------------------------------------------------------
(* Singular conditions. *)

IsRelative(c) == c.comparison # "absolute"

SamplesAtStart(c) == c.kind = "speed" /\ c.sampling = "start" /\ IsRelative(c)

\* FindActor throws when an actor does not exist.
IfPresent(w, actors, answer) == IF actors \subseteq w.actors THEN answer ELSE "error"

SpeedPivot(c, own, ref) ==
  CASE c.comparison = "absolute"                   -> own
    [] c.comparison \in {"sameAs", "fasterThan"} -> own - ref
    [] c.comparison = "slowerThan"                 -> ref - own

\* The target of "same as" is a difference of zero, whatever the data model says.
Least(c) == IF c.comparison = "sameAs" THEN 0 ELSE c.min
Most(c) == IF c.comparison = "sameAs" THEN 0 ELSE c.max

CheckSpeed(id, c, w) ==
  LET continuous == c.sampling = "continuous" /\ IsRelative(c)
      ref == IF continuous THEN w.speed[c.ref] ELSE w.sample[id]
  IN  IfPresent(w, {c.actor} \cup (IF continuous THEN {c.ref} ELSE {}),
        Truth(SpeedHolds(c.rule, SpeedPivot(c, w.speed[c.actor], ref), Least(c), Most(c))))

\* The events of this step are compared in order, up to the first that satisfies or throws.
CheckCustomEvent(c, w) ==
  LET answer(i) == CompareFound(w.events[i].parameters, c.expressions)
      deciding == {i \in DOMAIN w.events : w.events[i].name = c.event /\ answer(i) # "no"}
  IN  IF deciding = {} THEN "no" ELSE answer(Min(deciding))

\* The parameter is one of the actor itself or one of its behavior.
CheckParameter(c, w) ==
  IfPresent(w, {c.actor},
    LET found == w.parameters[c.scope][c.actor]
    IN  IF ~ DOMAIN c.expressions \subseteq DOMAIN found THEN "no"
        ELSE IF c.scope = "behavior" /\ c.actor \in w.simulink
             THEN CompareBehaviorParameterForSimulinkAgent(found, c.expressions)
             ELSE CompareFound(found, c.expressions))

CheckPhaseState(c, w) == Truth(w.phases[c.phase] = c.state)
CheckActionsComplete(c, w) == Truth(c.phase \in w.completed)
CheckDuration(id, c, w) == Truth(w.now - w.sample[id] >= c.duration - Tolerance)
CheckSimulationTime(c, w) == Truth(w.now >= c.due - Tolerance)

CheckToPoint(c, w) ==
  IfPresent(w, {c.actor},
    Truth(DistanceHolds(c.rule, Distance(w.position[c.actor], c.point), c.threshold)))

CheckToActor(c, w) ==
  IfPresent(w, {c.actor, c.ref},
    Truth(DistanceHolds(c.rule, Distance(w.position[c.actor], w.position[c.ref]), c.threshold)))

\* The map service is commented out: these three answer the same for all actors.
CheckLongitudinal(c, w) == IfPresent(w, {c.actor, c.ref}, "no")
CheckLane(c, w) == IfPresent(w, {c.actor}, "yes")
CheckLateralOffset(c, w) == IfPresent(w, {c.actor}, "no")

CheckCollision(c, w) == IfPresent(w, c.actors \cup c.refs, Truth(Collisions(c, w) # {}))

\* Each kind of condition has a class of its own.
SingularCheck(id, c, w) ==
  CASE c.kind = "phaseState"      -> CheckPhaseState(c, w)
    [] c.kind = "actionsComplete" -> CheckActionsComplete(c, w)
    [] c.kind = "duration"        -> CheckDuration(id, c, w)
    [] c.kind = "simulationTime"  -> CheckSimulationTime(c, w)
    [] c.kind = "speed"           -> CheckSpeed(id, c, w)
    [] c.kind = "toPoint"         -> CheckToPoint(c, w)
    [] c.kind = "toActor"         -> CheckToActor(c, w)
    [] c.kind = "longitudinal"    -> CheckLongitudinal(c, w)
    [] c.kind = "collision"       -> CheckCollision(c, w)
    [] c.kind = "lane"            -> CheckLane(c, w)
    [] c.kind = "lateralOffset"   -> CheckLateralOffset(c, w)
    [] c.kind = "event"           -> CheckCustomEvent(c, w)
    [] c.kind = "parameter"       -> CheckParameter(c, w)

-----------------------------------------------------------------------------
(* Composite conditions. *)

IsComposite(c) == c.kind \in {"or", "and"}

Operands(c) == IF IsComposite(c) THEN ToSet(c.operands) ELSE {}

\* The conditions that are no operands of others.
Whole(conditions) ==
  DOMAIN conditions \ UNION {Operands(conditions[c]) : c \in DOMAIN conditions}

(***************************************************************************)
(* Each operand is created by the composite condition that holds it in the *)
(* data model; CreateCondition throws for a condition of another kind, and *)
(* CompositeCondition for one without operands.                            *)
(***************************************************************************)
AreTrees(conditions) ==
  LET ids == DOMAIN conditions
  IN  /\ \A id \in ids :
           LET c == conditions[id]
           IN  /\ c.kind \in {"or", "and"} \cup
                   {"phaseState", "actionsComplete", "duration", "simulationTime", "speed",
                    "toPoint", "toActor", "longitudinal", "collision", "lane", "lateralOffset",
                    "event", "parameter"}
               /\ IsComposite(c) => c.operands \in Seq(ids) \ {<< >>}
               /\ \A other \in ids \ {id} : Operands(c) \cap Operands(conditions[other]) = {}
      /\ \A S \in SUBSET ids : S # {} => \E id \in S : Operands(conditions[id]) \cap S = {}

\* Mutant: every operand is evaluated, the last one decides.
Deciding_Last(c, answer) == Len(c.operands)

\* The first operand whose answer decides the condition, or the last one.
Deciding(c, answer) ==
  LET Decides(i) == answer[c.operands[i]] \in {"error", IF c.kind = "or" THEN "yes" ELSE "no"}
  IN  CHOOSE i \in DOMAIN c.operands :
        (i = Len(c.operands) \/ Decides(i)) /\ \A j \in 1 .. i - 1 : ~ Decides(j)

Answers(conditions, w) ==
  LET answer[id \in DOMAIN conditions] ==
        LET c == conditions[id]
        IN  IF IsComposite(c) THEN answer[c.operands[Deciding(c, answer)]]
            ELSE SingularCheck(id, c, w)
  IN  answer

Check(conditions, id, w) == Answers(conditions, w)[id]

\* Operands behind the deciding one are left alone.
OperandsAsked(c, answer) ==
  IF IsComposite(c) THEN {c.operands[k] : k \in 1 .. Deciding(c, answer)} ELSE {}

\* What a check of a condition evaluates.
Evaluated(conditions, id, w) ==
  LET answer == Answers(conditions, w)
      below[i \in DOMAIN conditions] ==
        {i} \cup UNION {below[j] : j \in OperandsAsked(conditions[i], answer)}
  IN  below[id]

(***************************************************************************)
(* The states after some conditions have been checked.  A composite one's  *)
(* is that of its last evaluated operand; no answer depends on a state.    *)
(***************************************************************************)
StatesAfterChecks(conditions, ids, w, states) ==
  LET answer == Answers(conditions, w)
      evaluated == UNION {Evaluated(conditions, id, w) : id \in ids}
  IN  [i \in DOMAIN states |->
         IF i \in evaluated /\ answer[i] # "error" THEN answer[i] ELSE states[i]]

(***************************************************************************)
(* GetSummary names what has satisfied a condition.  It throws when the    *)
(* state of a composite condition and those of its operands disagree.      *)
(***************************************************************************)
AndAgrees(c, states) ==
  c.kind = "and" => \A j \in ToSet(c.operands) : states[j] = "yes"

CanSummarize(conditions, id, states) ==
  LET can[i \in DOMAIN conditions] ==
        LET c == conditions[i]
            satisfied == SelectSeq(c.operands, LAMBDA j : states[j] = "yes")
        IN  IsComposite(c) /\ states[i] = "yes" =>
              /\ AndAgrees(c, states)
              /\ c.kind = "or" => satisfied # << >> /\ can[Head(satisfied)]
  IN  can[id]

Leaves(conditions, id) ==
  LET leaves[i \in DOMAIN conditions] ==
        IF IsComposite(conditions[i])
        THEN UNION {leaves[j] : j \in Operands(conditions[i])}
        ELSE {i}
  IN  leaves[id]

\* A duration starts its timer, a speed condition may sample its reference.
SamplesAfterApply(conditions, ids, w) ==
  LET applied == UNION {Leaves(conditions, id) : id \in ids}
  IN  [i \in DOMAIN conditions |->
         LET c == conditions[i]
         IN  CASE i \in applied /\ c.kind = "duration" -> w.now
               [] i \in applied /\ SamplesAtStart(c) -> w.speed[c.ref]
               [] OTHER -> w.sample[i]]

CanApply(conditions, id, w) ==
  \A i \in Leaves(conditions, id) :
    SamplesAtStart(conditions[i]) => conditions[i].ref \in w.actors

\* The speed that an initial speed condition gives to a new actor.
EnforcedSpeed(c, w) ==
  LET middle == (Least(c) + Most(c)) \div 2
  IN  CASE c.comparison = "absolute" -> middle
        [] c.comparison \in {"sameAs", "fasterThan"} -> w.speed[c.ref] + middle
        [] c.comparison = "slowerThan" -> w.speed[c.ref] - middle

-----------------------------------------------------------------------------
(* The actors that a condition depends on; one on a parameter does not name its actor. *)

DependencyOf(c) ==
  CASE c.kind = "speed" -> {c.actor} \cup (IF IsRelative(c) THEN {c.ref} ELSE {})
    [] c.kind \in {"toPoint", "lateralOffset"} -> {c.actor}
    [] c.kind \in {"toActor", "longitudinal", "lane"} -> {c.actor, c.ref}
    [] c.kind = "collision" -> c.actors \cup c.refs
    [] OTHER -> {}

AddDependency(conditions, id) ==
  UNION {DependencyOf(conditions[i]) : i \in Leaves(conditions, id)}

AddDependencyOfApply(conditions, id) ==
  {conditions[i].ref : i \in {i \in Leaves(conditions, id) : SamplesAtStart(conditions[i])}}
=============================================================================
