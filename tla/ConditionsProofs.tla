-------------------------- MODULE ConditionsProofs --------------------------
(***************************************************************************)
(* Theorems about the operators of Conditions, for every forest of         *)
(* conditions and every world that a check may read.                       *)
(***************************************************************************)
EXTENDS Conditions, WellFoundedInduction, TLAPS

-----------------------------------------------------------------------------
(* What is reached from a place of D along a relation that leads nowhere forever. *)

WellFounded(D, R) == \A S \in SUBSET D : S # {} => \E x \in S : R[x] \cap S = {}
ClosedUnder(R, S) == \A x \in S : R[x] \subseteq S
Reached(D, R, x) == {y \in D : \A S \in SUBSET D : x \in S /\ ClosedUnder(R, S) => y \in S}
ReachedFrom(R, f, x) == {x} \cup UNION {f[y] : y \in R[x]}

LEMMA ReachedFacts ==
  ASSUME NEW D, NEW R \in [D -> SUBSET D], NEW x \in D
  PROVE  /\ x \in Reached(D, R, x) /\ Reached(D, R, x) \subseteq D
         /\ ClosedUnder(R, Reached(D, R, x))
         /\ \A S \in SUBSET D : x \in S /\ ClosedUnder(R, S) => Reached(D, R, x) \subseteq S
         /\ \A y \in Reached(D, R, x) : Reached(D, R, y) \subseteq Reached(D, R, x)
         /\ \A y \in Reached(D, R, x) : y # x => \E z \in Reached(D, R, x) : y \in R[z]
<1> DEFINE T == Reached(D, R, x)
<1>1. x \in T /\ T \subseteq D
  BY DEF Reached
<1>2. \A S \in SUBSET D : x \in S /\ ClosedUnder(R, S) => T \subseteq S
  BY DEF Reached
<1>3. ClosedUnder(R, T)
  <2>1. SUFFICES ASSUME NEW y \in T, NEW z \in R[y] PROVE z \in T
    BY DEF ClosedUnder
  <2>2. y \in D /\ z \in D
    BY DEF Reached
  <2>3. ASSUME NEW S \in SUBSET D, x \in S, ClosedUnder(R, S) PROVE z \in S
    <3>1. y \in S
      BY <1>2, <2>3
    <3>2. QED
      BY <2>3, <3>1 DEF ClosedUnder
  <2>4. QED
    BY <2>2, <2>3 DEF Reached
<1> HIDE DEF T
<1>4. ASSUME NEW y \in T PROVE Reached(D, R, y) \subseteq T
  BY <1>1, <1>3, <1>4 DEF Reached
<1>5. ASSUME NEW y \in T, y # x PROVE \E z \in T : y \in R[z]
  <2>1. SUFFICES ASSUME \A z \in T : y \notin R[z] PROVE FALSE
    OBVIOUS
  <2>2. T \ {y} \in SUBSET D /\ x \in T \ {y}
    BY <1>1, <1>5
  <2>3. ClosedUnder(R, T \ {y})
    BY <1>3, <2>1 DEF ClosedUnder
  <2>4. QED
    BY <1>2, <1>5, <2>2, <2>3
<1>6. QED
  BY <1>1, <1>2, <1>3, <1>4, <1>5 DEF T

\* A recursive function that gathers what is reached computes Reached.
LEMMA RecursionReaches ==
  ASSUME NEW D, NEW R \in [D -> SUBSET D], WellFounded(D, R), NEW x \in D
  PROVE  (CHOOSE f : f = [y \in D |-> ReachedFrom(R, f, y)])[x] = Reached(D, R, x)
<1> DEFINE g == [y \in D |-> Reached(D, R, y)]
           f == CHOOSE h : h = [y \in D |-> ReachedFrom(R, h, y)]
<1>1. ASSUME NEW y \in D PROVE g[y] = ReachedFrom(R, g, y)
  <2>1. ReachedFrom(R, g, y) = {y} \cup UNION {Reached(D, R, z) : z \in R[y]}
    BY DEF ReachedFrom
  <2>2. {y} \cup UNION {Reached(D, R, z) : z \in R[y]} \subseteq Reached(D, R, y)
    <3>1. \A z \in R[y] : z \in Reached(D, R, y)
      BY ReachedFacts DEF ClosedUnder
    <3>2. \A z \in R[y] : Reached(D, R, z) \subseteq Reached(D, R, y)
      BY <3>1, ReachedFacts
    <3>3. QED
      BY <3>2, ReachedFacts
  <2>3. Reached(D, R, y) \subseteq {y} \cup UNION {Reached(D, R, z) : z \in R[y]}
    <3> DEFINE S == {y} \cup UNION {Reached(D, R, z) : z \in R[y]}
    <3>1. \A z \in R[y] : z \in Reached(D, R, z) /\ Reached(D, R, z) \subseteq D /\ ClosedUnder(R, Reached(D, R, z))
      BY ReachedFacts
    <3>2. S \in SUBSET D /\ y \in S
      BY <3>1
    <3>3. ClosedUnder(R, S)
      BY <3>1 DEF ClosedUnder
    <3> HIDE DEF S
    <3>4. QED
      BY <3>2, <3>3, ReachedFacts DEF S
  <2>4. QED
    BY <2>1, <2>2, <2>3
<1>2. g = [y \in D |-> ReachedFrom(R, g, y)]
  BY <1>1
<1>3. f = [y \in D |-> ReachedFrom(R, f, y)]
  <2>1. \E h : h = [y \in D |-> ReachedFrom(R, h, y)]
    BY <1>2
  <2>2. QED
    BY <2>1
<1> HIDE DEF f, g
<1>4. \A y \in D : f[y] = ReachedFrom(R, f, y)
  BY <1>3
<1>5. \A y \in D : g[y] = ReachedFrom(R, g, y)
  BY <1>1
<1> DEFINE wrong == {y \in D : f[y] # g[y]}
<1>6. wrong = {}
  <2>1. SUFFICES ASSUME wrong # {} PROVE FALSE
    OBVIOUS
  <2>2. PICK y \in wrong : R[y] \cap wrong = {}
    BY <2>1 DEF WellFounded
  <2>3. \A z \in R[y] : f[z] = g[z]
    BY <2>2
  <2>4. ReachedFrom(R, f, y) = ReachedFrom(R, g, y)
    BY <2>3 DEF ReachedFrom
  <2>5. QED
    BY <1>4, <1>5, <2>2, <2>4
<1>7. QED
  BY <1>6 DEF f, g

-----------------------------------------------------------------------------
(***************************************************************************)
(* A recursive function that asks for its values along such a relation is  *)
(* defined: B[<<y, f>>] is its body at y, in which f stands for itself.    *)
(***************************************************************************)
Asks(D, A, R, B) ==
  \A y \in D : \A f, g \in [D -> A] : (\A z \in R[y] : f[z] = g[z]) => B[<<y, f>>] = B[<<y, g>>]

Solves(B, f, S) == \A y \in S : f[y] = B[<<y, f>>]

LEMMA RecursionExists ==
  ASSUME NEW D, NEW A, NEW a \in A, NEW R \in [D -> SUBSET D], WellFounded(D, R),
         NEW B \in [D \X [D -> A] -> A], Asks(D, A, R, B)
  PROVE  \E h \in [D -> A] : Solves(B, h, D)
<1> DEFINE Above(x) == Reached(D, R, x)
           Good == {x \in D : \E f \in [D -> A] : Solves(B, f, Above(x))}
           F == [x \in D |-> CHOOSE f \in [D -> A] : Solves(B, f, Above(x))]
           h == [x \in D |-> IF x \in Good THEN F[x][x] ELSE a]
<1>1. ASSUME NEW S \in SUBSET D, ClosedUnder(R, S), NEW f \in [D -> A], NEW g \in [D -> A],
             Solves(B, f, S), Solves(B, g, S)
      PROVE  \A y \in S : f[y] = g[y]
  <2> DEFINE wrong == {y \in S : f[y] # g[y]}
  <2>1. SUFFICES ASSUME wrong # {} PROVE FALSE
    OBVIOUS
  <2>2. PICK y \in wrong : R[y] \cap wrong = {}
    BY <2>1 DEF WellFounded
  <2>3. y \in D /\ R[y] \subseteq S
    BY <1>1, <2>2 DEF ClosedUnder
  <2>4. \A z \in R[y] : f[z] = g[z]
    BY <2>2, <2>3
  <2>5. B[<<y, f>>] = B[<<y, g>>]
    BY <2>3, <2>4 DEF Asks
  <2>6. f[y] = B[<<y, f>>] /\ g[y] = B[<<y, g>>]
    BY <1>1, <2>2 DEF Solves
  <2>7. QED
    BY <2>2, <2>5, <2>6
<1>2. ASSUME NEW x \in D
      PROVE  /\ x \in Above(x) /\ Above(x) \in SUBSET D /\ ClosedUnder(R, Above(x))
             /\ \A z \in R[x] : z \in D /\ z \in Above(x) /\ Above(z) \subseteq Above(x)
  <2>1. /\ x \in Above(x) /\ Above(x) \subseteq D /\ ClosedUnder(R, Above(x))
        /\ \A y \in Above(x) : Above(y) \subseteq Above(x)
    BY ReachedFacts
  <2>2. \A z \in R[x] : z \in D /\ z \in Above(x)
    BY <2>1 DEF ClosedUnder
  <2>3. QED
    BY <2>1, <2>2
<1>3. ASSUME NEW x \in Good
      PROVE  x \in D /\ F[x] \in [D -> A] /\ Solves(B, F[x], Above(x))
  <2> HIDE DEF Above
  <2>1. \E f \in [D -> A] : Solves(B, f, Above(x))
    BY <1>3
  <2>2. QED
    BY <1>3, <2>1
<1>4. ASSUME NEW x \in Good, NEW z \in R[x]
      PROVE  z \in Good /\ F[z][z] = F[x][z]
  <2>1. z \in D /\ z \in Above(x) /\ Above(z) \subseteq Above(x) /\ z \in Above(z)
        /\ Above(z) \in SUBSET D /\ ClosedUnder(R, Above(z))
    BY <1>2, <1>3, <1>4
  <2>2. F[x] \in [D -> A] /\ Solves(B, F[x], Above(z))
    BY <1>3, <2>1 DEF Solves
  <2>3. z \in Good
    BY <2>1, <2>2
  <2>4. F[z] \in [D -> A] /\ Solves(B, F[z], Above(z))
    BY <1>3, <2>3
  <2> HIDE DEF F, Above, Good
  <2>5. QED
    BY <1>1, <2>1, <2>2, <2>3, <2>4
<1>5. h \in [D -> A] /\ \A x \in Good : h[x] = F[x][x]
  BY <1>3
<1> HIDE DEF F, h
<1>6. ASSUME NEW x \in Good
      PROVE  x \in D /\ R[x] \subseteq Good /\ h[x] = B[<<x, h>>]
  <2>1. \A z \in R[x] : z \in Good /\ h[z] = F[x][z]
    BY <1>4, <1>5
  <2>2. x \in D /\ F[x] \in [D -> A] /\ F[x][x] = B[<<x, F[x]>>]
    BY <1>2, <1>3 DEF Solves
  <2> HIDE DEF Good
  <2>3. B[<<x, h>>] = B[<<x, F[x]>>]
    BY <1>5, <2>1, <2>2 DEF Asks
  <2>4. QED
    BY <1>5, <2>1, <2>2, <2>3
<1>7. D \ Good = {}
  <2>1. SUFFICES ASSUME D \ Good # {} PROVE FALSE
    OBVIOUS
  <2>2. PICK x \in D \ Good : R[x] \cap (D \ Good) = {}
    <3> HIDE DEF Good
    <3>1. QED
      BY <2>1 DEF WellFounded
  <2>3. R[x] \subseteq Good /\ x \notin R[x]
    BY <2>2
  <2> DEFINE g == [h EXCEPT ![x] = B[<<x, h>>]]
  <2>4. g \in [D -> A] /\ g[x] = B[<<x, h>>] /\ \A y \in D : y # x => g[y] = h[y]
    BY <1>5
  <2> HIDE DEF g, Good
  <2>5. B[<<x, g>>] = B[<<x, h>>]
    <3>1. \A z \in R[x] : g[z] = h[z]
      BY <1>6, <2>3, <2>4
    <3>2. QED
      BY <1>5, <2>4, <3>1 DEF Asks
  <2>6. ASSUME NEW y \in Good PROVE g[y] = B[<<y, g>>]
    <3>1. y \in D /\ y # x /\ \A z \in R[y] : z \in D /\ z # x
      BY <1>6, <2>2, <2>6
    <3>2. \A z \in R[y] : g[z] = h[z]
      BY <2>4, <3>1
    <3>3. B[<<y, g>>] = B[<<y, h>>]
      BY <1>5, <2>4, <3>1, <3>2 DEF Asks
    <3>4. QED
      BY <1>6, <2>4, <3>1, <3>3
  <2>7. {x} \cup Good \in SUBSET D /\ ClosedUnder(R, {x} \cup Good)
    BY <1>6, <2>2, <2>3 DEF ClosedUnder
  <2>8. Above(x) \subseteq {x} \cup Good
    BY <2>2, <2>7, ReachedFacts
  <2>9. Solves(B, g, Above(x))
    <3> HIDE DEF Above
    <3>1. QED
      BY <2>4, <2>5, <2>6, <2>8 DEF Solves
  <2>10. QED
    BY <2>2, <2>4, <2>9 DEF Good
<1>8. QED
  <2> HIDE DEF Good
  <2>1. \A y \in D : h[y] = B[<<y, h>>]
    BY <1>6, <1>7
  <2>2. QED
    BY <1>5, <2>1 DEF Solves

-----------------------------------------------------------------------------
(* The answers of a check. *)

Verdicts == {"yes", "no", "error"}
OperandMap(conditions) == [id \in DOMAIN conditions |-> Operands(conditions[id])]

LEMMA TreesFacts ==
  ASSUME NEW conditions, AreTrees(conditions)
  PROVE  /\ OperandMap(conditions) \in [DOMAIN conditions -> SUBSET DOMAIN conditions]
         /\ WellFounded(DOMAIN conditions, OperandMap(conditions))
         /\ \A id \in DOMAIN conditions : IsComposite(conditions[id]) =>
              /\ conditions[id].operands \in Seq(DOMAIN conditions)
              /\ Len(conditions[id].operands) \in Nat \ {0}
              /\ Operands(conditions[id]) =
                   {conditions[id].operands[i] : i \in 1 .. Len(conditions[id].operands)}
<1> DEFINE ids == DOMAIN conditions
<1>1. ASSUME NEW id \in ids, IsComposite(conditions[id])
      PROVE  /\ conditions[id].operands \in Seq(ids) /\ Len(conditions[id].operands) \in Nat \ {0}
             /\ Operands(conditions[id]) =
                  {conditions[id].operands[i] : i \in 1 .. Len(conditions[id].operands)}
             /\ Operands(conditions[id]) \subseteq ids
  <2>1. conditions[id].operands \in Seq(ids) \ {<< >>}
    BY <1>1 DEF AreTrees
  <2>2. QED
    BY <1>1, <2>1 DEF Operands, ToSet
<1>2. \A id \in ids : Operands(conditions[id]) \subseteq ids
  BY <1>1 DEF Operands
<1>3. OperandMap(conditions) \in [ids -> SUBSET ids]
  BY <1>2 DEF OperandMap
<1>4. WellFounded(ids, OperandMap(conditions))
  BY DEF AreTrees, WellFounded, OperandMap
<1>5. QED
  BY <1>1, <1>3, <1>4

Decides(c, answer, i) == answer[c.operands[i]] \in {"error", IF c.kind = "or" THEN "yes" ELSE "no"}

\* Operand i is the first one that decides the condition, or the last one.
IsDeciding(c, answer, i) ==
  /\ i \in 1 .. Len(c.operands)
  /\ i = Len(c.operands) \/ Decides(c, answer, i)
  /\ \A j \in 1 .. i - 1 : ~ Decides(c, answer, j)

LEMMA DecidingFound ==
  ASSUME NEW D, NEW c, c.operands \in Seq(D), Len(c.operands) # 0, NEW answer
  PROVE  IsDeciding(c, answer, Deciding(c, answer))
<1> DEFINE candidates == {i \in 1 .. Len(c.operands) : i = Len(c.operands) \/ Decides(c, answer, i)}
<1>1. Len(c.operands) \in Nat \ {0} /\ DOMAIN c.operands = 1 .. Len(c.operands)
  OBVIOUS
<1>2. candidates \subseteq Nat /\ candidates # {}
  BY <1>1
<1>3. PICK k \in candidates : \A j \in candidates : ~ (<<j, k>> \in OpToRel(<, Nat))
  <2> HIDE DEF candidates
  <2> QED BY <1>2, NatLessThanWellFounded, WFMin
<1>4. \A j \in candidates : ~ (j < k)
  BY <1>2, <1>3 DEF OpToRel
<1>5. k \in 1 .. Len(c.operands) /\ (k = Len(c.operands) \/ Decides(c, answer, k))
  BY <1>3
<1>6. \A j \in 1 .. k - 1 : ~ Decides(c, answer, j)
  <2>1. SUFFICES ASSUME NEW j \in 1 .. k - 1, Decides(c, answer, j) PROVE FALSE
    OBVIOUS
  <2>2. j \in candidates /\ j < k
    BY <1>1, <1>5, <2>1
  <2>3. QED
    BY <1>4, <2>2
<1>7. \E i \in DOMAIN c.operands :
        (i = Len(c.operands) \/ Decides(c, answer, i)) /\ \A j \in 1 .. i - 1 : ~ Decides(c, answer, j)
  BY <1>1, <1>5, <1>6
<1>8. /\ Deciding(c, answer) \in DOMAIN c.operands
      /\ Deciding(c, answer) = Len(c.operands) \/ Decides(c, answer, Deciding(c, answer))
      /\ \A j \in 1 .. Deciding(c, answer) - 1 : ~ Decides(c, answer, j)
  BY <1>7 DEF Deciding, Decides
<1>9. QED
  BY <1>1, <1>8 DEF IsDeciding

LEMMA DecidingUnique ==
  ASSUME NEW D, NEW c, c.operands \in Seq(D), NEW answer, NEW i, NEW j,
         IsDeciding(c, answer, i), IsDeciding(c, answer, j)
  PROVE  i = j
<1>1. Len(c.operands) \in Nat
  OBVIOUS
<1>2. i \in 1 .. Len(c.operands) /\ j \in 1 .. Len(c.operands)
  BY DEF IsDeciding
<1>3. i < j => FALSE
  <2>1. SUFFICES ASSUME i < j PROVE FALSE
    OBVIOUS
  <2>2. i \in 1 .. j - 1 /\ i # Len(c.operands)
    BY <1>1, <1>2, <2>1
  <2>3. QED
    BY <2>2 DEF IsDeciding
<1>4. j < i => FALSE
  <2>1. SUFFICES ASSUME j < i PROVE FALSE
    OBVIOUS
  <2>2. j \in 1 .. i - 1 /\ j # Len(c.operands)
    BY <1>1, <1>2, <2>1
  <2>3. QED
    BY <2>2 DEF IsDeciding
<1>5. QED
  BY <1>1, <1>2, <1>3, <1>4

LEMMA DecidingSame ==
  ASSUME NEW D, NEW c, c.operands \in Seq(D), Len(c.operands) # 0, NEW f, NEW g,
         \A i \in 1 .. Len(c.operands) : f[c.operands[i]] = g[c.operands[i]]
  PROVE  Deciding(c, f) = Deciding(c, g)
<1>1. \A i \in 1 .. Len(c.operands) : Decides(c, f, i) <=> Decides(c, g, i)
  BY DEF Decides
<1>2. IsDeciding(c, f, Deciding(c, f)) /\ IsDeciding(c, g, Deciding(c, g))
  BY DecidingFound
<1>3. Len(c.operands) \in Nat
  OBVIOUS
<1> DEFINE k == Deciding(c, f)
<1> HIDE DEF k
<1>4. IsDeciding(c, f, k)
  BY <1>2 DEF k
<1>5. \A j \in 1 .. k - 1 : j \in 1 .. Len(c.operands)
  BY <1>3, <1>4 DEF IsDeciding
<1>6. IsDeciding(c, g, k)
  BY <1>1, <1>4, <1>5 DEF IsDeciding
<1>7. QED
  BY <1>2, <1>6, DecidingUnique DEF k

LEMMA SingularAnswers ==
  ASSUME NEW id, NEW c, NEW w,
         c.kind \in {"phaseState", "actionsComplete", "duration", "simulationTime", "speed",
                     "toPoint", "toActor", "longitudinal", "collision", "lane", "lateralOffset",
                     "event", "parameter"}
  PROVE  SingularCheck(id, c, w) \in Verdicts
<1>1. \A b : Truth(b) \in Verdicts
  BY DEF Truth, Verdicts
<1>2. \A actors : \A answer \in Verdicts : IfPresent(w, actors, answer) \in Verdicts
  BY DEF IfPresent, Verdicts
<1>3. \A found, expressions : CompareFound(found, expressions) \in Verdicts
  BY <1>1 DEF CompareFound, Verdicts
<1>4. CheckPhaseState(c, w) \in Verdicts /\ CheckActionsComplete(c, w) \in Verdicts
  BY <1>1 DEF CheckPhaseState, CheckActionsComplete
<1>5. CheckDuration(id, c, w) \in Verdicts /\ CheckSimulationTime(c, w) \in Verdicts
  BY <1>1 DEF CheckDuration, CheckSimulationTime
<1>6. CheckSpeed(id, c, w) \in Verdicts
  BY <1>1, <1>2 DEF CheckSpeed
<1>7. CheckToPoint(c, w) \in Verdicts
  BY <1>1, <1>2 DEF CheckToPoint
<1>8. CheckToActor(c, w) \in Verdicts
  BY <1>1, <1>2 DEF CheckToActor
<1>9. CheckLongitudinal(c, w) \in Verdicts /\ CheckLane(c, w) \in Verdicts
      /\ CheckLateralOffset(c, w) \in Verdicts
  <2>1. "no" \in Verdicts /\ "yes" \in Verdicts
    BY DEF Verdicts
  <2>2. QED
    BY <1>2, <2>1 DEF CheckLongitudinal, CheckLane, CheckLateralOffset
<1>10. CheckCollision(c, w) \in Verdicts
  BY <1>1, <1>2 DEF CheckCollision
<1>11. CheckCustomEvent(c, w) \in Verdicts
  <2> DEFINE answer(i) == CompareFound(w.events[i].parameters, c.expressions)
             deciding == {i \in DOMAIN w.events : w.events[i].name = c.event /\ answer(i) # "no"}
  <2>1. CheckCustomEvent(c, w) = IF deciding = {} THEN "no" ELSE answer(Min(deciding))
    BY DEF CheckCustomEvent
  <2>2. answer(Min(deciding)) \in Verdicts /\ "no" \in Verdicts
    BY <1>3 DEF Verdicts
  <2> HIDE DEF answer, deciding
  <2>3. QED
    BY <2>1, <2>2
<1>12. CheckParameter(c, w) \in Verdicts
  <2> DEFINE found == w.parameters[c.scope][c.actor]
             inner == IF ~ DOMAIN c.expressions \subseteq DOMAIN found THEN "no"
                      ELSE IF c.scope = "behavior" /\ c.actor \in w.simulink
                           THEN CompareBehaviorParameterForSimulinkAgent(found, c.expressions)
                           ELSE CompareFound(found, c.expressions)
  <2>1. "no" \in Verdicts /\ "error" \in Verdicts
    BY DEF Verdicts
  <2>2. CompareFound(found, c.expressions) \in Verdicts
    BY <1>3
  <2>3. CompareBehaviorParameterForSimulinkAgent(found, c.expressions) \in Verdicts
    BY <2>1, <2>2 DEF CompareBehaviorParameterForSimulinkAgent
  <2>4. inner \in Verdicts
    BY <2>1, <2>2, <2>3
  <2>5. CheckParameter(c, w) = IfPresent(w, {c.actor}, inner)
    BY DEF CheckParameter
  <2> HIDE DEF inner
  <2>6. QED
    BY <1>2, <2>4, <2>5
<1>13. QED
  BY <1>4, <1>5, <1>6, <1>7, <1>8, <1>9, <1>10, <1>11, <1>12 DEF SingularCheck

\* One step of the recursion of Answers, answer standing for the rest of it.
AnswerOf(conditions, w, answer, id) ==
  IF IsComposite(conditions[id])
  THEN answer[conditions[id].operands[Deciding(conditions[id], answer)]]
  ELSE SingularCheck(id, conditions[id], w)

\* One step of the recursion asks the operands only.
LEMMA AnswerOfSame ==
  ASSUME NEW conditions, AreTrees(conditions), NEW w, NEW id \in DOMAIN conditions,
         IsComposite(conditions[id]), NEW f, NEW g, \A z \in Operands(conditions[id]) : f[z] = g[z]
  PROVE  AnswerOf(conditions, w, f, id) = AnswerOf(conditions, w, g, id)
<1> DEFINE c == conditions[id]
           ids == DOMAIN conditions
<1>1. /\ c.operands \in Seq(ids) /\ Len(c.operands) # 0
      /\ \A i \in 1 .. Len(c.operands) : f[c.operands[i]] = g[c.operands[i]]
  BY TreesFacts
<1>2. IsComposite(c)
  OBVIOUS
<1> HIDE DEF c
<1>3. Deciding(c, f) = Deciding(c, g) /\ Deciding(c, f) \in 1 .. Len(c.operands)
  <2>1. IsDeciding(c, f, Deciding(c, f))
    BY <1>1, DecidingFound
  <2>2. QED
    BY <1>1, <2>1, DecidingSame DEF IsDeciding
<1>4. f[c.operands[Deciding(c, f)]] = g[c.operands[Deciding(c, g)]]
  BY <1>1, <1>3
<1>5. QED
  BY <1>2, <1>4 DEF AnswerOf, c

(***************************************************************************)
(* A check of any condition, nested to any depth, answers, and a composite *)
(* one answers what its deciding operand does (OrCondition::Check,         *)
(* AndCondition::Check).                                                   *)
(***************************************************************************)
THEOREM AnswersFacts ==
  ASSUME NEW conditions, AreTrees(conditions), NEW w
  PROVE  /\ Answers(conditions, w) \in [DOMAIN conditions -> Verdicts]
         /\ \A id \in DOMAIN conditions :
              Answers(conditions, w)[id] = AnswerOf(conditions, w, Answers(conditions, w), id)
<1> DEFINE ids == DOMAIN conditions
           R == OperandMap(conditions)
           B == [p \in ids \X [ids -> Verdicts] |-> AnswerOf(conditions, w, p[2], p[1])]
<1>1. R \in [ids -> SUBSET ids] /\ WellFounded(ids, R)
  BY TreesFacts
<1>2. ASSUME NEW id \in ids, IsComposite(conditions[id])
      PROVE  /\ conditions[id].operands \in Seq(ids) /\ Len(conditions[id].operands) # 0
             /\ R[id] = {conditions[id].operands[i] : i \in 1 .. Len(conditions[id].operands)}
  BY <1>2, TreesFacts DEF OperandMap
<1>3. ASSUME NEW id \in ids, ~ IsComposite(conditions[id])
      PROVE  SingularCheck(id, conditions[id], w) \in Verdicts
  <2>1. conditions[id].kind \in {"phaseState", "actionsComplete", "duration", "simulationTime",
                                 "speed", "toPoint", "toActor", "longitudinal", "collision", "lane",
                                 "lateralOffset", "event", "parameter"}
    BY <1>3 DEF AreTrees, IsComposite
  <2>2. QED
    BY <2>1, SingularAnswers
<1>4. ASSUME NEW id \in ids, NEW f, NEW g, \A z \in R[id] : f[z] = g[z]
      PROVE  AnswerOf(conditions, w, f, id) = AnswerOf(conditions, w, g, id)
  <2>1. CASE ~ IsComposite(conditions[id])
    BY <2>1 DEF AnswerOf
  <2>2. CASE IsComposite(conditions[id])
    BY <1>4, <2>2, AnswerOfSame DEF OperandMap
  <2>3. QED
    BY <2>1, <2>2
<1>5. ASSUME NEW id \in ids, NEW f \in [ids -> Verdicts]
      PROVE  AnswerOf(conditions, w, f, id) \in Verdicts
  <2>1. CASE ~ IsComposite(conditions[id])
    BY <1>3, <2>1 DEF AnswerOf
  <2>2. CASE IsComposite(conditions[id])
    <3>1. IsDeciding(conditions[id], f, Deciding(conditions[id], f))
      BY <1>2, <2>2, DecidingFound
    <3>2. conditions[id].operands[Deciding(conditions[id], f)] \in ids
      BY <1>1, <1>2, <2>2, <3>1 DEF IsDeciding
    <3>3. QED
      BY <2>2, <3>2 DEF AnswerOf
  <2>3. QED
    BY <2>1, <2>2
<1>6. B \in [ids \X [ids -> Verdicts] -> Verdicts]
  BY <1>5
<1>7. ASSUME NEW id \in ids, NEW f \in [ids -> Verdicts] PROVE B[<<id, f>>] = AnswerOf(conditions, w, f, id)
  OBVIOUS
<1> HIDE DEF B, R
<1>8. Asks(ids, Verdicts, R, B)
  <2>1. SUFFICES ASSUME NEW id \in ids, NEW f \in [ids -> Verdicts], NEW g \in [ids -> Verdicts],
                        \A z \in R[id] : f[z] = g[z]
                 PROVE  B[<<id, f>>] = B[<<id, g>>]
    BY DEF Asks
  <2>2. QED
    BY <1>4, <1>7, <2>1
<1>9. "no" \in Verdicts
  BY DEF Verdicts
<1>10. PICK h \in [ids -> Verdicts] : Solves(B, h, ids)
  BY <1>1, <1>6, <1>8, <1>9, RecursionExists
<1>11. \A id \in ids : h[id] = AnswerOf(conditions, w, h, id)
  BY <1>7, <1>10 DEF Solves
<1> DEFINE answer == CHOOSE f : f = [id \in ids |-> AnswerOf(conditions, w, f, id)]
<1>12. answer = [id \in ids |-> AnswerOf(conditions, w, answer, id)]
  <2>1. h = [id \in ids |-> AnswerOf(conditions, w, h, id)]
    BY <1>11
  <2>2. \E f : f = [id \in ids |-> AnswerOf(conditions, w, f, id)]
    BY <2>1
  <2>3. QED
    BY <2>2
<1>13. Answers(conditions, w) = answer
  BY DEF Answers, AnswerOf
<1> HIDE DEF answer
<1>14. \A id \in ids : answer[id] = AnswerOf(conditions, w, answer, id)
  BY <1>12
<1> DEFINE wrong == {id \in ids : answer[id] # h[id]}
<1>15. wrong = {}
  <2>1. SUFFICES ASSUME wrong # {} PROVE FALSE
    OBVIOUS
  <2>2. PICK id \in wrong : R[id] \cap wrong = {}
    BY <1>1, <2>1 DEF WellFounded
  <2>3. \A z \in R[id] : answer[z] = h[z]
    BY <1>1, <2>2
  <2>4. AnswerOf(conditions, w, answer, id) = AnswerOf(conditions, w, h, id)
    BY <1>4, <2>2, <2>3
  <2>5. QED
    BY <1>11, <1>14, <2>2, <2>4
<1>16. answer = h
  <2>1. answer = [id \in ids |-> answer[id]]
    BY <1>12
  <2>2. QED
    BY <1>15, <2>1
<1>17. QED
  BY <1>13, <1>14, <1>16

-----------------------------------------------------------------------------
(***************************************************************************)
(* What checks leave behind.  Before a check and after it, the state of a  *)
(* composite condition is the one that the states of its operands explain: *)
(* either the check evaluates the condition and all operands up to the     *)
(* deciding one, or it evaluates none of them.                             *)
(***************************************************************************)
Reports == {"not yet evaluated", "yes", "no"}

Agree(conditions, states) ==
  \A id \in DOMAIN conditions :
    LET c == conditions[id]
        answers == {states[j] : j \in ToSet(c.operands)}
    IN  IsComposite(c) =>
          /\ c.kind = "or" /\ states[id] = "yes" => "yes" \in answers
          /\ c.kind = "or" /\ states[id] = "no" => answers = {"no"}
          /\ c.kind = "and" /\ states[id] = "yes" => answers = {"yes"}
          /\ c.kind = "and" /\ states[id] = "no" => "no" \in answers

AskedMap(conditions, answer) ==
  [id \in DOMAIN conditions |-> OperandsAsked(conditions[id], answer)]

LEMMA EvaluatedFacts ==
  ASSUME NEW conditions, AreTrees(conditions), NEW w
  PROVE  LET ids == DOMAIN conditions
             R == AskedMap(conditions, Answers(conditions, w))
         IN  /\ R \in [ids -> SUBSET ids] /\ \A id \in ids : R[id] \subseteq Operands(conditions[id])
             /\ \A id \in ids : Evaluated(conditions, id, w) = Reached(ids, R, id)
<1> DEFINE ids == DOMAIN conditions
           answer == Answers(conditions, w)
           R == AskedMap(conditions, answer)
<1>1. ASSUME NEW id \in ids, IsComposite(conditions[id])
      PROVE  {conditions[id].operands[k] : k \in 1 .. Deciding(conditions[id], answer)}
               \subseteq Operands(conditions[id])
  <2>1. /\ conditions[id].operands \in Seq(ids) /\ Len(conditions[id].operands) \in Nat \ {0}
        /\ Operands(conditions[id]) =
             {conditions[id].operands[i] : i \in 1 .. Len(conditions[id].operands)}
    BY <1>1, TreesFacts
  <2>2. Deciding(conditions[id], answer) \in 1 .. Len(conditions[id].operands)
    BY <2>1, DecidingFound DEF IsDeciding
  <2>3. \A k \in 1 .. Deciding(conditions[id], answer) : k \in 1 .. Len(conditions[id].operands)
    BY <2>1, <2>2
  <2>4. QED
    BY <2>1, <2>3
<1>2. \A id \in ids : R[id] \subseteq Operands(conditions[id])
  BY <1>1 DEF AskedMap, OperandsAsked
<1>3. \A id \in ids : Operands(conditions[id]) \subseteq ids
  BY TreesFacts DEF OperandMap
<1>4. R \in [ids -> SUBSET ids]
  BY <1>2, <1>3 DEF AskedMap
<1>5. WellFounded(ids, R)
  <2> HIDE DEF R
  <2>1. SUFFICES ASSUME NEW S \in SUBSET ids, S # {} PROVE \E x \in S : R[x] \cap S = {}
    BY DEF WellFounded
  <2>2. PICK x \in S : OperandMap(conditions)[x] \cap S = {}
    BY <2>1, TreesFacts DEF WellFounded
  <2>3. QED
    BY <1>2, <2>2 DEF OperandMap
<1>6. ASSUME NEW id \in ids PROVE Evaluated(conditions, id, w) = Reached(ids, R, id)
  <2> DEFINE Asking(f) == [i \in ids |->
                {i} \cup UNION {f[j] : j \in OperandsAsked(conditions[i], answer)}]
             Reaching(f) == [i \in ids |-> ReachedFrom(R, f, i)]
  <2>1. Evaluated(conditions, id, w) = (CHOOSE f : f = Asking(f))[id]
    BY DEF Evaluated
  <2>2. \A f : Asking(f) = Reaching(f)
    BY DEF ReachedFrom, AskedMap
  <2>3. Evaluated(conditions, id, w) = (CHOOSE f : f = [i \in ids |-> ReachedFrom(R, f, i)])[id]
    <3>1. (CHOOSE f : f = Asking(f)) = (CHOOSE f : f = Reaching(f))
      <4> HIDE DEF Asking, Reaching
      <4> QED BY <2>2
    <3> QED BY <2>1, <3>1
  <2> HIDE DEF R
  <2>4. QED
    BY <1>4, <1>5, <2>3, RecursionReaches
<1>7. QED
  BY <1>2, <1>4, <1>6

\* Where a check has not failed, no condition that it has evaluated has.
LEMMA EvaluatedAnswers ==
  ASSUME NEW conditions, AreTrees(conditions), NEW w, NEW id \in DOMAIN conditions,
         Answers(conditions, w)[id] # "error"
  PROVE  /\ id \in Evaluated(conditions, id, w)
         /\ Evaluated(conditions, id, w) \subseteq DOMAIN conditions
         /\ \A i \in Evaluated(conditions, id, w) :
              /\ Answers(conditions, w)[i] \in {"yes", "no"}
              /\ IsComposite(conditions[i]) =>
                   \A k \in 1 .. Deciding(conditions[i], Answers(conditions, w)) :
                     conditions[i].operands[k] \in Evaluated(conditions, id, w)
              /\ i # id => \E j \in Evaluated(conditions, id, w) : i \in Operands(conditions[j])
<1> DEFINE ids == DOMAIN conditions
           answer == Answers(conditions, w)
           R == AskedMap(conditions, answer)
           E == Evaluated(conditions, id, w)
           Answered == {i \in ids : answer[i] # "error"}
<1>1. /\ R \in [ids -> SUBSET ids] /\ E = Reached(ids, R, id)
      /\ \A i \in ids : R[i] \subseteq Operands(conditions[i])
  BY EvaluatedFacts
<1>2. answer \in [ids -> Verdicts] /\ \A i \in ids : answer[i] = AnswerOf(conditions, w, answer, i)
  BY AnswersFacts
<1>3. ASSUME NEW i \in ids, IsComposite(conditions[i])
      PROVE  R[i] = {conditions[i].operands[k] : k \in 1 .. Deciding(conditions[i], answer)}
  BY <1>3 DEF AskedMap, OperandsAsked
<1>4. ASSUME NEW i \in ids, ~ IsComposite(conditions[i]) PROVE R[i] = {}
  BY <1>4 DEF AskedMap, OperandsAsked
<1> HIDE DEF R, answer
<1>5. ASSUME NEW i \in Answered PROVE R[i] \subseteq Answered
  <2>1. CASE ~ IsComposite(conditions[i])
    BY <1>4, <1>5, <2>1
  <2>2. CASE IsComposite(conditions[i])
    <3> DEFINE c == conditions[i]
               m == Deciding(c, answer)
    <3>1. c.operands \in Seq(ids) /\ Len(c.operands) \in Nat \ {0}
      BY <1>5, <2>2, TreesFacts
    <3>2. IsDeciding(c, answer, m)
      BY <3>1, DecidingFound
    <3>3. answer[c.operands[m]] = answer[i]
      BY <1>2, <1>5, <2>2 DEF AnswerOf
    <3>4. R[i] = {c.operands[k] : k \in 1 .. m} /\ R[i] \subseteq ids
      BY <1>1, <1>3, <1>5, <2>2
    <3> HIDE DEF m, c
    <3>5. ASSUME NEW k \in 1 .. m PROVE answer[c.operands[k]] # "error"
      <4>1. CASE k = m
        BY <1>5, <3>3, <4>1
      <4>2. CASE k # m
        <5>1. k \in 1 .. m - 1
          BY <3>1, <3>2, <4>2 DEF IsDeciding
        <5>2. QED
          BY <3>2, <5>1 DEF IsDeciding, Decides
      <4>3. QED
        BY <4>1, <4>2
    <3>6. QED
      BY <3>4, <3>5
  <2>3. QED
    BY <2>1, <2>2
<1>6. id \in Answered /\ Answered \in SUBSET ids /\ ClosedUnder(R, Answered)
  BY <1>5 DEF ClosedUnder, answer
<1> HIDE DEF Answered
<1>7. /\ id \in E /\ E \subseteq ids /\ ClosedUnder(R, E) /\ E \subseteq Answered
      /\ \A i \in E : i # id => \E j \in E : i \in R[j]
  BY <1>1, <1>6, ReachedFacts
<1> HIDE DEF E
<1>8. \A i \in E : answer[i] \in {"yes", "no"}
  BY <1>2, <1>7 DEF Answered, Verdicts
<1>9. ASSUME NEW i \in E, IsComposite(conditions[i]), NEW k \in 1 .. Deciding(conditions[i], answer)
      PROVE  conditions[i].operands[k] \in E
  <2>1. conditions[i].operands[k] \in R[i]
    BY <1>3, <1>7, <1>9
  <2>2. QED
    BY <1>7, <2>1 DEF ClosedUnder
<1>10. \A i \in E : i # id => \E j \in E : i \in Operands(conditions[j])
  BY <1>1, <1>7
<1>11. QED
  BY <1>7, <1>8, <1>9, <1>10 DEF E, answer

(***************************************************************************)
(* Checks of conditions that are no operands leave the reported states in  *)
(* agreement: a check evaluates all the operands of a composite condition  *)
(* up to the deciding one, or it does not evaluate the condition at all    *)
(* (OrCondition::Check, AndCondition::Check).                              *)
(***************************************************************************)
THEOREM ChecksAgree ==
  ASSUME NEW conditions, AreTrees(conditions), NEW w, NEW ids \in SUBSET Whole(conditions),
         \A id \in ids : Answers(conditions, w)[id] # "error",
         NEW states \in [DOMAIN conditions -> Reports], Agree(conditions, states)
  PROVE  /\ StatesAfterChecks(conditions, ids, w, states) \in [DOMAIN conditions -> Reports]
         /\ Agree(conditions, StatesAfterChecks(conditions, ids, w, states))
<1> DEFINE all == DOMAIN conditions
           answer == Answers(conditions, w)
           E == UNION {Evaluated(conditions, id, w) : id \in ids}
           after == StatesAfterChecks(conditions, ids, w, states)
<1>1. ids \subseteq all /\ \A id \in ids, j \in all : id \notin Operands(conditions[j])
  BY DEF Whole
<1>2. ASSUME NEW i \in E
      PROVE  /\ i \in all /\ answer[i] \in {"yes", "no"}
             /\ IsComposite(conditions[i]) =>
                  \A k \in 1 .. Deciding(conditions[i], answer) : conditions[i].operands[k] \in E
             /\ i \notin ids => \E j \in E : i \in Operands(conditions[j])
  <2>1. PICK id \in ids : i \in Evaluated(conditions, id, w)
    BY <1>2
  <2>2. id \in all /\ answer[id] # "error" /\ Evaluated(conditions, id, w) \subseteq E
    BY <1>1
  <2> HIDE DEF E
  <2>3. /\ Evaluated(conditions, id, w) \subseteq all
        /\ answer[i] \in {"yes", "no"}
        /\ IsComposite(conditions[i]) =>
             \A k \in 1 .. Deciding(conditions[i], answer) :
               conditions[i].operands[k] \in Evaluated(conditions, id, w)
        /\ i # id => \E j \in Evaluated(conditions, id, w) : i \in Operands(conditions[j])
    BY <2>1, <2>2, EvaluatedAnswers
  <2>4. QED
    BY <2>1, <2>2, <2>3
<1>3. after = [i \in all |-> IF i \in E /\ answer[i] # "error" THEN answer[i] ELSE states[i]]
  BY DEF StatesAfterChecks
<1>4. answer \in [all -> Verdicts] /\ \A i \in all : answer[i] = AnswerOf(conditions, w, answer, i)
  BY AnswersFacts
<1> HIDE DEF E, answer, after
<1>5. \A i \in all : /\ i \in E => after[i] = answer[i] /\ answer[i] \in {"yes", "no"}
                     /\ i \notin E => after[i] = states[i]
  BY <1>2, <1>3
<1>6. after \in [all -> Reports]
  <2>1. \A i \in all : after[i] \in Reports
    BY <1>5 DEF Reports
  <2>2. QED
    BY <1>3, <2>1
<1>7. ASSUME NEW i \in all, IsComposite(conditions[i])
      PROVE  LET c == conditions[i]
                 answers == {after[j] : j \in ToSet(c.operands)}
             IN  /\ c.kind = "or" /\ after[i] = "yes" => "yes" \in answers
                 /\ c.kind = "or" /\ after[i] = "no" => answers = {"no"}
                 /\ c.kind = "and" /\ after[i] = "yes" => answers = {"yes"}
                 /\ c.kind = "and" /\ after[i] = "no" => "no" \in answers
  <2> DEFINE c == conditions[i]
             n == Len(c.operands)
             m == Deciding(c, answer)
             answers == {after[j] : j \in ToSet(c.operands)}
  <2>1. /\ c.operands \in Seq(all) /\ n \in Nat \ {0} /\ Operands(c) = ToSet(c.operands)
        /\ ToSet(c.operands) = {c.operands[k] : k \in 1 .. n}
        /\ \A k \in 1 .. n : c.operands[k] \in all
    <3>1. Operands(c) = ToSet(c.operands)
      BY <1>7 DEF Operands
    <3>2. /\ c.operands \in Seq(all) /\ n \in Nat \ {0}
          /\ Operands(c) = {c.operands[k] : k \in 1 .. n}
      BY <1>7, TreesFacts
    <3>3. QED
      BY <3>1, <3>2
  <2>2. CASE i \in E
    <3>1. IsDeciding(c, answer, m)
      BY <2>1, DecidingFound
    <3>2. after[i] = answer[i] /\ answer[i] = answer[c.operands[m]]
      <4>1. answer[i] = AnswerOf(conditions, w, answer, i)
        BY <1>4, <1>7
      <4>2. QED
        BY <1>5, <1>7, <2>2, <4>1 DEF AnswerOf
    <3>3. \A k \in 1 .. m : c.operands[k] \in E
      BY <1>2, <1>7, <2>2
    <3>4. c.kind \in {"or", "and"}
      BY <1>7 DEF IsComposite
    <3> HIDE DEF c, m
    <3>5. m \in 1 .. n /\ (m = n \/ Decides(c, answer, m)) /\ \A k \in 1 .. m - 1 : ~ Decides(c, answer, k)
      BY <3>1 DEF IsDeciding
    <3>6. \A k \in 1 .. m : k \in 1 .. n
      BY <2>1, <3>5
    <3> HIDE DEF n
    <3>7. ASSUME NEW k \in 1 .. m
          PROVE  after[c.operands[k]] = answer[c.operands[k]] /\ answer[c.operands[k]] \in {"yes", "no"}
      <4>1. c.operands[k] \in E /\ c.operands[k] \in all
        BY <2>1, <3>3, <3>6, <3>7
      <4>2. QED
        BY <1>5, <4>1
    <3>8. after[i] \in answers
      BY <2>1, <3>2, <3>5, <3>7
    <3>9. ASSUME ~ Decides(c, answer, m) PROVE answers = {answer[i]}
      <4>1. m = n
        BY <3>5, <3>9
      <4>2. \A k \in 1 .. n : ~ Decides(c, answer, k)
        <5>1. SUFFICES ASSUME NEW k \in 1 .. n, Decides(c, answer, k) PROVE FALSE
          OBVIOUS
        <5>2. k \in 1 .. m - 1
          BY <2>1, <3>9, <4>1, <5>1
        <5>3. QED
          BY <3>5, <5>1, <5>2
      <4>3. ASSUME NEW k \in 1 .. n PROVE answer[c.operands[k]] = answer[i]
        <5>1. /\ ~ Decides(c, answer, k) /\ ~ Decides(c, answer, m)
              /\ answer[c.operands[k]] \in {"yes", "no"} /\ answer[c.operands[m]] \in {"yes", "no"}
          BY <3>5, <3>7, <4>1, <4>2, <4>3
        <5>2. QED
          BY <3>2, <5>1 DEF Decides
      <4>4. \A k \in 1 .. n : after[c.operands[k]] = answer[i]
        BY <3>7, <4>1, <4>3
      <4>5. QED
        BY <2>1, <4>4, <3>8, <3>2
    <3>10. Decides(c, answer, m) => answer[i] = IF c.kind = "or" THEN "yes" ELSE "no"
      BY <3>2, <3>5, <3>7 DEF Decides
    <3>11. ~ Decides(c, answer, m) => answer[i] # IF c.kind = "or" THEN "yes" ELSE "no"
      BY <3>2 DEF Decides
    <3> HIDE DEF answers
    <3>12. /\ c.kind = "or" /\ after[i] = "yes" => "yes" \in answers
           /\ c.kind = "or" /\ after[i] = "no" => answers = {"no"}
           /\ c.kind = "and" /\ after[i] = "yes" => answers = {"yes"}
           /\ c.kind = "and" /\ after[i] = "no" => "no" \in answers
      BY <3>2, <3>4, <3>8, <3>9, <3>10, <3>11
    <3>13. QED
      BY <3>12 DEF answers, c
  <2>3. CASE i \notin E
    <3>1. ASSUME NEW j \in ToSet(c.operands) PROVE j \in all /\ j \notin E
      <4>1. j \in all /\ j \in Operands(c)
        BY <2>1, <3>1
      <4>2. ASSUME j \in E PROVE FALSE
        <5>1. j \notin ids
          BY <1>1, <4>1
        <5>2. PICK z \in E : j \in Operands(conditions[z])
          BY <1>2, <4>2, <5>1
        <5>3. z \in all /\ z # i
          BY <1>2, <2>3, <5>2
        <5>4. Operands(conditions[i]) \cap Operands(conditions[z]) = {}
          BY <5>3 DEF AreTrees
        <5>5. QED
          BY <4>1, <5>2, <5>4
      <4>3. QED
        BY <4>1, <4>2
    <3>2. after[i] = states[i] /\ answers = {states[j] : j \in ToSet(c.operands)}
      <4>1. \A j \in ToSet(c.operands) : after[j] = states[j]
        BY <1>5, <3>1
      <4>2. after[i] = states[i]
        BY <1>5, <1>7, <2>3
      <4>3. QED
        BY <4>1, <4>2
    <3> DEFINE old == {states[j] : j \in ToSet(c.operands)}
    <3>3. /\ c.kind = "or" /\ states[i] = "yes" => "yes" \in old
          /\ c.kind = "or" /\ states[i] = "no" => old = {"no"}
          /\ c.kind = "and" /\ states[i] = "yes" => old = {"yes"}
          /\ c.kind = "and" /\ states[i] = "no" => "no" \in old
      BY <1>7 DEF Agree
    <3> HIDE DEF old, answers, c
    <3>4. answers = old
      BY <3>2 DEF old
    <3>5. /\ c.kind = "or" /\ after[i] = "yes" => "yes" \in answers
          /\ c.kind = "or" /\ after[i] = "no" => answers = {"no"}
          /\ c.kind = "and" /\ after[i] = "yes" => answers = {"yes"}
          /\ c.kind = "and" /\ after[i] = "no" => "no" \in answers
      BY <3>2, <3>3, <3>4
    <3>6. QED
      BY <3>5 DEF answers, c
  <2>4. QED
    BY <2>2, <2>3
<1>8. Agree(conditions, after)
  BY <1>7 DEF Agree
<1>9. QED
  BY <1>6, <1>8 DEF after
-----------------------------------------------------------------------------
(* What an answer depends on. *)

LeavesOf(conditions, leaves, i) ==
  IF IsComposite(conditions[i]) THEN UNION {leaves[j] : j \in Operands(conditions[i])} ELSE {i}

LEMMA LeavesFacts ==
  ASSUME NEW conditions, AreTrees(conditions), NEW id \in DOMAIN conditions
  PROVE  /\ Leaves(conditions, id) \subseteq DOMAIN conditions
         /\ IsComposite(conditions[id]) =>
              /\ Operands(conditions[id]) \subseteq DOMAIN conditions
              /\ \A j \in Operands(conditions[id]) : Leaves(conditions, j) \subseteq Leaves(conditions, id)
              /\ \A i \in Leaves(conditions, id) :
                   \E j \in Operands(conditions[id]) : i \in Leaves(conditions, j)
         /\ ~ IsComposite(conditions[id]) => Leaves(conditions, id) = {id}
<1> DEFINE ids == DOMAIN conditions
           R == OperandMap(conditions)
           B == [p \in ids \X [ids -> SUBSET ids] |-> LeavesOf(conditions, p[2], p[1])]
           leaves == CHOOSE h : h = [i \in ids |-> LeavesOf(conditions, h, i)]
<1>1. R \in [ids -> SUBSET ids] /\ WellFounded(ids, R) /\ \A i \in ids : R[i] = Operands(conditions[i])
  BY TreesFacts DEF OperandMap
<1>2. ASSUME NEW i \in ids, NEW f \in [ids -> SUBSET ids] PROVE LeavesOf(conditions, f, i) \in SUBSET ids
  BY <1>1 DEF LeavesOf
<1>3. B \in [ids \X [ids -> SUBSET ids] -> SUBSET ids]
  BY <1>2
<1>4. ASSUME NEW i \in ids, NEW f \in [ids -> SUBSET ids] PROVE B[<<i, f>>] = LeavesOf(conditions, f, i)
  OBVIOUS
<1> HIDE DEF B, R
<1>5. Asks(ids, SUBSET ids, R, B)
  <2>1. SUFFICES ASSUME NEW i \in ids, NEW f \in [ids -> SUBSET ids], NEW g \in [ids -> SUBSET ids],
                        \A z \in R[i] : f[z] = g[z]
                 PROVE  LeavesOf(conditions, f, i) = LeavesOf(conditions, g, i)
    BY <1>4 DEF Asks
  <2>2. {f[j] : j \in Operands(conditions[i])} = {g[j] : j \in Operands(conditions[i])}
    BY <1>1, <2>1
  <2>3. QED
    BY <2>2 DEF LeavesOf
<1>6. PICK h \in [ids -> SUBSET ids] : \A i \in ids : h[i] = LeavesOf(conditions, h, i)
  <2>1. {} \in SUBSET ids
    OBVIOUS
  <2>2. \E h \in [ids -> SUBSET ids] : Solves(B, h, ids)
    BY <1>1, <1>3, <1>5, <2>1, RecursionExists
  <2>3. QED
    BY <1>4, <2>2 DEF Solves
<1>7. h = [i \in ids |-> LeavesOf(conditions, h, i)]
  BY <1>6
<1>8. leaves = [i \in ids |-> LeavesOf(conditions, leaves, i)]
  BY <1>7
<1>9. \A x : Leaves(conditions, x) = leaves[x]
  BY DEF Leaves, LeavesOf
<1> HIDE DEF leaves
<1>10. \A i \in ids : leaves[i] \subseteq ids
  <2> DEFINE wrong == {i \in ids : ~ leaves[i] \subseteq ids}
  <2>1. SUFFICES ASSUME wrong # {} PROVE FALSE
    OBVIOUS
  <2>2. PICK i \in wrong : R[i] \cap wrong = {}
    BY <1>1, <2>1 DEF WellFounded
  <2>3. \A j \in Operands(conditions[i]) : leaves[j] \subseteq ids
    BY <1>1, <2>2
  <2>4. leaves[i] = LeavesOf(conditions, leaves, i)
    BY <1>8, <2>2
  <2>5. QED
    BY <2>2, <2>3, <2>4 DEF LeavesOf
<1>11. leaves[id] = LeavesOf(conditions, leaves, id)
  BY <1>8
<1>12. QED
  BY <1>1, <1>9, <1>10, <1>11 DEF LeavesOf

\* A condition that is no operand is in no other one.
LEMMA WholeApart ==
  ASSUME NEW conditions, AreTrees(conditions), NEW i \in Whole(conditions),
         NEW id \in DOMAIN conditions, i \in Leaves(conditions, id)
  PROVE  i = id
<1> DEFINE R == OperandMap(conditions)
           others == {x \in DOMAIN conditions : i \in Leaves(conditions, x) /\ x # i}
<1>1. WellFounded(DOMAIN conditions, R) /\ \A x \in DOMAIN conditions : R[x] = Operands(conditions[x])
  BY TreesFacts DEF OperandMap
<1> HIDE DEF R
<1>2. SUFFICES ASSUME others # {} PROVE FALSE
  OBVIOUS
<1>3. PICK x \in others : R[x] \cap others = {}
  BY <1>1, <1>2 DEF WellFounded
<1>4. x \in DOMAIN conditions /\ i \in Leaves(conditions, x) /\ x # i
  BY <1>3
<1>5. PICK j \in Operands(conditions[x]) : j \in DOMAIN conditions /\ i \in Leaves(conditions, j)
  BY <1>4, LeavesFacts
<1>6. j # i
  BY <1>4, <1>5 DEF Whole
<1>7. QED
  BY <1>1, <1>3, <1>4, <1>5, <1>6

\* Two worlds that differ in which phases have completed, at most.
AlikeButCompleted(w, v) ==
  /\ w.actors = v.actors /\ w.speed = v.speed /\ w.position = v.position /\ w.parent = v.parent
  /\ w.parameters = v.parameters /\ w.phases = v.phases /\ w.now = v.now /\ w.events = v.events
  /\ w.sample = v.sample /\ w.simulink = v.simulink

LEMMA SameSingular ==
  ASSUME NEW id, NEW c, NEW w, NEW v, AlikeButCompleted(w, v), c.kind # "actionsComplete"
  PROVE  SingularCheck(id, c, w) = SingularCheck(id, c, v)
<1>1. \A actors, answer : IfPresent(w, actors, answer) = IfPresent(v, actors, answer)
  BY DEF IfPresent, AlikeButCompleted
<1>2. CheckPhaseState(c, w) = CheckPhaseState(c, v)
  BY DEF CheckPhaseState, AlikeButCompleted
<1>3. CheckDuration(id, c, w) = CheckDuration(id, c, v)
  BY DEF CheckDuration, AlikeButCompleted
<1>4. CheckSimulationTime(c, w) = CheckSimulationTime(c, v)
  BY DEF CheckSimulationTime, AlikeButCompleted
<1>5. CheckSpeed(id, c, w) = CheckSpeed(id, c, v)
  BY <1>1 DEF CheckSpeed, AlikeButCompleted
<1>6. CheckToPoint(c, w) = CheckToPoint(c, v)
  BY <1>1 DEF CheckToPoint, AlikeButCompleted
<1>7. CheckToActor(c, w) = CheckToActor(c, v)
  BY <1>1 DEF CheckToActor, AlikeButCompleted
<1>8. /\ CheckLongitudinal(c, w) = CheckLongitudinal(c, v) /\ CheckLane(c, w) = CheckLane(c, v)
      /\ CheckLateralOffset(c, w) = CheckLateralOffset(c, v)
  BY <1>1 DEF CheckLongitudinal, CheckLane, CheckLateralOffset
<1>9. CheckCollision(c, w) = CheckCollision(c, v)
  <2> DEFINE Touching(actors, parent, position) ==
               LET group1 == IF c.actors = {} THEN actors ELSE c.actors
                   group2 == IF c.refs = {} THEN actors ELSE c.refs
                   Touch(a, b) == /\ a # b
                                  /\ ~ IsParentOrAncestor(parent, a, b) /\ ~ IsParentOrAncestor(parent, b, a)
                                  /\ position[a] = position[b]
               IN  UNION {{{a, b} : b \in {b \in group2 : Touch(a, b)}} : a \in group1}
  <2>1. /\ Collisions(c, w) = Touching(w.actors, w.parent, w.position)
        /\ Collisions(c, v) = Touching(v.actors, v.parent, v.position)
    BY DEF Collisions
  <2> HIDE DEF Touching
  <2>2. Collisions(c, w) = Collisions(c, v)
    BY <2>1 DEF AlikeButCompleted
  <2>3. QED
    BY <1>1, <2>2 DEF CheckCollision
<1>10. CheckCustomEvent(c, w) = CheckCustomEvent(c, v)
  <2> DEFINE First(events) ==
               LET answer(i) == CompareFound(events[i].parameters, c.expressions)
                   deciding == {i \in DOMAIN events : events[i].name = c.event /\ answer(i) # "no"}
               IN  IF deciding = {} THEN "no" ELSE answer(Min(deciding))
  <2>1. CheckCustomEvent(c, w) = First(w.events) /\ CheckCustomEvent(c, v) = First(v.events)
    BY DEF CheckCustomEvent
  <2> HIDE DEF First
  <2>2. QED
    BY <2>1 DEF AlikeButCompleted
<1>11. CheckParameter(c, w) = CheckParameter(c, v)
  <2> DEFINE Inner(given, agents) ==
               LET found == given[c.scope][c.actor]
               IN  IF ~ DOMAIN c.expressions \subseteq DOMAIN found THEN "no"
                   ELSE IF c.scope = "behavior" /\ c.actor \in agents
                        THEN CompareBehaviorParameterForSimulinkAgent(found, c.expressions)
                        ELSE CompareFound(found, c.expressions)
  <2>1. /\ CheckParameter(c, w) = IfPresent(w, {c.actor}, Inner(w.parameters, w.simulink))
        /\ CheckParameter(c, v) = IfPresent(v, {c.actor}, Inner(v.parameters, v.simulink))
    BY DEF CheckParameter
  <2> HIDE DEF Inner
  <2>2. QED
    BY <1>1, <2>1 DEF AlikeButCompleted
<1>12. QED
  BY <1>2, <1>3, <1>4, <1>5, <1>6, <1>7, <1>8, <1>9, <1>10, <1>11 DEF SingularCheck

(***************************************************************************)
(* A condition none of whose leaves asks for the completion of a phase     *)
(* answers the same whatever has completed meanwhile, so that an answer    *)
(* given in the middle of an update still holds at its end (the checks of  *)
(* Condition.cpp).                                                         *)
(***************************************************************************)
THEOREM SameAnswers ==
  ASSUME NEW conditions, AreTrees(conditions), NEW w, NEW v, AlikeButCompleted(w, v),
         NEW id \in DOMAIN conditions,
         \A i \in Leaves(conditions, id) : conditions[i].kind # "actionsComplete"
  PROVE  Check(conditions, id, w) = Check(conditions, id, v)
<1> DEFINE ids == DOMAIN conditions
           R == OperandMap(conditions)
           f == Answers(conditions, w)
           g == Answers(conditions, v)
           Plain(x) == \A i \in Leaves(conditions, x) : conditions[i].kind # "actionsComplete"
           wrong == {x \in ids : Plain(x) /\ f[x] # g[x]}
<1>1. WellFounded(ids, R) /\ \A x \in ids : R[x] = Operands(conditions[x])
  BY TreesFacts DEF OperandMap
<1>2. \A x \in ids : f[x] = AnswerOf(conditions, w, f, x) /\ g[x] = AnswerOf(conditions, v, g, x)
  BY AnswersFacts
<1> HIDE DEF R, f, g
<1>3. SUFFICES ASSUME wrong # {} PROVE FALSE
  BY DEF Check, f, g
<1>4. PICK x \in wrong : R[x] \cap wrong = {}
  BY <1>1, <1>3 DEF WellFounded
<1>5. x \in ids /\ f[x] # g[x]
  BY <1>4
<1>6. CASE ~ IsComposite(conditions[x])
  <2>1. conditions[x].kind # "actionsComplete"
    BY <1>4, <1>6, LeavesFacts
  <2>2. SingularCheck(x, conditions[x], w) = SingularCheck(x, conditions[x], v)
    BY <2>1, SameSingular
  <2>3. QED
    BY <1>2, <1>5, <1>6, <2>2 DEF AnswerOf
<1>7. CASE IsComposite(conditions[x])
  <2>1. \A j \in Operands(conditions[x]) : j \in ids /\ Plain(j)
    BY <1>4, <1>7, LeavesFacts
  <2>2. \A j \in Operands(conditions[x]) : f[j] = g[j]
    BY <1>1, <1>4, <2>1
  <2>3. AnswerOf(conditions, w, f, x) = AnswerOf(conditions, w, g, x)
    BY <1>5, <1>7, <2>2, AnswerOfSame
  <2>4. AnswerOf(conditions, w, g, x) = AnswerOf(conditions, v, g, x)
    BY <1>7 DEF AnswerOf
  <2>5. QED
    BY <1>2, <1>5, <2>3, <2>4
<1>8. QED
  BY <1>6, <1>7
=============================================================================
