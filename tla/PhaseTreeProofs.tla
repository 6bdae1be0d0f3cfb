-------------------------- MODULE PhaseTreeProofs --------------------------
(***************************************************************************)
(* That the tree of phases stays consistent.  The tasks of the simulation  *)
(* thread stand for the nested calls of Phase::Update: a task is there     *)
(* only while the phase that called it runs, and whatever is to be done    *)
(* after the update of a phase concerns no phase below that one.           *)
(*                                                                         *)
(* Predicates take the diagram d, the states st and the positions pos as   *)
(* parameters, so that lemmas about them apply before and after a step.    *)
(***************************************************************************)
EXTENDS PhaseDiagram, ConditionsProofs, FiniteSetTheorems

-----------------------------------------------------------------------------
(* The tree of phases of a diagram. *)

Ps(d) == DOMAIN d.phase
ChildrenIn(d, p) == ToSet(d.phase[p].children)
OperationsIn(d, p) == ToSet(d.phase[p].operations)
NestedMap(d) == [p \in Ps(d) |-> Nested(d, p)]

\* The phases that the update or the end of p may reach, p among them.
Below(d, p) == Reached(Ps(d), NestedMap(d), p)

LEMMA DiagramFacts ==
  ASSUME NEW d \in Diagrams
  PROVE  /\ d.root \in Ps(d) /\ NoPhase \notin Ps(d)
         /\ \A p \in Ps(d) : /\ d.phase[p].children \in Seq(Ps(d))
                             /\ d.phase[p].operations \in Seq(Ps(d))
                             /\ Nested(d, p) = ChildrenIn(d, p) \cup OperationsIn(d, p)
                             /\ Nested(d, p) \subseteq Ps(d) /\ d.root \notin Nested(d, p)
                             /\ \A q \in Ps(d) : p # q => Nested(d, p) \cap Nested(d, q) = {}
                             /\ d.phase[p].kind \in {"mix", "serial", "drive", "system"}
         /\ NestedMap(d) \in [Ps(d) -> SUBSET Ps(d)]
         /\ WellFounded(Ps(d), NestedMap(d))
<1>1. /\ d.root \in Ps(d) /\ NoPhase \notin Ps(d)
      /\ \A p \in Ps(d) : d.phase[p].kind \in {"mix", "serial", "drive", "system"}
  BY DiagramAssumption DEF Ps
<1>2. ASSUME NEW p \in Ps(d)
      PROVE  /\ d.phase[p].children \in Seq(Ps(d) \ {d.root})
             /\ d.phase[p].operations \in Seq(Ps(d) \ {d.root})
  BY <1>2, DiagramAssumption DEF Ps
<1>3. ASSUME NEW p \in Ps(d)
      PROVE  /\ d.phase[p].children \in Seq(Ps(d))
             /\ d.phase[p].operations \in Seq(Ps(d))
             /\ Nested(d, p) = ChildrenIn(d, p) \cup OperationsIn(d, p)
             /\ Nested(d, p) \subseteq Ps(d) /\ d.root \notin Nested(d, p)
  BY <1>2, <1>3 DEF Nested, ChildrenIn, OperationsIn, ToSet
<1>4. ASSUME NEW p \in Ps(d), NEW q \in Ps(d), p # q
      PROVE  Nested(d, p) \cap Nested(d, q) = {}
  BY <1>4, DiagramAssumption DEF Ps
<1>5. NestedMap(d) \in [Ps(d) -> SUBSET Ps(d)]
  BY <1>3 DEF NestedMap
<1>6. WellFounded(Ps(d), NestedMap(d))
  <2>1. ASSUME NEW S \in SUBSET Ps(d), S # {}
        PROVE  \E p \in S : Nested(d, p) \cap S = {}
    BY <2>1, DiagramAssumption DEF Ps
  <2>2. QED
    BY <2>1 DEF WellFounded, NestedMap
<1>7. QED
  BY <1>1, <1>3, <1>4, <1>5, <1>6

\* A function on the first m numbers is a sequence.
LEMMA SequenceOf ==
  ASSUME NEW m \in Nat, NEW T, NEW s, s = [i \in 1 .. m |-> s[i]], \A i \in 1 .. m : s[i] \in T
  PROVE  s \in Seq(T) /\ Len(s) = m
OBVIOUS

\* Pairs of tasks number twice as many as what they are about.
LEMMA HalfFacts ==
  ASSUME NEW m \in Nat
  PROVE  /\ 2 * m \in Nat
         /\ \A i \in 1 .. 2 * m : (i + 1) \div 2 \in 1 .. m
         /\ \A i, j \in 1 .. 2 * m :
              i < j /\ i % 2 = 1 /\ j % 2 = 1 => (i + 1) \div 2 # (j + 1) \div 2
OBVIOUS

\* No phase is twice below another one.
LEMMA NestedOnce ==
  ASSUME NEW d \in Diagrams, NEW p \in Ps(d)
  PROVE  /\ \A i, j \in 1 .. Len(d.phase[p].children) :
              d.phase[p].children[i] = d.phase[p].children[j] => i = j
         /\ \A i, j \in 1 .. Len(d.phase[p].operations) :
              d.phase[p].operations[i] = d.phase[p].operations[j] => i = j
         /\ ChildrenIn(d, p) \cap OperationsIn(d, p) = {}
<1> DEFINE c == d.phase[p].children
           o == d.phase[p].operations
<1>1. c \in Seq(Ps(d)) /\ o \in Seq(Ps(d))
  BY DiagramFacts
<1>2. IsInjective(c \o o)
  BY DiagramAssumption DEF Ps
<1>3. ChildrenIn(d, p) = {c[i] : i \in 1 .. Len(c)} /\ OperationsIn(d, p) = {o[i] : i \in 1 .. Len(o)}
  BY <1>1 DEF ChildrenIn, OperationsIn, ToSet
<1> HIDE DEF c, o
<1>4. /\ DOMAIN (c \o o) = 1 .. Len(c) + Len(o)
      /\ \A i \in 1 .. Len(c) : (c \o o)[i] = c[i] /\ i \in 1 .. Len(c) + Len(o)
      /\ \A i \in 1 .. Len(o) : (c \o o)[i + Len(c)] = o[i] /\ i + Len(c) \in 1 .. Len(c) + Len(o)
  BY <1>1
<1>5. \A i, j \in 1 .. Len(c) + Len(o) : (c \o o)[i] = (c \o o)[j] => i = j
  BY <1>2, <1>4 DEF IsInjective
<1>6. \A i, j \in 1 .. Len(c) : c[i] = c[j] => i = j
  BY <1>4, <1>5
<1>7. \A i, j \in 1 .. Len(o) : o[i] = o[j] => i = j
  <2>1. SUFFICES ASSUME NEW i \in 1 .. Len(o), NEW j \in 1 .. Len(o), o[i] = o[j] PROVE i = j
    OBVIOUS
  <2>2. i + Len(c) = j + Len(c)
    BY <1>4, <1>5, <2>1
  <2>3. QED
    BY <1>1, <2>2
<1>8. ASSUME NEW i \in 1 .. Len(c), NEW j \in 1 .. Len(o), c[i] = o[j] PROVE FALSE
  <2>1. i = j + Len(c)
    BY <1>4, <1>5, <1>8
  <2>2. QED
    BY <1>1, <2>1
<1>9. QED
  BY <1>3, <1>6, <1>7, <1>8 DEF c, o

LEMMA BelowFacts ==
  ASSUME NEW d \in Diagrams, NEW p \in Ps(d)
  PROVE  /\ p \in Below(d, p) /\ Below(d, p) \subseteq Ps(d)
         /\ \A q \in Below(d, p) : Nested(d, q) \subseteq Below(d, p)
         /\ \A q \in Nested(d, p) : Below(d, q) \subseteq Below(d, p)
         /\ \A q \in Nested(d, p) : p \notin Below(d, q)
         /\ \A q, r \in Nested(d, p) : q # r => q \notin Below(d, r)
<1> DEFINE N == NestedMap(d)
<1>1. N \in [Ps(d) -> SUBSET Ps(d)] /\ \A q \in Ps(d) : N[q] = Nested(d, q)
  BY DiagramFacts DEF NestedMap
<1>2. \A q \in Ps(d) : Nested(d, q) \subseteq Ps(d)
  BY DiagramFacts
<1> HIDE DEF N
<1>3. ASSUME NEW x \in Ps(d)
      PROVE  /\ x \in Below(d, x) /\ Below(d, x) \subseteq Ps(d)
             /\ ClosedUnder(N, Below(d, x))
             /\ \A y \in Below(d, x) : Below(d, y) \subseteq Below(d, x)
             /\ \A y \in Below(d, x) : y # x => \E z \in Below(d, x) : y \in N[z]
  BY <1>1, ReachedFacts DEF Below, N
<1>4. ASSUME NEW x \in Ps(d), NEW q \in Below(d, x)
      PROVE  Nested(d, q) \subseteq Below(d, x)
  BY <1>1, <1>3, <1>4 DEF ClosedUnder
<1>5. ASSUME NEW x \in Ps(d), NEW q \in Nested(d, x)
      PROVE  q \in Ps(d) /\ Below(d, q) \subseteq Below(d, x)
  BY <1>2, <1>3, <1>4, <1>5
<1>6. ASSUME NEW q \in Nested(d, p), p \in Below(d, q)
      PROVE  FALSE
  <2> DEFINE S == {x \in Below(d, q) : p \in Below(d, x)}
  <2>1. q \in Ps(d) /\ Below(d, q) \subseteq Ps(d) /\ q \in Below(d, q)
    BY <1>3, <1>5, <1>6
  <2>2. S \subseteq Ps(d) /\ q \in S
    BY <1>6, <2>1
  <2>3. PICK m \in S : N[m] \cap S = {}
    BY <2>2, DiagramFacts DEF WellFounded, N
  <2>4. m \in Ps(d) /\ Nested(d, m) \cap S = {} /\ Nested(d, m) \subseteq Below(d, q)
    BY <1>1, <1>4, <2>1, <2>3
  <2>5. m # p
    BY <1>6, <2>2, <2>4
  <2>6. p \in Below(d, m) /\ m \in Below(d, m)
    BY <1>3, <2>3, <2>4
  <2> DEFINE T == {m} \cup UNION {Below(d, x) : x \in Nested(d, m)}
  <2>7. \A x \in Nested(d, m) : x \in Ps(d) /\ x \in Below(d, x) /\ Below(d, x) \subseteq Ps(d)
                                /\ \A y \in Below(d, x) : Nested(d, y) \subseteq Below(d, x)
    BY <1>2, <1>3, <1>4, <2>4
  <2>8. T \in SUBSET Ps(d) /\ m \in T
    BY <2>4, <2>7
  <2>9. ClosedUnder(N, T)
    <3>1. SUFFICES ASSUME NEW y \in T, NEW z \in N[y] PROVE z \in T
      BY DEF ClosedUnder
    <3>2. CASE y = m
      BY <1>1, <2>4, <2>7, <3>1, <3>2
    <3>3. CASE \E x \in Nested(d, m) : y \in Below(d, x)
      BY <1>1, <2>7, <3>1, <3>3
    <3>4. QED
      BY <3>1, <3>2, <3>3
  <2>10. Below(d, m) \subseteq T
    <3> HIDE DEF T
    <3>1. QED
      BY <1>1, <2>4, <2>8, <2>9, ReachedFacts DEF Below, N
  <2>11. PICK x \in Nested(d, m) : p \in Below(d, x)
    BY <2>5, <2>6, <2>10
  <2>12. QED
    BY <2>4, <2>11
<1>7. ASSUME NEW q \in Nested(d, p), NEW r \in Nested(d, p), q # r, q \in Below(d, r)
      PROVE  FALSE
  <2>1. r \in Ps(d) /\ q \in Ps(d)
    BY <1>5, <1>7
  <2>2. PICK z \in Below(d, r) : q \in N[z]
    BY <1>3, <1>7, <2>1
  <2>3. z \in Ps(d) /\ q \in Nested(d, z)
    BY <1>1, <1>3, <2>1, <2>2
  <2>4. z = p
    BY <1>7, <2>3, DiagramFacts
  <2>5. QED
    BY <1>6, <1>7, <2>2, <2>4
<1>8. QED
  BY <1>3, <1>4, <1>5, <1>6, <1>7

\* A phase ends with itself and what remains below it: no more, since the recursion stops.
LEMMA EndingFacts ==
  ASSUME diagram \in Diagrams, NEW p \in Phases
  PROVE  /\ p \in EndingWith(p) /\ EndingWith(p) \subseteq Below(diagram, p)
         /\ \A q \in EndingWith(p) : ~ IsActionPhase(q) => Remaining(q) \subseteq EndingWith(p)
         /\ \A q \in EndingWith(p) : q # p =>
              \E r \in EndingWith(p) : ~ IsActionPhase(r) /\ q \in ChildrenIn(diagram, r)
<1> DEFINE N == NestedMap(diagram)
           R == [q \in Phases |-> IF IsActionPhase(q) THEN {} ELSE Remaining(q)]
           E == Reached(Phases, R, p)
<1>1. /\ Phases = Ps(diagram)
      /\ \A q \in Phases : /\ diagram.phase[q].children \in Seq(Phases)
                           /\ ChildrenIn(diagram, q) \subseteq Nested(diagram, q)
                           /\ Nested(diagram, q) \subseteq Phases
  BY DiagramFacts DEF Phases, Ps
<1>2. \A q \in Phases : Remaining(q) \subseteq ChildrenIn(diagram, q)
  BY <1>1 DEF Remaining, ChildrenIn, ToSet
<1>3. R \in [Phases -> SUBSET Phases] /\ \A q \in Phases : R[q] \subseteq N[q]
  BY <1>1, <1>2 DEF NestedMap
<1>4. N \in [Phases -> SUBSET Phases] /\ WellFounded(Phases, N)
  BY <1>1, DiagramFacts
<1>5. WellFounded(Phases, R)
  <2> HIDE DEF N, R
  <2>1. SUFFICES ASSUME NEW S \in SUBSET Phases, S # {} PROVE \E x \in S : R[x] \cap S = {}
    BY DEF WellFounded
  <2>2. PICK x \in S : N[x] \cap S = {}
    BY <1>4, <2>1 DEF WellFounded
  <2>3. QED
    BY <1>3, <2>2
<1>6. EndingWith(p) = E
  <2> DEFINE Ending(f) == [q \in Phases |-> {q} \cup
                             IF IsActionPhase(q) THEN {} ELSE UNION {f[r] : r \in Remaining(q)}]
             Reaching(f) == [q \in Phases |-> ReachedFrom(R, f, q)]
  <2>1. EndingWith(p) = (CHOOSE f : f = Ending(f))[p]
    BY DEF EndingWith
  <2>2. \A f : Ending(f) = Reaching(f)
    <3>1. SUFFICES ASSUME NEW f
                   PROVE  \A q \in Phases :
                            {q} \cup (IF IsActionPhase(q) THEN {} ELSE UNION {f[r] : r \in Remaining(q)})
                              = ReachedFrom(R, f, q)
      OBVIOUS
    <3>2. ASSUME NEW q \in Phases
          PROVE  {q} \cup (IF IsActionPhase(q) THEN {} ELSE UNION {f[r] : r \in Remaining(q)})
                   = ReachedFrom(R, f, q)
      <4>1. R[q] = IF IsActionPhase(q) THEN {} ELSE Remaining(q)
        OBVIOUS
      <4> HIDE DEF R
      <4>2. QED
        BY <4>1 DEF ReachedFrom
    <3>3. QED
      BY <3>2
  <2> HIDE DEF Ending, Reaching
  <2>3. EndingWith(p) = (CHOOSE f : f = Reaching(f))[p]
    BY <2>1, <2>2
  <2>4. EndingWith(p) = (CHOOSE f : f = [q \in Phases |-> ReachedFrom(R, f, q)])[p]
    BY <2>3 DEF Reaching
  <2> HIDE DEF R
  <2>5. QED
    BY <1>3, <1>5, <2>4, RecursionReaches
<1>7. \A q \in Phases : /\ ~ IsActionPhase(q) => R[q] = Remaining(q)
                        /\ IsActionPhase(q) => R[q] = {}
  OBVIOUS
<1> HIDE DEF R
<1>8. /\ p \in E /\ E \subseteq Phases /\ ClosedUnder(R, E)
      /\ \A S \in SUBSET Phases : p \in S /\ ClosedUnder(R, S) => E \subseteq S
      /\ \A y \in E : y # p => \E z \in E : y \in R[z]
  BY <1>3, ReachedFacts
<1> HIDE DEF E
<1>9. E \subseteq Below(diagram, p)
  <2>1. Below(diagram, p) \in SUBSET Phases /\ p \in Below(diagram, p)
        /\ \A q \in Below(diagram, p) : Nested(diagram, q) \subseteq Below(diagram, p)
    BY <1>1, BelowFacts
  <2>2. ClosedUnder(R, Below(diagram, p))
    BY <1>1, <1>3, <2>1 DEF ClosedUnder, NestedMap
  <2>3. QED
    BY <1>8, <2>1, <2>2
<1>10. \A q \in E : ~ IsActionPhase(q) => Remaining(q) \subseteq E
  BY <1>7, <1>8 DEF ClosedUnder
<1>11. \A q \in E : q # p => \E r \in E : ~ IsActionPhase(r) /\ q \in ChildrenIn(diagram, r)
  BY <1>2, <1>7, <1>8
<1>12. QED
  BY <1>6, <1>8, <1>9, <1>10, <1>11

-----------------------------------------------------------------------------
(* The tasks of the simulation thread. *)

Tasks(d) == [do : {"update", "join", "finish"}, phase : Ps(d), child : Ps(d)]

\* A serial phase updates the child at its position.
IsCurrent(d, pos, p, c) ==
  d.phase[p].kind = "serial" =>
    pos[p] \in 1 .. Len(d.phase[p].children) /\ c = d.phase[p].children[pos[p]]

\* Whoever has called for a task runs, and so does its phase unless it is to be updated.
Called(d, st, pos, t) ==
  /\ t.do = "update" =>
       /\ t.child = t.phase
       /\ \A p \in Ps(d) : t.phase \in Nested(d, p) =>
            st[p] = "run" /\ (t.phase \in ChildrenIn(d, p) => IsCurrent(d, pos, p, t.phase))
  /\ t.do = "join" =>
       st[t.phase] = "run" /\ t.child \in ChildrenIn(d, t.phase) /\ IsCurrent(d, pos, t.phase, t.child)
  /\ t.do = "finish" => st[t.phase] = "run" /\ t.child = t.phase

\* A task u may be done after a task t.
Follows(d, t, u) ==
  /\ t.do \in {"update", "finish"} => u.phase \notin Below(d, t.phase)
  /\ t.do = "join" /\ d.phase[t.phase].kind = "serial" =>
       /\ \A c \in ChildrenIn(d, t.phase) : u.phase \notin Below(d, c)
       /\ ~ (u.do = "join" /\ u.phase = t.phase)

StackIs(d, st, pos, s) ==
  /\ \A i \in 1 .. Len(s) : Called(d, st, pos, s[i])
  /\ \A i, j \in 1 .. Len(s) : i < j => Follows(d, s[i], s[j])

LEMMA PopStack ==
  ASSUME NEW d, NEW st, NEW pos, NEW s \in Seq(Tasks(d)), s # << >>, StackIs(d, st, pos, s)
  PROVE  /\ Head(s) \in Tasks(d) /\ Tail(s) \in Seq(Tasks(d))
         /\ Called(d, st, pos, Head(s)) /\ StackIs(d, st, pos, Tail(s))
         /\ \A i \in 1 .. Len(Tail(s)) : Follows(d, Head(s), Tail(s)[i])
<1> DEFINE T == Tasks(d)
<1> HIDE DEF T
<1>1. s \in Seq(T)
  BY DEF T
<1>2. /\ Head(s) \in T /\ Head(s) = s[1] /\ Tail(s) \in Seq(T) /\ 1 \in 1 .. Len(s)
      /\ \A i \in 1 .. Len(Tail(s)) : /\ i + 1 \in 1 .. Len(s) /\ 1 < i + 1 /\ Tail(s)[i] = s[i + 1]
                                      /\ \A j \in 1 .. Len(Tail(s)) : i < j => i + 1 < j + 1
  BY <1>1
<1>3. Called(d, st, pos, Head(s)) /\ \A i \in 1 .. Len(Tail(s)) : Follows(d, Head(s), Tail(s)[i])
  BY <1>2 DEF StackIs
<1>4. StackIs(d, st, pos, Tail(s))
  BY <1>2 DEF StackIs
<1>5. QED
  BY <1>2, <1>3, <1>4 DEF T

LEMMA PushStack ==
  ASSUME NEW d, NEW st, NEW pos, NEW n \in Seq(Tasks(d)), NEW r \in Seq(Tasks(d)),
         StackIs(d, st, pos, n), StackIs(d, st, pos, r),
         \A i \in 1 .. Len(n) : \A j \in 1 .. Len(r) : Follows(d, n[i], r[j])
  PROVE  n \o r \in Seq(Tasks(d)) /\ StackIs(d, st, pos, n \o r)
<1> DEFINE T == Tasks(d)
           s == n \o r
<1> HIDE DEF T
<1>1. n \in Seq(T) /\ r \in Seq(T)
  BY DEF T
<1>2. /\ s \in Seq(T) /\ Len(s) = Len(n) + Len(r)
      /\ \A i \in 1 .. Len(n) : s[i] = n[i]
      /\ \A i \in 1 .. Len(s) : i \notin 1 .. Len(n) => i - Len(n) \in 1 .. Len(r) /\ s[i] = r[i - Len(n)]
  BY <1>1
<1> HIDE DEF s
<1>3. ASSUME NEW i \in 1 .. Len(s) PROVE Called(d, st, pos, s[i])
  BY <1>2 DEF StackIs
<1>4. ASSUME NEW i \in 1 .. Len(s), NEW j \in 1 .. Len(s), i < j PROVE Follows(d, s[i], s[j])
  <2>1. CASE j \in 1 .. Len(n)
    <3>1. i \in 1 .. Len(n)
      BY <1>1, <1>4, <2>1
    <3>2. QED
      BY <1>2, <1>4, <2>1, <3>1 DEF StackIs
  <2>2. CASE j \notin 1 .. Len(n) /\ i \in 1 .. Len(n)
    BY <1>2, <2>2
  <2>3. CASE j \notin 1 .. Len(n) /\ i \notin 1 .. Len(n)
    <3>1. /\ i - Len(n) \in 1 .. Len(r) /\ s[i] = r[i - Len(n)]
          /\ j - Len(n) \in 1 .. Len(r) /\ s[j] = r[j - Len(n)]
      BY <1>2, <2>3
    <3>2. i - Len(n) < j - Len(n)
      BY <1>1, <1>4
    <3>3. QED
      BY <3>1, <3>2 DEF StackIs
  <2>4. QED
    BY <2>1, <2>2, <2>3
<1>5. QED
  BY <1>2, <1>3, <1>4 DEF s, StackIs, T

\* A step that does not disturb the callers.
LEMMA SameStack ==
  ASSUME NEW d, NEW st, NEW pos, NEW st2, NEW pos2, NEW s, StackIs(d, st, pos, s),
         \A i \in 1 .. Len(s) : Called(d, st, pos, s[i]) => Called(d, st2, pos2, s[i])
  PROVE  StackIs(d, st2, pos2, s)
BY DEF StackIs

-----------------------------------------------------------------------------
(* What the update of a running phase calls for. *)

RestOf(d, p, r) ==
  [i \in DOMAIN d.phase[p].operations |-> Update(d.phase[p].operations[i])]
    \o <<Task("finish", p, p)>> \o r

\* The tasks that may follow those of the children of p.
Later(d, p, u) ==
  \/ u.phase \notin Below(d, p)
  \/ u.do # "join" /\ u.phase = p
  \/ u.do # "join" /\ u.phase \in OperationsIn(d, p)

LEMMA CallOne ==
  ASSUME NEW d, NEW st, NEW pos, NEW t \in Tasks(d), Called(d, st, pos, t)
  PROVE  <<t>> \in Seq(Tasks(d)) /\ Len(<<t>>) = 1 /\ <<t>>[1] = t /\ StackIs(d, st, pos, <<t>>)
<1> DEFINE T == Tasks(d)
           s == <<t>>
<1> HIDE DEF T
<1>1. t \in T
  BY DEF T
<1>2. s \in Seq(T) /\ Len(s) = 1 /\ s[1] = t
  BY <1>1
<1> HIDE DEF s
<1>3. StackIs(d, st, pos, s)
  BY <1>2 DEF StackIs
<1>4. QED
  BY <1>2, <1>3 DEF s, T

LEMMA ChildApart ==
  ASSUME NEW d \in Diagrams, NEW p \in Ps(d), NEW c \in Nested(d, p), NEW q,
         q \notin Below(d, p) \/ q = p \/ (q \in Nested(d, p) /\ q # c)
  PROVE  q \notin Below(d, c)
BY BelowFacts

LEMMA RestStack ==
  ASSUME NEW d \in Diagrams, NEW st, NEW pos, NEW p \in Ps(d), st[p] = "run",
         NEW r \in Seq(Tasks(d)), StackIs(d, st, pos, r),
         \A i \in 1 .. Len(r) : r[i].phase \notin Below(d, p)
  PROVE  /\ RestOf(d, p, r) \in Seq(Tasks(d)) /\ StackIs(d, st, pos, RestOf(d, p, r))
         /\ \A i \in 1 .. Len(RestOf(d, p, r)) : Later(d, p, RestOf(d, p, r)[i])
<1> DEFINE T == Tasks(d)
           o == d.phase[p].operations
           n == [i \in DOMAIN o |-> Update(o[i])]
           t == Task("finish", p, p)
<1>1. /\ o \in Seq(Ps(d)) /\ OperationsIn(d, p) \subseteq Nested(d, p) /\ Nested(d, p) \subseteq Ps(d)
      /\ \A q \in Ps(d) : p # q => Nested(d, p) \cap Nested(d, q) = {}
  BY DiagramFacts
<1>2. OperationsIn(d, p) = {o[i] : i \in 1 .. Len(o)}
  BY <1>1 DEF OperationsIn, ToSet
<1>3. /\ \A i, j \in 1 .. Len(o) : o[i] = o[j] => i = j
      /\ ChildrenIn(d, p) \cap OperationsIn(d, p) = {}
  BY NestedOnce
<1>4. /\ p \in Below(d, p)
      /\ \A q \in Nested(d, p) : Below(d, q) \subseteq Below(d, p) /\ p \notin Below(d, q)
      /\ \A q, x \in Nested(d, p) : q # x => q \notin Below(d, x)
  BY BelowFacts
<1>5. t \in T /\ t.phase = p /\ t.do = "finish" /\ t.child = p /\ Called(d, st, pos, t)
  BY DEF Task, Tasks, Called
<1> HIDE DEF o, t, T
<1>6. ASSUME NEW i \in 1 .. Len(o)
      PROVE  /\ o[i] \in OperationsIn(d, p)
             /\ Update(o[i]) \in T /\ Called(d, st, pos, Update(o[i]))
             /\ Update(o[i]).phase = o[i] /\ Update(o[i]).do = "update"
  <2>1. o[i] \in OperationsIn(d, p) /\ o[i] \in Ps(d) /\ o[i] \notin ChildrenIn(d, p)
    BY <1>1, <1>2, <1>3
  <2>2. \A q \in Ps(d) : o[i] \in Nested(d, q) => q = p
    BY <1>1, <2>1
  <2>3. QED
    BY <2>1, <2>2 DEF Update, Task, Tasks, T, Called
<1>7. /\ n \in Seq(T) /\ Len(n) = Len(o)
      /\ \A i \in 1 .. Len(o) : n[i] = Update(o[i])
  BY <1>1, <1>6
<1> HIDE DEF n
<1>8. StackIs(d, st, pos, n)
  <2>1. ASSUME NEW i \in 1 .. Len(n), NEW j \in 1 .. Len(n), i < j
        PROVE  Follows(d, n[i], n[j])
    <3>1. /\ n[i].phase = o[i] /\ n[i].do = "update" /\ n[j].phase = o[j]
          /\ o[i] \in Nested(d, p) /\ o[j] \in Nested(d, p) /\ o[i] # o[j]
      BY <1>1, <1>3, <1>6, <1>7, <2>1
    <3>2. QED
      BY <1>4, <3>1 DEF Follows
  <2>2. QED
    BY <1>6, <1>7, <2>1 DEF StackIs
<1>9. /\ <<t>> \in Seq(T) /\ Len(<<t>>) = 1 /\ <<t>>[1] = t /\ StackIs(d, st, pos, <<t>>)
  BY <1>5, CallOne DEF T
<1>10. \A i \in 1 .. Len(n) : \A j \in 1 .. Len(<<t>>) : Follows(d, n[i], <<t>>[j])
  <2>1. SUFFICES ASSUME NEW i \in 1 .. Len(n) PROVE Follows(d, n[i], t)
    BY <1>9
  <2>2. n[i].phase = o[i] /\ n[i].do = "update" /\ o[i] \in Nested(d, p)
    BY <1>1, <1>6, <1>7
  <2>3. QED
    BY <1>4, <1>5, <2>2 DEF Follows
<1> DEFINE m == n \o <<t>>
<1>11. m \in Seq(T) /\ StackIs(d, st, pos, m)
  BY <1>7, <1>8, <1>9, <1>10, PushStack DEF T
<1>12. \A i \in 1 .. Len(m) : \/ m[i].do = "update" /\ m[i].phase \in OperationsIn(d, p)
                              \/ m[i].do = "finish" /\ m[i].phase = p
  <2>1. ASSUME NEW i \in 1 .. Len(m)
        PROVE  (i \in 1 .. Len(n) /\ m[i] = n[i]) \/ m[i] = t
    BY <1>7, <1>9
  <2>2. QED
    BY <1>5, <1>6, <1>7, <2>1
<1> HIDE DEF m
<1>13. \A i \in 1 .. Len(m) : \A j \in 1 .. Len(r) : Follows(d, m[i], r[j])
  BY <1>1, <1>4, <1>12 DEF Follows
<1>14. m \o r \in Seq(T) /\ StackIs(d, st, pos, m \o r)
  BY <1>11, <1>13, PushStack DEF T
<1>15. \A i \in 1 .. Len(m \o r) : Later(d, p, (m \o r)[i])
  <2>1. ASSUME NEW i \in 1 .. Len(m \o r)
        PROVE  \/ i \in 1 .. Len(m) /\ (m \o r)[i] = m[i]
               \/ \E j \in 1 .. Len(r) : (m \o r)[i] = r[j]
    <3>1. r \in Seq(T)
      BY DEF T
    <3>2. i \notin 1 .. Len(m) => i - Len(m) \in 1 .. Len(r) /\ (m \o r)[i] = r[i - Len(m)]
      BY <1>11, <3>1
    <3>3. i \in 1 .. Len(m) => (m \o r)[i] = m[i]
      BY <1>11, <3>1
    <3>4. QED
      BY <3>2, <3>3
  <2>2. QED
    BY <1>12, <2>1 DEF Later
<1>16. RestOf(d, p, r) = m \o r
  BY DEF RestOf, m, n, t, o
<1>17. QED
  BY <1>14, <1>15, <1>16 DEF T

\* A task for a child of a running phase p.
LEMMA ChildTasks ==
  ASSUME NEW d \in Diagrams, NEW st, NEW pos, NEW p \in Ps(d), st[p] = "run",
         NEW c \in ChildrenIn(d, p), IsCurrent(d, pos, p, c)
  PROVE  /\ Update(c) \in Tasks(d) /\ Called(d, st, pos, Update(c))
         /\ Update(c).phase = c /\ Update(c).do = "update"
         /\ Task("join", p, c) \in Tasks(d) /\ Called(d, st, pos, Task("join", p, c))
         /\ Task("join", p, c).phase = p /\ Task("join", p, c).do = "join"
<1>1. /\ c \in Nested(d, p) /\ c \in Ps(d)
      /\ \A q \in Ps(d) : p # q => Nested(d, p) \cap Nested(d, q) = {}
  BY DiagramFacts
<1>2. \A q \in Ps(d) : c \in Nested(d, q) => q = p
  BY <1>1
<1>3. QED
  BY <1>1, <1>2 DEF Update, Task, Tasks, Called

LEMMA PairStack ==
  ASSUME NEW d \in Diagrams, NEW st, NEW pos, NEW p \in Ps(d), st[p] = "run",
         NEW c \in ChildrenIn(d, p), IsCurrent(d, pos, p, c),
         NEW r \in Seq(Tasks(d)), StackIs(d, st, pos, r),
         \A i \in 1 .. Len(r) : /\ \A q \in ChildrenIn(d, p) : r[i].phase \notin Below(d, q)
                                /\ ~ (r[i].do = "join" /\ r[i].phase = p)
  PROVE  /\ UpdateAndJoin(p, c) \o r \in Seq(Tasks(d))
         /\ StackIs(d, st, pos, UpdateAndJoin(p, c) \o r)
<1> DEFINE T == Tasks(d)
           u == Update(c)
           j == Task("join", p, c)
           n == <<u, j>>
<1>1. /\ u \in T /\ Called(d, st, pos, u) /\ u.phase = c /\ u.do = "update"
      /\ j \in T /\ Called(d, st, pos, j) /\ j.phase = p /\ j.do = "join"
  BY ChildTasks
<1>2. p \notin Below(d, c)
  BY DiagramFacts, BelowFacts
<1>3. UpdateAndJoin(p, c) = n
  BY DEF UpdateAndJoin
<1> HIDE DEF u, j, T
<1>4. n \in Seq(T) /\ Len(n) = 2 /\ n[1] = u /\ n[2] = j
  BY <1>1
<1> HIDE DEF n
<1>5. Follows(d, u, j)
  BY <1>1, <1>2 DEF Follows
<1>6. StackIs(d, st, pos, n)
  <2>1. \A i \in 1 .. Len(n) : i = 1 \/ i = 2
    BY <1>4
  <2>2. \A i, k \in 1 .. Len(n) : i < k => i = 1 /\ k = 2
    BY <1>4
  <2>3. QED
    BY <1>1, <1>4, <1>5, <2>1, <2>2 DEF StackIs
<1>7. ASSUME NEW k \in 1 .. Len(r)
      PROVE  Follows(d, u, r[k]) /\ Follows(d, j, r[k])
  BY <1>1 DEF Follows
<1>8. \A i \in 1 .. Len(n) : \A k \in 1 .. Len(r) : Follows(d, n[i], r[k])
  <2>1. \A i \in 1 .. Len(n) : n[i] = u \/ n[i] = j
    BY <1>4
  <2>2. QED
    BY <1>7, <2>1
<1>9. n \o r \in Seq(Tasks(d)) /\ StackIs(d, st, pos, n \o r)
  BY <1>4, <1>6, <1>8, PushStack DEF T
<1>10. QED
  BY <1>3, <1>9

\* The children of a parallel phase, each updated and joined, in the order o.
PairsOf(d, p, o) ==
  [i \in 1 .. 2 * Len(o) |-> IF i % 2 = 1 THEN Update(d.phase[p].children[o[(i + 1) \div 2]])
                             ELSE Task("join", p, d.phase[p].children[o[(i + 1) \div 2]])]

LEMMA MixChildTasks ==
  ASSUME NEW d \in Diagrams, NEW st, NEW pos, NEW p \in Ps(d), st[p] = "run",
         d.phase[p].kind = "mix"
  PROVE  \A c \in ChildrenIn(d, p) :
           /\ Update(c) \in Tasks(d) /\ Called(d, st, pos, Update(c))
           /\ Update(c).phase = c /\ Update(c).do = "update"
           /\ Task("join", p, c) \in Tasks(d) /\ Called(d, st, pos, Task("join", p, c))
           /\ Task("join", p, c).phase = p /\ Task("join", p, c).do = "join"
<1>1. ASSUME NEW c \in ChildrenIn(d, p) PROVE IsCurrent(d, pos, p, c)
  BY DEF IsCurrent
<1>2. QED
  BY <1>1, ChildTasks

LEMMA PairsStack ==
  ASSUME NEW d \in Diagrams, NEW st, NEW pos, NEW p \in Ps(d), st[p] = "run",
         d.phase[p].kind = "mix",
         NEW o \in Seq(1 .. Len(d.phase[p].children)), IsInjective(o),
         NEW r \in Seq(Tasks(d)), StackIs(d, st, pos, r),
         \A i \in 1 .. Len(r) : \A q \in ChildrenIn(d, p) : r[i].phase \notin Below(d, q)
  PROVE  /\ PairsOf(d, p, o) \o r \in Seq(Tasks(d))
         /\ StackIs(d, st, pos, PairsOf(d, p, o) \o r)
<1>0. \A x \in ChildrenIn(d, p) :
        /\ Update(x) \in Tasks(d) /\ Called(d, st, pos, Update(x))
        /\ Update(x).phase = x /\ Update(x).do = "update"
        /\ Task("join", p, x) \in Tasks(d) /\ Called(d, st, pos, Task("join", p, x))
        /\ Task("join", p, x).phase = p /\ Task("join", p, x).do = "join"
  <2>1. d \in Diagrams /\ st[p] = "run" /\ d.phase[p].kind = "mix" /\ p \in Ps(d)
    OBVIOUS
  <2>2. SUFFICES ASSUME NEW x \in ChildrenIn(d, p)
                 PROVE  /\ Update(x) \in Tasks(d) /\ Called(d, st, pos, Update(x))
                        /\ Update(x).phase = x /\ Update(x).do = "update"
                        /\ Task("join", p, x) \in Tasks(d) /\ Called(d, st, pos, Task("join", p, x))
                        /\ Task("join", p, x).phase = p /\ Task("join", p, x).do = "join"
    OBVIOUS
  <2>3. QED
    BY ONLY <2>1, <2>2, MixChildTasks
<1> DEFINE T == Tasks(d)
           n == PairsOf(d, p, o)
           c(i) == d.phase[p].children[o[(i + 1) \div 2]]
<1> DEFINE m == Len(o)
<1>1. /\ m \in Nat /\ 2 * m \in Nat
      /\ \A i \in 1 .. 2 * m : (i + 1) \div 2 \in 1 .. m
      /\ \A i, j \in 1 .. 2 * m :
           i < j /\ i % 2 = 1 /\ j % 2 = 1 => (i + 1) \div 2 # (j + 1) \div 2
  <2>1. m \in Nat
    OBVIOUS
  <2> HIDE DEF m
  <2>2. QED
    BY ONLY <2>1, HalfFacts
<1>2. \A i, j \in 1 .. 2 * Len(o) : i < j /\ i % 2 = 1 /\ j % 2 = 1 => (i + 1) \div 2 # (j + 1) \div 2
  BY <1>1
<1>3. \A i \in 1 .. 2 * Len(o) : o[(i + 1) \div 2] \in 1 .. Len(d.phase[p].children)
  <2> DEFINE S == 1 .. Len(d.phase[p].children)
  <2>1. o \in Seq(S)
    OBVIOUS
  <2> HIDE DEF S
  <2>2. \A k \in 1 .. Len(o) : o[k] \in S
    BY <2>1
  <2>3. QED
    BY <1>1, <2>2 DEF S
<1>4. d.phase[p].children \in Seq(Ps(d)) /\ ChildrenIn(d, p) \subseteq Nested(d, p)
  BY DiagramFacts
<1>5. \A i \in 1 .. 2 * Len(o) : c(i) \in ChildrenIn(d, p)
  <2> DEFINE children == d.phase[p].children
  <2>1. ChildrenIn(d, p) = {children[k] : k \in 1 .. Len(children)}
    <3>1. children \in Seq(Ps(d))
      BY <1>4
    <3>2. QED
      BY <3>1 DEF ChildrenIn, ToSet
  <2> HIDE DEF children
  <2>2. \A i \in 1 .. 2 * Len(o) : children[o[(i + 1) \div 2]] \in ChildrenIn(d, p)
    BY <1>3, <2>1 DEF children
  <2>3. QED
    BY <2>2 DEF children
<1>6. ASSUME NEW i \in 1 .. 2 * Len(o), NEW j \in 1 .. 2 * Len(o), i < j, i % 2 = 1, j % 2 = 1
      PROVE  c(i) # c(j)
  <2>1. o[(i + 1) \div 2] # o[(j + 1) \div 2]
    <3>1. (i + 1) \div 2 \in DOMAIN o /\ (j + 1) \div 2 \in DOMAIN o
      BY <1>1
    <3>2. QED
      BY <1>2, <1>6, <3>1 DEF IsInjective
  <2>2. QED
    BY <1>3, <2>1, NestedOnce
<1> HIDE DEF c, T
<1>7. ASSUME NEW i \in 1 .. 2 * Len(o)
      PROVE  /\ Update(c(i)) \in T /\ Called(d, st, pos, Update(c(i)))
             /\ Update(c(i)).phase = c(i) /\ Update(c(i)).do = "update"
             /\ Task("join", p, c(i)) \in T /\ Called(d, st, pos, Task("join", p, c(i)))
             /\ Task("join", p, c(i)).phase = p /\ Task("join", p, c(i)).do = "join"
  <2>1. c(i) \in ChildrenIn(d, p)
    BY <1>5
  <2>2. QED
    BY <1>0, <2>1 DEF T
<1>8. n = [i \in 1 .. 2 * Len(o) |-> IF i % 2 = 1 THEN Update(c(i)) ELSE Task("join", p, c(i))]
  BY DEF PairsOf, c
<1> HIDE DEF n
<1>9. /\ n \in Seq(T) /\ Len(n) = 2 * Len(o)
      /\ \A i \in 1 .. 2 * Len(o) : \/ i % 2 = 1 /\ n[i] = Update(c(i))
                                    \/ i % 2 # 1 /\ n[i] = Task("join", p, c(i))
  <2>1. 2 * Len(o) \in Nat
    OBVIOUS
  <2>2. \A i \in 1 .. 2 * Len(o) : n[i] \in T
    BY <1>7, <1>8
  <2>3. n = [i \in 1 .. 2 * Len(o) |-> n[i]]
    BY <1>8
  <2>4. n \in Seq(T) /\ Len(n) = 2 * Len(o)
    BY <2>1, <2>2, <2>3, SequenceOf
  <2>5. \A i \in 1 .. 2 * Len(o) : \/ i % 2 = 1 /\ n[i] = Update(c(i))
                                   \/ i % 2 # 1 /\ n[i] = Task("join", p, c(i))
    BY <1>8
  <2>6. QED
    BY <2>4, <2>5
<1>10. \A q \in ChildrenIn(d, p) : p \notin Below(d, q)
  BY <1>4, BelowFacts
<1>11. StackIs(d, st, pos, n)
  <2>1. ASSUME NEW i \in 1 .. Len(n) PROVE Called(d, st, pos, n[i])
    BY <1>7, <1>9
  <2>2. ASSUME NEW i \in 1 .. Len(n), NEW j \in 1 .. Len(n), i < j PROVE Follows(d, n[i], n[j])
    <3>1. CASE i % 2 # 1
      BY <1>7, <1>9, <2>2, <3>1 DEF Follows
    <3>2. CASE i % 2 = 1
      <4>1. n[i].do = "update" /\ n[i].phase = c(i) /\ c(i) \in ChildrenIn(d, p)
        BY <1>5, <1>7, <1>9, <3>2
      <4>2. CASE j % 2 # 1
        BY <1>7, <1>9, <1>10, <4>1, <4>2 DEF Follows
      <4>3. CASE j % 2 = 1
        <5>1. n[j].phase = c(j) /\ c(j) \in ChildrenIn(d, p) /\ c(j) # c(i)
          BY <1>5, <1>6, <1>7, <1>9, <2>2, <3>2, <4>3
        <5>2. c(j) \notin Below(d, c(i))
          BY <1>4, <4>1, <5>1, BelowFacts
        <5>3. QED
          BY <4>1, <5>1, <5>2 DEF Follows
      <4>4. QED
        BY <4>2, <4>3
    <3>3. QED
      BY <3>1, <3>2
  <2>3. QED
    BY <2>1, <2>2 DEF StackIs
<1>12. ASSUME NEW i \in 1 .. Len(n), NEW j \in 1 .. Len(r) PROVE Follows(d, n[i], r[j])
  BY <1>5, <1>7, <1>9 DEF Follows
<1>13. n \o r \in Seq(Tasks(d)) /\ StackIs(d, st, pos, n \o r)
  BY <1>9, <1>11, <1>12, PushStack DEF T
<1>14. QED
  BY <1>13 DEF n

-----------------------------------------------------------------------------
(* The states of the phases, and how they change. *)

States == {"idle", "start", "run", "end"}

Consistent(d, st, pos) ==
  \A p \in Ps(d) : d.phase[p].kind \notin {"drive", "system"} =>
    /\ st[p] \in {"idle", "start"} => \A q \in ChildrenIn(d, p) : st[q] = "idle"
    /\ st[p] = "end" => \A q \in ChildrenIn(d, p) : st[q] = "end"
    /\ d.phase[p].kind = "serial" /\ st[p] = "run" =>
         \A i \in 1 .. Len(d.phase[p].children) :
           /\ i < pos[p] => st[d.phase[p].children[i]] = "end"
           /\ i > pos[p] => st[d.phase[p].children[i]] = "idle"

\* A phase that does not run yet has passed none of its children.
Fresh(d, st, pos) == \A p \in Ps(d) : st[p] \in {"idle", "start"} => pos[p] = 1

TreeState(d, st, pos) ==
  /\ st \in [Ps(d) -> States] /\ pos \in [Ps(d) -> Nat]
  /\ \A p \in Ps(d) : pos[p] \in 1 .. Len(d.phase[p].children) + 1
  /\ Fresh(d, st, pos) /\ Consistent(d, st, pos)

\* A phase that is to be updated begins to wait, or begins to run.
LEMMA AdvancedTree ==
  ASSUME NEW d \in Diagrams, NEW st, NEW pos, TreeState(d, st, pos),
         NEW t \in Tasks(d), t.do = "update", Called(d, st, pos, t),
         NEW s \in {"start", "run"}, st[t.phase] = IF s = "start" THEN "idle" ELSE "start"
  PROVE  /\ TreeState(d, [st EXCEPT ![t.phase] = s], pos)
         /\ \A u \in Tasks(d) : Called(d, st, pos, u) => Called(d, [st EXCEPT ![t.phase] = s], pos, u)
<1> DEFINE p == t.phase
           new == [st EXCEPT ![p] = s]
<1>1. /\ p \in Ps(d) /\ st \in [Ps(d) -> States] /\ pos \in [Ps(d) -> Nat]
      /\ Fresh(d, st, pos) /\ Consistent(d, st, pos)
  BY DEF TreeState, Tasks
<1>2. /\ st[p] \in {"idle", "start"} /\ st[p] # "run" /\ st[p] # "end" /\ st[p] = (IF s = "start" THEN "idle" ELSE "start")
      /\ \A q \in Ps(d) : p \in Nested(d, q) =>
           st[q] = "run" /\ (p \in ChildrenIn(d, q) => IsCurrent(d, pos, q, p))
  BY DEF Called
<1> HIDE DEF p
<1>3. /\ new \in [Ps(d) -> States] /\ new[p] = s
      /\ \A q \in Ps(d) : q # p => new[q] = st[q]
  BY <1>1 DEF States
<1> HIDE DEF new
<1>4. /\ \A q \in Ps(d) : st[q] = "run" => new[q] = "run"
      /\ \A q \in Ps(d) : st[q] = "end" <=> new[q] = "end"
  BY <1>2, <1>3
<1>5. \A q \in Ps(d) : /\ d.phase[q].children \in Seq(Ps(d))
                       /\ ChildrenIn(d, q) \subseteq Nested(d, q) /\ Nested(d, q) \subseteq Ps(d)
                       /\ \A i \in 1 .. Len(d.phase[q].children) :
                            d.phase[q].children[i] \in ChildrenIn(d, q)
  BY DiagramFacts DEF ChildrenIn, ToSet
<1>6. Fresh(d, new, pos)
  BY <1>1, <1>2, <1>3 DEF Fresh
<1>7. ASSUME NEW q \in Ps(d), d.phase[q].kind \notin {"drive", "system"}
      PROVE  /\ new[q] \in {"idle", "start"} => \A r \in ChildrenIn(d, q) : new[r] = "idle"
             /\ new[q] = "end" => \A r \in ChildrenIn(d, q) : new[r] = "end"
             /\ d.phase[q].kind = "serial" /\ new[q] = "run" =>
                  \A i \in 1 .. Len(d.phase[q].children) :
                    /\ i < pos[q] => new[d.phase[q].children[i]] = "end"
                    /\ i > pos[q] => new[d.phase[q].children[i]] = "idle"
  <2>1. /\ st[q] \in {"idle", "start"} => \A r \in ChildrenIn(d, q) : st[r] = "idle"
        /\ st[q] = "end" => \A r \in ChildrenIn(d, q) : st[r] = "end"
        /\ d.phase[q].kind = "serial" /\ st[q] = "run" =>
             \A i \in 1 .. Len(d.phase[q].children) :
               /\ i < pos[q] => st[d.phase[q].children[i]] = "end"
               /\ i > pos[q] => st[d.phase[q].children[i]] = "idle"
    BY <1>1, <1>7 DEF Consistent
  <2>2. ASSUME new[q] \in {"idle", "start"}, NEW r \in ChildrenIn(d, q) PROVE new[r] = "idle"
    <3>1. st[q] \in {"idle", "start"}
      BY <1>2, <1>3, <2>2
    <3>2. r # p /\ r \in Ps(d)
      BY <1>2, <1>5, <2>2, <3>1
    <3>3. QED
      BY <1>3, <2>1, <2>2, <3>1, <3>2
  <2>3. ASSUME new[q] = "end", NEW r \in ChildrenIn(d, q) PROVE new[r] = "end"
    BY <1>4, <1>5, <2>1, <2>3
  <2>4. ASSUME d.phase[q].kind = "serial", new[q] = "run", NEW i \in 1 .. Len(d.phase[q].children)
        PROVE  /\ i < pos[q] => new[d.phase[q].children[i]] = "end"
               /\ i > pos[q] => new[d.phase[q].children[i]] = "idle"
    <3>1. d.phase[q].children[i] \in ChildrenIn(d, q) /\ d.phase[q].children[i] \in Ps(d)
      BY <1>5
    <3>2. CASE q = p
      <4>1. st[p] = "start" /\ pos[p] = 1
        BY <1>1, <1>2, <1>3, <2>4, <3>2 DEF Fresh
      <4>2. st[d.phase[q].children[i]] = "idle"
        BY <2>1, <3>1, <3>2, <4>1
      <4>3. d.phase[q].children[i] # p
        BY <4>1, <4>2
      <4>4. QED
        BY <1>3, <3>1, <3>2, <4>1, <4>2, <4>3
    <3>3. CASE q # p
      <4>1. st[q] = "run"
        BY <1>3, <2>4, <3>3
      <4>2. d.phase[q].children[i] = p => i = pos[q]
        <5>1. ASSUME d.phase[q].children[i] = p PROVE i = pos[q]
          <6>1. p \in ChildrenIn(d, q) /\ p \in Nested(d, q)
            BY <1>5, <3>1, <5>1
          <6>2. IsCurrent(d, pos, q, p)
            BY <1>2, <6>1
          <6>3. pos[q] \in 1 .. Len(d.phase[q].children) /\ p = d.phase[q].children[pos[q]]
            BY <2>4, <6>2 DEF IsCurrent
          <6>4. QED
            BY <5>1, <6>3, NestedOnce
        <5>2. QED
          BY <5>1
      <4>3. i # pos[q] => new[d.phase[q].children[i]] = st[d.phase[q].children[i]]
        BY <1>3, <3>1, <4>2
      <4>4. pos[q] \in Nat
        BY <1>1
      <4>5. QED
        BY <2>1, <2>4, <4>1, <4>3, <4>4
    <3>4. QED
      BY <3>2, <3>3
  <2>5. QED
    BY <2>2, <2>3, <2>4
<1>8. TreeState(d, new, pos)
  BY <1>3, <1>6, <1>7 DEF TreeState, Consistent
<1>9. ASSUME NEW u \in Tasks(d), Called(d, st, pos, u) PROVE Called(d, new, pos, u)
  <2>1. u.phase \in Ps(d)
    BY DEF Tasks
  <2>2. QED
    BY <1>4, <1>9, <2>1 DEF Called
<1>10. QED
  BY <1>8, <1>9 DEF new, p

\* A serial phase passes a child that has ended.
LEMMA JoinedTree ==
  ASSUME NEW d \in Diagrams, NEW st, NEW pos, TreeState(d, st, pos),
         NEW p \in Ps(d), d.phase[p].kind = "serial", st[p] = "run",
         pos[p] \in 1 .. Len(d.phase[p].children), st[d.phase[p].children[pos[p]]] = "end"
  PROVE  /\ TreeState(d, st, [pos EXCEPT ![p] = pos[p] + 1])
         /\ \A u \in Tasks(d) :
              Called(d, st, pos, u) /\ u.phase \notin ChildrenIn(d, p) /\ ~ (u.do = "join" /\ u.phase = p)
              => Called(d, st, [pos EXCEPT ![p] = pos[p] + 1], u)
<1> DEFINE new == [pos EXCEPT ![p] = pos[p] + 1]
<1>1. /\ st \in [Ps(d) -> States] /\ pos \in [Ps(d) -> Nat]
      /\ \A q \in Ps(d) : pos[q] \in 1 .. Len(d.phase[q].children) + 1
      /\ Fresh(d, st, pos) /\ Consistent(d, st, pos)
  BY DEF TreeState
<1>2. d.phase[p].children \in Seq(Ps(d))
  BY DiagramFacts
<1>3. /\ new \in [Ps(d) -> Nat] /\ new[p] = pos[p] + 1
      /\ \A q \in Ps(d) : q # p => new[q] = pos[q]
  BY <1>1
<1> HIDE DEF new
<1>4. \A q \in Ps(d) : new[q] \in 1 .. Len(d.phase[q].children) + 1
  <2>1. new[p] \in 1 .. Len(d.phase[p].children) + 1
    <3>1. Len(d.phase[p].children) \in Nat
      BY <1>2
    <3>2. QED
      BY <1>3, <3>1
  <2>2. QED
    BY <1>1, <1>3, <2>1
<1>5. Fresh(d, st, new)
  BY <1>1, <1>3 DEF Fresh
<1>6. \A i \in 1 .. Len(d.phase[p].children) :
        /\ i < new[p] => st[d.phase[p].children[i]] = "end"
        /\ i > new[p] => st[d.phase[p].children[i]] = "idle"
  <2>1. \A i \in 1 .. Len(d.phase[p].children) :
          /\ i < pos[p] => st[d.phase[p].children[i]] = "end"
          /\ i > pos[p] => st[d.phase[p].children[i]] = "idle"
    BY <1>1 DEF Consistent
  <2>2. \A i \in 1 .. Len(d.phase[p].children) :
          (i < new[p] => i < pos[p] \/ i = pos[p]) /\ (i > new[p] => i > pos[p])
    BY <1>1, <1>3
  <2>3. QED
    BY <2>1, <2>2
<1>7. Consistent(d, st, new)
  <2>1. ASSUME NEW q \in Ps(d), d.phase[q].kind \notin {"drive", "system"},
               d.phase[q].kind = "serial", st[q] = "run", NEW i \in 1 .. Len(d.phase[q].children)
        PROVE  /\ i < new[q] => st[d.phase[q].children[i]] = "end"
               /\ i > new[q] => st[d.phase[q].children[i]] = "idle"
    <3>1. CASE q = p
      BY <1>6, <2>1, <3>1
    <3>2. CASE q # p
      <4>1. new[q] = pos[q]
        BY <1>3, <3>2
      <4>2. QED
        BY <1>1, <2>1, <4>1 DEF Consistent
    <3>3. QED
      BY <3>1, <3>2
  <2>2. \A q \in Ps(d) : d.phase[q].kind \notin {"drive", "system"} =>
          /\ st[q] \in {"idle", "start"} => \A r \in ChildrenIn(d, q) : st[r] = "idle"
          /\ st[q] = "end" => \A r \in ChildrenIn(d, q) : st[r] = "end"
    BY <1>1 DEF Consistent
  <2>3. QED
    BY <2>1, <2>2 DEF Consistent
<1>8. TreeState(d, st, new)
  BY <1>1, <1>3, <1>4, <1>5, <1>7 DEF TreeState
<1>9. ASSUME NEW u \in Tasks(d), Called(d, st, pos, u), u.phase \notin ChildrenIn(d, p),
             ~ (u.do = "join" /\ u.phase = p)
      PROVE  Called(d, st, new, u)
  <2>1. u.phase \in Ps(d)
    BY DEF Tasks
  <2>2. \A q \in Ps(d) : \A c : q # p /\ IsCurrent(d, pos, q, c) => IsCurrent(d, new, q, c)
    BY <1>3 DEF IsCurrent
  <2>3. QED
    BY <1>9, <2>1, <2>2 DEF Called
<1>10. QED
  BY <1>8, <1>9 DEF new

\* A running phase p ends with the phases E.
LEMMA EndedTree ==
  ASSUME NEW d \in Diagrams, NEW st, NEW pos, TreeState(d, st, pos),
         NEW p \in Ps(d), st[p] = "run", NEW E \in SUBSET Below(d, p), p \in E,
         \A q \in E : d.phase[q].kind \notin {"drive", "system"} =>
           \A i \in 1 .. Len(d.phase[q].children) :
             d.phase[q].kind = "mix" \/ i >= pos[q] => d.phase[q].children[i] \in E,
         \A q \in E : q # p => \E r \in E : q \in ChildrenIn(d, r)
  PROVE  /\ TreeState(d, [q \in Ps(d) |-> IF q \in E THEN "end" ELSE st[q]], pos)
         /\ \A u \in Tasks(d) :
              Called(d, st, pos, u) /\ u.phase \notin Below(d, p)
              => Called(d, [q \in Ps(d) |-> IF q \in E THEN "end" ELSE st[q]], pos, u)
<1> DEFINE new == [q \in Ps(d) |-> IF q \in E THEN "end" ELSE st[q]]
<1>1. /\ st \in [Ps(d) -> States] /\ pos \in [Ps(d) -> Nat]
      /\ \A q \in Ps(d) : pos[q] \in 1 .. Len(d.phase[q].children) + 1
      /\ Fresh(d, st, pos) /\ Consistent(d, st, pos)
  BY DEF TreeState
<1>2. Below(d, p) \subseteq Ps(d) /\ \A q \in Below(d, p) : Nested(d, q) \subseteq Below(d, p)
  BY BelowFacts
<1>3. /\ new \in [Ps(d) -> States]
      /\ \A q \in Ps(d) : new[q] = IF q \in E THEN "end" ELSE st[q]
  BY <1>1 DEF States
<1> HIDE DEF new
<1>4. \A q \in Ps(d) : /\ d.phase[q].children \in Seq(Ps(d))
                       /\ ChildrenIn(d, q) \subseteq Nested(d, q) /\ Nested(d, q) \subseteq Ps(d)
                       /\ \A r \in ChildrenIn(d, q) : \E i \in 1 .. Len(d.phase[q].children) :
                            r = d.phase[q].children[i]
                       /\ \A i \in 1 .. Len(d.phase[q].children) :
                            d.phase[q].children[i] \in ChildrenIn(d, q)
                       /\ d.phase[q].kind \in {"mix", "serial", "drive", "system"}
  BY DiagramFacts DEF ChildrenIn, ToSet
<1>5. \A q, r \in Ps(d) : q # r => Nested(d, q) \cap Nested(d, r) = {}
  BY DiagramFacts
<1>6. ASSUME NEW q \in Ps(d), q \notin E, NEW r \in ChildrenIn(d, q), r \in E PROVE r = p
  BY <1>2, <1>4, <1>5, <1>6
<1>7. Fresh(d, new, pos)
  BY <1>1, <1>3 DEF Fresh
<1>8. ASSUME NEW q \in Ps(d), d.phase[q].kind \notin {"drive", "system"}
      PROVE  /\ new[q] \in {"idle", "start"} => \A r \in ChildrenIn(d, q) : new[r] = "idle"
             /\ new[q] = "end" => \A r \in ChildrenIn(d, q) : new[r] = "end"
             /\ d.phase[q].kind = "serial" /\ new[q] = "run" =>
                  \A i \in 1 .. Len(d.phase[q].children) :
                    /\ i < pos[q] => new[d.phase[q].children[i]] = "end"
                    /\ i > pos[q] => new[d.phase[q].children[i]] = "idle"
  <2>1. /\ st[q] \in {"idle", "start"} => \A r \in ChildrenIn(d, q) : st[r] = "idle"
        /\ st[q] = "end" => \A r \in ChildrenIn(d, q) : st[r] = "end"
        /\ d.phase[q].kind = "serial" /\ st[q] = "run" =>
             \A i \in 1 .. Len(d.phase[q].children) :
               /\ i < pos[q] => st[d.phase[q].children[i]] = "end"
               /\ i > pos[q] => st[d.phase[q].children[i]] = "idle"
    BY <1>1, <1>8 DEF Consistent
  <2>2. CASE q \in E
    <3>1. new[q] = "end"
      BY <1>3, <2>2
    <3>2. ASSUME NEW i \in 1 .. Len(d.phase[q].children) PROVE new[d.phase[q].children[i]] = "end"
      <4>1. d.phase[q].children[i] \in Ps(d) /\ d.phase[q].children[i] \in ChildrenIn(d, q)
        BY <1>4
      <4>2. CASE d.phase[q].kind = "mix" \/ i >= pos[q]
        BY <1>3, <1>8, <2>2, <4>1, <4>2
      <4>3. CASE d.phase[q].kind = "serial" /\ i < pos[q]
        <5>1. i >= 1 /\ pos[q] # 1
          BY <4>3
        <5>2. st[q] \in {"run", "end"}
          BY <1>1, <5>1 DEF Fresh, States
        <5>3. st[d.phase[q].children[i]] = "end"
          BY <2>1, <4>1, <4>3, <5>2
        <5>4. QED
          BY <1>3, <4>1, <5>3
      <4>4. pos[q] \in Nat
        BY <1>1
      <4>5. d.phase[q].kind = "mix" \/ d.phase[q].kind = "serial"
        BY <1>4, <1>8
      <4>6. QED
        BY <4>2, <4>3, <4>4, <4>5
    <3>3. QED
      BY <1>4, <3>1, <3>2
  <2>3. CASE q \notin E
    <3>1. new[q] = st[q]
      BY <1>3, <2>3
    <3>2. \A r \in ChildrenIn(d, q) : r \in Ps(d) /\ (st[r] # "run" => new[r] = st[r])
      BY <1>3, <1>4, <1>6, <2>3
    <3>3. QED
      BY <1>4, <2>1, <3>1, <3>2
  <2>4. QED
    BY <2>2, <2>3
<1>9. TreeState(d, new, pos)
  BY <1>1, <1>3, <1>7, <1>8 DEF TreeState, Consistent
<1>10. ASSUME NEW u \in Tasks(d), Called(d, st, pos, u), u.phase \notin Below(d, p)
       PROVE  Called(d, new, pos, u)
  <2>1. u.phase \in Ps(d) /\ new[u.phase] = st[u.phase]
    BY <1>3, <1>10 DEF Tasks
  <2>2. \A q \in Ps(d) : u.phase \in Nested(d, q) => new[q] = st[q]
    BY <1>2, <1>3, <1>10
  <2>3. QED
    BY <1>10, <2>1, <2>2 DEF Called
<1>11. QED
  BY <1>9, <1>10 DEF new

-----------------------------------------------------------------------------
(* The orders in which the children of parallel phases are updated. *)

IsOrder(d, p, o) ==
  /\ o \in Seq(1 .. Len(d.phase[p].children)) /\ IsInjective(o)
  /\ o # << >> => Len(o) = Len(d.phase[p].children)

LEMMA SortedOrder ==
  ASSUME NEW n \in Nat, NEW edges, NEW s \in SortChildren(n, edges)
  PROVE  s \in Seq(1 .. n) /\ IsInjective(s) /\ Len(s) = n
<1>1. Cardinality(1 .. n) = n
  BY FS_Interval
<1>2. \/ s = [i \in 1 .. n |-> i]
      \/ s \in SetToSeqs(1 .. n)
  BY DEF SortChildren
<1>3. SetToSeqs(1 .. n) = {f \in [1 .. n -> 1 .. n] : \A i, j \in 1 .. n : i # j => f[i] # f[j]}
  BY <1>1 DEF SetToSeqs
<1>4. s \in [1 .. n -> 1 .. n] /\ \A i, j \in 1 .. n : i # j => s[i] # s[j]
  BY <1>2, <1>3
<1>5. QED
  BY <1>4 DEF IsInjective

LEMMA SortedOrders ==
  ASSUME NEW d \in Diagrams, NEW starter, NEW deps, NEW f \in ExecOrders(d, starter, deps),
         NEW p \in Ps(d), p \in DOMAIN f
  PROVE  IsOrder(d, p, f[p])
<1>1. Len(d.phase[p].children) \in Nat
  BY DiagramFacts
<1>2. \E edges : f[p] \in SortChildren(Len(d.phase[p].children), edges)
  BY DEF ExecOrders
<1>3. QED
  BY <1>1, <1>2, SortedOrder DEF IsOrder

-----------------------------------------------------------------------------
(* The inductive invariant. *)

TreeInv ==
  /\ diagram \in Diagrams
  /\ Phases \subseteq DOMAIN mExecOrder /\ \A p \in Phases : IsOrder(diagram, p, mExecOrder[p])
  /\ TreeState(diagram, mState, mPosition)
  /\ todo \in Seq(Tasks(diagram)) /\ StackIs(diagram, mState, mPosition, todo)

SameTree == UNCHANGED <<diagram, mState, mPosition, mExecOrder>>

LEMMA InvTree ==
  ASSUME TreeInv
  PROVE  TreeConsistent
<1>1. Phases = Ps(diagram) /\ \A p \in Phases : DOMAIN diagram.phase[p].children = 1 .. Len(diagram.phase[p].children)
  BY DiagramFacts DEF TreeInv, Phases, Ps
<1>2. QED
  BY <1>1 DEF TreeInv, TreeState, Consistent, TreeConsistent, IsActionPhase, Kind, Children, ChildrenIn

LEMMA EmptyStack ==
  ASSUME NEW d, NEW st, NEW pos
  PROVE  << >> \in Seq(Tasks(d)) /\ StackIs(d, st, pos, << >>)
BY DEF StackIs

LEMMA InitTree ==
  Init => TreeInv
<1>1. SUFFICES ASSUME Init PROVE TreeInv
  OBVIOUS
<1>2. /\ diagram \in Diagrams /\ Phases = Ps(diagram) /\ todo = << >>
      /\ mState = [p \in Phases |-> "idle"] /\ mPosition = [p \in Phases |-> 1]
      /\ mExecOrder = [p \in Phases |-> << >>]
  BY <1>1 DEF Init, Phases, Ps
<1>3. \A p \in Phases : /\ diagram.phase[p].children \in Seq(Phases)
                        /\ \A i \in 1 .. Len(diagram.phase[p].children) :
                             diagram.phase[p].children[i] \in Phases
                        /\ ChildrenIn(diagram, p) \subseteq Phases
                        /\ Len(diagram.phase[p].children) \in Nat
  BY <1>2, DiagramFacts
<1>4. \A p \in Phases : IsOrder(diagram, p, mExecOrder[p])
  BY <1>2 DEF IsOrder, IsInjective
<1>5. /\ mState \in [Ps(diagram) -> States] /\ mPosition \in [Ps(diagram) -> Nat]
      /\ \A p \in Phases : mState[p] = "idle" /\ mPosition[p] = 1
  BY <1>2 DEF States
<1>6. Consistent(diagram, mState, mPosition) /\ Fresh(diagram, mState, mPosition)
  BY <1>2, <1>3, <1>5 DEF Consistent, Fresh
<1>7. TreeState(diagram, mState, mPosition)
  BY <1>2, <1>3, <1>5, <1>6 DEF TreeState
<1>8. QED
  BY <1>2, <1>4, <1>7, EmptyStack DEF TreeInv

\* What is known of the task that the thread takes.
LEMMA FirstTask ==
  ASSUME TreeInv, NEW p \in Phases, NEW do, NEW s, First(do, p, s)
  PROVE  /\ p \in Ps(diagram) /\ mState[p] = s
         /\ Head(todo) \in Tasks(diagram) /\ Head(todo).do = do /\ Head(todo).phase = p
         /\ Called(diagram, mState, mPosition, Head(todo))
         /\ Tail(todo) \in Seq(Tasks(diagram)) /\ StackIs(diagram, mState, mPosition, Tail(todo))
         /\ \A i \in 1 .. Len(Tail(todo)) : Follows(diagram, Head(todo), Tail(todo)[i])
BY PopStack DEF TreeInv, First, Phases, Ps

LEMMA KeepTree ==
  ASSUME TreeInv, SameTree,
         todo' \in Seq(Tasks(diagram)), StackIs(diagram, mState, mPosition, todo')
  PROVE  TreeInv'
<1>1. diagram' = diagram /\ mState' = mState /\ mPosition' = mPosition /\ mExecOrder' = mExecOrder
  BY DEF SameTree
<1>2. QED
  BY <1>1 DEF TreeInv, Phases

LEMMA StopTree ==
  ASSUME TreeInv, SameTree, todo' = << >>
  PROVE  TreeInv'
BY EmptyStack, KeepTree

LEMMA ThrowTree ==
  ASSUME TreeInv, NEW what, Throw(what)
  PROVE  TreeInv'
BY StopTree DEF Throw, SameTree, phases

-----------------------------------------------------------------------------
(* The steps of the simulation thread. *)

LEMMA RootTree ==
  ASSUME TreeInv, SameTree, todo' = <<Update(diagram.root)>>
  PROVE  TreeInv'
<1> DEFINE t == Update(diagram.root)
<1>1. diagram \in Diagrams
  BY DEF TreeInv
<1>2. t \in Tasks(diagram) /\ t.do = "update" /\ t.phase = diagram.root /\ t.child = diagram.root
  BY <1>1, DiagramFacts DEF Update, Task, Tasks
<1>3. \A q \in Ps(diagram) : diagram.root \notin Nested(diagram, q)
  BY <1>1, DiagramFacts
<1> HIDE DEF t
<1>4. Called(diagram, mState, mPosition, t)
  BY <1>2, <1>3 DEF Called
<1>5. QED
  BY <1>2, <1>4, CallOne, KeepTree DEF t

LEMMA PopTree ==
  ASSUME TreeInv, NEW p \in Phases, NEW do, NEW s, First(do, p, s), SameTree, todo' = Tail(todo)
  PROVE  TreeInv'
BY FirstTask, KeepTree

\* A phase begins to wait or to run.
LEMMA AdvanceTree ==
  ASSUME TreeInv, NEW p \in Phases, NEW s \in {"start", "run"},
         First("update", p, IF s = "start" THEN "idle" ELSE "start"),
         mState' = [mState EXCEPT ![p] = s], UNCHANGED <<diagram, mPosition, mExecOrder>>,
         todo' = todo \/ todo' = << >>
  PROVE  TreeInv'
<1>1. /\ diagram \in Diagrams /\ TreeState(diagram, mState, mPosition)
      /\ todo \in Seq(Tasks(diagram)) /\ StackIs(diagram, mState, mPosition, todo)
  BY DEF TreeInv
<1>2. /\ Head(todo) \in Tasks(diagram) /\ Head(todo).do = "update" /\ Head(todo).phase = p
      /\ Called(diagram, mState, mPosition, Head(todo))
      /\ mState[p] = IF s = "start" THEN "idle" ELSE "start"
  BY FirstTask
<1>3. /\ TreeState(diagram, mState', mPosition)
      /\ \A u \in Tasks(diagram) : Called(diagram, mState, mPosition, u)
                                   => Called(diagram, mState', mPosition, u)
  <2> DEFINE t == Head(todo)
  <2> HIDE DEF t
  <2>1. /\ t \in Tasks(diagram) /\ t.do = "update" /\ t.phase = p
        /\ Called(diagram, mState, mPosition, t)
    BY <1>2 DEF t
  <2>2. QED
    BY <1>1, <1>2, <2>1, AdvancedTree
<1>4. todo' \in Seq(Tasks(diagram)) /\ StackIs(diagram, mState', mPosition, todo')
  <2>1. \A i \in 1 .. Len(todo) : todo[i] \in Tasks(diagram)
    <3> DEFINE T == Tasks(diagram)
    <3> HIDE DEF T
    <3>1. todo \in Seq(T)
      BY <1>1 DEF T
    <3>2. QED
      BY <3>1 DEF T
  <2>2. StackIs(diagram, mState', mPosition, todo)
    BY <1>1, <1>3, <2>1, SameStack
  <2>3. QED
    BY <1>1, <2>2, EmptyStack
<1>5. QED
  BY <1>3, <1>4 DEF TreeInv, Phases

LEMMA OnStartTree ==
  ASSUME TreeInv, NEW p \in Phases, OnStart(p)
  PROVE  TreeInv'
<1>1. First("update", p, "idle")
  BY DEF OnStart
<1>2. CASE Throw("error")
  BY <1>2, ThrowTree
<1>3. CASE /\ mState' = [mState EXCEPT ![p] = "start"]
           /\ UNCHANGED <<diagram, mPosition, mExecOrder, todo>>
  BY <1>1, <1>3, AdvanceTree
<1>4. QED
  BY <1>2, <1>3 DEF OnStart

LEMMA OnRunTree ==
  ASSUME TreeInv, NEW p \in Phases, OnRun(p)
  PROVE  TreeInv'
<1>1. First("update", p, "start")
  BY DEF OnRun
<1>2. CASE Throw("error")
  BY <1>2, ThrowTree
<1>3. CASE /\ mState' = [mState EXCEPT ![p] = "run"]
           /\ UNCHANGED <<diagram, mPosition, mExecOrder>>
           /\ todo' = IF outcome' = "running" THEN todo ELSE << >>
  BY <1>1, <1>3, AdvanceTree
<1>4. QED
  BY <1>2, <1>3 DEF OnRun

LEMMA OrderChildrenTree ==
  ASSUME TreeInv, NEW p \in Phases, OrderChildren(p)
  PROVE  TreeInv'
<1> DEFINE deps == MemberDeps(diagram, p, created, mIsInitPending)
<1> HIDE DEF deps
<1>1. CASE Throw(SortResult(diagram, p, deps))
  BY <1>1, ThrowTree
<1>2. CASE \E orders \in ExecOrders(diagram, p, deps) :
             /\ mExecOrder' = [q \in Phases |->
                                 IF q \in DOMAIN orders THEN orders[q] ELSE mExecOrder[q]]
             /\ UNCHANGED <<diagram, mState, mPosition, todo>>
  <2>1. PICK orders \in ExecOrders(diagram, p, deps) :
             /\ mExecOrder' = [q \in Phases |->
                                 IF q \in DOMAIN orders THEN orders[q] ELSE mExecOrder[q]]
             /\ UNCHANGED <<diagram, mState, mPosition, todo>>
    BY <1>2
  <2>2. diagram \in Diagrams /\ Phases = Ps(diagram) /\ Phases \subseteq DOMAIN mExecOrder
    BY DEF TreeInv, Phases, Ps
  <2>3. ASSUME NEW q \in Phases
        PROVE  q \in DOMAIN mExecOrder' /\ IsOrder(diagram, q, mExecOrder'[q])
    <3>1. /\ q \in DOMAIN mExecOrder'
          /\ mExecOrder'[q] = IF q \in DOMAIN orders THEN orders[q] ELSE mExecOrder[q]
      BY <2>1, <2>2
    <3>2. q \in DOMAIN orders => IsOrder(diagram, q, orders[q])
      BY <2>2, SortedOrders
    <3>3. IsOrder(diagram, q, mExecOrder[q])
      BY DEF TreeInv
    <3>4. QED
      BY <3>1, <3>2, <3>3
  <2>4. QED
    BY <2>1, <2>3 DEF TreeInv, Phases
<1>3. QED
  BY <1>1, <1>2 DEF OrderChildren, deps

\* The calls of a running phase: its children first, then the rest.
LEMMA RestTree ==
  ASSUME TreeInv, NEW p \in Phases, First("update", p, "run")
  PROVE  /\ p \in Ps(diagram) /\ mState[p] = "run"
         /\ Rest(p) \in Seq(Tasks(diagram)) /\ StackIs(diagram, mState, mPosition, Rest(p))
         /\ \A i \in 1 .. Len(Rest(p)) :
              /\ \A q \in ChildrenIn(diagram, p) : Rest(p)[i].phase \notin Below(diagram, q)
              /\ ~ (Rest(p)[i].do = "join" /\ Rest(p)[i].phase = p)
<1>1. diagram \in Diagrams /\ p \in Ps(diagram) /\ mState[p] = "run"
  BY FirstTask DEF TreeInv
<1>2. /\ Head(todo).do = "update" /\ Head(todo).phase = p
      /\ Tail(todo) \in Seq(Tasks(diagram)) /\ StackIs(diagram, mState, mPosition, Tail(todo))
      /\ \A i \in 1 .. Len(Tail(todo)) : Follows(diagram, Head(todo), Tail(todo)[i])
  BY FirstTask
<1>3. \A i \in 1 .. Len(Tail(todo)) : Tail(todo)[i].phase \notin Below(diagram, p)
  BY <1>2 DEF Follows
<1>4. Rest(p) = RestOf(diagram, p, Tail(todo))
  BY DEF Rest, RestOf
<1>5. /\ Rest(p) \in Seq(Tasks(diagram)) /\ StackIs(diagram, mState, mPosition, Rest(p))
      /\ \A i \in 1 .. Len(Rest(p)) : Later(diagram, p, Rest(p)[i])
  <2> DEFINE r == Tail(todo)
             x == Rest(p)
  <2>1. /\ r \in Seq(Tasks(diagram)) /\ StackIs(diagram, mState, mPosition, r)
        /\ \A i \in 1 .. Len(r) : r[i].phase \notin Below(diagram, p)
    BY <1>2, <1>3
  <2>2. x = RestOf(diagram, p, r)
    BY <1>4
  <2> HIDE DEF r, x
  <2>3. /\ RestOf(diagram, p, r) \in Seq(Tasks(diagram))
        /\ StackIs(diagram, mState, mPosition, RestOf(diagram, p, r))
        /\ \A i \in 1 .. Len(RestOf(diagram, p, r)) : Later(diagram, p, RestOf(diagram, p, r)[i])
    BY <1>1, <2>1, RestStack
  <2>4. x \in Seq(Tasks(diagram)) /\ StackIs(diagram, mState, mPosition, x)
        /\ \A i \in 1 .. Len(x) : Later(diagram, p, x[i])
    BY <2>2, <2>3
  <2>5. QED
    BY <2>4 DEF x
<1>6. /\ ChildrenIn(diagram, p) \subseteq Nested(diagram, p)
      /\ OperationsIn(diagram, p) \subseteq Nested(diagram, p)
      /\ ChildrenIn(diagram, p) \cap OperationsIn(diagram, p) = {}
      /\ p \in Below(diagram, p)
  BY <1>1, DiagramFacts, NestedOnce, BelowFacts
<1>7. ASSUME NEW u, Later(diagram, p, u)
      PROVE  /\ \A q \in ChildrenIn(diagram, p) : u.phase \notin Below(diagram, q)
             /\ ~ (u.do = "join" /\ u.phase = p)
  <2>1. ASSUME NEW q \in ChildrenIn(diagram, p) PROVE u.phase \notin Below(diagram, q)
    <3>1. \/ u.phase \notin Below(diagram, p)
          \/ u.phase = p
          \/ u.phase \in Nested(diagram, p) /\ u.phase # q
      BY <1>6, <1>7, <2>1 DEF Later
    <3>2. QED
      BY <1>1, <1>6, <3>1, ChildApart
  <2>2. ~ (u.do = "join" /\ u.phase = p)
    BY <1>6, <1>7 DEF Later
  <2>3. QED
    BY <2>1, <2>2
<1>8. QED
  BY <1>1, <1>5, <1>7

LEMMA UpdateMixTree ==
  ASSUME TreeInv, NEW p \in Phases, UpdateMix(p)
  PROVE  TreeInv'
<1>1. /\ diagram \in Diagrams /\ First("update", p, "run") /\ diagram.phase[p].kind = "mix"
      /\ SameTree /\ todo' = PairsOf(diagram, p, mExecOrder[p]) \o Rest(p)
  BY DEF UpdateMix, TreeInv, SameTree, Kind, PairsOf
<1>2. /\ p \in Ps(diagram) /\ mState[p] = "run"
      /\ Rest(p) \in Seq(Tasks(diagram)) /\ StackIs(diagram, mState, mPosition, Rest(p))
      /\ \A i \in 1 .. Len(Rest(p)) :
           \A q \in ChildrenIn(diagram, p) : Rest(p)[i].phase \notin Below(diagram, q)
  BY <1>1, RestTree
<1>3. /\ mExecOrder[p] \in Seq(1 .. Len(diagram.phase[p].children))
      /\ IsInjective(mExecOrder[p])
  BY DEF TreeInv, IsOrder
<1>4. /\ todo' \in Seq(Tasks(diagram))
      /\ StackIs(diagram, mState, mPosition, todo')
  BY <1>1, <1>2, <1>3, PairsStack
<1>5. QED
  BY <1>1, <1>4, KeepTree

LEMMA UpdateActionPhaseTree ==
  ASSUME TreeInv, NEW p \in Phases, UpdateActionPhase(p)
  PROVE  TreeInv'
<1>1. First("update", p, "run")
  BY DEF UpdateActionPhase
<1>2. CASE Throw("error")
  BY <1>2, ThrowTree
<1>3. CASE SameTree /\ todo' = Rest(p)
  BY <1>1, <1>3, RestTree, KeepTree
<1>4. QED
  BY <1>2, <1>3 DEF UpdateActionPhase, SameTree, phases

\* A serial phase calls for the child at its position.
LEMMA CurrentTasks ==
  ASSUME NEW d \in Diagrams, NEW st, NEW pos, NEW p \in Ps(d), st[p] = "run",
         d.phase[p].kind = "serial", pos[p] \in 1 .. Len(d.phase[p].children),
         NEW c, c = d.phase[p].children[pos[p]],
         NEW r \in Seq(Tasks(d)), StackIs(d, st, pos, r),
         \A i \in 1 .. Len(r) : /\ \A q \in ChildrenIn(d, p) : r[i].phase \notin Below(d, q)
                                /\ ~ (r[i].do = "join" /\ r[i].phase = p)
  PROVE  /\ UpdateAndJoin(p, c) \o r \in Seq(Tasks(d))
         /\ StackIs(d, st, pos, UpdateAndJoin(p, c) \o r)
<1>1. c \in ChildrenIn(d, p)
  BY DiagramFacts DEF ChildrenIn, ToSet
<1>2. IsCurrent(d, pos, p, c)
  BY DEF IsCurrent
<1>3. QED
  BY <1>1, <1>2, PairStack

LEMMA NothingFirst ==
  ASSUME NEW T, NEW s \in Seq(T)
  PROVE  << >> \o s = s
OBVIOUS

LEMMA UpdateSerialTree ==
  ASSUME TreeInv, NEW p \in Phases, UpdateSerial(p)
  PROVE  TreeInv'
<1>0. /\ p \in Ps(diagram) /\ mState[p] = "run"
      /\ Rest(p) \in Seq(Tasks(diagram)) /\ StackIs(diagram, mState, mPosition, Rest(p))
      /\ \A i \in 1 .. Len(Rest(p)) :
           /\ \A q \in ChildrenIn(diagram, p) : Rest(p)[i].phase \notin Below(diagram, q)
           /\ ~ (Rest(p)[i].do = "join" /\ Rest(p)[i].phase = p)
  <2>1. First("update", p, "run")
    BY DEF UpdateSerial
  <2>2. QED
    BY <2>1, RestTree
<1> DEFINE children == diagram.phase[p].children
           rest == Rest(p)
           first == IF mPosition[p] <= Len(children) THEN UpdateAndJoin(p, children[mPosition[p]])
                    ELSE << >>
<1>1. /\ diagram \in Diagrams /\ First("update", p, "run") /\ diagram.phase[p].kind = "serial"
      /\ SameTree /\ todo' = first \o rest
  BY DEF UpdateSerial, TreeInv, SameTree, Kind, phases
<1>2. /\ p \in Ps(diagram) /\ mState[p] = "run"
      /\ rest \in Seq(Tasks(diagram)) /\ StackIs(diagram, mState, mPosition, rest)
      /\ \A i \in 1 .. Len(rest) :
           /\ \A q \in ChildrenIn(diagram, p) : rest[i].phase \notin Below(diagram, q)
           /\ ~ (rest[i].do = "join" /\ rest[i].phase = p)
  BY <1>0
<1>3. /\ mPosition[p] \in Nat /\ mPosition[p] >= 1
      /\ Len(children) \in Nat
  <2>1. Len(children) \in Nat
    <3>1. children \in Seq(Ps(diagram))
      BY <1>1, <1>2, DiagramFacts
    <3> HIDE DEF children
    <3>2. QED
      BY <3>1
  <2>2. mPosition[p] \in 1 .. Len(children) + 1
    BY <1>2 DEF TreeInv, TreeState
  <2>3. QED
    BY <2>1, <2>2
<1>4. /\ mPosition[p] > Len(children) => first = << >>
      /\ mPosition[p] <= Len(children) => first = UpdateAndJoin(p, children[mPosition[p]])
  BY <1>3
<1> HIDE DEF rest, first
<1>5. CASE mPosition[p] > Len(children)
  <2>1. todo' = rest
    BY <1>1, <1>2, <1>4, <1>5, NothingFirst
  <2>2. QED
    BY <1>1, <1>2, <2>1, KeepTree
<1>6. CASE mPosition[p] <= Len(children)
  <2>1. mPosition[p] \in 1 .. Len(children)
    BY <1>3, <1>6
  <2>2. /\ first \o rest \in Seq(Tasks(diagram))
        /\ StackIs(diagram, mState, mPosition, first \o rest)
    BY <1>1, <1>2, <1>4, <1>6, <2>1, CurrentTasks
  <2>3. QED
    BY <1>1, <2>2, KeepTree
<1>7. QED
  BY <1>3, <1>5, <1>6

LEMMA JoinTree ==
  ASSUME TreeInv, NEW p \in Phases, Join(p)
  PROVE  TreeInv'
<1> DEFINE children == diagram.phase[p].children
           t == Head(todo)
           ended == mState[t.child] = "end"
           next == mPosition[p] + 1
           rest == Tail(todo)
           first == IF diagram.phase[p].kind = "serial" /\ ended /\ next <= Len(children)
                    THEN UpdateAndJoin(p, children[next]) ELSE << >>
<1>1. /\ diagram \in Diagrams /\ TreeState(diagram, mState, mPosition)
      /\ Phases = Ps(diagram)
  BY DEF TreeInv, Phases, Ps
<1>2. /\ First("join", p, "run") /\ UNCHANGED <<diagram, mState, mExecOrder>>
      /\ mPosition' = IF diagram.phase[p].kind = "serial" /\ ended
                      THEN [mPosition EXCEPT ![p] = next] ELSE mPosition
      /\ todo' = first \o rest
  BY DEF Join, NextPosition, Kind
<1>3. /\ p \in Ps(diagram) /\ mState[p] = "run" /\ t.do = "join" /\ t.phase = p
      /\ Called(diagram, mState, mPosition, t)
      /\ rest \in Seq(Tasks(diagram)) /\ StackIs(diagram, mState, mPosition, rest)
      /\ \A i \in 1 .. Len(rest) : Follows(diagram, t, rest[i])
  BY <1>2, FirstTask
<1>4. mPosition \in [Ps(diagram) -> Nat] /\ Len(children) \in Nat
  BY <1>1, <1>3, DiagramFacts DEF TreeState
<1>5. /\ ~ (diagram.phase[p].kind = "serial" /\ ended) => first = << >>
      /\ next > Len(children) => first = << >>
      /\ diagram.phase[p].kind = "serial" /\ ended /\ next <= Len(children)
         => first = UpdateAndJoin(p, children[next])
  BY <1>3, <1>4
<1> HIDE DEF t, rest, first
<1>6. CASE ~ (diagram.phase[p].kind = "serial" /\ ended)
  <2>1. SameTree
    BY <1>2, <1>6 DEF SameTree
  <2>2. todo' = rest
    BY <1>2, <1>3, <1>5, <1>6, NothingFirst
  <2>3. QED
    BY <1>3, <2>1, <2>2, KeepTree
<1>7. CASE diagram.phase[p].kind = "serial" /\ ended
  <2> DEFINE new == [mPosition EXCEPT ![p] = mPosition[p] + 1]
  <2>1. mPosition' = new
    BY <1>2, <1>7
  <2>2. mPosition[p] \in 1 .. Len(children) /\ mState[children[mPosition[p]]] = "end"
    BY <1>3, <1>7 DEF Called, IsCurrent
  <2>3. /\ TreeState(diagram, mState, new)
        /\ \A u \in Tasks(diagram) :
             Called(diagram, mState, mPosition, u) /\ u.phase \notin ChildrenIn(diagram, p)
             /\ ~ (u.do = "join" /\ u.phase = p) => Called(diagram, mState, new, u)
    BY <1>1, <1>3, <1>7, <2>2, JoinedTree
  <2>4. \A c \in ChildrenIn(diagram, p) : c \in Below(diagram, c)
    BY <1>1, <1>3, DiagramFacts, BelowFacts
  <2>5. \A i \in 1 .. Len(rest) :
          /\ \A q \in ChildrenIn(diagram, p) : rest[i].phase \notin Below(diagram, q)
          /\ ~ (rest[i].do = "join" /\ rest[i].phase = p)
    BY <1>3, <1>7 DEF Follows
  <2>6. \A i \in 1 .. Len(rest) : rest[i] \in Tasks(diagram)
    <3> DEFINE T == Tasks(diagram)
    <3> HIDE DEF T
    <3>1. rest \in Seq(T)
      BY <1>3 DEF T
    <3>2. QED
      BY <3>1 DEF T
  <2>7. new[p] = next
    BY <1>3, <1>4
  <2> HIDE DEF new
  <2>8. StackIs(diagram, mState, new, rest)
    <3>1. \A i \in 1 .. Len(rest) : Called(diagram, mState, mPosition, rest[i])
                                    => Called(diagram, mState, new, rest[i])
      BY <2>3, <2>4, <2>5, <2>6
    <3>2. QED
      BY <1>3, <3>1, SameStack
  <2>9. /\ todo' \in Seq(Tasks(diagram))
        /\ StackIs(diagram, mState, new, todo')
    <3>1. CASE next > Len(children)
      BY <1>2, <1>3, <1>5, <2>8, <3>1, NothingFirst
    <3>2. CASE next <= Len(children)
      <4>1. new[p] \in 1 .. Len(children) /\ first = UpdateAndJoin(p, children[new[p]])
        BY <1>3, <1>4, <1>5, <1>7, <2>7, <3>2
      <4>2. /\ first \o rest \in Seq(Tasks(diagram))
            /\ StackIs(diagram, mState, new, first \o rest)
        BY <1>1, <1>3, <1>7, <2>5, <2>8, <4>1, CurrentTasks
      <4>3. QED
        BY <1>2, <4>2
    <3>3. QED
      BY <1>3, <1>4, <3>1, <3>2
  <2>10. QED
    BY <1>2, <2>1, <2>3, <2>9 DEF TreeInv, Phases
<1>8. QED
  BY <1>6, <1>7

LEMMA OnEndTree ==
  ASSUME TreeInv, NEW p \in Phases, OnEnd(p)
  PROVE  TreeInv'
<1> DEFINE E == EndingWith(p)
           t == Head(todo)
           rest == Tail(todo)
<1>1. /\ diagram \in Diagrams /\ TreeState(diagram, mState, mPosition)
      /\ Phases = Ps(diagram)
  BY DEF TreeInv, Phases, Ps
<1>2. First("finish", p, "run")
  BY DEF OnEnd
<1>3. /\ p \in Ps(diagram) /\ mState[p] = "run" /\ t.do = "finish" /\ t.phase = p
      /\ rest \in Seq(Tasks(diagram)) /\ StackIs(diagram, mState, mPosition, rest)
      /\ \A i \in 1 .. Len(rest) : Follows(diagram, t, rest[i])
  BY <1>2, FirstTask
<1>4. CASE Throw("error")
  BY <1>4, ThrowTree
<1>5. CASE /\ mState' = [q \in Phases |-> IF q \in E THEN "end" ELSE mState[q]]
           /\ todo' = IF p = diagram.root THEN << >> ELSE Tail(todo)
           /\ UNCHANGED <<diagram, mPosition, mExecOrder>>
  <2>1. /\ p \in E /\ E \in SUBSET Below(diagram, p)
        /\ \A q \in E : ~ IsActionPhase(q) => Remaining(q) \subseteq E
        /\ \A q \in E : q # p => \E r \in E : q \in ChildrenIn(diagram, r)
    BY <1>1, EndingFacts
  <2>2. Below(diagram, p) \subseteq Ps(diagram)
    BY <1>1, BelowFacts
  <2>3. todo' = << >> \/ todo' = rest
    BY <1>5
  <2>4. UNCHANGED <<diagram, mPosition, mExecOrder>>
    BY <1>5
  <2> HIDE DEF E, t, rest
  <2>5. \A q \in E : diagram.phase[q].kind \notin {"drive", "system"} =>
          \A i \in 1 .. Len(diagram.phase[q].children) :
            diagram.phase[q].kind = "mix" \/ i >= mPosition[q] => diagram.phase[q].children[i] \in E
    <3>1. SUFFICES ASSUME NEW q \in E, diagram.phase[q].kind \notin {"drive", "system"},
                          NEW i \in 1 .. Len(diagram.phase[q].children),
                          diagram.phase[q].kind = "mix" \/ i >= mPosition[q]
                   PROVE  diagram.phase[q].children[i] \in E
      OBVIOUS
    <3>2. i \in DOMAIN diagram.phase[q].children
      BY <1>1, <2>1, <2>2, <3>1, DiagramFacts
    <3>3. diagram.phase[q].children[i] \in Remaining(q)
      BY <3>1, <3>2 DEF Remaining, Kind
    <3>4. QED
      BY <2>1, <3>1, <3>3 DEF IsActionPhase, Kind
  <2>6. mState' = [q \in Ps(diagram) |-> IF q \in E THEN "end" ELSE mState[q]]
    BY <1>1, <1>5 DEF E
  <2>7. /\ TreeState(diagram, [q \in Ps(diagram) |-> IF q \in E THEN "end" ELSE mState[q]], mPosition)
        /\ \A u \in Tasks(diagram) :
             Called(diagram, mState, mPosition, u) /\ u.phase \notin Below(diagram, p)
             => Called(diagram, [q \in Ps(diagram) |-> IF q \in E THEN "end" ELSE mState[q]],
                       mPosition, u)
    BY <1>1, <1>3, <2>1, <2>5, EndedTree
  <2>8. \A i \in 1 .. Len(rest) : rest[i] \in Tasks(diagram)
    <3> DEFINE T == Tasks(diagram)
    <3> HIDE DEF T
    <3>1. rest \in Seq(T)
      BY <1>3 DEF T
    <3>2. QED
      BY <3>1 DEF T
  <2>9. \A i \in 1 .. Len(rest) : rest[i].phase \notin Below(diagram, p)
    BY <1>3 DEF Follows
  <2>10. StackIs(diagram, mState', mPosition, rest)
    <3>1. \A i \in 1 .. Len(rest) : Called(diagram, mState, mPosition, rest[i])
                                    => Called(diagram, mState', mPosition, rest[i])
      BY <2>6, <2>7, <2>8, <2>9
    <3>2. QED
      BY <1>3, <3>1, SameStack
  <2>11. todo' \in Seq(Tasks(diagram)) /\ StackIs(diagram, mState', mPosition, todo')
    BY <1>3, <2>3, <2>10, EmptyStack
  <2>12. TreeState(diagram, mState', mPosition)
    BY <2>6, <2>7
  <2>13. QED
    BY <2>4, <2>11, <2>12 DEF TreeInv, Phases
<1>6. QED
  BY <1>4, <1>5 DEF OnEnd

LEMMA IdleTree ==
  ASSUME TreeInv, SameTree, todo' = todo
  PROVE  TreeInv'
BY KeepTree DEF TreeInv

\* Steps that only touch the statuses of actions and what clients are told of them.
NewsOnly == Client \/ (\E a \in ActionIds : PublishEnd(a)) \/ UNCHANGED vars

LEMMA NewsFrame ==
  ASSUME NewsOnly
  PROVE  /\ UNCHANGED <<diagram, mState, mPosition, mExecOrder, mIsInitPending, mChildrenDone>>
         /\ UNCHANGED <<mCondition, sample, now, created, motion, parameters, emitted, ranAt>>
         /\ UNCHANGED <<mHasPhaseStateTransition, mPhasesToDispatch, mPhasesInProcess>>
         /\ UNCHANGED <<mUserDefinedEvents, stage, todo, sending, outcome, published>>
<1>1. CASE UNCHANGED vars
  BY <1>1 DEF vars, phases, conditions, executor, simulation, clients
<1>2. CASE WriteDone \/ PublishDone
  BY <1>2 DEF WriteDone, PublishDone, phases, conditions, executor, simulation
<1>3. ASSUME NEW a \in ActionIds, ReportComplete(a) \/ PublishEnd(a)
      PROVE  /\ UNCHANGED <<diagram, mState, mPosition, mExecOrder, mIsInitPending, mChildrenDone>>
             /\ UNCHANGED <<mCondition, sample, now, created, motion, parameters, emitted, ranAt>>
             /\ UNCHANGED <<mHasPhaseStateTransition, mPhasesToDispatch, mPhasesInProcess>>
             /\ UNCHANGED <<mUserDefinedEvents, stage, todo, sending, outcome, published>>
  BY <1>3 DEF ReportComplete, PublishEnd, phases, conditions, executor, simulation
<1>4. QED
  BY <1>1, <1>2, <1>3 DEF NewsOnly, Client, Complete

LEMMA NextTree ==
  ASSUME TreeInv, Next
  PROVE  TreeInv'
<1>1. CASE BeginStart
  BY <1>1, RootTree DEF BeginStart, SameTree, phases
<1>2. CASE BeginUpdate
  BY <1>2, RootTree DEF BeginUpdate, SameTree, phases
<1>3. ASSUME NEW p \in Phases, UpdatePhase(p)
      PROVE  TreeInv'
  <2>1. CASE OnStart(p)
    BY <2>1, OnStartTree
  <2>2. CASE KeepWaiting(p)
    BY <2>2, PopTree DEF KeepWaiting, SameTree, phases
  <2>3. CASE OnRun(p)
    BY <2>3, OnRunTree
  <2>4. CASE UpdateEnded(p)
    BY <2>4, PopTree DEF UpdateEnded, SameTree, phases
  <2>5. CASE OrderChildren(p)
    BY <2>5, OrderChildrenTree
  <2>6. CASE UpdateMix(p)
    BY <2>6, UpdateMixTree
  <2>7. CASE UpdateSerial(p)
    BY <2>7, UpdateSerialTree
  <2>8. CASE UpdateActionPhase(p)
    BY <2>8, UpdateActionPhaseTree
  <2>9. CASE Join(p)
    BY <2>9, JoinTree
  <2>10. CASE SkipFirstUpdate(p)
    BY <2>10, PopTree DEF SkipFirstUpdate, SameTree
  <2>11. CASE KeepRunning(p)
    BY <2>11, PopTree DEF KeepRunning, SameTree, phases
  <2>12. CASE OnEnd(p)
    BY <2>12, OnEndTree
  <2>13. QED
    BY <1>3, <2>1, <2>2, <2>3, <2>4, <2>5, <2>6, <2>7, <2>8, <2>9, <2>10, <2>11, <2>12
       DEF UpdatePhase
<1>4. ASSUME NEW p \in Phases, Dispatch(p)
      PROVE  TreeInv'
  BY <1>4, IdleTree DEF Dispatch, PassOver, PublishActions, PutInProcess,
                        NotifyActionEventDispatched, SameTree, phases
<1>5. CASE RepeatUpdate
  BY <1>5, RootTree DEF RepeatUpdate, SameTree, phases
<1>6. CASE BeginDispatch \/ EndDispatch
  BY <1>6, IdleTree DEF BeginDispatch, EndDispatch, SameTree, phases
<1>7. CASE NewsOnly
  BY <1>7, NewsFrame, IdleTree DEF SameTree
<1>8. QED
  BY <1>1, <1>2, <1>3, <1>4, <1>5, <1>6, <1>7 DEF Next, ProcessEvent, NewsOnly

LEMMA StutterTree ==
  ASSUME TreeInv, UNCHANGED vars
  PROVE  TreeInv'
BY IdleTree DEF vars, phases, SameTree

(***************************************************************************)
(* In every scenario, whatever its conditions and whatever the clients     *)
(* report, the tree of phases stays consistent: a phase that does not run  *)
(* has only idle or only ended phases below it, and a serial phase has     *)
(* ended what it has passed (Phase.cpp: MixPhase, SerialPhase).            *)
(***************************************************************************)
THEOREM TreeStaysConsistent == Spec => []TreeConsistent
<1>1. Init => TreeInv
  BY InitTree
<1>2. TreeInv /\ [Next]_vars => TreeInv'
  BY NextTree, StutterTree
<1>3. TreeInv => TreeConsistent
  BY InvTree
<1>4. QED
  BY <1>1, <1>2, <1>3, PTL DEF Spec
=============================================================================
