------------------------------ MODULE RaceTrack ------------------------------
(***************************************************************************)
(* The order in which the phases of a parallel phase execute (RaceTrack.h, *)
(* RaceTrack.cpp).  A phase that creates an actor, a racer, has to come    *)
(* before the phases that need this actor in order to run.  A diagram d is *)
(* a tree of phases: d.phase[p].kind is "mix" (parallel), "serial",        *)
(* "drive" or "system", d.phase[p].children a sequence.                    *)
(***************************************************************************)
EXTENDS Conditions

NoCondition == "none"

IsCompositePhase(d, p) == d.phase[p].kind \in {"mix", "serial"}

\* A serial phase runs one child after another.
GetActiveChildren(d, p) ==
  IF d.phase[p].kind = "serial" THEN <<d.phase[p].children[1]>> ELSE d.phase[p].children

\* The phases that may execute within the starter, in the order of the code's visit.
Members(d, starter) ==
  LET visit[p \in DOMAIN d.phase] ==
        LET active == IF IsCompositePhase(d, p) THEN GetActiveChildren(d, p) ELSE << >>
            last[i \in 0 .. Len(active)] ==
              IF i = 0 THEN << >> ELSE visit[active[i]] \o last[i - 1]
        IN  <<p>> \o last[Len(active)]
  IN  Tail(visit[starter])

\* A drive phase creates its actor unless the actor exists.
HasActorCreation(d, p, created) == d.phase[p].kind = "drive" /\ d.phase[p].actor \notin created

\* The first visited phase that creates an actor is its racer.
Racers(d, starter, created) ==
  LET members == Members(d, starter)
      creators == SelectSeq(members, LAMBDA p : HasActorCreation(d, p, created))
  IN  {creators[i] : i \in {i \in DOMAIN creators :
         \A j \in 1 .. i - 1 : d.phase[creators[j]].actor # d.phase[creators[i]].actor}}

DependencyOfAction(d, a) ==
  IF d.action[a].kind \in {"laneChange", "lateralOffset", "speed", "longitudinalDistance"}
     /\ d.action[a].condition # NoCondition
  THEN AddDependency(d.conditions, d.action[a].condition) ELSE {}

DependencyOfActions(d, p) ==
  UNION {DependencyOfAction(d, a) : a \in ToSet(d.phase[p].actions)}

\* Mutant: the actions of a phase do not count.
GetDependencyToRun_Conditions(d, p, initPending) ==
  LET start == d.phase[p].start
  IN  IF start = NoCondition THEN {} ELSE AddDependency(d.conditions, start)

GetDependencyToRun(d, p, initPending) ==
  LET start == d.phase[p].start
      end == d.phase[p].end
  IN  (IF start = NoCondition THEN {} ELSE AddDependency(d.conditions, start))
      \cup (IF end = NoCondition THEN {}
            ELSE IF initPending THEN AddDependencyOfApply(d.conditions, end)
            ELSE AddDependency(d.conditions, end))
      \cup DependencyOfActions(d, p)

\* Pairs <<member, racer>>: the member needs the actor of the racer.
MemberDeps(d, starter, created, initPending) ==
  {dep \in ToSet(Members(d, starter)) \X Racers(d, starter, created) :
     /\ dep[1] # dep[2]
     /\ d.phase[dep[2]].actor \in GetDependencyToRun(d, dep[1], initPending[dep[1]])}

-----------------------------------------------------------------------------
IsChild(d, p, q) == IsCompositePhase(d, p) /\ q \in ToSet(d.phase[p].children)

\* A phase and all those above it, up to the root.
Ancestors(d, p) ==
  LET up[q \in DOMAIN d.phase] ==
        {q} \cup UNION {up[r] : r \in {r \in DOMAIN d.phase : IsChild(d, r, q)}}
  IN  up[p]

(* FindSiblingAncestors throws "Unexpected error" when one phase is above the other. *)
HaveSiblingAncestors(d, p, q) == p \notin Ancestors(d, q) /\ q \notin Ancestors(d, p)

\* Otherwise the ancestors of p and q just below the lowest phase above both.
SiblingAncestors(d, p, q) ==
  CHOOSE pair \in Ancestors(d, p) \X Ancestors(d, q) :
    pair[1] # pair[2] /\ \E r \in DOMAIN d.phase : IsChild(d, r, pair[1]) /\ IsChild(d, r, pair[2])

-----------------------------------------------------------------------------
(***************************************************************************)
(* SortChildren: a depth-first search of the graph in which an edge leads  *)
(* from a child to one that has to execute earlier.  The search starts     *)
(* from the children in the order of the data model and lists each of them *)
(* after all that it reaches.  Edges are pairs of positions in 1 .. n; in  *)
(* which order the search follows the edges of one child is left open.     *)
(***************************************************************************)
G == INSTANCE Graphs

Earlier(n, edges, i) == G!Descendants([node |-> 1 .. n, edge |-> edges], i)

HasCycle(n, edges) == \E i \in 1 .. n : i \in Earlier(n, edges, i)

SortChildren(n, edges) ==
  LET FoundFrom(i) == CHOOSE j \in 1 .. n :
                        /\ i = j \/ i \in Earlier(n, edges, j)
                        /\ \A k \in 1 .. j - 1 : i # k /\ i \notin Earlier(n, edges, k)
  IN  IF edges = {} THEN {[i \in 1 .. n |-> i]}
      ELSE {s \in SetToSeqs(1 .. n) : \A i \in 1 .. n : \A j \in i + 1 .. n :
              <<s[i], s[j]>> \notin edges /\ FoundFrom(s[i]) <= FoundFrom(s[j])}

-----------------------------------------------------------------------------
(***************************************************************************)
(* RaceTrack::Sort, on behalf of a starting parallel phase.  It orders the *)
(* children of every parallel phase that it meets.                         *)
(***************************************************************************)
Groups(d, starter) ==
  {starter} \cup {p \in ToSet(Members(d, starter)) : d.phase[p].kind = "mix"}

\* The edges between the children of one group.
ExecDeps(d, deps, group) ==
  LET children == d.phase[group].children
      position(p) == CHOOSE i \in DOMAIN children : children[i] = p
  IN  {<<position(pair[1]), position(pair[2])>> :
         pair \in {SiblingAncestors(d, dep[1], dep[2]) : dep \in deps}
                  \cap (ToSet(children) \X ToSet(children))}

\* What Sort reports: "sorted", or why it throws.
SortResult(d, starter, deps) ==
  IF \E dep \in deps : ~ HaveSiblingAncestors(d, dep[1], dep[2]) THEN "unexpected error"
  ELSE IF \E group \in Groups(d, starter) :
            HasCycle(Len(d.phase[group].children), ExecDeps(d, deps, group))
       THEN "circular dependency"
       ELSE "sorted"

ExecOrders(d, starter, deps) ==
  LET Orders(group, edges) == SortChildren(Len(d.phase[group].children), edges)
  IN  {f \in [Groups(d, starter) -> UNION {SetToSeqs(DOMAIN d.phase[group].children) :
                                              group \in Groups(d, starter)}] :
         \A group \in Groups(d, starter) :
           \E edges \in {ExecDeps(d, deps, group)} : f[group] \in Orders(group, edges)}
=============================================================================
