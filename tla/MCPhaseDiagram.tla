--------------------------- MODULE MCPhaseDiagram ---------------------------
(* Scenarios for PhaseDiagram, small enough for TLC. *)
EXTENDS PhaseDiagram

Phase(kind, children, start, end) ==
  [kind |-> kind, children |-> children, operations |-> << >>, start |-> start, end |-> end,
   actor |-> "none", mode |-> "auto", actions |-> << >>]
Drive(actor, actions, start, end) ==
  [Phase("drive", << >>, start, end) EXCEPT !.actor = actor, !.actions = actions]
System(actions, start, end) == [Phase("system", << >>, start, end) EXCEPT !.actions = actions]

Action(kind, interval, condition) ==
  [kind |-> kind, interval |-> interval, condition |-> condition, continuous |-> FALSE,
   instantaneous |-> FALSE, parameter |-> "none"]

Speed(actor, value) ==
  [kind |-> "speed", actor |-> actor, comparison |-> "absolute", sampling |-> "start",
   ref |-> actor, min |-> value, max |-> value, rule |-> "equalTo"]
SameSpeed(actor, ref, sampling) ==
  [Speed(actor, 0) EXCEPT !.comparison = "sameAs", !.sampling = sampling, !.ref = ref]
Slower(actor, ref, sampling, value) ==
  [Speed(actor, value) EXCEPT !.comparison = "slowerThan", !.sampling = sampling, !.ref = ref]

Cars == {"A", "B"}
Motion(speedA, speedB, positionB) ==
  [speed |-> [a \in Cars |-> IF a = "A" THEN speedA ELSE speedB],
   position |-> [a \in Cars |-> IF a = "A" THEN 0 ELSE positionB]]
NoParameters == [scope \in {"actor", "behavior"} |-> [a \in Cars |-> [n \in {} |-> 0]]]
Apart == [a \in Cars |-> "world"]

(* A car starts with the speed of another one that is created in the same step. *)
Follow ==
  [root |-> "root",
   phase |-> [root   |-> Phase("mix", <<"follow", "lead", "watch">>, "none", "none"),
              follow |-> Drive("A", <<"match", "change">>, "none", "none"),
              lead   |-> Drive("B", <<"roll", "stop">>, "none", "none"),
              watch  |-> System(<<"wait">>, "none", "led")],
   action |-> [match  |-> Action("speed", "start", "asB"),
               change |-> Action("laneChange", "end", "inLane"),
               roll   |-> Action("speed", "start", "fast"),
               stop   |-> Action("speed", "end", "slow"),
               wait   |-> Action("wait", "end", "none")],
   conditions |-> [asB    |-> SameSpeed("A", "B", "start"),
                   inLane |-> [kind |-> "lane", actor |-> "A", ref |-> "B"],
                   fast   |-> Speed("B", 3),
                   slow   |-> Speed("B", 0),
                   led    |-> [kind |-> "actionsComplete", phase |-> "lead"]],
   parent |-> Apart, events |-> {}, simulink |-> {}, reported |-> {"change", "stop"},
   parameters |-> NoParameters,
   motions |-> {Motion(3, 3, 9), Motion(3, 0, 9)}]

NoExpressions == [n \in {} |-> 0]
Event(name) == [kind |-> "event", event |-> name, expressions |-> NoExpressions]

(* Actions of one car conflict. *)
CutIn ==
  [root |-> "root",
   phase |-> [root   |-> Phase("mix", <<"serial", "brake", "other">>, "none", "over"),
              serial |-> Phase("serial", <<"first", "second", "third">>, "none", "none"),
              first  |-> [Drive("A", <<"begin", "swerve", "aside">>, "none", "aWhile")
                          EXCEPT !.mode = "create"],
              second |-> Drive("A", <<"slower">>, "none", "dusk"),
              third  |-> System(<<"rest">>, "none", "none"),
              brake  |-> [Drive("A", <<"behind">>, "signal", "passed") EXCEPT !.mode = "noCreate"],
              other  |-> Drive("B", <<"stand">>, "none", "none")],
   action |-> [begin  |-> Action("speed", "start", "fast"),
               swerve |-> Action("userDefined", "end", "none"),
               slower |-> Action("speed", "end", "slow"),
               aside  |-> Action("lateralOffset", "end", "offset"),
               behind |-> [Action("longitudinalDistance", "end", "gap")
                           EXCEPT !.continuous = TRUE],
               rest   |-> Action("wait", "end", "none"),
               stand  |-> Action("speed", "start", "still")],
   conditions |-> [fast   |-> Speed("A", 3),
                   slow   |-> Slower("A", "B", "continuous", 3),
                   still  |-> Speed("B", 0),
                   offset |-> [kind |-> "lateralOffset", actor |-> "A"],
                   gap    |-> [kind |-> "longitudinal", actor |-> "A", ref |-> "B"],
                   aWhile |-> [kind |-> "duration", duration |-> 5],
                   signal |-> Event("brake"),
                   passed |-> [kind |-> "duration", duration |-> 3],
                   near   |-> [kind |-> "toActor", actor |-> "A", ref |-> "B", threshold |-> 3,
                               rule |-> "lessThan"],
                   late   |-> [kind |-> "simulationTime", due |-> 12],
                   dusk   |-> [kind |-> "simulationTime", due |-> 9],
                   gone   |-> [kind |-> "phaseState", phase |-> "second", state |-> "run"],
                   close  |-> [kind |-> "and", operands |-> <<"near", "gone">>],
                   over   |-> [kind |-> "or", operands |-> <<"close", "late">>]],
   parent |-> Apart, simulink |-> {}, reported |-> {"aside", "slower"},
   parameters |-> NoParameters,
   events |-> {[name |-> "brake", parameters |-> NoExpressions]},
   motions |-> {Motion(3, 0, 9), Motion(0, 0, 3)}]

(* A collision fails the scenario; the car in front comes from a nested phase. *)
Crash ==
  [root |-> "root",
   phase |-> [root   |-> [Phase("mix", <<"inner", "lead">>, "none", "none")
                          EXCEPT !.operations = <<"crash">>],
              inner  |-> Phase("mix", <<"trailer", "follow">>, "none", "none"),
              follow |-> Drive("A", <<"match", "keep">>, "none", "none"),
              trailer |-> Drive("A", <<"tow">>, "near", "briefly"),
              lead   |-> Drive("B", <<"roll">>, "none", "aWhile"),
              crash  |-> System(<<"fail">>, "hit", "none")],
   action |-> [match |-> Action("speed", "start", "asB"),
               keep  |-> Action("speed", "end", "withB"),
               tow   |-> Action("speed", "end", "towB"),
               roll  |-> Action("speed", "start", "slow"),
               fail  |-> Action("failure", "end", "none")],
   conditions |-> [asB    |-> SameSpeed("A", "B", "start"),
                   withB  |-> SameSpeed("A", "B", "continuous"),
                   towB   |-> SameSpeed("A", "B", "continuous"),
                   slow   |-> Speed("B", 0),
                   aWhile |-> [kind |-> "duration", duration |-> 7],
                   briefly |-> [kind |-> "duration", duration |-> 4],
                   near   |-> [kind |-> "toActor", actor |-> "A", ref |-> "B", threshold |-> 3,
                               rule |-> "lessThan"],
                   hit    |-> [kind |-> "collision", actors |-> {"A"}, refs |-> {}]],
   parent |-> Apart, simulink |-> {}, reported |-> {"keep", "tow"},
   parameters |-> NoParameters, events |-> {},
   motions |-> {Motion(3, 0, 9), Motion(3, 0, 3), Motion(0, 0, 0)}]

(* Events, parameters and operations of the system. *)
Signals ==
  [root |-> "root",
   phase |-> [root  |-> Phase("serial", <<"ready", "work", "done">>, "none", "none"),
              ready |-> [System(<<"wait">>, "none", "go") EXCEPT !.operations = <<"ping">>],
              ping  |-> System(<<"send">>, "soon", "none"),
              work  |-> Drive("A", <<"roll", "hold", "mode">>, "none", "worked"),
              done  |-> System(<<"win">>, "changed", "none")],
   action |-> [wait |-> Action("wait", "end", "none"),
               send |-> [Action("emit", "end", "none") EXCEPT
                         !.parameter = [name |-> "ping", parameters |-> [n \in {} |-> 0]]],
               roll |-> Action("speed", "start", "fast"),
               hold |-> Action("speed", "invariant", "still"),
               mode |-> [Action("changeParameter", "end", "none") EXCEPT
                         !.parameter = [scope |-> "behavior", name |-> "mode",
                                        value |-> [type |-> "string", text |-> "number", value |-> 2]]],
               win  |-> Action("success", "end", "none")],
   conditions |-> [fast    |-> Speed("A", 3),
                   still   |-> Speed("A", 3),
                   go      |-> [kind |-> "event", event |-> "go",
                                expressions |-> [level |-> [rule |-> "greaterThan",
                                  value |-> [text |-> "number", value |-> 1]]]],
                   soon    |-> [kind |-> "simulationTime", due |-> 3],
                   pinged  |-> Event("ping"),
                   rest    |-> [kind |-> "duration", duration |-> 5],
                   worked  |-> [kind |-> "or", operands |-> <<"pinged", "rest">>],
                   arrived |-> [kind |-> "toPoint", actor |-> "A", point |-> 0, threshold |-> 2,
                                rule |-> "equalTo"],
                   differs |-> [kind |-> "parameter", scope |-> "behavior", actor |-> "A",
                                expressions |-> [mode |-> [rule |-> "equalTo",
                                  value |-> [text |-> "number", value |-> 2]]]],
                   elsewhere |-> [kind |-> "toPoint", actor |-> "A", point |-> 9, threshold |-> 2,
                                  rule |-> "greaterThan"],
                   changed |-> [kind |-> "and", operands |-> <<"elsewhere", "differs">>]],
   parent |-> [a \in Cars |-> IF a = "B" THEN "A" ELSE "world"],
   events |-> {[name |-> "go", parameters |-> [level |-> [type |-> "integer", text |-> "number",
                                                          value |-> l]]] : l \in {1, 2}},
   simulink |-> {"A"}, reported |-> {"mode"},
   parameters |-> [scope \in {"actor", "behavior"} |->
                     [a \in Cars |-> [mode |-> [type |-> "string", text |-> "words", value |-> 0]]]],
   motions |-> {Motion(3, 3, 9), Motion(0, 0, 9)}]

(* Each of two cars is to start with the speed of the other. *)
Circle ==
  [Follow EXCEPT !.conditions.fast = SameSpeed("B", "A", "start")]

(* The car to follow is created only when an event occurs. *)
LateLead ==
  [Follow EXCEPT !.phase.lead.start = "signal",
                 !.events = {[name |-> "brake", parameters |-> [n \in {} |-> 0]]},
                 !.conditions = [c \in DOMAIN @ \cup {"signal"} |->
                    IF c = "signal" THEN CutIn.conditions.signal ELSE @[c]]]


(* A car that exists is given another initial action on an update event. *)
Again ==
  [Follow EXCEPT
     !.phase = [root   |-> Phase("serial", <<"lead", "follow">>, "none", "none"),
                lead   |-> Drive("B", <<"roll", "stop">>, "none", "none"),
                follow |-> Drive("B", <<"change">>, "none", "none")],
     !.action = [roll |-> @.roll, stop |-> @.stop, change |-> Action("laneChange", "start", "inLane")],
     !.conditions.inLane.actor = "B"]

(* A serial phase lasts until the car that its first child creates is fast. *)
Until ==
  [Follow EXCEPT
     !.phase = [root  |-> Phase("mix", <<"trip">>, "none", "none"),
                trip  |-> Phase("serial", <<"lead">>, "none", "quick"),
                lead  |-> Drive("B", <<"roll", "stop">>, "none", "none")],
     !.action = [roll |-> @.roll, stop |-> @.stop],
     !.conditions = [fast |-> @.fast, slow |-> @.slow, quick |-> Speed("B", 9)]]

(* A phase waits for a parameter of the car that the next phase creates. *)
Compare ==
  [Follow EXCEPT
     !.phase = [root  |-> Phase("mix", <<"watch", "lead">>, "none", "none"),
                watch |-> System(<<"wait">>, "sport", "none"),
                lead  |-> Drive("B", <<"roll", "stop">>, "none", "none")],
     !.action = [wait |-> @.wait, roll |-> @.roll, stop |-> @.stop],
     !.conditions = [fast |-> @.fast, slow |-> @.slow,
                     sport |-> [Signals.conditions.differs EXCEPT !.scope = "actor", !.actor = "B"]],
     !.parameters = Signals.parameters]

Scenarios == {Follow, CutIn, Crash, Signals, Circle, LateLead, Until, Compare}
EarlyEnd == {Again}
LateCompletion == {CutIn}
=============================================================================
