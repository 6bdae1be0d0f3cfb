------------------------ MODULE MCSimulationStepping ------------------------
(* Instances of SimulationStepping for TLC. *)
EXTENDS SimulationStepping

CONSTANTS car, trailer, world, t1, ping, pong

\* A trailer is created together with the car that draws it.
CarAndTrailer == [a \in {car, trailer} |-> IF a = car THEN world ELSE car]
=============================================================================
