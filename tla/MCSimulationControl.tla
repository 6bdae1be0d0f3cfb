------------------------ MODULE MCSimulationControl -------------------------
(* Instances of SimulationControl for TLC: two callers, what they call in    *)
(* each run and how often.                                                   *)
EXTENDS SimulationControl, TLC

CONSTANTS a, b, r1, r2, r3, r4, k1, k2, k3, w1, w2

Each(x, y) == a :> x @@ b :> y

(* One caller starts and steps, the other one makes every other call except  *)
(* those that pause or restart the simulation.                               *)
OneStarter    == Each({"start", "step"}, Operations \ {"start", "restart", "pause"})

(* One caller starts, the other one restarts: starts may overlap.            *)
TwoStarters   == Each({"start"}, {"restart", "stop", "pause", "resume"})

StopAndStep   == Each({"start", "stop"}, {"step"})

Twice      == Each(2, 2)
ThreeTimes == Each(3, 3)
=============================================================================
