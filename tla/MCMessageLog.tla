---------------------------- MODULE MCMessageLog ----------------------------
(* Instances of MessageLog for TLC. *)
EXTENDS MessageLog, TLC

CONSTANTS t1, t2, d1, c1, c2, s1, s2, a1, a2, y1, y2

Symmetric == Permutations({t1, t2}) \cup Permutations({c1, c2})
             \cup Permutations({s1, s2}) \cup Permutations({a1, a2})
             \cup Permutations({y1, y2})
=============================================================================
