-------------------------- MODULE MCEventPublisher --------------------------
(* Instances of EventPublisher for TLC. *)
EXTENDS EventPublisher, TLC

CONSTANTS c1, c2, h1, h2, sim, rpc, destructor

TwoClients == {c1, c2}
TwoHandlers == {h1, h2}

(* Handlers are interchangeable: no definition names one of them. *)
HandlerSymmetry == Permutations(Handlers)
=============================================================================
