---------------------------- MODULE StepBarrier -----------------------------
(***************************************************************************)
(* What SynchronousPublishAndWait promises, without threads, locks or the   *)
(* subscriber map: a round asks a set of clients, ends only when none of    *)
(* them is awaited, and after a timeout drops only clients that stayed      *)
(* silent for a whole wait, during which no answer sneaks in.               *)
(***************************************************************************)
EXTENDS Integers

CONSTANT Clients

VARIABLES
  phase,   \* "closed": no round; "open": collecting answers; "expiring": timed out
  status   \* of each client: "none" not awaited, "silent", or "alive" but not ready

bvars == <<phase, status>>

Awaited == {c \in Clients : status[c] # "none"}
Silent  == {c \in Clients : status[c] = "silent"}

Init == phase = "closed" /\ status = [c \in Clients |-> "none"]

Begin ==
  /\ phase = "closed" /\ Awaited = {}
  /\ phase' = "open"
  /\ \E asked \in SUBSET Clients :
       status' = [c \in Clients |-> IF c \in asked THEN "silent" ELSE "none"]

(* The client is ready, or leaves. *)
Answer(c) ==
  /\ phase = "open"
  /\ status' = [status EXCEPT ![c] = "none"]
  /\ UNCHANGED phase

(* The client is busy but alive. *)
Beat(c) ==
  /\ phase = "open" /\ status[c] = "silent"
  /\ status' = [status EXCEPT ![c] = "alive"]
  /\ UNCHANGED phase

Timeout ==
  /\ phase = "open" /\ Awaited # {}
  /\ phase' = "expiring"
  /\ UNCHANGED status

(* A silent client is dropped; one that is rejoining is given another wait. *)
Expire(c) ==
  /\ phase = "expiring" /\ status[c] = "silent"
  /\ \E s \in {"none", "alive"} : status' = [status EXCEPT ![c] = s]
  /\ UNCHANGED phase

WaitAgain ==
  /\ phase # "closed" /\ Silent = {} /\ Awaited # {}
  /\ phase' = "open"
  /\ status' = [c \in Clients |-> IF c \in Awaited THEN "silent" ELSE "none"]

End ==
  /\ phase # "closed" /\ Awaited = {}
  /\ phase' = "closed"
  /\ UNCHANGED status

Next ==
  \/ Begin \/ Timeout \/ WaitAgain \/ End
  \/ \E c \in Clients : Answer(c) \/ Beat(c) \/ Expire(c)

Spec == Init /\ [][Next]_bvars
=============================================================================
