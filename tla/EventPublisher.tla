--------------------------- MODULE EventPublisher ---------------------------
(***************************************************************************)
(* EventPublisher.cpp: the map of simulation clients and the barrier that   *)
(* keeps the simulation in lock step with them.                             *)
(*                                                                         *)
(* Threads.  SimThread runs Simulation's loop and publishes through         *)
(* SynchronousPublishAndWait; RpcPublishers are gRPC threads that publish   *)
(* the same way (AddRuntimeActor); Handlers are gRPC threads that serve one *)
(* SubscribeEvents stream each; Shutdown runs ~SimulationServer.  SetReady  *)
(* and SetBusy hold ClientsReadyMutex only, so they are one step, followed  *)
(* by the notification they send after unlocking.                           *)
(*                                                                         *)
(* Locks.  ClientsReadyMutex is held by a publisher from its first step to  *)
(* its return, except while it waits on the condition variable.             *)
(* ClientAddRemoveMutex is held across steps only by CancelSubscribers;     *)
(* every other critical section it protects is a single step.  Events that  *)
(* need no SetReady (subscribed, unsubscribed, shutdown) only write to      *)
(* streams and are left out.                                                *)
(***************************************************************************)
EXTENDS Integers

CONSTANTS
  Clients,        \* the client ids
  SimThread,      \* the simulation thread
  RpcPublishers,  \* gRPC threads that publish synchronously
  Handlers,       \* gRPC threads serving SubscribeEvents
  Shutdown,       \* the thread that destroys the server
  None,           \* no client, no handler
  Proposals,      \* the timeouts clients may propose
  MinTimeout,     \* MIN_TIMEOUT_IN_MS
  ConfigTimeout,  \* the configured timeout of the configured event type
  TimeoutBound,   \* the largest timeout an unsigned int holds
  SpuriousReady,  \* may a client call SetReady with nothing to acknowledge?
  MaxEvents,      \* bound: synchronous events published
  MaxJoins,       \* bound: RegisterClient calls per id; 1 = ids are never reused
  MaxBusy         \* bound: SetBusy calls that have an effect

Publishers == {SimThread} \cup RpcPublishers
Threads == Publishers \cup Handlers \cup {Shutdown}
Timeouts == 0 .. TimeoutBound

ASSUME ConstantsAssumption ==
  /\ SimThread \notin RpcPublishers
  /\ Publishers \cap Handlers = {}
  /\ Shutdown \notin Publishers \cup Handlers
  /\ None \notin Threads \cup Clients
  /\ TimeoutBound \in Nat
  /\ Proposals \subseteq Timeouts
  /\ MinTimeout \in Timeouts
  /\ ConfigTimeout \in Timeouts
  /\ ConfigTimeout >= MinTimeout       \* InitializeTimeoutValues raises it
  /\ SpuriousReady \in BOOLEAN
  /\ MaxEvents \in Nat /\ MaxJoins \in Nat /\ MaxBusy \in Nat

VARIABLES
  registered,    \* the keys of IdToSubscribers
  stream,        \* mContext and mWriter of an entry; None: not an event subscriber
  synchronous,   \* the clients whose profile says synchronous
  proposed,      \* timeout_milliseconds of each profile
  maxProposed,   \* mMaxProposedTimeOut
  timeoutValue,  \* mTimeoutValues of the configured event type
  unready,       \* UnreadySynchronousClients
  noHeartBeat,   \* NoHeartBeatSynchronousClients
  pc,            \* where each thread is
  target,        \* the client a handler serves, or a thread is removing
  timeOut,       \* local variable of SynchronousPublishAndWait
  woken,         \* publishers whose wait has been notified
  notifying,     \* clients whose RPC is about to call notify_one
  cancelled,     \* ServerContext::IsCancelled of each handler
  published, joins, busy,  \* counters for the bounds
  owed,          \* history: synchronous events written to a stream, not yet acknowledged
  heard,         \* history: clients heard from since the current wait began
  pending        \* history: clients asked for an answer that neither gave one nor left

members  == <<registered, stream, synchronous, proposed, maxProposed, timeoutValue>>
barrier  == <<unready, noHeartBeat>>
threads  == <<pc, target, timeOut>>
history  == <<owed, heard, pending>>
counters == <<published, joins, busy>>
vars == <<members, barrier, threads, woken, notifying, cancelled, counters, history>>

Subscribers == {c \in registered : stream[c] # None}
SyncSubscribers == Subscribers \cap synchronous

ReadyHeld == {"insert", "broadcast", "expire", "check", "resolve", "notify", "erase", "crashed"}
ReadyFree == \A p \in Publishers : pc[p] \notin ReadyHeld

Crashed == \E t \in Threads : pc[t] = "crashed"
CancelSteps == {"cancel", "check", "resolve", "notify", "erase"}
AddRemoveFree(t) ==           \* a recursive mutex; a thread that crashes dies holding it
  /\ ~Crashed
  /\ t = Shutdown \/ pc[Shutdown] \notin CancelSteps

(* Mutants: proposals are added up; the latest proposal wins.               *)
SumOfProposals(a, b) == a + b
LatestProposal(a, b) == a

Larger(a, b) == IF a > b THEN a ELSE b
Largest(S) == CHOOSE m \in S : \A n \in S : n <= m

PublisherStates == {"idle", "lock", "waiting"} \cup ReadyHeld
HandlerStates == {"idle", "serving", "crashed", "check", "resolve", "notify", "erase"}
ShutdownStates == {"up", "closing", "down", "crashed"} \cup CancelSteps

-----------------------------------------------------------------------------
Init ==
  /\ registered = {} /\ synchronous = {}
  /\ stream = [c \in Clients |-> None]
  /\ proposed = [c \in Clients |-> MinTimeout]
  /\ maxProposed = MinTimeout /\ timeoutValue = ConfigTimeout
  /\ unready = {} /\ noHeartBeat = {}
  /\ pc = [t \in Threads |-> IF t = Shutdown THEN "up" ELSE "idle"]
  /\ target = [t \in Threads |-> None]
  /\ timeOut = [p \in Publishers |-> MinTimeout]
  /\ woken = {} /\ notifying = {}
  /\ cancelled = [h \in Handlers |-> FALSE]
  /\ published = 0 /\ busy = 0 /\ joins = [c \in Clients |-> 0]
  /\ owed = [c \in Clients |-> 0] /\ heard = {} /\ pending = {}

(* Mutant: nobody is notified. *)
NotifyNobody == UNCHANGED woken

(* notify_one: one waiting publisher, if there is any. *)
Waiters == {p \in Publishers : pc[p] = "waiting"} \ woken
NotifyOne ==
  \/ /\ Waiters = {}
     /\ UNCHANGED woken
  \/ \E p \in Waiters : woken' = woken \cup {p}

-----------------------------------------------------------------------------
(* Clients: RegisterClient, SubscribeEvents, SetReady, SetBusy.             *)

Register(c) ==
  /\ pc[Shutdown] # "down" /\ AddRemoveFree(c)
  /\ c \notin registered /\ joins[c] < MaxJoins
  /\ registered' = registered \cup {c}
  /\ joins' = [joins EXCEPT ![c] = @ + 1]
  /\ UNCHANGED <<stream, synchronous, proposed, maxProposed, timeoutValue, barrier,
                 threads, woken, notifying, cancelled, published, busy, history>>

AddSubscriber(h, c) ==
  /\ pc[Shutdown] # "down" /\ AddRemoveFree(h)
  /\ pc[h] = "idle"
  /\ c \in registered /\ stream[c] = None
  /\ \E sync \in BOOLEAN, proposal \in Proposals :
       /\ synchronous' = IF sync THEN synchronous \cup {c} ELSE synchronous \ {c}
       /\ proposed' = [proposed EXCEPT ![c] = proposal]
       /\ timeoutValue' = Larger(proposal, timeoutValue)
       /\ maxProposed' = Larger(proposal, maxProposed)
  /\ stream' = [stream EXCEPT ![c] = h]
  /\ pc' = [pc EXCEPT ![h] = "serving"]
  /\ target' = [target EXCEPT ![h] = c]
  /\ cancelled' = [cancelled EXCEPT ![h] = FALSE]
  /\ owed' = [owed EXCEPT ![c] = 0]
  /\ UNCHANGED <<registered, barrier, timeOut, woken, notifying, counters, heard, pending>>

(* The client ends its call or its connection is lost. *)
CancelStream(h) ==
  /\ pc[h] = "serving" /\ ~cancelled[h]
  /\ cancelled' = [cancelled EXCEPT ![h] = TRUE]
  /\ UNCHANGED <<members, barrier, threads, woken, notifying, counters, history>>

(* Mutants: the call returns without RemoveSubscriber; the destruction of   *)
(* the server does not end the polling loop.                                *)
LeaveWithoutRemoving(h) ==
  /\ pc[h] = "serving" /\ (cancelled[h] \/ pc[Shutdown] = "down")
  /\ pc' = [pc EXCEPT ![h] = "idle"]
  /\ target' = [target EXCEPT ![h] = None]
  /\ UNCHANGED <<members, barrier, timeOut, woken, notifying, cancelled, counters, history>>

LeaveIfCancelled(h) ==
  /\ pc[h] = "serving" /\ cancelled[h]
  /\ pc' = [pc EXCEPT ![h] = "check"]
  /\ pending' = pending \ {target[h]}
  /\ UNCHANGED <<members, barrier, target, timeOut, woken, notifying, cancelled,
                 counters, owed, heard>>

(* The polling loop of the handler ends: RemoveSubscriber is called. *)
LeaveServingLoop(h) ==
  /\ pc[h] = "serving"
  /\ cancelled[h] \/ pc[Shutdown] = "down"      \* mCanceled
  /\ pc' = [pc EXCEPT ![h] = "check"]
  /\ pending' = pending \ {target[h]}
  /\ UNCHANGED <<members, barrier, target, timeOut, woken, notifying, cancelled,
                 counters, owed, heard>>

SetClientReady(c) ==
  /\ ReadyFree /\ c \notin notifying
  /\ owed[c] > 0 \/ SpuriousReady
  /\ noHeartBeat' = noHeartBeat \ {c}
  /\ unready' = unready \ {c}
  /\ notifying' = IF c \in unready /\ (noHeartBeat' = {} \/ unready' = {})
                  THEN notifying \cup {c} ELSE notifying
  /\ owed' = [owed EXCEPT ![c] = IF @ > 0 THEN @ - 1 ELSE 0]
  /\ heard' = heard \cup {c}
  /\ pending' = pending \ {c}
  /\ UNCHANGED <<members, threads, woken, cancelled, counters>>

SetClientBusy(c) ==
  /\ ReadyFree /\ c \notin notifying
  /\ c \in noHeartBeat /\ busy < MaxBusy
  /\ noHeartBeat' = noHeartBeat \ {c}
  /\ notifying' = IF noHeartBeat' = {} THEN notifying \cup {c} ELSE notifying
  /\ heard' = heard \cup {c}
  /\ busy' = busy + 1
  /\ UNCHANGED <<members, unready, threads, woken, cancelled, published, joins, owed, pending>>

NotifyPublisher(c) ==
  /\ c \in notifying
  /\ NotifyOne
  /\ notifying' = notifying \ {c}
  /\ UNCHANGED <<members, barrier, threads, cancelled, counters, history>>

-----------------------------------------------------------------------------
(* SynchronousPublishAndWait.                                               *)

(* The timeout is looked up before any lock is taken. *)
StartPublish(p) ==
  /\ pc[p] = "idle" /\ pc[Shutdown] = "up" /\ published < MaxEvents
  /\ \E configured \in BOOLEAN :
       timeOut' = [timeOut EXCEPT ![p] =
                     IF configured /\ timeoutValue > maxProposed THEN timeoutValue ELSE maxProposed]
  /\ pc' = [pc EXCEPT ![p] = "lock"]
  /\ published' = published + 1
  /\ UNCHANGED <<members, barrier, target, woken, notifying, cancelled, joins, busy, history>>

LockClientsReady(p) ==
  /\ pc[p] = "lock" /\ ReadyFree
  /\ pc' = [pc EXCEPT ![p] = "insert"]
  /\ UNCHANGED <<members, barrier, target, timeOut, woken, notifying, cancelled, counters, history>>

InsertUnready(p) ==
  /\ pc[p] = "insert" /\ AddRemoveFree(p)
  /\ unready' = unready \cup SyncSubscribers
  /\ pending' = {c \in SyncSubscribers : pc[stream[c]] = "serving"}
  /\ pc' = [pc EXCEPT ![p] = "broadcast"]
  /\ UNCHANGED <<members, noHeartBeat, target, timeOut, woken, notifying, cancelled, counters,
                 owed, heard>>

(* Mutants: there is no second wait; every subscriber has to be heard from, *)
(* not only those that are unready.                                         *)
WaitOnce(p) ==
  /\ noHeartBeat' = unready
  /\ pc' = [pc EXCEPT ![p] = IF unready = {} \/ @ # "broadcast" THEN "idle" ELSE "waiting"]
  /\ heard' = {} /\ woken' = woken \ {p}

AwaitEveryHeartBeat(p) ==
  /\ noHeartBeat' = SyncSubscribers
  /\ pc' = [pc EXCEPT ![p] = IF unready = {} THEN "idle" ELSE "waiting"]
  /\ heard' = {} /\ woken' = woken \ {p}

(* Top and bottom of the do-while loop: return, or wait once more.  The     *)
(* predicate is evaluated before the first wait, so an empty set returns.   *)
WaitOrReturn(p) ==
  /\ noHeartBeat' = unready
  /\ pc' = [pc EXCEPT ![p] = IF unready = {} THEN "idle" ELSE "waiting"]
  /\ heard' = {}
  /\ woken' = woken \ {p}

Broadcast(p) ==
  /\ pc[p] = "broadcast" /\ AddRemoveFree(p)
  /\ owed' = [c \in Clients |-> IF c \in SyncSubscribers THEN owed[c] + 1 ELSE owed[c]]
  /\ WaitOrReturn(p)
  /\ UNCHANGED <<members, unready, target, timeOut, notifying, cancelled, counters, pending>>

WakePredicate == unready = {} \/ noHeartBeat = {}

(* wait_for returns true: notified, spurious, or at the deadline. *)
WakeReady(p) ==
  /\ pc[p] = "waiting" /\ ReadyFree
  /\ WakePredicate
  /\ WaitOrReturn(p)
  /\ UNCHANGED <<members, unready, target, timeOut, notifying, cancelled, counters, owed, pending>>

SleepAgain(p) ==
  /\ pc[p] = "waiting" /\ ReadyFree
  /\ ~WakePredicate /\ p \in woken
  /\ woken' = woken \ {p}
  /\ UNCHANGED <<members, barrier, threads, notifying, cancelled, counters, history>>

(* Mutant: answers that arrive together with the deadline are ignored. *)
TimeOutRegardless(p) ==
  /\ pc[p] = "waiting" /\ ReadyFree
  /\ pc' = [pc EXCEPT ![p] = "expire"]
  /\ woken' = woken \ {p}
  /\ UNCHANGED <<members, barrier, target, timeOut, notifying, cancelled, counters, history>>

(* wait_for returns false: the deadline passed and the predicate is false. *)
TimeOut(p) ==
  /\ pc[p] = "waiting" /\ ReadyFree
  /\ ~WakePredicate
  /\ pc' = [pc EXCEPT ![p] = "expire"]
  /\ woken' = woken \ {p}
  /\ UNCHANGED <<members, barrier, target, timeOut, notifying, cancelled, counters, history>>

(* Mutant: any unready client is timed out, also a busy one. *)
ExpireUnready(p) ==
  /\ pc[p] = "expire" /\ noHeartBeat # {}
  /\ \E c \in unready :
       /\ noHeartBeat' = noHeartBeat \ {c}
       /\ target' = [target EXCEPT ![p] = c]
       /\ pending' = pending \ {c}
  /\ pc' = [pc EXCEPT ![p] = "check"]
  /\ UNCHANGED <<members, unready, timeOut, woken, notifying, cancelled, counters, owed, heard>>

(***************************************************************************)
(* One silent client is picked for removal.  The lookup of its name for a  *)
(* message is left out: it reads the map without ClientAddRemoveMutex and  *)
(* inserts a null entry if the client is erased between find and           *)
(* operator[].                                                             *)
(***************************************************************************)
ExpireClient(p) ==
  /\ pc[p] = "expire"
  /\ \E c \in noHeartBeat :
       /\ noHeartBeat' = noHeartBeat \ {c}
       /\ target' = [target EXCEPT ![p] = c]
       /\ pending' = pending \ {c}
  /\ pc' = [pc EXCEPT ![p] = "check"]
  /\ UNCHANGED <<members, unready, timeOut, woken, notifying, cancelled, counters, owed, heard>>

EndExpiry(p) ==
  /\ pc[p] = "expire" /\ noHeartBeat = {}
  /\ WaitOrReturn(p)
  /\ UNCHANGED <<members, unready, target, timeOut, notifying, cancelled, counters, owed, pending>>

-----------------------------------------------------------------------------
(* RemoveSubscriberInternal(target[t]), called by a publisher (holding      *)
(* ClientsReadyMutex), by a handler, and by CancelSubscribers (holding      *)
(* ClientAddRemoveMutex).                                                   *)

AfterRemove(t) == CASE t \in Publishers -> "expire"
                    [] t \in Handlers   -> "idle"
                    [] OTHER            -> "cancel"
ReturnFromRemove(t) ==
  /\ pc' = [pc EXCEPT ![t] = AfterRemove(t)]
  /\ target' = [target EXCEPT ![t] = None]

CheckRegistered(t) ==
  /\ pc[t] = "check" /\ AddRemoveFree(t)
  /\ IF target[t] \in registered /\ stream[target[t]] = None
     THEN /\ registered' = registered \ {target[t]}
          /\ ReturnFromRemove(t)
     ELSE /\ pc' = [pc EXCEPT ![t] = "resolve"]
          /\ UNCHANGED <<registered, target>>
  /\ UNCHANGED <<stream, synchronous, proposed, maxProposed, timeoutValue, barrier, timeOut,
                 woken, notifying, cancelled, counters, history>>

(* Mutant: the removed client stays in UnreadySynchronousClients. *)
ResolveNothing(t) ==
  /\ pc[t] = "resolve" /\ (t \in Publishers \/ ReadyFree)
  /\ pc' = [pc EXCEPT ![t] = "erase"]
  /\ UNCHANGED <<members, barrier, target, timeOut, woken, notifying, cancelled, counters, history>>

ResolveUnready(t) ==
  /\ pc[t] = "resolve"
  /\ t \in Publishers \/ ReadyFree
  /\ unready' = unready \ {target[t]}
  /\ pc' = [pc EXCEPT ![t] =
              IF target[t] \in unready /\ unready' = {} THEN "notify" ELSE "erase"]
  /\ UNCHANGED <<members, noHeartBeat, target, timeOut, woken, notifying, cancelled, counters,
                 history>>

NotifyAfterResolve(t) ==
  /\ pc[t] = "notify"
  /\ NotifyOne
  /\ pc' = [pc EXCEPT ![t] = "erase"]
  /\ UNCHANGED <<members, barrier, target, timeOut, notifying, cancelled, counters, history>>

(* The entry found may be another one than CheckRegistered saw: if it is    *)
(* registered only, mContext is null and TryCancel is undefined behaviour.  *)
EraseEntry(t) ==
  /\ pc[t] = "erase" /\ AddRemoveFree(t)
  /\ LET c == target[t]
         left == Subscribers \ {c}
     IN CASE c \notin registered ->
               /\ ReturnFromRemove(t)
               /\ UNCHANGED <<members, cancelled>>
          [] c \in Subscribers ->
               /\ cancelled' = [cancelled EXCEPT ![stream[c]] = TRUE]
               /\ registered' = registered \ {c}
               /\ stream' = [stream EXCEPT ![c] = None]
               /\ maxProposed' = Largest({MinTimeout} \cup {proposed[d] : d \in left})
               /\ timeoutValue' = Largest({ConfigTimeout} \cup {proposed[d] : d \in left})
               /\ synchronous' = synchronous \ {c}
               /\ proposed' = [proposed EXCEPT ![c] = MinTimeout]
               /\ ReturnFromRemove(t)
          [] OTHER ->
               /\ pc' = [pc EXCEPT ![t] = "crashed"]
               /\ UNCHANGED <<members, cancelled, target>>
  /\ UNCHANGED <<barrier, timeOut, woken, notifying, counters, history>>

-----------------------------------------------------------------------------
(* ~SimulationServer: the simulation is destroyed (its thread has ended),   *)
(* then CancelSubscribers, then mCanceled is set.                           *)

BeginShutdown ==
  /\ pc[Shutdown] = "up" /\ pc[SimThread] = "idle"
  /\ pc' = [pc EXCEPT ![Shutdown] = "cancel"]
  /\ UNCHANGED <<members, barrier, target, timeOut, woken, notifying, cancelled, counters, history>>

CancelNext ==
  /\ pc[Shutdown] = "cancel"
  /\ \E c \in registered :
       /\ target' = [target EXCEPT ![Shutdown] = c]
       /\ pending' = pending \ {c}
  /\ pc' = [pc EXCEPT ![Shutdown] = "check"]
  /\ UNCHANGED <<members, barrier, timeOut, woken, notifying, cancelled, counters, owed, heard>>

CancelDone ==
  /\ \/ pc[Shutdown] = "cancel" /\ registered = {}
     \/ pc[Shutdown] = "closing"
  /\ pc' = [pc EXCEPT ![Shutdown] = IF @ = "cancel" THEN "closing" ELSE "down"]
  /\ UNCHANGED <<members, barrier, target, timeOut, woken, notifying, cancelled, counters, history>>

-----------------------------------------------------------------------------
RemoveStep(t) ==
  CheckRegistered(t) \/ ResolveUnready(t) \/ NotifyAfterResolve(t) \/ EraseEntry(t)

PublishStep(p) ==
  \/ LockClientsReady(p) \/ InsertUnready(p) \/ Broadcast(p)
  \/ WakeReady(p) \/ SleepAgain(p) \/ TimeOut(p) \/ ExpireClient(p) \/ EndExpiry(p)

HandlerStep(h) == LeaveServingLoop(h) \/ RemoveStep(h)

ShutdownStep == CancelNext \/ CancelDone \/ RemoveStep(Shutdown)

ClientStep(c) ==
  Register(c) \/ SetClientReady(c) \/ SetClientBusy(c) \/ \E h \in Handlers : AddSubscriber(h, c)

Next ==
  \/ \E c \in Clients : ClientStep(c) \/ NotifyPublisher(c)
  \/ \E h \in Handlers : CancelStream(h) \/ HandlerStep(h)
  \/ \E p \in Publishers : StartPublish(p) \/ PublishStep(p) \/ RemoveStep(p)
  \/ BeginShutdown \/ ShutdownStep

Spec == Init /\ [][Next]_vars

(* The server's own threads keep running and wait_for returns at its        *)
(* deadline.  Nothing is assumed of clients, of the simulation's decision   *)
(* to publish, or of the decision to shut down.                             *)
Fairness ==
  /\ \A p \in Publishers : WF_vars(PublishStep(p) \/ RemoveStep(p))
  /\ \A h \in Handlers : WF_vars(HandlerStep(h))
  /\ WF_vars(ShutdownStep)
  /\ \A c \in Clients : WF_vars(NotifyPublisher(c))

FairSpec == Spec /\ Fairness

-----------------------------------------------------------------------------
(* Properties.                                                              *)

TypeOK ==
  /\ registered \subseteq Clients /\ synchronous \subseteq Clients
  /\ stream \in [Clients -> Handlers \cup {None}]
  /\ proposed \in [Clients -> Timeouts]
  /\ maxProposed \in Timeouts /\ timeoutValue \in Timeouts
  /\ unready \subseteq Clients /\ noHeartBeat \subseteq Clients
  /\ pc \in [Threads -> PublisherStates \cup HandlerStates \cup ShutdownStates]
  /\ \A p \in Publishers : pc[p] \in PublisherStates
  /\ \A h \in Handlers : pc[h] \in HandlerStates
  /\ pc[Shutdown] \in ShutdownStates
  /\ target \in [Threads -> Clients \cup {None}]
  /\ timeOut \in [Publishers -> Timeouts]
  /\ woken \subseteq Publishers /\ notifying \subseteq Clients
  /\ cancelled \in [Handlers -> BOOLEAN]
  /\ published \in Nat /\ busy \in Nat /\ joins \in [Clients -> Nat]
  /\ owed \in [Clients -> Nat] /\ heard \subseteq Clients /\ pending \subseteq Clients

InRound(p) ==
  pc[p] \in {"broadcast", "waiting", "expire", "check", "resolve", "notify", "erase", "crashed"}

(* SynchronousPublishAndWait returns only when every client it asked has    *)
(* answered with SetReady since it was asked, has begun to leave, or has    *)
(* been timed out: an acknowledgment is never skipped or counted twice.     *)
BarrierHonoured ==
  [][\A p \in Publishers : InRound(p) /\ pc'[p] = "idle" => pending' = {}]_vars

(* A publisher that waits for nobody any more is going to be woken: its     *)
(* notification was sent, or the thread that emptied the set is about to    *)
(* send it.  The simulation never sleeps through a whole timeout after the  *)
(* last acknowledgment.                                                     *)
NoLostWakeup ==
  pc[SimThread] = "waiting" /\ unready = {} =>
    \/ SimThread \in woken
    \/ notifying # {}
    \/ \E t \in Threads : pc[t] = "notify"

(* Only a client that sent neither SetReady nor SetBusy since the current   *)
(* wait began is timed out.                                                 *)
OnlySilentClientsExpire ==
  [][\A p \in Publishers : pc[p] = "expire" /\ pc'[p] = "check" => target'[p] \notin heard]_vars

(* A client whose stream is being served is timed out only if the event in  *)
(* flight still waits for its acknowledgment.                               *)
OnlyAwaitedClientsExpire ==
  [][\A p \in Publishers :
       pc[p] = "expire" /\ pc'[p] = "check" =>
         LET c == target'[p]
         IN c \in Subscribers /\ pc[stream[c]] = "serving" => c \in unready]_vars

(* Every writer in the map belongs to a call that has not returned: no      *)
(* event is written to the stream of a finished SubscribeEvents, whoever    *)
(* removed the client and in whatever order.                                *)
StreamsOpen ==
  \A c \in Subscribers :
    /\ target[stream[c]] = c
    /\ pc[stream[c]] \in {"serving", "check", "resolve", "notify", "erase"}

(* The negotiated timeouts are those of the current subscribers: a client   *)
(* that left no longer stretches them, and nobody's proposal was dropped    *)
(* when they were recomputed.                                               *)
TimeoutsTrackSubscribers ==
  LET proposals == {proposed[c] : c \in Subscribers}
  IN /\ maxProposed = Largest({MinTimeout} \cup proposals)
     /\ timeoutValue = Largest({ConfigTimeout} \cup proposals)

(* Every synchronous publication returns: clients that neither answer nor   *)
(* report busy are timed out, also when they leave and rejoin meanwhile.    *)
RoundEnds == \A p \in Publishers : pc[p] = "lock" ~> pc[p] = "idle" \/ Crashed

(* Destroying the server ends every SubscribeEvents call and leaves no      *)
(* subscriber behind.                                                       *)
ShutdownCompletes ==
  pc[Shutdown] = "cancel" ~>
    \/ Crashed
    \/ /\ pc[Shutdown] = "down" /\ Subscribers = {}
       /\ \A h \in Handlers : pc[h] = "idle"

(* The barrier seen by its callers: clients in UnreadySynchronousClients    *)
(* are awaited, and silent while they have not been heard from.             *)
BarrierPhase ==
  CASE ~InRound(SimThread)                       -> "closed"
    [] pc[SimThread] \in {"broadcast", "waiting"} -> "open"
    [] OTHER                                     -> "expiring"
ClientStatus ==
  [c \in Clients |->
     IF c \notin unready THEN "none"
     ELSE IF pc[SimThread] = "broadcast" \/ c \in noHeartBeat \/ target[SimThread] = c
          THEN "silent" ELSE "alive"]
StepBarrier == INSTANCE StepBarrier WITH phase <- BarrierPhase, status <- ClientStatus

(* SynchronousPublishAndWait, with all the threads that interfere with it,  *)
(* implements the abstract barrier.                                         *)
ImplementsBarrier == StepBarrier!Spec

-----------------------------------------------------------------------------
(* A statement of the source that the code does not keep.                   *)

(* EventPublisher.cpp:144, rrVerify(UnreadySynchronousClients.empty()).     *)
UnreadyEmptyOnEntry == \A p \in Publishers : pc[p] = "insert" => unready = {}
=============================================================================
