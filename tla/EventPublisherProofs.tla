------------------------ MODULE EventPublisherProofs ------------------------
(***************************************************************************)
(* Theorems about EventPublisher, for every set of clients, handlers and    *)
(* publishers and every value of the bounds.                                *)
(***************************************************************************)
EXTENDS EventPublisher, WellFoundedInduction, TLAPS

(* A nonempty set of timeouts has a largest element, so Largest finds it.   *)
LEMMA LargestTimeout ==
  ASSUME NEW S \in SUBSET Timeouts, S # {}
  PROVE  /\ Largest(S) \in S
         /\ \A n \in S : n <= Largest(S)
<1> DEFINE gaps == {TimeoutBound - n : n \in S}
<1>1. gaps \subseteq Nat /\ gaps # {}
  <2>1. \A n \in S : TimeoutBound - n \in Nat
    BY ConstantsAssumption DEF Timeouts
  <2> QED BY <2>1
<1>2. PICK g \in gaps : \A k \in gaps : ~ (<<k, g>> \in OpToRel(<, Nat))
  BY <1>1, NatLessThanWellFounded, WFMin
<1>3. \A k \in gaps : ~ (k < g)
  BY <1>1, <1>2 DEF OpToRel
<1>4. PICK m \in S : g = TimeoutBound - m
  OBVIOUS
<1>5. \A n \in S : n <= m
  <2> SUFFICES ASSUME NEW n \in S PROVE n <= m
    OBVIOUS
  <2>1. ~ (TimeoutBound - n < TimeoutBound - m)
    BY <1>3, <1>4
  <2> QED BY <2>1, ConstantsAssumption DEF Timeouts
<1> QED BY <1>5 DEF Largest

(* The largest element is the only one that bounds the others.              *)
LEMMA LargestUnique ==
  ASSUME NEW S \in SUBSET Timeouts, NEW m \in S, \A n \in S : n <= m
  PROVE  Largest(S) = m
<1>1. Largest(S) \in S /\ \A n \in S : n <= Largest(S)
  BY LargestTimeout
<1>2. Timeouts \subseteq Int
  BY ConstantsAssumption DEF Timeouts
<1>3. Largest(S) \in Int /\ m \in Int
  BY <1>1, <1>2
<1> QED BY <1>1, <1>3
(* Adding a proposal: ProcessProposedTimeout needs no look at the others.   *)
LEMMA LargestOfAdded ==
  ASSUME NEW S \in SUBSET Timeouts, S # {}, NEW n \in Timeouts
  PROVE  Largest(S \cup {n}) = Larger(n, Largest(S))
<1> DEFINE m == Larger(n, Largest(S))
<1>1. Largest(S) \in S /\ \A k \in S : k <= Largest(S)
  BY LargestTimeout
<1>2. Timeouts \subseteq Int
  BY ConstantsAssumption DEF Timeouts
<1>3. m \in S \cup {n} /\ \A k \in S \cup {n} : k <= m
  <2>1. n \in Int /\ Largest(S) \in Int /\ \A k \in S : k \in Int
    BY <1>1, <1>2
  <2>2. m \in S \cup {n} /\ n <= m /\ Largest(S) <= m /\ m \in Int
    BY <1>1, <2>1 DEF Larger
  <2> HIDE DEF m
  <2>3. \A k \in S : k <= m
    BY <1>1, <2>1, <2>2
  <2> QED BY <2>2, <2>3
<1>4. S \cup {n} \in SUBSET Timeouts
  OBVIOUS
<1> HIDE DEF m
<1>5. Largest(S \cup {n}) = m
  BY <1>3, <1>4, LargestUnique
<1> QED BY <1>5 DEF m

-----------------------------------------------------------------------------
(* Every reachable state is well typed: each thread stays in its own        *)
(* program, and the sets and maps of the publisher hold clients only.       *)
THEOREM TypeCorrect == Spec => []TypeOK
<1> USE ConstantsAssumption
    DEF TypeOK, Threads, Publishers, PublisherStates, HandlerStates, ShutdownStates,
        ReadyHeld, CancelSteps, members, barrier, threads, history, counters
<1>1. Init => TypeOK
  BY DEF Init, Timeouts
<1>2. TypeOK /\ [Next]_vars => TypeOK'
  <2> SUFFICES ASSUME TypeOK, [Next]_vars PROVE TypeOK'
    OBVIOUS
  <2>1. ASSUME NEW c \in Clients, Register(c) PROVE TypeOK'
    BY <2>1 DEF Register
  <2>2. ASSUME NEW c \in Clients, NEW h \in Handlers, AddSubscriber(h, c) PROVE TypeOK'
    BY <2>2 DEF AddSubscriber, Larger
  <2>3. ASSUME NEW c \in Clients, SetClientReady(c) PROVE TypeOK'
    BY <2>3 DEF SetClientReady
  <2>4. ASSUME NEW c \in Clients, SetClientBusy(c) PROVE TypeOK'
    BY <2>4 DEF SetClientBusy
  <2>5. ASSUME NEW c \in Clients, NotifyPublisher(c) PROVE TypeOK'
    BY <2>5 DEF NotifyPublisher, NotifyOne, Waiters
  <2>6. ASSUME NEW h \in Handlers, CancelStream(h) PROVE TypeOK'
    BY <2>6 DEF CancelStream
  <2>7. ASSUME NEW h \in Handlers, LeaveServingLoop(h) PROVE TypeOK'
    BY <2>7 DEF LeaveServingLoop
  <2>8. ASSUME NEW p \in Publishers, StartPublish(p) PROVE TypeOK'
    BY <2>8 DEF StartPublish
  <2>9. ASSUME NEW p \in Publishers, PublishStep(p) PROVE TypeOK'
    <3>1. CASE LockClientsReady(p)
      BY <3>1 DEF LockClientsReady
    <3>2. CASE InsertUnready(p)
      BY <3>2 DEF InsertUnready, SyncSubscribers, Subscribers
    <3>3. CASE Broadcast(p)
      BY <3>3 DEF Broadcast, WaitOrReturn
    <3>4. CASE WakeReady(p)
      BY <3>4 DEF WakeReady, WaitOrReturn
    <3>5. CASE SleepAgain(p)
      BY <3>5 DEF SleepAgain
    <3>6. CASE TimeOut(p)
      BY <3>6 DEF TimeOut
    <3>7. CASE ExpireClient(p)
      BY <3>7 DEF ExpireClient
    <3>8. CASE EndExpiry(p)
      BY <3>8 DEF EndExpiry, WaitOrReturn
    <3> QED BY <2>9, <3>1, <3>2, <3>3, <3>4, <3>5, <3>6, <3>7, <3>8 DEF PublishStep
  <2>10. ASSUME NEW t \in Threads, RemoveStep(t) PROVE TypeOK'
    <3>1. CASE CheckRegistered(t)
      BY <3>1 DEF CheckRegistered, ReturnFromRemove, AfterRemove
    <3>2. CASE ResolveUnready(t)
      BY <3>2 DEF ResolveUnready
    <3>3. CASE NotifyAfterResolve(t)
      BY <3>3 DEF NotifyAfterResolve, NotifyOne, Waiters
    <3>4. CASE EraseEntry(t)
      <4> DEFINE left == Subscribers \ {target[t]}
                 asked == {proposed[d] : d \in left}
      <4>1. /\ Largest({MinTimeout} \cup asked) \in Timeouts
            /\ Largest({ConfigTimeout} \cup asked) \in Timeouts
        <5>1. asked \subseteq Timeouts
          BY DEF Subscribers
        <5>2. /\ {MinTimeout} \cup asked \in SUBSET Timeouts
              /\ {ConfigTimeout} \cup asked \in SUBSET Timeouts
          BY <5>1
        <5> HIDE DEF asked
        <5>3. Largest({MinTimeout} \cup asked) \in Timeouts
          BY <5>2, LargestTimeout
        <5>4. Largest({ConfigTimeout} \cup asked) \in Timeouts
          BY <5>2, LargestTimeout
        <5> QED BY <5>3, <5>4
      <4>2. ASSUME ReturnFromRemove(t)
            PROVE  /\ pc' \in [Threads -> PublisherStates \cup HandlerStates \cup ShutdownStates]
                   /\ \A p \in Publishers : pc'[p] \in PublisherStates
                   /\ \A h \in Handlers : pc'[h] \in HandlerStates
                   /\ pc'[Shutdown] \in ShutdownStates
                   /\ target' \in [Threads -> Clients \cup {None}]
        BY <4>2 DEF ReturnFromRemove, AfterRemove
      <4>3. CASE target[t] \notin registered
        <5>1. ReturnFromRemove(t) /\ UNCHANGED <<members, cancelled>>
          BY <3>4, <4>3 DEF EraseEntry, Subscribers
        <5> QED BY <3>4, <4>2, <5>1 DEF EraseEntry
      <4>4. CASE target[t] \in Subscribers
        <5>1. /\ cancelled' = [cancelled EXCEPT ![stream[target[t]]] = TRUE]
              /\ registered' = registered \ {target[t]}
              /\ stream' = [stream EXCEPT ![target[t]] = None]
              /\ maxProposed' = Largest({MinTimeout} \cup asked)
              /\ timeoutValue' = Largest({ConfigTimeout} \cup asked)
              /\ synchronous' = synchronous \ {target[t]}
              /\ proposed' = [proposed EXCEPT ![target[t]] = MinTimeout]
              /\ ReturnFromRemove(t)
          BY <3>4, <4>4 DEF EraseEntry, Subscribers
        <5>2. /\ maxProposed' \in Timeouts /\ timeoutValue' \in Timeouts
          BY <4>1, <5>1
        <5> HIDE DEF asked, left
        <5> QED BY <3>4, <4>2, <5>1, <5>2 DEF EraseEntry
      <4>5. CASE target[t] \in registered \ Subscribers
        BY <3>4, <4>5 DEF EraseEntry
      <4> QED BY <4>3, <4>4, <4>5
    <3> QED BY <2>10, <3>1, <3>2, <3>3, <3>4 DEF RemoveStep
  <2>11. CASE BeginShutdown
    BY <2>11 DEF BeginShutdown
  <2>12. CASE CancelNext
    BY <2>12 DEF CancelNext
  <2>13. CASE CancelDone
    BY <2>13 DEF CancelDone
  <2>14. CASE UNCHANGED vars
    BY <2>14 DEF vars
  <2> QED
    BY <2>1, <2>2, <2>3, <2>4, <2>5, <2>6, <2>7, <2>8, <2>9, <2>10, <2>11, <2>12, <2>13, <2>14
    DEF Next, ClientStep, HandlerStep, ShutdownStep
<1>3. QED BY <1>1, <1>2, PTL DEF Spec
-----------------------------------------------------------------------------
(* The subscriber map.                                                      *)

(* StreamsOpen is inductive once a client outside the map has no stream.    *)
MembersInv ==
  /\ StreamsOpen
  /\ \A c \in Clients : stream[c] # None => c \in registered

(* What each step does to the fields MembersInv speaks of. *)
LEMMA MembersStep ==
  ASSUME TypeOK, MembersInv, [Next]_vars
  PROVE  MembersInv'
<1> USE ConstantsAssumption
    DEF TypeOK, MembersInv, StreamsOpen, Subscribers, Threads, Publishers,
        members, barrier, threads, history, counters
<1>1. ASSUME NEW c \in Clients, Register(c) PROVE MembersInv'
  BY <1>1 DEF Register
<1>2. ASSUME NEW c \in Clients, NEW h \in Handlers, AddSubscriber(h, c) PROVE MembersInv'
  BY <1>2 DEF AddSubscriber
<1>3. ASSUME NEW c \in Clients, SetClientReady(c) \/ SetClientBusy(c) PROVE MembersInv'
  BY <1>3 DEF SetClientReady, SetClientBusy
<1>4. ASSUME NEW c \in Clients, NotifyPublisher(c) PROVE MembersInv'
  BY <1>4 DEF NotifyPublisher
<1>5. ASSUME NEW h \in Handlers, CancelStream(h) PROVE MembersInv'
  BY <1>5 DEF CancelStream
<1>6. ASSUME NEW h \in Handlers, LeaveServingLoop(h) PROVE MembersInv'
  BY <1>6 DEF LeaveServingLoop
<1>7. ASSUME NEW p \in Publishers, StartPublish(p) PROVE MembersInv'
  BY <1>7 DEF StartPublish
<1>8. ASSUME NEW p \in Publishers, PublishStep(p) PROVE MembersInv'
  <2>1. /\ UNCHANGED members
        /\ \A h \in Handlers : pc'[h] = pc[h] /\ target'[h] = target[h]
    BY <1>8 DEF PublishStep, LockClientsReady, InsertUnready, Broadcast, WakeReady,
                SleepAgain, TimeOut, ExpireClient, EndExpiry, WaitOrReturn
  <2> QED BY <2>1
<1>9. ASSUME NEW t \in Threads, RemoveStep(t) PROVE MembersInv'
  <2>1. CASE CheckRegistered(t)
    BY <2>1 DEF CheckRegistered, ReturnFromRemove
  <2>2. CASE ResolveUnready(t) \/ NotifyAfterResolve(t)
    BY <2>2 DEF ResolveUnready, NotifyAfterResolve
  <2>3. CASE EraseEntry(t)
    <3>1. CASE target[t] \notin registered
      BY <2>3, <3>1 DEF EraseEntry, ReturnFromRemove
    <3>2. CASE target[t] \in Subscribers
      <4>1. /\ registered' = registered \ {target[t]}
            /\ stream' = [stream EXCEPT ![target[t]] = None]
            /\ ReturnFromRemove(t)
        BY <2>3, <3>2 DEF EraseEntry
      <4> QED BY <4>1 DEF ReturnFromRemove
    <3>3. CASE target[t] \in registered \ Subscribers
      BY <2>3, <3>3 DEF EraseEntry
    <3> QED BY <3>1, <3>2, <3>3
  <2> QED BY <1>9, <2>1, <2>2, <2>3 DEF RemoveStep
<1>10. CASE BeginShutdown \/ CancelNext \/ CancelDone
  BY <1>10 DEF BeginShutdown, CancelNext, CancelDone
<1>11. CASE UNCHANGED vars
  BY <1>11 DEF vars
<1> QED
  BY <1>1, <1>2, <1>3, <1>4, <1>5, <1>6, <1>7, <1>8, <1>9, <1>10, <1>11
  DEF Next, ClientStep, HandlerStep, ShutdownStep

LEMMA MembersInvariant == Spec => []MembersInv
<1>1. Init => MembersInv
  BY DEF Init, MembersInv, StreamsOpen, Subscribers
<1>2. TypeOK /\ MembersInv /\ [Next]_vars => MembersInv'
  BY MembersStep
<1>3. QED BY <1>1, <1>2, TypeCorrect, PTL DEF Spec

(* No event is ever written to the stream of a SubscribeEvents call that    *)
(* has returned, however removals, timeouts, shutdown and re-registrations  *)
(* interleave.                                                              *)
THEOREM WritersStayOpen == Spec => []StreamsOpen
<1>1. MembersInv => StreamsOpen
  BY DEF MembersInv
<1>2. QED BY <1>1, MembersInvariant, PTL

-----------------------------------------------------------------------------
(* The negotiated timeouts.                                                 *)

LEMMA TimeoutsStep ==
  ASSUME TypeOK, MembersInv, TimeoutsTrackSubscribers, [Next]_vars
  PROVE  TimeoutsTrackSubscribers'
<1> DEFINE asked == {proposed[c] : c \in Subscribers}
<1>1. ASSUME UNCHANGED <<Subscribers, proposed, maxProposed, timeoutValue>>
      PROVE  TimeoutsTrackSubscribers'
  BY <1>1 DEF TimeoutsTrackSubscribers
<1>2. ASSUME UNCHANGED members PROVE TimeoutsTrackSubscribers'
  BY <1>1, <1>2 DEF members, Subscribers
<1>3. ASSUME NEW c \in Clients, Register(c) PROVE TimeoutsTrackSubscribers'
  BY <1>1, <1>3 DEF Register, Subscribers, MembersInv, TypeOK
<1>4. ASSUME NEW c \in Clients, NEW h \in Handlers, AddSubscriber(h, c)
      PROVE  TimeoutsTrackSubscribers'
  <2>1. PICK proposal \in Proposals :
          /\ proposed' = [proposed EXCEPT ![c] = proposal]
          /\ timeoutValue' = Larger(proposal, timeoutValue)
          /\ maxProposed' = Larger(proposal, maxProposed)
    BY <1>4 DEF AddSubscriber
  <2>2. Subscribers' = Subscribers \cup {c} /\ c \notin Subscribers
    BY <1>4, ConstantsAssumption DEF AddSubscriber, Subscribers, TypeOK, Threads
  <2>3. {proposed'[d] : d \in Subscribers'} = asked \cup {proposal}
    BY <2>1, <2>2 DEF TypeOK, Subscribers
  <2>4. asked \in SUBSET Timeouts /\ proposal \in Timeouts
    BY ConstantsAssumption DEF TypeOK, Subscribers
  <2> HIDE DEF asked
  <2>5. /\ maxProposed' = Largest(({MinTimeout} \cup asked) \cup {proposal})
        /\ timeoutValue' = Largest(({ConfigTimeout} \cup asked) \cup {proposal})
    BY <2>1, <2>4, LargestOfAdded, ConstantsAssumption DEF TimeoutsTrackSubscribers, asked
  <2>6. /\ {MinTimeout} \cup asked \cup {proposal} = {MinTimeout} \cup (asked \cup {proposal})
        /\ {ConfigTimeout} \cup asked \cup {proposal} = {ConfigTimeout} \cup (asked \cup {proposal})
    OBVIOUS
  <2> QED BY <2>3, <2>5, <2>6 DEF TimeoutsTrackSubscribers
<1>5. ASSUME NEW c \in Clients,
             SetClientReady(c) \/ SetClientBusy(c) \/ NotifyPublisher(c)
      PROVE  TimeoutsTrackSubscribers'
  BY <1>2, <1>5 DEF SetClientReady, SetClientBusy, NotifyPublisher
<1>6. ASSUME NEW h \in Handlers, CancelStream(h) \/ LeaveServingLoop(h)
      PROVE  TimeoutsTrackSubscribers'
  BY <1>2, <1>6 DEF CancelStream, LeaveServingLoop
<1>7. ASSUME NEW p \in Publishers, StartPublish(p) \/ PublishStep(p)
      PROVE  TimeoutsTrackSubscribers'
  BY <1>2, <1>7 DEF StartPublish, PublishStep, LockClientsReady, InsertUnready, Broadcast,
     WakeReady, SleepAgain, TimeOut, ExpireClient, EndExpiry
<1>8. ASSUME NEW t \in Threads, RemoveStep(t) PROVE TimeoutsTrackSubscribers'
  <2>1. CASE CheckRegistered(t)
    BY <1>1, <2>1 DEF CheckRegistered, Subscribers
  <2>2. CASE ResolveUnready(t) \/ NotifyAfterResolve(t)
    BY <1>2, <2>2 DEF ResolveUnready, NotifyAfterResolve
  <2>3. CASE EraseEntry(t)
    <3>1. CASE target[t] \notin Subscribers
      BY <1>2, <2>3, <3>1 DEF EraseEntry, Subscribers
    <3>2. CASE target[t] \in Subscribers
      <4> DEFINE left == Subscribers \ {target[t]}
      <4>1. /\ registered' = registered \ {target[t]}
            /\ stream' = [stream EXCEPT ![target[t]] = None]
            /\ proposed' = [proposed EXCEPT ![target[t]] = MinTimeout]
            /\ maxProposed' = Largest({MinTimeout} \cup {proposed[d] : d \in left})
            /\ timeoutValue' = Largest({ConfigTimeout} \cup {proposed[d] : d \in left})
        BY <2>3, <3>2 DEF EraseEntry, Subscribers
      <4>2. Subscribers' = left
        BY <3>2, <4>1 DEF Subscribers, TypeOK
      <4>3. {proposed'[d] : d \in Subscribers'} = {proposed[d] : d \in left}
        BY <4>1, <4>2 DEF TypeOK, Subscribers
      <4> QED BY <4>1, <4>3 DEF TimeoutsTrackSubscribers
    <3> QED BY <3>1, <3>2
  <2> QED BY <1>8, <2>1, <2>2, <2>3 DEF RemoveStep
<1>9. CASE BeginShutdown \/ CancelNext \/ CancelDone
  BY <1>2, <1>9 DEF BeginShutdown, CancelNext, CancelDone
<1>10. CASE UNCHANGED vars
  BY <1>2, <1>10 DEF vars, members
<1> QED
  BY <1>3, <1>4, <1>5, <1>6, <1>7, <1>8, <1>9, <1>10, ConstantsAssumption
  DEF Next, ClientStep, HandlerStep, ShutdownStep, Threads

(* The timeouts in use are at every moment the largest of the minimum (or   *)
(* configured) value and the proposals of those subscribed at that moment,  *)
(* whichever thread adds or removes a subscriber.                           *)
THEOREM TimeoutsAreCurrent == Spec => []TimeoutsTrackSubscribers
<1>1. Init => TimeoutsTrackSubscribers
  <2> SUFFICES ASSUME Init PROVE TimeoutsTrackSubscribers
    OBVIOUS
  <2>1. {proposed[c] : c \in Subscribers} = {}
    BY DEF Init, Subscribers
  <2>2. Largest({MinTimeout}) = MinTimeout /\ Largest({ConfigTimeout}) = ConfigTimeout
    <3>1. Timeouts \subseteq Int
      BY ConstantsAssumption DEF Timeouts
    <3> QED BY <3>1, ConstantsAssumption, LargestUnique
  <2>3. /\ {MinTimeout} \cup {proposed[c] : c \in Subscribers} = {MinTimeout}
        /\ {ConfigTimeout} \cup {proposed[c] : c \in Subscribers} = {ConfigTimeout}
    BY <2>1
  <2> QED BY <2>2, <2>3 DEF Init, TimeoutsTrackSubscribers
<1>2. TypeOK /\ MembersInv /\ TimeoutsTrackSubscribers /\ [Next]_vars
        => TimeoutsTrackSubscribers'
  BY TimeoutsStep
<1>3. QED BY <1>1, <1>2, TypeCorrect, MembersInvariant, PTL DEF Spec

-----------------------------------------------------------------------------
(* The heartbeat set.                                                       *)

SilentUnheard == noHeartBeat \cap heard = {}

LEMMA SilentStep ==
  ASSUME SilentUnheard, [Next]_vars
  PROVE  SilentUnheard'
<1> USE DEF SilentUnheard, members, barrier, threads, history, counters
<1>1. ASSUME NEW c \in Clients, ClientStep(c) \/ NotifyPublisher(c) PROVE SilentUnheard'
  BY <1>1 DEF ClientStep, Register, AddSubscriber, SetClientReady, SetClientBusy, NotifyPublisher
<1>2. ASSUME NEW h \in Handlers, CancelStream(h) \/ LeaveServingLoop(h) PROVE SilentUnheard'
  BY <1>2 DEF CancelStream, LeaveServingLoop
<1>3. ASSUME NEW p \in Publishers, StartPublish(p) \/ PublishStep(p) PROVE SilentUnheard'
  BY <1>3 DEF StartPublish, PublishStep, LockClientsReady, InsertUnready, Broadcast, WakeReady,
              SleepAgain, TimeOut, ExpireClient, EndExpiry, WaitOrReturn
<1>4. ASSUME NEW t, RemoveStep(t) PROVE SilentUnheard'
  BY <1>4 DEF RemoveStep, CheckRegistered, ResolveUnready, NotifyAfterResolve, EraseEntry
<1>5. CASE BeginShutdown \/ CancelNext \/ CancelDone
  BY <1>5 DEF BeginShutdown, CancelNext, CancelDone
<1>6. CASE UNCHANGED vars
  BY <1>6 DEF vars
<1> QED
  BY <1>1, <1>2, <1>3, <1>4, <1>5, <1>6 DEF Next, HandlerStep, ShutdownStep

(* The only step from "expire" to "check" is the one that picks the client  *)
(* to time out.                                                             *)
LEMMA ExpirePicksSilent ==
  ASSUME TypeOK, [Next]_vars, NEW p \in Publishers, pc[p] = "expire", pc'[p] = "check"
  PROVE  target'[p] \in noHeartBeat
<1> USE ConstantsAssumption
    DEF TypeOK, Threads, Publishers, members, barrier, threads, history, counters
<1>1. ASSUME NEW c \in Clients, ClientStep(c) \/ NotifyPublisher(c) PROVE FALSE
  BY <1>1 DEF ClientStep, Register, AddSubscriber, SetClientReady, SetClientBusy, NotifyPublisher
<1>2. ASSUME NEW h \in Handlers, CancelStream(h) \/ LeaveServingLoop(h) PROVE FALSE
  BY <1>2 DEF CancelStream, LeaveServingLoop
<1>3. ASSUME NEW q \in Publishers, StartPublish(q) \/ PublishStep(q)
      PROVE  target'[p] \in noHeartBeat
  BY <1>3 DEF StartPublish, PublishStep, LockClientsReady, InsertUnready, Broadcast, WakeReady,
              SleepAgain, TimeOut, ExpireClient, EndExpiry, WaitOrReturn
<1>4. ASSUME NEW t \in Threads, RemoveStep(t) PROVE FALSE
  BY <1>4 DEF RemoveStep, CheckRegistered, ResolveUnready, NotifyAfterResolve, EraseEntry,
              ReturnFromRemove, AfterRemove
<1>5. CASE BeginShutdown \/ CancelNext \/ CancelDone
  BY <1>5 DEF BeginShutdown, CancelNext, CancelDone
<1>6. CASE UNCHANGED vars
  BY <1>6 DEF vars
<1> QED
  BY <1>1, <1>2, <1>3, <1>4, <1>5, <1>6 DEF Next, HandlerStep, ShutdownStep

(* A client that sent SetReady or SetBusy since the wait began is never     *)
(* timed out by it, whatever the number of publishers.                      *)
THEOREM HeardClientsSurvive == Spec => OnlySilentClientsExpire
<1>1. Init => SilentUnheard
  BY DEF Init, SilentUnheard
<1>2. SilentUnheard /\ [Next]_vars => SilentUnheard'
  BY SilentStep
<1>3. TypeOK /\ SilentUnheard /\ [Next]_vars =>
        [\A p \in Publishers : pc[p] = "expire" /\ pc'[p] = "check" => target'[p] \notin heard]_vars
  BY ExpirePicksSilent DEF SilentUnheard
<1>4. QED BY <1>1, <1>2, <1>3, TypeCorrect, PTL DEF Spec, OnlySilentClientsExpire
-----------------------------------------------------------------------------
(* The notification of the condition variable, with a single publisher.     *)

LEMMA WakeupStep ==
  ASSUME RpcPublishers = {}, TypeOK, NoLostWakeup, [Next]_vars
  PROVE  NoLostWakeup'
<1> USE ConstantsAssumption
    DEF TypeOK, NoLostWakeup, Threads, Publishers, members, barrier, threads, history, counters
<1>1. ASSUME NEW c \in Clients, Register(c) PROVE NoLostWakeup'
  BY <1>1 DEF Register
<1>2. ASSUME NEW c \in Clients, NEW h \in Handlers, AddSubscriber(h, c) PROVE NoLostWakeup'
  BY <1>2 DEF AddSubscriber
<1>3. ASSUME NEW c \in Clients, SetClientReady(c) PROVE NoLostWakeup'
  BY <1>3 DEF SetClientReady
<1>4. ASSUME NEW c \in Clients, SetClientBusy(c) PROVE NoLostWakeup'
  BY <1>4 DEF SetClientBusy
<1>5. ASSUME NEW c \in Clients, NotifyPublisher(c) PROVE NoLostWakeup'
  BY <1>5 DEF NotifyPublisher, NotifyOne, Waiters
<1>6. ASSUME NEW h \in Handlers, CancelStream(h) \/ LeaveServingLoop(h) PROVE NoLostWakeup'
  BY <1>6 DEF CancelStream, LeaveServingLoop
<1>7. ASSUME NEW p \in Publishers, StartPublish(p) \/ PublishStep(p) PROVE NoLostWakeup'
  <2>1. p = SimThread
    OBVIOUS
  <2>2. CASE SleepAgain(p)
    BY <2>1, <2>2 DEF SleepAgain, WakePredicate
  <2>3. CASE ~SleepAgain(p)
    <3>1. pc'[SimThread] = "waiting" => unready' # {}
      BY <1>7, <2>1, <2>3 DEF StartPublish, PublishStep, LockClientsReady, InsertUnready,
         Broadcast, WakeReady, TimeOut, ExpireClient, EndExpiry, WaitOrReturn
    <3> QED BY <3>1
  <2> QED BY <2>2, <2>3
<1>8. ASSUME NEW t \in Threads, RemoveStep(t) PROVE NoLostWakeup'
  <2>1. CASE CheckRegistered(t)
    BY <2>1 DEF CheckRegistered, ReturnFromRemove, AfterRemove
  <2>2. CASE ResolveUnready(t)
    BY <2>2 DEF ResolveUnready
  <2>3. CASE NotifyAfterResolve(t)
    BY <2>3 DEF NotifyAfterResolve, NotifyOne, Waiters
  <2>4. CASE EraseEntry(t)
    <3>1. /\ UNCHANGED <<unready, woken, notifying>>
          /\ \/ pc' = [pc EXCEPT ![t] = AfterRemove(t)]
             \/ pc' = [pc EXCEPT ![t] = "crashed"]
      BY <2>4 DEF EraseEntry, ReturnFromRemove
    <3>2. pc[t] = "erase"
      BY <2>4 DEF EraseEntry
    <3> QED BY <3>1, <3>2 DEF AfterRemove
  <2> QED BY <1>8, <2>1, <2>2, <2>3, <2>4 DEF RemoveStep
<1>9. CASE BeginShutdown \/ CancelNext \/ CancelDone
  BY <1>9 DEF BeginShutdown, CancelNext, CancelDone
<1>10. CASE UNCHANGED vars
  BY <1>10 DEF vars
<1> QED
  BY <1>1, <1>2, <1>3, <1>4, <1>5, <1>6, <1>7, <1>8, <1>9, <1>10
  DEF Next, ClientStep, HandlerStep, ShutdownStep

(* As long as only the simulation thread publishes, whoever empties the set *)
(* of unready clients also wakes it: SetReady, or RemoveSubscriber called   *)
(* by a handler or by the shutdown.                                         *)
THEOREM WakeupNotLost ==
  ASSUME RpcPublishers = {}
  PROVE  Spec => []NoLostWakeup
<1>1. Init => NoLostWakeup
  BY ConstantsAssumption DEF Init, NoLostWakeup, Threads, Publishers
<1>2. TypeOK /\ NoLostWakeup /\ [Next]_vars => NoLostWakeup'
  BY WakeupStep
<1>3. QED BY <1>1, <1>2, TypeCorrect, PTL DEF Spec

-----------------------------------------------------------------------------
(* The barrier, with a single publisher and ids that are never reused.      *)

Removing == {"check", "resolve", "notify", "erase"}

(* Why BarrierHonoured holds: a client that still owes an answer is in      *)
(* UnreadySynchronousClients (PendingIsUnready), because nobody is removing *)
(* it (NotPendingIfLeaving).  That needs the handler of a registered client *)
(* to be the only one that ever served it (OneHandlerPerId), which is where *)
(* reusing an id breaks the argument, and the server not to cancel clients  *)
(* before the simulation thread has ended.                                  *)
OneHandlerPerId ==
  /\ \A c \in registered : joins[c] >= 1
  /\ \A h \in Handlers : target[h] # None => joins[target[h]] >= 1
  /\ \A h \in Handlers : target[h] \in registered => stream[target[h]] = h
NotPendingIfLeaving ==
  \A t \in Handlers \cup {SimThread} : pc[t] \in Removing => target[t] \notin pending
PendingIsUnready == InRound(SimThread) => pending \subseteq unready
SimEndedFirst == pc[Shutdown] # "up" => pc[SimThread] = "idle"

BarrierInv ==
  OneHandlerPerId /\ NotPendingIfLeaving /\ PendingIsUnready /\ SimEndedFirst

LEMMA BarrierStep ==
  ASSUME RpcPublishers = {}, MaxJoins = 1, TypeOK, MembersInv, BarrierInv, [Next]_vars
  PROVE  BarrierInv'
<1> USE ConstantsAssumption
    DEF TypeOK, BarrierInv, OneHandlerPerId, NotPendingIfLeaving, PendingIsUnready,
        SimEndedFirst, InRound, Removing, Threads, Publishers,
        members, barrier, threads, history, counters
<1>1. ASSUME NEW c \in Clients, Register(c) PROVE BarrierInv'
  BY <1>1 DEF Register
<1>2. ASSUME NEW c \in Clients, NEW h \in Handlers, AddSubscriber(h, c) PROVE BarrierInv'
  BY <1>2 DEF AddSubscriber
<1>3. ASSUME NEW c \in Clients, SetClientReady(c) PROVE BarrierInv'
  BY <1>3 DEF SetClientReady
<1>4. ASSUME NEW c \in Clients, SetClientBusy(c) PROVE BarrierInv'
  BY <1>4 DEF SetClientBusy
<1>5. ASSUME NEW c \in Clients, NotifyPublisher(c) PROVE BarrierInv'
  BY <1>5 DEF NotifyPublisher
<1>6. ASSUME NEW h \in Handlers, CancelStream(h) PROVE BarrierInv'
  BY <1>6 DEF CancelStream
<1>7. ASSUME NEW h \in Handlers, LeaveServingLoop(h) PROVE BarrierInv'
  BY <1>7 DEF LeaveServingLoop
<1>8. ASSUME NEW p \in Publishers, StartPublish(p) PROVE BarrierInv'
  BY <1>8 DEF StartPublish
<1>9. ASSUME NEW p \in Publishers, PublishStep(p) PROVE BarrierInv'
  <2>1. p = SimThread
    OBVIOUS
  <2>2. CASE LockClientsReady(p)
    BY <2>1, <2>2 DEF LockClientsReady
  <2>3. CASE InsertUnready(p)
    BY <2>1, <2>3 DEF InsertUnready, SyncSubscribers, Subscribers, MembersInv, StreamsOpen
  <2>4. CASE Broadcast(p) \/ WakeReady(p) \/ EndExpiry(p)
    BY <2>1, <2>4 DEF Broadcast, WakeReady, EndExpiry, WaitOrReturn
  <2>5. CASE SleepAgain(p) \/ TimeOut(p)
    BY <2>1, <2>5 DEF SleepAgain, TimeOut
  <2>6. CASE ExpireClient(p)
    BY <2>1, <2>6 DEF ExpireClient
  <2> QED BY <1>9, <2>2, <2>3, <2>4, <2>5, <2>6 DEF PublishStep
<1>10. ASSUME NEW t \in Threads, RemoveStep(t) PROVE BarrierInv'
  <2>1. CASE CheckRegistered(t)
    BY <2>1 DEF CheckRegistered, ReturnFromRemove, AfterRemove
  <2>2. CASE ResolveUnready(t)
    BY <2>2 DEF ResolveUnready
  <2>3. CASE NotifyAfterResolve(t)
    BY <2>3 DEF NotifyAfterResolve
  <2>4. CASE EraseEntry(t)
    <3>1. UNCHANGED <<barrier, counters, history>> /\ pc[t] = "erase"
      BY <2>4 DEF EraseEntry
    <3>2. CASE target[t] \notin registered
      BY <2>4, <3>1, <3>2 DEF EraseEntry, Subscribers, ReturnFromRemove, AfterRemove
    <3>3. CASE target[t] \in Subscribers
      <4>1. /\ registered' = registered \ {target[t]}
            /\ stream' = [stream EXCEPT ![target[t]] = None]
            /\ ReturnFromRemove(t)
        BY <2>4, <3>3 DEF EraseEntry, Subscribers
      <4> QED BY <3>1, <4>1 DEF ReturnFromRemove, AfterRemove
    <3>4. CASE target[t] \in registered \ Subscribers
      BY <2>4, <3>1, <3>4 DEF EraseEntry, Subscribers
    <3> QED BY <3>2, <3>3, <3>4
  <2> QED BY <1>10, <2>1, <2>2, <2>3, <2>4 DEF RemoveStep
<1>11. CASE BeginShutdown \/ CancelNext \/ CancelDone
  BY <1>11 DEF BeginShutdown, CancelNext, CancelDone
<1>12. CASE UNCHANGED vars
  BY <1>12 DEF vars
<1> QED
  BY <1>1, <1>2, <1>3, <1>4, <1>5, <1>6, <1>7, <1>8, <1>9, <1>10, <1>11, <1>12
  DEF Next, ClientStep, HandlerStep, ShutdownStep

(* A publisher that returns does so at a point where nobody is unready.     *)
LEMMA ReturnsWhenReady ==
  ASSUME TypeOK, [Next]_vars, NEW p \in Publishers, InRound(p), pc'[p] = "idle"
  PROVE  unready = {} /\ UNCHANGED pending
<1> USE ConstantsAssumption
    DEF TypeOK, InRound, Threads, Publishers, members, barrier, threads, history, counters
<1>1. ASSUME NEW c \in Clients, ClientStep(c) \/ NotifyPublisher(c) PROVE FALSE
  BY <1>1 DEF ClientStep, Register, AddSubscriber, SetClientReady, SetClientBusy, NotifyPublisher
<1>2. ASSUME NEW h \in Handlers, CancelStream(h) \/ LeaveServingLoop(h) PROVE FALSE
  BY <1>2 DEF CancelStream, LeaveServingLoop
<1>3. ASSUME NEW q \in Publishers, StartPublish(q) \/ PublishStep(q)
      PROVE  unready = {} /\ UNCHANGED pending
  BY <1>3 DEF StartPublish, PublishStep, LockClientsReady, InsertUnready, Broadcast, WakeReady,
              SleepAgain, TimeOut, ExpireClient, EndExpiry, WaitOrReturn
<1>4. ASSUME NEW t \in Threads, RemoveStep(t) PROVE FALSE
  <2>1. \/ pc'[t] \in {"resolve", "notify", "erase", "crashed"}
        \/ pc' = [pc EXCEPT ![t] = AfterRemove(t)]
    BY <1>4 DEF RemoveStep, CheckRegistered, ResolveUnready, NotifyAfterResolve, EraseEntry,
                ReturnFromRemove
  <2>2. \A s \in Threads \ {t} : pc'[s] = pc[s]
    BY <1>4 DEF RemoveStep, CheckRegistered, ResolveUnready, NotifyAfterResolve, EraseEntry,
                ReturnFromRemove
  <2> QED BY <2>1, <2>2 DEF AfterRemove
<1>5. CASE BeginShutdown \/ CancelNext \/ CancelDone
  BY <1>5 DEF BeginShutdown, CancelNext, CancelDone
<1>6. CASE UNCHANGED vars
  BY <1>6 DEF vars
<1> QED
  BY <1>1, <1>2, <1>3, <1>4, <1>5, <1>6 DEF Next, HandlerStep, ShutdownStep

(* SynchronousPublishAndWait never returns early: with one publisher and    *)
(* fresh client ids, every client it asked has answered, is leaving or has  *)
(* been timed out, for any number of clients, handlers and events.          *)
THEOREM BarrierIsHonoured ==
  ASSUME RpcPublishers = {}, MaxJoins = 1
  PROVE  Spec => BarrierHonoured
<1>1. Init => BarrierInv
  BY ConstantsAssumption
  DEF Init, BarrierInv, OneHandlerPerId, NotPendingIfLeaving, PendingIsUnready, SimEndedFirst,
      InRound, Removing, Threads, Publishers
<1>2. TypeOK /\ MembersInv /\ BarrierInv /\ [Next]_vars => BarrierInv'
  BY BarrierStep
<1>3. TypeOK /\ BarrierInv /\ [Next]_vars =>
        [\A p \in Publishers : InRound(p) /\ pc'[p] = "idle" => pending' = {}]_vars
  <2> SUFFICES ASSUME TypeOK, BarrierInv, [Next]_vars, NEW p \in Publishers,
                      InRound(p), pc'[p] = "idle"
               PROVE  pending' = {}
    OBVIOUS
  <2>1. unready = {} /\ UNCHANGED pending
    BY ReturnsWhenReady
  <2>2. p = SimThread
    BY DEF Publishers
  <2> QED BY <2>1, <2>2 DEF BarrierInv, PendingIsUnready
<1>4. QED BY <1>1, <1>2, <1>3, TypeCorrect, MembersInvariant, PTL DEF Spec, BarrierHonoured

-----------------------------------------------------------------------------
(* Who is timed out, under the same assumptions.                            *)

(* A client that is awaited or silent is a subscriber until its entry is    *)
(* erased (AwaitedSubscribed).  It can be silent and not awaited only while *)
(* its own handler removes it (SilentAwaited): the publisher takes a client *)
(* out of the silent set before it removes it (ExpiredHeard), and the       *)
(* silent set is empty outside of a wait and its expiry (SilentInWait),     *)
(* hence also when the destructor removes clients.                          *)
AwaitedSubscribed ==
  \A c \in unready \cup noHeartBeat :
    joins[c] >= 1 /\ (c \in registered => stream[c] # None)
SilentAwaited ==
  \A c \in noHeartBeat \ unready : c \in Subscribers => pc[stream[c]] # "serving"
ExpiredHeard == pc[SimThread] \in Removing => target[SimThread] \notin noHeartBeat
SilentInWait == pc[SimThread] \in {"idle", "lock", "insert", "broadcast"} => noHeartBeat = {}

ExpiryInv == AwaitedSubscribed /\ SilentAwaited /\ ExpiredHeard /\ SilentInWait

LEMMA ExpiryStep ==
  ASSUME RpcPublishers = {}, MaxJoins = 1, TypeOK, MembersInv, BarrierInv, ExpiryInv, [Next]_vars
  PROVE  ExpiryInv'
<1> USE ConstantsAssumption
    DEF TypeOK, ExpiryInv, AwaitedSubscribed, SilentAwaited, ExpiredHeard, SilentInWait,
        Subscribers, Removing, Threads, Publishers, members, barrier, threads, history, counters
<1>1. ASSUME NEW c \in Clients, Register(c) PROVE ExpiryInv'
  BY <1>1 DEF Register
<1>2. ASSUME NEW c \in Clients, NEW h \in Handlers, AddSubscriber(h, c) PROVE ExpiryInv'
  BY <1>2 DEF AddSubscriber, MembersInv, StreamsOpen
<1>3. ASSUME NEW c \in Clients, SetClientReady(c) \/ SetClientBusy(c) \/ NotifyPublisher(c)
      PROVE  ExpiryInv'
  BY <1>3 DEF SetClientReady, SetClientBusy, NotifyPublisher
<1>4. ASSUME NEW h \in Handlers, CancelStream(h) \/ LeaveServingLoop(h) PROVE ExpiryInv'
  BY <1>4 DEF CancelStream, LeaveServingLoop
<1>5. ASSUME NEW p \in Publishers, StartPublish(p) PROVE ExpiryInv'
  BY <1>5 DEF StartPublish
<1>6. ASSUME NEW p \in Publishers, PublishStep(p) PROVE ExpiryInv'
  <2>1. p = SimThread
    OBVIOUS
  <2>2. CASE LockClientsReady(p)
    BY <2>1, <2>2 DEF LockClientsReady
  <2>3. CASE InsertUnready(p)
    BY <2>1, <2>3 DEF InsertUnready, SyncSubscribers, BarrierInv, OneHandlerPerId
  <2>4. CASE Broadcast(p) \/ WakeReady(p) \/ EndExpiry(p)
    BY <2>1, <2>4 DEF Broadcast, WakeReady, EndExpiry, WaitOrReturn
  <2>5. CASE SleepAgain(p) \/ TimeOut(p)
    BY <2>1, <2>5 DEF SleepAgain, TimeOut
  <2>6. CASE ExpireClient(p)
    BY <2>1, <2>6 DEF ExpireClient
  <2> QED BY <1>6, <2>2, <2>3, <2>4, <2>5, <2>6 DEF PublishStep
<1>7. ASSUME NEW t \in Threads, RemoveStep(t) PROVE ExpiryInv'
  <2>1. CASE CheckRegistered(t)
    BY <2>1 DEF CheckRegistered, ReturnFromRemove, AfterRemove
  <2>2. CASE ResolveUnready(t)
    <3>1. CASE t = Shutdown
      <4>1. noHeartBeat = {}
        BY <2>2, <3>1 DEF ResolveUnready, BarrierInv, SimEndedFirst
      <4> QED BY <2>2, <3>1, <4>1 DEF ResolveUnready
    <3>2. CASE t = SimThread
      BY <2>2, <3>2 DEF ResolveUnready
    <3>3. CASE t \in Handlers
      BY <2>2, <3>3 DEF ResolveUnready, BarrierInv, OneHandlerPerId
    <3> QED BY <3>1, <3>2, <3>3
  <2>3. CASE NotifyAfterResolve(t)
    BY <2>3 DEF NotifyAfterResolve
  <2>4. CASE EraseEntry(t)
    <3>1. UNCHANGED <<barrier, counters>> /\ pc[t] = "erase"
      BY <2>4 DEF EraseEntry
    <3>2. CASE target[t] \notin registered
      BY <2>4, <3>1, <3>2 DEF EraseEntry, ReturnFromRemove, AfterRemove
    <3>3. CASE target[t] \in Subscribers
      <4>1. /\ registered' = registered \ {target[t]}
            /\ stream' = [stream EXCEPT ![target[t]] = None]
            /\ ReturnFromRemove(t)
        BY <2>4, <3>3 DEF EraseEntry
      <4> QED BY <3>1, <4>1 DEF ReturnFromRemove, AfterRemove
    <3>4. CASE target[t] \in registered \ Subscribers
      BY <2>4, <3>1, <3>4 DEF EraseEntry
    <3> QED BY <3>2, <3>3, <3>4
  <2> QED BY <1>7, <2>1, <2>2, <2>3, <2>4 DEF RemoveStep
<1>8. CASE BeginShutdown \/ CancelNext \/ CancelDone
  BY <1>8 DEF BeginShutdown, CancelNext, CancelDone
<1>9. CASE UNCHANGED vars
  BY <1>9 DEF vars
<1> QED
  BY <1>1, <1>2, <1>3, <1>4, <1>5, <1>6, <1>7, <1>8, <1>9
  DEF Next, ClientStep, HandlerStep, ShutdownStep

(* With one publisher and fresh ids, a client whose stream is being served  *)
(* is timed out only if the event in flight still waits for its answer.     *)
THEOREM AwaitedClientsExpire ==
  ASSUME RpcPublishers = {}, MaxJoins = 1
  PROVE  Spec => OnlyAwaitedClientsExpire
<1>1. Init => BarrierInv /\ ExpiryInv
  BY ConstantsAssumption
  DEF Init, BarrierInv, OneHandlerPerId, NotPendingIfLeaving, PendingIsUnready, SimEndedFirst,
      InRound, Removing, ExpiryInv, AwaitedSubscribed, SilentAwaited, ExpiredHeard, SilentInWait,
      Threads, Publishers
<1>2. TypeOK /\ MembersInv /\ BarrierInv /\ ExpiryInv /\ [Next]_vars => BarrierInv' /\ ExpiryInv'
  BY BarrierStep, ExpiryStep
<1>3. TypeOK /\ ExpiryInv /\ [Next]_vars =>
        [\A p \in Publishers :
           pc[p] = "expire" /\ pc'[p] = "check" =>
             LET c == target'[p]
             IN c \in Subscribers /\ pc[stream[c]] = "serving" => c \in unready]_vars
  BY ExpirePicksSilent DEF ExpiryInv, SilentAwaited
<1>4. QED
  BY <1>1, <1>2, <1>3, TypeCorrect, MembersInvariant, PTL DEF Spec, OnlyAwaitedClientsExpire

-----------------------------------------------------------------------------
(***************************************************************************)
(* EventPublisher implements StepBarrier, as long as only the simulation   *)
(* thread publishes.                                                       *)
(***************************************************************************)
(* Between rounds nobody is awaited, and the publisher's target is set only *)
(* while it removes a client, whom it stops awaiting at ResolveUnready.     *)
RoundInv ==
  /\ ~InRound(SimThread) => unready = {}
  /\ pc[SimThread] \notin Removing \cup {"crashed"} => target[SimThread] = None
  /\ pc[SimThread] \in {"notify", "erase", "crashed"} => target[SimThread] \notin unready

LEMMA RoundStep ==
  ASSUME RpcPublishers = {}, TypeOK, RoundInv, [Next]_vars
  PROVE  RoundInv'
<1> USE ConstantsAssumption
    DEF TypeOK, RoundInv, InRound, Removing, Threads, Publishers,
        members, barrier, threads, history, counters
<1>1. ASSUME NEW c \in Clients, Register(c) PROVE RoundInv'
  BY <1>1 DEF Register
<1>2. ASSUME NEW c \in Clients, NEW h \in Handlers, AddSubscriber(h, c) PROVE RoundInv'
  BY <1>2 DEF AddSubscriber
<1>3. ASSUME NEW c \in Clients,
             SetClientReady(c) \/ SetClientBusy(c) \/ NotifyPublisher(c)
      PROVE  RoundInv'
  BY <1>3 DEF SetClientReady, SetClientBusy, NotifyPublisher
<1>4. ASSUME NEW h \in Handlers, CancelStream(h) \/ LeaveServingLoop(h) PROVE RoundInv'
  BY <1>4 DEF CancelStream, LeaveServingLoop
<1>5. ASSUME NEW p \in Publishers, StartPublish(p) PROVE RoundInv'
  BY <1>5 DEF StartPublish
<1>6. ASSUME NEW p \in Publishers, PublishStep(p) PROVE RoundInv'
  BY <1>6 DEF PublishStep, LockClientsReady, InsertUnready, Broadcast, WakeReady,
              SleepAgain, TimeOut, ExpireClient, EndExpiry, WaitOrReturn
<1>7. ASSUME NEW t \in Threads, RemoveStep(t) PROVE RoundInv'
  <2>1. CASE CheckRegistered(t)
    BY <2>1 DEF CheckRegistered, ReturnFromRemove, AfterRemove
  <2>2. CASE ResolveUnready(t)
    BY <2>2 DEF ResolveUnready
  <2>3. CASE NotifyAfterResolve(t)
    BY <2>3 DEF NotifyAfterResolve
  <2>4. CASE EraseEntry(t)
    <3>1. /\ UNCHANGED unready /\ pc[t] = "erase"
          /\ \/ ReturnFromRemove(t)
             \/ pc' = [pc EXCEPT ![t] = "crashed"] /\ UNCHANGED target
      BY <2>4 DEF EraseEntry
    <3> QED BY <3>1 DEF ReturnFromRemove, AfterRemove
  <2> QED BY <1>7, <2>1, <2>2, <2>3, <2>4 DEF RemoveStep
<1>8. CASE BeginShutdown \/ CancelNext \/ CancelDone
  BY <1>8 DEF BeginShutdown, CancelNext, CancelDone
<1>9. CASE UNCHANGED vars
  BY <1>9 DEF vars
<1> QED
  BY <1>1, <1>2, <1>3, <1>4, <1>5, <1>6, <1>7, <1>8, <1>9
  DEF Next, ClientStep, HandlerStep, ShutdownStep

-----------------------------------------------------------------------------
(* A step that leaves the barrier's variables and the publisher alone is a  *)
(* stuttering step of the abstract barrier.                                 *)
LEMMA OtherStep ==
  ASSUME UNCHANGED <<unready, noHeartBeat, pc[SimThread], target[SimThread]>>
  PROVE  UNCHANGED StepBarrier!bvars
BY DEF StepBarrier!bvars, BarrierPhase, ClientStatus, InRound

LEMMA ClientAnswers ==
  ASSUME RpcPublishers = {}, TypeOK, RoundInv, NEW c \in Clients,
         pc[SimThread] \notin ReadyHeld,
         unready' = unready \ {c}, noHeartBeat' \in {noHeartBeat, noHeartBeat \ {c}},
         UNCHANGED <<pc[SimThread], target[SimThread]>>
  PROVE  [StepBarrier!Next]_(StepBarrier!bvars)
<1> USE DEF InRound, ReadyHeld, BarrierPhase, ClientStatus
<1>1. CASE InRound(SimThread)
  <2>1. BarrierPhase = "open" /\ UNCHANGED BarrierPhase
    BY <1>1 DEF TypeOK
  <2>2. ClientStatus' = [ClientStatus EXCEPT ![c] = "none"]
    BY <1>1
  <2> QED BY <2>1, <2>2 DEF StepBarrier!Next, StepBarrier!Answer
<1>2. CASE ~InRound(SimThread)
  <2>1. unready = {} /\ unready' = {}
    BY <1>2 DEF RoundInv
  <2>2. UNCHANGED <<BarrierPhase, ClientStatus>>
    BY <1>2, <2>1
  <2> QED BY <2>2 DEF StepBarrier!bvars
<1> QED BY <1>1, <1>2

LEMMA ClientBeats ==
  ASSUME RpcPublishers = {}, TypeOK, RoundInv, NEW c \in Clients, SetClientBusy(c)
  PROVE  [StepBarrier!Next]_(StepBarrier!bvars)
<1> USE DEF InRound, ReadyHeld, BarrierPhase, ClientStatus
<1>1. /\ noHeartBeat' = noHeartBeat \ {c} /\ c \in noHeartBeat
      /\ UNCHANGED <<pc, target, unready>> /\ pc[SimThread] \notin ReadyHeld
  BY DEF SetClientBusy, ReadyFree, Publishers, threads
<1>2. CASE InRound(SimThread) /\ c \in unready
  <2>1. BarrierPhase = "open" /\ UNCHANGED BarrierPhase
    BY <1>1, <1>2
  <2>2. pc[SimThread] # "broadcast" /\ target[SimThread] = None /\ None # c
    BY <1>1, ConstantsAssumption DEF RoundInv, Removing
  <2>3. ClientStatus[c] = "silent" /\ ClientStatus' = [ClientStatus EXCEPT ![c] = "alive"]
    BY <1>1, <1>2, <2>2
  <2> QED BY <2>1, <2>3 DEF StepBarrier!Next, StepBarrier!Beat
<1>3. CASE ~InRound(SimThread) \/ c \notin unready
  <2>1. c \notin unready
    BY <1>3 DEF RoundInv
  <2>2. UNCHANGED <<BarrierPhase, ClientStatus>>
    BY <1>1, <2>1
  <2> QED BY <2>2 DEF StepBarrier!bvars
<1> QED BY <1>2, <1>3

LEMMA PublisherMoves ==
  ASSUME RpcPublishers = {}, TypeOK, RoundInv, PublishStep(SimThread)
  PROVE  [StepBarrier!Next]_(StepBarrier!bvars)
<1> USE ConstantsAssumption
    DEF InRound, ReadyHeld, BarrierPhase, ClientStatus, TypeOK, Threads, Publishers, RoundInv,
        Removing, members, barrier, threads
<1>0. SimThread \in Threads
  OBVIOUS
<1>1. CASE LockClientsReady(SimThread)
  BY <1>1 DEF LockClientsReady, StepBarrier!bvars
<1>2. CASE InsertUnready(SimThread)
  <2>1. /\ unready = {} /\ unready' = SyncSubscribers /\ SyncSubscribers \subseteq Clients
        /\ pc[SimThread] = "insert" /\ pc'[SimThread] = "broadcast"
    BY <1>2 DEF InsertUnready, SyncSubscribers, Subscribers
  <2>2. BarrierPhase = "closed" /\ BarrierPhase' = "open"
    BY <2>1
  <2>3. \A c \in Clients : ClientStatus[c] = "none"
    BY <2>1
  <2>4. ClientStatus' = [c \in Clients |-> IF c \in SyncSubscribers THEN "silent" ELSE "none"]
    BY <2>1
  <2> QED BY <2>1, <2>2, <2>3, <2>4
          DEF StepBarrier!Next, StepBarrier!Begin, StepBarrier!Awaited
<1>3. CASE Broadcast(SimThread) \/ WakeReady(SimThread) \/ EndExpiry(SimThread)
  <2>1. /\ WaitOrReturn(SimThread) /\ UNCHANGED <<unready, target>>
        /\ InRound(SimThread) /\ target[SimThread] = None
        /\ pc[SimThread] \in {"broadcast", "waiting", "expire"}
        /\ pc[SimThread] # "broadcast" => unready = {} \/ noHeartBeat = {}
    BY <1>3 DEF Broadcast, WakeReady, EndExpiry, WakePredicate
  <2>2. BarrierPhase # "closed"
    BY <2>1
  <2>3. CASE unready = {}
    <3>1. BarrierPhase' = "closed"
      BY <2>1, <2>3 DEF WaitOrReturn
    <3>2. UNCHANGED ClientStatus /\ \A c \in Clients : ClientStatus[c] = "none"
      BY <2>1, <2>3
    <3> QED BY <2>2, <3>1, <3>2 DEF StepBarrier!Next, StepBarrier!End, StepBarrier!Awaited
  <2>4. CASE unready # {}
    <3>1. /\ BarrierPhase' = "open" /\ pc'[SimThread] = "waiting" /\ noHeartBeat' = unready
      BY <2>1, <2>4 DEF WaitOrReturn
    <3>2. ClientStatus' = [c \in Clients |-> IF c \in unready THEN "silent" ELSE "none"]
      BY <2>1, <3>1
    <3>3. \A c \in Clients : ClientStatus[c] # "none" <=> c \in unready
      OBVIOUS
    <3>4. CASE pc[SimThread] = "broadcast"
      <4>1. UNCHANGED ClientStatus /\ BarrierPhase = "open"
        BY <3>2, <3>4
      <4> QED BY <3>1, <4>1 DEF StepBarrier!bvars
    <3>5. CASE pc[SimThread] # "broadcast"
      <4>1. \A c \in Clients : ClientStatus[c] # "silent"
        BY <2>1, <2>4, <3>5
      <4>2. StepBarrier!Awaited = unready
        <5> HIDE DEF ClientStatus
        <5> QED BY <3>3 DEF StepBarrier!Awaited
      <4>3. StepBarrier!Silent = {}
        <5> HIDE DEF ClientStatus
        <5> QED BY <4>1 DEF StepBarrier!Silent
      <4> QED BY <2>2, <2>4, <3>1, <3>2, <4>2, <4>3
              DEF StepBarrier!Next, StepBarrier!WaitAgain
    <3> QED BY <3>4, <3>5
  <2> QED BY <2>3, <2>4
<1>4. CASE SleepAgain(SimThread)
  BY <1>4, OtherStep DEF SleepAgain
<1>5. CASE TimeOut(SimThread)
  <2>1. /\ unready # {} /\ UNCHANGED <<unready, noHeartBeat, target>>
        /\ pc[SimThread] = "waiting" /\ pc'[SimThread] = "expire"
    BY <1>5 DEF TimeOut, WakePredicate
  <2>2. BarrierPhase = "open" /\ BarrierPhase' = "expiring"
    BY <2>1
  <2>3. UNCHANGED ClientStatus
    BY <2>1
  <2>4. \E c \in Clients : ClientStatus[c] # "none"
    BY <2>1
  <2> QED BY <2>2, <2>3, <2>4 DEF StepBarrier!Next, StepBarrier!Timeout, StepBarrier!Awaited
<1>6. CASE ExpireClient(SimThread)
  <2>1. PICK c \in noHeartBeat :
          /\ noHeartBeat' = noHeartBeat \ {c} /\ target'[SimThread] = c
          /\ pc[SimThread] = "expire" /\ pc'[SimThread] = "check"
          /\ UNCHANGED unready
    BY <1>6 DEF ExpireClient
  <2>2. target[SimThread] = None
    BY <2>1
  <2>3. UNCHANGED <<BarrierPhase, ClientStatus>>
    BY <2>1, <2>2
  <2> QED BY <2>3 DEF StepBarrier!bvars
<1> QED BY <1>1, <1>2, <1>3, <1>4, <1>5, <1>6 DEF PublishStep

(* The publisher removes a client that it timed out: the client is dropped, *)
(* or, when it is rejoining, kept for another wait.                         *)
LEMMA PublisherRemoves ==
  ASSUME RpcPublishers = {}, TypeOK, RoundInv, RemoveStep(SimThread)
  PROVE  [StepBarrier!Next]_(StepBarrier!bvars)
<1> DEFINE c == target[SimThread]
<1> USE ConstantsAssumption
    DEF InRound, BarrierPhase, ClientStatus, TypeOK, Threads, Publishers, RoundInv, Removing,
        members, barrier, threads
<1>1. CASE CheckRegistered(SimThread)
  <2>1. /\ pc[SimThread] = "check" /\ BarrierPhase = "expiring"
        /\ UNCHANGED <<unready, noHeartBeat>>
        /\ \/ pc'[SimThread] = "expire" /\ target'[SimThread] = None
           \/ pc'[SimThread] = "resolve" /\ target'[SimThread] = c
    BY <1>1 DEF CheckRegistered, ReturnFromRemove, AfterRemove
  <2>2. UNCHANGED BarrierPhase
    BY <2>1
  <2>3. CASE target'[SimThread] = c \/ c \notin unready \/ c \in noHeartBeat
    <3>1. UNCHANGED ClientStatus
      BY <2>1, <2>3
    <3> QED BY <2>2, <3>1 DEF StepBarrier!bvars
  <2>4. CASE target'[SimThread] = None /\ c \in unready /\ c \notin noHeartBeat
    <3>1. c \in Clients /\ c # None
      BY <2>4
    <3>2. ClientStatus[c] = "silent" /\ ClientStatus'[c] = "alive"
      BY <2>1, <2>4, <3>1
    <3>3. \A d \in Clients \ {c} : ClientStatus'[d] = ClientStatus[d]
      BY <2>1, <2>4
    <3>4. ClientStatus' = [ClientStatus EXCEPT ![c] = "alive"]
      <4>1. /\ ClientStatus = [d \in Clients |-> ClientStatus[d]]
            /\ ClientStatus' = [d \in Clients |-> ClientStatus'[d]]
        OBVIOUS
      <4> HIDE DEF ClientStatus, c
      <4> QED BY <3>1, <3>2, <3>3, <4>1
    <3> QED BY <2>1, <2>2, <3>1, <3>2, <3>4 DEF StepBarrier!Next, StepBarrier!Expire
  <2> QED BY <2>1, <2>3, <2>4
<1>2. CASE ResolveUnready(SimThread)
  <2>1. /\ pc[SimThread] = "resolve" /\ pc'[SimThread] \in {"notify", "erase"}
        /\ unready' = unready \ {c} /\ UNCHANGED <<noHeartBeat, target>>
    BY <1>2 DEF ResolveUnready
  <2>2. BarrierPhase = "expiring" /\ UNCHANGED BarrierPhase
    BY <2>1
  <2>3. CASE c \notin unready
    <3>1. UNCHANGED ClientStatus
      BY <2>1, <2>3
    <3> QED BY <2>2, <3>1 DEF StepBarrier!bvars
  <2>4. CASE c \in unready
    <3>1. ClientStatus[c] = "silent" /\ ClientStatus' = [ClientStatus EXCEPT ![c] = "none"]
      BY <2>1, <2>4
    <3> QED BY <2>2, <2>4, <3>1 DEF StepBarrier!Next, StepBarrier!Expire
  <2> QED BY <2>3, <2>4
<1>3. CASE NotifyAfterResolve(SimThread)
  <2>1. /\ pc[SimThread] = "notify" /\ pc'[SimThread] = "erase"
        /\ UNCHANGED <<unready, noHeartBeat, target>>
    BY <1>3 DEF NotifyAfterResolve
  <2>2. UNCHANGED BarrierPhase /\ UNCHANGED ClientStatus
    BY <2>1
  <2> QED BY <2>2 DEF StepBarrier!bvars
<1>4. CASE EraseEntry(SimThread)
  <2>1. /\ pc[SimThread] = "erase" /\ UNCHANGED <<unready, noHeartBeat>>
        /\ \/ pc'[SimThread] = "expire" /\ target'[SimThread] = None
           \/ pc'[SimThread] = "crashed" /\ target'[SimThread] = c
    BY <1>4 DEF EraseEntry, ReturnFromRemove, AfterRemove
  <2>2. c \notin unready
    BY <2>1
  <2>3. UNCHANGED BarrierPhase
    BY <2>1
  <2>4. UNCHANGED ClientStatus
    BY <2>1, <2>2
  <2> QED BY <2>3, <2>4 DEF StepBarrier!bvars
<1> QED BY <1>1, <1>2, <1>3, <1>4 DEF RemoveStep

(* Another thread removes a client: the client answers by leaving.          *)
LEMMA OthersRemove ==
  ASSUME RpcPublishers = {}, TypeOK, RoundInv, NEW t \in Handlers \cup {Shutdown}, RemoveStep(t)
  PROVE  [StepBarrier!Next]_(StepBarrier!bvars)
<1>1. t \in Threads /\ t # SimThread /\ SimThread \in Threads
  BY ConstantsAssumption DEF Threads, Publishers
<1>2. UNCHANGED <<pc[SimThread], target[SimThread], noHeartBeat>>
  BY <1>1 DEF RemoveStep, CheckRegistered, ResolveUnready, NotifyAfterResolve, EraseEntry,
              ReturnFromRemove, TypeOK, barrier, threads
<1>3. CASE ResolveUnready(t)
  <2>1. ReadyFree /\ unready' = unready \ {target[t]}
    BY <1>1, <1>3, ConstantsAssumption DEF ResolveUnready, Publishers
  <2>2. pc[SimThread] \notin ReadyHeld
    BY <2>1 DEF ReadyFree, Publishers
  <2>3. CASE target[t] \in Clients
    BY <1>2, <2>1, <2>2, <2>3, ClientAnswers
  <2>4. CASE target[t] \notin Clients
    <3>1. UNCHANGED unready
      BY <2>1, <2>4 DEF TypeOK
    <3> QED BY <1>2, <3>1, OtherStep
  <2> QED BY <2>3, <2>4
<1>4. CASE ~ResolveUnready(t)
  <2>1. UNCHANGED unready
    BY <1>4 DEF RemoveStep, CheckRegistered, NotifyAfterResolve, EraseEntry, barrier
  <2> QED BY <1>2, <2>1, OtherStep
<1> QED BY <1>3, <1>4

-----------------------------------------------------------------------------
(* Every step of the publisher, of the clients' calls, of the handlers and  *)
(* of the shutdown is a step of the abstract barrier or leaves it alone.    *)
LEMMA BarrierSimulation ==
  ASSUME RpcPublishers = {}, TypeOK, RoundInv, [Next]_vars
  PROVE  [StepBarrier!Next]_(StepBarrier!bvars)
<1>0. SimThread \in Threads /\ \A p \in Publishers : p = SimThread
  BY DEF Threads, Publishers
<1>1. ASSUME NEW c \in Clients, Register(c) PROVE UNCHANGED StepBarrier!bvars
  BY <1>1, OtherStep DEF Register, barrier, threads
<1>2. ASSUME NEW c \in Clients, NEW h \in Handlers, AddSubscriber(h, c)
      PROVE  UNCHANGED StepBarrier!bvars
  <2>1. h # SimThread /\ h \in Threads
    BY ConstantsAssumption DEF Publishers, Threads
  <2>2. UNCHANGED <<unready, noHeartBeat, pc[SimThread], target[SimThread]>>
    BY <1>0, <1>2, <2>1 DEF AddSubscriber, barrier, TypeOK
  <2> QED BY <2>2, OtherStep
<1>3. ASSUME NEW c \in Clients, SetClientReady(c)
      PROVE  [StepBarrier!Next]_(StepBarrier!bvars)
  <2>1. /\ pc[SimThread] \notin ReadyHeld /\ UNCHANGED <<pc, target>>
        /\ unready' = unready \ {c} /\ noHeartBeat' = noHeartBeat \ {c}
    BY <1>3 DEF SetClientReady, ReadyFree, Publishers, threads
  <2> QED BY <2>1, ClientAnswers
<1>4. ASSUME NEW c \in Clients, SetClientBusy(c)
      PROVE  [StepBarrier!Next]_(StepBarrier!bvars)
  BY <1>4, ClientBeats
<1>5. ASSUME NEW c \in Clients, NotifyPublisher(c) PROVE UNCHANGED StepBarrier!bvars
  BY <1>5, OtherStep DEF NotifyPublisher, barrier, threads
<1>6. ASSUME NEW h \in Handlers, CancelStream(h) \/ LeaveServingLoop(h)
      PROVE  UNCHANGED StepBarrier!bvars
  <2>1. h # SimThread /\ h \in Threads
    BY ConstantsAssumption DEF Publishers, Threads
  <2>2. UNCHANGED <<unready, noHeartBeat, pc[SimThread], target[SimThread]>>
    BY <1>0, <1>6, <2>1 DEF CancelStream, LeaveServingLoop, barrier, threads, TypeOK
  <2> QED BY <2>2, OtherStep
<1>7. CASE StartPublish(SimThread)
  <2>1. /\ UNCHANGED <<unready, noHeartBeat, target>>
        /\ pc[SimThread] = "idle" /\ pc'[SimThread] = "lock"
    BY <1>0, <1>7 DEF StartPublish, barrier, TypeOK
  <2> QED BY <2>1 DEF StepBarrier!bvars, BarrierPhase, ClientStatus, InRound
<1>8. CASE PublishStep(SimThread) \/ RemoveStep(SimThread)
  BY <1>8, PublisherMoves, PublisherRemoves
<1>9. ASSUME NEW t \in Handlers \cup {Shutdown}, RemoveStep(t)
      PROVE  [StepBarrier!Next]_(StepBarrier!bvars)
  BY <1>9, OthersRemove
<1>10. CASE BeginShutdown \/ CancelNext \/ CancelDone
  <2>1. Shutdown # SimThread /\ Shutdown \in Threads
    BY ConstantsAssumption DEF Publishers, Threads
  <2>2. UNCHANGED <<unready, noHeartBeat, pc[SimThread], target[SimThread]>>
    BY <1>0, <1>10, <2>1 DEF BeginShutdown, CancelNext, CancelDone, barrier, TypeOK
  <2> QED BY <2>2, OtherStep
<1>11. CASE UNCHANGED vars
  BY <1>11, OtherStep DEF vars, barrier, threads
<1> QED
  BY <1>0, <1>1, <1>2, <1>3, <1>4, <1>5, <1>6, <1>7, <1>8, <1>9, <1>10, <1>11
  DEF Next, ClientStep, HandlerStep, ShutdownStep

(* The barrier of EventPublisher.cpp, with every thread that interferes     *)
(* with it, implements StepBarrier for any number of clients and handlers,  *)
(* including clients that leave and come back under the same id.            *)
THEOREM BarrierRefinement ==
  ASSUME RpcPublishers = {}
  PROVE  Spec => ImplementsBarrier
<1>1. Init => RoundInv /\ StepBarrier!Init
  <2> SUFFICES ASSUME Init PROVE RoundInv /\ StepBarrier!Init
    OBVIOUS
  <2>1. pc[SimThread] = "idle" /\ target[SimThread] = None /\ unready = {}
    BY ConstantsAssumption DEF Init, Threads, Publishers
  <2>2. RoundInv
    BY <2>1 DEF RoundInv, InRound, Removing
  <2>3. BarrierPhase = "closed" /\ ClientStatus = [c \in Clients |-> "none"]
    BY <2>1 DEF BarrierPhase, ClientStatus, InRound
  <2> QED BY <2>2, <2>3 DEF StepBarrier!Init
<1>2. TypeOK /\ RoundInv /\ [Next]_vars => RoundInv'
  BY RoundStep
<1>3. TypeOK /\ RoundInv /\ [Next]_vars => [StepBarrier!Next]_(StepBarrier!bvars)
  BY BarrierSimulation
<1>4. QED
  BY <1>1, <1>2, <1>3, TypeCorrect, PTL DEF Spec, ImplementsBarrier, StepBarrier!Spec
=============================================================================
