----------------------------- MODULE MessageLog -----------------------------
(***************************************************************************)
(* The three logs of a simulation server (MessageLogger.cpp): the remote   *)
(* calls that it has answered, the state of the world at each time of the  *)
(* simulation, and the diagnostics that clients report.  Any thread adds   *)
(* to a log: it reads the simulation time first and takes the lock of the  *)
(* log afterwards, so two threads may add in the order opposite to their   *)
(* times.  The diagnostics log is filled without any lock.                 *)
(*                                                                         *)
(* Published events are not in the communication log: the call that adds   *)
(* them is commented out (EventPublisher.cpp:505-511), as is the one that  *)
(* registers subscribers with the log (SimulationServer.cpp:210).          *)
(***************************************************************************)
EXTENDS LogIndex, FiniteSets

CONSTANTS
  Threads,      \* threads that answer calls, one of them the simulation thread
  Reporters,    \* threads that answer AddDiagnosticMessage
  Clients, Services, Actors, Types,
  Limits,       \* buffer lengths that clients ask for; 0 stands for no limit
  SizeRange,    \* the number of values of size_t
  MaxTime,      \* bound: simulation time
  MaxEntries    \* bound: messages, states and events in all logs together

ASSUME LogAssumption == /\ Limits \subseteq Nat /\ MaxTime \in Nat
                        /\ MaxEntries \in Nat /\ SizeRange \in Nat
                        /\ SizeRange > MaxEntries /\ IsFiniteSet(Actors)

VARIABLES
  running,      \* whether a simulation runs
  timeNow,      \* EventCalendar::TimeNow
  op,           \* what each thread is about to add, with the time it has read
  (* MessageLogger *)
  commOn,       \* mEnableCommLogging
  commLimit, commLog, commPushed, commPopped,
  byClient, byService,  \* mClientIDRPCMessageIndex, mRPCTypeMessageIndex
  commTimes,
  (* ActorRunTimeLogger *)
  worldOn,      \* mEnableRuntimeLogging
  worldLimit, worldLog, worldPushed, worldPopped,
  actorIndex,   \* mActorIDWorldStateIndex
  worldTimes,
  (* DiagnosticMessageLogger *)
  diagLog, diagByClient, diagByType, diagTimes

clock == <<running, timeNow>>
comm == <<commOn, commLimit, commLog, commPushed, commPopped, byClient,
          byService, commTimes>>
world == <<worldOn, worldLimit, worldLog, worldPushed, worldPopped, actorIndex,
           worldTimes>>
diag == <<diagLog, diagByClient, diagByType, diagTimes>>
vars == <<clock, op, comm, world, diag>>

Idle == [kind |-> "idle"]

Call == [kind : {"call"}, client : Clients, service : Services,
         time : 0 .. MaxTime]
States == [kind : {"states"}, actors : {s \in Seq(Actors) : Len(s) <= Cardinality(Actors)},
           time : 0 .. MaxTime]
Event == [kind : {"event"}, time : 0 .. MaxTime]
Report == [kind : {"report", "stamped"}, client : Clients, type : Types,
           time : 0 .. MaxTime]

\* The orders in which an unordered map of actors may be iterated.
Orders(S) == {s \in [1 .. Cardinality(S) -> S] :
                \A i, j \in DOMAIN s : i # j => s[i] # s[j]}

\* Bounds.  The logs share nothing but the clock and the threads, so it is enough
\* to fill one of them at a time; MayUse(log) holds while the others are not used.
Entries == commPushed + worldPushed + Len(diagLog)
           + Cardinality(UNION {{a} \X DOMAIN actorIndex[a] : a \in Actors})
           + Cardinality({t \in Threads \cup Reporters : op[t] # Idle})
MayAdd == Entries < MaxEntries
MayUse(log) ==
  /\ log # "comm" => commPushed = 0 /\ ~commOn
  /\ log # "world" => worldPushed = 0 /\ ~worldOn
  /\ log # "diag" => diagLog = <<>> /\ \A d \in Reporters : op[d] = Idle

Init ==
  /\ running = FALSE /\ timeNow = 0
  /\ op = [t \in Threads \cup Reporters |-> Idle]
  /\ commOn = FALSE /\ commLimit = 0 /\ commLog = <<>> /\ commPushed = 0
  /\ commPopped = 0 /\ commTimes = <<>>
  /\ byClient = [c \in Clients |-> <<>>] /\ byService = [s \in Services |-> <<>>]
  /\ worldOn = FALSE /\ worldLimit = 0 /\ worldLog = <<>> /\ worldPushed = 0
  /\ worldPopped = 0 /\ worldTimes = <<>>
  /\ actorIndex = [a \in Actors |-> <<>>]
  /\ diagLog = <<>> /\ diagTimes = <<>>
  /\ diagByClient = [c \in Clients |-> <<>>]
  /\ diagByType = [d \in Types |-> <<>>]

-----------------------------------------------------------------------------
(* The simulation: time is 0 outside of a run (Cleanup resets the calendar). *)

StartRun == /\ ~running /\ running' = TRUE
            /\ UNCHANGED <<timeNow, op, comm, world, diag>>
AdvanceTime == /\ running /\ timeNow < MaxTime /\ timeNow' = timeNow + 1
               /\ UNCHANGED <<running, op, comm, world, diag>>
EndRun == /\ running /\ running' = FALSE /\ timeNow' = 0
          /\ UNCHANGED <<op, comm, world, diag>>

-----------------------------------------------------------------------------
(* Settings.  Neither call is accepted while a simulation runs. *)

EnableCommunicationLogging ==
  /\ ~running /\ MayUse("comm")
  /\ commOn' \in BOOLEAN /\ commLimit' \in Limits
  /\ UNCHANGED <<commLog, commPushed, commPopped, byClient, byService, commTimes>>
  /\ UNCHANGED <<clock, op, world, diag>>

EnableActorRuntimeLogging ==
  /\ ~running /\ MayUse("world")
  /\ worldOn' \in BOOLEAN /\ worldLimit' \in Limits
  /\ UNCHANGED <<worldLog, worldPushed, worldPopped, actorIndex, worldTimes>>
  /\ UNCHANGED <<clock, op, comm, diag>>

-----------------------------------------------------------------------------
(* Communication log *)

\* A call has been answered: the thread reads the time.
BeginCall(t) ==
  /\ op[t] = Idle /\ commOn /\ MayAdd
  /\ \E c \in Clients, s \in Services :
       op' = [op EXCEPT ![t] = [kind |-> "call", client |-> c, service |-> s,
                                time |-> timeNow]]
  /\ UNCHANGED <<clock, comm, world, diag>>

\* CullInvalidIndices, for the queues of the clients or of the services.
CullInvalidIndices(index, popped) == [k \in DOMAIN index |-> EraseNegativeIndices(index[k], popped)]

\* AddMessage, under the lock.
AddMessage(t) ==
  /\ op[t].kind = "call"
  /\ LET full == commLimit # 0 /\ Len(commLog) + 1 > commLimit
         popped == commPopped + (IF full THEN 1 ELSE 0)
         kept(index) == IF full THEN CullInvalidIndices(index, popped) ELSE index
         stored == Append(commLog, [client |-> op[t].client,
                     service |-> op[t].service, time |-> op[t].time])
         times == IF full THEN CullSimTimeIndices(commTimes, popped) ELSE commTimes
     IN /\ commLog' = IF full THEN Tail(stored) ELSE stored
        /\ commPushed' = commPushed + 1
        /\ commPopped' = popped
        /\ byClient' = [kept(byClient) EXCEPT ![op[t].client] = Append(@, commPushed)]
        /\ byService' = [kept(byService) EXCEPT ![op[t].service] = Append(@, commPushed)]
        /\ commTimes' = Append(times, [time |-> op[t].time, number |-> commPushed])
  /\ op' = [op EXCEPT ![t] = Idle]
  /\ UNCHANGED <<commOn, commLimit, clock, world, diag>>

\* GetLogIndicesForClientId, and the same for services; no published events are logged.
GetLogIndices(index, keys) ==
  {i - commPopped : i \in UNION {{index[c][k] : k \in DOMAIN index[c]} : c \in keys}}

\* What RetrieveMessages returns: positions in the log.  A filter that is not
\* given is the empty set; a time that is not given is -1.  Client and service
\* add up, the time narrows what they found, unless that is nothing.
RetrieveCalls(clients, services, start, end) ==
  LET named == GetLogIndices(byClient, clients) \cup GetLogIndices(byService, services)
      timed == Positions(GetIndicesForTime(start, end, commTimes, commPopped))
      inTime == start >= 0 \/ end >= 0
  IN IF clients = {} /\ services = {} /\ ~inTime THEN 0 .. Len(commLog) - 1
     ELSE IF ~inTime THEN named
     ELSE IF named # {} THEN named \cap timed ELSE timed

-----------------------------------------------------------------------------
(* World log *)

\* CommitActorUpdates, of the simulation thread or of a thread that adds an actor.
BeginStates(t) ==
  /\ op[t] = Idle /\ worldOn /\ running /\ MayAdd
  /\ \E S \in SUBSET Actors : \E order \in Orders(S) :
       op' = [op EXCEPT ![t] = [kind |-> "states", actors |-> order,
                                time |-> timeNow]]
  /\ UNCHANGED <<clock, comm, world, diag>>

\* An action, action complete or user-defined event that is broadcast.
BeginEvent(t) ==
  /\ op[t] = Idle /\ worldOn /\ running /\ MayAdd
  /\ op' = [op EXCEPT ![t] = [kind |-> "event", time |-> timeNow]]
  /\ UNCHANGED <<clock, comm, world, diag>>

ActorsOf(o) == IF o.kind = "states" THEN o.actors ELSE <<>>

\* Numbers in the index are taken from the counter of messages at the moment of
\* the update: before it is incremented for a new state, after it for a state
\* that already exists.
\* Mutant: one less in both cases.
IndexActors_Less(o, offset) ==
  [a \in Actors |->
     IF \E k \in DOMAIN ActorsOf(o) : ActorsOf(o)[k] = a
     THEN Append(actorIndex[a], [number |-> worldPushed - 1, entry |-> offset + 1])
     ELSE actorIndex[a]]
IndexActors(o, offset) ==
  [a \in Actors |->
     LET at == {k \in DOMAIN ActorsOf(o) : ActorsOf(o)[k] = a}
     IN IF at = {} THEN actorIndex[a]
        ELSE Append(actorIndex[a], [number |-> worldPushed,
                      entry |-> offset + (CHOOSE k \in at : TRUE)])]

\* Whether the last state is of this time (times are equal up to an epsilon).
HasStateFor(time) == worldLog # <<>> /\ worldLog[Len(worldLog)].time = time

\* UpdateWorldState when the last state has the time of the update.
UpdateState(t) ==
  LET n == Len(worldLog)
  IN /\ op[t].kind \in {"states", "event"}
     /\ HasStateFor(op[t].time)
     /\ worldLog' = [worldLog EXCEPT ![n].actors = @ \o ActorsOf(op[t]),
                                     ![n].events = @ \/ op[t].kind = "event"]
     /\ actorIndex' = IndexActors(op[t], Len(worldLog[n].actors))
     /\ op' = [op EXCEPT ![t] = Idle]
     /\ UNCHANGED <<worldOn, worldLimit, worldPushed, worldPopped, worldTimes>>
     /\ UNCHANGED <<clock, comm, diag>>

\* UpdateWorldState when it has to add a state.  CullInvalidIndices copies each
\* queue of the actor index before it drops anything: the index keeps all.
CreateState(t) ==
  LET n == Len(worldLog)
      full == worldLimit # 0 /\ n + 1 > worldLimit
      popped == worldPopped + (IF full THEN 1 ELSE 0)
      stored == Append(worldLog, [time |-> op[t].time, actors |-> ActorsOf(op[t]),
                                  events |-> op[t].kind = "event"])
      times == IF full THEN CullSimTimeIndices(worldTimes, popped) ELSE worldTimes
  IN /\ op[t].kind \in {"states", "event"}
     /\ ~HasStateFor(op[t].time)
     /\ worldLog' = IF full THEN Tail(stored) ELSE stored
     /\ worldPushed' = worldPushed + 1
     /\ worldPopped' = popped
     /\ actorIndex' = IndexActors(op[t], 0)
     /\ worldTimes' = Append(times, [time |-> op[t].time, number |-> worldPushed])
     /\ op' = [op EXCEPT ![t] = Idle]
     /\ UNCHANGED <<worldOn, worldLimit, clock, comm, diag>>

\* Positions of the states that a query without an actor returns.
RetrieveStates(start, end) ==
  LET range == GetIndicesForTime(start, end, worldTimes, worldPopped)
  IN IF range.first >= 0 /\ range.last >= 0 THEN Positions(range)
     ELSE 0 .. Len(worldLog) - 1

\* Reads of the log by a query for one actor, in the arithmetic of size_t.
RetrieveActor(a, start, end) ==
  LET range == GetIndicesForTime(start, end, worldTimes, worldPopped)
      Size(x) == x % SizeRange
      read == {k \in DOMAIN actorIndex[a] :
                 LET p == Size(actorIndex[a][k].number - worldPopped)
                 IN Size(range.first) <= p /\ p <= Size(range.last)}
  IN {[position |-> Size(actorIndex[a][k].number - worldPopped),
       entry |-> actorIndex[a][k].entry] : k \in read}

-----------------------------------------------------------------------------
(* Diagnostics log: no lock is taken. *)

\* The message is entered in the two indices by kind, and stamped.
BeginReport(d) ==
  /\ op[d] = Idle /\ MayAdd /\ MayUse("diag")
  /\ \E c \in Clients, ty \in Types :
       /\ diagByClient' = [diagByClient EXCEPT ![c] = Append(@, Len(diagLog))]
       /\ diagByType' = [diagByType EXCEPT ![ty] = Append(@, Len(diagLog))]
       /\ op' = [op EXCEPT ![d] = [kind |-> "report", client |-> c, type |-> ty,
                                   time |-> timeNow]]
  /\ UNCHANGED <<diagLog, diagTimes, clock, comm, world>>

\* Mutant: the number is taken as if the report were stored already.
IndexReport_Early(d) ==
  /\ op[d].kind = "report"
  /\ diagTimes' = Append(diagTimes, [time |-> op[d].time, number |-> Len(diagLog) + 1])
  /\ op' = [op EXCEPT ![d].kind = "stamped"]
  /\ UNCHANGED <<diagLog, diagByClient, diagByType, clock, comm, world>>
IndexReport(d) ==
  /\ op[d].kind = "report"
  /\ diagTimes' = Append(diagTimes, [time |-> op[d].time, number |-> Len(diagLog)])
  /\ op' = [op EXCEPT ![d].kind = "stamped"]
  /\ UNCHANGED <<diagLog, diagByClient, diagByType, clock, comm, world>>

StoreReport(d) ==
  /\ op[d].kind = "stamped"
  /\ diagLog' = Append(diagLog, [client |-> op[d].client, type |-> op[d].type,
                                 time |-> op[d].time])
  /\ op' = [op EXCEPT ![d] = Idle]
  /\ UNCHANGED <<diagByClient, diagByType, diagTimes, clock, comm, world>>

\* The filters narrow each other; a filter that is not given is the whole set.
RetrieveReports(clients, types, start, end) ==
  LET timed == Positions(GetIndicesForTime(start, end, diagTimes, 0))
      ofClients == UNION {{diagByClient[c][k] : k \in DOMAIN diagByClient[c]} : c \in clients}
      ofTypes == UNION {{diagByType[y][k] : k \in DOMAIN diagByType[y]} : y \in types}
  IN (IF start >= 0 \/ end >= 0 THEN timed ELSE 0 .. Len(diagLog) - 1)
     \cap (IF clients = Clients THEN 0 .. Len(diagLog) - 1 ELSE ofClients)
     \cap (IF types = Types THEN 0 .. Len(diagLog) - 1 ELSE ofTypes)

Next ==
  \/ StartRun \/ AdvanceTime \/ EndRun
  \/ EnableCommunicationLogging \/ EnableActorRuntimeLogging
  \/ \E t \in Threads : \/ BeginCall(t) \/ AddMessage(t) \/ BeginStates(t)
                        \/ BeginEvent(t) \/ UpdateState(t) \/ CreateState(t)
  \/ \E d \in Reporters : BeginReport(d) \/ IndexReport(d) \/ StoreReport(d)

Spec == Init /\ [][Next]_vars

-----------------------------------------------------------------------------
(* Properties *)

\* Types: counters match the logs, and indices hold numbers of messages.
TypeOK ==
  /\ running \in BOOLEAN /\ timeNow \in 0 .. MaxTime
  /\ op \in [Threads \cup Reporters -> {Idle} \cup Call \cup States \cup Event \cup Report]
  /\ commOn \in BOOLEAN /\ worldOn \in BOOLEAN
  /\ commLimit \in Limits \cup {0} /\ worldLimit \in Limits \cup {0}
  /\ commPushed \in Nat /\ commPopped \in Nat
  /\ worldPushed \in Nat /\ worldPopped \in Nat
  /\ commLog \in Seq([client : Clients, service : Services, time : 0 .. MaxTime])
  /\ worldLog \in Seq([time : 0 .. MaxTime, actors : Seq(Actors), events : BOOLEAN])
  /\ byClient \in [Clients -> Seq(Nat)] /\ byService \in [Services -> Seq(Nat)]
  /\ commTimes \in Seq([time : 0 .. MaxTime, number : Nat])
  /\ worldTimes \in Seq([time : 0 .. MaxTime, number : Nat])
  /\ actorIndex \in [Actors -> Seq([number : Nat, entry : Nat])]
  /\ diagLog \in Seq([client : Clients, type : Types, time : 0 .. MaxTime])
  /\ diagByClient \in [Clients -> Seq(Nat)] /\ diagByType \in [Types -> Seq(Nat)]
  /\ diagTimes \in Seq([time : 0 .. MaxTime, number : Nat])

\* An index lists, in order, the numbers of the given positions of a log.
Lists(index, positions, popped) ==
  /\ \A i, j \in DOMAIN index : i < j => index[i] < index[j]
  /\ {index[k] : k \in DOMAIN index} = {popped + k - 1 : k \in positions}

\* After messages were dropped from the front, each index still lists exactly the
\* messages of its client or service that are left, and the time index all of them
\* (CullInvalidIndices runs before the new message is indexed, on numbers that are
\* relative to counters that have just changed).
IndicesFollowLog ==
  /\ Len(commLog) = commPushed - commPopped
  /\ \A c \in Clients :
       Lists(byClient[c], {k \in DOMAIN commLog : commLog[k].client = c}, commPopped)
  /\ \A s \in Services :
       Lists(byService[s], {k \in DOMAIN commLog : commLog[k].service = s}, commPopped)
  /\ commTimes = [k \in DOMAIN commLog |->
       [time |-> commLog[k].time, number |-> commPopped + k - 1]]

InTime(entry, start, end) == start <= entry.time /\ entry.time <= end

\* A query by client or service and time returns the messages that it asks for:
\* those of the client or of the service that lie in the interval, provided that
\* the log is sorted by time and that there are messages of the client or service.
CallQueriesAreExact ==
  Sorted(commTimes) =>
    \A c \in Clients, s \in Services, start, end \in 0 .. MaxTime :
      LET wanted == {k \in DOMAIN commLog :
                       commLog[k].client = c \/ commLog[k].service = s}
      IN wanted # {} => RetrieveCalls({c}, {s}, start, end) =
           {k - 1 : k \in {j \in wanted : InTime(commLog[j], start, end)}}

\* A query of the world log by a time interval that meets the times of the log
\* returns the states of that interval, after states were dropped too, provided
\* that the log is sorted.
StateQueriesAreExact ==
  Sorted(worldTimes) =>
    \A start, end \in 0 .. MaxTime :
      /\ worldLog # <<>> /\ start <= end
      /\ start <= worldLog[Len(worldLog)].time /\ end >= worldLog[1].time
      => RetrieveStates(start, end) =
           {k - 1 : k \in {j \in DOMAIN worldLog : InTime(worldLog[j], start, end)}}

\* With one reporting thread, and between two reports, a query of the diagnostics
\* returns the messages that meet all of its filters, provided they are sorted.
ReportQueriesAreExact ==
  (Sorted(diagTimes) /\ \A d \in Reporters : op[d] = Idle) =>
    \A C \in SUBSET Clients, Y \in SUBSET Types, start, end \in 0 .. MaxTime :
      RetrieveReports(C, Y, start, end) =
        {k - 1 : k \in {j \in DOMAIN diagLog :
           /\ diagLog[j].client \in C /\ diagLog[j].type \in Y
           /\ InTime(diagLog[j], start, end)}}
=============================================================================
