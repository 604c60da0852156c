------------------------------ MODULE ServerHandler ------------------------------
(***************************************************************************)
(* The service-discovery server: the threads of AsyncServer, each polling a *)
(* completion queue of its own, the handlers of HandlerManager and the read *)
(* side of a RequestHandler, from the request for a client to Finish.       *)
(*                                                                          *)
(* A handler is a number in the order of construction.  Its operations are  *)
(* posted to gRPC under the handler's own tags, complete (external) and are *)
(* then processed by the thread that polls the handler's queue.  The server *)
(* never writes: nothing defines sendMessage.                               *)
(*                                                                          *)
(* status_, hasAuthenticated and isReading_ are not initialized: they have  *)
(* any of the values Garbage allows when the handler is constructed.        *)
(***************************************************************************)
EXTENDS Naturals, FiniteSets

CONSTANTS MaxIoThreads,   \* bound on numIoThreads_
          MaxHandlers,    \* bound on the handlers ever constructed
          Bins,           \* the service and bin ids clients register with
          NoIds,          \* the ids of an empty connection request (0 and 0)
          Ranges,         \* the key ranges clients report
          Garbage,        \* what a handler's uninitialized fields may hold
          None            \* no handler

ASSUME ServerAssumption == /\ MaxIoThreads \in Nat \ {0}
                           /\ MaxHandlers \in Nat
                           /\ Garbage \subseteq [stopped : BOOLEAN,
                                                  hasAuthenticated : BOOLEAN,
                                                  isReading : BOOLEAN]
                           /\ None \notin Nat

VARIABLES
    numIoThreads,      \* numIoThreads_
    completionQueue,   \* completionQueue_, by the thread that polls it
    at,                \* where each thread is
    connecting,        \* the handler whose handleConnect the thread runs
    created,           \* the handler addHandler has constructed, not yet in the map
    made,              \* handlers constructed
    queue,             \* the queue a handler's operations complete on
    ops,               \* the state of a handler's operations
    stopped,           \* status_ is STOPPED
    hasAuthenticated,
    isReading,         \* isReading_
    shardRangeInfo,    \* the keys of shardRangeInfo_
    handlers,          \* the keys of requestHandlerMap_
    connections,       \* serviceConnectionsMap_
    up                 \* the server has not been shut down

manager == <<completionQueue, handlers, connections>>
flags == <<stopped, hasAuthenticated, isReading, shardRangeInfo>>
vars == <<numIoThreads, at, connecting, created, made, queue, ops, up, manager, flags>>

Threads == 1 .. numIoThreads
Handlers == 1 .. MaxHandlers
Operation == {"CONNECT", "READ", "FINISH"}
Keys == Bins \cup {NoIds}

\* The oneof of ClientMessage.
ClientMessage == [kind : {"connection_request"}, bin : Bins]
                   \cup [kind : {"shard_info_update"}, infos : SUBSET Ranges]
                   \cup {[kind |-> "status"]}

Init == /\ numIoThreads \in 1 .. MaxIoThreads
        /\ completionQueue = None
        /\ at = [t \in 1 .. MaxIoThreads |-> IF t <= numIoThreads THEN "start" ELSE "none"]
        /\ connecting = [t \in 1 .. MaxIoThreads |-> None]
        /\ created = [t \in 1 .. MaxIoThreads |-> None]
        /\ made = 0
        /\ queue = [h \in Handlers |-> None]
        /\ ops = [h \in Handlers |-> [o \in Operation |-> "none"]]
        /\ stopped = [h \in Handlers |-> FALSE]
        /\ hasAuthenticated = [h \in Handlers |-> FALSE]
        /\ isReading = [h \in Handlers |-> FALSE]
        /\ shardRangeInfo = [h \in Handlers |-> {}]
        /\ handlers = {}
        /\ connections = [k \in Keys |-> None]
        /\ up = TRUE

--------------------------------------------------------------------------------
(* Starting, and adding handlers.                                           *)

\* registerService, up to addHandler.  Every thread overwrites the same field.
RegisterService(t) ==
    /\ at[t] = "start"
    /\ completionQueue' = t
    /\ at' = [at EXCEPT ![t] = "adding"]
    /\ UNCHANGED <<numIoThreads, connecting, created, made, queue, ops, up,
                   handlers, connections, flags>>

\* addHandler, first half: the constructor asks gRPC for a client, with the
\* queue that registered last.
ConstructHandler(t) ==
    LET h == made + 1
    IN  /\ at[t] = "adding"
        /\ h \in Handlers
        /\ made' = h
        /\ queue' = [queue EXCEPT ![h] = completionQueue]
        /\ ops' = [ops EXCEPT ![h]["CONNECT"] = "posted"]
        /\ \E g \in Garbage :
              /\ stopped' = [stopped EXCEPT ![h] = g.stopped]
              /\ hasAuthenticated' = [hasAuthenticated EXCEPT ![h] = g.hasAuthenticated]
              /\ isReading' = [isReading EXCEPT ![h] = g.isReading]
        /\ created' = [created EXCEPT ![t] = h]
        /\ at' = [at EXCEPT ![t] = "inserting"]
        /\ UNCHANGED <<numIoThreads, connecting, up, manager, shardRangeInfo>>

\* addHandler, second half, and the rest of handleConnect if that called it:
\* readFromStream, without the flag.
InsertHandler(t) ==
    /\ at[t] = "inserting"
    /\ handlers' = handlers \cup {created[t]}
    /\ ops' = IF connecting[t] = None
              THEN ops
              ELSE [ops EXCEPT ![connecting[t]]["READ"] = "posted"]
    /\ created' = [created EXCEPT ![t] = None]
    /\ connecting' = [connecting EXCEPT ![t] = None]
    /\ at' = [at EXCEPT ![t] = "polling"]
    /\ UNCHANGED <<numIoThreads, completionQueue, made, queue, up, connections, flags>>

--------------------------------------------------------------------------------
(* gRPC.                                                                    *)

\* Bound: a client arrives only if its successor's handler can be constructed.
RoomForClient ==
    made + Cardinality({t \in Threads : at[t] \in {"start", "adding"}})
         + Cardinality({h \in Handlers : ops[h]["CONNECT"] = "ok"}) < MaxHandlers

\* A client arrives only while the server is up, and a request for one fails
\* only after that.  A read gets a message or fails; what Finish reports does
\* not matter.
CompletesAs(o) ==
    {result \in {"ok", "failed"} :
        /\ o = "CONNECT" => IF up THEN result = "ok" /\ RoomForClient ELSE result = "failed"
        /\ o = "READ" /\ ~up => result = "failed"
        /\ o = "FINISH" => result = "ok"}

CompleteOp(h, o) ==
    /\ ops[h][o] = "posted"
    /\ \E result \in CompletesAs(o) : ops' = [ops EXCEPT ![h][o] = result]
    /\ UNCHANGED <<numIoThreads, at, connecting, created, made, queue, up, manager, flags>>

\* The first call of ~AsyncServer.
ShutdownServer ==
    /\ up
    /\ up' = FALSE
    /\ UNCHANGED <<numIoThreads, at, connecting, created, made, queue, ops, manager, flags>>

--------------------------------------------------------------------------------
(* Processing events.                                                       *)

\* completionQueue->Next has returned the tag of h's operation o.
Polls(t, h, o) == /\ at[t] = "polling"
                  /\ queue[h] = t
                  /\ ops[h][o] \in {"ok", "failed"}

\* HandlerManager::process finds no handler for the tag.
DropEvent(t, h, o) ==
    /\ Polls(t, h, o)
    /\ h \notin handlers
    /\ ops' = [ops EXCEPT ![h][o] = "none"]
    /\ UNCHANGED <<numIoThreads, at, connecting, created, made, queue, up, manager, flags>>

\* Plausible slip: Finish is also posted for clients that have not authenticated.
AfterStopAlways(h, w) ==
    IF ~stopped[h] THEN [w EXCEPT !["FINISH"] = "posted"] ELSE w

\* The operations of h once stop has returned, if they were w before.
AfterStop(h, w) ==
    IF ~stopped[h] /\ hasAuthenticated[h] THEN [w EXCEPT !["FINISH"] = "posted"] ELSE w

Stop(h) == stopped' = [stopped EXCEPT ![h] = TRUE]

\* Plausible slip: a handler that counts as stopped adds no successor.
HandleConnectUnlessStopped(t, h) ==
    /\ Polls(t, h, "CONNECT")
    /\ h \in handlers
    /\ IF ops[h]["CONNECT"] = "ok" /\ ~stopped[h]
       THEN /\ connecting' = [connecting EXCEPT ![t] = h]
            /\ at' = [at EXCEPT ![t] = "adding"]
       ELSE UNCHANGED <<connecting, at>>
    /\ ops' = [ops EXCEPT ![h]["CONNECT"] = "none"]
    /\ UNCHANGED <<numIoThreads, created, made, queue, up, manager, flags>>

\* handleConnect: a client makes the thread add the next handler first.
HandleConnect(t, h) ==
    /\ Polls(t, h, "CONNECT")
    /\ h \in handlers
    /\ \/ /\ ops[h]["CONNECT"] = "ok"
          /\ connecting' = [connecting EXCEPT ![t] = h]
          /\ at' = [at EXCEPT ![t] = "adding"]
          /\ ops' = [ops EXCEPT ![h]["CONNECT"] = "none"]
          /\ UNCHANGED stopped
       \/ /\ ops[h]["CONNECT"] = "failed"
          /\ Stop(h)
          /\ ops' = [ops EXCEPT ![h] = AfterStop(h, [ops[h] EXCEPT !["CONNECT"] = "none"])]
          /\ UNCHANGED <<connecting, at>>
    /\ UNCHANGED <<numIoThreads, created, made, queue, up, manager,
                   hasAuthenticated, isReading, shardRangeInfo>>

\* registerBin: emplace keeps the handler a bin already has.
RegisterBin(h, key) ==
    connections' = IF h \in handlers /\ connections[key] = None
                   THEN [connections EXCEPT ![key] = h]
                   ELSE connections

\* Plausible slip: the ids are those of a request that was not filled in.
BinOfDefault(m) == NoIds

\* The ids registerBin gets from message m.
BinOf(m) == IF m.kind = "connection_request" THEN m.bin ELSE NoIds

\* Plausible slip: a failed read is ignored.
FailedReadIgnored(t, h) ==
    /\ Polls(t, h, "READ")
    /\ h \in handlers
    /\ ops[h]["READ"] = "failed"
    /\ ops' = [ops EXCEPT ![h]["READ"] = "none"]
    /\ UNCHANGED <<numIoThreads, at, connecting, created, made, queue, up, manager, flags>>

\* handleRead, !ok
FailedRead(t, h) ==
    /\ Polls(t, h, "READ")
    /\ h \in handlers
    /\ ops[h]["READ"] = "failed"
    /\ Stop(h)
    /\ ops' = [ops EXCEPT ![h] = AfterStop(h, [ops[h] EXCEPT !["READ"] = "none"])]
    /\ UNCHANGED <<numIoThreads, at, connecting, created, made, queue, up, manager,
                   hasAuthenticated, isReading, shardRangeInfo>>

\* attemptRead: the state of h's READ after it, if none was outstanding.  The flag
\* it sets (see HandleRead) is never reset.
AttemptRead(h) == IF isReading[h] THEN "none" ELSE "posted"

\* handleRead of message m and the attemptRead that follows it.  A first message
\* that is no connection request stops the handler and is processed further.
HandleRead(t, h, m) ==
    LET stops == ~hasAuthenticated[h] /\ m.kind # "connection_request"
        read == [ops[h] EXCEPT !["READ"] = AttemptRead(h)]
    IN  /\ Polls(t, h, "READ")
        /\ h \in handlers
        /\ ops[h]["READ"] = "ok"
        /\ IF stops THEN Stop(h) ELSE UNCHANGED stopped
        /\ IF hasAuthenticated[h] THEN UNCHANGED connections ELSE RegisterBin(h, BinOf(m))
        /\ shardRangeInfo' = IF m.kind = "shard_info_update"
                             THEN [shardRangeInfo EXCEPT ![h] = @ \cup m.infos]
                             ELSE shardRangeInfo
        /\ ops' = [ops EXCEPT ![h] = IF stops THEN AfterStop(h, read) ELSE read]
        /\ isReading' = [isReading EXCEPT ![h] = TRUE]
        /\ UNCHANGED <<numIoThreads, at, connecting, created, made, queue, up,
                       completionQueue, handlers, hasAuthenticated>>

\* Plausible slip: a removed handler is replaced by a new one.
HandleFinishReplaces(t, h) ==
    /\ Polls(t, h, "FINISH")
    /\ h \in handlers
    /\ handlers' = handlers \ {h}
    /\ ops' = [ops EXCEPT ![h]["FINISH"] = "none"]
    /\ at' = [at EXCEPT ![t] = "adding"]
    /\ UNCHANGED <<numIoThreads, connecting, created, made, queue, up,
                   completionQueue, connections, flags>>

\* handleFinish and removeRequestHandler.
HandleFinish(t, h) ==
    /\ Polls(t, h, "FINISH")
    /\ h \in handlers
    /\ handlers' = handlers \ {h}
    /\ ops' = [ops EXCEPT ![h]["FINISH"] = "none"]
    /\ UNCHANGED <<numIoThreads, at, connecting, created, made, queue, up,
                   completionQueue, connections, flags>>

\* A step of thread t other than the processing of a message.
ThreadStepNoMessage(t) ==
    \/ RegisterService(t)
    \/ ConstructHandler(t)
    \/ InsertHandler(t)
    \/ \E h \in Handlers : \/ \E o \in Operation : DropEvent(t, h, o)
                           \/ HandleConnect(t, h)
                           \/ FailedRead(t, h)
                           \/ HandleFinish(t, h)

ThreadStep(t) == \/ ThreadStepNoMessage(t)
                 \/ \E h \in Handlers, m \in ClientMessage : HandleRead(t, h, m)

Next == \/ \E t \in Threads : ThreadStep(t)
        \/ \E h \in Handlers, o \in Operation : CompleteOp(h, o)
        \/ ShutdownServer

\* The threads keep polling, and gRPC completes every Finish.  A client need
\* not come, and a client that has come need not send anything.
Fairness == /\ \A t \in 1 .. MaxIoThreads : WF_vars(t \in Threads /\ ThreadStep(t))
            /\ \A h \in Handlers : WF_vars(CompleteOp(h, "FINISH"))

Spec == Init /\ [][Next]_vars /\ Fairness

--------------------------------------------------------------------------------

(* The server's fields and the state of the operations have their types. *)
ServerTypeOK ==
    /\ numIoThreads \in 1 .. MaxIoThreads
    /\ completionQueue \in Threads \cup {None}
    /\ at \in [1 .. MaxIoThreads -> {"none", "start", "adding", "inserting", "polling"}]
    /\ connecting \in [1 .. MaxIoThreads -> Handlers \cup {None}]
    /\ created \in [1 .. MaxIoThreads -> Handlers \cup {None}]
    /\ made \in 0 .. MaxHandlers
    /\ queue \in [Handlers -> Threads \cup {None}]
    /\ ops \in [Handlers -> [Operation -> {"none", "posted", "ok", "failed"}]]
    /\ stopped \in [Handlers -> BOOLEAN]
    /\ hasAuthenticated \in [Handlers -> BOOLEAN]
    /\ isReading \in [Handlers -> BOOLEAN]
    /\ shardRangeInfo \in [Handlers -> SUBSET Ranges]
    /\ handlers \subseteq Handlers
    /\ connections \in [Keys -> Handlers \cup {None}]
    /\ up \in BOOLEAN

Outstanding(h, o) == ops[h][o] # "none"

(* process reads the handler out of the tag before it looks the handler up, and
   the tags live in the handler: a handler with an operation outstanding is
   in requestHandlerMap_, or, for its CONNECT alone, still held by addHandler.
   So no tag dangles, and the only event process can drop is a CONNECT. *)
EventsFindHandler ==
    \A h \in Handlers :
       /\ Outstanding(h, "READ") \/ Outstanding(h, "FINISH") => h \in handlers
       /\ Outstanding(h, "CONNECT") => h \in handlers \/ \E t \in Threads : created[t] = h

\* Handlers that wait for a client, or whose client has come and who will make a
\* thread add the next one, and threads that are about to add one.
Waiting == {h \in Handlers : ops[h]["CONNECT"] \in {"posted", "ok"}}
Adding == {t \in Threads : at[t] \in {"start", "adding"}}

(* handleConnect adds the next handler before it serves the client.  With
   several threads a request for a client can be lost: a thread may construct
   a handler on another's queue, whose thread may process the CONNECT before
   the handler is in the map.  Still, as long as the server is up, a handler
   waits for the next client: the thread that registered last adds its handlers
   to its own queue. *)
AcceptsNextClient == up => Waiting # {} \/ Adding # {}

(* However clients come and go, at most one handler per thread waits for a
   client: the manager does not accumulate idle handlers. *)
WaitersBounded == Cardinality(Waiting) + Cardinality(Adding) <= numIoThreads

ReadFails(h) == h \in handlers /\ ~stopped[h] /\ ops[h]["READ"] = "failed"

(* A handler that is marked as authenticated is finished and removed when its
   client goes away. *)
AuthenticatedIsClosed ==
    \A h \in Handlers : ReadFails(h) /\ hasAuthenticated[h] ~> h \notin handlers

(* What handleRead's comment says of a failed read: "Should close handler
   after". *)
FailedReadCloses == \A h \in Handlers : ReadFails(h) ~> h \notin handlers

================================================================================
