--------------------------------- MODULE Session --------------------------------
(***************************************************************************)
(* A client and the service-discovery server, joined by gRPC: the stream of *)
(* an attempt to connect is served by one of the handlers that wait for a   *)
(* client, and that handler reads what the client's write side has          *)
(* delivered, in order.  The messages the client reads are any: nothing in  *)
(* the repository defines sendMessage, which an orchestrator would call.    *)
(***************************************************************************)
EXTENDS Client

CONSTANTS MaxIoThreads, MaxHandlers, NoIds, Garbage, None,
          Bin            \* the service and bin ids every client sends

ASSUME SessionAssumption == /\ MaxIoThreads \in Nat \ {0}
                            /\ MaxHandlers \in Nat
                            /\ Garbage \subseteq [stopped : BOOLEAN,
                                                   hasAuthenticated : BOOLEAN,
                                                   isReading : BOOLEAN]
                            /\ None \notin Nat

VARIABLES numIoThreads, completionQueue, at, connecting, created, made, queue, ops,
          stopped, hasAuthenticated, isReading, shardRangeInfo, handlers, connections, up,
          serving,       \* the handler of the client's stream
          consumed       \* how much of what was delivered it has read

Server == INSTANCE ServerHandler WITH Bins <- {Bin}

server == <<numIoThreads, completionQueue, at, connecting, created, made, queue, ops, stopped,
            hasAuthenticated, isReading, shardRangeInfo, handlers, connections, up>>
link == <<serving, consumed>>
sessionVars == <<clientVars, server, link>>

SessionInit == ClientInit /\ Server!Init /\ serving = None /\ consumed = 0

\* The message of the server's ClientMessage that a thread of the client has written.
ContentOf(msg) ==
    IF msg[1] = IoThread
    THEN [kind |-> "connection_request", bin |-> Bin]
    ELSE [kind |-> "shard_info_update", infos |-> {entry[1] : entry \in report[msg[1]]}]

--------------------------------------------------------------------------------

\* A failed attempt abandons its stream; the handler it may have is not told.
ClientReconnects == /\ ConnectFails
                    /\ serving' = None
                    /\ UNCHANGED <<server, consumed>>

ClientAlone == (ClientProgress \/ ClientReads) /\ UNCHANGED <<server, link>>

\* The client's stream gets a handler.
Accept(h) == /\ up
             /\ serving = None
             /\ connectPosted \/ calls[IoThread] > 0
             /\ Server!CompleteOp(h, "CONNECT")
             /\ serving' = h
             /\ UNCHANGED <<clientVars, consumed>>

\* Requests for clients fail once the server is shut down.
RequestFails(h) == /\ ~up
                   /\ Server!CompleteOp(h, "CONNECT")
                   /\ UNCHANGED <<clientVars, link>>

\* A read gets the next message of the client's stream, or fails.
ReadEnds(h) == /\ Server!CompleteOp(h, "READ")
               /\ ops'[h]["READ"] = "ok" => h = serving /\ consumed < Len(delivered)
               /\ UNCHANGED <<clientVars, link>>

FinishEnds(h) == Server!CompleteOp(h, "FINISH") /\ UNCHANGED <<clientVars, link>>

\* A thread of the server processes the message a read has got.
ServerReads(t) == /\ serving # None
                  /\ consumed < Len(delivered)
                  /\ Server!HandleRead(t, serving, ContentOf(delivered[consumed + 1]))
                  /\ consumed' = consumed + 1
                  /\ UNCHANGED <<clientVars, serving>>

ServerStep(t) == \/ ServerReads(t)
                 \/ Server!ThreadStepNoMessage(t) /\ UNCHANGED <<clientVars, link>>

ServerCloses == Server!ShutdownServer /\ UNCHANGED <<clientVars, link>>

SessionNext == \/ ClientReconnects
               \/ ClientAlone
               \/ \E h \in Server!Handlers : \/ Accept(h)
                                             \/ RequestFails(h)
                                             \/ ReadEnds(h)
                                             \/ FinishEnds(h)
               \/ \E t \in Server!Threads : ServerStep(t)
               \/ ServerCloses

\* The threads of both sides get on, gRPC completes every CONNECT and WRITE of the client,
\* a client that waits and a handler that waits meet, and a message that has been
\* delivered is read.  Every behaviour is finite, so one condition per side suffices.
SessionFairness ==
    /\ WF_sessionVars(ClientReconnects \/ (ClientProgress /\ UNCHANGED <<server, link>>))
    /\ WF_sessionVars(\/ \E t \in Server!Threads : ServerStep(t)
                      \/ \E h \in Server!Handlers :
                            Accept(h) \/ (h = serving /\ consumed < Len(delivered) /\ ReadEnds(h)))

SessionSpec == SessionInit /\ [][SessionNext]_sessionVars /\ SessionFairness

--------------------------------------------------------------------------------

(* The ids of an empty request, bin 0 of service 0, are never registered for a
   client the server has not registered under its own ids before: the first message
   of a stream is its connection request, through the client's threads and write
   queue, gRPC and the server's reads.  (They are registered later: hasAuthenticated
   is never set, so the update that follows is taken for another first message.) *)
RegisteredByOwnIds ==
    connections[NoIds] # None => connections[Bin] = connections[NoIds]

\* Nothing goes wrong, and the handler of the client was constructed in memory that
\* does not make it look authenticated.
Undisturbed == /\ up
               /\ ~failed
               /\ serving # None => /\ ~hasAuthenticated[serving]
                                    /\ ops[serving]["READ"] # "failed"

(* A client that keeps trying is registered in the end, with the one polling thread the
   server is started with and if isWriting_ happens to start as false. *)
ClientIsRegistered ==
    numIoThreads = 1 /\ ~isWriting /\ []Undisturbed => <>(connections[Bin] # None)

================================================================================
