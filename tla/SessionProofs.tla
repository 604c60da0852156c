------------------------------ MODULE SessionProofs -----------------------------
(***************************************************************************)
(* A client is registered under its own ids first, for any number of        *)
(* threads, handlers, messages and attempts, and whatever the handlers'     *)
(* uninitialized fields hold.                                               *)
(*                                                                          *)
(* RegisteredByOwnIds needs three arguments together: the client's queue    *)
(* delivers the connection request first (ClientProofs); an attempt that    *)
(* fails has delivered nothing, so that the handler of a stream never       *)
(* changes once it has read (StreamOK); and the handler a client is served  *)
(* by is not constructed anew (ServerOK).                                   *)
(***************************************************************************)
EXTENDS Session, ClientProofs

States == {"none", "posted", "ok", "failed"}

\* What the argument needs of the server: an operation is one of a handler that has been
\* constructed.
ServerOK ==
    /\ numIoThreads \in 1 .. MaxIoThreads
    /\ made \in Nat
    /\ ops \in [Server!Handlers -> [Server!Operation -> States]]
    /\ connecting \in [1 .. MaxIoThreads -> Server!Handlers \cup {None}]
    /\ hasAuthenticated \in [Server!Handlers -> BOOLEAN]
    /\ \A h \in Server!Handlers : h > made => \A o \in Server!Operation : ops[h][o] = "none"
    /\ \A t \in 1 .. MaxIoThreads : connecting[t] # None => connecting[t] <= made

\* The stream: nothing is delivered by an attempt to connect that may still fail.
StreamOK ==
    /\ clientAt = "connecting" \/ connectPosted => calls[IoThread] = 0
    /\ consumed \in Nat /\ consumed <= Len(delivered)
    /\ serving # None => serving \in Server!Handlers /\ serving <= made

\* Nothing is registered before the handler of the stream has read, and then the client
\* is, unless its handler takes it for one that has been before.
RegistrationOK ==
    /\ connections \in [Server!Keys -> Server!Handlers \cup {None}]
    /\ consumed = 0 => \A k \in Server!Keys : connections[k] = None
    /\ consumed > 0 => /\ serving # None
                       /\ ~hasAuthenticated[serving] => connections[Bin] = serving
    /\ RegisteredByOwnIds

\* The inductive invariant.
SessionInv == ClientInv /\ ServerOK /\ StreamOK /\ RegistrationOK

--------------------------------------------------------------------------------

LEMMA HandlerFacts ==
  /\ Server!Handlers = 1 .. MaxHandlers /\ MaxHandlers \in Nat
  /\ Bin \in Server!Keys /\ NoIds \in Server!Keys
  /\ None \notin Server!Handlers
  BY SessionAssumption DEF Server!Handlers, Server!Keys

(* What the client does is a step of ClientNext. *)
LEMMA ClientSide ==
  ASSUME ClientInv, ClientNext \/ UNCHANGED clientVars
  PROVE  ClientInv'
  BY ClientInvStep

(* Until the connection request is queued nothing is delivered. *)
LEMMA NothingDelivered ==
  ASSUME ClientInv, calls[IoThread] = 0
  PROVE  delivered = <<>> /\ Len(delivered) = 0
  <1>1. delivered \in Seq(Messages) /\ Pending \in Seq(Messages)
    BY PendingIsSeq DEF ClientInv
  <1>2. delivered \o Pending = <<>>
    BY DEF ClientInv, AuthBeforeAll, Accepted
  <1>3. Len(delivered) \in Nat /\ Len(Pending) \in Nat /\ Len(delivered \o Pending) = Len(delivered) + Len(Pending)
    BY <1>1, LenProperties, ConcatProperties
  <1>4. Len(delivered) = 0
    BY <1>2, <1>3
  <1> QED BY <1>1, <1>4, EmptySeq

(* Steps of the client deliver at most more, and leave an attempt that may fail with
   nothing queued. *)
LEMMA ClientStreamKeeps ==
  ASSUME ClientInv, StreamOK, ClientNext, UNCHANGED <<server, consumed>>, serving' \in {serving, None}
  PROVE  StreamOK'
  <1>1. delivered \in Seq(Messages) /\ Len(delivered) \in Nat
    BY PendingIsSeq, LenProperties DEF ClientInv
  <1>2. \/ delivered' = delivered
        \/ delivered' = Append(delivered, Head(inFlight)) /\ inFlight # <<>>
    BY DEF ClientNext, ClientProgress, ClientReads, Connect, Connected, ConnectFails, HandleRead,
           FailedRead, WriteEvent, WorkerStep, LogResponse, UpdateRanges, ForwardRanges,
           SendShardInfoUpdate, WriteStep, AddToWriteQueue, WriteAttempts, CompleteWrite, FailWrite,
           FinishWrite, NextWrite, stream, vars
  <1>3. Len(delivered') >= Len(delivered) /\ Len(delivered') \in Nat
    <2>1. CASE delivered' = delivered
      BY <1>1, <2>1
    <2>2. CASE delivered' = Append(delivered, Head(inFlight)) /\ inFlight # <<>>
      <3>1. Head(inFlight) \in Messages
        BY <2>2, InFlightIsSingle DEF ClientInv
      <3> QED BY <1>1, <2>2, <3>1, AppendProperties
    <2> QED BY <1>2, <2>1, <2>2
  <1>4. (clientAt = "connecting" \/ connectPosted => calls[IoThread] = 0)'
    <2>1. CASE Connected
      BY <2>1 DEF Connected, Polling
    <2>2. CASE \E n \in Workers : SendShardInfoUpdate(n)
      <3>1. PICK n \in Workers : SendShardInfoUpdate(n)
        BY <2>2
      <3>2. calls' = [calls EXCEPT ![n] = calls[n] + 1] /\ UNCHANGED <<clientAt, connectPosted>>
        BY <3>1 DEF SendShardInfoUpdate, AddToWriteQueue, connection
      <3>3. calls'[IoThread] = calls[IoThread]
        BY <3>2, WriterFacts DEF ClientInv, WriterInv, TypeOK
      <3> QED BY <3>2, <3>3 DEF StreamOK
    <2>3. CASE Connect \/ ConnectFails
      <3>1. UNCHANGED calls /\ (clientAt = "connecting" \/ connectPosted)
        BY <2>3 DEF Connect, ConnectFails, stream, vars
      <3> QED BY <3>1 DEF StreamOK
    <2>4. CASE ClientReads \/ WriteEvent \/ (\E t \in Writers : WriteStep(t))
               \/ \E n \in Workers : LogResponse(n) \/ (\E success \in BOOLEAN :
                     UpdateRanges(n, success) \/ ForwardRanges(n, success))
      <3>1. UNCHANGED <<calls, clientAt, connectPosted>>
        BY <2>4 DEF ClientReads, HandleRead, FailedRead, WriteEvent, WriteStep, LogResponse,
                    UpdateRanges, ForwardRanges, CompleteWrite, FailWrite, FinishWrite, NextWrite,
                    WriteAttempts, stream, vars, connection
      <3> QED BY <3>1 DEF StreamOK
    <2> QED BY <2>1, <2>2, <2>3, <2>4 DEF ClientNext, ClientProgress, WorkerStep
  <1>5. consumed' \in Nat /\ consumed' <= Len(delivered')
    BY <1>1, <1>3 DEF StreamOK
  <1>6. serving' # None => serving' \in Server!Handlers /\ serving' <= made'
    BY DEF StreamOK, server
  <1>7. UNCHANGED Server!Handlers
    BY DEF Server!Handlers
  <1> QED BY <1>4, <1>5, <1>6, <1>7 DEF StreamOK

(* The client does not touch the server. *)
LEMMA ServerUntouched ==
  ASSUME ServerOK, UNCHANGED server
  PROVE  ServerOK'
  BY DEF ServerOK, server, Server!Handlers, Server!Operation

--------------------------------------------------------------------------------
(* The server's steps.                                                      *)

(* A change of one operation of a constructed handler. *)
LEMMA OpsKeep ==
  ASSUME ServerOK, NEW h \in Server!Handlers, h <= made, NEW w \in [Server!Operation -> States],
         ops' = [ops EXCEPT ![h] = w], UNCHANGED <<numIoThreads, made, hasAuthenticated>>,
         connecting' \in [1 .. MaxIoThreads -> Server!Handlers \cup {None}],
         \A t \in 1 .. MaxIoThreads : connecting'[t] # None => connecting'[t] <= made
  PROVE  ServerOK'
  <1>1. ops' \in [Server!Handlers -> [Server!Operation -> States]]
    BY DEF ServerOK
  <1>2. ASSUME NEW k \in Server!Handlers, k > made, NEW o \in Server!Operation
        PROVE  ops'[k][o] = "none"
    <2>1. k # h
      BY <1>2, HandlerFacts DEF ServerOK
    <2> QED BY <1>2, <2>1 DEF ServerOK
  <1> QED BY <1>1, <1>2 DEF ServerOK, Server!Handlers, Server!Operation

(* A handler with an operation outstanding has been constructed. *)
LEMMA OutstandingIsMade ==
  ASSUME ServerOK, NEW h \in Server!Handlers, NEW o \in Server!Operation, ops[h][o] # "none"
  PROVE  h <= made
  BY HandlerFacts DEF ServerOK

(* The steps that change operations only. *)
LEMMA StopStates ==
  ASSUME NEW h \in Server!Handlers, NEW w \in [Server!Operation -> States]
  PROVE  Server!AfterStop(h, w) \in [Server!Operation -> States]
  BY DEF Server!AfterStop, Server!Operation, States

LEMMA CompleteKeeps ==
  ASSUME ServerOK, NEW h \in Server!Handlers, NEW o \in Server!Operation, Server!CompleteOp(h, o)
  PROVE  /\ ServerOK' /\ h <= made
         /\ UNCHANGED <<made, hasAuthenticated, connections>>
  <1>1. PICK r \in {"ok", "failed"} : ops' = [ops EXCEPT ![h][o] = r]
    BY DEF Server!CompleteOp, Server!CompletesAs
  <1>2. /\ UNCHANGED <<numIoThreads, made, connecting, hasAuthenticated, connections>>
        /\ ops[h][o] = "posted"
    BY DEF Server!CompleteOp, Server!manager, Server!flags
  <1>3. h <= made
    BY <1>2, OutstandingIsMade
  <1>4. ops' = [ops EXCEPT ![h] = [ops[h] EXCEPT ![o] = r]]
    BY <1>1
  <1>5. [ops[h] EXCEPT ![o] = r] \in [Server!Operation -> States]
    BY DEF ServerOK, States
  <1>6. ServerOK'
    BY <1>2, <1>3, <1>4, <1>5, OpsKeep DEF ServerOK
  <1> QED BY <1>2, <1>3, <1>6

LEMMA ThreadKeeps ==
  ASSUME ServerOK, NEW t \in Server!Threads, Server!ThreadStepNoMessage(t)
  PROVE  /\ ServerOK'
         /\ made' >= made
         /\ \A h \in Server!Handlers : h <= made => hasAuthenticated'[h] = hasAuthenticated[h]
         /\ UNCHANGED connections
  <1> USE DEF Server!flags, Server!manager
  <1>0. t \in 1 .. MaxIoThreads /\ made \in Nat
    BY SessionAssumption DEF ServerOK, Server!Threads
  <1> DEFINE Goal == /\ ServerOK'
                     /\ made' >= made
                     /\ \A h \in Server!Handlers : h <= made => hasAuthenticated'[h] = hasAuthenticated[h]
                     /\ UNCHANGED connections
  <1>1. CASE Server!RegisterService(t)
    <2>1. UNCHANGED <<numIoThreads, made, connecting, ops, hasAuthenticated, connections>>
      BY <1>1 DEF Server!RegisterService
    <2>2. ServerOK'
      BY <2>1 DEF ServerOK, Server!Handlers, Server!Operation
    <2> QED BY <1>0, <2>1, <2>2
  <1>2. CASE Server!ConstructHandler(t)
    <2>1. PICK h \in Server!Handlers, g \in Garbage :
             /\ h = made + 1 /\ made' = h
             /\ ops' = [ops EXCEPT ![h]["CONNECT"] = "posted"]
             /\ hasAuthenticated' = [hasAuthenticated EXCEPT ![h] = g.hasAuthenticated]
      BY <1>2 DEF Server!ConstructHandler
    <2>2. UNCHANGED <<numIoThreads, connecting, connections>>
      BY <1>2 DEF Server!ConstructHandler
    <2>3. hasAuthenticated' \in [Server!Handlers -> BOOLEAN]
      BY <2>1, SessionAssumption DEF ServerOK
    <2>4. ops' \in [Server!Handlers -> [Server!Operation -> States]]
      BY <2>1 DEF ServerOK, States, Server!Operation
    <2>5. ASSUME NEW k \in Server!Handlers, k > made', NEW o \in Server!Operation
          PROVE  ops'[k][o] = "none"
      <3>1. k # h /\ k > made
        BY <1>0, <2>1, <2>5, HandlerFacts
      <3> QED BY <2>1, <3>1 DEF ServerOK
    <2>6. ASSUME NEW u \in 1 .. MaxIoThreads, connecting'[u] # None PROVE connecting'[u] <= made'
      <3>1. connecting[u] <= made /\ connecting[u] \in Server!Handlers
        BY <2>2, <2>6 DEF ServerOK
      <3> QED BY <1>0, <2>1, <2>2, <3>1, HandlerFacts
    <2>7. made' \in Nat /\ made' >= made
      BY <1>0, <2>1
    <2>8. ServerOK'
      BY <2>2, <2>3, <2>4, <2>5, <2>6, <2>7 DEF ServerOK, Server!Handlers, Server!Operation
    <2>9. ASSUME NEW k \in Server!Handlers, k <= made
          PROVE  hasAuthenticated'[k] = hasAuthenticated[k]
      <3>1. k # h
        BY <1>0, <2>1, <2>9, HandlerFacts
      <3> QED BY <2>1, <3>1 DEF ServerOK
    <2> QED BY <2>2, <2>7, <2>8, <2>9
  <1>3. CASE Server!InsertHandler(t)
    <2>1. /\ UNCHANGED <<numIoThreads, made, hasAuthenticated, connections>>
          /\ connecting' = [connecting EXCEPT ![t] = None]
          /\ ops' = IF connecting[t] = None THEN ops
                    ELSE [ops EXCEPT ![connecting[t]]["READ"] = "posted"]
      BY <1>3 DEF Server!InsertHandler
    <2>2. /\ connecting' \in [1 .. MaxIoThreads -> Server!Handlers \cup {None}]
          /\ \A u \in 1 .. MaxIoThreads : connecting'[u] # None => connecting'[u] <= made
      BY <1>0, <2>1 DEF ServerOK
    <2>3. ServerOK'
      <3>1. CASE connecting[t] = None
        BY <2>1, <2>2, <3>1 DEF ServerOK, Server!Handlers, Server!Operation
      <3>2. CASE connecting[t] # None
        <4>1. PICK h \in Server!Handlers : h = connecting[t] /\ h <= made
          BY <1>0, <3>2 DEF ServerOK
        <4>2. ops' = [ops EXCEPT ![h] = [ops[h] EXCEPT !["READ"] = "posted"]]
          BY <2>1, <3>2, <4>1
        <4>3. [ops[h] EXCEPT !["READ"] = "posted"] \in [Server!Operation -> States]
          BY DEF ServerOK, States, Server!Operation
        <4> QED BY <2>1, <2>2, <4>1, <4>2, <4>3, OpsKeep
      <3> QED BY <3>1, <3>2
    <2> QED BY <1>0, <2>1, <2>3
  <1>4. ASSUME NEW h \in Server!Handlers, NEW o \in Server!Operation, Server!DropEvent(t, h, o)
        PROVE  Goal
    <2>1. /\ UNCHANGED <<numIoThreads, made, connecting, hasAuthenticated, connections>>
          /\ ops' = [ops EXCEPT ![h] = [ops[h] EXCEPT ![o] = "none"]]
          /\ ops[h][o] # "none"
      BY <1>4 DEF Server!DropEvent, Server!Polls
    <2>2. [ops[h] EXCEPT ![o] = "none"] \in [Server!Operation -> States] /\ h <= made
      BY <2>1, OutstandingIsMade DEF ServerOK, States
    <2>3. ServerOK'
      BY <2>1, <2>2, OpsKeep DEF ServerOK
    <2> QED BY <1>0, <2>1, <2>3
  <1>5. ASSUME NEW h \in Server!Handlers, Server!HandleConnect(t, h)
        PROVE  Goal
    <2> DEFINE w == [ops[h] EXCEPT !["CONNECT"] = "none"]
    <2>1. /\ UNCHANGED <<numIoThreads, made, hasAuthenticated, connections>>
          /\ \/ ops' = [ops EXCEPT ![h] = w] /\ connecting' = [connecting EXCEPT ![t] = h]
             \/ ops' = [ops EXCEPT ![h] = Server!AfterStop(h, w)] /\ connecting' = connecting
          /\ ops[h]["CONNECT"] # "none"
      BY <1>5 DEF Server!HandleConnect, Server!Polls
    <2>2. w \in [Server!Operation -> States]
      BY DEF ServerOK, States
    <2>3. h <= made
      BY <2>1, OutstandingIsMade DEF Server!Operation
    <2>4. Server!AfterStop(h, w) \in [Server!Operation -> States]
      BY <2>2, StopStates
    <2>5. /\ connecting' \in [1 .. MaxIoThreads -> Server!Handlers \cup {None}]
          /\ \A u \in 1 .. MaxIoThreads : connecting'[u] # None => connecting'[u] <= made
      BY <1>0, <2>1, <2>3 DEF ServerOK
    <2> HIDE DEF w
    <2>6. ServerOK'
      BY <2>1, <2>2, <2>3, <2>4, <2>5, OpsKeep
    <2> QED BY <1>0, <2>1, <2>6
  <1>6. ASSUME NEW h \in Server!Handlers, Server!FailedRead(t, h)
        PROVE  Goal
    <2> DEFINE w == [ops[h] EXCEPT !["READ"] = "none"]
    <2>1. /\ UNCHANGED <<numIoThreads, made, connecting, hasAuthenticated, connections>>
          /\ ops' = [ops EXCEPT ![h] = Server!AfterStop(h, w)]
          /\ ops[h]["READ"] # "none"
      BY <1>6 DEF Server!FailedRead, Server!Polls
    <2>2. w \in [Server!Operation -> States]
      BY DEF ServerOK, States
    <2>3. h <= made
      BY <2>1, OutstandingIsMade DEF Server!Operation
    <2>4. Server!AfterStop(h, w) \in [Server!Operation -> States]
      BY <2>2, StopStates
    <2> HIDE DEF w
    <2>5. ServerOK'
      BY <2>1, <2>3, <2>4, OpsKeep DEF ServerOK
    <2> QED BY <1>0, <2>1, <2>5
  <1>7. ASSUME NEW h \in Server!Handlers, Server!HandleFinish(t, h)
        PROVE  Goal
    <2>1. /\ UNCHANGED <<numIoThreads, made, connecting, hasAuthenticated, connections>>
          /\ ops' = [ops EXCEPT ![h] = [ops[h] EXCEPT !["FINISH"] = "none"]]
          /\ ops[h]["FINISH"] # "none"
      BY <1>7 DEF Server!HandleFinish, Server!Polls
    <2>2. [ops[h] EXCEPT !["FINISH"] = "none"] \in [Server!Operation -> States] /\ h <= made
      BY <2>1, OutstandingIsMade DEF ServerOK, States, Server!Operation
    <2>3. ServerOK'
      BY <2>1, <2>2, OpsKeep DEF ServerOK
    <2> QED BY <1>0, <2>1, <2>3
  <1> QED BY <1>1, <1>2, <1>3, <1>4, <1>5, <1>6, <1>7 DEF Server!ThreadStepNoMessage

(* The handler of the stream reads: the first message registers the client. *)
LEMMA ReadKeeps ==
  ASSUME SessionInv, NEW t \in Server!Threads, ServerReads(t)
  PROVE  SessionInv'
  <1> DEFINE h == serving
             msg == delivered[consumed + 1]
             m == ContentOf(msg)
  <1>1. /\ h \in Server!Handlers /\ h <= made /\ h # None
        /\ Server!HandleRead(t, h, m) /\ consumed' = consumed + 1
        /\ UNCHANGED <<clientVars, serving>>
        /\ consumed \in Nat /\ consumed < Len(delivered) /\ made \in Nat
    BY DEF ServerReads, SessionInv, StreamOK, ServerOK
  <1>2. /\ UNCHANGED <<numIoThreads, made, connecting, hasAuthenticated>>
        /\ h \in handlers
        /\ IF hasAuthenticated[h] THEN UNCHANGED connections
           ELSE Server!RegisterBin(h, Server!BinOf(m))
    BY <1>1 DEF Server!HandleRead
  <1>3. ServerOK'
    <2> DEFINE w == [ops[h] EXCEPT !["READ"] = Server!AttemptRead(h)]
    <2>1. w \in [Server!Operation -> States]
      BY <1>1 DEF SessionInv, ServerOK, States, Server!AttemptRead
    <2>2. Server!AfterStop(h, w) \in [Server!Operation -> States]
      BY <1>1, <2>1, StopStates
    <2>3. ops' = [ops EXCEPT ![h] = w] \/ ops' = [ops EXCEPT ![h] = Server!AfterStop(h, w)]
      BY <1>1 DEF Server!HandleRead
    <2> HIDE DEF w
    <2> QED BY <1>1, <1>2, <2>1, <2>2, <2>3, OpsKeep DEF SessionInv, ServerOK
  <1>4. UNCHANGED <<stream, clientAt, connectPosted, calls, delivered>>
    BY <1>1 DEF clientVars, stream, vars, connection
  <1>5. StreamOK'
    <2>1. UNCHANGED Server!Handlers
      BY DEF Server!Handlers
    <2>2. Len(delivered) \in Nat
      BY PendingIsSeq, LenProperties DEF SessionInv, ClientInv
    <2>3. consumed' \in Nat /\ consumed' <= Len(delivered')
      BY <1>1, <1>4, <2>2
    <2> QED BY <1>1, <1>2, <1>4, <2>1, <2>3 DEF SessionInv, StreamOK
  <1>6. ClientInv'
    BY <1>1, ClientSide DEF SessionInv
  <1>7. Server!BinOf(m) = Bin \/ (Server!BinOf(m) = NoIds /\ consumed > 0)
    <2>1. CASE msg[1] = IoThread
      BY <2>1 DEF ContentOf, Server!BinOf
    <2>2. CASE msg[1] # IoThread
      <3>1. consumed # 0
        <4>1. SUFFICES ASSUME consumed = 0 PROVE FALSE
          OBVIOUS
        <4>2. delivered # <<>>
          BY <1>1, <4>1
        <4>3. delivered[1] = <<IoThread, 1>>
          BY <4>2, InvGivesAuth DEF SessionInv, AuthIsFirst
        <4> QED BY <2>2, <4>1, <4>3
      <3>2. Server!BinOf(m) = NoIds
        BY <2>2 DEF ContentOf, Server!BinOf
      <3> QED BY <1>1, <3>1, <3>2
    <2> QED BY <2>1, <2>2
  <1> HIDE DEF m
  <1>8. RegistrationOK'
    <2>1. UNCHANGED <<Server!Keys, Server!Handlers>>
      BY DEF Server!Keys, Server!Handlers
    <2>2. /\ connections \in [Server!Keys -> Server!Handlers \cup {None}]
          /\ consumed = 0 => \A k \in Server!Keys : connections[k] = None
          /\ consumed > 0 => (~hasAuthenticated[h] => connections[Bin] = h)
          /\ connections[NoIds] # None => connections[Bin] = connections[NoIds]
      BY DEF SessionInv, RegistrationOK, RegisteredByOwnIds
    <2>3. consumed' > 0 /\ consumed' # 0
      BY <1>1
    <2>4. CASE hasAuthenticated[h]
      <3>1. UNCHANGED connections
        BY <1>2, <2>4
      <3> QED BY <1>1, <1>2, <2>1, <2>2, <2>3, <2>4, <3>1 DEF RegistrationOK, RegisteredByOwnIds
    <2>5. CASE ~hasAuthenticated[h]
      <3>1. connections' = IF connections[Server!BinOf(m)] = None
                           THEN [connections EXCEPT ![Server!BinOf(m)] = h] ELSE connections
        BY <1>2, <2>5 DEF Server!RegisterBin
      <3>2. connections' \in [Server!Keys -> Server!Handlers \cup {None}]
        BY <1>1, <1>7, <2>2, <3>1, HandlerFacts
      <3>3. connections'[Bin] = h /\ (connections'[NoIds] # None => connections'[NoIds] = h)
        <4>1. CASE consumed = 0
          <5>1. Server!BinOf(m) = Bin /\ connections[Bin] = None /\ connections[NoIds] = None
            BY <1>7, <2>2, <4>1, HandlerFacts
          <5> QED BY <2>2, <3>1, <5>1, HandlerFacts
        <4>2. CASE consumed > 0
          <5>1. connections[Bin] = h
            BY <2>2, <2>5, <4>2
          <5> QED BY <1>1, <1>7, <2>2, <3>1, <5>1, HandlerFacts
        <4> QED BY <1>1, <4>1, <4>2
      <3> QED BY <1>1, <1>2, <2>1, <2>3, <3>2, <3>3 DEF RegistrationOK, RegisteredByOwnIds
    <2> QED BY <2>4, <2>5
  <1> QED BY <1>3, <1>5, <1>6, <1>8 DEF SessionInv

(* The other steps register nothing. *)
LEMMA RegistrationKeeps ==
  ASSUME SessionInv, UNCHANGED <<connections, consumed>>,
         consumed > 0 => serving' = serving,
         \A h \in Server!Handlers : h <= made => hasAuthenticated'[h] = hasAuthenticated[h]
  PROVE  RegistrationOK'
  <1>1. UNCHANGED <<Server!Keys, Server!Handlers>>
    BY DEF Server!Keys, Server!Handlers
  <1>2. consumed > 0 => hasAuthenticated'[serving] = hasAuthenticated[serving]
    BY DEF SessionInv, RegistrationOK, StreamOK
  <1> QED BY <1>1, <1>2 DEF SessionInv, RegistrationOK, RegisteredByOwnIds

--------------------------------------------------------------------------------

(* Nothing is registered and nothing is served at first. *)
LEMMA SessionInvInit == SessionInit => SessionInv
  <1> SUFFICES ASSUME SessionInit PROVE SessionInv
    OBVIOUS
  <1>1. ClientInv
    BY ClientInvInit DEF SessionInit
  <1>2. calls[IoThread] = 0 /\ delivered = <<>> /\ consumed = 0 /\ serving = None
    BY WriterFacts DEF SessionInit, ClientInit, Init
  <1>3. StreamOK
    BY <1>2 DEF StreamOK
  <1>4. ServerOK
    BY SessionAssumption DEF SessionInit, Server!Init, ServerOK, States, Server!Operation
  <1>5. RegistrationOK
    BY <1>2, HandlerFacts DEF SessionInit, Server!Init, RegistrationOK, RegisteredByOwnIds
  <1> QED BY <1>1, <1>3, <1>4, <1>5 DEF SessionInv

(* Every step keeps the invariant. *)
LEMMA SessionInvStep == SessionInv /\ [SessionNext]_sessionVars => SessionInv'
  <1> SUFFICES ASSUME SessionInv, [SessionNext]_sessionVars PROVE SessionInv'
    OBVIOUS
  <1>0. ClientInv /\ ServerOK /\ StreamOK /\ RegistrationOK /\ made \in Nat
    BY DEF SessionInv, ServerOK
  <1>1. CASE ClientReconnects \/ ClientAlone
    <2>1. ClientNext /\ UNCHANGED <<server, consumed>> /\ serving' \in {serving, None}
      BY <1>1 DEF ClientReconnects, ClientAlone, ClientNext, link
    <2>2. ClientInv' /\ ServerOK' /\ StreamOK'
      BY <1>0, <2>1, ClientSide, ServerUntouched, ClientStreamKeeps
    <2>3. consumed > 0 => serving' = serving
      <3>1. CASE ClientReconnects
        <4>1. calls[IoThread] = 0
          BY <1>0, <3>1 DEF ClientReconnects, ConnectFails, StreamOK
        <4>2. consumed = 0
          BY <1>0, <4>1, NothingDelivered DEF StreamOK
        <4> QED BY <4>2
      <3>2. CASE ClientAlone
        BY <3>2 DEF ClientAlone, link
      <3> QED BY <1>1, <3>1, <3>2
    <2>4. UNCHANGED <<connections, hasAuthenticated>>
      BY <2>1 DEF server
    <2>5. RegistrationOK'
      BY <2>1, <2>3, <2>4, RegistrationKeeps
    <2> QED BY <2>2, <2>5 DEF SessionInv
  <1>2. ASSUME NEW h \in Server!Handlers, Accept(h)
        PROVE  SessionInv'
    <2>1. /\ Server!CompleteOp(h, "CONNECT") /\ serving' = h /\ serving = None
          /\ UNCHANGED <<clientVars, consumed>>
      BY <1>2 DEF Accept
    <2>2. ServerOK' /\ h <= made /\ UNCHANGED <<made, hasAuthenticated, connections>>
      BY <1>0, <2>1, CompleteKeeps DEF Server!Operation
    <2>3. UNCHANGED <<clientAt, connectPosted, calls, delivered, Server!Handlers>>
      BY <2>1 DEF clientVars, stream, vars, connection, Server!Handlers
    <2>4. StreamOK'
      BY <1>0, <2>1, <2>2, <2>3 DEF StreamOK
    <2>5. ~(consumed > 0)
      BY <1>0, <2>1 DEF RegistrationOK
    <2>6. RegistrationOK'
      BY <2>1, <2>2, <2>5, RegistrationKeeps
    <2>7. ClientInv'
      BY <1>0, <2>1, ClientSide
    <2> QED BY <2>2, <2>4, <2>6, <2>7 DEF SessionInv
  <1>3. ASSUME NEW h \in Server!Handlers, RequestFails(h) \/ ReadEnds(h) \/ FinishEnds(h)
        PROVE  SessionInv'
    <2>1. UNCHANGED <<clientVars, serving, consumed>>
      BY <1>3 DEF RequestFails, ReadEnds, FinishEnds, link
    <2>2. ServerOK' /\ UNCHANGED <<made, hasAuthenticated, connections>>
      BY <1>0, <1>3, CompleteKeeps DEF RequestFails, ReadEnds, FinishEnds, Server!Operation
    <2>3. UNCHANGED <<clientAt, connectPosted, calls, delivered, Server!Handlers>>
      BY <2>1 DEF clientVars, stream, vars, connection, Server!Handlers
    <2>4. StreamOK'
      BY <1>0, <2>1, <2>2, <2>3 DEF StreamOK
    <2>5. RegistrationOK'
      BY <2>1, <2>2, RegistrationKeeps
    <2>6. ClientInv'
      BY <1>0, <2>1, ClientSide
    <2> QED BY <2>2, <2>4, <2>5, <2>6 DEF SessionInv
  <1>4. ASSUME NEW t \in Server!Threads, ServerReads(t)
        PROVE  SessionInv'
    BY <1>4, ReadKeeps
  <1>5. ASSUME NEW t \in Server!Threads,
               Server!ThreadStepNoMessage(t) /\ UNCHANGED <<clientVars, link>>
        PROVE  SessionInv'
    <2>1. UNCHANGED <<clientVars, serving, consumed>>
      BY <1>5 DEF link
    <2>2. /\ ServerOK' /\ made' >= made /\ UNCHANGED connections
          /\ \A h \in Server!Handlers : h <= made => hasAuthenticated'[h] = hasAuthenticated[h]
      BY <1>0, <1>5, ThreadKeeps
    <2>3. UNCHANGED <<clientAt, connectPosted, calls, delivered, Server!Handlers>>
      BY <2>1 DEF clientVars, stream, vars, connection, Server!Handlers
    <2>4. StreamOK'
      <3>1. made' \in Nat
        BY <2>2 DEF ServerOK
      <3>2. serving' # None => serving' \in Server!Handlers /\ serving' <= made'
        BY <1>0, <2>1, <2>2, <3>1, HandlerFacts DEF StreamOK
      <3> QED BY <1>0, <2>1, <2>3, <3>2 DEF StreamOK
    <2>5. RegistrationOK'
      BY <2>1, <2>2, RegistrationKeeps
    <2>6. ClientInv'
      BY <1>0, <2>1, ClientSide
    <2> QED BY <2>2, <2>4, <2>5, <2>6 DEF SessionInv
  <1>6. CASE ServerCloses \/ UNCHANGED sessionVars
    <2>1. /\ UNCHANGED <<clientVars, serving, consumed>>
          /\ UNCHANGED <<numIoThreads, made, ops, connecting, hasAuthenticated, connections>>
      BY <1>6 DEF ServerCloses, Server!ShutdownServer, Server!flags, Server!manager, link, sessionVars,
                  server
    <2>2. ServerOK'
      BY <1>0, <2>1 DEF ServerOK, Server!Handlers, Server!Operation
    <2>3. UNCHANGED <<clientAt, connectPosted, calls, delivered, Server!Handlers>>
      BY <2>1 DEF clientVars, stream, vars, connection, Server!Handlers
    <2>4. StreamOK'
      BY <1>0, <2>1, <2>3 DEF StreamOK
    <2>5. RegistrationOK'
      BY <2>1, RegistrationKeeps
    <2>6. ClientInv'
      BY <1>0, <2>1, ClientSide
    <2> QED BY <2>2, <2>4, <2>5, <2>6 DEF SessionInv
  <1> QED BY <1>1, <1>2, <1>3, <1>4, <1>5, <1>6 DEF SessionNext, ServerStep

--------------------------------------------------------------------------------

(* No client is registered under the ids of an empty request unless it has been registered
   under its own. *)
THEOREM ClientsRegisterByOwnIds == SessionSpec => []RegisteredByOwnIds
  <1>1. SessionInv => RegisteredByOwnIds
    BY DEF SessionInv, RegistrationOK
  <1> QED BY <1>1, SessionInvInit, SessionInvStep, PTL DEF SessionSpec

================================================================================
