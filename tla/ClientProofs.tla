------------------------------ MODULE ClientProofs ------------------------------
(***************************************************************************)
(* Theorems about the client library, for any number of messages, attempts  *)
(* to connect and ranges: it drives its write side as StreamWriter says, so *)
(* its peer gets its messages in order; the connection request is the first *)
(* of them; and no two workers are at work together.                        *)
(*                                                                          *)
(* The last two need ClientInv: nothing is queued and nothing is read until *)
(* the I/O thread has queued the request, and once a READ has been posted   *)
(* isReading_ stays set, so that no second one ever is.                     *)
(***************************************************************************)
EXTENDS Client, StreamWriterProofs

\* Until it has queued the connection request the client has queued and read nothing.
AuthBeforeAll == /\ calls[IoThread] = 0 => Accepted = <<>> /\ ~readPosted /\ received = <<>>
                 /\ calls[IoThread] > 0 => Accepted # <<>> /\ Accepted[1] = <<IoThread, 1>>

\* One READ is posted at most, ever.
ReadsOnce == /\ received \in Seq(ServerMessages)
             /\ readPosted => clientIsReading /\ received = <<>>
             /\ received # <<>> => clientIsReading
             /\ Len(received) <= 1

\* A worker has a message.
WorkersHaveMessages ==
    /\ worker \in [Workers -> {"none", "started", "updated", "done"}]
    /\ \A n \in Workers : worker[n] # "none" => n <= Len(received)

\* The inductive invariant.
ClientInv == WriterInv /\ AuthBeforeAll /\ ReadsOnce /\ WorkersHaveMessages

--------------------------------------------------------------------------------

(* The threads that write: each of them does so once. *)
LEMMA WriterFacts ==
  /\ IoThread \in Writers /\ Workers \subseteq Writers /\ IoThread \notin Workers
  /\ MaxWrites = 1 /\ Workers = 1 .. MaxMessages /\ MaxMessages \in Nat
  BY ClientAssumption DEF IoThread, Workers

(* A step of the client is a step of its write side or leaves that alone. *)
LEMMA ClientStreamStep ==
  ASSUME [ClientNext]_clientVars
  PROVE  [Next]_vars
  <1>1. CASE UNCHANGED clientVars
    BY <1>1 DEF clientVars, stream
  <1>2. CASE Connected \/ \E n \in Workers : SendShardInfoUpdate(n)
    BY <1>2, WriterFacts DEF Connected, SendShardInfoUpdate, Next
  <1>3. CASE \E t \in Writers : WriteStep(t)
    BY <1>3 DEF WriteStep, Next
  <1>4. CASE WriteEvent
    BY <1>4 DEF WriteEvent, Next, IoStep
  <1>5. CASE \/ Connect \/ ConnectFails \/ FailedRead \/ (\E m \in ServerMessages : HandleRead(m))
             \/ \E n \in Workers : LogResponse(n) \/ (\E success \in BOOLEAN :
                   UpdateRanges(n, success) \/ ForwardRanges(n, success))
    BY <1>5 DEF Connect, ConnectFails, FailedRead, HandleRead, LogResponse, UpdateRanges,
                ForwardRanges, stream
  <1> QED BY <1>1, <1>2, <1>3, <1>4, <1>5
             DEF ClientNext, ClientProgress, ClientReads, WorkerStep

(* The client starts with nothing queued and nothing read. *)
LEMMA ClientInvInit == ClientInit => ClientInv
  <1> SUFFICES ASSUME ClientInit PROVE ClientInv
    OBVIOUS
  <1>1. WriterInv
    BY WriterInvInit DEF ClientInit
  <1>2. calls[IoThread] = 0
    BY WriterFacts DEF ClientInit, Init
  <1>3. Accepted = <<>>
    <2>1. delivered = <<>> /\ Pending = <<>>
      BY DEF ClientInit, Init, Pending
    <2> QED BY <2>1, EmptySeq, ConcatEmptySeq DEF Accepted
  <1>4. AuthBeforeAll
    BY <1>2, <1>3 DEF AuthBeforeAll, ClientInit
  <1>5. received = <<>> /\ received \in Seq(ServerMessages) /\ Len(received) = 0
    BY EmptySeq DEF ClientInit
  <1>6. ReadsOnce
    BY <1>5 DEF ReadsOnce, ClientInit
  <1>7. WorkersHaveMessages
    BY DEF WorkersHaveMessages, ClientInit
  <1> QED BY <1>1, <1>4, <1>6, <1>7 DEF ClientInv

(* Queueing a message leaves the first one first. *)
LEMMA QueueKeepsFirst ==
  ASSUME WriterInv, AuthBeforeAll, NEW t \in Writers, AddToWriteQueue(t),
         calls[IoThread] = 0 => t = IoThread
  PROVE  /\ calls'[IoThread] > 0
         /\ Accepted' # <<>> /\ Accepted'[1] = <<IoThread, 1>>
  <1> DEFINE m == <<t, calls[t] + 1>>
  <1>1. m \in Messages /\ Accepted' = Append(Accepted, m)
    BY AddAppends
  <1>2. Accepted \in Seq(Messages)
    BY PendingIsSeq, ConcatProperties DEF Accepted
  <1>3. /\ calls \in [Writers -> 0 .. 1] /\ IoThread \in Writers
        /\ calls' = [calls EXCEPT ![t] = calls[t] + 1]
    BY WriterFacts DEF WriterInv, TypeOK, AddToWriteQueue
  <1>4. CASE calls[IoThread] = 0
    <2>1. m = <<IoThread, 1>> /\ calls'[IoThread] > 0
      BY <1>3, <1>4
    <2>2. Accepted = <<>>
      BY <1>4 DEF AuthBeforeAll
    <2>3. Accepted' = <<m>>
      BY <1>1, <2>2
    <2> QED BY <2>1, <2>3
  <1>5. CASE calls[IoThread] > 0
    <2>1. calls'[IoThread] > 0
      BY <1>3, <1>5
    <2>2. Accepted # <<>> /\ Accepted[1] = <<IoThread, 1>>
      BY <1>5 DEF AuthBeforeAll
    <2> HIDE DEF m
    <2>3. 1 \in 1 .. Len(Accepted)
      BY <1>2, <2>2, EmptySeq, LenProperties
    <2> QED BY <1>1, <1>2, <2>1, <2>2, <2>3, AppendProperties
  <1> QED BY <1>3, <1>4, <1>5

(* The connection: CONNECT, its failure and its success. *)
LEMMA ConnectKeeps ==
  ASSUME ClientInv, WriterInv', Connect \/ ConnectFails
  PROVE  ClientInv'
  <1>1. UNCHANGED <<stream, readPosted, clientIsReading, work>>
    BY DEF Connect, ConnectFails
  <1>2. UNCHANGED <<Accepted, calls, received, worker>>
    BY <1>1 DEF Accepted, Pending, stream, vars, work
  <1> QED BY <1>1, <1>2 DEF ClientInv, AuthBeforeAll, ReadsOnce, WorkersHaveMessages

LEMMA ConnectedKeeps ==
  ASSUME ClientInv, WriterInv', Connected
  PROVE  ClientInv'
  <1>1. /\ AddToWriteQueue(IoThread) /\ IoThread \in Writers
        /\ clientIsReading' = TRUE /\ UNCHANGED <<received, worker>>
    BY WriterFacts DEF Connected, AttemptRead
  <1>2. calls[IoThread] = 0
    BY <1>1, WriterFacts DEF AddToWriteQueue, ClientInv, WriterInv, TypeOK
  <1>3. received = <<>>
    BY <1>2 DEF ClientInv, AuthBeforeAll
  <1>4. /\ calls'[IoThread] > 0
        /\ Accepted' # <<>> /\ Accepted'[1] = <<IoThread, 1>>
    BY <1>1, QueueKeepsFirst DEF ClientInv
  <1>5. calls'[IoThread] # 0
    BY <1>1, <1>2, WriterFacts DEF AddToWriteQueue, ClientInv, WriterInv, TypeOK
  <1>6. AuthBeforeAll'
    BY <1>4, <1>5 DEF AuthBeforeAll
  <1>7. ReadsOnce' /\ WorkersHaveMessages'
    BY <1>1, <1>3 DEF ClientInv, ReadsOnce, WorkersHaveMessages
  <1> QED BY <1>6, <1>7 DEF ClientInv

(* A message is read: it was the only READ, and no other one is posted. *)
LEMMA HandleReadKeeps ==
  ASSUME ClientInv, WriterInv', NEW m \in ServerMessages, HandleRead(m)
  PROVE  ClientInv'
  <1>1. /\ readPosted /\ received' = Append(received, m) /\ clientIsReading' = TRUE
        /\ readPosted' = ~clientIsReading /\ UNCHANGED stream
        /\ worker' = [worker EXCEPT ![Len(received) + 1] = "started"]
    BY DEF HandleRead, AttemptRead
  <1>2. received = <<>> /\ clientIsReading /\ ~readPosted'
    BY <1>1 DEF ClientInv, ReadsOnce
  <1>3. received' = <<m>> /\ Len(received') = 1 /\ received' \in Seq(ServerMessages) /\ Len(received) = 0
    BY <1>1, <1>2
  <1>4. UNCHANGED <<Accepted, calls>>
    BY <1>1 DEF Accepted, Pending, stream, vars
  <1>5. AuthBeforeAll'
    BY <1>1, <1>4 DEF ClientInv, AuthBeforeAll
  <1>6. ReadsOnce'
    BY <1>1, <1>2, <1>3 DEF ReadsOnce
  <1>7. WorkersHaveMessages'
    <2>1. worker' \in [Workers -> {"none", "started", "updated", "done"}]
      BY <1>1 DEF ClientInv, WorkersHaveMessages
    <2>2. ASSUME NEW n \in Workers, worker'[n] # "none" PROVE n <= 1
      BY <1>1, <1>3, <2>2, WriterFacts DEF ClientInv, WorkersHaveMessages
    <2> QED BY <1>3, <2>1, <2>2 DEF WorkersHaveMessages
  <1> QED BY <1>5, <1>6, <1>7 DEF ClientInv

LEMMA FailedReadKeeps ==
  ASSUME ClientInv, WriterInv', FailedRead
  PROVE  ClientInv'
  <1>1. readPosted' = FALSE /\ UNCHANGED <<stream, clientIsReading, received, worker>>
    BY DEF FailedRead, work
  <1>2. UNCHANGED <<Accepted, calls>>
    BY <1>1 DEF Accepted, Pending, stream, vars
  <1> QED BY <1>1, <1>2 DEF ClientInv, AuthBeforeAll, ReadsOnce, WorkersHaveMessages

(* What the write side does on its own keeps the messages accepted. *)
LEMMA WriteKeeps ==
  ASSUME ClientInv, WriterInv', WriteEvent \/ (\E t \in Writers : WriteStep(t))
  PROVE  ClientInv'
  <1>1. UNCHANGED <<readPosted, clientIsReading, received, worker>>
    BY DEF WriteEvent, WriteStep, connection, work
  <1>2. UNCHANGED calls
    BY DEF WriteEvent, WriteStep, CompleteWrite, FailWrite, FinishWrite, NextWrite, WriteAttempts
  <1>3. UNCHANGED Accepted
    <2>1. CASE CompleteWrite
      BY <2>1, CompleteDelivers DEF ClientInv, Channel!Deliver
    <2>2. CASE FinishWrite \/ NextWrite \/ FailWrite \/ (\E t \in Writers : WriteAttempts(t))
      BY <2>2, OthersStutter DEF ClientInv
    <2> QED BY <2>1, <2>2 DEF WriteEvent, WriteStep
  <1> QED BY <1>1, <1>2, <1>3 DEF ClientInv, AuthBeforeAll, ReadsOnce, WorkersHaveMessages

(* A worker gets on; its report is queued behind the connection request. *)
LEMMA WorkerKeeps ==
  ASSUME ClientInv, WriterInv', NEW n \in Workers, WorkerStep(n)
  PROVE  ClientInv'
  <1>1. /\ UNCHANGED <<readPosted, clientIsReading, received>>
        /\ worker[n] # "none"
        /\ \/ worker' = [worker EXCEPT ![n] = "updated"]
           \/ worker' = [worker EXCEPT ![n] = "done"]
    BY DEF WorkerStep, LogResponse, UpdateRanges, ForwardRanges, SendShardInfoUpdate, connection
  <1>2. ReadsOnce'
    BY <1>1 DEF ClientInv, ReadsOnce
  <1>3. WorkersHaveMessages'
    BY <1>1 DEF ClientInv, WorkersHaveMessages
  <1>4. received # <<>>
    BY <1>1, WriterFacts DEF ClientInv, WorkersHaveMessages
  <1>5. calls[IoThread] > 0 /\ calls[IoThread] # 0
    BY <1>4, WriterFacts DEF ClientInv, AuthBeforeAll, WriterInv, TypeOK
  <1>6. CASE UNCHANGED stream
    <2>1. UNCHANGED <<Accepted, calls>>
      BY <1>6 DEF Accepted, Pending, stream, vars
    <2>2. AuthBeforeAll'
      BY <1>1, <2>1 DEF ClientInv, AuthBeforeAll
    <2> QED BY <1>2, <1>3, <2>2 DEF ClientInv
  <1>7. CASE AddToWriteQueue(n)
    <2>1. /\ calls'[IoThread] > 0
          /\ Accepted' # <<>> /\ Accepted'[1] = <<IoThread, 1>>
      BY <1>5, <1>7, WriterFacts, QueueKeepsFirst DEF ClientInv
    <2>2. calls' = [calls EXCEPT ![n] = calls[n] + 1] /\ IoThread # n
      BY <1>7, WriterFacts DEF AddToWriteQueue
    <2>3. calls'[IoThread] # 0
      BY <1>5, <2>2, WriterFacts DEF ClientInv, WriterInv, TypeOK
    <2>4. AuthBeforeAll'
      BY <2>1, <2>3 DEF AuthBeforeAll
    <2> QED BY <1>2, <1>3, <2>4 DEF ClientInv
  <1> QED BY <1>6, <1>7 DEF WorkerStep, LogResponse, UpdateRanges, ForwardRanges, SendShardInfoUpdate

(* Every step keeps the invariant. *)
LEMMA ClientInvStep == ClientInv /\ [ClientNext]_clientVars => ClientInv'
  <1> SUFFICES ASSUME ClientInv, [ClientNext]_clientVars PROVE ClientInv'
    OBVIOUS
  <1>1. WriterInv'
    BY ClientStreamStep, WriterInvStep DEF ClientInv
  <1>2. CASE UNCHANGED clientVars
    <2>1. UNCHANGED <<stream, readPosted, clientIsReading, received, worker>>
      BY <1>2 DEF clientVars, connection, work
    <2>2. UNCHANGED <<Accepted, calls>>
      BY <2>1 DEF Accepted, Pending, stream, vars
    <2> QED BY <1>1, <2>1, <2>2 DEF ClientInv, AuthBeforeAll, ReadsOnce, WorkersHaveMessages
  <1>3. CASE ClientNext
    BY <1>1, <1>3, ConnectKeeps, ConnectedKeeps, HandleReadKeeps, FailedReadKeeps, WriteKeeps,
       WorkerKeeps DEF ClientNext, ClientProgress, ClientReads
  <1> QED BY <1>2, <1>3

(* What has been delivered comes first of what was accepted. *)
LEMMA InvGivesAuth == ClientInv => AuthIsFirst
  <1> SUFFICES ASSUME ClientInv, delivered # <<>> PROVE delivered[1] = <<IoThread, 1>>
    BY DEF AuthIsFirst
  <1>1. delivered \in Seq(Messages) /\ Pending \in Seq(Messages)
    BY PendingIsSeq DEF ClientInv
  <1>2. Len(delivered) \in Nat /\ Len(delivered) > 0 /\ Len(Pending) \in Nat
    BY <1>1, EmptySeq, LenProperties
  <1>3. /\ Len(Accepted) = Len(delivered) + Len(Pending)
        /\ Accepted[1] = delivered[1]
    BY <1>1, <1>2, ConcatProperties DEF Accepted
  <1>4. Accepted # <<>>
    BY <1>2, <1>3
  <1>5. calls[IoThread] > 0
    BY <1>4, WriterFacts DEF ClientInv, AuthBeforeAll, WriterInv, TypeOK
  <1> QED BY <1>3, <1>5 DEF ClientInv, AuthBeforeAll

--------------------------------------------------------------------------------

(* Whatever its threads do, the client's peer gets the messages in the order they were
   queued, once each, and none after a failure. *)
THEOREM ClientImplementsChannel == ClientSpec => DeliversInOrder
  <1>1. ClientInit => Init
    BY DEF ClientInit
  <1>2. [ClientNext]_clientVars => [Next]_vars
    BY ClientStreamStep
  <1>3. Init => Channel!Init
    BY ChannelInit
  <1>4. WriterInv /\ [Next]_vars => [Channel!Next]_<<Accepted, delivered, failed>>
    BY ChannelStep
  <1> QED BY <1>1, <1>2, <1>3, <1>4, WriterInvInit, WriterInvStep, PTL
             DEF ClientSpec, DeliversInOrder, Channel!Spec

(* The first message the peer gets is the connection request. *)
THEOREM AuthComesFirst == ClientSpec => []AuthIsFirst
  BY ClientInvInit, ClientInvStep, InvGivesAuth, PTL DEF ClientSpec

(* No two workers are at work together. *)
THEOREM WorkersAreAlone == ClientSpec => []WorkersDoNotOverlap
  <1>1. ClientInv => WorkersDoNotOverlap
    <2> SUFFICES ASSUME ClientInv, NEW n \in Workers, NEW k \in Workers,
                        worker[n] \in {"started", "updated"}, worker[k] \in {"started", "updated"}
                 PROVE  n = k
      BY DEF WorkersDoNotOverlap
    <2>1. n <= Len(received) /\ k <= Len(received) /\ Len(received) <= 1
      BY DEF ClientInv, WorkersHaveMessages, ReadsOnce
    <2>2. Len(received) \in Nat
      BY LenProperties DEF ClientInv, ReadsOnce
    <2> QED BY <2>1, <2>2, WriterFacts
  <1> QED BY <1>1, ClientInvInit, ClientInvStep, PTL DEF ClientSpec

================================================================================
