--------------------------------- MODULE Client ---------------------------------
(***************************************************************************)
(* The client library from start to its destructor: the I/O thread connects,*)
(* retries, authenticates and reads; each message it reads is processed by  *)
(* a worker thread of its own, which reports the status of the shards.      *)
(* Every write goes through the write side of RequestHandler (StreamWriter),*)
(* whose threads are the I/O thread, 0, and the workers, by the number of   *)
(* the message they process.  Each of them writes at most once.             *)
(*                                                                          *)
(* An operation completes and is processed in one step: only the I/O thread *)
(* polls cq_.  isReading_ is not initialized.                               *)
(***************************************************************************)
EXTENDS StreamWriter

CONSTANTS Ranges,          \* the key ranges the server may assign
          ServerMessages,  \* the messages it may send
          MaxMessages,     \* bound on the messages the server sends
          MaxAttempts      \* bound on the attempts to connect

\* The oneof of ServerMessage.
ServerMessage == {[kind |-> "connection_response"]}
                   \cup [kind : {"shard_update_request"}, unassigned : SUBSET Ranges, assigned : SUBSET Ranges]
                   \cup [kind : {"shard_forward_request"}, forwarded : SUBSET Ranges]

ASSUME ClientAssumption == /\ MaxMessages \in Nat
                           /\ MaxAttempts \in Nat \ {0}
                           /\ Writers = 0 .. MaxMessages
                           /\ MaxWrites = 1
                           /\ ServerMessages \subseteq ServerMessage

VARIABLES
    clientAt,                  \* the I/O thread is in connect, or polling cq_
    connectPosted,             \* CONNECT is outstanding
    readPosted,                \* READ is outstanding
    clientIsReading,           \* isReading_
    attempts,                  \* the calls of connect
    received,                  \* the messages read
    worker,                    \* where the thread of each message is
    updated,                   \* what updateRanges or forwardRanges returned to it
    shardRangeStatus,          \* shardRangeStatus_
    shardRangePendingStatus,   \* shardRangePendingStatus_
    report                     \* the range statuses in the message a thread writes

stream == vars
connection == <<clientAt, connectPosted, readPosted, clientIsReading, attempts>>
statuses == <<shardRangeStatus, shardRangePendingStatus>>
work == <<received, worker, updated, statuses, report>>
clientVars == <<stream, connection, work>>

IoThread == 0
Workers == 1 .. MaxMessages

\* No entry for a range.
Absent == "ABSENT"

ClientInit ==
    /\ Init
    /\ clientAt = "connecting"
    /\ connectPosted = FALSE
    /\ readPosted = FALSE
    /\ clientIsReading \in BOOLEAN
    /\ attempts = 0
    /\ received = <<>>
    /\ worker = [n \in Workers |-> "none"]
    /\ updated = [n \in Workers |-> FALSE]
    /\ shardRangeStatus = [r \in Ranges |-> Absent]
    /\ shardRangePendingStatus = [r \in Ranges |-> Absent]
    /\ report = [t \in Writers |-> {}]

--------------------------------------------------------------------------------
(* Shard statuses.                                                          *)

\* setShardStatus takes the map by value: it erases from and assigns to a copy
\* that nobody sees.  The caller's map is what it was.
SetShardStatus(statusMap, ranges, status) == statusMap

\* getShardStatus, both overloads: a pending status hides the other one.
Known(r) == IF shardRangePendingStatus[r] # Absent
            THEN shardRangePendingStatus[r]
            ELSE shardRangeStatus[r]

AllStatuses == {<<r, Known(r)>> : r \in {q \in Ranges : Known(q) # Absent}}

StatusesOf(ranges) == {<<r, IF Known(r) = Absent THEN "DROPPED" ELSE Known(r)>> : r \in ranges}

\* The ranges a message is about.
RangesOf(m) == IF m.kind = "shard_update_request"
               THEN m.unassigned \cup m.assigned
               ELSE m.forwarded

--------------------------------------------------------------------------------
(* The I/O thread.                                                          *)

Polling == clientAt = "polling" /\ io = "polling" /\ IoThread \notin inWrite

\* attemptRead.  The flag is never reset.
AttemptRead == /\ clientIsReading' = TRUE
               /\ readPosted' = ~clientIsReading

Connect ==
    /\ clientAt = "connecting"
    /\ attempts' = attempts + 1
    /\ connectPosted' = TRUE
    /\ clientAt' = "polling"
    /\ UNCHANGED <<stream, readPosted, clientIsReading, work>>

\* Plausible slip: a failed connection is not retried.
ConnectFailsForGood ==
    /\ Polling
    /\ connectPosted
    /\ attempts < MaxAttempts
    /\ connectPosted' = FALSE
    /\ UNCHANGED <<stream, clientAt, readPosted, clientIsReading, attempts, work>>

\* handleConnect, !ok: wait and connect again.
ConnectFails ==
    /\ Polling
    /\ connectPosted
    /\ attempts < MaxAttempts
    /\ connectPosted' = FALSE
    /\ clientAt' = "connecting"
    /\ UNCHANGED <<stream, readPosted, clientIsReading, attempts, work>>

\* Plausible slip: the client reads without authenticating.
ConnectedWithoutAuth ==
    /\ Polling
    /\ connectPosted
    /\ connectPosted' = FALSE
    /\ AttemptRead
    /\ UNCHANGED <<stream, clientAt, attempts, work>>

\* handleConnect up to the first half of the write in sendAuthMessage; the
\* second half is WriteAttempts(IoThread).
Connected ==
    /\ Polling
    /\ connectPosted
    /\ connectPosted' = FALSE
    /\ AttemptRead
    /\ report' = [report EXCEPT ![IoThread] = AllStatuses]
    /\ AddToWriteQueue(IoThread)
    /\ UNCHANGED <<clientAt, attempts, received, worker, updated, statuses>>

\* processMessageSequentially
ProcessSequentially(m) ==
    shardRangePendingStatus' =
        IF m.kind = "shard_update_request"
        THEN SetShardStatus(SetShardStatus(shardRangePendingStatus, m.unassigned, "PENDING_DROPPED"),
                            m.assigned, "PENDING_ADDED")
        ELSE IF m.kind = "shard_forward_request"
             THEN SetShardStatus(shardRangePendingStatus, m.forwarded, "PENDING_FORWARDING")
             ELSE shardRangePendingStatus

\* Plausible slip (and the likely fix of attemptRead): the end of a read resets
\* the flag, so that the next one is posted.
HandleReadAndReadOn(m) ==
    /\ Polling
    /\ readPosted
    /\ Len(received) < MaxMessages
    /\ received' = Append(received, m)
    /\ worker' = [worker EXCEPT ![Len(received) + 1] = "started"]
    /\ ProcessSequentially(m)
    /\ clientIsReading' = TRUE
    /\ readPosted' = TRUE
    /\ UNCHANGED <<stream, clientAt, connectPosted, attempts, updated,
                   shardRangeStatus, report>>

\* handleRead of message m, which starts a worker, and the attemptRead after it.
HandleRead(m) ==
    /\ Polling
    /\ readPosted
    /\ Len(received) < MaxMessages
    /\ received' = Append(received, m)
    /\ worker' = [worker EXCEPT ![Len(received) + 1] = "started"]
    /\ ProcessSequentially(m)
    /\ AttemptRead
    /\ UNCHANGED <<stream, clientAt, connectPosted, attempts, updated,
                   shardRangeStatus, report>>

\* handleRead, !ok: the client takes note and does nothing.
FailedRead ==
    /\ Polling
    /\ readPosted
    /\ readPosted' = FALSE
    /\ UNCHANGED <<stream, clientAt, connectPosted, clientIsReading, attempts, work>>

\* A WRITE event.
WriteEvent == /\ \/ Polling /\ (CompleteWrite \/ FailWrite)
                 \/ FinishWrite
                 \/ NextWrite
              /\ UNCHANGED <<connection, work>>

--------------------------------------------------------------------------------
(* A worker: processMessageAsync.                                           *)

\* A connection response is logged.
LogResponse(n) ==
    /\ worker[n] = "started"
    /\ received[n].kind = "connection_response"
    /\ worker' = [worker EXCEPT ![n] = "done"]
    /\ UNCHANGED <<stream, connection, received, updated, statuses, report>>

\* updateRanges of the application, and the new statuses.
UpdateRanges(n, success) ==
    /\ worker[n] = "started"
    /\ received[n].kind = "shard_update_request"
    /\ updated' = [updated EXCEPT ![n] = success]
    /\ \/ /\ success
          /\ shardRangeStatus' =
               SetShardStatus(SetShardStatus(shardRangeStatus, received[n].unassigned, "DROPPED"),
                              received[n].assigned, "ADDED")
          /\ UNCHANGED shardRangePendingStatus
       \/ /\ ~success
          /\ shardRangePendingStatus' =
               SetShardStatus(shardRangePendingStatus, received[n].unassigned, "DROPPED")
          /\ UNCHANGED shardRangeStatus
    /\ worker' = [worker EXCEPT ![n] = "updated"]
    /\ UNCHANGED <<stream, connection, received, report>>

\* forwardRanges of the application, and the new statuses.
ForwardRanges(n, success) ==
    /\ worker[n] = "started"
    /\ received[n].kind = "shard_forward_request"
    /\ updated' = [updated EXCEPT ![n] = success]
    /\ \/ /\ success
          /\ shardRangeStatus' = SetShardStatus(shardRangeStatus, received[n].forwarded, "FORWARDING")
          /\ UNCHANGED shardRangePendingStatus
       \/ /\ ~success
          /\ shardRangePendingStatus' =
               SetShardStatus(shardRangePendingStatus, received[n].forwarded, "DROPPED")
          /\ UNCHANGED shardRangeStatus
    /\ worker' = [worker EXCEPT ![n] = "updated"]
    /\ UNCHANGED <<stream, connection, received, report>>

\* sendShardInfoUpdate, up to the first half of its write; the second half is
\* WriteAttempts(n).
SendShardInfoUpdate(n) ==
    /\ worker[n] = "updated"
    /\ report' = [report EXCEPT ![n] = StatusesOf(RangesOf(received[n]))]
    /\ AddToWriteQueue(n)
    /\ worker' = [worker EXCEPT ![n] = "done"]
    /\ UNCHANGED <<connection, received, updated, statuses>>

WorkerStep(n) == \/ LogResponse(n)
                 \/ \E success \in BOOLEAN : UpdateRanges(n, success) \/ ForwardRanges(n, success)
                 \/ SendShardInfoUpdate(n)

\* The second half of a write, of any thread.
WriteStep(t) == WriteAttempts(t) /\ UNCHANGED <<connection, work>>

\* The steps of the client's threads and of the operations gRPC is bound to
\* complete; the server need not send anything.
ClientProgress == \/ Connect
                  \/ Connected
                  \/ WriteEvent
                  \/ \E n \in Workers : WorkerStep(n)
                  \/ \E t \in Writers : WriteStep(t)

ClientReads == (\E m \in ServerMessages : HandleRead(m)) \/ FailedRead

ClientNext == ClientProgress \/ ConnectFails \/ ClientReads

\* Every thread gets on, applications return, and gRPC completes every CONNECT and
\* WRITE one way or the other.
ClientSpec == ClientInit /\ [][ClientNext]_clientVars /\ WF_clientVars(ClientProgress \/ ConnectFails)

--------------------------------------------------------------------------------

(* What the client's peer gets first is its connection request: sendAuthMessage
   queues it after attemptRead has been called, but the thread that would process
   the read is the one that is still queueing. *)
AuthIsFirst == delivered # <<>> => delivered[1] = <<IoThread, 1>>

(* Messages are processed by threads of their own, so two of them could apply
   their statuses in either order and report each other's.  As long as isReading_
   is never reset no two workers are at it. *)
WorkersDoNotOverlap ==
    \A n, k \in Workers :
       worker[n] \in {"started", "updated"} /\ worker[k] \in {"started", "updated"} => n = k

\* The peer has asked for a change of shards and has not got the answer.
Unanswered(n) == /\ worker[n] # "none"
                 /\ received[n].kind # "connection_response"
                 /\ \A i \in DOMAIN delivered : delivered[i] # <<n, 1>>

(* A request to update or forward shards is answered: the worker's message reaches
   the peer, whatever the I/O thread is doing with the one before it, unless the
   stream fails or isWriting_ happened to start as true. *)
RequestIsAnswered ==
    ~isWriting => []<>(failed \/ \A n \in Workers : ~Unanswered(n))

(* "Update shard statuses" (processMessageAsync): when the application has taken
   over a range, the message that reports it does not call it dropped. *)
AssignedIsReported ==
    \A n \in Workers :
       worker[n] = "done" /\ updated[n] /\ received[n].kind = "shard_update_request"
          => \A r \in received[n].assigned : <<r, "DROPPED">> \notin report[n]

================================================================================
