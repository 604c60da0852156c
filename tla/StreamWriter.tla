------------------------------ MODULE StreamWriter ------------------------------
(***************************************************************************)
(* The write side of server_utils::RequestHandler, as the client library    *)
(* uses it: any thread calls write, which is two critical sections on       *)
(* writeLock_ (addToWriteQueue, attemptWrite), while the thread that polls  *)
(* the completion queue processes the end of every gRPC write (finishWrite, *)
(* handleWrite, attemptWrite).  Each critical section is one action.        *)
(*                                                                          *)
(* isWriting_ is never initialized: Init lets it have either value.         *)
(***************************************************************************)
EXTENDS Sequences, Naturals, FiniteSets

CONSTANTS Writers,     \* the threads that call write
          MaxWrites    \* how often each of them does

ASSUME WriterAssumption == MaxWrites \in Nat

VARIABLES
    msgQueue,   \* msgQueue_
    isWriting,  \* isWriting_
    calls,      \* the calls of write each thread has made
    inWrite,    \* the threads between addToWriteQueue and attemptWrite
    io,         \* where the polling thread is in process(WRITE, ok)
    inFlight,   \* writes handed to gRPC and not completed
    delivered,  \* what the peer has received
    failed      \* the stream has failed a write

vars == <<msgQueue, isWriting, calls, inWrite, io, inFlight, delivered, failed>>

Messages == Writers \X (1 .. MaxWrites)

Init == /\ msgQueue = <<>>
        /\ isWriting \in BOOLEAN
        /\ calls = [t \in Writers |-> 0]
        /\ inWrite = {}
        /\ io = "polling"
        /\ inFlight = <<>>
        /\ delivered = <<>>
        /\ failed = FALSE

\* write, first half.
AddToWriteQueue(t) ==
    /\ t \notin inWrite
    /\ calls[t] < MaxWrites
    /\ calls' = [calls EXCEPT ![t] = @ + 1]
    /\ msgQueue' = Append(msgQueue, <<t, calls[t] + 1>>)
    /\ inWrite' = inWrite \cup {t}
    /\ UNCHANGED <<isWriting, io, inFlight, delivered, failed>>

\* Plausible slip: the flag is not looked at.
AttemptWriteUnguarded ==
    IF msgQueue = <<>>
    THEN UNCHANGED <<isWriting, inFlight>>
    ELSE /\ isWriting' = TRUE
         /\ inFlight' = Append(inFlight, Head(msgQueue))

\* attemptWrite: hands the front of the queue to gRPC, and leaves it there.
AttemptWrite ==
    IF msgQueue = <<>> \/ isWriting
    THEN UNCHANGED <<isWriting, inFlight>>
    ELSE /\ isWriting' = TRUE
         /\ inFlight' = Append(inFlight, Head(msgQueue))

\* write, second half.
WriteAttempts(t) ==
    /\ t \in inWrite
    /\ AttemptWrite
    /\ inWrite' = inWrite \ {t}
    /\ UNCHANGED <<msgQueue, calls, io, delivered, failed>>

\* gRPC completes a write: the message has gone out.
CompleteWrite ==
    /\ io = "polling"
    /\ inFlight # <<>>
    /\ ~failed
    /\ delivered' = Append(delivered, Head(inFlight))
    /\ inFlight' = Tail(inFlight)
    /\ io' = "finish"
    /\ UNCHANGED <<msgQueue, isWriting, calls, inWrite, failed>>

\* Plausible slip: the flag is released for a failed write too.
FailWriteReleases ==
    /\ io = "polling"
    /\ inFlight # <<>>
    /\ failed' = TRUE
    /\ inFlight' = Tail(inFlight)
    /\ isWriting' = FALSE
    /\ UNCHANGED <<msgQueue, calls, inWrite, io, delivered>>

\* gRPC fails a write.  process skips finishWrite and handleWrite asks for no
\* next attempt, so the polling thread is done with the event.
FailWrite ==
    /\ io = "polling"
    /\ inFlight # <<>>
    /\ failed' = TRUE
    /\ inFlight' = Tail(inFlight)
    /\ UNCHANGED <<msgQueue, isWriting, calls, inWrite, io, delivered>>

\* Plausible slip: the completed message stays at the front of the queue.
FinishWriteKeepsFront ==
    /\ io = "finish"
    /\ isWriting' = FALSE
    /\ io' = "next"
    /\ UNCHANGED <<msgQueue, calls, inWrite, inFlight, delivered, failed>>

\* finishWrite(true)
FinishWrite ==
    /\ io = "finish"
    /\ msgQueue' = IF msgQueue = <<>> THEN msgQueue ELSE Tail(msgQueue)
    /\ isWriting' = FALSE
    /\ io' = "next"
    /\ UNCHANGED <<calls, inWrite, inFlight, delivered, failed>>

\* Plausible slip: the end of a write starts no other one.
NextWriteForgotten ==
    /\ io = "next"
    /\ io' = "polling"
    /\ UNCHANGED <<msgQueue, isWriting, calls, inWrite, inFlight, delivered, failed>>

\* handleWrite asked for the next attempt.
NextWrite ==
    /\ io = "next"
    /\ AttemptWrite
    /\ io' = "polling"
    /\ UNCHANGED <<msgQueue, calls, inWrite, delivered, failed>>

IoStep == CompleteWrite \/ FailWrite \/ FinishWrite \/ NextWrite

\* Every thread has made its calls and nothing is left to complete.
Quiet == /\ inWrite = {}
         /\ \A t \in Writers : calls[t] = MaxWrites
         /\ io = "polling"
         /\ inFlight = <<>>
         /\ UNCHANGED vars

Next == \/ \E t \in Writers : AddToWriteQueue(t)
        \/ \E t \in Writers : WriteAttempts(t)
        \/ IoStep
        \/ Quiet

\* A thread inside write gets on with it, the polling thread keeps polling and
\* gRPC completes every write one way or the other.
Fairness == /\ \A t \in Writers : WF_vars(WriteAttempts(t))
            /\ WF_vars(IoStep)

Spec == Init /\ [][Next]_vars /\ Fairness

--------------------------------------------------------------------------------

(* The handler's fields and the events in flight have their types. *)
TypeOK ==
    /\ msgQueue \in Seq(Messages)
    /\ isWriting \in BOOLEAN
    /\ calls \in [Writers -> 0 .. MaxWrites]
    /\ inWrite \subseteq Writers
    /\ io \in {"polling", "finish", "next"}
    /\ inFlight \in Seq(Messages)
    /\ delivered \in Seq(Messages)
    /\ failed \in BOOLEAN

(* gRPC allows one outstanding Write per stream: however the threads
   interleave, attemptWrite never starts a second one, and the one it has
   started is still the front of the queue. *)
OneWriteInFlight ==
    inFlight # <<>> => /\ isWriting
                       /\ io # "finish"
                       /\ msgQueue # <<>>
                       /\ inFlight = <<Head(msgQueue)>>

(* After a failed write no other one is started. *)
NoWriteAfterFailure == failed => inFlight = <<>>

\* What is queued and has not reached the peer: the front of the queue has,
\* until finishWrite pops it.
Pending == IF io = "finish" THEN Tail(msgQueue) ELSE msgQueue

Accepted == delivered \o Pending

(* The queue, the flag and the completion events implement MessageChannel:
   however write and process interleave, the peer gets the messages in the
   order addToWriteQueue took them, once each, and none after a failure. *)
Channel == INSTANCE MessageChannel WITH accepted <- Accepted
DeliversInOrder == Channel!Spec

(* No wake-up is lost: if isWriting_ happens to start as false, a queue that
   holds messages is drained, unless the stream fails. *)
QueueIsDrained == ~isWriting => []<>(msgQueue = <<>> \/ failed)

================================================================================
