--------------------------- MODULE StreamWriterProofs ---------------------------
(***************************************************************************)
(* Theorems about StreamWriter, for any number of writing threads and any   *)
(* number of messages.                                                      *)
(*                                                                          *)
(* OneWriteInFlight is not inductive: finishWrite clears isWriting_, which  *)
(* is safe only because the completed write was the one outstanding, and a  *)
(* failed write must leave the flag set.  WriterInv adds what holds while   *)
(* the polling thread is between the completion and finishWrite, and after  *)
(* a failure.                                                               *)
(***************************************************************************)
EXTENDS StreamWriter, SequenceTheorems, TLAPS

\* Between the completion of a write and finishWrite.
FinishIsExclusive == io = "finish" => isWriting /\ msgQueue # <<>> /\ inFlight = <<>>

\* A failed write leaves the flag set for good.
FailureIsFinal == failed => isWriting /\ inFlight = <<>> /\ io # "finish"

\* The inductive invariant.
WriterInv == TypeOK /\ OneWriteInFlight /\ FinishIsExclusive /\ FailureIsFinal

--------------------------------------------------------------------------------

(* The queue's push leaves the front alone. *)
LEMMA AppendKeepsHead ==
  ASSUME NEW S, NEW q \in Seq(S), NEW m \in S
  PROVE  /\ Append(q, m) \in Seq(S)
         /\ Append(q, m) # <<>>
         /\ q # <<>> => Head(Append(q, m)) = Head(q)
  <1>1. /\ Append(q, m) \in Seq(S)
        /\ Append(q, m) # <<>>
        /\ Len(Append(q, m)) = Len(q) + 1
        /\ \A i \in 1 .. Len(q) : Append(q, m)[i] = q[i]
    BY AppendProperties
  <1>2. Len(q) \in Nat /\ (q # <<>> => Len(q) > 0)
    BY EmptySeq, LenProperties
  <1>3. ASSUME q # <<>> PROVE Head(Append(q, m)) = Head(q)
    <2>1. Head(Append(q, m)) = Append(q, m)[1] /\ Head(q) = q[1]
      BY <1>1, <1>3, HeadTailProperties
    <2> QED BY <1>1, <1>2, <1>3, <2>1
  <1> QED BY <1>1, <1>3

(* What attemptWrite does to the flag and to the writes in flight. *)
LEMMA AttemptPreserves ==
  ASSUME WriterInv, AttemptWrite, io' = "finish" => io = "finish",
         UNCHANGED <<msgQueue, failed>>
  PROVE  /\ isWriting' \in BOOLEAN
         /\ inFlight' \in Seq(Messages)
         /\ OneWriteInFlight' /\ FinishIsExclusive' /\ FailureIsFinal'
  <1>1. CASE msgQueue = <<>> \/ isWriting
    BY <1>1 DEF WriterInv, TypeOK, OneWriteInFlight, FinishIsExclusive, FailureIsFinal, AttemptWrite
  <1>2. CASE msgQueue # <<>> /\ ~isWriting
    <2>1. inFlight = <<>> /\ ~failed /\ io # "finish"
      BY <1>2 DEF WriterInv, OneWriteInFlight, FinishIsExclusive, FailureIsFinal
    <2>2. isWriting' = TRUE /\ inFlight' = Append(<<>>, Head(msgQueue))
      BY <1>2, <2>1 DEF AttemptWrite
    <2>3. inFlight' = <<Head(msgQueue)>> /\ inFlight' \in Seq(Messages)
      BY <1>2, <2>2 DEF WriterInv, TypeOK
    <2> QED
      BY <1>2, <2>1, <2>2, <2>3 DEF OneWriteInFlight, FinishIsExclusive, FailureIsFinal
  <1> QED BY <1>1, <1>2

(* The invariant holds whatever value isWriting_ starts with. *)
LEMMA WriterInvInit == Init => WriterInv
  <1> SUFFICES ASSUME Init PROVE WriterInv
    OBVIOUS
  <1>1. msgQueue \in Seq(Messages) /\ inFlight \in Seq(Messages) /\ delivered \in Seq(Messages)
    BY DEF Init
  <1>2. calls \in [Writers -> 0 .. MaxWrites] /\ inWrite \subseteq Writers
    BY WriterAssumption DEF Init
  <1>3. io \in {"polling", "finish", "next"} /\ isWriting \in BOOLEAN /\ failed \in BOOLEAN
    BY DEF Init
  <1>4. TypeOK
    BY <1>1, <1>2, <1>3 DEF TypeOK
  <1>5. OneWriteInFlight /\ FinishIsExclusive /\ FailureIsFinal
    BY DEF Init, OneWriteInFlight, FinishIsExclusive, FailureIsFinal
  <1> QED BY <1>4, <1>5 DEF WriterInv

(* write, first half: the queue grows at its end. *)
LEMMA AddPreserves ==
  ASSUME WriterInv, NEW t \in Writers, AddToWriteQueue(t)
  PROVE  WriterInv'
  <1> DEFINE m == <<t, calls[t] + 1>>
  <1>1. m \in Messages /\ calls' \in [Writers -> 0 .. MaxWrites]
    BY WriterAssumption DEF WriterInv, TypeOK, AddToWriteQueue, Messages
  <1>2. msgQueue' = Append(msgQueue, m) /\ msgQueue \in Seq(Messages)
    BY DEF WriterInv, TypeOK, AddToWriteQueue
  <1> HIDE DEF m
  <1>3. /\ msgQueue' \in Seq(Messages)
        /\ msgQueue' # <<>>
        /\ msgQueue # <<>> => Head(msgQueue') = Head(msgQueue)
    BY <1>1, <1>2, AppendKeepsHead
  <1>4. TypeOK'
    BY <1>1, <1>3 DEF WriterInv, TypeOK, AddToWriteQueue
  <1>5. OneWriteInFlight' /\ FinishIsExclusive' /\ FailureIsFinal'
    BY <1>3 DEF WriterInv, AddToWriteQueue, OneWriteInFlight, FinishIsExclusive, FailureIsFinal
  <1> QED BY <1>4, <1>5 DEF WriterInv

(* write, second half: the thread may find the polling thread anywhere. *)
LEMMA WriteAttemptsPreserves ==
  ASSUME WriterInv, NEW t \in Writers, WriteAttempts(t)
  PROVE  WriterInv'
  <1>1. /\ isWriting' \in BOOLEAN
        /\ inFlight' \in Seq(Messages)
        /\ OneWriteInFlight' /\ FinishIsExclusive' /\ FailureIsFinal'
    BY AttemptPreserves DEF WriteAttempts
  <1>2. TypeOK'
    BY <1>1 DEF WriterInv, TypeOK, WriteAttempts
  <1> QED BY <1>1, <1>2 DEF WriterInv

(* The attempt that the end of a write makes. *)
LEMMA NextWritePreserves ==
  ASSUME WriterInv, NextWrite
  PROVE  WriterInv'
  <1>1. /\ isWriting' \in BOOLEAN
        /\ inFlight' \in Seq(Messages)
        /\ OneWriteInFlight' /\ FinishIsExclusive' /\ FailureIsFinal'
    BY AttemptPreserves DEF NextWrite
  <1>2. TypeOK'
    BY <1>1 DEF WriterInv, TypeOK, NextWrite
  <1> QED BY <1>1, <1>2 DEF WriterInv

(* The write in flight is the only one, so its end leaves none. *)
LEMMA InFlightIsSingle ==
  ASSUME WriterInv, inFlight # <<>>
  PROVE  /\ Head(inFlight) = Head(msgQueue)
         /\ Head(msgQueue) \in Messages
         /\ Tail(inFlight) = <<>>
  <1>1. inFlight = <<Head(msgQueue)>> /\ msgQueue # <<>> /\ msgQueue \in Seq(Messages)
    BY DEF WriterInv, TypeOK, OneWriteInFlight
  <1> QED BY <1>1, HeadTailProperties

(* gRPC completes a write. *)
LEMMA CompletePreserves ==
  ASSUME WriterInv, CompleteWrite
  PROVE  WriterInv'
  <1>1. inFlight' = <<>> /\ delivered' \in Seq(Messages)
    BY InFlightIsSingle, AppendProperties DEF CompleteWrite, WriterInv, TypeOK
  <1>2. TypeOK'
    BY <1>1, EmptySeq DEF WriterInv, TypeOK, CompleteWrite
  <1>3. OneWriteInFlight' /\ FinishIsExclusive' /\ FailureIsFinal'
    BY <1>1 DEF WriterInv, CompleteWrite, OneWriteInFlight, FinishIsExclusive, FailureIsFinal
  <1> QED BY <1>2, <1>3 DEF WriterInv

(* gRPC fails a write: isWriting_ stays set. *)
LEMMA FailPreserves ==
  ASSUME WriterInv, FailWrite
  PROVE  WriterInv'
  <1>1. inFlight' = <<>>
    BY InFlightIsSingle DEF FailWrite
  <1>2. TypeOK'
    BY <1>1, EmptySeq DEF WriterInv, TypeOK, FailWrite
  <1>3. OneWriteInFlight' /\ FinishIsExclusive' /\ FailureIsFinal'
    BY <1>1 DEF WriterInv, FailWrite, OneWriteInFlight, FinishIsExclusive, FailureIsFinal
  <1> QED BY <1>2, <1>3 DEF WriterInv

(* finishWrite pops the queue and releases the flag. *)
LEMMA FinishPreserves ==
  ASSUME WriterInv, FinishWrite
  PROVE  WriterInv'
  <1>1. msgQueue # <<>> /\ inFlight = <<>> /\ ~failed
    BY DEF WriterInv, FinishWrite, FinishIsExclusive, FailureIsFinal
  <1>2. msgQueue' \in Seq(Messages)
    BY <1>1, HeadTailProperties DEF FinishWrite, WriterInv, TypeOK
  <1>3. TypeOK'
    BY <1>2 DEF WriterInv, TypeOK, FinishWrite
  <1>4. OneWriteInFlight' /\ FinishIsExclusive' /\ FailureIsFinal'
    BY <1>1 DEF FinishWrite, OneWriteInFlight, FinishIsExclusive, FailureIsFinal
  <1> QED BY <1>3, <1>4 DEF WriterInv

(* Every step keeps the invariant. *)
LEMMA WriterInvStep == WriterInv /\ [Next]_vars => WriterInv'
  <1> SUFFICES ASSUME WriterInv, [Next]_vars PROVE WriterInv'
    OBVIOUS
  <1>1. CASE \E t \in Writers : AddToWriteQueue(t)
    BY <1>1, AddPreserves
  <1>2. CASE \E t \in Writers : WriteAttempts(t)
    BY <1>2, WriteAttemptsPreserves
  <1>3. CASE CompleteWrite
    BY <1>3, CompletePreserves
  <1>4. CASE FailWrite
    BY <1>4, FailPreserves
  <1>5. CASE FinishWrite
    BY <1>5, FinishPreserves
  <1>6. CASE NextWrite
    BY <1>6, NextWritePreserves
  <1>7. CASE Quiet \/ UNCHANGED vars
    <2>1. UNCHANGED vars
      BY <1>7 DEF Quiet
    <2> QED
      BY <2>1 DEF vars, WriterInv, TypeOK, OneWriteInFlight, FinishIsExclusive, FailureIsFinal
  <1> QED BY <1>1, <1>2, <1>3, <1>4, <1>5, <1>6, <1>7 DEF Next, IoStep

--------------------------------------------------------------------------------

(* The handler's fields keep their types. *)
THEOREM WriterTypes == Spec => []TypeOK
  <1>1. WriterInv => TypeOK
    BY DEF WriterInv
  <1> QED BY <1>1, WriterInvInit, WriterInvStep, PTL DEF Spec

(* attemptWrite never starts a write while another one is outstanding, and the
   outstanding one is the front of msgQueue_, whatever number of threads call
   write and whatever isWriting_ starts as. *)
THEOREM AtMostOneWrite == Spec => []OneWriteInFlight
  <1>1. WriterInv => OneWriteInFlight
    BY DEF WriterInv
  <1> QED BY <1>1, WriterInvInit, WriterInvStep, PTL DEF Spec

(* After a failed write isWriting_ stays set, so no write follows it. *)
THEOREM FailureStopsWrites == Spec => []NoWriteAfterFailure
  <1>1. WriterInv => NoWriteAfterFailure
    BY DEF WriterInv, FailureIsFinal, NoWriteAfterFailure
  <1> QED BY <1>1, WriterInvInit, WriterInvStep, PTL DEF Spec

--------------------------------------------------------------------------------

(* Appending to the second of two sequences appends to the two together. *)
LEMMA ConcatAppend ==
  ASSUME NEW S, NEW d \in Seq(S), NEW p \in Seq(S), NEW m \in S
  PROVE  d \o Append(p, m) = Append(d \o p, m)
  <1>1. <<m>> \in Seq(S)
    OBVIOUS
  <1>2. Append(p, m) = p \o <<m>> /\ d \o p \in Seq(S)
    BY AppendIsConcat, ConcatProperties
  <1>3. Append(d \o p, m) = (d \o p) \o <<m>>
    BY <1>2, AppendIsConcat
  <1> QED BY <1>1, <1>2, <1>3, ConcatAssociative

(* A message that goes from the front of a queue to the end of a sequence
   leaves the two together as they were, and was the next one of them. *)
LEMMA MoveFront ==
  ASSUME NEW S, NEW d \in Seq(S), NEW q \in Seq(S), q # <<>>
  PROVE  /\ Append(d, Head(q)) \o Tail(q) = d \o q
         /\ Len(d) < Len(d \o q)
         /\ (d \o q)[Len(d) + 1] = Head(q)
  <1>1. /\ Head(q) \in S /\ Head(q) = q[1] /\ Tail(q) \in Seq(S)
        /\ Len(Tail(q)) = Len(q) - 1
        /\ \A i \in 1 .. Len(Tail(q)) : Tail(q)[i] = q[i + 1]
    BY HeadTailProperties
  <1>2. Len(d) \in Nat /\ Len(q) \in Nat /\ Len(q) > 0
    BY EmptySeq, LenProperties
  <1>3. /\ d \o q \in Seq(S)
        /\ Len(d \o q) = Len(d) + Len(q)
        /\ \A i \in 1 .. Len(d) + Len(q) :
              (d \o q)[i] = IF i <= Len(d) THEN d[i] ELSE q[i - Len(d)]
    BY ConcatProperties
  <1> DEFINE a == Append(d, Head(q))
  <1>4. /\ a \in Seq(S) /\ Len(a) = Len(d) + 1
        /\ \A i \in 1 .. Len(d) : a[i] = d[i]
        /\ a[Len(d) + 1] = Head(q)
    BY <1>1, AppendProperties
  <1> HIDE DEF a
  <1>5. /\ a \o Tail(q) \in Seq(S)
        /\ Len(a \o Tail(q)) = Len(a) + Len(Tail(q))
        /\ \A i \in 1 .. Len(a) + Len(Tail(q)) :
              (a \o Tail(q))[i] = IF i <= Len(a) THEN a[i] ELSE Tail(q)[i - Len(a)]
    BY <1>1, <1>4, ConcatProperties
  <1>6. Len(a \o Tail(q)) = Len(d \o q)
    BY <1>1, <1>2, <1>3, <1>4, <1>5
  <1>7. ASSUME NEW i \in 1 .. Len(d \o q)
        PROVE  (a \o Tail(q))[i] = (d \o q)[i]
    <2>1. CASE i <= Len(d)
      BY <1>1, <1>2, <1>3, <1>4, <1>5, <2>1
    <2>2. CASE i = Len(d) + 1
      BY <1>1, <1>2, <1>3, <1>4, <1>5, <2>2
    <2>3. CASE i > Len(d) + 1
      <3>1. i - Len(a) \in 1 .. Len(Tail(q)) /\ (i - Len(a)) + 1 = i - Len(d)
        BY <1>1, <1>2, <1>3, <1>4, <2>3
      <3> QED BY <1>1, <1>2, <1>3, <1>4, <1>5, <2>3, <3>1
    <2>4. i <= Len(d) \/ i = Len(d) + 1 \/ i > Len(d) + 1
      BY <1>2, <1>3
    <2> QED BY <2>1, <2>2, <2>3, <2>4
  <1>8. a \o Tail(q) = d \o q
    BY <1>3, <1>5, <1>6, <1>7, SeqEqual
  <1> QED BY <1>1, <1>2, <1>3, <1>8 DEF a

(* The mapped variables are sequences. *)
LEMMA PendingIsSeq ==
  ASSUME WriterInv
  PROVE  Pending \in Seq(Messages) /\ delivered \in Seq(Messages) /\ msgQueue \in Seq(Messages)
  <1>1. msgQueue \in Seq(Messages) /\ delivered \in Seq(Messages)
    BY DEF WriterInv, TypeOK
  <1>2. io = "finish" => Tail(msgQueue) \in Seq(Messages)
    BY <1>1, HeadTailProperties DEF WriterInv, FinishIsExclusive
  <1> QED BY <1>1, <1>2 DEF Pending

(* addToWriteQueue puts its message behind those accepted before. *)
LEMMA AddAppends ==
  ASSUME WriterInv, NEW t \in Writers, AddToWriteQueue(t)
  PROVE  /\ <<t, calls[t] + 1>> \in Messages
         /\ Accepted' = Append(Accepted, <<t, calls[t] + 1>>)
  <1> DEFINE m == <<t, calls[t] + 1>>
  <1>1. m \in Messages
    BY WriterAssumption DEF WriterInv, TypeOK, AddToWriteQueue, Messages
  <1>2. /\ msgQueue' = Append(msgQueue, m)
        /\ io' = io /\ delivered' = delivered
    BY DEF AddToWriteQueue
  <1> HIDE DEF m
  <1>3. io = "finish" => Tail(Append(msgQueue, m)) = Append(Tail(msgQueue), m)
    BY PendingIsSeq, HeadTailAppend DEF WriterInv, FinishIsExclusive
  <1>4. Pending' = Append(Pending, m)
    BY <1>2, <1>3 DEF Pending
  <1>5. Accepted' = Append(Accepted, m)
    BY <1>1, <1>2, <1>4, PendingIsSeq, ConcatAppend DEF Accepted
  <1> QED BY <1>1, <1>5 DEF m

(* addToWriteQueue accepts a message. *)
LEMMA AddAccepts ==
  ASSUME WriterInv, NEW t \in Writers, AddToWriteQueue(t)
  PROVE  \E m \in Messages : Channel!Accept(m)
  <1>1. Channel!Accept(<<t, calls[t] + 1>>)
    BY AddAppends DEF Channel!Accept, AddToWriteQueue
  <1> QED BY <1>1, AddAppends

(* The completion of a write delivers the oldest message accepted. *)
LEMMA CompleteDelivers ==
  ASSUME WriterInv, CompleteWrite
  PROVE  Channel!Deliver
  <1>1. io # "finish" /\ io' = "finish" /\ msgQueue' = msgQueue /\ failed' = failed /\ ~failed
    BY DEF CompleteWrite
  <1>2. msgQueue # <<>> /\ delivered' = Append(delivered, Head(msgQueue))
    BY InFlightIsSingle DEF CompleteWrite, WriterInv, OneWriteInFlight
  <1>3. Pending = msgQueue /\ Pending' = Tail(msgQueue)
    BY <1>1 DEF Pending
  <1>4. /\ Append(delivered, Head(msgQueue)) \o Tail(msgQueue) = delivered \o msgQueue
        /\ Len(delivered) < Len(delivered \o msgQueue)
        /\ (delivered \o msgQueue)[Len(delivered) + 1] = Head(msgQueue)
    BY <1>2, PendingIsSeq, MoveFront
  <1>5. /\ Accepted' = Accepted
        /\ Len(delivered) < Len(Accepted)
        /\ delivered' = Append(delivered, Accepted[Len(delivered) + 1])
    BY <1>2, <1>3, <1>4 DEF Accepted
  <1> QED BY <1>1, <1>5 DEF Channel!Deliver

(* The other steps leave the messages accepted and delivered as they are. *)
LEMMA OthersStutter ==
  ASSUME WriterInv,
         FinishWrite \/ NextWrite \/ FailWrite \/ (\E t \in Writers : WriteAttempts(t))
  PROVE  Accepted' = Accepted /\ delivered' = delivered
  <1>1. delivered' = delivered
    BY DEF FinishWrite, NextWrite, FailWrite, WriteAttempts
  <1>2. CASE FinishWrite
    BY <1>2 DEF WriterInv, FinishIsExclusive, FinishWrite, Pending, Accepted
  <1>3. CASE NextWrite \/ FailWrite \/ (\E t \in Writers : WriteAttempts(t))
    BY <1>3 DEF NextWrite, FailWrite, WriteAttempts, Pending, Accepted
  <1> QED BY <1>1, <1>2, <1>3

(* Nothing is accepted at first. *)
LEMMA ChannelInit == Init => Channel!Init
  <1> SUFFICES ASSUME Init PROVE Channel!Init
    OBVIOUS
  <1>1. delivered = <<>> /\ Pending = <<>> /\ failed = FALSE
    BY DEF Init, Pending
  <1>2. <<>> \o <<>> = <<>>
    BY EmptySeq, ConcatEmptySeq
  <1> QED BY <1>1, <1>2 DEF Channel!Init, Accepted

(* Every step is one of the channel or leaves it alone. *)
LEMMA ChannelStep ==
  WriterInv /\ [Next]_vars => [Channel!Next]_<<Accepted, delivered, failed>>
  <1> SUFFICES ASSUME WriterInv, [Next]_vars
               PROVE  [Channel!Next]_<<Accepted, delivered, failed>>
    OBVIOUS
  <1>1. CASE \E t \in Writers : AddToWriteQueue(t)
    BY <1>1, AddAccepts DEF Channel!Next
  <1>2. CASE CompleteWrite
    BY <1>2, CompleteDelivers DEF Channel!Next
  <1>3. CASE FailWrite
    <2>1. Channel!Fail
      BY <1>3, OthersStutter DEF FailWrite, Channel!Fail
    <2> QED BY <2>1 DEF Channel!Next
  <1>4. CASE FinishWrite \/ NextWrite \/ (\E t \in Writers : WriteAttempts(t))
    BY <1>4, OthersStutter DEF FinishWrite, NextWrite, WriteAttempts
  <1>5. CASE Quiet \/ UNCHANGED vars
    BY <1>5 DEF Quiet, vars, Accepted, Pending
  <1> QED BY <1>1, <1>2, <1>3, <1>4, <1>5 DEF Next, IoStep

(* The queue, the flag and the completion events implement MessageChannel: the
   peer receives the messages in the order addToWriteQueue took them, each at
   most once, and none after a failed write. *)
THEOREM WriterImplementsChannel == Spec => DeliversInOrder
  BY ChannelInit, ChannelStep, WriterInvInit, WriterInvStep, PTL
     DEF Spec, DeliversInOrder, Channel!Spec

================================================================================
