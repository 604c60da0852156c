-------------------------- MODULE ServerHandlerProofs --------------------------
(***************************************************************************)
(* For any number of threads, handlers, bins and ranges, and whatever the   *)
(* uninitialized fields hold: the types of ServerHandler, that every event  *)
(* finds its handler, that the server keeps accepting clients, and that no  *)
(* more handlers wait for one than there are threads.                       *)
(***************************************************************************)
EXTENDS ServerHandler, FiniteSetTheorems, TLAPS

States == {"none", "posted", "ok", "failed"}

--------------------------------------------------------------------------------

(* What a thread holds while it adds a handler: the one it has constructed, and
   the one whose client it is about to serve, which has nothing outstanding and
   is no other thread's. *)
ThreadOK(t) ==
    /\ at[t] = "inserting" <=> created[t] # None
    /\ created[t] # None => created[t] <= made
    /\ connecting[t] # None =>
          /\ at[t] \in {"adding", "inserting"}
          /\ connecting[t] \in handlers
          /\ \A o \in Operation : ~Outstanding(connecting[t], o)
          /\ \A u \in Threads : connecting[u] = connecting[t] => u = t

(* The life of a handler: constructed, waiting for a client, reading, finished.
   Finish is posted only for a stopped handler that reads no more. *)
HandlerOK(h) ==
    /\ h > made => h \notin handlers /\ \A o \in Operation : ~Outstanding(h, o)
    /\ Outstanding(h, "CONNECT") => ~Outstanding(h, "READ") /\ ~Outstanding(h, "FINISH")
    /\ Outstanding(h, "FINISH") => /\ ~Outstanding(h, "READ")
                                   /\ stopped[h] /\ hasAuthenticated[h]

LifeInv == /\ ServerTypeOK
           /\ \A t \in Threads : ThreadOK(t)
           /\ \A h \in Handlers : HandlerOK(h)
           /\ EventsFindHandler

LEMMA CompletionResults ==
    ASSUME NEW o \in Operation, NEW result \in CompletesAs(o)
    PROVE  result \in {"ok", "failed"}
BY DEF CompletesAs

LEMMA StopPostsFinish ==
    ASSUME NEW h, NEW w \in [Operation -> States]
    PROVE  /\ AfterStop(h, w) \in [Operation -> States]
           /\ AfterStop(h, w)["CONNECT"] = w["CONNECT"]
           /\ AfterStop(h, w)["READ"] = w["READ"]
           /\ ~hasAuthenticated[h] => AfterStop(h, w) = w
           /\ AfterStop(h, w)["FINISH"] # w["FINISH"] => ~stopped[h] /\ hasAuthenticated[h]
BY DEF AfterStop, Operation, States

(* Every step of the server keeps the types of its fields. *)
LEMMA TypeStep == LifeInv /\ [Next]_vars => ServerTypeOK'
<1> SUFFICES ASSUME LifeInv, [Next]_vars PROVE ServerTypeOK'
  OBVIOUS
<1> ServerTypeOK
  BY DEF LifeInv
<1> USE ServerAssumption DEF Threads
<1>1. ASSUME NEW t \in Threads, RegisterService(t) PROVE ServerTypeOK'
  BY <1>1 DEF ServerTypeOK, RegisterService, flags
<1>2. ASSUME NEW t \in Threads, ConstructHandler(t) PROVE ServerTypeOK'
  BY <1>2 DEF ServerTypeOK, ConstructHandler, manager, Handlers, Operation
<1>3. ASSUME NEW t \in Threads, InsertHandler(t) PROVE ServerTypeOK'
  <2>1. t \in 1 .. MaxIoThreads /\ created[t] \in Handlers
    BY <1>3 DEF ServerTypeOK, InsertHandler, LifeInv, ThreadOK
  <2> QED
    BY <1>3, <2>1 DEF ServerTypeOK, InsertHandler, flags, Operation
<1>4. ASSUME NEW t \in Threads, NEW h \in Handlers, NEW o \in Operation, DropEvent(t, h, o)
      PROVE  ServerTypeOK'
  BY <1>4 DEF ServerTypeOK, DropEvent, manager, flags, Operation
<1>5. ASSUME NEW t \in Threads, NEW h \in Handlers, HandleConnect(t, h) PROVE ServerTypeOK'
  <2>0. ops[h] \in [Operation -> States]
    BY DEF ServerTypeOK, States
  <2>1. CASE ops[h]["CONNECT"] = "ok"
    <3>0. ops' = [ops EXCEPT ![h]["CONNECT"] = "none"]
      BY <1>5, <2>1 DEF HandleConnect
    <3>1. ops' \in [Handlers -> [Operation -> States]]
      BY <3>0 DEF ServerTypeOK, States, Operation
    <3>2. /\ at' = [at EXCEPT ![t] = "adding"]
          /\ connecting' = [connecting EXCEPT ![t] = h]
          /\ UNCHANGED <<numIoThreads, created, made, queue, up, manager, flags>>
      BY <1>5, <2>1 DEF HandleConnect, flags
    <3> QED
      BY <3>1, <3>2 DEF ServerTypeOK, manager, flags, States
  <2>2. CASE ops[h]["CONNECT"] = "failed"
    <3>1. AfterStop(h, [ops[h] EXCEPT !["CONNECT"] = "none"]) \in [Operation -> States]
      BY <2>0, StopPostsFinish DEF Operation, States
    <3> QED
      BY ZenonT(60), <1>5, <2>2, <3>1 DEF ServerTypeOK, HandleConnect, Stop, manager, States
  <2> QED
    BY <1>5, <2>1, <2>2 DEF HandleConnect
<1>6. ASSUME NEW t \in Threads, NEW h \in Handlers, FailedRead(t, h) PROVE ServerTypeOK'
  BY <1>6, StopPostsFinish
     DEF ServerTypeOK, FailedRead, Stop, manager, Operation, States
<1>7. ASSUME NEW t \in Threads, NEW h \in Handlers, NEW m \in ClientMessage, HandleRead(t, h, m)
      PROVE  ServerTypeOK'
  <2>1. BinOf(m) \in Keys /\ (m.kind = "shard_info_update" => m.infos \subseteq Ranges)
    BY DEF BinOf, Keys, ClientMessage
  <2>2. connections' \in [Keys -> Handlers \cup {None}]
    BY <1>7, <2>1 DEF ServerTypeOK, HandleRead, RegisterBin
  <2>3. shardRangeInfo' \in [Handlers -> SUBSET Ranges]
    BY <1>7, <2>1 DEF ServerTypeOK, HandleRead
  <2>4. ops' \in [Handlers -> [Operation -> States]]
    BY <1>7, StopPostsFinish DEF ServerTypeOK, HandleRead, AttemptRead, States, Operation
  <2> QED
    BY <1>7, <2>2, <2>3, <2>4 DEF ServerTypeOK, HandleRead, Stop, States
<1>8. ASSUME NEW t \in Threads, NEW h \in Handlers, HandleFinish(t, h) PROVE ServerTypeOK'
  BY <1>8 DEF ServerTypeOK, HandleFinish, flags, Operation
<1>9. ASSUME NEW h \in Handlers, NEW o \in Operation, CompleteOp(h, o) PROVE ServerTypeOK'
  BY <1>9, CompletionResults DEF ServerTypeOK, CompleteOp, manager, flags, Operation
<1>10. CASE ShutdownServer
  BY <1>10 DEF ServerTypeOK, ShutdownServer, manager, flags
<1>11. CASE UNCHANGED vars
  BY <1>11 DEF ServerTypeOK, vars, manager, flags
<1> QED
  BY <1>1, <1>2, <1>3, <1>4, <1>5, <1>6, <1>7, <1>8, <1>9, <1>10, <1>11
     DEF Next, ThreadStep, ThreadStepNoMessage

(* The threads and the sets they and the handlers come from do not change. *)
LEMMA FixedSets ==
    ASSUME ServerTypeOK, [Next]_vars
    PROVE  /\ Threads' = Threads
           /\ Threads \subseteq 1 .. MaxIoThreads
           /\ Handlers \subseteq Nat /\ None \notin Handlers /\ made \in Nat
<1>1. numIoThreads' = numIoThreads
  <2>1. ASSUME NEW t \in Threads, ThreadStep(t) PROVE numIoThreads' = numIoThreads
    <3>1. ASSUME RegisterService(t) \/ ConstructHandler(t) \/ InsertHandler(t)
          PROVE  numIoThreads' = numIoThreads
      BY <3>1 DEF RegisterService, ConstructHandler, InsertHandler
    <3>2. ASSUME NEW h, NEW o, NEW m,
                 \/ DropEvent(t, h, o) \/ HandleConnect(t, h) \/ FailedRead(t, h)
                 \/ HandleRead(t, h, m) \/ HandleFinish(t, h)
          PROVE  numIoThreads' = numIoThreads
      BY <3>2 DEF DropEvent, HandleConnect, FailedRead, HandleRead, HandleFinish
    <3> QED
      BY <2>1, <3>1, <3>2 DEF ThreadStep, ThreadStepNoMessage
  <2>2. ASSUME NEW h, NEW o, CompleteOp(h, o) \/ ShutdownServer \/ UNCHANGED vars
        PROVE  numIoThreads' = numIoThreads
    BY <2>2 DEF CompleteOp, ShutdownServer, vars
  <2> QED
    BY <2>1, <2>2 DEF Next
<1> QED
  BY <1>1, ServerAssumption DEF Threads, Handlers, ServerTypeOK

(* A step that changes neither threads nor handlers, nor which operations are
   outstanding, keeps what is known of them. *)
LEMMA LifeFrame ==
    ASSUME LifeInv, [Next]_vars,
           UNCHANGED <<at, connecting, created, made, handlers, stopped, hasAuthenticated>>,
           \A g \in Handlers, o \in Operation : Outstanding(g, o)' <=> Outstanding(g, o)
    PROVE  /\ \A t \in Threads' : ThreadOK(t)'
           /\ \A h \in Handlers : HandlerOK(h)'
           /\ EventsFindHandler'
<1>0. /\ ServerTypeOK /\ EventsFindHandler
      /\ \A t \in Threads : ThreadOK(t)
      /\ \A h \in Handlers : HandlerOK(h)
      /\ Threads' = Threads /\ Threads \subseteq 1 .. MaxIoThreads
  BY FixedSets DEF LifeInv
<1>1. ASSUME NEW u \in Threads PROVE ThreadOK(u)'
  BY <1>0 DEF ServerTypeOK, ThreadOK
<1>2. ASSUME NEW g \in Handlers PROVE HandlerOK(g)'
  BY <1>0 DEF HandlerOK, Operation
<1>3. EventsFindHandler'
  BY <1>0 DEF EventsFindHandler, Operation
<1> QED
  BY <1>0, <1>1, <1>2, <1>3

(* What a step does that changes one handler's operations, of which one was
   outstanding, and perhaps stops it. *)
LEMMA StopFrame ==
    ASSUME LifeInv, [Next]_vars,
           NEW h \in handlers, NEW w, NEW s \in BOOLEAN,
           ops' = [ops EXCEPT ![h] = w],
           stopped' = [stopped EXCEPT ![h] = s],
           UNCHANGED <<at, connecting, created, made, handlers, hasAuthenticated>>,
           \E o \in Operation : Outstanding(h, o),
           w["CONNECT"] = "none",
           w["FINISH"] # "none" => w["READ"] = "none" /\ s /\ hasAuthenticated[h]
    PROVE  /\ \A t \in Threads' : ThreadOK(t)'
           /\ \A g \in Handlers : HandlerOK(g)'
           /\ EventsFindHandler'
<1>0. /\ ServerTypeOK /\ EventsFindHandler
      /\ \A t \in Threads : ThreadOK(t)
      /\ \A g \in Handlers : HandlerOK(g)
      /\ Threads' = Threads /\ Threads \subseteq 1 .. MaxIoThreads
      /\ h \in Handlers
  BY FixedSets DEF LifeInv, ServerTypeOK
<1>1. /\ ops'[h] = w /\ stopped'[h] = s
      /\ \A g \in Handlers : g # h => ops'[g] = ops[g] /\ stopped'[g] = stopped[g]
  BY <1>0 DEF ServerTypeOK
<1>2. ASSUME NEW u \in Threads PROVE ThreadOK(u)'
  <2>1. connecting[u] # None => connecting[u] # h /\ connecting[u] \in Handlers
    BY <1>0 DEF ServerTypeOK, ThreadOK
  <2>2. connecting[u] # None => ops'[connecting[u]] = ops[connecting[u]]
    BY <1>1, <2>1
  <2> QED
    BY <1>0, <2>2 DEF ThreadOK, Outstanding
<1>3. ASSUME NEW g \in Handlers PROVE HandlerOK(g)'
  <2>1. CASE g = h
    BY <1>0, <1>1, <2>1 DEF HandlerOK, Outstanding
  <2>2. CASE g # h
    BY <1>0, <1>1, <2>2 DEF HandlerOK, Outstanding
  <2> QED
    BY <2>1, <2>2
<1>4. EventsFindHandler'
  BY <1>0, <1>1 DEF EventsFindHandler, Outstanding
<1> QED
  BY <1>0, <1>2, <1>3, <1>4

(* The invariant of the handlers' lives is inductive. *)
LEMMA LifeStep == LifeInv /\ [Next]_vars => LifeInv'
<1> DEFINE Inv == /\ \A t \in Threads : ThreadOK(t)
                  /\ \A h \in Handlers : HandlerOK(h)
                  /\ EventsFindHandler
<1> SUFFICES ASSUME LifeInv, [Next]_vars PROVE Inv'
  BY TypeStep DEF LifeInv
<1>0. /\ ServerTypeOK /\ Inv
      /\ Threads' = Threads /\ Threads \subseteq 1 .. MaxIoThreads
      /\ Handlers \subseteq Nat /\ None \notin Handlers /\ made \in Nat
  BY FixedSets DEF LifeInv
<1>1. ASSUME NEW t \in Threads, RegisterService(t) PROVE Inv'
  BY <1>0, <1>1
     DEF ServerTypeOK, RegisterService, flags, ThreadOK, HandlerOK, EventsFindHandler, Outstanding
<1>2. ASSUME NEW t \in Threads, ConstructHandler(t) PROVE Inv'
  <2> DEFINE h == made + 1
  <2>1. /\ h \in Handlers /\ at[t] = "adding" /\ made' = h
        /\ created' = [created EXCEPT ![t] = h]
        /\ at' = [at EXCEPT ![t] = "inserting"]
        /\ ops' = [ops EXCEPT ![h]["CONNECT"] = "posted"]
        /\ UNCHANGED <<connecting, handlers>>
    BY <1>2 DEF ConstructHandler, manager
  <2>2. \A g \in Handlers : g # h => /\ ops'[g] = ops[g]
                                     /\ stopped'[g] = stopped[g]
                                     /\ hasAuthenticated'[g] = hasAuthenticated[g]
    BY <1>0, <1>2 DEF ServerTypeOK, ConstructHandler
  <2>3. h \notin handlers /\ \A o \in Operation : ops[h][o] = "none"
    BY <1>0, <2>1 DEF HandlerOK, Outstanding
  <2>4. ops'[h]["READ"] = "none" /\ ops'[h]["FINISH"] = "none"
    BY <1>0, <2>1, <2>3 DEF ServerTypeOK, Operation
  <2>5. ASSUME NEW u \in Threads PROVE ThreadOK(u)'
    <3>1. connecting[u] # None => connecting[u] \in Handlers /\ connecting[u] # h
      BY <1>0, <2>3 DEF ServerTypeOK, ThreadOK
    <3>2. connecting[u] # None => ops'[connecting[u]] = ops[connecting[u]]
      BY <2>2, <3>1
    <3>3. /\ u = t => created'[u] = h /\ at'[u] = "inserting"
          /\ u # t => created'[u] = created[u] /\ at'[u] = at[u]
      BY <1>0, <2>1 DEF ServerTypeOK
    <3>4. h \in Nat /\ h # None /\ (created[u] # None => created[u] \in Nat)
      BY <1>0, <2>1 DEF ServerTypeOK
    <3>5. ThreadOK(u)
      BY <1>0
    <3>6. (at[u] = "inserting" <=> created[u] # None)' /\ (created[u] # None => created[u] <= made)'
      BY <1>0, <2>1, <3>3, <3>4, <3>5 DEF ThreadOK
    <3>7. connecting[u] # None => at'[u] \in {"adding", "inserting"}
      BY <3>3, <3>5 DEF ThreadOK
    <3> QED
      BY <1>0, <2>1, <3>2, <3>5, <3>6, <3>7 DEF ThreadOK, Outstanding
  <2>6. ASSUME NEW g \in Handlers PROVE HandlerOK(g)'
    <3>1. CASE g = h
      BY <1>0, <2>1, <2>4, <3>1 DEF HandlerOK, Outstanding
    <3>2. CASE g # h
      BY <1>0, <2>1, <2>2, <3>2 DEF HandlerOK, Outstanding
    <3> QED
      BY <3>1, <3>2
  <2>7. created'[t] = h /\ \A u \in Threads : created[u] # None => created'[u] = created[u]
    BY <1>0, <2>1 DEF ServerTypeOK, ThreadOK
  <2>8. EventsFindHandler'
    BY <1>0, <2>1, <2>2, <2>4, <2>7 DEF EventsFindHandler, Outstanding
  <2> QED
    BY <1>0, <2>5, <2>6, <2>8
<1>3. ASSUME NEW t \in Threads, InsertHandler(t) PROVE Inv'
  <2> DEFINE c == connecting[t]
  <2>1. /\ at[t] = "inserting"
        /\ handlers' = handlers \cup {created[t]}
        /\ created' = [created EXCEPT ![t] = None]
        /\ connecting' = [connecting EXCEPT ![t] = None]
        /\ at' = [at EXCEPT ![t] = "polling"]
        /\ UNCHANGED <<made, stopped, hasAuthenticated>>
    BY <1>3 DEF InsertHandler, flags
  <2>2. \A g \in Handlers, o \in Operation :
           ops'[g][o] = IF g = c /\ o = "READ" THEN "posted" ELSE ops[g][o]
    BY <1>0, <1>3 DEF ServerTypeOK, InsertHandler, Operation
  <2>3. c # None => /\ c \in Handlers /\ c \in handlers /\ c <= made
                    /\ \A o \in Operation : ops[c][o] = "none"
    <3>1. c # None => /\ c \in Handlers /\ c \in handlers
                      /\ \A o \in Operation : ops[c][o] = "none"
      BY <1>0 DEF ServerTypeOK, ThreadOK, Outstanding
    <3>2. ASSUME c # None PROVE c <= made
      <4>1. c \in Nat /\ HandlerOK(c) /\ c \in handlers
        BY <1>0, <3>1, <3>2
      <4> QED
        BY <1>0, <4>1 DEF HandlerOK
    <3> QED
      BY <3>1, <3>2
  <2>4. created[t] \in Handlers /\ created[t] <= made
    BY <1>0, <2>1 DEF ServerTypeOK, ThreadOK
  <2>5. ASSUME NEW u \in Threads PROVE ThreadOK(u)'
    <3>1. CASE u = t
      BY <1>0, <2>1, <3>1 DEF ServerTypeOK, ThreadOK
    <3>2. CASE u # t
      <4>1. created'[u] = created[u] /\ connecting'[u] = connecting[u] /\ at'[u] = at[u]
        BY <1>0, <2>1, <3>2 DEF ServerTypeOK
      <4>2. ASSUME connecting[u] # None, NEW o \in Operation
            PROVE  ops'[connecting[u]][o] = ops[connecting[u]][o]
        BY ZenonT(60), <1>0, <2>2, <3>2, <4>2 DEF ServerTypeOK, ThreadOK
      <4>3. \A v \in Threads : connecting'[v] = connecting[v] \/ connecting'[v] = None
        BY <1>0, <2>1 DEF ServerTypeOK
      <4> QED
        BY <1>0, <2>1, <4>1, <4>2, <4>3 DEF ThreadOK, Outstanding
    <3> QED
      BY <3>1, <3>2
  <2>6. ASSUME NEW g \in Handlers PROVE HandlerOK(g)'
    <3>1. CASE g = c
      BY <1>0, <2>1, <2>2, <2>3, <3>1 DEF HandlerOK, Outstanding, Operation
    <3>2. CASE g # c
      BY <1>0, <2>1, <2>2, <2>4, <3>2 DEF HandlerOK, Outstanding, Operation
    <3> QED
      BY <3>1, <3>2
  <2>7. \A u \in Threads : u # t => created'[u] = created[u]
    BY <1>0, <2>1 DEF ServerTypeOK
  <2>8. EventsFindHandler'
    BY <1>0, <2>1, <2>2, <2>3, <2>7 DEF EventsFindHandler, Outstanding, Operation
  <2> QED
    BY <1>0, <2>5, <2>6, <2>8
<1>4. ASSUME NEW t \in Threads, NEW h \in Handlers, NEW o \in Operation, DropEvent(t, h, o)
      PROVE  Inv'
  <2>1. \A g \in Handlers, q \in Operation : ops'[g][q] = ops[g][q] \/ ops'[g][q] = "none"
    BY <1>0, <1>4 DEF ServerTypeOK, DropEvent
  <2>2. UNCHANGED <<at, connecting, created, made, handlers, stopped, hasAuthenticated>>
    BY <1>4 DEF DropEvent, manager, flags
  <2>3. ASSUME NEW u \in Threads PROVE ThreadOK(u)'
    BY ZenonT(60), <1>0, <2>1, <2>2 DEF ServerTypeOK, ThreadOK, Outstanding
  <2>4. ASSUME NEW g \in Handlers PROVE HandlerOK(g)'
    BY <1>0, <2>1, <2>2 DEF HandlerOK, Outstanding, Operation
  <2>5. EventsFindHandler'
    BY <1>0, <2>1, <2>2 DEF EventsFindHandler, Outstanding, Operation
  <2> QED
    BY <1>0, <2>3, <2>4, <2>5
<1>5. ASSUME NEW t \in Threads, NEW h \in Handlers, HandleConnect(t, h) PROVE Inv'
  <2>1. CASE ops[h]["CONNECT"] = "ok"
    <3>1. /\ ops' = [ops EXCEPT ![h]["CONNECT"] = "none"]
          /\ at' = [at EXCEPT ![t] = "adding"]
          /\ connecting' = [connecting EXCEPT ![t] = h]
          /\ at[t] = "polling" /\ h \in handlers
          /\ UNCHANGED <<created, made, handlers, stopped, hasAuthenticated>>
      BY <1>5, <2>1 DEF HandleConnect, Polls, manager
    <3>2. \A g \in Handlers, q \in Operation :
             ops'[g][q] = IF g = h /\ q = "CONNECT" THEN "none" ELSE ops[g][q]
      BY <1>0, <3>1 DEF ServerTypeOK, Operation
    <3>3. \A q \in Operation : ops'[h][q] = "none"
      BY <1>0, <2>1, <3>2 DEF HandlerOK, Outstanding, Operation
    <3>4. \A v \in Threads : /\ v = t => connecting'[v] = h /\ at'[v] = "adding"
                             /\ v # t => connecting'[v] = connecting[v] /\ at'[v] = at[v]
      BY <1>0, <3>1 DEF ServerTypeOK
    <3>5. \A v \in Threads : connecting[v] # None => connecting[v] # h /\ connecting[v] \in Handlers
      BY <1>0, <2>1 DEF ServerTypeOK, ThreadOK, Outstanding, Operation
    <3>6. ASSUME NEW u \in Threads PROVE ThreadOK(u)'
      <4>1. CASE u = t
        BY <1>0, <3>1, <3>3, <3>4, <3>5, <4>1 DEF ThreadOK, Outstanding
      <4>2. CASE u # t
        BY <1>0, <3>1, <3>2, <3>4, <3>5, <4>2 DEF ThreadOK, Outstanding
      <4> QED
        BY <4>1, <4>2
    <3>7. ASSUME NEW g \in Handlers PROVE HandlerOK(g)'
      BY <1>0, <3>1, <3>2 DEF HandlerOK, Outstanding, Operation
    <3>8. EventsFindHandler'
      BY <1>0, <3>1, <3>2 DEF EventsFindHandler, Outstanding, Operation
    <3> QED
      BY <1>0, <3>6, <3>7, <3>8
  <2>2. CASE ops[h]["CONNECT"] = "failed"
    <3>1. /\ ops' = [ops EXCEPT ![h] = AfterStop(h, [ops[h] EXCEPT !["CONNECT"] = "none"])]
          /\ stopped' = [stopped EXCEPT ![h] = TRUE]
          /\ h \in handlers
          /\ UNCHANGED <<at, connecting, created, made, handlers, hasAuthenticated>>
      BY <1>5, <2>2 DEF HandleConnect, Stop, manager
    <3>2. ops[h]["READ"] = "none" /\ ops[h]["FINISH"] = "none"
      BY <1>0, <2>2 DEF HandlerOK, Outstanding
    <3>3. /\ ops'[h]["READ"] = "none" /\ ops'[h]["CONNECT"] = "none"
          /\ ops'[h]["FINISH"] # "none" => hasAuthenticated[h]
      BY <1>0, <3>1, <3>2, StopPostsFinish DEF ServerTypeOK, Operation, States
    <3>4. \E o \in Operation : Outstanding(h, o)
      BY <2>2 DEF Operation, Outstanding
    <3> DEFINE w == AfterStop(h, [ops[h] EXCEPT !["CONNECT"] = "none"])
    <3>5. ops'[h] = w
      BY <1>0, <3>1 DEF ServerTypeOK
    <3> HIDE DEF w
    <3>6. w["CONNECT"] = "none" /\ (w["FINISH"] # "none" => w["READ"] = "none" /\ hasAuthenticated[h])
      BY <3>3, <3>5
    <3>7. ops' = [ops EXCEPT ![h] = w]
      BY <3>1 DEF w
    <3> QED
      BY <3>1, <3>4, <3>6, <3>7, StopFrame
  <2> QED
    BY <1>5, <2>1, <2>2 DEF HandleConnect
<1>6. ASSUME NEW t \in Threads, NEW h \in Handlers, FailedRead(t, h) PROVE Inv'
  <2> DEFINE w == AfterStop(h, [ops[h] EXCEPT !["READ"] = "none"])
  <2>1. /\ ops' = [ops EXCEPT ![h] = w]
        /\ stopped' = [stopped EXCEPT ![h] = TRUE]
        /\ h \in handlers /\ ops[h]["READ"] = "failed"
        /\ UNCHANGED <<at, connecting, created, made, handlers, hasAuthenticated>>
    BY <1>6 DEF FailedRead, Stop, manager
  <2>2. ops[h]["CONNECT"] = "none" /\ ops[h]["FINISH"] = "none"
    BY <1>0, <2>1 DEF HandlerOK, Outstanding
  <2>3. /\ w["READ"] = "none" /\ w["CONNECT"] = "none"
        /\ w["FINISH"] # "none" => hasAuthenticated[h]
    BY <1>0, <2>2, StopPostsFinish DEF ServerTypeOK, Operation, States
  <2>4. \E o \in Operation : Outstanding(h, o)
    BY <2>1 DEF Operation, Outstanding
  <2> HIDE DEF w
  <2> QED
    BY <2>1, <2>3, <2>4, StopFrame
<1>7. ASSUME NEW t \in Threads, NEW h \in Handlers, NEW m \in ClientMessage, HandleRead(t, h, m)
      PROVE  Inv'
  <2> DEFINE w == [ops[h] EXCEPT !["READ"] = AttemptRead(h)]
             stops == ~hasAuthenticated[h] /\ m.kind # "connection_request"
             s == IF stops THEN TRUE ELSE stopped[h]
  <2>1. /\ h \in handlers /\ ops[h]["READ"] = "ok"
        /\ UNCHANGED <<at, connecting, created, made, handlers, hasAuthenticated>>
    BY <1>7 DEF HandleRead
  <2>2. s \in BOOLEAN /\ stopped' = [stopped EXCEPT ![h] = s]
    BY <1>0, <1>7 DEF HandleRead, Stop, ServerTypeOK
  <2>3. w \in [Operation -> States]
    BY <1>0 DEF ServerTypeOK, AttemptRead, Operation, States
  <2>4. ops' = [ops EXCEPT ![h] = w]
    <3>1. stops => AfterStop(h, w) = w
      BY <2>3, StopPostsFinish
    <3> QED
      BY <1>7, <3>1 DEF HandleRead
  <2>5. ops[h]["CONNECT"] = "none" /\ ops[h]["FINISH"] = "none"
    BY <1>0, <2>1 DEF HandlerOK, Outstanding
  <2>6. w["CONNECT"] = "none" /\ w["FINISH"] = "none"
    BY <1>0, <2>5 DEF ServerTypeOK, Operation
  <2>7. \E o \in Operation : Outstanding(h, o)
    BY <2>1 DEF Operation, Outstanding
  <2> HIDE DEF w, s
  <2> QED
    BY <2>1, <2>2, <2>4, <2>6, <2>7, StopFrame
<1>8. ASSUME NEW t \in Threads, NEW h \in Handlers, HandleFinish(t, h) PROVE Inv'
  <2>1. \A g \in Handlers, q \in Operation :
           ops'[g][q] = IF g = h /\ q = "FINISH" THEN "none" ELSE ops[g][q]
    BY <1>0, <1>8 DEF ServerTypeOK, HandleFinish, Operation
  <2>2. /\ ops[h]["FINISH"] # "none" /\ handlers' = handlers \ {h}
        /\ UNCHANGED <<at, connecting, created, made, stopped, hasAuthenticated>>
    BY <1>8 DEF HandleFinish, Polls, flags
  <2>3. ASSUME NEW u \in Threads PROVE ThreadOK(u)'
    <3>1. connecting[u] # None => connecting[u] \in Handlers /\ connecting[u] # h
      BY <1>0, <2>2 DEF ServerTypeOK, ThreadOK, Outstanding, Operation
    <3>2. ThreadOK(u) /\ connecting' = connecting /\ created' = created /\ at' = at /\ made' = made
      BY <1>0, <2>2
    <3>3. ASSUME connecting[u] # None
          PROVE  /\ connecting[u] \in handlers'
                 /\ \A o \in Operation : ops'[connecting[u]][o] = "none"
      <4>1. connecting[u] \in handlers /\ \A o \in Operation : ops[connecting[u]][o] = "none"
        BY <3>2, <3>3 DEF ThreadOK, Outstanding
      <4>2. \A o \in Operation : ops'[connecting[u]][o] = ops[connecting[u]][o]
        BY <2>1, <3>1, <3>3
      <4> QED
        BY <2>2, <3>1, <3>3, <4>1, <4>2
    <3> QED
      BY <1>0, <3>2, <3>3 DEF ThreadOK, Outstanding
  <2>4. ASSUME NEW g \in Handlers PROVE HandlerOK(g)'
    BY <1>0, <2>1, <2>2 DEF HandlerOK, Outstanding, Operation
  <2>5. EventsFindHandler'
    BY <1>0, <2>1, <2>2 DEF EventsFindHandler, HandlerOK, Outstanding, Operation
  <2> QED
    BY <1>0, <2>3, <2>4, <2>5
<1>9. ASSUME NEW h \in Handlers, NEW o \in Operation, CompleteOp(h, o) PROVE Inv'
  <2>1. PICK result \in {"ok", "failed"} : ops' = [ops EXCEPT ![h][o] = result]
    BY <1>9, CompletionResults DEF CompleteOp
  <2>2. \A g \in Handlers, q \in Operation : Outstanding(g, q)' <=> Outstanding(g, q)
    BY <1>0, <1>9, <2>1 DEF ServerTypeOK, CompleteOp, Outstanding
  <2>3. UNCHANGED <<at, connecting, created, made, handlers, stopped, hasAuthenticated>>
    BY <1>9 DEF CompleteOp, manager, flags
  <2> QED
    BY <2>2, <2>3, LifeFrame
<1>10. CASE ShutdownServer
  BY <1>10, LifeFrame DEF ShutdownServer, manager, flags, Outstanding
<1>11. CASE UNCHANGED vars
  BY <1>11, LifeFrame DEF vars, manager, flags, Outstanding
<1> QED
  BY <1>1, <1>2, <1>3, <1>4, <1>5, <1>6, <1>7, <1>8, <1>9, <1>10, <1>11
     DEF Next, ThreadStep, ThreadStepNoMessage

LEMMA LifeInit == Init => LifeInv
BY ServerAssumption
   DEF Init, LifeInv, ServerTypeOK, ThreadOK, HandlerOK, EventsFindHandler, Outstanding,
       Threads, Handlers, Operation, Keys

(* The fields of the server, of its handler manager and of its handlers keep
   their types. *)
THEOREM ServerTypes == Spec => []ServerTypeOK
<1>1. LifeInv => ServerTypeOK
  BY DEF LifeInv
<1> QED
  BY <1>1, LifeInit, LifeStep, PTL DEF Spec

(* No tag that gRPC returns dangles, and only a CONNECT can be dropped: a handler
   is in requestHandlerMap_, or held by addHandler, while an operation of its is
   outstanding. *)
THEOREM EveryEventFindsHandler == Spec => []EventsFindHandler
<1>1. LifeInv => EventsFindHandler
  BY DEF LifeInv
<1> QED
  BY <1>1, LifeInit, LifeStep, PTL DEF Spec

--------------------------------------------------------------------------------

(* Handler h is on thread c's queue, waits for a client or has one, and will be
   found by c, who is not polling while it inserts it. *)
WaitsFor(h, c) == /\ queue[h] = c
                  /\ ops[h]["CONNECT"] \in {"posted", "ok"}
                  /\ h \in handlers \/ h = created[c]

(* Once every thread has registered, the one that registered last is about to
   add a handler, or one waits on its queue. *)
LastThreadWaits ==
    \/ \E t \in Threads : at[t] = "start"
    \/ /\ completionQueue \in Threads
       /\ \/ at[completionQueue] = "adding"
          \/ \E h \in Handlers : WaitsFor(h, completionQueue)

(* While the server is up no request for a client fails. *)
NoConnectFails == \A h \in Handlers : ops[h]["CONNECT"] # "failed"

WaitInv == up => NoConnectFails /\ LastThreadWaits

(* The thread that registered last is never left without a successor. *)
LEMMA WaitStep == LifeInv /\ WaitInv /\ [Next]_vars => WaitInv'
<1> SUFFICES ASSUME LifeInv, WaitInv, [Next]_vars, up' PROVE (NoConnectFails /\ LastThreadWaits)'
  BY DEF WaitInv
<1> DEFINE Goal == NoConnectFails /\ LastThreadWaits
           q == completionQueue
<1>0. /\ ServerTypeOK /\ EventsFindHandler
      /\ \A t \in Threads : ThreadOK(t)
      /\ \A h \in Handlers : HandlerOK(h)
      /\ Threads' = Threads /\ Threads \subseteq 1 .. MaxIoThreads
      /\ None \notin Handlers
  BY FixedSets DEF LifeInv
<1>1. ASSUME NEW t \in Threads, RegisterService(t) PROVE Goal'
  <2>1. up /\ NoConnectFails /\ ops' = ops
    BY <1>1 DEF RegisterService, WaitInv
  <2>2. completionQueue' = t /\ at'[t] = "adding"
    BY <1>0, <1>1 DEF ServerTypeOK, RegisterService
  <2> QED
    BY <1>0, <2>1, <2>2 DEF NoConnectFails, LastThreadWaits
<1>2. ASSUME NEW t \in Threads, ConstructHandler(t) PROVE Goal'
  <2>1. PICK h \in Handlers :
          /\ at[t] = "adding"
          /\ created' = [created EXCEPT ![t] = h]
          /\ at' = [at EXCEPT ![t] = "inserting"]
          /\ queue' = [queue EXCEPT ![h] = q]
          /\ ops' = [ops EXCEPT ![h]["CONNECT"] = "posted"]
          /\ UNCHANGED <<completionQueue, handlers, up>>
    BY <1>2 DEF ConstructHandler, manager
  <2>2. NoConnectFails /\ LastThreadWaits
    BY <2>1 DEF WaitInv
  <2>3. ops'[h]["CONNECT"] = "posted" /\ queue'[h] = q /\ created'[t] = h
    BY <1>0, <2>1 DEF ServerTypeOK, Operation
  <2>4. \A g \in Handlers : g # h => ops'[g] = ops[g] /\ queue'[g] = queue[g]
    BY <1>0, <2>1 DEF ServerTypeOK
  <2>5. NoConnectFails'
    BY <2>2, <2>3, <2>4 DEF NoConnectFails
  <2>6. \A u \in Threads : u # t => at'[u] = at[u] /\ created'[u] = created[u]
    BY <1>0, <2>1 DEF ServerTypeOK
  <2>7. CASE \E u \in Threads : at[u] = "start"
    BY <1>0, <2>1, <2>5, <2>6, <2>7 DEF LastThreadWaits
  <2>8. CASE q = t
    <3>1. WaitsFor(h, q)'
      BY <2>1, <2>3, <2>8 DEF WaitsFor
    <3> QED
      BY <1>0, <2>1, <2>5, <2>8, <3>1 DEF LastThreadWaits
  <2>9. CASE q \in Threads /\ q # t /\ at[q] = "adding"
    BY <1>0, <2>1, <2>5, <2>6, <2>9 DEF LastThreadWaits
  <2>10. ASSUME q \in Threads, q # t, NEW g \in Handlers, WaitsFor(g, q) PROVE Goal'
    <3>1. ops'[g]["CONNECT"] \in {"posted", "ok"} /\ queue'[g] = q
      BY <2>3, <2>4, <2>10 DEF WaitsFor
    <3>2. WaitsFor(g, q)'
      BY <2>1, <2>6, <2>10, <3>1 DEF WaitsFor
    <3> QED
      BY <1>0, <2>1, <2>5, <2>10, <3>2 DEF LastThreadWaits
  <2> QED
    BY <2>2, <2>7, <2>8, <2>9, <2>10 DEF LastThreadWaits
<1>3. ASSUME NEW t \in Threads, InsertHandler(t) PROVE Goal'
  <2>1. /\ at[t] = "inserting"
        /\ handlers' = handlers \cup {created[t]}
        /\ created' = [created EXCEPT ![t] = None]
        /\ at' = [at EXCEPT ![t] = "polling"]
        /\ UNCHANGED <<completionQueue, queue, up>>
    BY <1>3 DEF InsertHandler
  <2>2. NoConnectFails /\ LastThreadWaits
    BY <2>1 DEF WaitInv
  <2>3. \A g \in Handlers : ops'[g]["CONNECT"] = ops[g]["CONNECT"]
    BY <1>0, <1>3 DEF ServerTypeOK, InsertHandler, Operation
  <2>4. \A u \in Threads : u # t => at'[u] = at[u] /\ created'[u] = created[u]
    BY <1>0, <2>1 DEF ServerTypeOK
  <2>5. \A g \in Handlers, c \in Threads : WaitsFor(g, c) => WaitsFor(g, c)'
    BY <2>1, <2>3, <2>4 DEF WaitsFor
  <2> QED
    BY <1>0, <2>1, <2>2, <2>3, <2>4, <2>5 DEF NoConnectFails, LastThreadWaits
<1>4. ASSUME NEW t \in Threads, NEW h \in Handlers, NEW o \in Operation, DropEvent(t, h, o)
      PROVE  Goal'
  <2>1. /\ at[t] = "polling" /\ queue[h] = t /\ h \notin handlers
        /\ UNCHANGED <<completionQueue, queue, up, at, created, handlers>>
    BY <1>4 DEF DropEvent, Polls, manager
  <2>2. NoConnectFails /\ LastThreadWaits
    BY <2>1 DEF WaitInv
  <2>3. \A g \in Handlers : /\ ops'[g]["CONNECT"] # "failed"
                            /\ g # h => ops'[g] = ops[g]
    BY <1>0, <1>4, <2>2 DEF ServerTypeOK, DropEvent, NoConnectFails, Operation
  <2>4. \A g \in Handlers, c \in Threads : WaitsFor(g, c) => g # h
    BY <1>0, <2>1 DEF WaitsFor, ThreadOK
  <2>5. \A g \in Handlers, c \in Threads : WaitsFor(g, c) => WaitsFor(g, c)'
    BY <2>1, <2>3, <2>4 DEF WaitsFor
  <2> QED
    BY <1>0, <2>1, <2>2, <2>3, <2>5 DEF NoConnectFails, LastThreadWaits
<1>5. ASSUME NEW t \in Threads, NEW h \in Handlers, HandleConnect(t, h) PROVE Goal'
  <2>1. /\ at[t] = "polling" /\ queue[h] = t
        /\ UNCHANGED <<completionQueue, queue, up, created, handlers>>
    BY <1>5 DEF HandleConnect, Polls, manager
  <2>2. NoConnectFails /\ LastThreadWaits
    BY <2>1 DEF WaitInv
  <2>3. /\ ops' = [ops EXCEPT ![h]["CONNECT"] = "none"]
        /\ at' = [at EXCEPT ![t] = "adding"]
    BY <1>5, <2>2 DEF HandleConnect, NoConnectFails
  <2>4. \A g \in Handlers : /\ ops'[g]["CONNECT"] # "failed"
                            /\ g # h => ops'[g] = ops[g]
    BY <1>0, <2>2, <2>3 DEF ServerTypeOK, NoConnectFails, Operation
  <2>5. \A u \in Threads : at'[u] = IF u = t THEN "adding" ELSE at[u]
    BY <1>0, <2>3 DEF ServerTypeOK
  <2>6. \A g \in Handlers, c \in Threads : WaitsFor(g, c) => c = t \/ WaitsFor(g, c)'
    BY <2>1, <2>4 DEF WaitsFor
  <2> QED
    BY <1>0, <2>1, <2>2, <2>4, <2>5, <2>6 DEF NoConnectFails, LastThreadWaits
<1>6. ASSUME NEW t \in Threads, NEW h \in Handlers, FailedRead(t, h) PROVE Goal'
  <2>1. \A g \in Handlers : ops'[g]["CONNECT"] = ops[g]["CONNECT"]
    BY <1>0, <1>6, StopPostsFinish DEF ServerTypeOK, FailedRead, Operation, States
  <2>2. UNCHANGED <<completionQueue, queue, up, at, created, handlers>>
    BY <1>6 DEF FailedRead, manager
  <2> QED
    BY <1>0, <2>1, <2>2 DEF WaitInv, NoConnectFails, LastThreadWaits, WaitsFor
<1>7. ASSUME NEW t \in Threads, NEW h \in Handlers, NEW m \in ClientMessage, HandleRead(t, h, m)
      PROVE  Goal'
  <2>1. \A g \in Handlers : ops'[g]["CONNECT"] = ops[g]["CONNECT"]
    BY <1>0, <1>7, StopPostsFinish DEF ServerTypeOK, HandleRead, AttemptRead, Operation, States
  <2>2. UNCHANGED <<completionQueue, queue, up, at, created, handlers>>
    BY <1>7 DEF HandleRead
  <2> QED
    BY <1>0, <2>1, <2>2 DEF WaitInv, NoConnectFails, LastThreadWaits, WaitsFor
<1>8. ASSUME NEW t \in Threads, NEW h \in Handlers, HandleFinish(t, h) PROVE Goal'
  <2>1. \A g \in Handlers : ops'[g]["CONNECT"] = ops[g]["CONNECT"]
    BY <1>0, <1>8 DEF ServerTypeOK, HandleFinish, Operation
  <2>2. /\ UNCHANGED <<completionQueue, queue, up, at, created>>
        /\ handlers' = handlers \ {h}
        /\ ops[h]["CONNECT"] = "none"
    BY <1>0, <1>8 DEF HandleFinish, Polls, HandlerOK, Outstanding
  <2>3. \A g \in Handlers, c \in Threads : WaitsFor(g, c) => WaitsFor(g, c)'
    BY <2>1, <2>2 DEF WaitsFor
  <2> QED
    BY <1>0, <2>1, <2>2, <2>3 DEF WaitInv, NoConnectFails, LastThreadWaits
<1>9. ASSUME NEW h \in Handlers, NEW o \in Operation, CompleteOp(h, o) PROVE Goal'
  <2>1. UNCHANGED <<completionQueue, queue, up, at, created, handlers>>
    BY <1>9 DEF CompleteOp, manager
  <2>2. NoConnectFails /\ LastThreadWaits
    BY <2>1 DEF WaitInv
  <2>3. PICK result \in CompletesAs(o) : ops' = [ops EXCEPT ![h][o] = result]
    BY <1>9 DEF CompleteOp
  <2>4. o = "CONNECT" => result = "ok"
    BY <2>1, <2>3 DEF CompletesAs
  <2>5. \A g \in Handlers : \/ ops'[g]["CONNECT"] = ops[g]["CONNECT"]
                            \/ ops'[g]["CONNECT"] = "ok" /\ ops[g]["CONNECT"] = "posted"
    BY <1>0, <1>9, <2>3, <2>4 DEF ServerTypeOK, CompleteOp, Operation
  <2>6. \A g \in Handlers, c \in Threads : WaitsFor(g, c) => WaitsFor(g, c)'
    BY <2>1, <2>5 DEF WaitsFor
  <2> QED
    BY <1>0, <2>1, <2>2, <2>5, <2>6 DEF NoConnectFails, LastThreadWaits
<1>10. ASSUME ShutdownServer PROVE Goal'
  BY <1>10 DEF ShutdownServer
<1>11. ASSUME UNCHANGED vars PROVE Goal'
  BY <1>0, <1>11 DEF vars, manager, WaitInv, NoConnectFails, LastThreadWaits, WaitsFor
<1> QED
  BY <1>1, <1>2, <1>3, <1>4, <1>5, <1>6, <1>7, <1>8, <1>9, <1>10, <1>11
     DEF Next, ThreadStep, ThreadStepNoMessage

(* Whatever the number of threads and however their start, the clients and the
   events interleave, a server that is up has a handler waiting for the next
   client, or a thread that is about to add one. *)
THEOREM ServerAcceptsNextClient == Spec => []AcceptsNextClient
<1>1. Init => WaitInv
  <2> SUFFICES ASSUME Init PROVE NoConnectFails /\ LastThreadWaits
    BY DEF WaitInv
  <2>1. 1 \in Threads /\ at[1] = "start"
    BY ServerAssumption DEF Init, Threads
  <2> QED
    BY <2>1 DEF Init, NoConnectFails, LastThreadWaits, Operation
<1>2. WaitInv => AcceptsNextClient
  BY DEF WaitInv, LastThreadWaits, WaitsFor, AcceptsNextClient, Waiting, Adding
<1> QED
  BY <1>1, <1>2, LifeInit, LifeStep, WaitStep, PTL DEF Spec

--------------------------------------------------------------------------------

(* A set grown by at most one element has at most one more. *)
LEMMA OneMore ==
    ASSUME NEW S, IsFiniteSet(S), NEW x, NEW T, T \subseteq S \cup {x}
    PROVE  Cardinality(T) \in Nat /\ Cardinality(T) <= Cardinality(S) + 1
<1>1. IsFiniteSet(S \cup {x}) /\ Cardinality(S) \in Nat
  BY FS_AddElement, FS_CardinalityType
<1>2. Cardinality(S \cup {x}) = IF x \in S THEN Cardinality(S) ELSE Cardinality(S) + 1
  BY FS_AddElement
<1>3. IsFiniteSet(T) /\ Cardinality(T) <= Cardinality(S \cup {x})
  BY <1>1, FS_Subset
<1>4. Cardinality(T) \in Nat
  BY <1>3, FS_CardinalityType
<1> QED
  BY <1>1, <1>2, <1>3, <1>4

(* The threads and handlers that WaitersBounded counts are finitely many. *)
LEMMA WaitersFinite ==
    ASSUME ServerTypeOK
    PROVE  /\ IsFiniteSet(Waiting) /\ Cardinality(Waiting) \in Nat
           /\ IsFiniteSet(Adding) /\ Cardinality(Adding) \in Nat
<1>1. IsFiniteSet(Handlers) /\ IsFiniteSet(Threads)
  BY ServerAssumption, FS_Interval DEF ServerTypeOK, Handlers, Threads
<1>2. Waiting \in SUBSET Handlers /\ Adding \in SUBSET Threads
  BY DEF Waiting, Adding
<1> QED
  BY <1>1, <1>2, FS_Subset, FS_CardinalityType

(* A step by which no handler comes to wait and no thread comes to add one. *)
LEMMA FewerWaiters ==
    ASSUME ServerTypeOK, WaitersBounded, numIoThreads' = numIoThreads,
           Waiting' \subseteq Waiting, Adding' \subseteq Adding
    PROVE  WaitersBounded'
<1>1. Cardinality(Waiting') <= Cardinality(Waiting) /\ Cardinality(Adding') <= Cardinality(Adding)
  BY WaitersFinite, FS_Subset
<1>2. Cardinality(Waiting') \in Nat /\ Cardinality(Adding') \in Nat
  BY WaitersFinite, FS_Subset, FS_CardinalityType
<1>3. numIoThreads \in Nat
  BY ServerAssumption DEF ServerTypeOK
<1> QED
  BY <1>1, <1>2, <1>3, WaitersFinite DEF WaitersBounded

(* A thread that has constructed a handler no longer is about to: the handler
   takes its place in the count. *)
LEMMA ConstructedWaits ==
    ASSUME ServerTypeOK, WaitersBounded, NEW t \in Threads, ConstructHandler(t)
    PROVE  WaitersBounded'
<1> DEFINE h == made + 1
<1>1. t \in Adding /\ numIoThreads' = numIoThreads
  BY DEF Adding, ConstructHandler
<1>2. Adding' = Adding \ {t}
  <2>1. at' = [at EXCEPT ![t] = "inserting"] /\ Threads' = Threads
    BY DEF ConstructHandler, Threads
  <2>2. \A u \in Threads : at'[u] = IF u = t THEN "inserting" ELSE at[u]
    BY <2>1, ServerAssumption DEF ServerTypeOK, Threads
  <2> QED
    BY <2>1, <2>2 DEF Adding
<1>3. Waiting' \subseteq Waiting \cup {h}
  BY DEF Waiting, ConstructHandler, ServerTypeOK, Operation
<1>4. Cardinality(Adding') = Cardinality(Adding) - 1
  BY <1>1, <1>2, WaitersFinite, FS_RemoveElement
<1>5. /\ Cardinality(Waiting') <= Cardinality(Waiting) + 1
      /\ Cardinality(Waiting') \in Nat
  BY <1>3, WaitersFinite, OneMore
<1>6. numIoThreads \in Nat
  BY ServerAssumption DEF ServerTypeOK
<1> QED
  BY <1>1, <1>4, <1>5, <1>6, WaitersFinite DEF WaitersBounded

(* A handler whose client has come makes its thread add the next one and waits
   no more. *)
LEMMA ConnectedAdds ==
    ASSUME ServerTypeOK, WaitersBounded, NEW t \in Threads, NEW h \in Handlers,
           HandleConnect(t, h), ops[h]["CONNECT"] = "ok"
    PROVE  WaitersBounded'
<1>1. /\ at' = [at EXCEPT ![t] = "adding"]
      /\ ops' = [ops EXCEPT ![h]["CONNECT"] = "none"]
      /\ numIoThreads' = numIoThreads
  BY DEF HandleConnect
<1>2. h \in Waiting
  BY DEF Waiting
<1>3. Waiting' = Waiting \ {h}
  BY <1>1 DEF Waiting, ServerTypeOK, Operation
<1>4. Adding' \subseteq Adding \cup {t}
  BY <1>1 DEF Adding, ServerTypeOK, Threads
<1>5. Cardinality(Waiting') = Cardinality(Waiting) - 1
  BY <1>2, <1>3, WaitersFinite, FS_RemoveElement
<1>6. /\ Cardinality(Adding') <= Cardinality(Adding) + 1
      /\ Cardinality(Adding') \in Nat
  BY <1>4, WaitersFinite, OneMore
<1>7. numIoThreads \in Nat
  BY ServerAssumption DEF ServerTypeOK
<1> QED
  BY <1>1, <1>5, <1>6, <1>7, WaitersFinite DEF WaitersBounded

(* Every step of the server keeps the bound. *)
LEMMA WaitersStep == ServerTypeOK /\ WaitersBounded /\ [Next]_vars => WaitersBounded'
<1> SUFFICES ASSUME ServerTypeOK, WaitersBounded, [Next]_vars PROVE WaitersBounded'
  OBVIOUS
<1>1. ASSUME NEW t \in Threads, RegisterService(t) PROVE WaitersBounded'
  BY <1>1, FewerWaiters DEF RegisterService, Waiting, Adding, Threads, ServerTypeOK
<1>2. ASSUME NEW t \in Threads, ConstructHandler(t) PROVE WaitersBounded'
  BY <1>2, ConstructedWaits
<1>3. ASSUME NEW t \in Threads, InsertHandler(t) PROVE WaitersBounded'
  BY <1>3, FewerWaiters DEF InsertHandler, Waiting, Adding, Threads, ServerTypeOK, Operation
<1>4. ASSUME NEW t \in Threads, NEW h \in Handlers, NEW o \in Operation, DropEvent(t, h, o)
      PROVE  WaitersBounded'
  BY <1>4, FewerWaiters DEF DropEvent, Waiting, Adding, Threads, ServerTypeOK, Operation
<1>5. ASSUME NEW t \in Threads, NEW h \in Handlers, HandleConnect(t, h) PROVE WaitersBounded'
  <2>1. CASE ops[h]["CONNECT"] = "ok"
    BY <1>5, <2>1, ConnectedAdds
  <2>2. CASE ops[h]["CONNECT"] = "failed"
    <3>1. AfterStop(h, [ops[h] EXCEPT !["CONNECT"] = "none"])["CONNECT"] = "none"
      BY DEF AfterStop, ServerTypeOK, Operation
    <3> QED
      BY <1>5, <2>2, <3>1, FewerWaiters DEF HandleConnect, Waiting, Adding, Threads, ServerTypeOK
  <2> QED
    BY <1>5, <2>1, <2>2 DEF HandleConnect
<1>6. ASSUME NEW t \in Threads, NEW h \in Handlers, FailedRead(t, h) PROVE WaitersBounded'
  <2>1. AfterStop(h, [ops[h] EXCEPT !["READ"] = "none"])["CONNECT"] = ops[h]["CONNECT"]
    BY DEF AfterStop, ServerTypeOK, Operation
  <2> QED
    BY <1>6, <2>1, FewerWaiters DEF FailedRead, Waiting, Adding, Threads, ServerTypeOK
<1>7. ASSUME NEW t \in Threads, NEW h \in Handlers, NEW m \in ClientMessage, HandleRead(t, h, m)
      PROVE  WaitersBounded'
  <2>1. ops'[h]["CONNECT"] = ops[h]["CONNECT"] /\ \A g \in Handlers \ {h} : ops'[g] = ops[g]
    BY <1>7 DEF HandleRead, AfterStop, ServerTypeOK, Operation
  <2> QED
    BY <1>7, <2>1, FewerWaiters DEF HandleRead, Waiting, Adding, Threads, ServerTypeOK
<1>8. ASSUME NEW t \in Threads, NEW h \in Handlers, HandleFinish(t, h) PROVE WaitersBounded'
  BY <1>8, FewerWaiters DEF HandleFinish, Waiting, Adding, Threads, ServerTypeOK, Operation
<1>9. ASSUME NEW h \in Handlers, NEW o \in Operation, CompleteOp(h, o) PROVE WaitersBounded'
  BY <1>9, FewerWaiters DEF CompleteOp, Waiting, Adding, Threads, ServerTypeOK, Operation
<1>10. CASE ShutdownServer
  BY <1>10, FewerWaiters DEF ShutdownServer, Waiting, Adding, Threads
<1>11. CASE UNCHANGED vars
  BY <1>11, FewerWaiters DEF vars, Waiting, Adding, Threads
<1> QED
  BY <1>1, <1>2, <1>3, <1>4, <1>5, <1>6, <1>7, <1>8, <1>9, <1>10, <1>11
     DEF Next, ThreadStep, ThreadStepNoMessage

(* For any number of threads and handlers, and in whatever order threads and
   clients come: at most one handler per thread waits for a client, counting
   the threads that are about to add one (HandlerManager.cpp addHandler,
   RequestHandler.cpp handleConnect). *)
THEOREM IdleHandlersAreBounded == Spec => []WaitersBounded
<1>1. Init => WaitersBounded
  <2> SUFFICES ASSUME Init PROVE WaitersBounded
    OBVIOUS
  <2>1. Waiting = {} /\ Adding \in SUBSET (1 .. numIoThreads) /\ numIoThreads \in Nat
    BY ServerAssumption DEF Init, Waiting, Adding, Threads, Operation
  <2>2. Cardinality(Waiting) = 0
    BY <2>1, FS_EmptySet
  <2>3. /\ Cardinality(Adding) <= numIoThreads
        /\ Cardinality(Adding) \in Nat
    <3>1. IsFiniteSet(1 .. numIoThreads) /\ Cardinality(1 .. numIoThreads) = numIoThreads
      BY <2>1, FS_Interval
    <3> QED
      BY <2>1, <3>1, FS_Subset, FS_CardinalityType
  <2> QED
    BY <2>2, <2>3 DEF WaitersBounded
<1> QED
  BY <1>1, WaitersStep, ServerTypes, PTL DEF Spec

================================================================================
