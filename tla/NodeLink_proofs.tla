-------------------------- MODULE NodeLink_proofs --------------------------
(***************************************************************************)
(* Machine-checked facts about NodeLink, for any sets of connections and   *)
(* tasks, any number of faults and either value of Overlap and LateWriter. *)
(***************************************************************************)
EXTENDS NodeLink, TLAPS

-----------------------------------------------------------------------------
(* The frames.                                                             *)

\* Which frames travel down and up, and what they carry.
LEMMA DownFrames ==
  /\ OkFrame \in DownFrame /\ JunkFrame \in DownFrame
  /\ \A t \in Tasks : TaskAssign(t) \in DownFrame
  /\ \A f \in DownFrame : f.kind = "task" => f.task \in Tasks
  BY DEF DownFrame, OkFrame, JunkFrame, TaskAssign

LEMMA UpFrames ==
  /\ AuthFrame \in UpFrame /\ Heartbeat \in UpFrame
  /\ \A t \in Tasks, r \in Terminal : TaskResult(t, r) \in UpFrame
  /\ \A f \in UpFrame : f.kind \in Terminal => f.task \in Tasks
  /\ NoFrame.kind \notin Terminal /\ AuthFrame.kind \notin Terminal
  BY DEF UpFrame, AuthFrame, Heartbeat, NoFrame, TaskResult, Terminal

\* One frame more or less leaves a queue a queue.
LEMMA QueueType ==
  ASSUME NEW F, NEW q \in [Conns -> Seq(F)], NEW c \in Conns
  PROVE  /\ \A f \in F : [q EXCEPT ![c] = Append(@, f)] \in [Conns -> Seq(F)]
         /\ q[c] # <<>> => /\ [q EXCEPT ![c] = Tail(@)] \in [Conns -> Seq(F)]
                           /\ Head(q[c]) \in F
         /\ [q EXCEPT ![c] = <<>>] \in [Conns -> Seq(F)]
  OBVIOUS

LEMMA EmptyQueues ==
  ASSUME NEW F PROVE [c \in Conns |-> <<>>] \in [Conns -> Seq(F)]
  OBVIOUS

-----------------------------------------------------------------------------
(* Types.                                                                  *)

\* The agent that is not down has a connection, and so has a request that is
\* about to write or has written.
AgentConn == npc # "down" => nconn \in Conns
HeldConn == \A t \in Tasks : api[t] \in {"held", "written"} => apiConn[t] \in Conns

LinkTyped == TypeOK /\ AgentConn /\ HeldConn

\* Every variable of the link keeps its type.  AgentConn and HeldConn are needed
\* because the agent and the requests write to the connection they remember.
LEMMA LinkTypedInvariant == Spec => []LinkTyped
<1>1. Init => LinkTyped
  <2>. SUFFICES ASSUME Init PROVE LinkTyped  OBVIOUS
  <2>1. down \in [Conns -> Seq(DownFrame)] /\ up \in [Conns -> Seq(UpFrame)]
    BY EmptyQueues DEF Init
  <2>. QED  BY <2>1 DEF Init, LinkTyped, TypeOK, AgentConn, HeldConn, HandlerPc
<1>2. ASSUME LinkTyped, [Next]_vars PROVE LinkTyped'
  <2>. USE <1>2, LinkAssumption DEF LinkTyped, TypeOK, AgentConn, HeldConn, HandlerPc
  <2>1. ASSUME NEW c \in Conns, ReadAuth(c) PROVE LinkTyped'
    BY <2>1, QueueType DEF ReadAuth, SetPc, db, node
  <2>2. ASSUME NEW c \in Conns, ReadAuthFails(c) PROVE LinkTyped'
    BY <2>2, QueueType DEF ReadAuthFails, SetPc, StopReading, db, node
  <2>3. ASSUME NEW c \in Conns, Publish(c) PROVE LinkTyped'
    BY <2>3 DEF Publish, SetPc, db, node
  <2>4. ASSUME NEW c \in Conns, Register(c) PROVE LinkTyped'
    BY <2>4 DEF Register, SetPc, net, node
  <2>5. ASSUME NEW c \in Conns, SendAuthLength(c) PROVE LinkTyped'
    BY <2>5 DEF SendAuthLength, SetPc, db, net, node
  <2>6. ASSUME NEW c \in Conns, SendAuthBody(c) PROVE LinkTyped'
    BY <2>6, QueueType, DownFrames DEF SendAuthBody, SetPc, db, node
  <2>7. ASSUME NEW c \in Conns, SendAuthFails(c) PROVE LinkTyped'
    BY <2>7, QueueType DEF SendAuthFails, SetPc, StopReading, db, node
  <2>8. ASSUME NEW c \in Conns, ReadMessage(c) PROVE LinkTyped'
    BY <2>8, QueueType DEF ReadMessage, db, node
  <2>9. ASSUME NEW c \in Conns, DispatchHeartbeat(c) PROVE LinkTyped'
    BY <2>9 DEF DispatchHeartbeat, net, node
  <2>10. ASSUME NEW c \in Conns, DispatchTaskResult(c) PROVE LinkTyped'
    BY <2>10, UpFrames DEF DispatchTaskResult, UpdateTaskResult, net, node
  <2>11. ASSUME NEW c \in Conns, ReadError(c) PROVE LinkTyped'
    BY <2>11, QueueType DEF ReadError, SetPc, StopReading, db, node
  <2>12. ASSUME NEW c \in Conns, RemoveSession(c) PROVE LinkTyped'
    BY <2>12 DEF RemoveSession, SetPc, db, net, node
  <2>13. ASSUME NEW c \in Conns, MarkNodeOffline(c) PROVE LinkTyped'
    BY <2>13 DEF MarkNodeOffline, SetPc, net, node
  <2>14. ASSUME NEW c \in Conns, RequeueSent(c) PROVE LinkTyped'
    BY <2>14 DEF RequeueSent, SetPc, ResetSentTasks, net, node
  <2>15. ASSUME NEW c \in Conns, CloseConn(c) PROVE LinkTyped'
    BY <2>15 DEF CloseConn, SetPc, db, node
  <2>16. ASSUME NEW c \in Conns, ReadTimeout(c) PROVE LinkTyped'
    BY <2>16, QueueType DEF ReadTimeout, SetPc, StopReading, db, node
  <2>17. ASSUME NEW c \in Conns, FlushSelect(c) PROVE LinkTyped'
    BY <2>17 DEF FlushSelect, PendingTasks, db, net, node
  <2>18. ASSUME NEW c \in Conns, FlushSend(c) PROVE LinkTyped'
    BY <2>18, QueueType, DownFrames DEF FlushSend, CoreWrites, Oldest, db, node
  <2>19. ASSUME NEW c \in Conns, FlushMark(c) PROVE LinkTyped'
    BY <2>19 DEF FlushMark, Oldest, MarkTaskSent, net, node
  <2>20. ASSUME NEW c \in Conns, FlushEnd(c) PROVE LinkTyped'
    BY <2>20 DEF FlushEnd, CoreWriteFails, db, net, node
  <2>21. ASSUME NEW c \in Conns, Dial(c) PROVE LinkTyped'
    BY <2>21, UpFrames DEF Dial, SetPc, Free, db
  <2>22. ASSUME NEW t \in Tasks, CreateTask(t) PROVE LinkTyped'
    BY <2>22 DEF CreateTask, net, node
  <2>23. ASSUME NEW t \in Tasks, APILookup(t) PROVE LinkTyped'
    BY <2>23 DEF APILookup, db, net, node
  <2>24. ASSUME NEW t \in Tasks, APISend(t) PROVE LinkTyped'
    BY <2>24, QueueType, DownFrames DEF APISend, CoreWrites, db, node
  <2>25. ASSUME NEW t \in Tasks, APISendFails(t) PROVE LinkTyped'
    BY <2>25 DEF APISendFails, CoreWriteFails, APIDone, db, net, node
  <2>26. ASSUME NEW t \in Tasks, APIMark(t) PROVE LinkTyped'
    BY <2>26 DEF APIMark, MarkTaskSent, APIDone, net, node
  <2>27. ASSUME NEW t \in Tasks, APIMarkFails(t) PROVE LinkTyped'
    BY <2>27 DEF APIMarkFails, APIDone, db, net, node
  <2>28. ASSUME NEW t \in Tasks, NEW r \in Terminal, AgentFinishes(t, r) PROVE LinkTyped'
    BY <2>28, QueueType, UpFrames DEF AgentFinishes, AgentSends, core, db
  <2>29. ASSUME AgentAccepted PROVE LinkTyped'
    BY <2>29, QueueType DEF AgentAccepted, NextFrame, core, db
  <2>30. ASSUME AgentRejects PROVE LinkTyped'
    BY <2>30 DEF AgentRejects, DropConn, NextFrame, core, db
  <2>31. ASSUME AgentReceives PROVE LinkTyped'
    <3>1. nconn \in Conns /\ down[nconn] # <<>> /\ Head(down[nconn]).task \in Tasks
      BY <2>31, QueueType, DownFrames DEF AgentReceives, NextFrame
    <3>2. down' \in [Conns -> Seq(DownFrame)]
      BY <2>31, <3>1, QueueType DEF AgentReceives
    <3>3. exec' \in [Tasks -> Nat] /\ ran' \in SUBSET Tasks
      <4>1. PICK t \in Tasks : exec' = [exec EXCEPT ![t] = @ + 1] /\ ran' = ran \union {t}
        BY <2>31, <3>1 DEF AgentReceives
      <4>2. exec[t] + 1 \in Nat
        OBVIOUS
      <4>. QED  BY <4>1, <4>2
    <3>. QED  BY <2>31, <3>2, <3>3 DEF AgentReceives, core, db
  <2>32. ASSUME AgentDisconnected PROVE LinkTyped'
    BY <2>32 DEF AgentDisconnected, DropConn, core, db
  <2>33. ASSUME AgentHeartbeat PROVE LinkTyped'
    BY <2>33, QueueType, UpFrames DEF AgentHeartbeat, AgentSends, core, db
  <2>34. ASSUME AgentLosesConn PROVE LinkTyped'
    BY <2>34 DEF AgentLosesConn, DropConn, Fault, core, db
  <2>35. ASSUME AgentCrash PROVE LinkTyped'
    BY <2>35 DEF AgentCrash, DropConn, Fault, core, db
  <2>36. ASSUME CoreCrash PROVE LinkTyped'
    <3>1. up' \in [Conns -> Seq(UpFrame)]
      BY <2>36, EmptyQueues DEF CoreCrash
    <3>2. /\ coreUp' \in BOOLEAN /\ sess' \in Conns \union {NoConn}
          /\ pc' \in [Conns -> HandlerPc]
          /\ hand' \in [Conns -> UpFrame \union {NoFrame}]
          /\ flushPc' \in [Conns -> {"off", "select", "send", "mark"}]
          /\ flushQ' \in [Conns -> SUBSET Tasks]
      BY <2>36 DEF CoreCrash
    <3>3. /\ api' \in [Tasks -> {"none", "created", "held", "written", "done"}]
          /\ apiConn' \in [Tasks -> Conns \union {NoConn}]
          /\ coreOpen' \in [Conns -> BOOLEAN]
          /\ faults' \in Nat
          /\ HeldConn'
      BY <2>36 DEF CoreCrash, Fault
    <3>. QED  BY <2>36, <3>1, <3>2, <3>3 DEF CoreCrash, db, node
  <2>37. ASSUME CoreStart PROVE LinkTyped'
    BY <2>37 DEF CoreStart, ResetSentTasks, net, node
  <2>38. CASE UNCHANGED vars
    BY <2>38 DEF vars, core, db, net, node
  <2>. QED
    BY <2>1, <2>2, <2>3, <2>4, <2>5, <2>6, <2>7, <2>8, <2>9, <2>10, <2>11, <2>12, <2>13, <2>14, <2>15, <2>16, <2>17, <2>18, <2>19, <2>20, <2>21, <2>22, <2>23, <2>24, <2>25, <2>26, <2>27, <2>28, <2>29, <2>30, <2>31, <2>32, <2>33, <2>34, <2>35, <2>36, <2>37, <2>38
    DEF Next, Handler, Flush, Request, AgentReads
<1>. QED  BY <1>1, <1>2, PTL DEF Spec

\* Every variable keeps its type.
THEOREM TypeCorrect == Spec => []TypeOK
  BY LinkTypedInvariant, PTL DEF LinkTyped

-----------------------------------------------------------------------------
(* The session registry.                                                   *)

Registry == OneOpenSession /\ SessionHasHandler

\* The two facts carry each other: a handler is published only after the older
\* session, the one live connection that can still be open, has been closed.
LEMMA RegistryInvariant == Spec => []Registry
<1>1. Init => Registry
  BY DEF Init, Registry, OneOpenSession, SessionHasHandler, Live
<1>2. ASSUME LinkTyped, Registry, [Next]_vars PROVE Registry'
  <2>. USE <1>2, LinkAssumption
       DEF LinkTyped, TypeOK, HandlerPc, Registry, OneOpenSession, SessionHasHandler, Live
  <2>1. ASSUME NEW c \in Conns, ReadAuth(c) PROVE Registry'
    BY <2>1 DEF ReadAuth, SetPc
  <2>2. ASSUME NEW c \in Conns, ReadAuthFails(c) PROVE Registry'
    BY <2>2 DEF ReadAuthFails, SetPc
  <2>3. ASSUME NEW c \in Conns, Publish(c) PROVE Registry'
    BY <2>3 DEF Publish, SetPc
  <2>4. ASSUME NEW c \in Conns, Register(c) PROVE Registry'
    BY <2>4 DEF Register, SetPc, net
  <2>5. ASSUME NEW c \in Conns, SendAuthLength(c) PROVE Registry'
    BY <2>5 DEF SendAuthLength, SetPc, net
  <2>6. ASSUME NEW c \in Conns, SendAuthBody(c) PROVE Registry'
    BY <2>6 DEF SendAuthBody, SetPc
  <2>7. ASSUME NEW c \in Conns, SendAuthFails(c) PROVE Registry'
    BY <2>7 DEF SendAuthFails, SetPc
  <2>8. ASSUME NEW c \in Conns, ReadMessage(c) PROVE Registry'
    BY <2>8 DEF ReadMessage
  <2>9. ASSUME NEW c \in Conns, DispatchHeartbeat(c) PROVE Registry'
    BY <2>9 DEF DispatchHeartbeat, net
  <2>10. ASSUME NEW c \in Conns, DispatchTaskResult(c) PROVE Registry'
    BY <2>10 DEF DispatchTaskResult, net
  <2>11. ASSUME NEW c \in Conns, ReadError(c) PROVE Registry'
    BY <2>11 DEF ReadError, SetPc
  <2>12. ASSUME NEW c \in Conns, RemoveSession(c) PROVE Registry'
    <3>1. CASE sess = c
      <4>1. sess' = NoConn /\ coreOpen' = coreOpen /\ pc' = [pc EXCEPT ![c] = "offline"]
        BY <2>12, <3>1 DEF RemoveSession, SetPc, net
      <4>. QED  BY <4>1, <3>1
    <3>2. CASE sess # c
      <4>1. sess' = sess /\ coreOpen' = coreOpen /\ pc' = [pc EXCEPT ![c] = "closing"]
        BY <2>12, <3>2 DEF RemoveSession, SetPc, net
      <4>2. pc[c] = "leaving"
        BY <2>12 DEF RemoveSession
      <4>. QED  BY <4>1, <4>2, <3>2
    <3>. QED  BY <3>1, <3>2
  <2>13. ASSUME NEW c \in Conns, MarkNodeOffline(c) PROVE Registry'
    BY <2>13 DEF MarkNodeOffline, SetPc, net
  <2>14. ASSUME NEW c \in Conns, RequeueSent(c) PROVE Registry'
    BY <2>14 DEF RequeueSent, SetPc, net
  <2>15. ASSUME NEW c \in Conns, CloseConn(c) PROVE Registry'
    BY <2>15 DEF CloseConn, SetPc
  <2>16. ASSUME NEW c \in Conns, ReadTimeout(c) PROVE Registry'
    BY <2>16 DEF ReadTimeout, SetPc
  <2>17. ASSUME NEW c \in Conns, FlushSelect(c) PROVE Registry'
    BY <2>17 DEF FlushSelect, net
  <2>18. ASSUME NEW c \in Conns, FlushSend(c) PROVE Registry'
    BY <2>18 DEF FlushSend, CoreWrites
  <2>19. ASSUME NEW c \in Conns, FlushMark(c) PROVE Registry'
    BY <2>19 DEF FlushMark, net
  <2>20. ASSUME NEW c \in Conns, FlushEnd(c) PROVE Registry'
    BY <2>20 DEF FlushEnd, CoreWriteFails, net
  <2>21. ASSUME NEW c \in Conns, Dial(c) PROVE Registry'
    BY <2>21 DEF Dial, SetPc, Free
  <2>22. ASSUME NEW t \in Tasks, CreateTask(t) PROVE Registry'
    BY <2>22 DEF CreateTask, net
  <2>23. ASSUME NEW t \in Tasks, APILookup(t) PROVE Registry'
    BY <2>23 DEF APILookup, net
  <2>24. ASSUME NEW t \in Tasks, APISend(t) PROVE Registry'
    BY <2>24 DEF APISend, CoreWrites
  <2>25. ASSUME NEW t \in Tasks, APISendFails(t) PROVE Registry'
    BY <2>25 DEF APISendFails, CoreWriteFails, net, db
  <2>26. ASSUME NEW t \in Tasks, APIMark(t) PROVE Registry'
    BY <2>26 DEF APIMark, net
  <2>27. ASSUME NEW t \in Tasks, APIMarkFails(t) PROVE Registry'
    BY <2>27 DEF APIMarkFails, net
  <2>28. ASSUME NEW t \in Tasks, NEW r \in Terminal, AgentFinishes(t, r) PROVE Registry'
    BY <2>28 DEF AgentFinishes, AgentSends, core
  <2>29. ASSUME AgentAccepted PROVE Registry'
    BY <2>29 DEF AgentAccepted, core
  <2>30. ASSUME AgentRejects PROVE Registry'
    BY <2>30 DEF AgentRejects, DropConn, core
  <2>31. ASSUME AgentReceives PROVE Registry'
    BY <2>31 DEF AgentReceives, core
  <2>32. ASSUME AgentDisconnected PROVE Registry'
    BY <2>32 DEF AgentDisconnected, DropConn, core
  <2>33. ASSUME AgentHeartbeat PROVE Registry'
    BY <2>33 DEF AgentHeartbeat, AgentSends, core
  <2>34. ASSUME AgentLosesConn PROVE Registry'
    BY <2>34 DEF AgentLosesConn, DropConn, core
  <2>35. ASSUME AgentCrash PROVE Registry'
    BY <2>35 DEF AgentCrash, DropConn, core
  <2>36. ASSUME CoreCrash PROVE Registry'
    BY <2>36 DEF CoreCrash
  <2>37. ASSUME CoreStart PROVE Registry'
    BY <2>37 DEF CoreStart, net
  <2>38. CASE UNCHANGED vars
    BY <2>38 DEF vars, core, net
  <2>. QED
    BY <2>1, <2>2, <2>3, <2>4, <2>5, <2>6, <2>7, <2>8, <2>9, <2>10, <2>11,
       <2>12, <2>13, <2>14, <2>15, <2>16, <2>17, <2>18, <2>19, <2>20, <2>21,
       <2>22, <2>23, <2>24, <2>25, <2>26, <2>27, <2>28, <2>29, <2>30, <2>31,
       <2>32, <2>33, <2>34, <2>35, <2>36, <2>37, <2>38
    DEF Next, Handler, Flush, Request, AgentReads
<1>. QED  BY <1>1, <1>2, LinkTypedInvariant, PTL DEF Spec

\* A node never has two sessions that are served.
THEOREM OneSessionServed == Spec => []OneOpenSession
  BY RegistryInvariant, PTL DEF Registry

\* The registry never points at a connection that was cleaned up.
THEOREM RegistryIsCurrent == Spec => []SessionHasHandler
  BY RegistryInvariant, PTL DEF Registry

-----------------------------------------------------------------------------
(* One connection at a time.  What follows supposes that the agent dials   *)
(* only when the core is done with its last connection (Overlap = FALSE):  *)
(* then the status column and the queue do what the documentation says.    *)

\* Nothing but a dial takes up a connection that both ends are done with.
LEMMA FreeStays ==
  ASSUME LinkTyped, Registry, [Next]_vars, NEW d \in Conns, Free(d)
  PROVE  Free(d)' \/ Dial(d)
<1>. USE LinkAssumption DEF LinkTyped, TypeOK, HeldConn, Free, NoWriter, core, db, net, node
<1>1. ASSUME NEW c \in Conns, ReadAuth(c) PROVE Free(d)' \/ Dial(d)
  BY <1>1 DEF ReadAuth, SetPc
<1>2. ASSUME NEW c \in Conns, ReadAuthFails(c) PROVE Free(d)' \/ Dial(d)
  BY <1>2 DEF ReadAuthFails, SetPc, StopReading
<1>3. ASSUME NEW c \in Conns, Publish(c) PROVE Free(d)' \/ Dial(d)
  BY <1>3 DEF Publish, SetPc
<1>4. ASSUME NEW c \in Conns, Register(c) PROVE Free(d)' \/ Dial(d)
  BY <1>4 DEF Register, SetPc
<1>5. ASSUME NEW c \in Conns, SendAuthLength(c) PROVE Free(d)' \/ Dial(d)
  BY <1>5 DEF SendAuthLength, SetPc
<1>6. ASSUME NEW c \in Conns, SendAuthBody(c) PROVE Free(d)' \/ Dial(d)
  BY <1>6 DEF SendAuthBody, SetPc
<1>7. ASSUME NEW c \in Conns, SendAuthFails(c) PROVE Free(d)' \/ Dial(d)
  BY <1>7 DEF SendAuthFails, SetPc, StopReading
<1>8. ASSUME NEW c \in Conns, ReadMessage(c) PROVE Free(d)' \/ Dial(d)
  BY <1>8 DEF ReadMessage
<1>9. ASSUME NEW c \in Conns, DispatchHeartbeat(c) PROVE Free(d)' \/ Dial(d)
  BY <1>9 DEF DispatchHeartbeat
<1>10. ASSUME NEW c \in Conns, DispatchTaskResult(c) PROVE Free(d)' \/ Dial(d)
  BY <1>10 DEF DispatchTaskResult, UpdateTaskResult
<1>11. ASSUME NEW c \in Conns, ReadError(c) PROVE Free(d)' \/ Dial(d)
  BY <1>11 DEF ReadError, SetPc, StopReading
<1>12. ASSUME NEW c \in Conns, RemoveSession(c) PROVE Free(d)' \/ Dial(d)
  BY <1>12 DEF RemoveSession, SetPc
<1>13. ASSUME NEW c \in Conns, MarkNodeOffline(c) PROVE Free(d)' \/ Dial(d)
  BY <1>13 DEF MarkNodeOffline, SetPc
<1>14. ASSUME NEW c \in Conns, RequeueSent(c) PROVE Free(d)' \/ Dial(d)
  BY <1>14 DEF RequeueSent, SetPc, ResetSentTasks
<1>15. ASSUME NEW c \in Conns, CloseConn(c) PROVE Free(d)' \/ Dial(d)
  BY <1>15 DEF CloseConn, SetPc
<1>16. ASSUME NEW c \in Conns, ReadTimeout(c) PROVE Free(d)' \/ Dial(d)
  BY <1>16 DEF ReadTimeout, SetPc, StopReading
<1>17. ASSUME NEW c \in Conns, FlushSelect(c) PROVE Free(d)' \/ Dial(d)
  BY <1>17 DEF FlushSelect, PendingTasks
<1>18. ASSUME NEW c \in Conns, FlushSend(c) PROVE Free(d)' \/ Dial(d)
  BY <1>18 DEF FlushSend, CoreWrites
<1>19. ASSUME NEW c \in Conns, FlushMark(c) PROVE Free(d)' \/ Dial(d)
  BY <1>19 DEF FlushMark, MarkTaskSent
<1>20. ASSUME NEW c \in Conns, FlushEnd(c) PROVE Free(d)' \/ Dial(d)
  BY <1>20 DEF FlushEnd, CoreWriteFails
<1>21. ASSUME NEW c \in Conns, Dial(c) PROVE Free(d)' \/ Dial(d)
  BY <1>21 DEF Dial, SetPc
<1>22. ASSUME NEW t \in Tasks, CreateTask(t) PROVE Free(d)' \/ Dial(d)
  BY <1>22 DEF CreateTask
<1>23. ASSUME NEW t \in Tasks, APILookup(t) PROVE Free(d)' \/ Dial(d)
  <2>1. sess # d
    BY DEF Registry, SessionHasHandler, Live
  <2>. QED  BY <1>23, <2>1 DEF APILookup
<1>24. ASSUME NEW t \in Tasks, APISend(t) PROVE Free(d)' \/ Dial(d)
  BY <1>24 DEF APISend, CoreWrites
<1>25. ASSUME NEW t \in Tasks, APISendFails(t) PROVE Free(d)' \/ Dial(d)
  BY <1>25 DEF APISendFails, CoreWriteFails, APIDone
<1>26. ASSUME NEW t \in Tasks, APIMark(t) PROVE Free(d)' \/ Dial(d)
  BY <1>26 DEF APIMark, MarkTaskSent, APIDone
<1>27. ASSUME NEW t \in Tasks, APIMarkFails(t) PROVE Free(d)' \/ Dial(d)
  BY <1>27 DEF APIMarkFails, APIDone
<1>28. ASSUME NEW t \in Tasks, NEW r \in Terminal, AgentFinishes(t, r) PROVE Free(d)' \/ Dial(d)
  BY <1>28 DEF AgentFinishes, AgentSends
<1>29. ASSUME AgentAccepted PROVE Free(d)' \/ Dial(d)
  BY <1>29 DEF AgentAccepted, NextFrame
<1>30. ASSUME AgentRejects PROVE Free(d)' \/ Dial(d)
  BY <1>30 DEF AgentRejects, NextFrame, DropConn
<1>31. ASSUME AgentReceives PROVE Free(d)' \/ Dial(d)
  BY <1>31 DEF AgentReceives, NextFrame
<1>32. ASSUME AgentDisconnected PROVE Free(d)' \/ Dial(d)
  BY <1>32 DEF AgentDisconnected, DropConn
<1>33. ASSUME AgentHeartbeat PROVE Free(d)' \/ Dial(d)
  BY <1>33 DEF AgentHeartbeat, AgentSends
<1>34. ASSUME AgentLosesConn PROVE Free(d)' \/ Dial(d)
  BY <1>34 DEF AgentLosesConn, DropConn, Fault
<1>35. ASSUME AgentCrash PROVE Free(d)' \/ Dial(d)
  BY <1>35 DEF AgentCrash, DropConn, Fault
<1>36. ASSUME CoreCrash PROVE Free(d)' \/ Dial(d)
  BY <1>36 DEF CoreCrash, Fault
<1>37. ASSUME CoreStart PROVE Free(d)' \/ Dial(d)
  BY <1>37 DEF CoreStart, ResetSentTasks
<1>38. CASE UNCHANGED vars
  BY <1>38 DEF vars
<1>. QED
  BY <1>1, <1>2, <1>3, <1>4, <1>5, <1>6, <1>7, <1>8, <1>9, <1>10, <1>11,
     <1>12, <1>13, <1>14, <1>15, <1>16, <1>17, <1>18, <1>19, <1>20, <1>21, <1>22,
     <1>23, <1>24, <1>25, <1>26, <1>27, <1>28, <1>29, <1>30, <1>31, <1>32, <1>33,
     <1>34, <1>35, <1>36, <1>37, <1>38
  DEF Next, Handler, Flush, Request, AgentReads

\* At most one connection is in use.
OneAtATime == \A c, d \in Conns : Free(c) \/ Free(d) \/ c = d

\* The handler of that connection owns the session from the moment it has
\* published it; it holds a frame only while it serves; and there is none while
\* the core is down.
HandlerIsSession ==
  /\ \A c \in Conns : pc[c] \in Live => sess = c
  /\ \A c \in Conns : hand[c] # NoFrame => pc[c] = "serving"
  /\ ~coreUp => \A c \in Conns : pc[c] = "free"

Lone == OneAtATime /\ HandlerIsSession

\* A dial takes the only connection.
LEMMA OneAtATimeStep ==
  ASSUME Overlap = FALSE, LinkTyped, Registry, OneAtATime, [Next]_vars
  PROVE  OneAtATime'
<1>1. CASE \E e \in Conns : Dial(e)
  <2>1. PICK e \in Conns : Dial(e)
    BY <1>1
  <2>2. \A d \in Conns : Free(d)
    BY <2>1 DEF Dial
  <2>3. \A d \in Conns : Free(d)' \/ Dial(d)
    BY <2>2, FreeStays
  <2>4. \A d \in Conns : Dial(d) => d = e
    <3>1. nconn' = e
      BY <2>1 DEF Dial
    <3>. QED  BY <3>1 DEF Dial
  <2>. QED  BY <2>3, <2>4 DEF OneAtATime
<1>2. CASE ~\E e \in Conns : Dial(e)
  <2>1. \A d \in Conns : Free(d) => Free(d)'
    BY <1>2, FreeStays
  <2>. QED  BY <2>1 DEF OneAtATime
<1>. QED  BY <1>1, <1>2

\* The handler of the only connection in use owns the session.
LEMMA HandlerIsSessionStep ==
  ASSUME LinkTyped, Lone, [Next]_vars PROVE HandlerIsSession'
<1>. USE LinkAssumption DEF LinkTyped, TypeOK, HandlerPc, Lone, HandlerIsSession, Live,
                            core, db, net, node
<1>1. ASSUME NEW c \in Conns, ReadAuth(c) PROVE HandlerIsSession'
  BY <1>1 DEF ReadAuth, SetPc
<1>2. ASSUME NEW c \in Conns, ReadAuthFails(c) PROVE HandlerIsSession'
  BY <1>2 DEF ReadAuthFails, SetPc, StopReading
<1>3. ASSUME NEW c \in Conns, Publish(c) PROVE HandlerIsSession'
  <2>1. \A d \in Conns \ {c} : pc[d] = "free"
    BY <1>3 DEF Publish, OneAtATime, Free
  <2>. QED  BY <1>3, <2>1 DEF Publish, SetPc
<1>4. ASSUME NEW c \in Conns, Register(c) PROVE HandlerIsSession'
  BY <1>4 DEF Register, SetPc
<1>5. ASSUME NEW c \in Conns, SendAuthLength(c) PROVE HandlerIsSession'
  BY <1>5 DEF SendAuthLength, SetPc
<1>6. ASSUME NEW c \in Conns, SendAuthBody(c) PROVE HandlerIsSession'
  BY <1>6 DEF SendAuthBody, SetPc
<1>7. ASSUME NEW c \in Conns, SendAuthFails(c) PROVE HandlerIsSession'
  BY <1>7 DEF SendAuthFails, SetPc, StopReading
<1>8. ASSUME NEW c \in Conns, ReadMessage(c) PROVE HandlerIsSession'
  BY <1>8 DEF ReadMessage
<1>9. ASSUME NEW c \in Conns, DispatchHeartbeat(c) PROVE HandlerIsSession'
  BY <1>9 DEF DispatchHeartbeat
<1>10. ASSUME NEW c \in Conns, DispatchTaskResult(c) PROVE HandlerIsSession'
  BY <1>10 DEF DispatchTaskResult, UpdateTaskResult
<1>11. ASSUME NEW c \in Conns, ReadError(c) PROVE HandlerIsSession'
  BY <1>11 DEF ReadError, SetPc, StopReading
<1>12. ASSUME NEW c \in Conns, RemoveSession(c) PROVE HandlerIsSession'
  BY <1>12 DEF RemoveSession, SetPc
<1>13. ASSUME NEW c \in Conns, MarkNodeOffline(c) PROVE HandlerIsSession'
  BY <1>13 DEF MarkNodeOffline, SetPc
<1>14. ASSUME NEW c \in Conns, RequeueSent(c) PROVE HandlerIsSession'
  BY <1>14 DEF RequeueSent, SetPc, ResetSentTasks
<1>15. ASSUME NEW c \in Conns, CloseConn(c) PROVE HandlerIsSession'
  BY <1>15 DEF CloseConn, SetPc
<1>16. ASSUME NEW c \in Conns, ReadTimeout(c) PROVE HandlerIsSession'
  BY <1>16 DEF ReadTimeout, SetPc, StopReading
<1>17. ASSUME NEW c \in Conns, FlushSelect(c) PROVE HandlerIsSession'
  BY <1>17 DEF FlushSelect, PendingTasks
<1>18. ASSUME NEW c \in Conns, FlushSend(c) PROVE HandlerIsSession'
  BY <1>18 DEF FlushSend, CoreWrites
<1>19. ASSUME NEW c \in Conns, FlushMark(c) PROVE HandlerIsSession'
  BY <1>19 DEF FlushMark, MarkTaskSent
<1>20. ASSUME NEW c \in Conns, FlushEnd(c) PROVE HandlerIsSession'
  BY <1>20 DEF FlushEnd, CoreWriteFails
<1>21. ASSUME NEW c \in Conns, Dial(c) PROVE HandlerIsSession'
  BY <1>21 DEF Dial, SetPc, Free
<1>22. ASSUME NEW t \in Tasks, CreateTask(t) PROVE HandlerIsSession'
  BY <1>22 DEF CreateTask
<1>23. ASSUME NEW t \in Tasks, APILookup(t) PROVE HandlerIsSession'
  BY <1>23 DEF APILookup
<1>24. ASSUME NEW t \in Tasks, APISend(t) PROVE HandlerIsSession'
  BY <1>24 DEF APISend, CoreWrites
<1>25. ASSUME NEW t \in Tasks, APISendFails(t) PROVE HandlerIsSession'
  BY <1>25 DEF APISendFails, CoreWriteFails, APIDone
<1>26. ASSUME NEW t \in Tasks, APIMark(t) PROVE HandlerIsSession'
  BY <1>26 DEF APIMark, MarkTaskSent, APIDone
<1>27. ASSUME NEW t \in Tasks, APIMarkFails(t) PROVE HandlerIsSession'
  BY <1>27 DEF APIMarkFails, APIDone
<1>28. ASSUME NEW t \in Tasks, NEW r \in Terminal, AgentFinishes(t, r) PROVE HandlerIsSession'
  BY <1>28 DEF AgentFinishes, AgentSends
<1>29. ASSUME AgentAccepted PROVE HandlerIsSession'
  BY <1>29 DEF AgentAccepted, NextFrame
<1>30. ASSUME AgentRejects PROVE HandlerIsSession'
  BY <1>30 DEF AgentRejects, NextFrame, DropConn
<1>31. ASSUME AgentReceives PROVE HandlerIsSession'
  BY <1>31 DEF AgentReceives, NextFrame
<1>32. ASSUME AgentDisconnected PROVE HandlerIsSession'
  BY <1>32 DEF AgentDisconnected, DropConn
<1>33. ASSUME AgentHeartbeat PROVE HandlerIsSession'
  BY <1>33 DEF AgentHeartbeat, AgentSends
<1>34. ASSUME AgentLosesConn PROVE HandlerIsSession'
  BY <1>34 DEF AgentLosesConn, DropConn, Fault
<1>35. ASSUME AgentCrash PROVE HandlerIsSession'
  BY <1>35 DEF AgentCrash, DropConn, Fault
<1>36. ASSUME CoreCrash PROVE HandlerIsSession'
  BY <1>36 DEF CoreCrash, Fault
<1>37. ASSUME CoreStart PROVE HandlerIsSession'
  BY <1>37 DEF CoreStart, ResetSentTasks
<1>38. CASE UNCHANGED vars
  BY <1>38 DEF vars
<1>. QED
  BY <1>1, <1>2, <1>3, <1>4, <1>5, <1>6, <1>7, <1>8, <1>9, <1>10, <1>11,
     <1>12, <1>13, <1>14, <1>15, <1>16, <1>17, <1>18, <1>19, <1>20, <1>21, <1>22,
     <1>23, <1>24, <1>25, <1>26, <1>27, <1>28, <1>29, <1>30, <1>31, <1>32, <1>33,
     <1>34, <1>35, <1>36, <1>37, <1>38
  DEF Next, Handler, Flush, Request, AgentReads

\* So it is as long as no handler overlaps with the next.
LEMMA LoneInvariant ==
  ASSUME Overlap = FALSE PROVE Spec => []Lone
<1>1. Init => Lone
  BY DEF Init, Lone, OneAtATime, HandlerIsSession, Live, Free, NoWriter
<1>2. ASSUME LinkTyped, Registry, Lone, [Next]_vars PROVE Lone'
  BY <1>2, OneAtATimeStep, HandlerIsSessionStep DEF Lone
<1>. QED  BY <1>1, <1>2, LinkTypedInvariant, RegistryInvariant, PTL DEF Spec

-----------------------------------------------------------------------------
(* The status column.                                                      *)

\* While the last word on the status came from the registered handler: it shows the
\* node online from its registration on, the node is shown online only while there
\* is one or its clean-up is under way, and a core that is down has no handler.
Shown == {"registered", "authLen", "serving", "leaving"}
StatusKept ==
  /\ ~stale => \A c \in Conns : sess = c /\ pc[c] \in Shown => nodeUp
  /\ ~stale /\ coreUp /\ nodeUp => sess # NoConn \/ \E c \in Conns : pc[c] = "offline"
  /\ ~coreUp => sess = NoConn /\ \A c \in Conns : pc[c] = "free"

LEMMA StatusKeptStep ==
  ASSUME LinkTyped, Registry, StatusKept, [Next]_vars PROVE StatusKept'
<1>. USE LinkAssumption DEF LinkTyped, TypeOK, HandlerPc, StatusKept, Shown, core, db, net, node
<1>1. ASSUME NEW c \in Conns, ReadAuth(c) PROVE StatusKept'
  BY <1>1 DEF ReadAuth, SetPc
<1>2. ASSUME NEW c \in Conns, ReadAuthFails(c) PROVE StatusKept'
  BY <1>2 DEF ReadAuthFails, SetPc, StopReading
<1>3. ASSUME NEW c \in Conns, Publish(c) PROVE StatusKept'
  BY <1>3 DEF Publish, SetPc
<1>4. ASSUME NEW c \in Conns, Register(c) PROVE StatusKept'
  BY <1>4 DEF Register, SetPc
<1>5. ASSUME NEW c \in Conns, SendAuthLength(c) PROVE StatusKept'
  BY <1>5 DEF SendAuthLength, SetPc
<1>6. ASSUME NEW c \in Conns, SendAuthBody(c) PROVE StatusKept'
  BY <1>6 DEF SendAuthBody, SetPc
<1>7. ASSUME NEW c \in Conns, SendAuthFails(c) PROVE StatusKept'
  BY <1>7 DEF SendAuthFails, SetPc, StopReading
<1>8. ASSUME NEW c \in Conns, ReadMessage(c) PROVE StatusKept'
  BY <1>8 DEF ReadMessage
<1>9. ASSUME NEW c \in Conns, DispatchHeartbeat(c) PROVE StatusKept'
  BY <1>9 DEF DispatchHeartbeat
<1>10. ASSUME NEW c \in Conns, DispatchTaskResult(c) PROVE StatusKept'
  BY <1>10 DEF DispatchTaskResult, UpdateTaskResult
<1>11. ASSUME NEW c \in Conns, ReadError(c) PROVE StatusKept'
  BY <1>11 DEF ReadError, SetPc, StopReading
<1>12. ASSUME NEW c \in Conns, RemoveSession(c) PROVE StatusKept'
  BY <1>12 DEF RemoveSession, SetPc
<1>13. ASSUME NEW c \in Conns, MarkNodeOffline(c) PROVE StatusKept'
  BY <1>13 DEF MarkNodeOffline, SetPc
<1>14. ASSUME NEW c \in Conns, RequeueSent(c) PROVE StatusKept'
  BY <1>14 DEF RequeueSent, SetPc, ResetSentTasks
<1>15. ASSUME NEW c \in Conns, CloseConn(c) PROVE StatusKept'
  BY <1>15 DEF CloseConn, SetPc
<1>16. ASSUME NEW c \in Conns, ReadTimeout(c) PROVE StatusKept'
  BY <1>16 DEF ReadTimeout, SetPc, StopReading
<1>17. ASSUME NEW c \in Conns, FlushSelect(c) PROVE StatusKept'
  BY <1>17 DEF FlushSelect, PendingTasks
<1>18. ASSUME NEW c \in Conns, FlushSend(c) PROVE StatusKept'
  BY <1>18 DEF FlushSend, CoreWrites
<1>19. ASSUME NEW c \in Conns, FlushMark(c) PROVE StatusKept'
  BY <1>19 DEF FlushMark, MarkTaskSent
<1>20. ASSUME NEW c \in Conns, FlushEnd(c) PROVE StatusKept'
  BY <1>20 DEF FlushEnd, CoreWriteFails
<1>21. ASSUME NEW c \in Conns, Dial(c) PROVE StatusKept'
  BY <1>21 DEF Dial, SetPc, Free
<1>22. ASSUME NEW t \in Tasks, CreateTask(t) PROVE StatusKept'
  BY <1>22 DEF CreateTask
<1>23. ASSUME NEW t \in Tasks, APILookup(t) PROVE StatusKept'
  BY <1>23 DEF APILookup
<1>24. ASSUME NEW t \in Tasks, APISend(t) PROVE StatusKept'
  BY <1>24 DEF APISend, CoreWrites
<1>25. ASSUME NEW t \in Tasks, APISendFails(t) PROVE StatusKept'
  BY <1>25 DEF APISendFails, CoreWriteFails, APIDone
<1>26. ASSUME NEW t \in Tasks, APIMark(t) PROVE StatusKept'
  BY <1>26 DEF APIMark, MarkTaskSent, APIDone
<1>27. ASSUME NEW t \in Tasks, APIMarkFails(t) PROVE StatusKept'
  BY <1>27 DEF APIMarkFails, APIDone
<1>28. ASSUME NEW t \in Tasks, NEW r \in Terminal, AgentFinishes(t, r) PROVE StatusKept'
  BY <1>28 DEF AgentFinishes, AgentSends
<1>29. ASSUME AgentAccepted PROVE StatusKept'
  BY <1>29 DEF AgentAccepted, NextFrame
<1>30. ASSUME AgentRejects PROVE StatusKept'
  BY <1>30 DEF AgentRejects, NextFrame, DropConn
<1>31. ASSUME AgentReceives PROVE StatusKept'
  BY <1>31 DEF AgentReceives, NextFrame
<1>32. ASSUME AgentDisconnected PROVE StatusKept'
  BY <1>32 DEF AgentDisconnected, DropConn
<1>33. ASSUME AgentHeartbeat PROVE StatusKept'
  BY <1>33 DEF AgentHeartbeat, AgentSends
<1>34. ASSUME AgentLosesConn PROVE StatusKept'
  BY <1>34 DEF AgentLosesConn, DropConn, Fault
<1>35. ASSUME AgentCrash PROVE StatusKept'
  BY <1>35 DEF AgentCrash, DropConn, Fault
<1>36. ASSUME CoreCrash PROVE StatusKept'
  BY <1>36 DEF CoreCrash, Fault
<1>37. ASSUME CoreStart PROVE StatusKept'
  BY <1>37 DEF CoreStart
<1>38. CASE UNCHANGED vars
  BY <1>38 DEF vars
<1>. QED
  BY <1>1, <1>2, <1>3, <1>4, <1>5, <1>6, <1>7, <1>8, <1>9, <1>10, <1>11,
     <1>12, <1>13, <1>14, <1>15, <1>16, <1>17, <1>18, <1>19, <1>20, <1>21, <1>22,
     <1>23, <1>24, <1>25, <1>26, <1>27, <1>28, <1>29, <1>30, <1>31, <1>32, <1>33,
     <1>34, <1>35, <1>36, <1>37, <1>38
  DEF Next, Handler, Flush, Request, AgentReads

\* However handlers overlap, the status column tells whether the node can be
\* reached, unless the last to write it was a handler that a newer one had replaced,
\* whatever crashes and resets happen in between (UpdateNodeRegistration,
\* UpdateNodeHeartbeat, removeSession, MarkAllNodesOffline).
THEOREM StatusTellsTruth == Spec => []StatusIsTrue
<1>1. Init => StatusKept
  BY DEF Init, StatusKept, Shown
<1>2. ASSUME LinkTyped, Registry, StatusKept, [Next]_vars PROVE StatusKept'
  BY <1>2, StatusKeptStep
<1>3. ASSUME LinkTyped, Registry, StatusKept PROVE StatusIsTrue
  BY <1>3, LinkAssumption
  DEF LinkTyped, TypeOK, Registry, SessionHasHandler, Live, StatusKept, Shown, StatusIsTrue,
      OnlineWhileServing, OfflineWhenGone
<1>. QED  BY <1>1, <1>2, <1>3, LinkTypedInvariant, RegistryInvariant, PTL DEF Spec
-----------------------------------------------------------------------------
(* NodeLink implements DurableTask: whatever is lost, repeated or delayed, *)
(* the tasks table only ever shows a command being created, or an answer   *)
(* being recorded for a command that an agent has started.                 *)

\* The task frames name rows that exist, and the results name tasks that ran.
GoodDown == {f \in DownFrame : f.kind = "task" => task[f.task] # "none"}
GoodUp == {f \in UpFrame : f.kind \in Terminal => f.task \in ran}

FramesDown == down \in [Conns -> Seq(GoodDown)]
FramesUp == up \in [Conns -> Seq(GoodUp)]
InHand == \A c \in Conns : hand[c].kind \in Terminal => hand[c].task \in ran

\* What the two writers and the agent hold.
Queued ==
  /\ \A c \in Conns, t \in Tasks : t \in flushQ[c] => task[t] # "none"
  /\ \A t \in Tasks : api[t] # "none" => task[t] # "none"
Started ==
  /\ \A t \in Tasks : exec[t] > 0 => t \in ran
  /\ \A t \in Tasks : t \in ran => task[t] # "none"

\* An answer presupposes a run, wherever the two are: in the table, on the wire,
\* in the hands of the handler or still in the agent.
AnswerHasRun == \A t \in Tasks : task[t] \in Terminal => t \in ran

Carried == FramesDown /\ FramesUp /\ InHand /\ Queued /\ Started /\ AnswerHasRun

-----------------------------------------------------------------------------
(* Nothing is taken back: rows and runs only accumulate.                   *)

RowsStay == \A t \in Tasks : task[t] # "none" => task'[t] # "none"
RunsStay == ran \subseteq ran'

LEMMA Kinds ==
  /\ OkFrame \in GoodDown /\ JunkFrame \in GoodDown
  /\ \A t \in Tasks : task[t] # "none" => TaskAssign(t) \in GoodDown
  /\ AuthFrame \in GoodUp /\ Heartbeat \in GoodUp
  /\ \A t \in Tasks, r \in Terminal : t \in ran => TaskResult(t, r) \in GoodUp
  BY DownFrames, UpFrames
  DEF GoodDown, GoodUp, OkFrame, JunkFrame, TaskAssign, AuthFrame, Heartbeat,
      TaskResult, Terminal

\* What is good stays good while rows and runs accumulate.
LEMMA GoodStays ==
  ASSUME RowsStay, RunsStay
  PROVE  /\ GoodDown \subseteq GoodDown'
         /\ GoodUp \subseteq GoodUp'
  BY DownFrames DEF GoodDown, GoodUp, RowsStay, RunsStay, DownFrame, UpFrame, Terminal

LEMMA SeqMonotone ==
  ASSUME NEW A, NEW B, A \subseteq B, NEW q \in [Conns -> Seq(A)]
  PROVE  q \in [Conns -> Seq(B)]
<1>1. \A c \in Conns : q[c] \in Seq(B)
  <2>. SUFFICES ASSUME NEW c \in Conns PROVE q[c] \in Seq(B)
    OBVIOUS
  <2>1. q[c] \in Seq(A)
    OBVIOUS
  <2>. QED  BY <2>1
<1>. QED  BY <1>1

\* The queues are good after a step that leaves them good for the old state.
LEMMA QueuesStay ==
  ASSUME RowsStay, RunsStay,
         down' \in [Conns -> Seq(GoodDown)], up' \in [Conns -> Seq(GoodUp)]
  PROVE  FramesDown' /\ FramesUp'
  BY GoodStays, SeqMonotone DEF FramesDown, FramesUp

-----------------------------------------------------------------------------
(* The invariant.                                                          *)

\* What one step does to the parts of Carried, the queues seen with the rows and
\* runs of the state before it.
StepCarries ==
  /\ RowsStay /\ RunsStay
  /\ down' \in [Conns -> Seq(GoodDown)] /\ up' \in [Conns -> Seq(GoodUp)]
  /\ InHand' /\ Queued' /\ Started' /\ AnswerHasRun'

LEMMA StepOfCarried ==
  ASSUME LinkTyped, LinkTyped', Carried, [Next]_vars
  PROVE  StepCarries
<1>. USE LinkAssumption DEF LinkTyped, TypeOK, Carried, FramesDown, FramesUp, InHand,
       Queued, Started, AnswerHasRun, RowsStay, RunsStay, StepCarries
<1>1. ASSUME NEW c \in Conns, ReadAuth(c) PROVE StepCarries
  BY <1>1, QueueType DEF ReadAuth, SetPc, db, node
<1>2. ASSUME NEW c \in Conns, ReadAuthFails(c) PROVE StepCarries
  BY <1>2, QueueType DEF ReadAuthFails, SetPc, StopReading, db, node
<1>3. ASSUME NEW c \in Conns, Publish(c) PROVE StepCarries
  BY <1>3 DEF Publish, SetPc, db, node
<1>4. ASSUME NEW c \in Conns, Register(c) PROVE StepCarries
  BY <1>4 DEF Register, SetPc, net, node
<1>5. ASSUME NEW c \in Conns, SendAuthLength(c) PROVE StepCarries
  BY <1>5 DEF SendAuthLength, SetPc, db, net, node
<1>6. ASSUME NEW c \in Conns, SendAuthBody(c) PROVE StepCarries
  BY <1>6, QueueType, Kinds DEF SendAuthBody, SetPc, db, node
<1>7. ASSUME NEW c \in Conns, SendAuthFails(c) PROVE StepCarries
  BY <1>7, QueueType DEF SendAuthFails, SetPc, StopReading, db, node
<1>8. ASSUME NEW c \in Conns, ReadMessage(c) PROVE StepCarries
  <2>1. Head(up[c]) \in GoodUp /\ up' \in [Conns -> Seq(GoodUp)]
    BY <1>8, QueueType DEF ReadMessage
  <2>2. hand' = [hand EXCEPT ![c] = Head(up[c])]
    BY <1>8 DEF ReadMessage
  <2>3. InHand'
    BY <1>8, <2>1, <2>2 DEF ReadMessage, GoodUp, node
  <2>. QED  BY <1>8, <2>1, <2>3 DEF ReadMessage, db, node
<1>9. ASSUME NEW c \in Conns, DispatchHeartbeat(c) PROVE StepCarries
  BY <1>9, UpFrames DEF DispatchHeartbeat, net, node
<1>10. ASSUME NEW c \in Conns, DispatchTaskResult(c) PROVE StepCarries
  BY <1>10, UpFrames DEF DispatchTaskResult, UpdateTaskResult, Terminal, net, node
<1>11. ASSUME NEW c \in Conns, ReadError(c) PROVE StepCarries
  BY <1>11, QueueType DEF ReadError, SetPc, StopReading, db, node
<1>12. ASSUME NEW c \in Conns, RemoveSession(c) PROVE StepCarries
  BY <1>12 DEF RemoveSession, SetPc, db, net, node
<1>13. ASSUME NEW c \in Conns, MarkNodeOffline(c) PROVE StepCarries
  BY <1>13 DEF MarkNodeOffline, SetPc, net, node
<1>14. ASSUME NEW c \in Conns, RequeueSent(c) PROVE StepCarries
  BY <1>14 DEF RequeueSent, SetPc, ResetSentTasks, Terminal, net, node
<1>15. ASSUME NEW c \in Conns, CloseConn(c) PROVE StepCarries
  BY <1>15 DEF CloseConn, SetPc, db, node
<1>16. ASSUME NEW c \in Conns, ReadTimeout(c) PROVE StepCarries
  BY <1>16, QueueType DEF ReadTimeout, SetPc, StopReading, db, node
<1>17. ASSUME NEW c \in Conns, FlushSelect(c) PROVE StepCarries
  BY <1>17 DEF FlushSelect, PendingTasks, db, net, node
<1>18. ASSUME NEW c \in Conns, FlushSend(c) PROVE StepCarries
  BY <1>18, QueueType, Kinds DEF FlushSend, CoreWrites, Oldest, db, node
<1>19. ASSUME NEW c \in Conns, FlushMark(c) PROVE StepCarries
  BY <1>19 DEF FlushMark, Oldest, MarkTaskSent, Terminal, net, node
<1>20. ASSUME NEW c \in Conns, FlushEnd(c) PROVE StepCarries
  BY <1>20 DEF FlushEnd, CoreWriteFails, db, net, node
<1>21. ASSUME NEW c \in Conns, Dial(c) PROVE StepCarries
  BY <1>21, Kinds DEF Dial, SetPc, Free, db
<1>22. ASSUME NEW t \in Tasks, CreateTask(t) PROVE StepCarries
  BY <1>22 DEF CreateTask, Terminal, net, node
<1>23. ASSUME NEW t \in Tasks, APILookup(t) PROVE StepCarries
  BY <1>23 DEF APILookup, db, net, node
<1>24. ASSUME NEW t \in Tasks, APISend(t) PROVE StepCarries
  BY <1>24, QueueType, Kinds DEF APISend, CoreWrites, db, node
<1>25. ASSUME NEW t \in Tasks, APISendFails(t) PROVE StepCarries
  BY <1>25 DEF APISendFails, CoreWriteFails, APIDone, db, net, node
<1>26. ASSUME NEW t \in Tasks, APIMark(t) PROVE StepCarries
  BY <1>26 DEF APIMark, MarkTaskSent, APIDone, Terminal, net, node
<1>27. ASSUME NEW t \in Tasks, APIMarkFails(t) PROVE StepCarries
  BY <1>27 DEF APIMarkFails, APIDone, db, net, node
<1>28. ASSUME NEW t \in Tasks, NEW r \in Terminal, AgentFinishes(t, r) PROVE StepCarries
  BY <1>28, QueueType, Kinds DEF AgentFinishes, AgentSends, core, db
<1>29. ASSUME AgentAccepted PROVE StepCarries
  BY <1>29, QueueType DEF AgentAccepted, NextFrame, core, db
<1>30. ASSUME AgentRejects PROVE StepCarries
  BY <1>30 DEF AgentRejects, DropConn, NextFrame, core, db
<1>31. ASSUME AgentReceives PROVE StepCarries
  <2> DEFINE t == Head(down[nconn]).task
  <2>1. nconn \in Conns /\ down[nconn] # <<>>
    BY <1>31 DEF AgentReceives, AgentConn, NextFrame
  <2>2. Head(down[nconn]) \in GoodDown /\ down' \in [Conns -> Seq(GoodDown)]
    BY <1>31, <2>1, QueueType DEF AgentReceives
  <2>3. t \in Tasks /\ task[t] # "none"
    BY <1>31, <2>2, DownFrames DEF AgentReceives, NextFrame, GoodDown
  <2>4. /\ ran' = ran \union {t} /\ exec' = [exec EXCEPT ![t] = @ + 1]
        /\ UNCHANGED <<hand, flushQ, api, task, up>>
    BY <1>31 DEF AgentReceives, core, db
  <2> HIDE DEF t
  <2>. QED  BY <2>2, <2>3, <2>4
<1>32. ASSUME AgentDisconnected PROVE StepCarries
  BY <1>32 DEF AgentDisconnected, DropConn, core, db
<1>33. ASSUME AgentHeartbeat PROVE StepCarries
  BY <1>33, QueueType, Kinds DEF AgentHeartbeat, AgentSends, core, db
<1>34. ASSUME AgentLosesConn PROVE StepCarries
  BY <1>34 DEF AgentLosesConn, DropConn, Fault, core, db
<1>35. ASSUME AgentCrash PROVE StepCarries
  BY <1>35 DEF AgentCrash, DropConn, Fault, core, db
<1>36. ASSUME CoreCrash PROVE StepCarries
  BY <1>36, EmptyQueues, UpFrames DEF CoreCrash, Fault, db, node
<1>37. ASSUME CoreStart PROVE StepCarries
  BY <1>37 DEF CoreStart, ResetSentTasks, Terminal, net, node
<1>38. CASE UNCHANGED vars
  BY <1>38 DEF vars, core, db, net, node
<1>. QED
  BY <1>1, <1>2, <1>3, <1>4, <1>5, <1>6, <1>7, <1>8, <1>9, <1>10, <1>11,
     <1>12, <1>13, <1>14, <1>15, <1>16, <1>17, <1>18, <1>19, <1>20, <1>21,
     <1>22, <1>23, <1>24, <1>25, <1>26, <1>27, <1>28, <1>29, <1>30, <1>31,
     <1>32, <1>33, <1>34, <1>35, <1>36, <1>37, <1>38
  DEF Next, Handler, Flush, Request, AgentReads

\* Carried is inductive.  The property of the queue that an operator relies on,
\* AnswerHasRun, is not inductive by itself: an answer is recorded from a frame
\* that the handler read some steps before, off a connection that may be gone.
LEMMA CarriedInvariant == Spec => []Carried
<1>1. Init => Carried
  <2>. SUFFICES ASSUME Init PROVE Carried  OBVIOUS
  <2>1. FramesDown /\ FramesUp
    BY EmptyQueues DEF Init, FramesDown, FramesUp
  <2>. QED
    BY <2>1, UpFrames
    DEF Init, Carried, InHand, Queued, Started, AnswerHasRun, Terminal
<1>2. ASSUME LinkTyped, LinkTyped', Carried, [Next]_vars PROVE Carried'
  <2>1. StepCarries
    BY <1>2, StepOfCarried
  <2>2. FramesDown' /\ FramesUp'
    BY <2>1, QueuesStay DEF StepCarries
  <2>. QED  BY <2>1, <2>2 DEF StepCarries, Carried
<1>. QED  BY <1>1, <1>2, LinkTypedInvariant, PTL DEF Spec

-----------------------------------------------------------------------------
(* The refinement.                                                         *)

\* The column tasks.status as DurableTask sees it.
statusBar == [t \in Tasks |-> IF task[t] = "none" THEN "none"
                             ELSE IF task[t] \in Terminal THEN "answered" ELSE "open"]

\* A step that neither creates a row, nor answers one, nor starts a task is a
\* stutter of the abstract queue: marks, requeues and duplicate answers.
LEMMA SameStatus ==
  ASSUME LinkTyped,
         \A t \in Tasks : task'[t] = "none" <=> task[t] = "none",
         \A t \in Tasks : task'[t] \in Terminal <=> task[t] \in Terminal
  PROVE  statusBar' = statusBar
  BY DEF statusBar, LinkTyped, TypeOK

LEMMA StepRefines ==
  ASSUME LinkTyped, Carried, [Next]_vars
  PROVE  [Queue!Next]_(Queue!vars)
<1>. USE LinkAssumption DEF LinkTyped, TypeOK, Queue!vars
<1> DEFINE Stutters == statusBar' = statusBar /\ ran' = ran
<1>0. ASSUME Stutters PROVE UNCHANGED Queue!vars
  BY <1>0 DEF statusBar
<1>1. ASSUME NEW t \in Tasks, CreateTask(t) PROVE Queue!Next
  <2>1. /\ statusBar[t] = "none"
        /\ statusBar' = [statusBar EXCEPT ![t] = "open"]
        /\ ran' = ran
    BY <1>1 DEF CreateTask, statusBar, Terminal, node
  <2>2. Queue!Create(t)
    BY <2>1 DEF Queue!Create, statusBar
  <2>. QED  BY <2>2 DEF Queue!Next
<1>2. ASSUME AgentReceives PROVE Queue!Next
  <2> DEFINE t == Head(down[nconn]).task
  <2>1. nconn \in Conns /\ down[nconn] # <<>>
    BY <1>2 DEF AgentReceives, AgentConn, NextFrame
  <2>2. Head(down[nconn]) \in GoodDown
    BY <2>1, QueueType DEF Carried, FramesDown
  <2>3. t \in Tasks /\ task[t] # "none"
    BY <1>2, <2>2, DownFrames DEF AgentReceives, NextFrame, GoodDown
  <2>4. ran' = ran \union {t} /\ task' = task
    BY <1>2 DEF AgentReceives, db
  <2> HIDE DEF t
  <2>5. statusBar[t] # "none" /\ statusBar' = statusBar
    BY <2>3, <2>4 DEF statusBar, Terminal
  <2>6. Queue!Run(t)
    BY <2>4, <2>5 DEF Queue!Run, statusBar
  <2>. QED  BY <2>3, <2>6 DEF Queue!Next
<1>3. ASSUME NEW c \in Conns, DispatchTaskResult(c) PROVE Queue!Next \/ Stutters
  <2>1. hand[c].kind \in Terminal /\ hand[c].task \in Tasks
    BY <1>3, UpFrames DEF DispatchTaskResult
  <2>2. PICK t \in Tasks, r \in Terminal :
          t = hand[c].task /\ task' = [task EXCEPT ![t] = r] /\ ran' = ran
    BY <1>3, <2>1 DEF DispatchTaskResult, UpdateTaskResult, node
  <2>3. t \in ran /\ task[t] # "none"
    BY <2>1, <2>2 DEF Carried, InHand, Started
  <2>4. CASE task[t] \in Terminal
    <3>1. statusBar' = statusBar
      BY <2>1, <2>2, <2>3, <2>4 DEF statusBar, Terminal
    <3>. QED  BY <2>2, <3>1
  <2>5. CASE task[t] \notin Terminal
    <3>1. statusBar[t] = "open" /\ statusBar' = [statusBar EXCEPT ![t] = "answered"]
      BY <2>1, <2>2, <2>3, <2>5 DEF statusBar, Terminal
    <3>2. Queue!Answer(t)
      BY <2>2, <2>3, <3>1 DEF Queue!Answer, statusBar
    <3>. QED  BY <3>2 DEF Queue!Next
  <2>. QED  BY <2>4, <2>5
<1>4. ASSUME NEW c \in Conns, ReadAuth(c) PROVE Stutters
  BY <1>4, SameStatus DEF ReadAuth, db, node
<1>5. ASSUME NEW c \in Conns, ReadAuthFails(c) PROVE Stutters
  BY <1>5, SameStatus DEF ReadAuthFails, db, node
<1>6. ASSUME NEW c \in Conns, Publish(c) PROVE Stutters
  BY <1>6, SameStatus DEF Publish, db, node
<1>7. ASSUME NEW c \in Conns, Register(c) PROVE Stutters
  BY <1>7, SameStatus DEF Register, db, node
<1>8. ASSUME NEW c \in Conns, SendAuthLength(c) PROVE Stutters
  BY <1>8, SameStatus DEF SendAuthLength, db, node
<1>9. ASSUME NEW c \in Conns, SendAuthBody(c) PROVE Stutters
  BY <1>9, SameStatus DEF SendAuthBody, db, node
<1>10. ASSUME NEW c \in Conns, SendAuthFails(c) PROVE Stutters
  BY <1>10, SameStatus DEF SendAuthFails, db, node
<1>11. ASSUME NEW c \in Conns, ReadMessage(c) PROVE Stutters
  BY <1>11, SameStatus DEF ReadMessage, db, node
<1>12. ASSUME NEW c \in Conns, DispatchHeartbeat(c) PROVE Stutters
  BY <1>12, SameStatus DEF DispatchHeartbeat, db, node
<1>13. ASSUME NEW c \in Conns, ReadError(c) PROVE Stutters
  BY <1>13, SameStatus DEF ReadError, db, node
<1>14. ASSUME NEW c \in Conns, RemoveSession(c) PROVE Stutters
  BY <1>14, SameStatus DEF RemoveSession, db, node
<1>15. ASSUME NEW c \in Conns, MarkNodeOffline(c) PROVE Stutters
  BY <1>15, SameStatus DEF MarkNodeOffline, db, node
<1>16. ASSUME NEW c \in Conns, RequeueSent(c) PROVE Stutters
  BY <1>16, SameStatus DEF RequeueSent, ResetSentTasks, Terminal, net, node
<1>17. ASSUME NEW c \in Conns, CloseConn(c) PROVE Stutters
  BY <1>17, SameStatus DEF CloseConn, db, node
<1>18. ASSUME NEW c \in Conns, ReadTimeout(c) PROVE Stutters
  BY <1>18, SameStatus DEF ReadTimeout, db, node
<1>19. ASSUME NEW c \in Conns, FlushSelect(c) PROVE Stutters
  BY <1>19, SameStatus DEF FlushSelect, db, node
<1>20. ASSUME NEW c \in Conns, FlushSend(c) PROVE Stutters
  BY <1>20, SameStatus DEF FlushSend, db, node
<1>21. ASSUME NEW c \in Conns, FlushMark(c) PROVE Stutters
  BY <1>21, SameStatus DEF FlushMark, Oldest, MarkTaskSent, Terminal, net, node
<1>22. ASSUME NEW c \in Conns, FlushEnd(c) PROVE Stutters
  BY <1>22, SameStatus DEF FlushEnd, db, node
<1>23. ASSUME NEW c \in Conns, Dial(c) PROVE Stutters
  BY <1>23, SameStatus DEF Dial, db, node
<1>24. ASSUME NEW t \in Tasks, APILookup(t) PROVE Stutters
  BY <1>24, SameStatus DEF APILookup, db, node
<1>25. ASSUME NEW t \in Tasks, APISend(t) PROVE Stutters
  BY <1>25, SameStatus DEF APISend, db, node
<1>26. ASSUME NEW t \in Tasks, APISendFails(t) PROVE Stutters
  BY <1>26, SameStatus DEF APISendFails, db, node
<1>27. ASSUME NEW t \in Tasks, APIMark(t) PROVE Stutters
  BY <1>27, SameStatus DEF APIMark, MarkTaskSent, Terminal, net, node
<1>28. ASSUME NEW t \in Tasks, APIMarkFails(t) PROVE Stutters
  BY <1>28, SameStatus DEF APIMarkFails, db, node
<1>29. ASSUME NEW t \in Tasks, NEW r \in Terminal, AgentFinishes(t, r) PROVE Stutters
  BY <1>29, SameStatus DEF AgentFinishes, db
<1>30. ASSUME AgentAccepted PROVE Stutters
  BY <1>30, SameStatus DEF AgentAccepted, db
<1>31. ASSUME AgentRejects PROVE Stutters
  BY <1>31, SameStatus DEF AgentRejects, db
<1>32. ASSUME AgentDisconnected PROVE Stutters
  BY <1>32, SameStatus DEF AgentDisconnected, db
<1>33. ASSUME AgentHeartbeat PROVE Stutters
  BY <1>33, SameStatus DEF AgentHeartbeat, db
<1>34. ASSUME AgentLosesConn PROVE Stutters
  BY <1>34, SameStatus DEF AgentLosesConn, db
<1>35. ASSUME AgentCrash PROVE Stutters
  BY <1>35, SameStatus DEF AgentCrash, db
<1>36. ASSUME CoreCrash PROVE Stutters
  BY <1>36, SameStatus DEF CoreCrash, db, node
<1>37. ASSUME CoreStart PROVE Stutters
  BY <1>37, SameStatus DEF CoreStart, ResetSentTasks, Terminal, net, node
<1>38. ASSUME UNCHANGED vars PROVE Stutters
  BY <1>38, SameStatus DEF vars, db, node
<1>. HIDE DEF Stutters
<1>. QED
  BY <1>0, <1>1, <1>2, <1>3, <1>4, <1>5, <1>6, <1>7, <1>8, <1>9, <1>10,
     <1>11, <1>12, <1>13, <1>14, <1>15, <1>16, <1>17, <1>18, <1>19, <1>20,
     <1>21, <1>22, <1>23, <1>24, <1>25, <1>26, <1>27, <1>28, <1>29, <1>30,
     <1>31, <1>32, <1>33, <1>34, <1>35, <1>36, <1>37, <1>38
  DEF Next, Handler, Flush, Request, AgentReads

\* The link implements the queue it promises: a command is remembered, only
\* answered after the node started it, and never opened again once answered.
THEOREM LinkImplementsQueue == Spec => QueueSpec
<1>1. Init => Queue!Init
  BY DEF Init, Queue!Init
<1>2. ASSUME LinkTyped, Carried, [Next]_vars PROVE [Queue!Next]_(Queue!vars)
  BY <1>2, StepRefines
<1>. QED
  BY <1>1, <1>2, LinkTypedInvariant, CarriedInvariant, PTL
  DEF Spec, QueueSpec, Queue!Spec

-----------------------------------------------------------------------------
(* Delivery.  What follows supposes that the agent dials only when the core *)
(* is done with its last connection, and that a connection is cleaned up    *)
(* only when no writer holds it (Overlap = LateWriter = FALSE).             *)

\* Something in S is in the queue q.
OnWay(q, S) == \E i \in DOMAIN q : q[i] \in S

\* What a queue holds after a frame was written to it, or read from it.
LEMMA AppendOnWay ==
  ASSUME NEW F, NEW q \in Seq(F), NEW f \in F, NEW S
  PROVE  OnWay(Append(q, f), S) <=> OnWay(q, S) \/ f \in S
<1>1. /\ Len(q) \in Nat /\ DOMAIN q = 1 .. Len(q) /\ DOMAIN Append(q, f) = 1 .. Len(q) + 1
      /\ \A i \in 1 .. Len(q) : Append(q, f)[i] = q[i]
      /\ Append(q, f)[Len(q) + 1] = f
  OBVIOUS
<1>. QED  BY <1>1 DEF OnWay

LEMMA TailOnWay ==
  ASSUME NEW F, NEW q \in Seq(F), q # <<>>, NEW S
  PROVE  OnWay(q, S) <=> Head(q) \in S \/ OnWay(Tail(q), S)
<1>1. /\ Len(q) \in Nat \ {0} /\ DOMAIN q = 1 .. Len(q) /\ DOMAIN Tail(q) = 1 .. Len(q) - 1
      /\ Head(q) = q[1]
      /\ \A i \in 1 .. Len(q) - 1 : Tail(q)[i] = q[i + 1]
  OBVIOUS
<1>2. ASSUME OnWay(q, S) PROVE Head(q) \in S \/ OnWay(Tail(q), S)
  <2>1. PICK i \in 1 .. Len(q) : q[i] \in S
    BY <1>1, <1>2 DEF OnWay
  <2>2. CASE i = 1
    BY <1>1, <2>1, <2>2
  <2>3. CASE i # 1
    <3>1. i - 1 \in 1 .. Len(q) - 1 /\ i - 1 + 1 = i
      BY <1>1, <2>3
    <3>2. Tail(q)[i - 1] = q[i]
      BY <1>1, <3>1
    <3>. QED  BY <1>1, <2>1, <3>1, <3>2 DEF OnWay
  <2>. QED  BY <2>2, <2>3
<1>3. ASSUME Head(q) \in S \/ OnWay(Tail(q), S) PROVE OnWay(q, S)
  <2>1. CASE Head(q) \in S
    BY <1>1, <2>1 DEF OnWay
  <2>2. CASE OnWay(Tail(q), S)
    <3>1. PICK i \in 1 .. Len(q) - 1 : Tail(q)[i] \in S
      BY <1>1, <2>2 DEF OnWay
    <3>2. i + 1 \in 1 .. Len(q) /\ q[i + 1] \in S
      BY <1>1, <3>1
    <3>. QED  BY <1>1, <3>2 DEF OnWay
  <2>. QED  BY <1>3, <2>1, <2>2
<1>. QED  BY <1>2, <1>3

\* Nothing is in an empty queue.
LEMMA EmptyOnWay == ASSUME NEW S PROVE ~OnWay(<<>>, S)
BY DEF OnWay

\* What carries task t down, and what carries its result up.
Assigns(t) == {TaskAssign(t), JunkFrame}
Results(t) == {TaskResult(t, r) : r \in Terminal}

LEMMA Carriers ==
  ASSUME NEW t \in Tasks
  PROVE  /\ OkFrame \notin Assigns(t)
         /\ AuthFrame \notin Results(t) /\ Heartbeat \notin Results(t) /\ NoFrame \notin Results(t)
         /\ \A f \in DownFrame : f.kind = "ok" => f \notin Assigns(t)
         /\ \A f \in DownFrame : f.kind = "task" /\ f \in Assigns(t) => f.task = t
         /\ \A f \in Results(t) : f.kind \in Terminal /\ f.task = t
BY DEF Assigns, Results, OkFrame, JunkFrame, TaskAssign, AuthFrame, Heartbeat, NoFrame,
       TaskResult, Terminal, DownFrame

\* The handler is on its way to serve.
Early == {"accepted", "known", "published", "registered", "authLen"}

\* A connection has writers only while its handler is published or cleaning up.
WriterPc == {"published", "registered", "authLen", "serving", "leaving", "offline", "requeue"}
Writing ==
  /\ \A c \in Conns : flushPc[c] # "off" => pc[c] \in {"serving", "leaving", "offline", "requeue"}
  /\ \A c \in Conns : flushPc[c] \in {"off", "select"} => flushQ[c] = {}
  /\ \A t \in Tasks, c \in Conns : apiConn[t] = c => pc[c] \in WriterPc

\* The node's end of a connection is open while the agent holds it.
NodeEnd ==
  /\ \A c \in Conns : nodeOpen[c] => npc # "down" /\ nconn = c
  /\ npc # "down" => nodeOpen[nconn]

\* Until the handler serves, the agent waits for the auth result.
Greeting ==
  \A c \in Conns : pc[c] \in Early /\ nodeOpen[c] => npc = "dialed" /\ ~OnWay(down[c], {OkFrame})

\* Once the last connection is cleaned up, and until the next is published, no
\* row says sent.
Requeued ==
  coreUp /\ (\A c \in Conns : pc[c] \in {"free", "accepted", "known", "closing"})
    => \A t \in Tasks : task[t] # "sent"

Settled == Writing /\ NodeEnd /\ Greeting /\ Requeued

LEMMA WritingStep ==
  ASSUME LateWriter = FALSE, LinkTyped, Registry, Lone, Writing, [Next]_vars
  PROVE  Writing'
<1>. USE LinkAssumption DEF LinkTyped, TypeOK, HandlerPc, Writing, WriterPc, core, db, net, node
<1>1. ASSUME NEW c \in Conns, ReadAuth(c) PROVE Writing'
  BY <1>1 DEF ReadAuth, SetPc
<1>2. ASSUME NEW c \in Conns, ReadAuthFails(c) PROVE Writing'
  BY <1>2 DEF ReadAuthFails, SetPc, StopReading
<1>3. ASSUME NEW c \in Conns, Publish(c) PROVE Writing'
  BY <1>3 DEF Publish, SetPc
<1>4. ASSUME NEW c \in Conns, Register(c) PROVE Writing'
  BY <1>4 DEF Register, SetPc
<1>5. ASSUME NEW c \in Conns, SendAuthLength(c) PROVE Writing'
  BY <1>5 DEF SendAuthLength, SetPc
<1>6. ASSUME NEW c \in Conns, SendAuthBody(c) PROVE Writing'
  BY <1>6 DEF SendAuthBody, SetPc
<1>7. ASSUME NEW c \in Conns, SendAuthFails(c) PROVE Writing'
  BY <1>7 DEF SendAuthFails, SetPc, StopReading
<1>8. ASSUME NEW c \in Conns, ReadMessage(c) PROVE Writing'
  BY <1>8 DEF ReadMessage
<1>9. ASSUME NEW c \in Conns, DispatchHeartbeat(c) PROVE Writing'
  BY <1>9 DEF DispatchHeartbeat
<1>10. ASSUME NEW c \in Conns, DispatchTaskResult(c) PROVE Writing'
  BY <1>10 DEF DispatchTaskResult, UpdateTaskResult
<1>11. ASSUME NEW c \in Conns, ReadError(c) PROVE Writing'
  BY <1>11 DEF ReadError, SetPc, StopReading
<1>12. ASSUME NEW c \in Conns, RemoveSession(c) PROVE Writing'
  BY <1>12 DEF RemoveSession, SetPc, Lone, HandlerIsSession, Live
<1>13. ASSUME NEW c \in Conns, MarkNodeOffline(c) PROVE Writing'
  BY <1>13 DEF MarkNodeOffline, SetPc
<1>14. ASSUME NEW c \in Conns, RequeueSent(c) PROVE Writing'
  BY <1>14 DEF RequeueSent, SetPc, ResetSentTasks, NoWriter
<1>15. ASSUME NEW c \in Conns, CloseConn(c) PROVE Writing'
  BY <1>15 DEF CloseConn, SetPc
<1>16. ASSUME NEW c \in Conns, ReadTimeout(c) PROVE Writing'
  BY <1>16 DEF ReadTimeout, SetPc, StopReading
<1>17. ASSUME NEW c \in Conns, FlushSelect(c) PROVE Writing'
  BY <1>17 DEF FlushSelect, PendingTasks
<1>18. ASSUME NEW c \in Conns, FlushSend(c) PROVE Writing'
  BY <1>18 DEF FlushSend, CoreWrites
<1>19. ASSUME NEW c \in Conns, FlushMark(c) PROVE Writing'
  BY <1>19 DEF FlushMark, MarkTaskSent
<1>20. ASSUME NEW c \in Conns, FlushEnd(c) PROVE Writing'
  BY <1>20 DEF FlushEnd, CoreWriteFails
<1>21. ASSUME NEW c \in Conns, Dial(c) PROVE Writing'
  BY <1>21 DEF Dial, SetPc, Free
<1>22. ASSUME NEW t \in Tasks, CreateTask(t) PROVE Writing'
  BY <1>22 DEF CreateTask
<1>23. ASSUME NEW t \in Tasks, APILookup(t) PROVE Writing'
  BY <1>23 DEF APILookup, Registry, SessionHasHandler, Live
<1>24. ASSUME NEW t \in Tasks, APISend(t) PROVE Writing'
  BY <1>24 DEF APISend, CoreWrites
<1>25. ASSUME NEW t \in Tasks, APISendFails(t) PROVE Writing'
  BY <1>25 DEF APISendFails, CoreWriteFails, APIDone
<1>26. ASSUME NEW t \in Tasks, APIMark(t) PROVE Writing'
  BY <1>26 DEF APIMark, MarkTaskSent, APIDone
<1>27. ASSUME NEW t \in Tasks, APIMarkFails(t) PROVE Writing'
  BY <1>27 DEF APIMarkFails, APIDone
<1>28. ASSUME NEW t \in Tasks, NEW r \in Terminal, AgentFinishes(t, r) PROVE Writing'
  BY <1>28 DEF AgentFinishes, AgentSends
<1>29. ASSUME AgentAccepted PROVE Writing'
  BY <1>29 DEF AgentAccepted, NextFrame
<1>30. ASSUME AgentRejects PROVE Writing'
  BY <1>30 DEF AgentRejects, NextFrame, DropConn
<1>31. ASSUME AgentReceives PROVE Writing'
  BY <1>31 DEF AgentReceives, NextFrame
<1>32. ASSUME AgentDisconnected PROVE Writing'
  BY <1>32 DEF AgentDisconnected, DropConn
<1>33. ASSUME AgentHeartbeat PROVE Writing'
  BY <1>33 DEF AgentHeartbeat, AgentSends
<1>34. ASSUME AgentLosesConn PROVE Writing'
  BY <1>34 DEF AgentLosesConn, DropConn, Fault
<1>35. ASSUME AgentCrash PROVE Writing'
  BY <1>35 DEF AgentCrash, DropConn, Fault
<1>36. ASSUME CoreCrash PROVE Writing'
  BY <1>36 DEF CoreCrash, Fault
<1>37. ASSUME CoreStart PROVE Writing'
  BY <1>37 DEF CoreStart, ResetSentTasks
<1>38. CASE UNCHANGED vars
  BY <1>38 DEF vars
<1>. QED
  BY <1>1, <1>2, <1>3, <1>4, <1>5, <1>6, <1>7, <1>8, <1>9, <1>10, <1>11,
     <1>12, <1>13, <1>14, <1>15, <1>16, <1>17, <1>18, <1>19, <1>20, <1>21, <1>22,
     <1>23, <1>24, <1>25, <1>26, <1>27, <1>28, <1>29, <1>30, <1>31, <1>32, <1>33,
     <1>34, <1>35, <1>36, <1>37, <1>38
  DEF Next, Handler, Flush, Request, AgentReads

LEMMA NodeEndStep ==
  ASSUME LinkTyped, NodeEnd, [Next]_vars PROVE NodeEnd'
<1>. USE LinkAssumption DEF LinkTyped, TypeOK, AgentConn, NodeEnd, core, db, net, node
<1>1. ASSUME NEW c \in Conns, ReadAuth(c) PROVE NodeEnd'
  BY <1>1 DEF ReadAuth, SetPc
<1>2. ASSUME NEW c \in Conns, ReadAuthFails(c) PROVE NodeEnd'
  BY <1>2 DEF ReadAuthFails, SetPc, StopReading
<1>3. ASSUME NEW c \in Conns, Publish(c) PROVE NodeEnd'
  BY <1>3 DEF Publish, SetPc
<1>4. ASSUME NEW c \in Conns, Register(c) PROVE NodeEnd'
  BY <1>4 DEF Register, SetPc
<1>5. ASSUME NEW c \in Conns, SendAuthLength(c) PROVE NodeEnd'
  BY <1>5 DEF SendAuthLength, SetPc
<1>6. ASSUME NEW c \in Conns, SendAuthBody(c) PROVE NodeEnd'
  BY <1>6 DEF SendAuthBody, SetPc
<1>7. ASSUME NEW c \in Conns, SendAuthFails(c) PROVE NodeEnd'
  BY <1>7 DEF SendAuthFails, SetPc, StopReading
<1>8. ASSUME NEW c \in Conns, ReadMessage(c) PROVE NodeEnd'
  BY <1>8 DEF ReadMessage
<1>9. ASSUME NEW c \in Conns, DispatchHeartbeat(c) PROVE NodeEnd'
  BY <1>9 DEF DispatchHeartbeat
<1>10. ASSUME NEW c \in Conns, DispatchTaskResult(c) PROVE NodeEnd'
  BY <1>10 DEF DispatchTaskResult, UpdateTaskResult
<1>11. ASSUME NEW c \in Conns, ReadError(c) PROVE NodeEnd'
  BY <1>11 DEF ReadError, SetPc, StopReading
<1>12. ASSUME NEW c \in Conns, RemoveSession(c) PROVE NodeEnd'
  BY <1>12 DEF RemoveSession, SetPc
<1>13. ASSUME NEW c \in Conns, MarkNodeOffline(c) PROVE NodeEnd'
  BY <1>13 DEF MarkNodeOffline, SetPc
<1>14. ASSUME NEW c \in Conns, RequeueSent(c) PROVE NodeEnd'
  BY <1>14 DEF RequeueSent, SetPc, ResetSentTasks
<1>15. ASSUME NEW c \in Conns, CloseConn(c) PROVE NodeEnd'
  BY <1>15 DEF CloseConn, SetPc
<1>16. ASSUME NEW c \in Conns, ReadTimeout(c) PROVE NodeEnd'
  BY <1>16 DEF ReadTimeout, SetPc, StopReading
<1>17. ASSUME NEW c \in Conns, FlushSelect(c) PROVE NodeEnd'
  BY <1>17 DEF FlushSelect, PendingTasks
<1>18. ASSUME NEW c \in Conns, FlushSend(c) PROVE NodeEnd'
  BY <1>18 DEF FlushSend, CoreWrites
<1>19. ASSUME NEW c \in Conns, FlushMark(c) PROVE NodeEnd'
  BY <1>19 DEF FlushMark, MarkTaskSent
<1>20. ASSUME NEW c \in Conns, FlushEnd(c) PROVE NodeEnd'
  BY <1>20 DEF FlushEnd, CoreWriteFails
<1>21. ASSUME NEW c \in Conns, Dial(c) PROVE NodeEnd'
  BY <1>21 DEF Dial, SetPc
<1>22. ASSUME NEW t \in Tasks, CreateTask(t) PROVE NodeEnd'
  BY <1>22 DEF CreateTask
<1>23. ASSUME NEW t \in Tasks, APILookup(t) PROVE NodeEnd'
  BY <1>23 DEF APILookup
<1>24. ASSUME NEW t \in Tasks, APISend(t) PROVE NodeEnd'
  BY <1>24 DEF APISend, CoreWrites
<1>25. ASSUME NEW t \in Tasks, APISendFails(t) PROVE NodeEnd'
  BY <1>25 DEF APISendFails, CoreWriteFails, APIDone
<1>26. ASSUME NEW t \in Tasks, APIMark(t) PROVE NodeEnd'
  BY <1>26 DEF APIMark, MarkTaskSent, APIDone
<1>27. ASSUME NEW t \in Tasks, APIMarkFails(t) PROVE NodeEnd'
  BY <1>27 DEF APIMarkFails, APIDone
<1>28. ASSUME NEW t \in Tasks, NEW r \in Terminal, AgentFinishes(t, r) PROVE NodeEnd'
  BY <1>28 DEF AgentFinishes, AgentSends
<1>29. ASSUME AgentAccepted PROVE NodeEnd'
  BY <1>29 DEF AgentAccepted, NextFrame
<1>30. ASSUME AgentRejects PROVE NodeEnd'
  BY <1>30 DEF AgentRejects, NextFrame, DropConn
<1>31. ASSUME AgentReceives PROVE NodeEnd'
  BY <1>31 DEF AgentReceives, NextFrame
<1>32. ASSUME AgentDisconnected PROVE NodeEnd'
  BY <1>32 DEF AgentDisconnected, DropConn
<1>33. ASSUME AgentHeartbeat PROVE NodeEnd'
  BY <1>33 DEF AgentHeartbeat, AgentSends
<1>34. ASSUME AgentLosesConn PROVE NodeEnd'
  BY <1>34 DEF AgentLosesConn, DropConn, Fault
<1>35. ASSUME AgentCrash PROVE NodeEnd'
  BY <1>35 DEF AgentCrash, DropConn, Fault
<1>36. ASSUME CoreCrash PROVE NodeEnd'
  BY <1>36 DEF CoreCrash, Fault
<1>37. ASSUME CoreStart PROVE NodeEnd'
  BY <1>37 DEF CoreStart, ResetSentTasks
<1>38. CASE UNCHANGED vars
  BY <1>38 DEF vars
<1>. QED
  BY <1>1, <1>2, <1>3, <1>4, <1>5, <1>6, <1>7, <1>8, <1>9, <1>10, <1>11,
     <1>12, <1>13, <1>14, <1>15, <1>16, <1>17, <1>18, <1>19, <1>20, <1>21, <1>22,
     <1>23, <1>24, <1>25, <1>26, <1>27, <1>28, <1>29, <1>30, <1>31, <1>32, <1>33,
     <1>34, <1>35, <1>36, <1>37, <1>38
  DEF Next, Handler, Flush, Request, AgentReads

\* Frames written to a connection and read from it leave the greeting.
LEMMA GreetingStep ==
  ASSUME LinkTyped, Lone, NodeEnd, Greeting, [Next]_vars PROVE Greeting'
<1>. USE LinkAssumption DEF LinkTyped, TypeOK, HandlerPc, AgentConn, NodeEnd, Greeting, Early, core, db, net, node
<1>0. \A c \in Conns, f \in DownFrame :
        f # OkFrame => (OnWay(Append(down[c], f), {OkFrame}) <=> OnWay(down[c], {OkFrame}))
  BY AppendOnWay
<1>a. \A t \in Tasks : TaskAssign(t) # OkFrame /\ JunkFrame # OkFrame
                     /\ TaskAssign(t) \in DownFrame /\ JunkFrame \in DownFrame
  BY DownFrames DEF TaskAssign, OkFrame, JunkFrame
<1>1. ASSUME NEW c \in Conns, ReadAuth(c) PROVE Greeting'
  BY <1>1 DEF ReadAuth, SetPc
<1>2. ASSUME NEW c \in Conns, ReadAuthFails(c) PROVE Greeting'
  BY <1>2 DEF ReadAuthFails, SetPc, StopReading
<1>3. ASSUME NEW c \in Conns, Publish(c) PROVE Greeting'
  BY <1>3 DEF Publish, SetPc
<1>4. ASSUME NEW c \in Conns, Register(c) PROVE Greeting'
  BY <1>4 DEF Register, SetPc
<1>5. ASSUME NEW c \in Conns, SendAuthLength(c) PROVE Greeting'
  BY <1>5 DEF SendAuthLength, SetPc
<1>6. ASSUME NEW c \in Conns, SendAuthBody(c) PROVE Greeting'
  BY <1>6 DEF SendAuthBody, SetPc
<1>7. ASSUME NEW c \in Conns, SendAuthFails(c) PROVE Greeting'
  BY <1>7 DEF SendAuthFails, SetPc, StopReading
<1>8. ASSUME NEW c \in Conns, ReadMessage(c) PROVE Greeting'
  BY <1>8 DEF ReadMessage
<1>9. ASSUME NEW c \in Conns, DispatchHeartbeat(c) PROVE Greeting'
  BY <1>9 DEF DispatchHeartbeat
<1>10. ASSUME NEW c \in Conns, DispatchTaskResult(c) PROVE Greeting'
  BY <1>10 DEF DispatchTaskResult, UpdateTaskResult
<1>11. ASSUME NEW c \in Conns, ReadError(c) PROVE Greeting'
  BY <1>11 DEF ReadError, SetPc, StopReading
<1>12. ASSUME NEW c \in Conns, RemoveSession(c) PROVE Greeting'
  BY <1>12 DEF RemoveSession, SetPc
<1>13. ASSUME NEW c \in Conns, MarkNodeOffline(c) PROVE Greeting'
  BY <1>13 DEF MarkNodeOffline, SetPc
<1>14. ASSUME NEW c \in Conns, RequeueSent(c) PROVE Greeting'
  BY <1>14 DEF RequeueSent, SetPc, ResetSentTasks
<1>15. ASSUME NEW c \in Conns, CloseConn(c) PROVE Greeting'
  BY <1>15 DEF CloseConn, SetPc
<1>16. ASSUME NEW c \in Conns, ReadTimeout(c) PROVE Greeting'
  BY <1>16 DEF ReadTimeout, SetPc, StopReading
<1>17. ASSUME NEW c \in Conns, FlushSelect(c) PROVE Greeting'
  BY <1>17 DEF FlushSelect, PendingTasks
<1>18. ASSUME NEW c \in Conns, FlushSend(c) PROVE Greeting'
  <2>1. PICK t \in Tasks : CoreWrites(c, TaskAssign(t))
    BY <1>18 DEF FlushSend
  <2>. QED  BY <1>18, <1>0, <1>a, <2>1 DEF FlushSend, CoreWrites
<1>19. ASSUME NEW c \in Conns, FlushMark(c) PROVE Greeting'
  BY <1>19 DEF FlushMark, MarkTaskSent
<1>20. ASSUME NEW c \in Conns, FlushEnd(c) PROVE Greeting'
  BY <1>20 DEF FlushEnd, CoreWriteFails
<1>21. ASSUME NEW c \in Conns, Dial(c) PROVE Greeting'
  BY <1>21, EmptyOnWay DEF Dial, SetPc, Free
<1>22. ASSUME NEW t \in Tasks, CreateTask(t) PROVE Greeting'
  BY <1>22 DEF CreateTask
<1>23. ASSUME NEW t \in Tasks, APILookup(t) PROVE Greeting'
  BY <1>23 DEF APILookup
<1>24. ASSUME NEW t \in Tasks, APISend(t) PROVE Greeting'
  BY <1>24, <1>0, <1>a DEF APISend, CoreWrites, HeldConn
<1>25. ASSUME NEW t \in Tasks, APISendFails(t) PROVE Greeting'
  BY <1>25 DEF APISendFails, CoreWriteFails, APIDone
<1>26. ASSUME NEW t \in Tasks, APIMark(t) PROVE Greeting'
  BY <1>26 DEF APIMark, MarkTaskSent, APIDone
<1>27. ASSUME NEW t \in Tasks, APIMarkFails(t) PROVE Greeting'
  BY <1>27 DEF APIMarkFails, APIDone
<1>28. ASSUME NEW t \in Tasks, NEW r \in Terminal, AgentFinishes(t, r) PROVE Greeting'
  BY <1>28 DEF AgentFinishes, AgentSends
<1>29. ASSUME AgentAccepted PROVE Greeting'
  <2>1. nconn \in Conns /\ down[nconn] # <<>> /\ Head(down[nconn]).kind = "ok" /\ Head(down[nconn]) \in DownFrame
    BY <1>29, QueueType DEF AgentAccepted, NextFrame
  <2>2. Head(down[nconn]) = OkFrame
    BY <2>1 DEF DownFrame, OkFrame, JunkFrame
  <2>3. OnWay(down[nconn], {OkFrame})
    BY <2>1, <2>2, TailOnWay
  <2>. QED  BY <1>29, <2>3 DEF AgentAccepted
<1>30. ASSUME AgentRejects PROVE Greeting'
  BY <1>30 DEF AgentRejects, NextFrame, DropConn
<1>31. ASSUME AgentReceives PROVE Greeting'
  BY <1>31 DEF AgentReceives, NextFrame
<1>32. ASSUME AgentDisconnected PROVE Greeting'
  BY <1>32 DEF AgentDisconnected, DropConn
<1>33. ASSUME AgentHeartbeat PROVE Greeting'
  BY <1>33 DEF AgentHeartbeat, AgentSends
<1>34. ASSUME AgentLosesConn PROVE Greeting'
  BY <1>34 DEF AgentLosesConn, DropConn, Fault
<1>35. ASSUME AgentCrash PROVE Greeting'
  BY <1>35 DEF AgentCrash, DropConn, Fault
<1>36. ASSUME CoreCrash PROVE Greeting'
  BY <1>36 DEF CoreCrash, Fault
<1>37. ASSUME CoreStart PROVE Greeting'
  BY <1>37 DEF CoreStart, ResetSentTasks
<1>38. CASE UNCHANGED vars
  BY <1>38 DEF vars
<1>. QED
  BY <1>1, <1>2, <1>3, <1>4, <1>5, <1>6, <1>7, <1>8, <1>9, <1>10, <1>11,
     <1>12, <1>13, <1>14, <1>15, <1>16, <1>17, <1>18, <1>19, <1>20, <1>21, <1>22,
     <1>23, <1>24, <1>25, <1>26, <1>27, <1>28, <1>29, <1>30, <1>31, <1>32, <1>33,
     <1>34, <1>35, <1>36, <1>37, <1>38
  DEF Next, Handler, Flush, Request, AgentReads

LEMMA RequeuedStep ==
  ASSUME LateWriter = FALSE, LinkTyped, Registry, Lone, Writing, Requeued, [Next]_vars
  PROVE  Requeued'
<1>. USE LinkAssumption DEF LinkTyped, TypeOK, HandlerPc, HeldConn, Requeued, core, db, net, node
<1>1. ASSUME NEW c \in Conns, ReadAuth(c) PROVE Requeued'
  BY <1>1 DEF ReadAuth, SetPc
<1>2. ASSUME NEW c \in Conns, ReadAuthFails(c) PROVE Requeued'
  BY <1>2 DEF ReadAuthFails, SetPc, StopReading
<1>3. ASSUME NEW c \in Conns, Publish(c) PROVE Requeued'
  BY <1>3 DEF Publish, SetPc
<1>4. ASSUME NEW c \in Conns, Register(c) PROVE Requeued'
  BY <1>4 DEF Register, SetPc
<1>5. ASSUME NEW c \in Conns, SendAuthLength(c) PROVE Requeued'
  BY <1>5 DEF SendAuthLength, SetPc
<1>6. ASSUME NEW c \in Conns, SendAuthBody(c) PROVE Requeued'
  BY <1>6 DEF SendAuthBody, SetPc
<1>7. ASSUME NEW c \in Conns, SendAuthFails(c) PROVE Requeued'
  BY <1>7 DEF SendAuthFails, SetPc, StopReading
<1>8. ASSUME NEW c \in Conns, ReadMessage(c) PROVE Requeued'
  BY <1>8 DEF ReadMessage
<1>9. ASSUME NEW c \in Conns, DispatchHeartbeat(c) PROVE Requeued'
  BY <1>9 DEF DispatchHeartbeat
<1>10. ASSUME NEW c \in Conns, DispatchTaskResult(c) PROVE Requeued'
  BY <1>10 DEF DispatchTaskResult, UpdateTaskResult, Terminal
<1>11. ASSUME NEW c \in Conns, ReadError(c) PROVE Requeued'
  BY <1>11 DEF ReadError, SetPc, StopReading
<1>12. ASSUME NEW c \in Conns, RemoveSession(c) PROVE Requeued'
  BY <1>12 DEF RemoveSession, SetPc, Lone, HandlerIsSession, Live
<1>13. ASSUME NEW c \in Conns, MarkNodeOffline(c) PROVE Requeued'
  BY <1>13 DEF MarkNodeOffline, SetPc
<1>14. ASSUME NEW c \in Conns, RequeueSent(c) PROVE Requeued'
  BY <1>14 DEF RequeueSent, SetPc, ResetSentTasks
<1>15. ASSUME NEW c \in Conns, CloseConn(c) PROVE Requeued'
  BY <1>15 DEF CloseConn, SetPc
<1>16. ASSUME NEW c \in Conns, ReadTimeout(c) PROVE Requeued'
  BY <1>16 DEF ReadTimeout, SetPc, StopReading
<1>17. ASSUME NEW c \in Conns, FlushSelect(c) PROVE Requeued'
  BY <1>17 DEF FlushSelect, PendingTasks
<1>18. ASSUME NEW c \in Conns, FlushSend(c) PROVE Requeued'
  BY <1>18 DEF FlushSend, CoreWrites
<1>19. ASSUME NEW c \in Conns, FlushMark(c) PROVE Requeued'
  BY <1>19 DEF FlushMark, Writing
<1>20. ASSUME NEW c \in Conns, FlushEnd(c) PROVE Requeued'
  BY <1>20 DEF FlushEnd, CoreWriteFails
<1>21. ASSUME NEW c \in Conns, Dial(c) PROVE Requeued'
  BY <1>21 DEF Dial, SetPc, Free
<1>22. ASSUME NEW t \in Tasks, CreateTask(t) PROVE Requeued'
  BY <1>22 DEF CreateTask
<1>23. ASSUME NEW t \in Tasks, APILookup(t) PROVE Requeued'
  BY <1>23 DEF APILookup
<1>24. ASSUME NEW t \in Tasks, APISend(t) PROVE Requeued'
  BY <1>24 DEF APISend, CoreWrites
<1>25. ASSUME NEW t \in Tasks, APISendFails(t) PROVE Requeued'
  BY <1>25 DEF APISendFails, CoreWriteFails, APIDone
<1>26. ASSUME NEW t \in Tasks, APIMark(t) PROVE Requeued'
  BY <1>26 DEF APIMark, MarkTaskSent, APIDone, Writing, WriterPc
<1>27. ASSUME NEW t \in Tasks, APIMarkFails(t) PROVE Requeued'
  BY <1>27 DEF APIMarkFails, APIDone
<1>28. ASSUME NEW t \in Tasks, NEW r \in Terminal, AgentFinishes(t, r) PROVE Requeued'
  BY <1>28 DEF AgentFinishes, AgentSends
<1>29. ASSUME AgentAccepted PROVE Requeued'
  BY <1>29 DEF AgentAccepted, NextFrame
<1>30. ASSUME AgentRejects PROVE Requeued'
  BY <1>30 DEF AgentRejects, NextFrame, DropConn
<1>31. ASSUME AgentReceives PROVE Requeued'
  BY <1>31 DEF AgentReceives, NextFrame
<1>32. ASSUME AgentDisconnected PROVE Requeued'
  BY <1>32 DEF AgentDisconnected, DropConn
<1>33. ASSUME AgentHeartbeat PROVE Requeued'
  BY <1>33 DEF AgentHeartbeat, AgentSends
<1>34. ASSUME AgentLosesConn PROVE Requeued'
  BY <1>34 DEF AgentLosesConn, DropConn, Fault
<1>35. ASSUME AgentCrash PROVE Requeued'
  BY <1>35 DEF AgentCrash, DropConn, Fault
<1>36. ASSUME CoreCrash PROVE Requeued'
  BY <1>36 DEF CoreCrash, Fault
<1>37. ASSUME CoreStart PROVE Requeued'
  BY <1>37 DEF CoreStart, ResetSentTasks
<1>38. CASE UNCHANGED vars
  BY <1>38 DEF vars
<1>. QED
  BY <1>1, <1>2, <1>3, <1>4, <1>5, <1>6, <1>7, <1>8, <1>9, <1>10, <1>11,
     <1>12, <1>13, <1>14, <1>15, <1>16, <1>17, <1>18, <1>19, <1>20, <1>21, <1>22,
     <1>23, <1>24, <1>25, <1>26, <1>27, <1>28, <1>29, <1>30, <1>31, <1>32, <1>33,
     <1>34, <1>35, <1>36, <1>37, <1>38
  DEF Next, Handler, Flush, Request, AgentReads

LEMMA SettledInvariant ==
  ASSUME Overlap = FALSE, LateWriter = FALSE PROVE Spec => []Settled
<1>1. Init => Settled
  BY EmptyOnWay, LinkAssumption DEF Init, Settled, Writing, NodeEnd, Greeting, Early, Requeued
<1>2. ASSUME LinkTyped, Registry, Lone, Settled, [Next]_vars PROVE Settled'
  BY <1>2, WritingStep, NodeEndStep, GreetingStep, RequeuedStep DEF Settled
<1>. QED  BY <1>1, <1>2, LinkTypedInvariant, RegistryInvariant, LoneInvariant, PTL DEF Spec

-----------------------------------------------------------------------------
(* Where a task is.                                                        *)

\* The agent will get t over c, or works on it, or its result is on its way.
InFlight(t, c) ==
  \/ OnWay(down[c], Assigns(t))
  \/ npc = "up" /\ (exec[t] > 0 \/ OnWay(up[c], Results(t)) \/ hand[c] \in Results(t))

Unanswered(t) == task[t] \in {"pending", "sent"}

\* Both ends of c are open and its handler serves it, or is about to.
Usable(c) == pc[c] \in Early \union {"serving"} /\ coreOpen[c] /\ nodeOpen[c]

\* As long as c can be used and t has no answer, t does not get lost on the way.
LEMMA InFlightStays ==
  ASSUME LinkTyped, Registry, Lone, Settled, [Next]_vars,
         NEW t0 \in Tasks, NEW c0 \in Conns,
         Usable(c0), Usable(c0)', Unanswered(t0)', InFlight(t0, c0)
  PROVE  InFlight(t0, c0)'
<1>. USE LinkAssumption DEF LinkTyped, TypeOK, HandlerPc, AgentConn, HeldConn, Usable, core, db, net, node
<1>0. /\ npc # "down" /\ nconn = c0 /\ (npc = "up" => pc[c0] = "serving")
      /\ \A d \in Conns : d # c0 => pc[d] = "free"
      /\ (hand[c0] \in Results(t0) => hand[c0].kind \in Terminal /\ hand[c0].task = t0)
      /\ hand[c0] # NoFrame => pc[c0] = "serving"
  BY Carriers DEF Settled, NodeEnd, Greeting, Lone, OneAtATime, HandlerIsSession, Free
<1>a. \A f \in DownFrame : OnWay(down[c0], Assigns(t0)) => OnWay(Append(down[c0], f), Assigns(t0))
  BY AppendOnWay
<1>b. \A f \in UpFrame : OnWay(up[c0], Results(t0)) => OnWay(Append(up[c0], f), Results(t0))
  BY AppendOnWay
<1>c. \A t \in Tasks : TaskAssign(t) \in DownFrame /\ JunkFrame \in DownFrame /\ OkFrame \in DownFrame
  BY DownFrames
<1>1. ASSUME NEW c \in Conns, ReadAuth(c) PROVE InFlight(t0, c0)'
  BY <1>1, <1>0 DEF ReadAuth, SetPc, InFlight, Early
<1>2. ASSUME NEW c \in Conns, ReadAuthFails(c) PROVE InFlight(t0, c0)'
  BY <1>2, <1>0 DEF ReadAuthFails, SetPc, StopReading, InFlight
<1>3. ASSUME NEW c \in Conns, Publish(c) PROVE InFlight(t0, c0)'
  BY <1>3, <1>0 DEF Publish, SetPc, InFlight
<1>4. ASSUME NEW c \in Conns, Register(c) PROVE InFlight(t0, c0)'
  BY <1>4, <1>0 DEF Register, SetPc, InFlight
<1>5. ASSUME NEW c \in Conns, SendAuthLength(c) PROVE InFlight(t0, c0)'
  BY <1>5, <1>0 DEF SendAuthLength, SetPc, InFlight
<1>6. ASSUME NEW c \in Conns, SendAuthBody(c) PROVE InFlight(t0, c0)'
  BY <1>6, <1>0, <1>a, <1>c DEF SendAuthBody, SetPc, InFlight
<1>7. ASSUME NEW c \in Conns, SendAuthFails(c) PROVE InFlight(t0, c0)'
  BY <1>7, <1>0 DEF SendAuthFails, SetPc, StopReading, InFlight
<1>8. ASSUME NEW c \in Conns, ReadMessage(c) PROVE InFlight(t0, c0)'
  <2>1. CASE c = c0
    <3>1. up[c0] \in Seq(UpFrame) /\ up[c0] # <<>> /\ hand[c0] = NoFrame
      BY <1>8, <2>1 DEF ReadMessage
    <3>2. OnWay(up[c0], Results(t0)) => Head(up[c0]) \in Results(t0) \/ OnWay(Tail(up[c0]), Results(t0))
      BY <3>1, TailOnWay
    <3>. QED  BY <1>8, <2>1, <3>1, <3>2, Carriers DEF ReadMessage, InFlight
  <2>2. CASE c # c0
    BY <1>8, <2>2 DEF ReadMessage, InFlight
  <2>. QED  BY <2>1, <2>2
<1>9. ASSUME NEW c \in Conns, DispatchHeartbeat(c) PROVE InFlight(t0, c0)'
  BY <1>9, <1>0, Carriers DEF DispatchHeartbeat, InFlight
<1>10. ASSUME NEW c \in Conns, DispatchTaskResult(c) PROVE InFlight(t0, c0)'
  BY <1>10, <1>0 DEF DispatchTaskResult, UpdateTaskResult, InFlight, Unanswered, Terminal
<1>11. ASSUME NEW c \in Conns, ReadError(c) PROVE InFlight(t0, c0)'
  BY <1>11, <1>0 DEF ReadError, SetPc, StopReading, InFlight
<1>12. ASSUME NEW c \in Conns, RemoveSession(c) PROVE InFlight(t0, c0)'
  BY <1>12, <1>0 DEF RemoveSession, SetPc, InFlight
<1>13. ASSUME NEW c \in Conns, MarkNodeOffline(c) PROVE InFlight(t0, c0)'
  BY <1>13, <1>0 DEF MarkNodeOffline, SetPc, InFlight
<1>14. ASSUME NEW c \in Conns, RequeueSent(c) PROVE InFlight(t0, c0)'
  BY <1>14, <1>0 DEF RequeueSent, SetPc, ResetSentTasks, InFlight
<1>15. ASSUME NEW c \in Conns, CloseConn(c) PROVE InFlight(t0, c0)'
  BY <1>15, <1>0 DEF CloseConn, SetPc, InFlight
<1>16. ASSUME NEW c \in Conns, ReadTimeout(c) PROVE InFlight(t0, c0)'
  <2>1. pc[c] = "serving" /\ pc' = [pc EXCEPT ![c] = "leaving"]
    BY <1>16 DEF ReadTimeout, SetPc
  <2>. QED  BY <1>0, <2>1 DEF Early
<1>17. ASSUME NEW c \in Conns, FlushSelect(c) PROVE InFlight(t0, c0)'
  <2>1. UNCHANGED <<down, up, hand, npc, exec>>
    BY <1>17 DEF FlushSelect
  <2>. QED  BY <2>1 DEF InFlight
<1>18. ASSUME NEW c \in Conns, FlushSend(c) PROVE InFlight(t0, c0)'
  <2>1. PICK t \in Tasks : CoreWrites(c, TaskAssign(t))
    BY <1>18 DEF FlushSend
  <2>. QED  BY <1>18, <1>0, <1>a, <1>c, <2>1 DEF FlushSend, CoreWrites, InFlight
<1>19. ASSUME NEW c \in Conns, FlushMark(c) PROVE InFlight(t0, c0)'
  BY <1>19, <1>0 DEF FlushMark, MarkTaskSent, InFlight
<1>20. ASSUME NEW c \in Conns, FlushEnd(c) PROVE InFlight(t0, c0)'
  BY <1>20, <1>0 DEF FlushEnd, CoreWriteFails, InFlight
<1>21. ASSUME NEW c \in Conns, Dial(c) PROVE InFlight(t0, c0)'
  BY <1>21, <1>0 DEF Dial
<1>22. ASSUME NEW t \in Tasks, CreateTask(t) PROVE InFlight(t0, c0)'
  BY <1>22, <1>0 DEF CreateTask, InFlight
<1>23. ASSUME NEW t \in Tasks, APILookup(t) PROVE InFlight(t0, c0)'
  BY <1>23, <1>0 DEF APILookup, InFlight
<1>24. ASSUME NEW t \in Tasks, APISend(t) PROVE InFlight(t0, c0)'
  BY <1>24, <1>0, <1>a, <1>c DEF APISend, CoreWrites, InFlight
<1>25. ASSUME NEW t \in Tasks, APISendFails(t) PROVE InFlight(t0, c0)'
  BY <1>25, <1>0 DEF APISendFails, CoreWriteFails, APIDone, InFlight
<1>26. ASSUME NEW t \in Tasks, APIMark(t) PROVE InFlight(t0, c0)'
  BY <1>26, <1>0 DEF APIMark, MarkTaskSent, APIDone, InFlight
<1>27. ASSUME NEW t \in Tasks, APIMarkFails(t) PROVE InFlight(t0, c0)'
  BY <1>27, <1>0 DEF APIMarkFails, APIDone, InFlight
<1>28. ASSUME NEW t \in Tasks, NEW r \in Terminal, AgentFinishes(t, r) PROVE InFlight(t0, c0)'
  <2>0. CASE npc # "up"
    BY <1>28, <1>0, <2>0 DEF AgentFinishes, AgentSends, InFlight
  <2>01. CASE npc = "up"
    <3>1. /\ Reads(c0) /\ up' = [up EXCEPT ![c0] = Append(@, TaskResult(t, r))]
          /\ TaskResult(t, r) \in UpFrame /\ UNCHANGED <<down, hand, npc>>
          /\ exec' = [exec EXCEPT ![t] = @ - 1] /\ exec[t] > 0 /\ exec[t] \in Nat /\ exec[t0] \in Nat
      BY <1>28, <1>0, <2>01, UpFrames DEF AgentFinishes, AgentSends, Reads
    <3>2. OnWay(up[c0], Results(t0)) => OnWay(up'[c0], Results(t0))
      BY <1>b, <3>1
    <3>3. t = t0 => OnWay(up'[c0], Results(t0))
      <4>1. up[c0] \in Seq(UpFrame)
        OBVIOUS
      <4>2. t = t0 => OnWay(Append(up[c0], TaskResult(t, r)), Results(t0))
        BY <3>1, <4>1, AppendOnWay DEF Results
      <4>. QED  BY <3>1, <4>2
    <3>. QED  BY <2>01, <3>1, <3>2, <3>3 DEF InFlight
  <2>. QED  BY <2>0, <2>01
<1>29. ASSUME AgentAccepted PROVE InFlight(t0, c0)'
  <2>1. down[c0] \in Seq(DownFrame) /\ down[c0] # <<>> /\ Head(down[c0]).kind = "ok" /\ Head(down[c0]) \in DownFrame
    BY <1>29, <1>0, QueueType DEF AgentAccepted, NextFrame
  <2>2. Head(down[c0]) \notin Assigns(t0)
    BY <2>1, Carriers
  <2>3. OnWay(down[c0], Assigns(t0)) => OnWay(Tail(down[c0]), Assigns(t0))
    BY <2>1, <2>2, TailOnWay
  <2>. QED  BY <1>29, <1>0, <2>3 DEF AgentAccepted, InFlight
<1>30. ASSUME AgentRejects PROVE InFlight(t0, c0)'
  BY <1>30, <1>0 DEF AgentRejects, NextFrame, DropConn, InFlight
<1>31. ASSUME AgentReceives PROVE InFlight(t0, c0)'
  <2>1. down[c0] \in Seq(DownFrame) /\ down[c0] # <<>> /\ Head(down[c0]).kind = "task" /\ Head(down[c0]) \in DownFrame
    BY <1>31, <1>0, QueueType DEF AgentReceives, NextFrame
  <2>2. Head(down[c0]) \in Assigns(t0) => Head(down[c0]).task = t0
    BY <2>1, Carriers
  <2>3. OnWay(down[c0], Assigns(t0)) => Head(down[c0]).task = t0 \/ OnWay(Tail(down[c0]), Assigns(t0))
    BY <2>1, <2>2, TailOnWay
  <2>4. /\ npc = "up" /\ npc' = "up"
        /\ down' = [down EXCEPT ![c0] = Tail(@)]
        /\ exec' = [exec EXCEPT ![Head(down[c0]).task] = @ + 1]
        /\ UNCHANGED <<up, hand>>
    BY <1>31, <1>0 DEF AgentReceives
  <2>5. exec[t0] \in Nat /\ (Head(down[c0]).task = t0 => exec'[t0] = exec[t0] + 1)
        /\ (Head(down[c0]).task # t0 => exec'[t0] = exec[t0])
    BY <2>4
  <2>. QED  BY <2>3, <2>4, <2>5 DEF InFlight
<1>32. ASSUME AgentDisconnected PROVE InFlight(t0, c0)'
  BY <1>32, <1>0 DEF AgentDisconnected, DropConn, InFlight
<1>33. ASSUME AgentHeartbeat PROVE InFlight(t0, c0)'
  BY <1>33, <1>0, <1>b, UpFrames DEF AgentHeartbeat, AgentSends, InFlight
<1>34. ASSUME AgentLosesConn PROVE InFlight(t0, c0)'
  BY <1>34, <1>0 DEF AgentLosesConn, DropConn, Fault, InFlight
<1>35. ASSUME AgentCrash PROVE InFlight(t0, c0)'
  BY <1>35, <1>0 DEF AgentCrash, DropConn, Fault, InFlight
<1>36. ASSUME CoreCrash PROVE InFlight(t0, c0)'
  BY <1>36, <1>0 DEF CoreCrash, Fault, InFlight
<1>37. ASSUME CoreStart PROVE InFlight(t0, c0)'
  BY <1>37, <1>0 DEF CoreStart, ResetSentTasks, InFlight
<1>38. CASE UNCHANGED vars
  BY <1>38 DEF vars, InFlight
<1>. HIDE DEF LinkTyped, TypeOK, HandlerPc, AgentConn, HeldConn, Usable, core, db, net, node
<1>. QED
  BY <1>1, <1>2, <1>3, <1>4, <1>5, <1>6, <1>7, <1>8, <1>9, <1>10, <1>11,
     <1>12, <1>13, <1>14, <1>15, <1>16, <1>17, <1>18, <1>19, <1>20, <1>21, <1>22,
     <1>23, <1>24, <1>25, <1>26, <1>27, <1>28, <1>29, <1>30, <1>31, <1>32, <1>33,
     <1>34, <1>35, <1>36, <1>37, <1>38
  DEF Next, Handler, Flush, Request, AgentReads

\* An open row that no request and no flush has in hand waits for a flush that
\* is yet to select, or is in flight; a writer that is about to mark a row has
\* sent it.
Served(t, c) ==
  /\ \/ api[t] \in {"created", "held"}
     \/ task[t] = "pending" /\ (pc[c] \in Early \/ flushPc[c] = "select")
     \/ t \in flushQ[c]
     \/ InFlight(t, c)
  /\ api[t] = "written" => InFlight(t, c)
  /\ flushPc[c] = "mark" /\ Oldest(c, t) => InFlight(t, c)

Delivered == \A t \in Tasks, c \in Conns : Unanswered(t) /\ Usable(c) => Served(t, c)

LEMMA ServedStep ==
  ASSUME Overlap = FALSE, LateWriter = FALSE,
         LinkTyped, Registry, Lone, Settled, Queued, Delivered, [Next]_vars,
         NEW t0 \in Tasks, NEW c0 \in Conns, Usable(c0)', Unanswered(t0)'
  PROVE  Served(t0, c0)'
<1>. USE LinkAssumption DEF LinkTyped, TypeOK, HandlerPc, HeldConn, Usable, Unanswered, Served, Early,
                            core, db, net, node
<1>0. Usable(c0) /\ Unanswered(t0) => Served(t0, c0)
  BY DEF Delivered
<1>a. Usable(c0) /\ InFlight(t0, c0) => InFlight(t0, c0)'
  BY InFlightStays
<1>b. \A d \in Conns : pc[c0] # "free" /\ d # c0 =>
        pc[d] = "free" /\ flushPc[d] = "off" /\ \A t \in Tasks : apiConn[t] # d
  BY DEF Lone, OneAtATime, Free, NoWriter
<1>c. Usable(c0) => coreUp /\ (sess = NoConn => task[t0] # "sent" /\ pc[c0] # "serving")
  BY <1>b DEF Lone, HandlerIsSession, Live, Settled, Requeued
<1>1. ASSUME NEW c \in Conns, ReadAuth(c) PROVE Served(t0, c0)'
  BY <1>1, <1>0, <1>a, <1>b DEF ReadAuth, SetPc, Oldest
<1>2. ASSUME NEW c \in Conns, ReadAuthFails(c) PROVE Served(t0, c0)'
  BY <1>2, <1>0, <1>a, <1>b DEF ReadAuthFails, SetPc, StopReading, Oldest
<1>3. ASSUME NEW c \in Conns, Publish(c) PROVE Served(t0, c0)'
  BY <1>3, <1>0, <1>a, <1>b DEF Publish, SetPc, Oldest
<1>4. ASSUME NEW c \in Conns, Register(c) PROVE Served(t0, c0)'
  BY <1>4, <1>0, <1>a, <1>b DEF Register, SetPc, Oldest
<1>5. ASSUME NEW c \in Conns, SendAuthLength(c) PROVE Served(t0, c0)'
  BY <1>5, <1>0, <1>a, <1>b DEF SendAuthLength, SetPc, Oldest
<1>6. ASSUME NEW c \in Conns, SendAuthBody(c) PROVE Served(t0, c0)'
  BY <1>6, <1>0, <1>a, <1>b DEF SendAuthBody, SetPc, Oldest
<1>7. ASSUME NEW c \in Conns, SendAuthFails(c) PROVE Served(t0, c0)'
  BY <1>7, <1>0, <1>a, <1>b DEF SendAuthFails, SetPc, StopReading, Oldest
<1>8. ASSUME NEW c \in Conns, ReadMessage(c) PROVE Served(t0, c0)'
  BY <1>8, <1>0, <1>a, <1>b DEF ReadMessage, Oldest
<1>9. ASSUME NEW c \in Conns, DispatchHeartbeat(c) PROVE Served(t0, c0)'
  BY <1>9, <1>0, <1>a, <1>b DEF DispatchHeartbeat, Oldest
<1>10. ASSUME NEW c \in Conns, DispatchTaskResult(c) PROVE Served(t0, c0)'
  BY <1>10, <1>0, <1>a, <1>b DEF DispatchTaskResult, UpdateTaskResult, Terminal, Oldest
<1>11. ASSUME NEW c \in Conns, ReadError(c) PROVE Served(t0, c0)'
  BY <1>11, <1>0, <1>a, <1>b DEF ReadError, SetPc, StopReading, Oldest
<1>12. ASSUME NEW c \in Conns, RemoveSession(c) PROVE Served(t0, c0)'
  BY <1>12, <1>0, <1>a, <1>b DEF RemoveSession, SetPc, Oldest
<1>13. ASSUME NEW c \in Conns, MarkNodeOffline(c) PROVE Served(t0, c0)'
  BY <1>13, <1>0, <1>a, <1>b DEF MarkNodeOffline, SetPc, Oldest
<1>14. ASSUME NEW c \in Conns, RequeueSent(c) PROVE Served(t0, c0)'
  BY <1>14, <1>0, <1>a, <1>b DEF RequeueSent, SetPc, ResetSentTasks, Oldest
<1>15. ASSUME NEW c \in Conns, CloseConn(c) PROVE Served(t0, c0)'
  BY <1>15, <1>0, <1>a, <1>b DEF CloseConn, SetPc, Oldest
<1>16. ASSUME NEW c \in Conns, ReadTimeout(c) PROVE Served(t0, c0)'
  BY <1>16, <1>0, <1>a, <1>b DEF ReadTimeout, SetPc, StopReading, Oldest
<1>17. ASSUME NEW c \in Conns, FlushSelect(c) PROVE Served(t0, c0)'
  <2>1. c = c0 /\ Usable(c0) /\ flushQ[c0] = {} /\ pc[c0] \notin Early
    BY <1>17, <1>b DEF FlushSelect, Settled, Writing
  <2>2. /\ flushPc'[c0] = "send" /\ (task[t0] = "pending" => t0 \in flushQ'[c0])
        /\ UNCHANGED <<api, task>>
    BY <1>17, <2>1 DEF FlushSelect, PendingTasks
  <2>. QED  BY <1>0, <1>a, <2>1, <2>2
<1>18. ASSUME NEW c \in Conns, FlushSend(c) PROVE Served(t0, c0)'
  <2>1. c = c0 /\ Usable(c0) /\ pc[c0] = "serving" /\ UNCHANGED <<api, task, flushQ, pc>>
        /\ flushPc[c0] = "send" /\ flushPc'[c0] = "mark"
    BY <1>18, <1>b DEF FlushSend, CoreWrites, Settled, Writing
  <2>2. PICK t \in Tasks : Oldest(c0, t) /\ CoreWrites(c0, TaskAssign(t))
    BY <1>18, <2>1 DEF FlushSend
  <2>3. ASSUME Oldest(c0, t0) PROVE InFlight(t0, c0)'
    <3>1. t = t0
      BY <2>2, <2>3 DEF Oldest
    <3>2. down'[c0] = Append(down[c0], TaskAssign(t0)) /\ TaskAssign(t0) \in DownFrame
      BY <2>1, <2>2, <3>1, DownFrames DEF CoreWrites
    <3>3. down[c0] \in Seq(DownFrame)
      OBVIOUS
    <3>4. OnWay(down'[c0], Assigns(t0))
      BY <3>2, <3>3, AppendOnWay DEF Assigns
    <3>. QED  BY <3>4 DEF InFlight
  <2>4. Oldest(c0, t0)' => Oldest(c0, t0)
    BY <2>1 DEF Oldest
  <2>. QED  BY <1>0, <1>a, <2>1, <2>3, <2>4
<1>19. ASSUME NEW c \in Conns, FlushMark(c) PROVE Served(t0, c0)'
  <2>1. c = c0 /\ Usable(c0) /\ pc[c0] = "serving" /\ UNCHANGED <<api, pc>> /\ flushPc[c0] = "mark"
        /\ flushPc'[c0] = "send"
    BY <1>19, <1>b DEF FlushMark, Settled, Writing
  <2>2. PICK t \in Tasks :
          Oldest(c0, t) /\ MarkTaskSent(t) /\ flushQ' = [flushQ EXCEPT ![c0] = @ \ {t}]
    BY <1>19, <2>1 DEF FlushMark
  <2>3. Unanswered(t0) /\ (t # t0 => (t0 \in flushQ'[c0] <=> t0 \in flushQ[c0]))
    BY <2>2 DEF MarkTaskSent
  <2>. QED  BY <1>0, <1>a, <2>1, <2>2, <2>3
<1>20. ASSUME NEW c \in Conns, FlushEnd(c) PROVE Served(t0, c0)'
  <2>1. c = c0 /\ Usable(c0) /\ flushQ[c0] = {} /\ UNCHANGED <<api, task, pc>>
        /\ flushPc[c0] = "send" /\ flushPc'[c0] = "off" /\ pc[c0] \notin Early
    BY <1>20, <1>b DEF FlushEnd, CoreWriteFails, Settled, Writing
  <2>. QED  BY <1>0, <1>a, <2>1
<1>21. ASSUME NEW c \in Conns, Dial(c) PROVE Served(t0, c0)'
  <2>1. npc = "down" /\ Free(c) /\ \A d \in Conns : Free(d)
    BY <1>21 DEF Dial
  <2>2. ~Usable(c0) /\ c = c0 /\ pc'[c0] = "accepted"
    BY <1>21, <2>1, <1>b DEF Dial, SetPc, Free
  <2>3. coreUp /\ task[t0] # "sent" /\ task' = task /\ api' = api /\ flushPc' = flushPc
    BY <1>21, <2>1 DEF Dial, Free, Settled, Requeued
  <2>4. api[t0] # "written" /\ flushPc[c0] # "mark"
    BY <2>1 DEF Free, NoWriter
  <2>. QED  BY <2>2, <2>3, <2>4
<1>22. ASSUME NEW t \in Tasks, CreateTask(t) PROVE Served(t0, c0)'
  <2>1. CASE t = t0
    BY <1>22, <2>1 DEF CreateTask, Queued, Oldest
  <2>2. CASE t # t0
    BY <1>22, <1>0, <1>a, <2>2 DEF CreateTask, Oldest
  <2>. QED  BY <2>1, <2>2
<1>23. ASSUME NEW t \in Tasks, APILookup(t) PROVE Served(t0, c0)'
  BY <1>23, <1>0, <1>a, <1>b, <1>c DEF APILookup, Oldest
<1>24. ASSUME NEW t \in Tasks, APISend(t) PROVE Served(t0, c0)'
  <2>1. Usable(c0) /\ api[t] = "held" /\ CoreWrites(apiConn[t], TaskAssign(t))
        /\ api' = [api EXCEPT ![t] = "written"] /\ UNCHANGED <<task, pc, flushPc, flushQ>>
    BY <1>24 DEF APISend, CoreWrites
  <2>2. apiConn[t] = c0
    BY <2>1, <1>b
  <2>3. ASSUME t = t0 PROVE InFlight(t0, c0)'
    <3>1. PICK f \in Assigns(t0) : f \in DownFrame /\ down'[c0] = Append(down[c0], f)
      BY <2>1, <2>2, <2>3, DownFrames DEF CoreWrites, Assigns
    <3>2. down[c0] \in Seq(DownFrame)
      OBVIOUS
    <3>3. OnWay(down'[c0], Assigns(t0))
      BY <3>1, <3>2, AppendOnWay
    <3>. QED  BY <3>3 DEF InFlight
  <2>4. Oldest(c0, t0)' => Oldest(c0, t0)
    BY <2>1 DEF Oldest
  <2>. QED  BY <1>0, <1>a, <2>1, <2>3, <2>4
<1>25. ASSUME NEW t \in Tasks, APISendFails(t) PROVE Served(t0, c0)'
  <2>1. Usable(c0) /\ api[t] = "held" /\ CoreWriteFails(apiConn[t]) /\ APIDone(t)
        /\ UNCHANGED <<task, pc, flushPc, flushQ>>
    BY <1>25 DEF APISendFails, CoreWriteFails
  <2>2. FALSE
    BY <2>1, <1>b DEF CoreWriteFails
  <2>. QED  BY <2>2
<1>26. ASSUME NEW t \in Tasks, APIMark(t) PROVE Served(t0, c0)'
  BY <1>26, <1>0, <1>a, <1>b DEF APIMark, MarkTaskSent, APIDone, Oldest
<1>27. ASSUME NEW t \in Tasks, APIMarkFails(t) PROVE Served(t0, c0)'
  BY <1>27, <1>0, <1>a, <1>b DEF APIMarkFails, APIDone, Oldest
<1>28. ASSUME NEW t \in Tasks, NEW r \in Terminal, AgentFinishes(t, r) PROVE Served(t0, c0)'
  BY <1>28, <1>0, <1>a, <1>b DEF AgentFinishes, AgentSends, Oldest
<1>29. ASSUME AgentAccepted PROVE Served(t0, c0)'
  BY <1>29, <1>0, <1>a, <1>b DEF AgentAccepted, NextFrame, Oldest
<1>30. ASSUME AgentRejects PROVE Served(t0, c0)'
  BY <1>30, <1>0, <1>a, <1>b DEF AgentRejects, NextFrame, DropConn, Oldest
<1>31. ASSUME AgentReceives PROVE Served(t0, c0)'
  BY <1>31, <1>0, <1>a, <1>b DEF AgentReceives, NextFrame, Oldest
<1>32. ASSUME AgentDisconnected PROVE Served(t0, c0)'
  BY <1>32, <1>0, <1>a, <1>b DEF AgentDisconnected, DropConn, Oldest
<1>33. ASSUME AgentHeartbeat PROVE Served(t0, c0)'
  BY <1>33, <1>0, <1>a, <1>b DEF AgentHeartbeat, AgentSends, Oldest
<1>34. ASSUME AgentLosesConn PROVE Served(t0, c0)'
  BY <1>34, <1>0, <1>a, <1>b DEF AgentLosesConn, DropConn, Fault, Oldest
<1>35. ASSUME AgentCrash PROVE Served(t0, c0)'
  BY <1>35, <1>0, <1>a, <1>b DEF AgentCrash, DropConn, Fault, Oldest
<1>36. ASSUME CoreCrash PROVE Served(t0, c0)'
  BY <1>36, <1>0, <1>a, <1>b DEF CoreCrash, Fault, Oldest
<1>37. ASSUME CoreStart PROVE Served(t0, c0)'
  BY <1>37, <1>0, <1>a, <1>b DEF CoreStart, ResetSentTasks, Oldest
<1>38. CASE UNCHANGED vars
  BY <1>38, <1>0, <1>a DEF vars, Oldest
<1>. HIDE DEF LinkTyped, TypeOK, HandlerPc, HeldConn, Usable, Unanswered, Served, Early, core, db, net, node
<1>. QED
  BY <1>1, <1>2, <1>3, <1>4, <1>5, <1>6, <1>7, <1>8, <1>9, <1>10, <1>11,
     <1>12, <1>13, <1>14, <1>15, <1>16, <1>17, <1>18, <1>19, <1>20, <1>21, <1>22,
     <1>23, <1>24, <1>25, <1>26, <1>27, <1>28, <1>29, <1>30, <1>31, <1>32, <1>33,
     <1>34, <1>35, <1>36, <1>37, <1>38
  DEF Next, Handler, Flush, Request, AgentReads

\* An open task is never forgotten while the node is served, however the flush
\* of the new session, the requests that queue commands, crashes and lost frames
\* interleave: with the agent dialling only when the core is done with its last
\* connection, and no writer outliving the connection it writes to.
THEOREM NothingIsForgotten ==
  ASSUME Overlap = FALSE, LateWriter = FALSE PROVE Spec => []NothingForgotten
<1>1. Init => Delivered
  BY DEF Init, Delivered, Usable
<1>2. ASSUME LinkTyped, Registry, Lone, Settled, Carried, Delivered, [Next]_vars
      PROVE  Delivered'
  BY <1>2, ServedStep DEF Delivered, Carried
<1>3. ASSUME LinkTyped, Delivered PROVE NothingForgotten
  <2>. SUFFICES ASSUME NEW t \in Tasks, NEW c \in Conns, Served(t, c), pc[c] = "serving"
                PROVE  \/ api[t] \in {"created", "held"}
                       \/ flushPc[c] = "select" \/ t \in flushQ[c]
                       \/ \E i \in DOMAIN down[c] : down[c][i] \in {TaskAssign(t), JunkFrame}
                       \/ exec[t] > 0
                       \/ \E i \in DOMAIN up[c] : up[c][i].task = t
                       \/ hand[c].task = t
    BY <1>3 DEF NothingForgotten, Delivered, Unanswered, Usable
  <2>1. \A f \in Results(t) : f.task = t
    BY Carriers
  <2>. QED  BY <2>1 DEF Served, InFlight, OnWay, Assigns, Early
<1>. QED
  BY <1>1, <1>2, <1>3, LinkTypedInvariant, RegistryInvariant, LoneInvariant,
     SettledInvariant, CarriedInvariant, PTL DEF Spec

=============================================================================
