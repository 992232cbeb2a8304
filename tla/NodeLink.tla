------------------------------ MODULE NodeLink ------------------------------
(***************************************************************************)
(* The link between honeybee-core and one field node: the session registry *)
(* of the node server with one handler goroutine per TCP connection, the   *)
(* durable task queue in the database, the two writers that deliver from   *)
(* it (the HTTP handler that queues a command and the FlushPending         *)
(* goroutine of a new session), and the agent process with its concurrent  *)
(* task goroutines.                                                        *)
(*                                                                         *)
(* One step is what the code does without releasing a lock or waiting for  *)
(* the database or the network: each SQL statement is a step, each critical*)
(* section of Server.mu is a step, a frame is written in one step except   *)
(* for the auth result, which is written outside Session.writeMu and so    *)
(* takes two.  Frames carry what the properties tell apart: the kind and   *)
(* the task.  SQL statements are assumed to succeed unless the request's   *)
(* context is cancelled (APIMarkFails) or the process dies (CoreCrash).    *)
(***************************************************************************)
EXTENDS Naturals, Sequences

CONSTANTS
  Conns,       \* TCP connections; one is reused once both ends are done with it
  NoConn,
  Tasks,       \* primary keys of the tasks table, in insertion order
  MaxFaults,   \* bound on crashes, resets and expired read deadlines
  Overlap,     \* may the agent dial while an older handler is still running?
  LateWriter,  \* may a writer still hold a connection that is cleaned up?
  Beats        \* does the agent send heartbeats?  (They only touch nodeUp.)
  \* The program itself is Overlap = LateWriter = Beats = TRUE.  For the first two
  \* FALSE restricts the environment to the timing under which it delivers.

ASSUME LinkAssumption ==
  /\ NoConn \notin Conns
  /\ Tasks \subseteq Nat \ {0}
  /\ MaxFaults \in Nat
  /\ Overlap \in BOOLEAN
  /\ LateWriter \in BOOLEAN
  /\ Beats \in BOOLEAN

VARIABLES
  \* honeybee-core
  coreUp,     \* the process runs and its listener is open
  sess,       \* Server.sessions[node]: the connection of the session, or NoConn
  pc,         \* pc[c]: where the handleConn goroutine of c stands
  hand,       \* hand[c]: the frame it has read and not yet dispatched
  flushPc,    \* flushPc[c]: where the FlushPending goroutine of c stands
  flushQ,     \* flushQ[c]: the selected tasks it has not finished with
  api,        \* api[t]: where the HTTP handler that queues t stands
  apiConn,    \* apiConn[t]: the session it holds while it sends
  \* the database
  nodeUp,     \* nodes.status = 'online'
  stale,      \* history: a handler wrote nodeUp that was no longer the registered one
  task,       \* tasks.status, "none" before the row exists
  \* the network
  coreOpen, nodeOpen,  \* the two ends of each connection
  down, up,            \* frames on their way to the node and to the core
  \* the agent
  npc, nconn, \* "down", "dialed" (awaiting the auth result) or "up", and a.conn
  exec,       \* exec[t]: goroutines executing t
  ran,        \* history: tasks the agent has started
  faults      \* faults so far

core == <<coreUp, sess, pc, hand, flushPc, flushQ, api, apiConn>>
db == <<nodeUp, stale, task>>
net == <<coreOpen, nodeOpen, down, up>>
node == <<npc, nconn, exec, ran>>
vars == <<core, db, net, node, faults>>

Terminal == {"completed", "failed"}
HandlerPc == {"free", "accepted", "known", "published", "registered", "authLen",
              "serving", "leaving", "offline", "requeue", "closing"}
\* The handler's session is published and removeSession has not run yet.
Live == {"published", "registered", "authLen", "serving", "leaving"}

NoFrame == [kind |-> "none", task |-> 0]
AuthFrame == [kind |-> "auth", task |-> 0]
OkFrame == [kind |-> "ok", task |-> 0]
JunkFrame == [kind |-> "junk", task |-> 0]
Heartbeat == [kind |-> "heartbeat", task |-> 0]
TaskAssign(t) == [kind |-> "task", task |-> t]
TaskResult(t, result) == [kind |-> result, task |-> t]

DownFrame == {OkFrame, JunkFrame} \union [kind : {"task"}, task : Tasks]
UpFrame == {AuthFrame, Heartbeat} \union [kind : Terminal, task : Tasks]

TypeOK ==
  /\ coreUp \in BOOLEAN
  /\ sess \in Conns \union {NoConn}
  /\ pc \in [Conns -> HandlerPc]
  /\ hand \in [Conns -> UpFrame \union {NoFrame}]
  /\ flushPc \in [Conns -> {"off", "select", "send", "mark"}]
  /\ flushQ \in [Conns -> SUBSET Tasks]
  /\ api \in [Tasks -> {"none", "created", "held", "written", "done"}]
  /\ apiConn \in [Tasks -> Conns \union {NoConn}]
  /\ nodeUp \in BOOLEAN /\ stale \in BOOLEAN
  /\ task \in [Tasks -> {"none", "pending", "sent"} \union Terminal]
  /\ coreOpen \in [Conns -> BOOLEAN]
  /\ nodeOpen \in [Conns -> BOOLEAN]
  /\ down \in [Conns -> Seq(DownFrame)]
  /\ up \in [Conns -> Seq(UpFrame)]
  /\ npc \in {"down", "dialed", "up"}
  /\ nconn \in Conns \union {NoConn}
  /\ exec \in [Tasks -> Nat]
  /\ ran \in SUBSET Tasks
  /\ faults \in Nat

Init ==
  /\ coreUp = TRUE
  /\ sess = NoConn
  /\ pc = [c \in Conns |-> "free"]
  /\ hand = [c \in Conns |-> NoFrame]
  /\ flushPc = [c \in Conns |-> "off"]
  /\ flushQ = [c \in Conns |-> {}]
  /\ api = [t \in Tasks |-> "none"]
  /\ apiConn = [t \in Tasks |-> NoConn]
  /\ nodeUp = FALSE /\ stale = FALSE
  /\ task = [t \in Tasks |-> "none"]
  /\ coreOpen = [c \in Conns |-> FALSE]
  /\ nodeOpen = [c \in Conns |-> FALSE]
  /\ down = [c \in Conns |-> <<>>]
  /\ up = [c \in Conns |-> <<>>]
  /\ npc = "down"
  /\ nconn = NoConn
  /\ exec = [t \in Tasks |-> 0]
  /\ ran = {}
  /\ faults = 0

-----------------------------------------------------------------------------
(* Statements on the tasks table and writes to a connection.               *)

\* Faulty variants of an operation, named X_..., stand before it: a run must
\* find its property violated when X is replaced by one of them.

MarkTaskSent_AnyStatus(t) == task' = [task EXCEPT ![t] = "sent"]

\* MarkTaskSent: only a pending row moves.
MarkTaskSent(t) ==
  task' = [task EXCEPT ![t] = IF @ = "pending" THEN "sent" ELSE @]

\* The agent's word is stored instead of the status of the enum.
UpdateTaskResult_Unmapped(t, result) == task' = [task EXCEPT ![t] = "done"]

\* UpdateTaskResult: whatever the row held.
UpdateTaskResult(t, result) == task' = [task EXCEPT ![t] = result]

\* ResetSentTasksForNode and, for the only node, ResetAllSentTasks.
ResetSentTasks ==
  task' = [t \in Tasks |-> IF task[t] = "sent" THEN "pending" ELSE task[t]]

PendingTasks == {t \in Tasks : task[t] = "pending"}

\* A frame written by the core on c.  It is lost when the node's end is gone,
\* and spoils the stream when it falls between the two writes of the auth result.
CoreWrites(c, frame) ==
  /\ coreOpen[c]
  /\ down' = IF nodeOpen[c]
             THEN [down EXCEPT ![c] =
                     Append(@, IF pc[c] = "authLen" THEN JunkFrame ELSE frame)]
             ELSE down
  /\ UNCHANGED <<coreOpen, nodeOpen, up>>

CoreWriteFails(c) == (~coreOpen[c] \/ ~nodeOpen[c]) /\ UNCHANGED net

StopReading(c) == up' = [up EXCEPT ![c] = <<>>]

\* The handler of c still has a read to do.  Frames nobody will read are not kept.
Reads(c) ==
  coreOpen[c] /\ pc[c] \in {"accepted", "known", "published", "registered",
                           "authLen", "serving"}

\* The agent's send: no error reaches the caller's logic when it is lost.
AgentSends(frame) ==
  /\ up' = IF npc = "up" /\ Reads(nconn)
           THEN [up EXCEPT ![nconn] = Append(@, frame)]
           ELSE up
  /\ UNCHANGED <<coreOpen, nodeOpen, down>>

-----------------------------------------------------------------------------
(* handleConn, from the accepted connection to the read loop.              *)

SetPc(c, next) == pc' = [pc EXCEPT ![c] = next]

\* The node_auth frame is read and its token matches the node.
ReadAuth(c) ==
  /\ pc[c] = "accepted"
  /\ up[c] # <<>>
  /\ up' = [up EXCEPT ![c] = Tail(@)]
  /\ SetPc(c, "known")
  /\ UNCHANGED <<coreUp, sess, hand, flushPc, flushQ, api, apiConn, db,
                 coreOpen, nodeOpen, down, node, faults>>

\* The connection ends before the auth frame could be read.
ReadAuthFails(c) ==
  /\ pc[c] = "accepted"
  /\ ~nodeOpen[c]
  /\ SetPc(c, "closing")
  /\ StopReading(c)
  /\ UNCHANGED <<coreUp, sess, hand, flushPc, flushQ, api, apiConn, db,
                 coreOpen, nodeOpen, down, node, faults>>

\* The older connection is left open.
Publish_KeepsOld(c) ==
  /\ pc[c] = "known"
  /\ sess' = c
  /\ SetPc(c, "published")
  /\ UNCHANGED <<coreUp, hand, flushPc, flushQ, api, apiConn, db, net, node, faults>>

\* Under Server.mu: an older session is closed and replaced.
Publish(c) ==
  /\ pc[c] = "known"
  /\ coreOpen' = [d \in Conns |-> coreOpen[d] /\ d # sess]
  /\ up' = [d \in Conns |-> IF d = sess THEN <<>> ELSE up[d]]
  /\ sess' = c
  /\ SetPc(c, "published")
  /\ UNCHANGED <<coreUp, hand, flushPc, flushQ, api, apiConn, db,
                 nodeOpen, down, node, faults>>

\* The registration stores the host data only.
Register_NoStatus(c) ==
  /\ pc[c] = "published"
  /\ SetPc(c, "registered")
  /\ UNCHANGED <<coreUp, sess, hand, flushPc, flushQ, api, apiConn, db, net,
                 node, faults>>

\* UpdateNodeRegistration.
Register(c) ==
  /\ pc[c] = "published"
  /\ nodeUp' = TRUE /\ stale' = (sess # c)
  /\ SetPc(c, "registered")
  /\ UNCHANGED <<coreUp, sess, hand, flushPc, flushQ, api, apiConn, task, net,
                 node, faults>>

\* The auth result is written on the bare connection: the length, then the body.
SendAuthLength(c) ==
  /\ pc[c] = "registered"
  /\ coreOpen[c]
  /\ SetPc(c, "authLen")
  /\ UNCHANGED <<coreUp, sess, hand, flushPc, flushQ, api, apiConn, db, net,
                 node, faults>>

\* With the body out, the flush goroutine starts and the read loop begins.
SendAuthBody(c) ==
  /\ pc[c] = "authLen"
  /\ coreOpen[c]
  /\ down' = IF nodeOpen[c] THEN [down EXCEPT ![c] = Append(@, OkFrame)] ELSE down
  /\ SetPc(c, "serving")
  /\ flushPc' = [flushPc EXCEPT ![c] = "select"]
  /\ UNCHANGED <<coreUp, sess, hand, flushQ, api, apiConn, db,
                 coreOpen, nodeOpen, up, node, faults>>

SendAuthFails(c) ==
  /\ pc[c] \in {"registered", "authLen"}
  /\ ~coreOpen[c] \/ ~nodeOpen[c]
  /\ SetPc(c, "leaving")
  /\ StopReading(c)
  /\ UNCHANGED <<coreUp, sess, hand, flushPc, flushQ, api, apiConn, db,
                 coreOpen, nodeOpen, down, node, faults>>

-----------------------------------------------------------------------------
(* The read loop and removeSession.                                        *)

ReadMessage(c) ==
  /\ pc[c] = "serving"
  /\ hand[c] = NoFrame
  /\ coreOpen[c]
  /\ up[c] # <<>>
  /\ hand' = [hand EXCEPT ![c] = Head(up[c])]
  /\ up' = [up EXCEPT ![c] = Tail(@)]
  /\ UNCHANGED <<coreUp, sess, pc, flushPc, flushQ, api, apiConn, db,
                 coreOpen, nodeOpen, down, node, faults>>

\* The heartbeat refreshes last_heartbeat and leaves the status.
DispatchHeartbeat_NoStatus(c) ==
  /\ hand[c] = Heartbeat
  /\ hand' = [hand EXCEPT ![c] = NoFrame]
  /\ UNCHANGED <<coreUp, sess, pc, flushPc, flushQ, api, apiConn, db, net,
                 node, faults>>

DispatchHeartbeat(c) ==
  /\ hand[c] = Heartbeat
  /\ nodeUp' = TRUE /\ stale' = (sess # c)
  /\ hand' = [hand EXCEPT ![c] = NoFrame]
  /\ UNCHANGED <<coreUp, sess, pc, flushPc, flushQ, api, apiConn, task, net,
                 node, faults>>

DispatchTaskResult(c) ==
  /\ hand[c].kind \in Terminal
  /\ UpdateTaskResult(hand[c].task, hand[c].kind)
  /\ hand' = [hand EXCEPT ![c] = NoFrame]
  /\ UNCHANGED <<coreUp, sess, pc, flushPc, flushQ, api, apiConn, nodeUp, stale, net,
                 node, faults>>

\* ReadMessage returns an error because either end is closed.
ReadError(c) ==
  /\ pc[c] = "serving"
  /\ hand[c] = NoFrame
  /\ ~coreOpen[c] \/ ~nodeOpen[c]
  /\ SetPc(c, "leaving")
  /\ StopReading(c)
  /\ UNCHANGED <<coreUp, sess, hand, flushPc, flushQ, api, apiConn, db,
                 coreOpen, nodeOpen, down, node, faults>>

\* ... or because the deadline expired or the link was reset.
ReadTimeout(c) ==
  /\ pc[c] = "serving"
  /\ hand[c] = NoFrame
  /\ faults < MaxFaults
  /\ faults' = faults + 1
  /\ SetPc(c, "leaving")
  /\ StopReading(c)
  /\ UNCHANGED <<coreUp, sess, hand, flushPc, flushQ, api, apiConn, db,
                 coreOpen, nodeOpen, down, node>>

\* The test "current == sess" is forgotten.
RemoveSession_AnyOwner(c) ==
  /\ pc[c] = "leaving"
  /\ sess' = NoConn
  /\ SetPc(c, "offline")
  /\ UNCHANGED <<coreUp, hand, flushPc, flushQ, api, apiConn, db, net, node, faults>>

\* The entry stays in the map.
RemoveSession_NoDelete(c) ==
  /\ pc[c] = "leaving"
  /\ SetPc(c, IF sess = c THEN "offline" ELSE "closing")
  /\ UNCHANGED <<coreUp, sess, hand, flushPc, flushQ, api, apiConn, db, net,
                 node, faults>>

\* The critical section of removeSession: only the owner goes on to clean up.
RemoveSession(c) ==
  /\ pc[c] = "leaving"
  /\ IF sess = c
     THEN sess' = NoConn /\ SetPc(c, "offline")
     ELSE UNCHANGED sess /\ SetPc(c, "closing")
  /\ UNCHANGED <<coreUp, hand, flushPc, flushQ, api, apiConn, db, net, node, faults>>

MarkNodeOffline_Skipped(c) ==
  /\ pc[c] = "offline"
  /\ SetPc(c, "requeue")
  /\ UNCHANGED <<coreUp, sess, hand, flushPc, flushQ, api, apiConn, db, net,
                 node, faults>>

MarkNodeOffline(c) ==
  /\ pc[c] = "offline"
  /\ nodeUp' = FALSE /\ stale' = (sess # NoConn)
  /\ SetPc(c, "requeue")
  /\ UNCHANGED <<coreUp, sess, hand, flushPc, flushQ, api, apiConn, task, net,
                 node, faults>>

\* No request handler or flush goroutine uses the connection.
NoWriter(c) == flushPc[c] = "off" /\ \A t \in Tasks : apiConn[t] # c

RequeueSent_Skipped(c) ==
  /\ pc[c] = "requeue"
  /\ SetPc(c, "closing")
  /\ UNCHANGED <<coreUp, sess, hand, flushPc, flushQ, api, apiConn, db, net,
                 node, faults>>

RequeueSent(c) ==
  /\ pc[c] = "requeue"
  /\ LateWriter \/ NoWriter(c)
  /\ ResetSentTasks
  /\ SetPc(c, "closing")
  /\ UNCHANGED <<coreUp, sess, hand, flushPc, flushQ, api, apiConn, nodeUp, stale, net,
                 node, faults>>

\* The deferred conn.Close.
CloseConn(c) ==
  /\ pc[c] = "closing"
  /\ coreOpen' = [coreOpen EXCEPT ![c] = FALSE]
  /\ SetPc(c, "free")
  /\ UNCHANGED <<coreUp, sess, hand, flushPc, flushQ, api, apiConn, db,
                 nodeOpen, down, up, node, faults>>

-----------------------------------------------------------------------------
(* FlushPending.                                                           *)

\* The goroutine ends before it has selected anything.
FlushSelect_None(c) ==
  /\ flushPc[c] = "select"
  /\ flushPc' = [flushPc EXCEPT ![c] = "off"]
  /\ UNCHANGED <<coreUp, sess, pc, hand, flushQ, api, apiConn, db, net, node, faults>>

FlushSelect(c) ==
  /\ flushPc[c] = "select"
  /\ flushQ' = [flushQ EXCEPT ![c] = PendingTasks]
  /\ flushPc' = [flushPc EXCEPT ![c] = "send"]
  /\ UNCHANGED <<coreUp, sess, pc, hand, api, apiConn, db, net, node, faults>>

\* t is the oldest task of the selection.
Oldest(c, t) == t \in flushQ[c] /\ \A u \in flushQ[c] : t <= u

FlushSend(c) ==
  /\ flushPc[c] = "send"
  /\ \E t \in Tasks : Oldest(c, t) /\ CoreWrites(c, TaskAssign(t))
  /\ flushPc' = [flushPc EXCEPT ![c] = "mark"]
  /\ UNCHANGED <<coreUp, sess, pc, hand, flushQ, api, apiConn, db, node, faults>>

FlushMark(c) ==
  /\ flushPc[c] = "mark"
  /\ \E t \in Tasks :
       /\ Oldest(c, t)
       /\ MarkTaskSent(t)
       /\ flushQ' = [flushQ EXCEPT ![c] = @ \ {t}]
  /\ flushPc' = [flushPc EXCEPT ![c] = "send"]
  /\ UNCHANGED <<coreUp, sess, pc, hand, api, apiConn, nodeUp, stale, net, node, faults>>

\* The loop is through, or a write failed and the rest stays as it is.
FlushEnd(c) ==
  /\ flushPc[c] = "send"
  /\ \/ flushQ[c] = {} /\ UNCHANGED net
     \/ CoreWriteFails(c)
  /\ flushPc' = [flushPc EXCEPT ![c] = "off"]
  /\ flushQ' = [flushQ EXCEPT ![c] = {}]
  /\ UNCHANGED <<coreUp, sess, pc, hand, api, apiConn, db, node, faults>>

-----------------------------------------------------------------------------
(* queueAndSend: persist the task, then try to deliver it at once.         *)

CreateTask(t) ==
  /\ coreUp
  /\ task[t] = "none"
  /\ \A u \in Tasks : u < t => task[u] # "none"
  /\ task' = [task EXCEPT ![t] = "pending"]
  /\ api' = [api EXCEPT ![t] = "created"]
  /\ UNCHANGED <<coreUp, sess, pc, hand, flushPc, flushQ, apiConn, nodeUp, stale, net,
                 node, faults>>

\* IsOnline and the lookup of SendToNode: the second one decides.
APILookup(t) ==
  /\ api[t] = "created"
  /\ apiConn' = [apiConn EXCEPT ![t] = sess]
  /\ api' = [api EXCEPT ![t] = IF sess = NoConn THEN "done" ELSE "held"]
  /\ UNCHANGED <<coreUp, sess, pc, hand, flushPc, flushQ, db, net, node, faults>>

APISend(t) ==
  /\ api[t] = "held"
  /\ CoreWrites(apiConn[t], TaskAssign(t))
  /\ api' = [api EXCEPT ![t] = "written"]
  /\ UNCHANGED <<coreUp, sess, pc, hand, flushPc, flushQ, apiConn, db, node, faults>>

APIDone(t) ==
  /\ api' = [api EXCEPT ![t] = "done"]
  /\ apiConn' = [apiConn EXCEPT ![t] = NoConn]

APISendFails(t) ==
  /\ api[t] = "held"
  /\ CoreWriteFails(apiConn[t])
  /\ APIDone(t)
  /\ UNCHANGED <<coreUp, sess, pc, hand, flushPc, flushQ, db, node, faults>>

APIMark(t) ==
  /\ api[t] = "written"
  /\ MarkTaskSent(t)
  /\ APIDone(t)
  /\ UNCHANGED <<coreUp, sess, pc, hand, flushPc, flushQ, nodeUp, stale, net, node, faults>>

\* The HTTP client went away: the statement fails with the request's context.
APIMarkFails(t) ==
  /\ api[t] = "written"
  /\ APIDone(t)
  /\ UNCHANGED <<coreUp, sess, pc, hand, flushPc, flushQ, db, net, node, faults>>

-----------------------------------------------------------------------------
(* The agent.                                                              *)

\* Both ends are done with c.
Free(c) ==
  /\ pc[c] = "free"
  /\ NoWriter(c)
  /\ ~coreOpen[c] /\ ~nodeOpen[c]

\* connect: dial, send node_auth; the core accepts and starts handleConn.
Dial(c) ==
  /\ coreUp /\ npc = "down"
  /\ Free(c)
  /\ Overlap \/ \A d \in Conns : Free(d)
  /\ npc' = "dialed"
  /\ nconn' = c
  /\ coreOpen' = [coreOpen EXCEPT ![c] = TRUE]
  /\ nodeOpen' = [nodeOpen EXCEPT ![c] = TRUE]
  /\ up' = [up EXCEPT ![c] = <<AuthFrame>>]
  /\ down' = [down EXCEPT ![c] = <<>>]
  /\ SetPc(c, "accepted")
  /\ UNCHANGED <<coreUp, sess, hand, flushPc, flushQ, api, apiConn, db, exec, ran, faults>>

\* connect returns and closes the connection.
DropConn ==
  /\ npc' = "down"
  /\ nconn' = NoConn
  /\ nodeOpen' = [c \in Conns |-> nodeOpen[c] /\ c # nconn]
  /\ down' = [c \in Conns |-> IF c = nconn THEN <<>> ELSE down[c]]
  /\ UNCHANGED <<coreOpen, up>>

NextFrame(kinds) == down[nconn] # <<>> /\ Head(down[nconn]).kind \in kinds

AgentAccepted ==
  /\ npc = "dialed"
  /\ NextFrame({"ok"})
  /\ npc' = "up"
  /\ down' = [down EXCEPT ![nconn] = Tail(@)]
  /\ UNCHANGED <<core, db, coreOpen, nodeOpen, up, nconn, exec, ran, faults>>

\* A frame that cannot be read, or a first frame that is not the auth result.
AgentRejects ==
  /\ npc # "down"
  /\ NextFrame({"junk"}) \/ (npc = "dialed" /\ NextFrame({"task"}))
  /\ DropConn
  /\ UNCHANGED <<core, db, exec, ran, faults>>

\* The read loop starts one goroutine per frame.
AgentReceives ==
  /\ npc = "up"
  /\ NextFrame({"task"})
  /\ LET t == Head(down[nconn]).task
     IN  /\ exec' = [exec EXCEPT ![t] = @ + 1]
         /\ ran' = ran \union {t}
  /\ down' = [down EXCEPT ![nconn] = Tail(@)]
  /\ UNCHANGED <<core, db, coreOpen, nodeOpen, up, npc, nconn, faults>>

\* handleTask ends; the result is dropped when there is no connection.
AgentFinishes(t, result) ==
  /\ exec[t] > 0
  /\ exec' = [exec EXCEPT ![t] = @ - 1]
  /\ AgentSends(TaskResult(t, result))
  /\ UNCHANGED <<core, db, npc, nconn, ran, faults>>

\* One heartbeat at a time is on its way: a second one changes nothing.
AgentHeartbeat ==
  /\ Beats
  /\ npc = "up"
  /\ \A i \in DOMAIN up[nconn] : up[nconn][i] # Heartbeat
  /\ AgentSends(Heartbeat)
  /\ UNCHANGED <<core, db, npc, nconn, exec, ran, faults>>

\* The core's end is closed: the read, or a heartbeat, fails.
AgentDisconnected ==
  /\ npc # "down"
  /\ ~coreOpen[nconn]
  /\ DropConn
  /\ UNCHANGED <<core, db, exec, ran, faults>>

-----------------------------------------------------------------------------
(* Faults.                                                                 *)

Fault == faults < MaxFaults /\ faults' = faults + 1

\* The agent gives the connection up (reset, expired deadline, failed write)
\* and the core does not know yet.
AgentLosesConn ==
  /\ npc # "down"
  /\ Fault
  /\ DropConn
  /\ UNCHANGED <<core, db, exec, ran>>

\* The agent process dies, or restarts itself, with everything it was doing.
AgentCrash ==
  /\ Fault
  /\ DropConn
  /\ exec' = [t \in Tasks |-> 0]
  /\ UNCHANGED <<core, db, ran>>

CoreCrash ==
  /\ coreUp
  /\ Fault
  /\ coreUp' = FALSE
  /\ sess' = NoConn
  /\ pc' = [c \in Conns |-> "free"]
  /\ hand' = [c \in Conns |-> NoFrame]
  /\ flushPc' = [c \in Conns |-> "off"]
  /\ flushQ' = [c \in Conns |-> {}]
  /\ api' = [t \in Tasks |-> IF api[t] = "none" THEN "none" ELSE "done"]
  /\ apiConn' = [t \in Tasks |-> NoConn]
  /\ coreOpen' = [c \in Conns |-> FALSE]
  /\ up' = [c \in Conns |-> <<>>]
  /\ UNCHANGED <<db, nodeOpen, down, node>>

\* main: the recovery statements run before any listener opens.
CoreStart ==
  /\ ~coreUp
  /\ coreUp' = TRUE
  /\ nodeUp' = FALSE /\ stale' = FALSE
  /\ ResetSentTasks
  /\ UNCHANGED <<sess, pc, hand, flushPc, flushQ, api, apiConn, net, node, faults>>

-----------------------------------------------------------------------------
Handler(c) ==
  \/ ReadAuth(c) \/ ReadAuthFails(c) \/ Publish(c) \/ Register(c)
  \/ SendAuthLength(c) \/ SendAuthBody(c) \/ SendAuthFails(c)
  \/ ReadMessage(c) \/ DispatchHeartbeat(c) \/ DispatchTaskResult(c) \/ ReadError(c)
  \/ RemoveSession(c) \/ MarkNodeOffline(c) \/ RequeueSent(c) \/ CloseConn(c)

Flush(c) == FlushSelect(c) \/ FlushSend(c) \/ FlushMark(c) \/ FlushEnd(c)

Request(t) ==
  APILookup(t) \/ APISend(t) \/ APISendFails(t) \/ APIMark(t) \/ APIMarkFails(t)

AgentReads == AgentAccepted \/ AgentRejects \/ AgentReceives \/ AgentDisconnected

Next ==
  \/ \E c \in Conns : Handler(c) \/ ReadTimeout(c) \/ Flush(c) \/ Dial(c)
  \/ \E t \in Tasks : CreateTask(t) \/ Request(t)
  \/ \E t \in Tasks, result \in Terminal : AgentFinishes(t, result)
  \/ AgentReads \/ AgentHeartbeat
  \/ AgentLosesConn \/ AgentCrash \/ CoreCrash \/ CoreStart

Spec == Init /\ [][Next]_vars

\* Goroutines that can run are eventually scheduled, a process that died is
\* started again by its supervisor, the agent redials for ever, and a task that
\* runs on the node ends.  Nothing makes an operator create a task.
Fairness ==
  /\ \A c \in Conns : WF_vars(Handler(c)) /\ WF_vars(Flush(c))
  /\ \A t \in Tasks : WF_vars(Request(t))
  /\ \A t \in Tasks : WF_vars(\E result \in Terminal : AgentFinishes(t, result))
  /\ WF_vars(AgentReads) /\ WF_vars(AgentHeartbeat)
  /\ WF_vars(\E c \in Conns : Dial(c))
  /\ WF_vars(CoreStart)

FairSpec == Spec /\ Fairness

-----------------------------------------------------------------------------
(* Properties of the program as it is (Overlap = LateWriter = TRUE).       *)

\* A node never has two sessions that are served: as soon as handleConn has
\* published a connection, any other published connection is closed at the
\* core's end, whichever order the two handlers run in (handleConn 211-224).
OneOpenSession ==
  \A c \in Conns : pc[c] \in Live /\ coreOpen[c] => sess = c

\* The registry never points at a connection whose handler has cleaned up: the
\* handler that is replaced does not take the newer session down with it, and
\* the one that is not replaced removes its own (removeSession 310-321).
SessionHasHandler ==
  sess # NoConn => pc[sess] \in Live

\* The abstract queue: answered tasks stay answered although late marks,
\* requeues, flushes and duplicate results keep arriving, and no task is
\* answered that no agent has started.
Queue == INSTANCE DurableTask WITH
  status <- [t \in Tasks |-> IF task[t] = "none" THEN "none"
                             ELSE IF task[t] \in Terminal THEN "answered" ELSE "open"]

QueueSpec == Queue!Spec

\* Once faults stop the node ends up with one served session that both sides
\* agree on, for good: replaced handlers, half-open links and crashes of either
\* process cannot keep it off or make it flap for ever.
LinkRecovers ==
  <>[](npc = "up" /\ sess = nconn /\ pc[nconn] = "serving" /\ coreOpen[nconn])

\* ... and is shown online for good, even when an older handler wrote "offline"
\* over the newer session: the next heartbeat writes "online" again
\* (UpdateNodeHeartbeat "ensures status=online", store/nodes.go:136).
HeartbeatHeals == <>[]nodeUp

\* A served session is shown online: "a newer session replaced this one; do
\* not mark offline" (server.go:316).
OnlineWhileServing ==
  sess # NoConn /\ pc[sess] = "serving" => nodeUp

\* With no connection left the node is shown offline: MarkNodeOffline
\* "transitions to offline (called on disconnect)" (store/nodes.go:143).
OfflineWhenGone ==
  coreUp /\ (\A c \in Conns : pc[c] = "free") => ~nodeUp

\* Whatever crashes, resets and replaced sessions there are, the status column
\* tells whether the node can be reached: online while a session is served,
\* offline when no connection is left.  One thing alone makes it lie, a handler
\* that writes after a newer session took its place, an offline mark over a
\* served session or an online one that outlives the last connection, and only
\* until the registered handler writes again.
StatusIsTrue == stale \/ (OnlineWhileServing /\ OfflineWhenGone)

-----------------------------------------------------------------------------
(* What the documentation says.  These hold when Overlap = LateWriter =    *)
(* FALSE; with TRUE some of them break (README, "Where code and words      *)
(* part").                                                                 *)

\* An open task is never forgotten while a session is served: it waits for the
\* flush, travels to the node, runs there, its result travels back, or the
\* request that queued it has yet to send it.  This is what the order "publish
\* the session, then select" against "insert the row, then look the session up"
\* is for (server.go:223,262; deployments.go:276-283).
NothingForgotten ==
  \A t \in Tasks, c \in Conns :
    /\ task[t] \in {"pending", "sent"}
    /\ sess = c /\ pc[c] = "serving" /\ coreOpen[c] /\ nodeOpen[c]
    => \/ api[t] \in {"created", "held"}
       \/ flushPc[c] = "select" \/ t \in flushQ[c]
       \/ \E i \in DOMAIN down[c] : down[c][i] \in {TaskAssign(t), JunkFrame}
       \/ exec[t] > 0
       \/ \E i \in DOMAIN up[c] : up[c][i].task = t
       \/ hand[c].task = t

\* A task that was created is answered in the end.
EveryTaskAnswered == \A t \in Tasks : task[t] # "none" ~> task[t] \in Terminal
=============================================================================
