----------------------------- MODULE Deployment -----------------------------
(***************************************************************************)
(* The deployment rows of one node against the pots the node really has.   *)
(* A row is written from four sides: the HTTP handlers, the statuses and   *)
(* results the agent sends, the installed list the agent sends from time   *)
(* to time, and the cleanup of a session that ended.                       *)
(*                                                                         *)
(* The link is NodeLink with its sessions abstracted: frames to the core   *)
(* arrive in order or are lost with the connection, and a task that is     *)
(* open is handed to the agent once per connection.  A pot is PotManager   *)
(* with an operation of the manager as one step.                           *)
(***************************************************************************)
EXTENDS Naturals, Sequences, FiniteSets

CONSTANTS
  Pots,         \* pot ids of the node; a row is keyed by its pot id
  Workers,      \* task goroutines of the agent
  Commands,     \* the commands the operator uses
  MaxTasks,     \* bound on the tasks the operator creates
  Reporting,    \* does the agent report the installed pots?  The program: TRUE
  MaxFaults,    \* bound on lost connections, crashes, failing statements and
                \* pots that exit
  Watched       \* the circumstances whose rows a run writes down

\* What may befall a row: the operator asked for it to go; its request ended
\* before it queued the install; a request marked it after the task had begun;
\* its pot id was taken while the removal of an older row was under way; the
\* connection was lost between a task's status and its result.
Circumstances == {"asked", "unqueued", "overtaken", "taken", "split"}

ASSUME DeploymentAssumption ==
  /\ Watched \subseteq Circumstances
  /\ Commands \subseteq {"install", "installStart", "start", "stop", "restart", "remove",
                          "config"}
  /\ MaxTasks \in Nat /\ MaxFaults \in Nat
  /\ Reporting \in BOOLEAN

VARIABLES
  \* honeybee-core
  row,      \* row[p]: deployments.status, "none" without a row
  rowId,    \* rowId[p]: primary key of that row, or of the last one
  lastId,   \* AUTO_INCREMENT
  task,     \* task[t]: a task that is pending or sent, or NoTask
  tasks,    \* number of tasks so far, with those yet to be queued
  order,    \* order[t]: the install the request of t has yet to queue, or NoTask
  mark,     \* mark[t]: the row the request of t has yet to mark, or 0
  offline,  \* a session that ended has yet to mark the rows
  \* the link
  link,     \* is the agent connected?
  sent,     \* the tasks handed over on this connection
  news,     \* frames on their way to the core
  \* the agent
  work,     \* work[w]: a task goroutine
  list,     \* the goroutine that reports the installed pots
  exits,    \* exits[p]: what monitor goroutines have yet to send
  inst,     \* inst[p]: the pot is "absent", "stopped" or "running"
  faults,
  met       \* met[p]: what befell the row of p, or the last one (history)

rows == <<row, rowId, lastId>>
queue == <<task, tasks, order, mark>>
conn == <<link, sent, news>>
pots == <<exits, inst>>
vars == <<rows, queue, offline, conn, work, list, pots, faults, met>>

Task == 1..MaxTasks
Status == {"pending", "installing", "running", "stopped", "failed"}
Reports == {"stopped", "failed"}
NoTask == [cmd |-> "none", pot |-> "none", id |-> 0]
Installs == {"install", "installStart"}
Idle == [at |-> "idle", task |-> NoTask, t |-> 0, say |-> "none", ok |-> TRUE]
NoList == [at |-> "idle", pots |-> {}, running |-> {}]

StatusFrame(p, status) == [type |-> "status", pot |-> p, status |-> status]
ListFrame(known, running) == [type |-> "list", pots |-> known, running |-> running]
ResultFrame(t, id, ok) == [type |-> "result", t |-> t, id |-> id, ok |-> ok]

Exists(p) == row[p] # "none"

\* The pots whose rows have these keys, and the circumstance c befalls some.
RowsOf(ids) == {p \in Pots : Exists(p) /\ rowId[p] \in ids}
Meets(c, some) ==
  met' = [p \in Pots |-> IF p \in some THEN met[p] \union ({c} \intersect Watched)
                         ELSE met[p]]

Init ==
  /\ row = [p \in Pots |-> "none"]
  /\ rowId = [p \in Pots |-> 0]
  /\ lastId = 0 /\ tasks = 0 /\ faults = 0
  /\ task = [t \in Task |-> NoTask]
  /\ mark = [t \in Task |-> 0]
  /\ sent = {} /\ news = <<>>
  /\ order = [t \in Task |-> NoTask]
  /\ offline = FALSE /\ link = FALSE
  /\ work = [w \in Workers |-> Idle]
  /\ list = NoList
  /\ exits = [p \in Pots |-> [s \in Reports |-> 0]]
  /\ inst = [p \in Pots |-> "absent"]
  /\ met = [p \in Pots |-> {}]

(***************************************************************************)
(* The operator.                                                           *)
(***************************************************************************)

\* A removal of pot p is queued, runs on the node, or is being reported.
Removing(p) ==
  \/ \E t \in Task : task[t].cmd = "remove" /\ task[t].pot = p
  \/ \E w \in Workers : work[w].task.cmd = "remove" /\ work[w].task.pot = p
  \/ \E i \in DOMAIN news : news[i] = StatusFrame(p, "removed")

QueueTask(cmd, p, id, marks) ==
  /\ tasks < MaxTasks
  /\ tasks' = tasks + 1
  /\ task' = [task EXCEPT ![tasks + 1] = [cmd |-> cmd, pot |-> p, id |-> id]]
  /\ mark' = [mark EXCEPT ![tasks + 1] = IF marks THEN id ELSE 0]

\* CreateForNode up to CreateDeployment: the unique key refuses a pot id that
\* has a row.
CreateForNode(p, cmd) ==
  /\ ~Exists(p) /\ tasks < MaxTasks
  /\ lastId' = lastId + 1 /\ tasks' = tasks + 1
  /\ row' = [row EXCEPT ![p] = "pending"]
  /\ rowId' = [rowId EXCEPT ![p] = lastId + 1]
  /\ order' = [order EXCEPT ![tasks + 1] = [cmd |-> cmd, pot |-> p, id |-> lastId + 1]]
  /\ met' = [met EXCEPT ![p] = IF Removing(p) THEN {"taken"} \intersect Watched ELSE {}]
  /\ UNCHANGED <<task, mark, offline, conn, work, list, pots, faults>>

\* The rest of CreateForNode.  The foreign key refuses a task without its row.
QueueInstall(t) ==
  /\ order[t] # NoTask
  /\ order' = [order EXCEPT ![t] = NoTask]
  /\ task' = [task EXCEPT ![t] =
       IF RowsOf({order[t].id}) # {} THEN order[t] ELSE NoTask]
  /\ UNCHANGED <<rows, tasks, mark, offline, conn, work, list, pots, faults, met>>

\* CreateTask fails ("queue install task"): the row stays as it is.
QueueFails(t) ==
  /\ order[t] # NoTask /\ faults < MaxFaults
  /\ order' = [order EXCEPT ![t] = NoTask]
  /\ faults' = faults + 1
  /\ Meets("unqueued", RowsOf({order[t].id}))
  /\ UNCHANGED <<rows, task, tasks, mark, offline, conn, work, list, pots>>

\* Action and UpdateConfig queue a task; start and restart mark the row after.
Action(p, cmd) ==
  /\ Exists(p)
  /\ QueueTask(cmd, p, rowId[p], cmd \in {"start", "restart"})
  /\ Meets("asked", IF cmd = "remove" THEN {p} ELSE {})
  /\ UNCHANGED <<rows, order, offline, conn, work, list, pots, faults>>

SetStatusById(id, status) ==
  row' = [p \in Pots |-> IF p \in RowsOf({id}) THEN status ELSE row[p]]

\* Task t is in the hands of the agent, or it is done.
Begun(t) ==
  \/ t \in sent \/ task[t] = NoTask
  \/ \E w \in Workers : work[w].t = t
  \/ \E i \in DOMAIN news : news[i].type = "result" /\ news[i].t = t

MarkInstalling(t) ==
  /\ mark[t] # 0
  /\ SetStatusById(mark[t], "installing")
  /\ mark' = [mark EXCEPT ![t] = 0]
  /\ Meets("overtaken", IF Begun(t) THEN RowsOf({mark[t]}) ELSE {})
  /\ UNCHANGED <<rowId, lastId, task, tasks, order, offline, conn, work, list, pots,
                 faults>>

\* The tasks of a row go with it (ON DELETE CASCADE).
DeleteRows(gone) ==
  /\ row' = [p \in Pots |-> IF p \in gone THEN "none" ELSE row[p]]
  /\ task' = [t \in Task |-> IF \E p \in gone : task[t].id = rowId[p] THEN NoTask
                             ELSE task[t]]

OperatorDeletes(gone) ==
  /\ gone # {}
  /\ DeleteRows(gone)
  /\ Meets("asked", gone)
  /\ UNCHANGED <<rowId, lastId, tasks, order, mark, offline, conn, work, list, pots,
                 faults>>

Delete(p) == Exists(p) /\ OperatorDeletes({p})

\* Cleanup with its default list of statuses.
Cleanup == OperatorDeletes({p \in Pots : row[p] \in {"failed", "pending", "stopped"}})

(***************************************************************************)
(* The agent.  send drops a frame when there is no connection.             *)
(***************************************************************************)
Send(f) ==
  /\ news' = IF link THEN Append(news, f) ELSE news
  /\ UNCHANGED <<link, sent>>

\* FlushPending or the request hands the task over, the read loop starts a
\* goroutine (any idle one: they are alike); an install announces itself first.
Begin(w, t) ==
  /\ link
  /\ work[w] = Idle /\ w = CHOOSE v \in Workers : work[v] = Idle
  /\ task[t] # NoTask /\ t \notin sent
  /\ sent' = sent \union {t}
  /\ work' = [work EXCEPT ![w] =
       IF task[t].cmd \in Installs
       THEN [at |-> "tell", task |-> task[t], t |-> t, say |-> "installing", ok |-> TRUE]
       ELSE [at |-> "act", task |-> task[t], t |-> t, say |-> "none", ok |-> TRUE]]
  /\ UNCHANGED <<rows, queue, offline, link, news, list, pots, faults, met>>

\* What becomes of the pot, the status to tell ("none": no status) and
\* whether the task succeeded.
StartOutcomes(i) ==
  CASE i = "absent"  -> {<<"absent", "none", FALSE>>}
    [] i = "running" -> {<<"running", "running", TRUE>>}
    [] i = "stopped" -> {<<"running", "running", TRUE>>, <<"stopped", "none", FALSE>>}

InstallOutcomes(i) ==
  IF i = "absent" THEN {<<"stopped", "stopped", TRUE>>, <<"absent", "failed", FALSE>>}
  ELSE {<<i, "stopped", TRUE>>}   \* "already installed"

Halted(i) == IF i = "running" THEN "stopped" ELSE i

Outcomes(cmd, i) ==
  CASE cmd \in Installs -> InstallOutcomes(i)
    [] cmd = "start"    -> StartOutcomes(i)
    [] cmd = "restart"  -> StartOutcomes(Halted(i))
    [] cmd = "stop"     -> {<<Halted(i), "stopped", TRUE>>}
    [] cmd = "remove"   -> {<<"absent", "removed", TRUE>>}
    [] cmd = "config"   -> {<<i, "none", TRUE>>}

\* Stop, which restart and remove begin with, ends the process of the pot.
StopsProcess(cmd, p) == cmd \in {"stop", "restart", "remove"} /\ inst[p] = "running"

Act(w) ==
  /\ work[w].at = "act"
  /\ LET p == work[w].task.pot
         cmd == work[w].task.cmd
     IN \E o \in Outcomes(cmd, inst[p]) :
          /\ inst' = [inst EXCEPT ![p] = o[1]]
          /\ exits' = IF StopsProcess(cmd, p)
                      THEN [exits EXCEPT ![p]["stopped"] = @ + 1] ELSE exits
          /\ work' = [work EXCEPT ![w].at = IF o[2] = "none" THEN "answer" ELSE "tell",
                                  ![w].say = o[2], ![w].ok = o[3]]
  /\ UNCHANGED <<rows, queue, offline, conn, list, faults, met>>

\* After "installing" comes the install, after a successful install the start
\* of auto_start, after everything else the result.
Tell(w) ==
  /\ work[w].at = "tell"
  /\ Send(StatusFrame(work[w].task.pot, work[w].say))
  /\ work' = [work EXCEPT ![w].at =
       CASE work[w].say = "installing" -> "act"
         [] work[w].say = "stopped" /\ work[w].task.cmd = "installStart" -> "boot"
         [] OTHER -> "answer"]
  /\ Meets("split", IF link THEN {} ELSE RowsOf({work[w].task.id}))
  /\ UNCHANGED <<rows, queue, offline, list, pots, faults>>

\* A start that fails after the install does not fail the task.
Boot(w) ==
  /\ work[w].at = "boot"
  /\ LET p == work[w].task.pot
     IN \E o \in StartOutcomes(inst[p]) :
          /\ inst' = [inst EXCEPT ![p] = o[1]]
          /\ work' = [work EXCEPT ![w].at = "tell",
                                  ![w].say = IF o[3] THEN "running" ELSE "failed"]
  /\ UNCHANGED <<rows, queue, offline, conn, list, exits, faults, met>>

Answer(w) ==
  /\ work[w].at = "answer"
  /\ Send(ResultFrame(work[w].t, work[w].task.id, work[w].ok))
  /\ work' = [work EXCEPT ![w] = Idle]
  /\ UNCHANGED <<rows, queue, offline, list, pots, faults, met>>

\* A pot ends by itself, cleanly or not; the monitor reports it later.
PotExits(p, report) ==
  /\ inst[p] = "running" /\ faults < MaxFaults
  /\ inst' = [inst EXCEPT ![p] = "stopped"]
  /\ exits' = [exits EXCEPT ![p][report] = @ + 1]
  /\ faults' = faults + 1
  /\ UNCHANGED <<rows, queue, offline, conn, work, list, met>>

SendExit(p, report) ==
  /\ exits[p][report] > 0
  /\ exits' = [exits EXCEPT ![p][report] = @ - 1]
  /\ Send(StatusFrame(p, report))
  /\ UNCHANGED <<rows, queue, offline, work, list, inst, faults, met>>

\* sendInstalledList: what ListInstalled and IsRunning say, then the frame.
\* One list on its way at a time: the ticker has a period of five minutes.
ListInstalled ==
  /\ Reporting
  /\ link /\ list = NoList
  /\ \A i \in DOMAIN news : news[i].type # "list"
  /\ list' = [at |-> "send", pots |-> {p \in Pots : inst[p] # "absent"},
              running |-> {p \in Pots : inst[p] = "running"}]
  /\ UNCHANGED <<rows, queue, offline, conn, work, pots, faults, met>>

ListSend ==
  /\ list.at = "send"
  /\ Send(ListFrame(list.pots, list.running))
  /\ list' = NoList
  /\ UNCHANGED <<rows, queue, offline, work, pots, faults, met>>

(***************************************************************************)
(* The core: dispatch of the frames in their order.                        *)
(***************************************************************************)
\* A pot that failed is taken for a pot that is gone.
HandlePotStatus_DeletesFailed(p, status) ==
  /\ IF status \in {"removed", "failed"}
     THEN DeleteRows({p} \intersect {q \in Pots : Exists(q)})
     ELSE /\ row' = [row EXCEPT ![p] = IF Exists(p) THEN status ELSE @]
          /\ UNCHANGED task
  /\ UNCHANGED <<rowId, lastId, tasks, order, mark>>

HandlePotStatus(p, status) ==
  /\ IF status = "removed"
     THEN DeleteRows({p} \intersect {q \in Pots : Exists(q)})
     ELSE /\ row' = [row EXCEPT ![p] = IF Exists(p) THEN status ELSE @]
          /\ UNCHANGED task
  /\ UNCHANGED <<rowId, lastId, tasks, order, mark>>

\* The failure of a task is not passed on to its row.
HandleTaskResult_NoFailure(t, id, ok) ==
  /\ task' = [task EXCEPT ![t] = NoTask]
  /\ UNCHANGED <<rows, tasks, order, mark>>

HandleTaskResult(t, id, ok) ==
  /\ task' = [task EXCEPT ![t] = NoTask]
  /\ IF ok THEN UNCHANGED row ELSE SetStatusById(id, "failed")
  /\ UNCHANGED <<rowId, lastId, tasks, order, mark>>

\* A row that says "stopped" is left alone.
ReconcileNodeDeployments_KeepsStopped(known, running) ==
  /\ row' = [p \in Pots |->
       CASE row[p] \in {"none", "stopped"} -> row[p]
         [] row[p] \notin {"none", "stopped"} /\ p \in known ->
              IF p \in running THEN "running" ELSE "stopped"
         [] OTHER -> IF row[p] = "running" THEN "failed" ELSE row[p]]
  /\ UNCHANGED <<rowId, lastId, queue>>

ReconcileNodeDeployments(known, running) ==
  /\ row' = [p \in Pots |->
       CASE ~Exists(p) -> row[p]
         [] Exists(p) /\ p \in known -> IF p \in running THEN "running" ELSE "stopped"
         [] OTHER -> IF row[p] = "running" THEN "failed" ELSE row[p]]
  /\ UNCHANGED <<rowId, lastId, queue>>

Dispatch ==
  /\ link /\ news # <<>>
  /\ news' = Tail(news)
  /\ LET f == Head(news)
     IN \/ f.type = "status" /\ HandlePotStatus(f.pot, f.status)
        \/ f.type = "list" /\ ReconcileNodeDeployments(f.pots, f.running)
        \/ f.type = "result" /\ HandleTaskResult(f.t, f.id, f.ok)
  /\ UNCHANGED <<offline, link, sent, work, list, pots, faults, met>>

(***************************************************************************)
(* Connections and crashes.                                                *)
(***************************************************************************)
MarkNodeDeploymentsOffline ==
  row' = [p \in Pots |-> IF row[p] \in {"running", "installing"} THEN "stopped" ELSE row[p]]

\* The tasks of the last connection were requeued and are handed over again.
Connect ==
  /\ ~link
  /\ link' = TRUE
  /\ UNCHANGED <<rows, queue, offline, sent, news, work, list, pots, faults, met>>

\* The tasks of the connection are not requeued.
LoseConnection_NoRequeue ==
  /\ link' = FALSE /\ sent' = sent /\ news' = <<>>

LoseConnection ==
  /\ link' = FALSE /\ sent' = {} /\ news' = <<>>

\* Rows with a task that has told its status and not yet its result.
Told == RowsOf({work[w].task.id : w \in {v \in Workers : work[v].at = "answer"}})

\* One cleanup at a time.
Disconnect ==
  /\ link /\ ~offline /\ faults < MaxFaults
  /\ LoseConnection
  /\ offline' = TRUE
  /\ faults' = faults + 1
  /\ Meets("split", Told)
  /\ UNCHANGED <<rows, queue, work, list, pots>>

MarkOffline ==
  /\ offline
  /\ offline' = FALSE
  /\ MarkNodeDeploymentsOffline
  /\ UNCHANGED <<rowId, lastId, queue, conn, work, list, pots, faults, met>>

\* The core dies with its requests; it marks all rows when it starts.
CoreRestart ==
  /\ faults < MaxFaults
  /\ LoseConnection
  /\ MarkNodeDeploymentsOffline
  /\ offline' = FALSE
  /\ order' = [t \in Task |-> NoTask] /\ mark' = [t \in Task |-> 0]
  /\ faults' = faults + 1
  /\ met' = [p \in Pots |-> met[p] \union
       (Watched \intersect
          ((IF p \in RowsOf({order[t].id : t \in Task}) THEN {"unqueued"} ELSE {})
             \union (IF p \in Told THEN {"split"} ELSE {})))]
  /\ UNCHANGED <<rowId, lastId, task, tasks, work, list, pots>>

\* The agent dies with its goroutines; its pots die with it (systemd).
AgentRestart ==
  /\ faults < MaxFaults /\ (link => ~offline)
  /\ LoseConnection
  /\ offline' = (offline \/ link)
  /\ work' = [w \in Workers |-> Idle]
  /\ list' = NoList
  /\ exits' = [p \in Pots |-> [s \in Reports |-> 0]]
  /\ inst' = [p \in Pots |-> IF inst[p] = "running" THEN "stopped" ELSE inst[p]]
  /\ faults' = faults + 1
  /\ UNCHANGED <<rows, queue, met>>

Next ==
  \/ \E p \in Pots, cmd \in Commands \intersect Installs : CreateForNode(p, cmd)
  \/ \E t \in Task : QueueInstall(t) \/ QueueFails(t)
  \/ \E p \in Pots, cmd \in Commands \ Installs : Action(p, cmd)
  \/ \E t \in Task : MarkInstalling(t)
  \/ \E p \in Pots : Delete(p)
  \/ Cleanup
  \/ \E w \in Workers, t \in Task : Begin(w, t)
  \/ \E w \in Workers : Act(w) \/ Tell(w) \/ Boot(w) \/ Answer(w)
  \/ \E p \in Pots, r \in Reports : PotExits(p, r) \/ SendExit(p, r)
  \/ ListInstalled \/ ListSend
  \/ Dispatch
  \/ Connect \/ Disconnect \/ MarkOffline \/ CoreRestart \/ AgentRestart

Spec == Init /\ [][Next]_vars

\* Goroutines and handlers are scheduled, the agent redials and reports again.
Fairness ==
  /\ \A t \in Task : WF_vars(QueueInstall(t)) /\ WF_vars(MarkInstalling(t))
  /\ \A w \in Workers : WF_vars(Act(w) \/ Tell(w) \/ Boot(w) \/ Answer(w))
  /\ \A p \in Pots, r \in Reports : WF_vars(SendExit(p, r))
  /\ WF_vars(ListInstalled \/ ListSend)
  /\ WF_vars(Dispatch) /\ WF_vars(Connect) /\ WF_vars(MarkOffline)

FairSpec == Spec /\ Fairness

\* Every open task is handed over on a connection that lasts, which NodeLink
\* grants when cleanups are prompt.
DeliverySpec == FairSpec /\ \A t \in Task : WF_vars(\E w \in Workers : Begin(w, t))

-----------------------------------------------------------------------------
Frame ==
  [type : {"status"}, pot : Pots, status : Status \union {"removed"}]
    \union [type : {"list"}, pots : SUBSET Pots, running : SUBSET Pots]
    \union [type : {"result"}, t : Task, id : Nat, ok : BOOLEAN]

TypeOK ==
  /\ row \in [Pots -> Status \union {"none"}]
  /\ rowId \in [Pots -> Nat] /\ lastId \in Nat
  /\ task \in [Task -> [cmd : Commands, pot : Pots, id : Nat] \union {NoTask}]
  /\ tasks \in 0..MaxTasks
  /\ order \in [Task -> [cmd : Commands \intersect Installs, pot : Pots, id : Nat] \union {NoTask}]
  /\ mark \in [Task -> Nat]
  /\ offline \in BOOLEAN /\ link \in BOOLEAN
  /\ sent \subseteq Task
  /\ news \in Seq(Frame)
  /\ \A w \in Workers : work[w].at \in {"idle", "tell", "act", "boot", "answer"}
  /\ list \in [at : {"idle", "send"}, pots : SUBSET Pots, running : SUBSET Pots]
  /\ exits \in [Pots -> [Reports -> Nat]]
  /\ inst \in [Pots -> {"absent", "stopped", "running"}]
  /\ faults \in 0..MaxFaults
  /\ met \in [Pots -> SUBSET Circumstances]

\* However late, lost or reordered its frames are, the installed list brings
\* every row to agree in the end with the node about what runs ("source-of-
\* truth sync", store/deployments.go).
StatusConverges ==
  <>[](\A p \in Pots : Exists(p) => (row[p] = "running" <=> inst[p] = "running"))

\* ... and on the way there no handler writes a status the column does not have.
RowsConverge == []TypeOK /\ StatusConverges

\* A row stays pending for ever only if the request that made it ended before
\* it queued the install, or the connection was lost between the status and the
\* result of its task, and installing only if the mark of a start came after the
\* task it announces: everything else the tasks report, on which the list relies
\* when it skips both statuses of a pot it does not know.
NeverStuck ==
  <>[](\A p \in Pots :
         /\ row[p] = "pending" => "unqueued" \in met[p] \/ "split" \in met[p]
         /\ row[p] = "installing" => "overtaken" \in met[p])

\* A row disappears only when the operator asked for this row to go, or it took
\* its pot id while the removal of an older row was under way: a removal is
\* reported by the pot id alone (dispatcher.go, handlePotStatus).
RemovalWasRequested ==
  [][\A p \in Pots : Exists(p) /\ row'[p] = "none" =>
       "asked" \in met'[p] \/ "taken" \in met[p]]_vars

\* A row whose removal was asked for disappears, whatever is lost on the way,
\* unless the connection was lost between the status and the result of its task.
RemovalEnds ==
  \A p \in Pots :
    Exists(p) /\ "asked" \in met[p] ~> ~Exists(p) \/ "split" \in met[p]

=============================================================================
