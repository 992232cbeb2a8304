------------------------- MODULE Deployment_proofs -------------------------
(***************************************************************************)
(* The deployment rows are well typed, whatever is lost or late; and a row *)
(* goes away only if the operator asked for this row to go, or it took its *)
(* pot id while the removal of an older row was under way.                 *)
(***************************************************************************)
EXTENDS Deployment, TLAPS

-----------------------------------------------------------------------------
(* Types.                                                                  *)

\* What a goroutine of the agent that has a task holds.
TaskRow == [cmd : Commands, pot : Pots, id : Nat]
OrderRow == [cmd : Commands \intersect Installs, pot : Pots, id : Nat]
Doing == [at : {"tell", "act", "boot", "answer"}, task : TaskRow, t : Task,
          say : Status \union {"none", "removed"}, ok : BOOLEAN]

\* The status it tells is one of the column's, or "removed" after a removal.
WorkTyped ==
  /\ work \in [Workers -> Doing \union {Idle}]
  /\ \A w \in Workers : work[w].at = "tell" =>
       /\ work[w].say # "none"
       /\ work[w].say = "removed" => work[w].task.cmd = "remove"

Typed == TypeOK /\ WorkTyped

\* What the frames to the core are.
LEMMA Frames ==
  /\ \A p \in Pots, s \in Status \union {"removed"} : StatusFrame(p, s) \in Frame
  /\ \A known, running \in SUBSET Pots : ListFrame(known, running) \in Frame
  /\ \A t \in Task, id \in Nat, ok \in BOOLEAN : ResultFrame(t, id, ok) \in Frame
BY DEF StatusFrame, ListFrame, ResultFrame, Frame

LEMMA FrameKinds ==
  ASSUME NEW f \in Frame
  PROVE  /\ f.type = "status" => f.pot \in Pots /\ f.status \in Status \union {"removed"}
         /\ f.type = "list" => f.pots \in SUBSET Pots /\ f.running \in SUBSET Pots
         /\ f.type = "result" => f.t \in Task /\ f.id \in Nat /\ f.ok \in BOOLEAN
BY DEF Frame

\* What a start may lead to.
LEMMA BootKinds ==
  ASSUME NEW i \in {"absent", "stopped", "running"}, NEW o \in StartOutcomes(i)
  PROVE  /\ o[1] \in {"absent", "stopped", "running"} /\ o[3] \in BOOLEAN
         /\ o[2] \in {"none", "running"}
<1>1. \/ o = <<"absent", "none", FALSE>> \/ o = <<"running", "running", TRUE>>
      \/ o = <<"stopped", "none", FALSE>>
  <2>1. CASE i = "absent"
    BY <2>1 DEF StartOutcomes
  <2>2. CASE i = "running"
    BY <2>2 DEF StartOutcomes
  <2>3. CASE i = "stopped"
    BY <2>3 DEF StartOutcomes
  <2>. QED  BY <2>1, <2>2, <2>3
<1>2. CASE o = <<"absent", "none", FALSE>>
  BY <1>2
<1>3. CASE o = <<"running", "running", TRUE>>
  BY <1>3
<1>4. CASE o = <<"stopped", "none", FALSE>>
  BY <1>4
<1>. QED  BY <1>1, <1>2, <1>3, <1>4

\* What a pot becomes and what is told of it.
LEMMA OutcomeKinds ==
  ASSUME NEW i \in {"absent", "stopped", "running"}, NEW cmd \in Commands,
         NEW o \in Outcomes(cmd, i)
  PROVE  /\ o[1] \in {"absent", "stopped", "running"}
         /\ o[2] \in Status \union {"none", "removed"}
         /\ o[3] \in BOOLEAN
         /\ o[2] = "removed" => cmd = "remove"
<1>. USE DEF Status
<1>1. CASE cmd \in Installs
  <2>1. o \in InstallOutcomes(i)
    BY <1>1 DEF Outcomes, Installs
  <2>2. \/ o = <<"stopped", "stopped", TRUE>> \/ o = <<"absent", "failed", FALSE>>
        \/ o = <<i, "stopped", TRUE>>
    BY <2>1 DEF InstallOutcomes
  <2>3. CASE o = <<"stopped", "stopped", TRUE>>
    BY <2>3
  <2>4. CASE o = <<"absent", "failed", FALSE>>
    BY <2>4
  <2>5. CASE o = <<i, "stopped", TRUE>>
    BY <2>5
  <2>. QED  BY <2>2, <2>3, <2>4, <2>5
<1>2. CASE cmd \in {"start", "restart"}
  <2>1. PICK j \in {"absent", "stopped", "running"} : o \in StartOutcomes(j)
    BY <1>2 DEF Outcomes, Halted, Installs
  <2>. QED  BY <2>1, BootKinds
<1>3. CASE cmd = "stop"
  <2>1. o = <<Halted(i), "stopped", TRUE>>
    BY <1>3 DEF Outcomes, Installs
  <2>. QED  BY <2>1 DEF Halted
<1>4. CASE cmd = "remove"
  <2>1. o = <<"absent", "removed", TRUE>>
    BY <1>4 DEF Outcomes, Installs
  <2>. QED  BY <1>4, <2>1
<1>5. CASE cmd = "config"
  <2>1. o = <<i, "none", TRUE>>
    BY <1>5 DEF Outcomes, Installs
  <2>. QED  BY <2>1
<1>. QED  BY <1>1, <1>2, <1>3, <1>4, <1>5, DeploymentAssumption DEF Installs

LEMMA DeleteTyped ==
  ASSUME Typed, NEW gone \in SUBSET Pots, DeleteRows(gone)
  PROVE  /\ row' \in [Pots -> Status \union {"none"}]
         /\ task' \in [Task -> TaskRow \union {NoTask}]
<1>1. row' \in [Pots -> Status \union {"none"}]
  BY DEF Typed, TypeOK, DeleteRows
<1>2. task \in [Task -> TaskRow \union {NoTask}]
  BY DEF Typed, TypeOK, TaskRow
<1>3. task' \in [Task -> TaskRow \union {NoTask}]
  BY <1>2 DEF DeleteRows
<1>. QED  BY <1>1, <1>3

\* Writing down a circumstance.
LEMMA MeetsTyped ==
  ASSUME met \in [Pots -> SUBSET Circumstances], NEW c \in Circumstances, NEW some,
         Meets(c, some)
  PROVE  met' \in [Pots -> SUBSET Circumstances]
BY DEF Meets

LEMMA OperatorDeletesTyped ==
  ASSUME Typed, NEW gone \in SUBSET Pots, OperatorDeletes(gone) PROVE Typed'
<1>1. row' \in [Pots -> Status \union {"none"}] /\ task' \in [Task -> TaskRow \union {NoTask}]
  BY DeleteTyped DEF OperatorDeletes
<1>2. met' \in [Pots -> SUBSET Circumstances]
  BY MeetsTyped DEF Typed, TypeOK, OperatorDeletes, Circumstances
<1>. QED  BY <1>1, <1>2 DEF Typed, TypeOK, WorkTyped, TaskRow, OperatorDeletes, conn, pots

LEMMA SendTyped ==
  ASSUME news \in Seq(Frame), NEW f \in Frame, Send(f)
  PROVE  news' \in Seq(Frame) /\ UNCHANGED <<link, sent>>
BY DEF Send

LEMMA TypedStep == ASSUME Typed, [Next]_vars PROVE Typed'
<1>. USE DeploymentAssumption DEF Typed, TypeOK, WorkTyped, TaskRow, OrderRow,
                                  rows, queue, conn, pots
<1>1. ASSUME NEW p \in Pots, NEW cmd \in Commands \intersect Installs, CreateForNode(p, cmd)
      PROVE  Typed'
  <2>1. tasks + 1 \in Task /\ tasks' \in 0..MaxTasks /\ lastId' \in Nat
    BY <1>1 DEF CreateForNode, Task
  <2>2. order' \in [Task -> OrderRow \union {NoTask}]
    <3> DEFINE o == [cmd |-> cmd, pot |-> p, id |-> lastId + 1]
    <3>1. o \in OrderRow
      OBVIOUS
    <3>2. order' = [order EXCEPT ![tasks + 1] = o]
      BY <1>1 DEF CreateForNode
    <3> HIDE DEF o
    <3>. QED  BY <3>1, <3>2
  <2>3. met' \in [Pots -> SUBSET Circumstances]
    BY <1>1 DEF CreateForNode, Circumstances
  <2>. QED  BY <1>1, <2>1, <2>2, <2>3 DEF CreateForNode, Status
<1>2. ASSUME NEW p \in Pots, NEW cmd \in Commands \ Installs, Action(p, cmd) PROVE Typed'
  <2>1. /\ task' \in [Task -> TaskRow \union {NoTask}]
        /\ tasks' \in 0..MaxTasks /\ mark' \in [Task -> Nat]
    BY <1>2 DEF Action, QueueTask, Task
  <2>2. met' \in [Pots -> SUBSET Circumstances]
    BY <1>2, MeetsTyped DEF Action, Circumstances
  <2>. QED  BY <1>2, <2>1, <2>2 DEF Action
<1>3. ASSUME NEW t \in Task, MarkInstalling(t) PROVE Typed'
  <2>1. met' \in [Pots -> SUBSET Circumstances]
    BY <1>3, MeetsTyped DEF MarkInstalling, Circumstances
  <2>. QED  BY <1>3, <2>1 DEF MarkInstalling, SetStatusById, Status
<1>22. ASSUME NEW t \in Task, QueueInstall(t) PROVE Typed'
  <2>1. order' \in [Task -> OrderRow \union {NoTask}] /\ task' \in [Task -> TaskRow \union {NoTask}]
    BY <1>22 DEF QueueInstall
  <2>. QED  BY <1>22, <2>1 DEF QueueInstall
<1>23. ASSUME NEW t \in Task, QueueFails(t) PROVE Typed'
  <2>1. order' \in [Task -> OrderRow \union {NoTask}] /\ faults' \in 0..MaxFaults
    BY <1>23 DEF QueueFails
  <2>2. met' \in [Pots -> SUBSET Circumstances]
    BY <1>23, MeetsTyped DEF QueueFails, Circumstances
  <2>. QED  BY <1>23, <2>1, <2>2 DEF QueueFails
<1>4. ASSUME NEW p \in Pots, Delete(p) PROVE Typed'
  BY <1>4, OperatorDeletesTyped DEF Delete
<1>5. ASSUME Cleanup PROVE Typed'
  <2>1. {p \in Pots : row[p] \in {"failed", "pending", "stopped"}} \in SUBSET Pots
    OBVIOUS
  <2>. QED  BY <1>5, <2>1, OperatorDeletesTyped DEF Cleanup
<1>6. ASSUME NEW w \in Workers, NEW t \in Task, Begin(w, t) PROVE Typed'
  <2>1. task[t] \in TaskRow
    BY <1>6 DEF Begin
  <2>2. PICK d \in Doing : work' = [work EXCEPT ![w] = d] /\ d.say \in {"none", "installing"}
                           /\ (d.at = "tell" => d.say = "installing")
    <3>1. CASE task[t].cmd \in Installs
      <4> DEFINE d == [at |-> "tell", task |-> task[t], t |-> t, say |-> "installing", ok |-> TRUE]
      <4>1. work' = [work EXCEPT ![w] = d]
        BY <1>6, <3>1 DEF Begin
      <4>2. d \in Doing
        BY <2>1 DEF Doing, Status
      <4>. QED  BY <4>1, <4>2
    <3>2. CASE task[t].cmd \notin Installs
      <4> DEFINE d == [at |-> "act", task |-> task[t], t |-> t, say |-> "none", ok |-> TRUE]
      <4>1. work' = [work EXCEPT ![w] = d]
        BY <1>6, <3>2 DEF Begin
      <4>2. d \in Doing
        BY <2>1 DEF Doing
      <4>. QED  BY <4>1, <4>2
    <3>. QED  BY <3>1, <3>2
  <2>3. WorkTyped'
    BY <2>2 DEF Idle
  <2>. QED  BY <1>6, <2>3 DEF Begin
<1>7. ASSUME NEW w \in Workers, Act(w) PROVE Typed'
  <2>1. work[w] \in Doing
    BY <1>7 DEF Act, Idle
  <2> DEFINE p == work[w].task.pot
             cmd == work[w].task.cmd
  <2>2. p \in Pots /\ cmd \in Commands /\ inst[p] \in {"absent", "stopped", "running"}
    BY <2>1 DEF Doing
  <2>3. PICK o \in Outcomes(cmd, inst[p]) :
          /\ inst' = [inst EXCEPT ![p] = o[1]]
          /\ exits' = IF StopsProcess(cmd, p) THEN [exits EXCEPT ![p]["stopped"] = @ + 1] ELSE exits
          /\ work' = [work EXCEPT ![w].at = IF o[2] = "none" THEN "answer" ELSE "tell",
                                  ![w].say = o[2], ![w].ok = o[3]]
    BY <1>7 DEF Act
  <2>4. /\ o[1] \in {"absent", "stopped", "running"} /\ o[3] \in BOOLEAN
        /\ o[2] \in Status \union {"none", "removed"} /\ (o[2] = "removed" => cmd = "remove")
    BY <2>2, OutcomeKinds
  <2>5. inst' \in [Pots -> {"absent", "stopped", "running"}]
    BY <2>2, <2>3, <2>4
  <2>6. exits' \in [Pots -> [Reports -> Nat]]
    BY <2>2, <2>3 DEF Reports
  <2>7. WorkTyped'
    <3> DEFINE d == [work[w] EXCEPT !.at = IF o[2] = "none" THEN "answer" ELSE "tell",
                                    !.say = o[2], !.ok = o[3]]
    <3>1. work' = [work EXCEPT ![w] = d]
      BY <2>1, <2>3
    <3>2. /\ d \in Doing /\ d.say = o[2] /\ d.task = work[w].task
          /\ d.at = IF o[2] = "none" THEN "answer" ELSE "tell"
      BY <2>1, <2>4 DEF Doing
    <3> HIDE DEF d
    <3>. QED  BY <2>4, <3>1, <3>2
  <2>. QED  BY <1>7, <2>5, <2>6, <2>7 DEF Act
<1>8. ASSUME NEW w \in Workers, Tell(w) PROVE Typed'
  <2>1. work[w] \in Doing /\ work[w].say # "none"
    BY <1>8 DEF Tell, Idle
  <2>2. StatusFrame(work[w].task.pot, work[w].say) \in Frame
    BY <2>1, Frames DEF Doing
  <2>3. news' \in Seq(Frame) /\ UNCHANGED <<link, sent>>
    BY <1>8, <2>2, SendTyped DEF Tell
  <2>4. PICK a \in {"act", "boot", "answer"} : work' = [work EXCEPT ![w].at = a]
    BY <1>8 DEF Tell
  <2>5. WorkTyped'
    BY <2>1, <2>4 DEF Doing
  <2>6. met' \in [Pots -> SUBSET Circumstances]
    BY <1>8, MeetsTyped DEF Tell, Circumstances
  <2>. QED  BY <1>8, <2>3, <2>5, <2>6 DEF Tell
<1>9. ASSUME NEW w \in Workers, Boot(w) PROVE Typed'
  <2>1. work[w] \in Doing
    BY <1>9 DEF Boot, Idle
  <2> DEFINE p == work[w].task.pot
  <2>2. p \in Pots /\ inst[p] \in {"absent", "stopped", "running"}
    BY <2>1 DEF Doing
  <2>3. PICK o \in StartOutcomes(inst[p]) :
          /\ inst' = [inst EXCEPT ![p] = o[1]]
          /\ work' = [work EXCEPT ![w].at = "tell", ![w].say = IF o[3] THEN "running" ELSE "failed"]
    BY <1>9 DEF Boot
  <2>4. inst' \in [Pots -> {"absent", "stopped", "running"}]
    BY <2>2, <2>3, BootKinds
  <2>5. WorkTyped'
    BY <2>1, <2>3 DEF Doing, Status
  <2>6. UNCHANGED <<rows, queue, offline, conn, list, exits, faults, met>>
    BY <1>9 DEF Boot
  <2>7. \A v \in Workers : work'[v].at \in {"idle", "tell", "act", "boot", "answer"}
    BY <2>1, <2>3
  <2>. QED  BY <2>4, <2>5, <2>6, <2>7
<1>10. ASSUME NEW w \in Workers, Answer(w) PROVE Typed'
  <2>1. work[w] \in Doing
    BY <1>10 DEF Answer, Idle
  <2>2. ResultFrame(work[w].t, work[w].task.id, work[w].ok) \in Frame
    BY <2>1, Frames DEF Doing
  <2>3. news' \in Seq(Frame) /\ UNCHANGED <<link, sent>>
    BY <1>10, <2>2, SendTyped DEF Answer
  <2>4. WorkTyped'
    BY <1>10 DEF Answer, Idle
  <2>. QED  BY <1>10, <2>3, <2>4 DEF Answer, Doing, Idle
<1>11. ASSUME NEW p \in Pots, NEW r \in Reports, PotExits(p, r) PROVE Typed'
  <2>1. exits' \in [Pots -> [Reports -> Nat]] /\ inst' \in [Pots -> {"absent", "stopped", "running"}]
    BY <1>11 DEF PotExits
  <2>2. faults' \in 0..MaxFaults
    BY <1>11 DEF PotExits
  <2>. QED  BY <1>11, <2>1, <2>2 DEF PotExits
<1>12. ASSUME NEW p \in Pots, NEW r \in Reports, SendExit(p, r) PROVE Typed'
  <2>1. exits' \in [Pots -> [Reports -> Nat]]
    BY <1>12 DEF SendExit
  <2>2. StatusFrame(p, r) \in Frame
    BY Frames DEF Reports, Status
  <2>3. news' \in Seq(Frame) /\ UNCHANGED <<link, sent>>
    BY <1>12, <2>2, SendTyped DEF SendExit
  <2>. QED  BY <1>12, <2>1, <2>3 DEF SendExit
<1>13. CASE ListInstalled
  BY <1>13 DEF ListInstalled
<1>14. CASE ListSend
  <2>1. news' \in Seq(Frame) /\ UNCHANGED <<link, sent>>
    BY <1>14, Frames, SendTyped DEF ListSend
  <2>. QED  BY <1>14, <2>1 DEF ListSend, NoList
<1>15. CASE Dispatch
  <2>1. Head(news) \in Frame /\ news' \in Seq(Frame)
    BY <1>15 DEF Dispatch
  <2> DEFINE f == Head(news)
  <2>2. CASE f.type = "status" /\ HandlePotStatus(f.pot, f.status)
    <3>1. f.pot \in Pots /\ f.status \in Status \union {"removed"}
      BY <2>1, <2>2, FrameKinds
    <3>2. row' \in [Pots -> Status \union {"none"}] /\ task' \in [Task -> TaskRow \union {NoTask}]
      <4>1. CASE f.status = "removed"
        BY <2>2, <4>1, DeleteTyped DEF HandlePotStatus
      <4>2. CASE f.status # "removed"
        BY <2>2, <3>1, <4>2 DEF HandlePotStatus
      <4>. QED  BY <4>1, <4>2
    <3>. QED  BY <1>15, <2>1, <2>2, <3>2 DEF Dispatch, HandlePotStatus
  <2>3. CASE f.type = "list" /\ ReconcileNodeDeployments(f.pots, f.running)
    BY <1>15, <2>1, <2>3 DEF Dispatch, ReconcileNodeDeployments, Status, Exists
  <2>4. CASE f.type = "result" /\ HandleTaskResult(f.t, f.id, f.ok)
    BY <1>15, <2>1, <2>4, FrameKinds DEF Dispatch, HandleTaskResult, SetStatusById, Status
  <2>. QED  BY <1>15, <2>2, <2>3, <2>4 DEF Dispatch
<1>16. CASE Connect
  BY <1>16 DEF Connect
<1>17. CASE Disconnect
  <2>1. news' \in Seq(Frame) /\ sent' = {} /\ link' = FALSE /\ faults' \in 0..MaxFaults
    BY <1>17 DEF Disconnect, LoseConnection
  <2>2. met' \in [Pots -> SUBSET Circumstances]
    BY <1>17, MeetsTyped DEF Disconnect, Circumstances
  <2>. QED  BY <1>17, <2>1, <2>2 DEF Disconnect
<1>18. CASE MarkOffline
  BY <1>18 DEF MarkOffline, MarkNodeDeploymentsOffline, Status
<1>19. CASE CoreRestart
  <2>1. news' \in Seq(Frame) /\ sent' = {} /\ link' = FALSE /\ faults' \in 0..MaxFaults
    BY <1>19 DEF CoreRestart, LoseConnection
  <2>2. row' \in [Pots -> Status \union {"none"}]
    BY <1>19 DEF CoreRestart, MarkNodeDeploymentsOffline, Status
  <2>3. met' \in [Pots -> SUBSET Circumstances]
    BY <1>19 DEF CoreRestart
  <2>4. order' \in [Task -> OrderRow \union {NoTask}]
    BY <1>19 DEF CoreRestart
  <2>. QED  BY <1>19, <2>1, <2>2, <2>3, <2>4 DEF CoreRestart
<1>20. CASE AgentRestart
  <2>1. news' \in Seq(Frame) /\ sent' = {} /\ link' = FALSE /\ faults' \in 0..MaxFaults
    BY <1>20 DEF AgentRestart, LoseConnection
  <2>2. WorkTyped'
    BY <1>20 DEF AgentRestart, Idle
  <2>3. exits' \in [Pots -> [Reports -> Nat]] /\ inst' \in [Pots -> {"absent", "stopped", "running"}]
    BY <1>20 DEF AgentRestart
  <2>4. list' = NoList /\ NoList \in [at : {"idle", "send"}, pots : SUBSET Pots, running : SUBSET Pots]
    BY <1>20 DEF AgentRestart, NoList
  <2>. QED  BY <1>20, <2>1, <2>2, <2>3, <2>4 DEF AgentRestart, Idle
<1>21. CASE UNCHANGED vars
  BY <1>21 DEF vars
<1>. HIDE DEF Typed
<1>. QED
  BY <1>1, <1>2, <1>3, <1>4, <1>5, <1>6, <1>7, <1>8, <1>9, <1>10, <1>11, <1>12,
     <1>13, <1>14, <1>15, <1>16, <1>17, <1>18, <1>19, <1>20, <1>21, <1>22, <1>23
  DEF Next

LEMMA TypedInvariant == Spec => []Typed
<1>1. Init => Typed
  <2>. SUFFICES ASSUME Init PROVE Typed  OBVIOUS
  <2>1. news \in Seq(Frame) /\ list \in [at : {"idle", "send"}, pots : SUBSET Pots, running : SUBSET Pots]
    BY DEF Init, NoList
  <2>2. WorkTyped
    BY DEF Init, WorkTyped, Idle
  <2>3. /\ row \in [Pots -> Status \union {"none"}] /\ rowId \in [Pots -> Nat]
        /\ task \in [Task -> [cmd : Commands, pot : Pots, id : Nat] \union {NoTask}]
        /\ order \in [Task -> [cmd : Commands \intersect Installs, pot : Pots, id : Nat] \union {NoTask}]
        /\ mark \in [Task -> Nat] /\ exits \in [Pots -> [Reports -> Nat]]
        /\ inst \in [Pots -> {"absent", "stopped", "running"}]
    BY DEF Init
  <2>4. tasks \in 0..MaxTasks /\ faults \in 0..MaxFaults /\ lastId \in Nat
    BY DeploymentAssumption DEF Init
  <2>5. offline \in BOOLEAN /\ link \in BOOLEAN /\ sent \subseteq Task
        /\ met \in [Pots -> SUBSET Circumstances]
    BY DEF Init
  <2>. QED  BY <2>1, <2>2, <2>3, <2>4, <2>5 DEF Init, Typed, TypeOK, Idle
<1>. QED  BY <1>1, TypedStep, PTL DEF Spec
-----------------------------------------------------------------------------

\* The rows, the tasks and the frames keep their types; in particular no handler
\* writes a status the column does not have.
THEOREM DeploymentTyped == Spec => []TypeOK
BY TypedInvariant, PTL DEF Typed

-----------------------------------------------------------------------------
(* Removals.                                                               *)

\* The row of p, if there is one, was asked to go, or made during a removal.
Due(p) == Exists(p) => "asked" \in met[p] \/ "taken" \in met[p]

\* The same after a step.
DueNext(p) == row'[p] # "none" => "asked" \in met'[p] \/ "taken" \in met'[p]

\* A removal is for a row that is due wherever it is: in the queue, in
\* a goroutine of the agent that has not told of it or has, or on its way back.
Removal(f) == f.type = "status" /\ f.status = "removed"
RemovalsAreDue ==
  /\ \A t \in Task : task[t].cmd = "remove" => Due(task[t].pot)
  /\ \A w \in Workers : work[w].task.cmd = "remove" => Due(work[w].task.pot)
  /\ \A i \in DOMAIN news : Removal(news[i]) => Due(news[i].pot)

\* What a step does to the rows unless it creates one: no row appears, and what
\* befell one stays written down.
RowsOnlyGo ==
  /\ \A p \in Pots : Exists(p)' => Exists(p)
  /\ \A p \in Pots : met[p] \subseteq met'[p]

\* What it does to the removals: one begins with a request, goes from the queue
\* to a goroutine, and from there to a frame.
RemovalsMove ==
  /\ \A t \in Task : task'[t].cmd = "remove" =>
       task'[t] = task[t] \/ (task'[t].pot \in Pots /\ DueNext(task'[t].pot))
  /\ \A w \in Workers : work'[w].task.cmd = "remove" =>
       work'[w].task = work[w].task \/ \E t \in Task : work'[w].task = task[t]
  /\ \A i \in DOMAIN news' : Removal(news'[i]) =>
       \/ \E j \in DOMAIN news : news'[i] = news[j]
       \/ \E w \in Workers : work[w].task.cmd = "remove" /\ news'[i].pot = work[w].task.pot

\* Where the pot of a removal comes from.
LEMMA RemovalPots ==
  ASSUME Typed
  PROVE  /\ \A t \in Task : task[t].cmd = "remove" => task[t].pot \in Pots
         /\ \A w \in Workers : work[w].task.cmd = "remove" => work[w].task.pot \in Pots
         /\ \A i \in DOMAIN news : Removal(news[i]) => news[i].pot \in Pots
<1>1. \A t \in Task : task[t].cmd = "remove" => task[t].pot \in Pots
  BY DEF Typed, TypeOK, NoTask
<1>2. \A w \in Workers : work[w].task.cmd = "remove" => work[w].task.pot \in Pots
  BY DEF Typed, WorkTyped, Doing, TaskRow, Idle, NoTask
<1>3. \A i \in DOMAIN news : Removal(news[i]) => news[i].pot \in Pots
  <2>. SUFFICES ASSUME NEW i \in DOMAIN news, Removal(news[i]) PROVE news[i].pot \in Pots
    OBVIOUS
  <2>1. news[i] \in Frame
    BY DEF Typed, TypeOK
  <2>. QED  BY <2>1, FrameKinds DEF Removal
<1>. QED  BY <1>1, <1>2, <1>3

LEMMA DueStays == ASSUME RowsOnlyGo, NEW p \in Pots, Due(p) PROVE DueNext(p)
BY DEF RowsOnlyGo, Due, DueNext, Exists

LEMMA RemovalsStayDue ==
  ASSUME Typed, RemovalsAreDue, RowsOnlyGo, RemovalsMove PROVE RemovalsAreDue'
<1>1. ASSUME NEW t \in Task, task'[t].cmd = "remove" PROVE DueNext(task'[t].pot)
  BY <1>1, RemovalPots, DueStays DEF RemovalsAreDue, RemovalsMove
<1>2. ASSUME NEW w \in Workers, work'[w].task.cmd = "remove" PROVE DueNext(work'[w].task.pot)
  BY <1>2, RemovalPots, DueStays DEF RemovalsAreDue, RemovalsMove
<1>3. ASSUME NEW i \in DOMAIN news', Removal(news'[i]) PROVE DueNext(news'[i].pot)
  BY <1>3, RemovalPots, DueStays DEF RemovalsAreDue, RemovalsMove
<1>. QED  BY <1>1, <1>2, <1>3 DEF RemovalsAreDue, Removal, Due, DueNext, Exists

\* The frames after one was sent, and after the first was taken.
LEMMA FramesSent ==
  ASSUME news \in Seq(Frame), NEW f \in Frame, Send(f), NEW i \in DOMAIN news'
  PROVE  (\E j \in DOMAIN news : news'[i] = news[j]) \/ news'[i] = f
<1>1. CASE link
  <2>1. news' = Append(news, f)
    BY <1>1 DEF Send
  <2>2. i \in 1 .. Len(news) + 1
    BY <2>1
  <2>3. i \in 1 .. Len(news) => i \in DOMAIN news /\ news'[i] = news[i]
    BY <2>1
  <2>4. i = Len(news) + 1 => news'[i] = f
    BY <2>1
  <2>. QED  BY <2>2, <2>3, <2>4
<1>2. CASE ~link
  BY <1>2 DEF Send
<1>. QED  BY <1>1, <1>2

LEMMA FramesTaken ==
  ASSUME news \in Seq(Frame), news # <<>>, news' = Tail(news), NEW i \in DOMAIN news'
  PROVE  \E j \in DOMAIN news : news'[i] = news[j]
<1>1. i \in 1 .. Len(news) - 1 /\ i + 1 \in DOMAIN news /\ news'[i] = news[i + 1]
  OBVIOUS
<1>. QED  BY <1>1

\* What is written down stays.
LEMMA MeetsKeeps ==
  ASSUME Typed, NEW c \in Circumstances, NEW some, Meets(c, some)
  PROVE  \A p \in Pots : met[p] \subseteq met'[p]
BY DEF Meets, Typed, TypeOK

\* A row made while a removal of its pot is under way has this written down.
LEMMA CreationKeepsDue ==
  ASSUME "taken" \in Watched, Typed, RemovalsAreDue,
         NEW p \in Pots, NEW cmd \in Commands \intersect Installs, CreateForNode(p, cmd)
  PROVE  RemovalsAreDue'
<1>1. UNCHANGED <<task, work, news>>
  BY DEF CreateForNode, conn
<1>2. \A q \in Pots : q # p => (Due(q) => DueNext(q))
  BY DEF CreateForNode, Due, DueNext, Exists, Typed, TypeOK
<1>3. Removing(p) => DueNext(p)
  BY DEF CreateForNode, DueNext, Typed, TypeOK
<1>4. ASSUME NEW t \in Task, task[t].cmd = "remove" PROVE DueNext(task[t].pot)
  <2>1. task[t].pot = p => Removing(p)
    BY <1>4 DEF Removing
  <2>. QED  BY <1>2, <1>3, <1>4, <2>1, RemovalPots DEF RemovalsAreDue
<1>5. ASSUME NEW w \in Workers, work[w].task.cmd = "remove" PROVE DueNext(work[w].task.pot)
  <2>1. work[w].task.pot = p => Removing(p)
    BY <1>5 DEF Removing
  <2>. QED  BY <1>2, <1>3, <1>5, <2>1, RemovalPots DEF RemovalsAreDue
<1>6. ASSUME NEW i \in DOMAIN news, Removal(news[i]) PROVE DueNext(news[i].pot)
  <2>1. news[i].pot = p => Removing(p)
    <3>1. news[i] \in Frame
      BY DEF Typed, TypeOK
    <3>2. news[i].pot = p => news[i] = StatusFrame(p, "removed")
      BY <1>6, <3>1 DEF Frame, StatusFrame, Removal
    <3>. QED  BY <3>2 DEF Removing
  <2>. QED  BY <1>2, <1>3, <1>6, <2>1, RemovalPots DEF RemovalsAreDue
<1>. QED
  BY <1>1, <1>4, <1>5, <1>6 DEF RemovalsAreDue, Removal, Due, DueNext, Exists

LEMMA RemovalsStep ==
  ASSUME {"asked", "taken"} \subseteq Watched, Typed, RemovalsAreDue, [Next]_vars
  PROVE  RemovalsAreDue'
<1>. USE DEF rows, queue, conn, pots, RowsOnlyGo, Exists
<1> DEFINE Moves == RowsOnlyGo /\ RemovalsMove
<1>1. ASSUME NEW p \in Pots, NEW cmd \in Commands \intersect Installs, CreateForNode(p, cmd)
      PROVE  RemovalsAreDue'
  BY <1>1, CreationKeepsDue
<1>2. ASSUME NEW p \in Pots, NEW cmd \in Commands \ Installs, Action(p, cmd) PROVE Moves
  <2>1. UNCHANGED <<row, work, news>> /\ \A q \in Pots : met[q] \subseteq met'[q]
    BY <1>2, MeetsKeeps DEF Action, Circumstances
  <2>2. cmd = "remove" => "asked" \in met'[p]
    BY <1>2 DEF Action, Meets
  <2>3. \A t \in Task : task'[t] = task[t]
                        \/ task'[t] = [cmd |-> cmd, pot |-> p, id |-> rowId[p]]
    BY <1>2 DEF Action, QueueTask, Typed, TypeOK
  <2>. QED  BY <2>1, <2>2, <2>3 DEF RemovalsMove, DueNext
<1>3. ASSUME NEW t \in Task, MarkInstalling(t) PROVE Moves
  <2>1. UNCHANGED <<task, work, news>> /\ \A q \in Pots : met[q] \subseteq met'[q]
    BY <1>3, MeetsKeeps DEF MarkInstalling, Circumstances
  <2>. QED  BY <1>3, <2>1 DEF MarkInstalling, SetStatusById, RowsOf, RemovalsMove
<1>4. ASSUME NEW gone \in SUBSET Pots, OperatorDeletes(gone) PROVE Moves
  <2>1. \A q \in Pots : met[q] \subseteq met'[q]
    BY <1>4, MeetsKeeps DEF OperatorDeletes, Circumstances
  <2>. QED  BY <1>4, <2>1 DEF OperatorDeletes, DeleteRows, RemovalsMove, NoTask
<1>24. ASSUME NEW t \in Task, QueueInstall(t) PROVE Moves
  <2>1. order[t] \in OrderRow
    BY <1>24 DEF QueueInstall, Typed, TypeOK, OrderRow
  <2>2. \A u \in Task : task'[u] = task[u] \/ task'[u] = order[t] \/ task'[u] = NoTask
    BY <1>24 DEF QueueInstall, Typed, TypeOK
  <2>3. UNCHANGED <<row, met, work, news>>
    BY <1>24 DEF QueueInstall
  <2>. QED  BY <2>1, <2>2, <2>3 DEF RemovalsMove, OrderRow, Installs, NoTask
<1>25. ASSUME NEW t \in Task, QueueFails(t) PROVE Moves
  <2>1. UNCHANGED <<row, task, work, news>> /\ \A q \in Pots : met[q] \subseteq met'[q]
    BY <1>25, MeetsKeeps DEF QueueFails, Circumstances
  <2>. QED  BY <2>1 DEF RemovalsMove
<1>5. ASSUME NEW w \in Workers, NEW t \in Task, Begin(w, t) PROVE Moves
  <2>1. UNCHANGED <<rows, queue, news, met>>
    BY <1>5 DEF Begin
  <2>2. \A v \in Workers : work'[v].task = work[v].task \/ work'[v].task = task[t]
    BY <1>5 DEF Begin, Typed, WorkTyped
  <2>. QED  BY <2>1, <2>2 DEF RemovalsMove
<1>6. ASSUME NEW w \in Workers, Act(w) PROVE Moves
  <2>1. \A v \in Workers : work'[v].task = work[v].task
    BY <1>6 DEF Act, Typed, WorkTyped, Doing, Idle
  <2>2. UNCHANGED <<rows, queue, news, met>>
    BY <1>6 DEF Act
  <2>. QED  BY <2>1, <2>2 DEF RemovalsMove
<1>7. ASSUME NEW w \in Workers, Tell(w) PROVE Moves
  <2> DEFINE f == StatusFrame(work[w].task.pot, work[w].say)
  <2>1. work[w] \in Doing /\ work[w].say # "none" /\ (work[w].say = "removed" => work[w].task.cmd = "remove")
    BY <1>7 DEF Tell, Idle, Typed, WorkTyped
  <2>2. f \in Frame /\ f.pot = work[w].task.pot /\ (Removal(f) => work[w].task.cmd = "remove")
    BY <2>1, Frames DEF Doing, TaskRow, StatusFrame, Removal
  <2>3. Send(f) /\ UNCHANGED <<rows, queue>> /\ \A q \in Pots : met[q] \subseteq met'[q]
    BY <1>7, MeetsKeeps DEF Tell, Circumstances
  <2>4. \A v \in Workers : work'[v].task = work[v].task
    BY <1>7 DEF Tell, Typed, WorkTyped, Doing, Idle
  <2> HIDE DEF f
  <2>5. \A i \in DOMAIN news' : (\E j \in DOMAIN news : news'[i] = news[j]) \/ news'[i] = f
    BY <2>2, <2>3, FramesSent DEF Typed, TypeOK
  <2>. QED  BY <2>2, <2>3, <2>4, <2>5 DEF RemovalsMove
<1>8. ASSUME NEW w \in Workers, Boot(w) PROVE Moves
  <2>1. \A v \in Workers : work'[v].task = work[v].task
    BY <1>8 DEF Boot, Typed, WorkTyped, Doing, Idle
  <2>2. UNCHANGED <<rows, queue, news, met>>
    BY <1>8 DEF Boot
  <2>. QED  BY <2>1, <2>2 DEF RemovalsMove
<1>9. ASSUME NEW w \in Workers, Answer(w) PROVE Moves
  <2> DEFINE f == ResultFrame(work[w].t, work[w].task.id, work[w].ok)
  <2>1. f \in Frame /\ ~Removal(f)
    BY <1>9, Frames DEF Answer, Idle, Typed, WorkTyped, Doing, TaskRow, ResultFrame, Removal
  <2>2. Send(f) /\ UNCHANGED <<rows, queue, met>>
    BY <1>9 DEF Answer
  <2>3. \A v \in Workers : work'[v].task = work[v].task \/ work'[v].task.cmd # "remove"
    BY <1>9 DEF Answer, Typed, WorkTyped, Idle, NoTask
  <2> HIDE DEF f
  <2>4. \A i \in DOMAIN news' : (\E j \in DOMAIN news : news'[i] = news[j]) \/ news'[i] = f
    BY <2>1, <2>2, FramesSent DEF Typed, TypeOK
  <2>. QED  BY <2>1, <2>2, <2>3, <2>4 DEF RemovalsMove
<1>10. ASSUME NEW p \in Pots, NEW r \in Reports, PotExits(p, r) PROVE Moves
  BY <1>10 DEF PotExits, RemovalsMove
<1>11. ASSUME NEW p \in Pots, NEW r \in Reports, SendExit(p, r) PROVE Moves
  <2> DEFINE f == StatusFrame(p, r)
  <2>1. f \in Frame /\ ~Removal(f)
    BY Frames DEF StatusFrame, Removal, Reports, Status
  <2>2. Send(f) /\ UNCHANGED <<rows, queue, work, met>>
    BY <1>11 DEF SendExit
  <2> HIDE DEF f
  <2>3. \A i \in DOMAIN news' : (\E j \in DOMAIN news : news'[i] = news[j]) \/ news'[i] = f
    BY <2>1, <2>2, FramesSent DEF Typed, TypeOK
  <2>. QED  BY <2>1, <2>2, <2>3 DEF RemovalsMove
<1>12. ASSUME ListInstalled PROVE Moves
  BY <1>12 DEF ListInstalled, RemovalsMove
<1>13. ASSUME ListSend PROVE Moves
  <2> DEFINE f == ListFrame(list.pots, list.running)
  <2>1. f \in Frame /\ ~Removal(f)
    BY Frames DEF ListFrame, Removal, Typed, TypeOK
  <2>2. Send(f) /\ UNCHANGED <<rows, queue, work, met>>
    BY <1>13 DEF ListSend
  <2> HIDE DEF f
  <2>3. \A i \in DOMAIN news' : (\E j \in DOMAIN news : news'[i] = news[j]) \/ news'[i] = f
    BY <2>1, <2>2, FramesSent DEF Typed, TypeOK
  <2>. QED  BY <2>1, <2>2, <2>3 DEF RemovalsMove
<1>14. ASSUME Dispatch PROVE Moves
  <2> DEFINE f == Head(news)
  <2>1. /\ news # <<>> /\ news' = Tail(news) /\ UNCHANGED <<work, met>>
        /\ \/ HandlePotStatus(f.pot, f.status)
           \/ ReconcileNodeDeployments(f.pots, f.running)
           \/ HandleTaskResult(f.t, f.id, f.ok)
    BY <1>14 DEF Dispatch
  <2>2. \A i \in DOMAIN news' : \E j \in DOMAIN news : news'[i] = news[j]
    BY <2>1, FramesTaken DEF Typed, TypeOK
  <2> HIDE DEF f
  <2>3. RowsOnlyGo /\ \A t \in Task : task'[t] = task[t] \/ task'[t].cmd # "remove"
    <3>1. CASE HandlePotStatus(f.pot, f.status)
      BY <2>1, <3>1 DEF HandlePotStatus, DeleteRows, NoTask, Typed, TypeOK
    <3>2. CASE ReconcileNodeDeployments(f.pots, f.running)
      <4>1. UNCHANGED task
        BY <3>2 DEF ReconcileNodeDeployments
      <4>2. ASSUME NEW p \in Pots, row[p] = "none" PROVE row'[p] = "none"
        BY <3>2, <4>2 DEF ReconcileNodeDeployments
      <4>. QED  BY <2>1, <4>1, <4>2
    <3>3. CASE HandleTaskResult(f.t, f.id, f.ok)
      BY <2>1, <3>3 DEF HandleTaskResult, SetStatusById, RowsOf, NoTask, Typed, TypeOK
    <3>. QED  BY <2>1, <3>1, <3>2, <3>3
  <2>. QED  BY <2>1, <2>2, <2>3 DEF RemovalsMove
<1>15. ASSUME Connect PROVE Moves
  BY <1>15 DEF Connect, RemovalsMove
<1>16. ASSUME Disconnect PROVE Moves
  <2>1. \A q \in Pots : met[q] \subseteq met'[q]
    BY <1>16, MeetsKeeps DEF Disconnect, Circumstances
  <2>. QED  BY <1>16, <2>1 DEF Disconnect, LoseConnection, RemovalsMove
<1>17. ASSUME MarkOffline PROVE Moves
  BY <1>17 DEF MarkOffline, MarkNodeDeploymentsOffline, RemovalsMove
<1>18. ASSUME CoreRestart PROVE Moves
  BY <1>18 DEF CoreRestart, LoseConnection, MarkNodeDeploymentsOffline, RemovalsMove
<1>19. ASSUME AgentRestart PROVE Moves
  BY <1>19 DEF AgentRestart, LoseConnection, RemovalsMove, Idle, NoTask
<1>20. ASSUME UNCHANGED vars PROVE Moves
  BY <1>20 DEF vars, RemovalsMove
<1>21. ASSUME NEW p \in Pots, Delete(p) PROVE Moves
  BY <1>4, <1>21 DEF Delete
<1>22. ASSUME Cleanup PROVE Moves
  <2>1. {p \in Pots : row[p] \in {"failed", "pending", "stopped"}} \in SUBSET Pots
    OBVIOUS
  <2>. QED  BY <1>4, <1>22, <2>1 DEF Cleanup
<1>23. Moves => RemovalsAreDue'
  BY RemovalsStayDue
<1> HIDE DEF Moves
<1>. QED
  BY <1>1, <1>2, <1>3, <1>5, <1>6, <1>7, <1>8, <1>9, <1>10, <1>11, <1>12, <1>13,
     <1>14, <1>15, <1>16, <1>17, <1>18, <1>19, <1>20, <1>21, <1>22, <1>23, <1>24, <1>25
  DEF Next

\* A row goes away only because the operator asked for this very row to go, or
\* because it took its pot id while the removal of an older row was queued, ran
\* or was being reported: although the node reports a removal by the pot id
\* alone, over connections that are lost and to a core that restarts.
THEOREM RemovalsWereRequested ==
  ASSUME {"asked", "taken"} \subseteq Watched PROVE Spec => RemovalWasRequested
<1>1. Init => RemovalsAreDue
  <2>1. ASSUME Init PROVE /\ \A t \in Task : task[t].cmd # "remove"
                          /\ \A w \in Workers : work[w].task.cmd # "remove"
                          /\ DOMAIN news = {}
    BY <2>1 DEF Init, Idle, NoTask
  <2>. QED  BY <2>1 DEF RemovalsAreDue
<1>2. ASSUME Typed, RemovalsAreDue, [Next]_vars PROVE RemovalsAreDue'
  BY <1>2, RemovalsStep
<1>3. ASSUME Typed, RemovalsAreDue, [Next]_vars
      PROVE  [\A p \in Pots : Exists(p) /\ row'[p] = "none" =>
                "asked" \in met'[p] \/ "taken" \in met[p]]_vars
  <2>. SUFFICES ASSUME Next, NEW p \in Pots, Exists(p), row'[p] = "none"
                PROVE  "asked" \in met'[p] \/ "taken" \in met[p]
    BY <1>3
  <2>1. ASSUME NEW gone \in SUBSET Pots, OperatorDeletes(gone) PROVE "asked" \in met'[p]
    BY <2>1 DEF OperatorDeletes, DeleteRows, Exists, Meets
  <2>2. CASE \E q \in Pots : Delete(q)
    BY <2>1, <2>2 DEF Delete
  <2>3. CASE Cleanup
    <3>1. {q \in Pots : row[q] \in {"failed", "pending", "stopped"}} \in SUBSET Pots
      OBVIOUS
    <3>. QED  BY <2>1, <2>3, <3>1 DEF Cleanup
  <2>4. CASE Dispatch
    <3> DEFINE f == Head(news)
    <3>1. f \in Frame /\ news # <<>> /\ 1 \in DOMAIN news /\ f = news[1] /\ UNCHANGED met
      BY <1>3, <2>4 DEF Dispatch, Typed, TypeOK
    <3>2. CASE f.type = "status" /\ HandlePotStatus(f.pot, f.status)
      <4>0. row \in [Pots -> Status \union {"none"}]
        BY <1>3 DEF Typed, TypeOK
      <4>1. f.status = "removed" /\ f.pot = p
        BY <3>1, <3>2, <4>0, FrameKinds DEF HandlePotStatus, DeleteRows, Exists, Status
      <4>2. Due(p)
        BY <1>3, <3>1, <3>2, <4>1 DEF RemovalsAreDue, Removal
      <4>. QED  BY <3>1, <4>2 DEF Due
    <3>3. CASE f.type = "list" /\ ReconcileNodeDeployments(f.pots, f.running)
      BY <3>3 DEF ReconcileNodeDeployments, Exists
    <3>4. CASE f.type = "result" /\ HandleTaskResult(f.t, f.id, f.ok)
      BY <3>4 DEF HandleTaskResult, SetStatusById, RowsOf, Exists, rows
    <3>. QED  BY <2>4, <3>2, <3>3, <3>4 DEF Dispatch
  <2>5. CASE \E q \in Pots, cmd \in Commands \intersect Installs : CreateForNode(q, cmd)
    BY <2>5 DEF CreateForNode, Exists
  <2>6. CASE \E t \in Task : MarkInstalling(t)
    BY <2>6 DEF MarkInstalling, SetStatusById, RowsOf, Exists
  <2>7. CASE MarkOffline \/ CoreRestart
    BY <2>7 DEF MarkOffline, CoreRestart, MarkNodeDeploymentsOffline, Exists
  <2>8. CASE UNCHANGED row
    BY <2>8 DEF Exists
  <2>. QED
    BY <2>2, <2>3, <2>4, <2>5, <2>6, <2>7, <2>8
    DEF Next, Action, QueueInstall, QueueFails, Begin, Act, Tell, Boot, Answer, PotExits,
        SendExit, ListInstalled, ListSend, Connect, Disconnect, AgentRestart, rows
<1>. QED
  BY <1>1, <1>2, <1>3, TypedInvariant, PTL DEF Spec, RemovalWasRequested
=============================================================================
