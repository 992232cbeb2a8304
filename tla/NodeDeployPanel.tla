-------------------------- MODULE NodeDeployPanel --------------------------
(***************************************************************************)
(* The page of one node (NodeDetailPage.tsx): its dialog that deploys a    *)
(* honeypot, which predicts the name the new instance will get, and the    *)
(* panel with the log of one deployment.  The server chooses the name in   *)
(* one statement and stores it in another (deployments.go, CreateForNode), *)
(* and other clients do the same at the same time.                         *)
(***************************************************************************)
EXTENDS Naturals, FiniteSets, FiniteSetsExt

CONSTANTS Kinds,     \* types of honeypots
          MaxRows    \* bound: requests for a deployment, of all clients

VARIABLE view

Here == view.page = "node-deploy"

\* A deployment: its row, its type, its name (a prefix and a number), and
\* whether it is still being set up.
Row ==
  [id : 1 .. MaxRows, type : Kinds, prefix : Kinds, n : 1 .. MaxRows + 1,
   status : {"pending", "running", "failed"}]

Closed == [open |-> FALSE, type |-> "", pending |-> FALSE, error |-> FALSE]

Mounted ==
  {[page |-> "node-deploy", deps |-> {}, list |-> {}, modal |-> Closed, jobs |-> {}, made |-> 0, active |-> 0, named |-> k] : k \in BOOLEAN}

Change(next) == Here /\ view' = next

\* The highest number so far, or zero.
Highest(rows) == IF rows = {} THEN 0 ELSE Max({r.n : r \in rows})

\* A variant that leaves failed deployments out.
Predicted_NotFailed(type) ==
  Highest({r \in view.list : r.prefix = type /\ r.status # "failed"}) + 1

\* The dialog goes by the names it knows.
Predicted(type) == Highest({r \in view.list : r.prefix = type}) + 1

\* The server goes by the type, and then by the name.
NextPotID(type) == Highest({r \in view.deps : r.type = type /\ r.prefix = type}) + 1

-----------------------------------------------------------------------------
\* The list is asked for every five seconds and after a deployment.  It may stay
\* as old as it is for any time, which also stands for an answer that is late.
ListArrives == Here /\ view.list # view.deps /\ Change([view EXCEPT !.list = view.deps])

-----------------------------------------------------------------------------
\* The dialog.  Closing it while its request is under way does not stop the
\* request; opening it again gives a dialog that knows nothing of it.

OpenModal ==
  /\ Here /\ ~view.modal.open
  /\ \E type \in Kinds : Change([view EXCEPT !.modal = [Closed EXCEPT !.open = TRUE, !.type = type]])

ChooseType ==
  /\ Here /\ view.modal.open
  /\ \E type \in Kinds \ {view.modal.type} : Change([view EXCEPT !.modal.type = type])

CloseModal == Here /\ view.modal.open /\ Change([view EXCEPT !.modal = Closed,
  !.jobs = {[j EXCEPT !.by = IF @ = "dialog" THEN "left" ELSE @] : j \in @}])

Request(by, type, prefix) ==
  [k |-> view.made + 1, by |-> by, type |-> type, prefix |-> prefix, at |-> "sent", n |-> 0]

Deploy ==
  /\ Here /\ view.modal.open /\ ~view.modal.pending
  /\ view.made < MaxRows
  /\ Change([view EXCEPT !.modal.pending = TRUE, !.modal.error = FALSE, !.made = @ + 1,
       !.jobs = @ \union {Request("dialog", view.modal.type, view.modal.type)}])

\* Another client deploys on this node: through a dialog like this one or,
\* where `named` allows it, with a name of its own.
DeployElsewhere ==
  /\ Here /\ view.made < MaxRows
  /\ \E type, prefix \in Kinds :
       /\ prefix # type => view.named
       /\ Change([view EXCEPT !.made = @ + 1,
            !.jobs = @ \union {Request("other", type, prefix)}])

-----------------------------------------------------------------------------
\* The server.

Becomes(job, next) == [view EXCEPT !.jobs = (@ \ {job}) \union {next}]

ChooseName(job) ==
  /\ job.at = "sent"
  /\ Change(Becomes(job, [job EXCEPT !.at = "named",
       !.n = IF job.prefix = job.type THEN NextPotID(job.type) ELSE 1]))

Taken(job) == \E r \in view.deps : r.prefix = job.prefix /\ r.n = job.n

\* A variant whose table has no key over the node and the name.
Store_NoKey(job) ==
  /\ job.at = "named"
  /\ Change([Becomes(job, [job EXCEPT !.at = "stored"]) EXCEPT
       !.deps = @ \union {[id |-> job.k, type |-> job.type, prefix |-> job.prefix,
                           n |-> job.n, status |-> "pending"]}])

Store(job) ==
  /\ job.at = "named"
  /\ IF Taken(job) THEN Change(Becomes(job, [job EXCEPT !.at = "refused"]))
     ELSE Change([Becomes(job, [job EXCEPT !.at = "stored"]) EXCEPT
       !.deps = @ \union {[id |-> job.k, type |-> job.type, prefix |-> job.prefix,
                           n |-> job.n, status |-> "pending"]}])

\* The answer opens the log of what was deployed and closes the dialog, be it
\* the one that asked or one opened since.
Settle(job) ==
  /\ job.at = "stored"
  /\ Change([view EXCEPT
       !.active = IF job.by = "other" THEN @ ELSE job.k,
       !.modal = IF job.by = "other" THEN @ ELSE Closed,
       !.jobs = {[j EXCEPT !.by = IF @ = "dialog" /\ job.by # "other" THEN "left" ELSE @]
                   : j \in @ \ {job}}])

\* A variant whose dialog waits on.
Refused_Silently(job) ==
  /\ job.at = "refused"
  /\ Change([view EXCEPT !.jobs = @ \ {job}])

Refused(job) ==
  /\ job.at = "refused"
  /\ Change([view EXCEPT !.jobs = @ \ {job},
       !.modal = IF job.by = "dialog" THEN [@ EXCEPT !.pending = FALSE, !.error = TRUE] ELSE @])

\* The agent reports, or the row goes with the honeypot.
AgentReports(r) ==
  \/ \E s \in {"running", "failed"} \ {r.status} :
       Change([view EXCEPT !.deps = (@ \ {r}) \union {[r EXCEPT !.status = s]}])
  \/ Change([view EXCEPT !.deps = @ \ {r}])

-----------------------------------------------------------------------------
\* The log.

ActiveDep == {r \in view.list : r.id = view.active}

Live == view.active # 0 /\ \A r \in ActiveDep : r.status = "pending"

ToggleLogs ==
  /\ Here
  /\ \E r \in view.list : Change([view EXCEPT !.active = IF @ = r.id THEN 0 ELSE r.id])

CloseLogs == Here /\ view.active # 0 /\ Change([view EXCEPT !.active = 0])

Step ==
  /\ Here
  /\ \/ ListArrives
     \/ OpenModal \/ ChooseType \/ CloseModal \/ Deploy \/ DeployElsewhere
     \/ \E j \in view.jobs : ChooseName(j) \/ Store(j) \/ Settle(j) \/ Refused(j)
     \/ \E r \in view.deps : AgentReports(r)
     \/ ToggleLogs \/ CloseLogs

TypeOK ==
  /\ view.deps \union view.list \subseteq Row
  /\ view.modal.open => view.modal.type \in Kinds
  /\ view.active \in 0 .. MaxRows

\* No two deployments of the node have one name, although the server looks
\* for a free one before it stores it (deployments.go:70, 81).
NamesAreUnique ==
  Here => \A r, s \in view.deps : r.prefix = s.prefix /\ r.n = s.n => r = s

\* The dialog waits only for a request that is under way
\* (NodeDetailPage.tsx:207).
DialogIsAnswered ==
  Here /\ view.modal.pending => \E j \in view.jobs : j.by = "dialog"

\* The number the dialog predicts is the one the server chooses, whenever the
\* page knows the deployments the server has; unless a client gave one type's
\* name to a deployment of another (NodeDetailPage.tsx:87, store/deployments.go:48).
PredictionIsKept ==
  [][Here /\ ~view.named /\ view.list = view.deps /\ view'.page = view.page =>
       \A j \in view'.jobs \ view.jobs :
         j.at = "named" /\ j.by = "dialog" => j.n = Predicted(j.type)]_view
=============================================================================
