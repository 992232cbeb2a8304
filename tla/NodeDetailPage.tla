--------------------------- MODULE NodeDetailPage ---------------------------
(***************************************************************************)
(* The page of one node (NodeDetailPage.tsx): the status badges of its     *)
(* honeypots, which a click changes before the server has answered and     *)
(* the next list overwrites, and the one "busy" mark they share.           *)
(*                                                                         *)
(* The server and the agent are what the page can see of them: a status    *)
(* per honeypot that an accepted request, or the agent, changes.           *)
(***************************************************************************)
EXTENDS Naturals, FiniteSets

CONSTANTS Pots, NoPot,
          MaxActions   \* bound: requests under way at once

VARIABLE view

Here == view.page = "node"

Status == {"installing", "running", "stopped", "removed"}

Acts == {"start", "stop", "restart", "remove"}

Idle == [pot |-> NoPot, act |-> "none"]

Mounted ==
  {[page |-> "node", real |-> r, badge |-> r, fetch |-> [at |-> "none", real |-> r],
    pending |-> Idle, jobs |-> {}, oneByOne |-> k]
     : r \in [Pots -> {"running", "stopped"}], k \in BOOLEAN}

Change(next) == Here /\ view' = next

\* What onMutate shows until the list comes: the first status a request of
\* this kind leads to if all goes well.
Optimistic(act) ==
  CASE act \in {"start", "restart"} -> "installing"
    [] act = "stop" -> "stopped"
    [] act = "remove" -> "removed"

-----------------------------------------------------------------------------
\* The list, which the page never abandons for what it shows already.

Asked == [at |-> "asked", real |-> view.real]

PollStarts ==
  /\ Here /\ view.fetch.at = "none"
  /\ Change([view EXCEPT !.fetch = Asked])

PollIsRead ==
  /\ Here /\ view.fetch.at = "asked"
  /\ Change([view EXCEPT !.fetch = [at |-> "read", real |-> view.real]])

PollArrives ==
  /\ Here /\ view.fetch.at = "read"
  /\ Change([view EXCEPT !.fetch.at = "none", !.badge = view.fetch.real])

-----------------------------------------------------------------------------
\* The buttons of a honeypot.

Busy(p) == view.pending.pot = p

Offered(p) ==
  LET s == view.badge[p] IN
    {a \in Acts :
       \/ a = "start" /\ s \notin {"running", "removed", "installing"}
       \/ a \in {"stop", "restart"} /\ s = "running"
       \/ a = "remove" /\ s # "removed"}

\* A variant whose "Remove" stays enabled while another request is under way.
Act_RemoveAnyway(p, act) ==
  /\ act \in Offered(p)
  /\ ~Busy(p) \/ act = "remove"
  /\ Cardinality(view.jobs) < MaxActions
  /\ view.oneByOne => \A j \in view.jobs : j.pot = p
  /\ Change([view EXCEPT !.jobs = @ \union {[pot |-> p, act |-> act, at |-> "sent"]},
                         !.pending = [pot |-> p, act |-> act],
                         !.badge[p] = Optimistic(act)])

Act(p, act) ==
  /\ act \in Offered(p)
  /\ ~Busy(p)
  /\ Cardinality(view.jobs) < MaxActions
  /\ view.oneByOne => \A j \in view.jobs : j.pot = p
  /\ Change([view EXCEPT !.jobs = @ \union {[pot |-> p, act |-> act, at |-> "sent"]},
                         !.pending = [pot |-> p, act |-> act],
                         !.badge[p] = Optimistic(act)])

\* The server accepts a request, or refuses it and changes nothing.
Serve(job) ==
  /\ job.at = "sent"
  /\ \E good \in BOOLEAN :
       Change([view EXCEPT
         !.jobs = (@ \ {job}) \union {[job EXCEPT !.at = "served"]},
         !.real[job.pot] = IF good /\ @ # "removed" THEN Optimistic(job.act) ELSE @])

\* onSettled clears the mark, whoever set it, and asks for the list again.
Settle(job) ==
  /\ job.at = "served"
  /\ Change([view EXCEPT !.jobs = @ \ {job}, !.pending = Idle, !.fetch = Asked])

\* The agent reports that a honeypot runs, failed to start or was stopped.
AgentReports(p) ==
  /\ view.real[p] # "removed"
  /\ \E s \in {"running", "stopped"} :
       s # view.real[p] /\ Change([view EXCEPT !.real[p] = s])

-----------------------------------------------------------------------------
Step ==
  /\ Here
  /\ \/ PollStarts \/ PollIsRead \/ PollArrives
     \/ \E p \in Pots, a \in Acts : Act(p, a)
     \/ \E j \in view.jobs : Serve(j)
     \/ \E j \in view.jobs : Settle(j)
     \/ \E p \in Pots : AgentReports(p)

TypeOK ==
  /\ {view.real, view.badge, view.fetch.real} \subseteq [Pots -> Status]
  /\ view.fetch.at \in {"none", "asked", "read"}
  /\ view.jobs \subseteq [pot : Pots, act : Acts, at : {"sent", "served"}]

\* A user who waits for the answer about one honeypot before he turns to
\* another never has two requests about the same one under way.  (One who does
\* not can: the first answer clears the mark of both, NodeDetailPage.tsx:438.)
OneRequestPerPot ==
  Here /\ view.oneByOne => \A i, j \in view.jobs : i.pot = j.pot => i = j
=============================================================================
