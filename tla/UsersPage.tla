----------------------------- MODULE UsersPage -----------------------------
(***************************************************************************)
(* The user administration of the dashboard (UsersPage.tsx): the cached    *)
(* list, the selection, the dialogs with their shared mutations, and the   *)
(* server's users.  The server has no rule about the last administrator    *)
(* (core/internal/api/handlers/users.go): the page's list is the guard.    *)
(*                                                                         *)
(* A "careful" user is the only one who administers, and does nothing      *)
(* while a request or the list is under way; a "hasty" one waits for       *)
(* nothing, and so does one beside "another", who changes one user.  The   *)
(* role "viewer" stands for every role other than "admin".                 *)
(***************************************************************************)
EXTENDS Naturals, FiniteSets

CONSTANTS People, Me, NoUser,
          Users,       \* kinds of user, among those above
          Few,         \* bound: who there may be where the user is not careful
          MaxRequests  \* bound: requests under way at once

VARIABLE view

Here == view.page = "users"

Roles == {"admin", "viewer"}

In(list) == {p \in People : list[p] # "gone"}
Admins(list) == {p \in People : list[p] = "admin"}

NoDialog == [kind |-> "none", who |-> NoUser, role |-> "viewer", sent |-> FALSE]

Asked == [at |-> "asked", list |-> [p \in People |-> "gone"]]

Fits(user, list) == user = "careful" \/ In(list) \subseteq Few

Mounted ==
  {m \in {[page |-> "users", srv |-> s, list |-> [p \in People |-> "gone"],
    fetch |-> Asked, filter |-> "all", selected |-> {}, busy |-> NoUser,
    dialog |-> NoDialog, jobs |-> {}, suspect |-> FALSE, user |-> c]
     : s \in {r \in [People -> Roles \union {"gone"}] : r[Me] = "admin"},
       c \in Users} : Fits(m.user, m.srv)}

Change(next) == Here /\ view' = next

Filtered ==
  IF view.filter = "all" THEN In(view.list) ELSE Admins(view.list)

IsLastAdmin(p) == view.list[p] = "admin" /\ Cardinality(Admins(view.list)) <= 1

\* Nothing is under way, and no error has left the list behind the server.
Settled ==
  view.jobs = {} /\ view.fetch.at = "none" /\ ~view.suspect

Acts == Here /\ (view.user = "careful" => Settled)

OnPage == Acts /\ view.dialog.kind = "none"

-----------------------------------------------------------------------------
\* The list is fetched when the page opens, the window gets the focus, the
\* user asks, or a mutation succeeded.

PollStarts ==
  /\ Here /\ view.fetch.at = "none"
  /\ Change([view EXCEPT !.fetch = Asked])

PollIsRead ==
  /\ Here /\ view.fetch.at = "asked"
  /\ Change([view EXCEPT !.fetch = [at |-> "read", list |-> view.srv]])

PollArrives ==
  /\ Here /\ view.fetch.at = "read"
  /\ Change([view EXCEPT !.fetch = [Asked EXCEPT !.at = "none"],
                         !.list = view.fetch.list])

\* The button, which a careful user presses once an error has been shown and
\* all that was asked has been done.
Refresh ==
  /\ Here /\ view.dialog.kind = "none"
  /\ view.user = "careful" => view.jobs = {}
  /\ Change([view EXCEPT !.fetch = Asked, !.suspect = FALSE])

-----------------------------------------------------------------------------
\* Choosing.

SetFilter ==
  /\ OnPage
  /\ \E f \in {"all", "admin"} : Change([view EXCEPT !.filter = f])

ToggleOne(p) ==
  /\ OnPage
  /\ p \in Filtered \ {Me}
  /\ Change([view EXCEPT !.selected = IF p \in @ THEN @ \ {p} ELSE @ \union {p}])

\* A variant that forgets who is signed in.
ToggleAll_Everyone ==
  /\ OnPage
  /\ Change([view EXCEPT !.selected =
       IF Filtered # {} /\ Filtered \subseteq @ THEN {} ELSE Filtered])

ToggleAll ==
  /\ OnPage
  /\ LET ids == Filtered \ {Me} IN
       Change([view EXCEPT !.selected = IF ids # {} /\ ids \subseteq @ THEN {} ELSE ids])

ClearSelection ==
  /\ OnPage
  /\ Change([view EXCEPT !.selected = {}])

-----------------------------------------------------------------------------
\* Mutations.  The rows' role selects and the edit dialog share one; opening a
\* dialog resets its mutation, and a mutation that was reset or called again
\* no longer tells the page about the earlier call.

Family(kind) == IF kind = "role" THEN "edit" ELSE kind

Unwatch(kind) ==
  {IF Family(j.kind) = Family(kind) THEN [j EXCEPT !.watched = FALSE] ELSE j
     : j \in view.jobs}

Job(kind, ids, role) ==
  [kind |-> kind, ids |-> ids, role |-> role, left |-> ids,
   failed |-> FALSE, watched |-> TRUE, told |-> FALSE]

CanBulkDelete ==
  LET users == In(view.list) \intersect view.selected IN
    /\ users # {}
    /\ Cardinality(Admins(view.list) \ users) >= 1

Opens(kind, p) ==
  view' = [view EXCEPT !.dialog = [kind |-> kind, who |-> p, sent |-> FALSE,
                                   role |-> IF kind = "edit" THEN view.list[p] ELSE "viewer"],
                       !.jobs = Unwatch(kind)]

OpenAdd == OnPage /\ Opens("add", NoUser)

OpenEdit(p) == OnPage /\ p \in Filtered /\ Opens("edit", p)

OpenDelete(p) ==
  /\ OnPage
  /\ p \in Filtered \ {Me} /\ ~IsLastAdmin(p)
  /\ Opens("delete", p)

\* A variant that asks only that somebody is selected.
OpenBulk_Any ==
  /\ OnPage
  /\ In(view.list) \intersect view.selected # {}
  /\ Opens("bulk", NoUser)

OpenBulk == OnPage /\ CanBulkDelete /\ Opens("bulk", NoUser)

PickRole(r) ==
  /\ Acts
  /\ \/ view.dialog.kind = "add"
     \/ /\ view.dialog.kind = "edit"
        /\ IsLastAdmin(view.dialog.who) => r = "admin"
  /\ Change([view EXCEPT !.dialog.role = r])

Close ==
  /\ Here /\ view.dialog.kind # "none"
  /\ Change([view EXCEPT !.dialog = NoDialog])

\* Whom the request of the open dialog is about.  A bulk deletion names the
\* selection, those no longer listed included.
Named ==
  CASE view.dialog.kind = "bulk" -> {view.selected}
    [] view.dialog.kind \in {"edit", "delete"} -> {{view.dialog.who}}
    [] view.dialog.kind = "add" ->
           {{p} : p \in {q \in People \ (In(view.srv) \union In(view.list)) :
                           Fits(view.user, [view.srv EXCEPT ![q] = "viewer"])}}

Submit ==
  /\ Acts /\ view.dialog.kind # "none" /\ ~view.dialog.sent
  /\ Cardinality(view.jobs) < MaxRequests
  /\ \E ids \in Named :
       Change([view EXCEPT
         !.dialog.sent = TRUE,
         !.jobs = Unwatch(view.dialog.kind)
                    \union {Job(view.dialog.kind, ids, view.dialog.role)}])

\* A variant whose select is not locked for the last administrator.
ChangeRole_Unlocked(p, role) ==
  /\ OnPage
  /\ p \in Filtered /\ view.busy # p /\ role # view.list[p]
  /\ Cardinality(view.jobs) < MaxRequests
  /\ Change([view EXCEPT !.busy = p,
                         !.jobs = Unwatch("role") \union {Job("role", {p}, role)}])

ChangeRole(p, role) ==
  /\ OnPage
  /\ p \in Filtered /\ view.busy # p /\ role # view.list[p]
  /\ ~IsLastAdmin(p)
  /\ Cardinality(view.jobs) < MaxRequests
  /\ Change([view EXCEPT !.busy = p,
                         !.jobs = Unwatch("role") \union {Job("role", {p}, role)}])

-----------------------------------------------------------------------------
\* The server handles the parts of a request in any order; a part may fail.

Serve(j, p) ==
  \E good \in BOOLEAN :
    LET left == [j EXCEPT !.left = @ \ {p}, !.failed = @ \/ ~good] IN
      /\ p \in j.left
      /\ Change([view EXCEPT
           !.jobs = (@ \ {j}) \union (IF j.told /\ left.left = {} THEN {} ELSE {left}),
           !.srv[p] = IF ~good THEN @
                      ELSE CASE j.kind \in {"delete", "bulk"} -> "gone"
                             [] j.kind = "add" -> j.role
                             [] OTHER -> IF @ = "gone" THEN @ ELSE j.role])

\* A success asks for the list and closes the dialog of its kind, whoever it
\* is open for.
Succeeds(j) ==
  /\ ~j.told /\ j.left = {} /\ ~j.failed
  /\ Change([view EXCEPT
       !.jobs = @ \ {j}, !.fetch = Asked,
       !.selected = IF j.kind = "bulk" THEN {} ELSE @,
       !.busy = IF j.kind = "role" /\ j.watched THEN NoUser ELSE @,
       !.dialog = IF @.kind = Family(j.kind) THEN NoDialog ELSE @])

\* A variant of the failure that leaves the row busy.
Fails_StaysBusy(j) ==
  /\ ~j.told /\ j.failed
  /\ Change([view EXCEPT
       !.jobs = (@ \ {j}) \union (IF j.left = {} THEN {} ELSE {[j EXCEPT !.told = TRUE]}),
       !.suspect = TRUE,
       !.dialog.sent = @ /\ ~(j.watched /\ view.dialog.kind = Family(j.kind))])

\* The first part that fails is an error for all: nothing is asked for, though
\* other parts have been, or will still be, done.
Fails(j) ==
  /\ ~j.told /\ j.failed
  /\ Change([view EXCEPT
       !.jobs = (@ \ {j}) \union (IF j.left = {} THEN {} ELSE {[j EXCEPT !.told = TRUE]}),
       !.suspect = TRUE,
       !.busy = IF j.kind = "role" /\ j.watched THEN NoUser ELSE @,
       !.dialog.sent = @ /\ ~(j.watched /\ view.dialog.kind = Family(j.kind))])

\* Another administrator, whose list is right; bound: once.
Elsewhere(p) ==
  /\ view.user = "another"
  /\ view.srv[p] # "gone" /\ Admins(view.srv) # {p}
  /\ \E r \in Roles \union {"gone"} :
       r # view.srv[p] /\ Change([view EXCEPT !.srv[p] = r, !.user = "hasty"])

-----------------------------------------------------------------------------
\* The score of the page's head, and the first of its hints.  The roles here
\* are "admin" and all the others; how many people have a role with
\* permissions, and how many are plain viewers, is left open.

Base(admins) == 100 - (CASE admins = 0 -> 60 [] admins = 1 -> 25 [] OTHER -> 0)

\* A variant that takes more off where nobody is a viewer.
Score_Stricter(privileged, viewers) ==
  LET total == Cardinality(In(view.list)) IN
    Base(Cardinality(Admins(view.list)))
      - (IF privileged * 10 > total * 6 THEN 15 ELSE 0)
      - (IF total > 1 /\ viewers = 0 THEN 10 ELSE 0)

Score(privileged, viewers) ==
  LET total == Cardinality(In(view.list)) IN
    Base(Cardinality(Admins(view.list)))
      - (IF privileged * 10 > total * 6 THEN 15 ELSE 0)
      - (IF total > 1 /\ viewers = 0 THEN 5 ELSE 0)

Posture(score) ==
  IF score >= 80 THEN "Healthy" ELSE IF score >= 50 THEN "Needs attention" ELSE "At risk"

FirstInsight ==
  LET admins == Cardinality(Admins(view.list)) IN
    IF admins = 0 THEN "No administrators"
    ELSE IF admins = 1 THEN "Single administrator" ELSE "Redundant"

-----------------------------------------------------------------------------
Data ==
  \/ PollStarts \/ PollIsRead \/ PollArrives
  \/ \E j \in view.jobs : \E p \in j.left : Serve(j, p)
  \/ \E j \in view.jobs : Succeeds(j)
  \/ \E j \in view.jobs : Fails(j)
  \/ \E p \in People : Elsewhere(p)

User ==
  \/ Refresh \/ SetFilter \/ ToggleAll \/ ClearSelection
  \/ OpenAdd \/ OpenBulk \/ Close \/ Submit
  \/ \E p \in People : ToggleOne(p)
  \/ \E p \in People : OpenEdit(p)
  \/ \E p \in People : OpenDelete(p)
  \/ \E r \in Roles : PickRole(r)
  \/ \E p \in People, r \in Roles : ChangeRole(p, r)

Step == Here /\ (Data \/ User)

-----------------------------------------------------------------------------
TypeOK ==
  /\ {view.srv, view.list, view.fetch.list} \subseteq [People -> Roles \union {"gone"}]
  /\ view.fetch.at \in {"none", "asked", "read"}
  /\ view.selected \subseteq People
  /\ view.busy \in People \union {NoUser}
  /\ view.dialog.who \in People \union {NoUser}
  /\ \A j \in view.jobs : j.left \subseteq j.ids

\* A careful administrator cannot leave the organisation without one, by any
\* sequence of role changes, deletions and bulk deletions, failed ones
\* included: the server has no such rule, the page's locks are the only one
\* (UsersPage.tsx:285,294).
AdminStays == Here /\ view.user = "careful" => Admins(view.srv) # {}

\* No request deletes the user who is signed in: neither a row's button nor a
\* selection, whatever was filtered and listed when it was made
\* (UsersPage.tsx:288,456).
NeverMyself ==
  Here => \A j \in view.jobs : j.kind \in {"delete", "bulk"} => Me \notin j.ids

\* To a careful user no row stays locked as "busy" once its request has been
\* answered, refused ones included.  (To others it can: opening the edit
\* dialog resets the mutation, and the mark is never cleared,
\* UsersPage.tsx:299,455.)
NoRowStaysBusy ==
  Here /\ view.user = "careful" /\ view.jobs = {} => view.busy = NoUser

\* The posture and the hint beside it agree, whatever the other roles are:
\* "Healthy" is shown exactly where the first hint is that there is more than
\* one administrator (UsersPage.tsx:253-261,340,624-628).
PostureAgrees ==
  Here => \A privileged \in Cardinality(Admins(view.list)) .. Cardinality(In(view.list)) :
            \A viewers \in 0 .. Cardinality(In(view.list)) - Cardinality(Admins(view.list)) :
              Posture(Score(privileged, viewers)) = "Healthy" <=> FirstInsight = "Redundant"
=============================================================================
